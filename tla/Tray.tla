-------------------------------- MODULE Tray --------------------------------
(***************************************************************************)
(* The tray program on Windows (playitd-tray): a window thread that never   *)
(* blocks, a backend thread that asks for and changes the state of the      *)
(* service, two bounded channels between them and a message that wakes the  *)
(* window.  A menu is modal, but its message loop goes on handling timers   *)
(* and answers.  The user opens one menu at a time.  What only opens        *)
(* another program or changes a label or a shortcut is left out.  Calls of  *)
(* the system and of the daemon fail, and a call of the daemon may not      *)
(* return.                                                                  *)
(***************************************************************************)
EXTENDS Integers, Sequences, FiniteSets

CONSTANTS
    RequestRoom,    \* capacity of the channel to the backend (8)
    ResponseRoom,   \* capacity of the channel to the window (4)
    MaxEvents       \* bound: events of the user that wait for the window

VARIABLES
    service,    \* whether the service runs
    ui,         \* AppState
    events,     \* ui_event_queue
    requests,   \* to the backend
    responses,  \* to the window
    wake,       \* PROCESS_BACKEND_RESPONSES_MESSAGE is posted
    backend     \* the request in progress and its snapshot

tray == <<service, ui, events, requests, responses, wake, backend>>

ServiceActions == {"StartService", "StopService"}
BackendRequest == ServiceActions \cup {"RefreshStatus", "ResetAgent"}
Waiting == [pc |-> "recv", request |-> "none", running |-> FALSE, reset |-> FALSE]

(* The flags of AppState, the tooltip that is shown, and two marks of what   *)
(* happened: the last set_tooltip failed (stale), and an action of the user  *)
(* was given up after it was marked as pending (jammed).                     *)
Closed == [open |-> FALSE, running |-> FALSE, reset |-> FALSE, inflight |-> FALSE,
           again |-> FALSE, pending |-> FALSE, menu |-> FALSE, dirty |-> FALSE, tip |-> FALSE,
           stale |-> FALSE, jammed |-> FALSE]

(* AppState::new.  The state of the service is asked for without the         *)
(* backend; the answer may be wrong.                                         *)
TrayInit ==
    /\ service \in BOOLEAN
    /\ \E run \in BOOLEAN : ui = [Closed EXCEPT !.open = TRUE, !.running = run, !.tip = run]
    /\ events = <<"InitTray">>
    /\ requests = <<>> /\ responses = <<>> /\ wake = FALSE
    /\ backend = [Waiting EXCEPT !.pc = "start"]

---------------------------------------------------------------------------
Applied(u) == [ok |-> TRUE, state |-> u]
Unapplied(u) == [ok |-> FALSE, state |-> u]

Dirty(u, changed) == u.dirty \/ changed

(* What the items of the menu depend on, and the tooltip unless a menu is    *)
(* open.  A tooltip that cannot be set stays as it was, and what marked it   *)
(* as due does too.                                                          *)
apply_service_state(u, run, reset) ==
    LET changed == u.running # run
        new == [u EXCEPT !.running = run, !.reset = reset]
    IN IF u.menu THEN {Applied([new EXCEPT !.dirty = Dirty(u, changed)])}
       ELSE IF changed \/ u.dirty
       THEN {Applied([new EXCEPT !.tip = run, !.dirty = FALSE, !.stale = FALSE]),
             Unapplied([new EXCEPT !.stale = TRUE])}
       ELSE {Applied(new)}

SetPending(u, p) == apply_service_state([u EXCEPT !.pending = p], u.running, u.reset)

Full == Len(requests) >= RequestRoom
Gone == backend.pc = "exit"     \* the channel is closed: the thread is gone

(* Mutated form: a refresh counts as sent although the channel was full. *)
CountedAsSent(u) == [u EXCEPT !.inflight = TRUE]
PutOff(u) == [u EXCEPT !.again = TRUE]

(* What becomes of the window u when its request r was not sent: a refresh   *)
(* is put off or, without a backend, given up; an action is no longer        *)
(* pending.                                                                  *)
Refused(u, r) ==
    CASE r = "RefreshStatus" -> {IF Gone THEN [u EXCEPT !.inflight = FALSE] ELSE PutOff(u)}
      [] r \in ServiceActions -> {a.state : a \in SetPending(u, FALSE)}
      [] OTHER -> {u}

Sent(u, r) == IF r = "RefreshStatus" THEN [u EXCEPT !.inflight = TRUE] ELSE u

(* Requests never wait: a refresh is merged with the one in flight or put    *)
(* off, an action of the user is refused when the channel is full.  An       *)
(* action is marked as pending first; when the tooltip cannot be set then,   *)
(* nothing is sent and the mark stays.                                       *)
dispatch_request(u, r) ==
    IF r = "RefreshStatus" /\ u.inflight
    THEN ui' = PutOff(u) /\ UNCHANGED requests
    ELSE \E a \in IF r \in ServiceActions THEN SetPending(u, TRUE) ELSE {Applied(u)} :
           \/ /\ ~a.ok
              /\ ui' = [a.state EXCEPT !.jammed = TRUE] /\ UNCHANGED requests
           \/ /\ a.ok /\ ~Full /\ ~Gone
              /\ ui' = Sent(a.state, r) /\ requests' = Append(requests, r)
           \/ /\ a.ok /\ (Full \/ Gone)
              /\ ui' \in Refused(a.state, r) /\ UNCHANGED requests

(* WM_DESTROY and WM_NCDESTROY after the requests q: the backend is told if  *)
(* there is room, and sees its channels closed in any case.                  *)
DestroyWindow(q) ==
    /\ ui' = Closed
    /\ requests' = IF Len(q) >= RequestRoom \/ Gone THEN q ELSE Append(q, "Shutdown")

(* The icon, the first refresh and the timer; without one of them the tray   *)
(* closes.                                                                   *)
initialize_tray ==
    \/ ~Gone /\ dispatch_request(ui, "RefreshStatus")
    \/ DestroyWindow(requests)
    \/ ~Gone /\ DestroyWindow(Append(requests, "RefreshStatus"))

Initialized == events # <<"InitTray">>

(* Mutated form: the timer is never set. *)
NoTimer == FALSE

(* WM_TIMER. *)
timer ==
    /\ ui.open /\ Initialized
    /\ dispatch_request(ui, "RefreshStatus")
    /\ UNCHANGED <<service, events, responses, wake, backend>>

---------------------------------------------------------------------------
(* The items that send something: enabled as apply_service_state set them.    *)
Enabled ==
    {"Close"} \cup (IF ui.reset THEN {"ResetAgent"} ELSE {})
    \cup (IF ui.pending THEN {} ELSE IF ui.running THEN {"StopService"} ELSE {"StartService"})

click ==
    /\ ui.open /\ ~ui.menu /\ Initialized
    /\ Len(events) < MaxEvents /\ \A i \in DOMAIN events : events[i] # "RightClick"
    /\ events' = Append(events, "RightClick")
    /\ UNCHANGED <<service, ui, requests, responses, wake, backend>>

(* show_tray_menu returns: a refresh is queued behind what was chosen.       *)
show_tray_menu ==
    /\ ui.open /\ ui.menu
    /\ ui' = [ui EXCEPT !.menu = FALSE]
    /\ \/ events' = Append(events, "RefreshAfterMenu")
       \/ \E m \in Enabled : events' = events \o <<m, "RefreshAfterMenu">>
    /\ UNCHANGED <<service, requests, responses, wake, backend>>

(* Closing: the user may cancel when the service runs; removing the shortcut *)
(* may fail.                                                                 *)
handle_menu_event(m) ==
    IF m = "Close" THEN DestroyWindow(requests) \/ UNCHANGED <<ui, requests>>
    ELSE dispatch_request(ui, m)

(* One event of the queue; while a menu is open the queue is empty.          *)
process_ui_events ==
    /\ ui.open /\ events # <<>>
    /\ events' = Tail(events)
    /\ CASE Head(events) = "InitTray" -> initialize_tray
         [] Head(events) = "RightClick" -> ui' = [ui EXCEPT !.menu = TRUE] /\ UNCHANGED requests
         [] Head(events) = "RefreshAfterMenu" -> dispatch_request(ui, "RefreshStatus")
         [] OTHER -> handle_menu_event(Head(events))
    /\ UNCHANGED <<service, responses, wake, backend>>

---------------------------------------------------------------------------
(* One answer per step until there is none.  An error is only shown. *)
process_backend_responses ==
    /\ ui.open /\ wake
    /\ IF responses = <<>> THEN wake' = FALSE /\ UNCHANGED <<ui, requests, responses>>
       ELSE LET r == Head(responses)
                landed == [ui EXCEPT !.inflight = @ /\ r.request # "RefreshStatus",
                                     !.pending = @ /\ r.request \notin ServiceActions]
            IN /\ responses' = Tail(responses)
               /\ \E a \in apply_service_state(landed, r.running, r.reset) :
                    IF r.request = "RefreshStatus" /\ a.state.again
                    THEN dispatch_request([a.state EXCEPT !.again = FALSE], "RefreshStatus")
                    ELSE ui' = a.state /\ UNCHANGED requests
               /\ UNCHANGED wake
    /\ UNCHANGED <<service, events, backend>>

---------------------------------------------------------------------------
(* The backend thread. *)
Backend(pc, new) ==
    /\ backend.pc = pc
    /\ backend' = new
    /\ UNCHANGED <<ui, events>>

(* The runtime of the thread is built, or the thread panics. *)
start ==
    /\ \E pc \in {"recv", "exit"} : Backend("start", [Waiting EXCEPT !.pc = pc])
    /\ UNCHANGED <<service, requests, responses, wake>>

(* A refresh needs no action before the queries. *)
Handling(request) == IF request = "RefreshStatus" THEN "query" ELSE "act"

recv ==
    /\ \/ /\ requests # <<>>
          /\ requests' = Tail(requests)
          /\ Backend("recv", IF Head(requests) = "Shutdown" THEN [Waiting EXCEPT !.pc = "exit"]
                             ELSE [Waiting EXCEPT !.pc = Handling(Head(requests)),
                                                  !.request = Head(requests)])
       \/ /\ requests = <<>> /\ ~ui.open
          /\ Backend("recv", [Waiting EXCEPT !.pc = "exit"]) /\ UNCHANGED requests
    /\ UNCHANGED <<service, responses, wake>>

(* What the three actions may leave of the service; all of them can fail.    *)
start_service_async == {service, TRUE}
stop_service_async == {service, FALSE}
reset_agent_async == {service, FALSE}

handle_request ==
    /\ Backend("act", [backend EXCEPT !.pc = "query"])
    /\ service' \in CASE backend.request = "StartService" -> start_service_async
                      [] backend.request = "StopService" -> stop_service_async
                      [] OTHER -> reset_agent_async
    /\ UNCHANGED <<requests, responses, wake>>

(* A query that fails says that the service does not run; without the        *)
(* service there is no agent to reset.                                       *)
query_service_running ==
    /\ \E run \in {service, FALSE} :
         Backend("query", [backend EXCEPT !.pc = IF run THEN "lifecycle" ELSE "send",
                                          !.running = run])
    /\ UNCHANGED <<service, requests, responses, wake>>

(* By the lifecycle: not while the service waits for a secret or stops, but  *)
(* when it cannot be asked.                                                  *)
query_reset_agent_enabled ==
    /\ \E b \in BOOLEAN : Backend("lifecycle", [backend EXCEPT !.pc = "send", !.reset = b])
    /\ UNCHANGED <<service, requests, responses, wake>>

Posting == [Waiting EXCEPT !.pc = "post"]

(* The answer waits for room, then the window is woken. *)
respond ==
    \/ /\ ui.open /\ Len(responses) < ResponseRoom
       /\ responses' = Append(responses, [request |-> backend.request,
                                          running |-> backend.running, reset |-> backend.reset])
       /\ Backend("send", Posting)
       /\ UNCHANGED <<service, requests, wake>>
    \/ /\ ~ui.open
       /\ Backend("send", [Waiting EXCEPT !.pc = "exit"])
       /\ UNCHANGED <<service, requests, responses, wake>>
    \/ /\ Backend("post", Waiting)
       /\ wake' = TRUE
       /\ UNCHANGED <<service, requests, responses>>

BackendStep ==
    start \/ recv \/ handle_request \/ query_service_running \/ query_reset_agent_enabled \/ respond

(* Others start and stop the service too. *)
service_changes ==
    /\ service' = ~service
    /\ UNCHANGED <<ui, events, requests, responses, wake, backend>>

Window == timer \/ process_ui_events \/ process_backend_responses
TrayNext == Window \/ click \/ show_tray_menu \/ BackendStep \/ service_changes

(* The backend is in a call of the daemon or of the service manager, which   *)
(* has no deadline of its own.                                               *)
InCall == backend.pc \in {"act", "lifecycle"}

(* Both threads run and the timer fires; the user need not do anything, and  *)
(* a call of the daemon need not return.                                     *)
TraySpec == TrayInit /\ [][TrayNext]_tray
TrayFair ==
    /\ WF_tray(timer) /\ WF_tray(process_ui_events)
    /\ WF_tray(process_backend_responses) /\ WF_tray(~InCall /\ BackendStep)
TrayFairSpec == TraySpec /\ TrayFair

---------------------------------------------------------------------------
InFlight(kinds) ==
    Cardinality({i \in DOMAIN requests : requests[i] \in kinds})
    + Cardinality({i \in DOMAIN responses : responses[i].request \in kinds})
    + (IF backend.request \in kinds THEN 1 ELSE 0)

(* Type correctness; the channels keep within their capacities. *)
TrayTypeOK ==
    /\ service \in BOOLEAN
    /\ ui \in [open : BOOLEAN, running : BOOLEAN, reset : BOOLEAN, inflight : BOOLEAN,
               again : BOOLEAN, pending : BOOLEAN, menu : BOOLEAN, dirty : BOOLEAN,
               tip : BOOLEAN, stale : BOOLEAN, jammed : BOOLEAN]
    /\ Len(requests) <= RequestRoom /\ Len(responses) <= ResponseRoom
    /\ backend.pc \in {"start", "recv", "act", "query", "lifecycle", "send", "post", "exit"}

(* The two flags of dispatch_request tell the truth: a refresh is in flight   *)
(* exactly when refresh_inflight is set, an action exactly when              *)
(* service_action_pending is, and never two of either, however clicks,       *)
(* timers, full channels and answers under an open menu interleave.  The one *)
(* exception is an action that was marked and then given up because the      *)
(* tooltip could not be set (frontend.rs:552-554): its mark stays for good,  *)
(* with nothing in flight.                                                   *)
FlagsMatchFlight ==
    ui.open => /\ InFlight({"RefreshStatus"}) = (IF ui.inflight THEN 1 ELSE 0)
               /\ InFlight(ServiceActions) = (IF ui.pending /\ ~ui.jammed THEN 1 ELSE 0)
               /\ ui.jammed => ui.pending

(* A tooltip that is not up to date is marked for the next update, also when *)
(* several answers arrive under an open menu, unless the last attempt to set *)
(* it failed (apply_service_state).                                          *)
TooltipIsTracked == ui.tip # ui.running => ui.dirty \/ ui.stale

(* An answer that waits has its wake-up posted or about to be: none is left   *)
(* for the next one (TrayBackend::new).                                       *)
AnswersAreAnnounced == ui.open /\ responses # <<>> => wake \/ backend.pc = "post"

(* Nothing is lost between window and backend: no request, no answer and no  *)
(* change of the tooltip but those that a failing set_tooltip loses.         *)
NothingIsLost == FlagsMatchFlight /\ TooltipIsTracked /\ AnswersAreAnnounced

(* Whatever was lost to full channels and failed queries, the menu in the    *)
(* end shows the state of the service and keeps showing it, once the service *)
(* keeps its state, its queries succeed and the calls of the backend return: *)
(* unless the tray is closed or its backend thread never came up.            *)
MenuFollowsService ==
    (/\ <>[][UNCHANGED service]_service
     /\ <>[][query_service_running => backend'.running = service]_tray
     /\ []<>~InCall)
    => <>(~ui.open \/ backend.pc = "exit") \/ <>[](ui.running = service)
=============================================================================
