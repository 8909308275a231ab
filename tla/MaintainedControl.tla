-------------------------- MODULE MaintainedControl --------------------------
(***************************************************************************)
(* The control connection of the agent: MaintainedControl, with the        *)
(* EstablishedControl and ConnectedControl it owns, driven by the tunnel   *)
(* task of PlayitAgent::run.  One task owns all of this state; it gives up *)
(* the processor at each await, and each action below is what the task     *)
(* does between two awaits.  What an await returns (an answer of the API,  *)
(* a datagram, a timeout, an error) is an arbitrary choice here; module    *)
(* ControlServer constrains it.                                            *)
(*                                                                         *)
(* Time is abstracted to what the comparisons of the code can tell:        *)
(* last_pong is zero, recent or older than 6s; the set-up deadline is      *)
(* absent, running or passed.                                              *)
(***************************************************************************)
EXTENDS Naturals

CONSTANTS
  Flows,         \* pairs (client_addr, tunnel_addr) a Pong can carry
  Host(_),       \* the client ip and tunnel_addr of a flow, without the port
  Targets,       \* lists of control addresses the API can return
  MaxFailures,   \* where the u32 failure counter saturates
  None           \* no value

HARD_RECONNECT_FAILURE_THRESHOLD == 3

ASSUME FlowsAssumption == None \notin Flows /\ None \notin Targets
ASSUME FailuresAssumption ==
  MaxFailures \in Nat /\ MaxFailures >= HARD_RECONNECT_FAILURE_THRESHOLD

VARIABLES
  pc,                       \* the await the tunnel task is at
  control_state,            \* value of the watch channel
  soft_reconnect_failures,
  hard_reconnect_requested,
  last_pong,                \* "zero", "recent" or "old"
  last_control_targets,
  force_expired,
  at_auth,                  \* pong_at_auth: its flow and whether it has session_expire_at
  session_setup_deadline,   \* None, "running" or "passed"
  latest,                   \* conn.pong_latest
  call                      \* locals of the reload or authentication in progress

control == <<control_state, soft_reconnect_failures, hard_reconnect_requested,
             last_pong, last_control_targets>>
established == <<force_expired, at_auth, session_setup_deadline, latest>>
vars == <<pc, control, established, call>>

Pong == [flow : Flows, session : BOOLEAN]

NoCall == [force |-> FALSE, addresses |-> None, connected |-> None, auth_pong |-> None]

Calls == [force : BOOLEAN, addresses : Targets \cup {None},
          connected : Pong \cup {None}, auth_pong : Flows \cup {None}]

Points == {"top", "reload", "addresses", "connect", "replace", "update", "auth",
           "ping", "keep_alive", "recv", "stopped"}

(* Every variable keeps to its type: in particular the failure counter     *)
(* stays within the range of its integer type, and a reload has fetched    *)
(* the addresses and a Pong by the time it uses them.                      *)
TypeOK ==
  /\ pc \in Points
  /\ control_state \in {"Connected", "Reconnecting"}
  /\ soft_reconnect_failures \in 0..MaxFailures
  /\ hard_reconnect_requested \in BOOLEAN
  /\ last_pong \in {"zero", "recent", "old"}
  /\ last_control_targets \in Targets
  /\ force_expired \in BOOLEAN
  /\ at_auth \in Pong
  /\ session_setup_deadline \in {None, "running", "passed"}
  /\ latest \in Pong
  /\ call \in Calls
  /\ pc \in {"connect", "replace"} => call.addresses \in Targets
  /\ pc = "replace" => call.connected \in Pong

-----------------------------------------------------------------------------
(* EstablishedControl::is_expired and the two changes of the failure count *)

flow_changed == latest.flow # at_auth.flow

is_expired ==
  \/ force_expired
  \/ ~at_auth.session /\ session_setup_deadline # "running"
  \/ flow_changed

set_expired == force_expired' = TRUE

(* Mutated form: one failure too few asks for the hard reconnect.           *)
note_control_failure_early ==
  LET failures == IF soft_reconnect_failures < MaxFailures
                  THEN soft_reconnect_failures + 1
                  ELSE MaxFailures
  IN  /\ soft_reconnect_failures' = failures
      /\ hard_reconnect_requested' =
           (hard_reconnect_requested \/ failures + 1 >= HARD_RECONNECT_FAILURE_THRESHOLD)

note_control_failure ==
  LET failures == IF soft_reconnect_failures < MaxFailures
                  THEN soft_reconnect_failures + 1
                  ELSE MaxFailures
  IN  /\ soft_reconnect_failures' = failures
      /\ hard_reconnect_requested' =
           (hard_reconnect_requested \/ failures >= HARD_RECONNECT_FAILURE_THRESHOLD)

forget_failures ==
  /\ soft_reconnect_failures' = 0
  /\ hard_reconnect_requested' = FALSE

DeadlineFor(session) == IF session THEN None ELSE "running"

(* MaintainedControl::setup, once it has succeeded                         *)
Init ==
  /\ pc = "top"
  /\ control_state = "Connected"
  /\ soft_reconnect_failures = 0
  /\ hard_reconnect_requested = FALSE
  /\ last_pong = "recent"
  /\ last_control_targets \in Targets
  /\ force_expired = FALSE
  /\ latest \in Pong
  /\ at_auth = latest
  /\ session_setup_deadline = DeadlineFor(latest.session)
  /\ call = NoCall

-----------------------------------------------------------------------------
(* The loop first renews the udp session: send_udp_session_auth is skipped *)
(* (nothing to renew, or less than 5s since the last), succeeds or fails.  *)

UdpAuthSucceeds ==
  /\ pc = "top"
  /\ pc' = "reload"
  /\ UNCHANGED <<control, established, call>>

UdpAuthFails ==
  /\ pc = "top"
  /\ pc' = "reload"
  /\ note_control_failure
  /\ set_expired
  /\ UNCHANGED <<control_state, last_pong, last_control_targets,
                 at_auth, session_setup_deadline, latest, call>>

(* take_hard_reconnect_request and the start of reload_control_addr        *)

StartReload(periodic) ==
  /\ pc = "reload"
  /\ hard_reconnect_requested \/ periodic
  /\ hard_reconnect_requested' = FALSE
  /\ control_state' = IF hard_reconnect_requested THEN "Reconnecting" ELSE control_state
  /\ call' = [NoCall EXCEPT !.force = hard_reconnect_requested]
  /\ pc' = "addresses"
  /\ UNCHANGED <<soft_reconnect_failures, last_pong, last_control_targets, established>>

SkipReload ==
  /\ pc = "reload"
  /\ ~hard_reconnect_requested
  /\ pc' = "update"
  /\ UNCHANGED <<control, established, call>>

-----------------------------------------------------------------------------
(* reload_control_addr and replace_connection                              *)

ReloadFails ==
  /\ pc \in {"addresses", "connect", "replace"}
  /\ pc' = "update"
  /\ call' = NoCall
  /\ UNCHANGED <<control, established>>

TargetsUnchanged(addresses) ==
  /\ pc = "addresses"
  /\ ~call.force /\ last_control_targets = addresses
  /\ pc' = "update"
  /\ call' = NoCall
  /\ UNCHANGED <<control, established>>

GotAddresses(addresses) ==
  /\ pc = "addresses"
  /\ call.force \/ last_control_targets # addresses
  /\ control_state' = "Reconnecting"
  /\ call' = [call EXCEPT !.addresses = addresses]
  /\ pc' = "connect"
  /\ UNCHANGED <<soft_reconnect_failures, hard_reconnect_requested, last_pong,
                 last_control_targets, established>>

FinishReload ==
  /\ last_control_targets' = call.addresses
  /\ last_pong' = "recent"
  /\ forget_failures
  /\ control_state' = "Connected"
  /\ pc' = "update"
  /\ call' = NoCall

SameConnection(pong) ==
  /\ ~call.force
  /\ Host(latest.flow) = Host(pong.flow)

KeepConnection(pong) ==
  /\ pc = "connect"
  /\ SameConnection(pong)
  /\ FinishReload
  /\ UNCHANGED established

StartReplace(pong) ==
  /\ pc = "connect"
  /\ ~SameConnection(pong)
  /\ control_state' = "Reconnecting"
  /\ call' = [call EXCEPT !.connected = pong, !.auth_pong = pong.flow]
  /\ pc' = "replace"
  /\ UNCHANGED <<soft_reconnect_failures, hard_reconnect_requested, last_pong,
                 last_control_targets, established>>

ReplacePong(pong) ==
  /\ pc = "replace"
  /\ call' = [call EXCEPT !.connected = pong]
  /\ UNCHANGED <<pc, control, established>>

(* Mutated form: the new connection inherits the forced expiry.             *)
reset_established_still_expired ==
  /\ at_auth' = [call.connected EXCEPT !.session = at_auth.session \/ @]
  /\ latest' = call.connected
  /\ UNCHANGED <<force_expired, session_setup_deadline>>

reset_established ==
  /\ at_auth' = [call.connected EXCEPT !.session = at_auth.session \/ @]
  /\ latest' = call.connected
  /\ force_expired' = FALSE
  /\ UNCHANGED session_setup_deadline

ReplaceConnection ==
  /\ pc = "replace"
  /\ reset_established
  /\ FinishReload

-----------------------------------------------------------------------------
(* MaintainedControl::update: re-authentication when the session expired   *)

UpdateExpired ==
  /\ pc = "update"
  /\ is_expired
  /\ control_state' = "Reconnecting"
  /\ call' = [NoCall EXCEPT !.auth_pong = latest.flow]
  /\ pc' = "auth"
  /\ UNCHANGED <<soft_reconnect_failures, hard_reconnect_requested, last_pong,
                 last_control_targets, established>>

UpdateHealthy ==
  /\ pc = "update"
  /\ ~is_expired
  /\ pc' = "ping"
  /\ UNCHANGED <<control, established, call>>

AuthPong(pong) ==
  /\ pc = "auth"
  /\ latest' = pong
  /\ UNCHANGED <<pc, control, force_expired, at_auth, session_setup_deadline, call>>

(* Mutated form: a failed re-authentication is not counted.                 *)
AuthFails_uncounted ==
  /\ pc = "auth"
  /\ pc' = "top"
  /\ call' = NoCall
  /\ UNCHANGED <<control, established>>

AuthFails ==
  /\ pc = "auth"
  /\ note_control_failure
  /\ pc' = "top"
  /\ call' = NoCall
  /\ UNCHANGED <<control_state, last_pong, last_control_targets, established>>

(* Mutated form: the Pong of the authentication replaces the baseline whole. *)
authenticate_loses_session ==
  /\ at_auth' = latest
  /\ session_setup_deadline' = DeadlineFor(latest.session)
  /\ force_expired' = FALSE
  /\ UNCHANGED latest

authenticate ==
  /\ at_auth' = [latest EXCEPT !.session = at_auth.session \/ @]
  /\ session_setup_deadline' = DeadlineFor(at_auth.session \/ latest.session)
  /\ force_expired' = FALSE
  /\ UNCHANGED latest

AuthSucceeds ==
  /\ pc = "auth"
  /\ authenticate
  /\ forget_failures
  /\ last_pong' = "recent"
  /\ control_state' = "Connected"
  /\ pc' = "ping"
  /\ call' = NoCall
  /\ UNCHANGED last_control_targets

-----------------------------------------------------------------------------
(* MaintainedControl::update: the sends, each skipped when not due         *)

NextSend == IF pc = "ping" THEN "keep_alive" ELSE "recv"

SendSucceeds ==
  /\ pc \in {"ping", "keep_alive"}
  /\ pc' = NextSend
  /\ UNCHANGED <<control, established, call>>

SendFails ==
  /\ pc \in {"ping", "keep_alive"}
  /\ note_control_failure
  /\ set_expired
  /\ pc' = NextSend
  /\ UNCHANGED <<control_state, last_pong, last_control_targets,
                 at_auth, session_setup_deadline, latest, call>>

-----------------------------------------------------------------------------
(* MaintainedControl::update: the receive loop (at most 30 messages, or    *)
(* ten timeouts) and the check that follows it.  NewClient and             *)
(* UdpChannelDetails return to the caller at once, without that check.     *)

RecvPong(pong) ==
  /\ pc = "recv"
  /\ latest' = pong
  /\ last_pong' = "recent"
  /\ at_auth' = [at_auth EXCEPT !.session = @ \/ pong.session]
  /\ session_setup_deadline' = IF pong.session THEN None ELSE session_setup_deadline
  /\ UNCHANGED <<pc, control_state, soft_reconnect_failures, hard_reconnect_requested,
                 last_control_targets, force_expired, call>>

(* Mutated form: Unauthorized is shown but does not expire the session.     *)
RecvUnauthorized_not_expired ==
  /\ pc = "recv"
  /\ control_state' = "Reconnecting"
  /\ UNCHANGED <<pc, soft_reconnect_failures, hard_reconnect_requested, last_pong,
                 last_control_targets, established, call>>

RecvUnauthorized ==
  /\ pc = "recv"
  /\ control_state' = "Reconnecting"
  /\ set_expired
  /\ UNCHANGED <<pc, soft_reconnect_failures, hard_reconnect_requested, last_pong,
                 last_control_targets, at_auth, session_setup_deadline, latest, call>>

RecvEvent ==
  /\ pc = "recv"
  /\ pc' = "top"
  /\ UNCHANGED <<control, established, call>>

(* Mutated form: the watchdog fires without expiring the session.           *)
PongMissing_not_expired ==
  /\ last_pong' = "zero"
  /\ control_state' = "Reconnecting"
  /\ note_control_failure
  /\ UNCHANGED <<last_control_targets, established>>

PongMissing ==
  /\ last_pong' = "zero"
  /\ control_state' = "Reconnecting"
  /\ note_control_failure
  /\ set_expired
  /\ UNCHANGED <<last_control_targets, at_auth, session_setup_deadline, latest>>

UpdateEnds ==
  /\ pc = "recv"
  /\ pc' = "top"
  /\ IF last_pong = "old"
     THEN PongMissing
     ELSE UNCHANGED <<control, established>>
  /\ UNCHANGED call

-----------------------------------------------------------------------------
(* The clock, and the cancellation of the tunnel task at any await         *)

PongGrowsOld ==
  /\ last_pong = "recent"
  /\ last_pong' = "old"
  /\ UNCHANGED <<pc, control_state, soft_reconnect_failures, hard_reconnect_requested,
                 last_control_targets, established, call>>

DeadlinePasses ==
  /\ session_setup_deadline = "running"
  /\ session_setup_deadline' = "passed"
  /\ UNCHANGED <<pc, control, force_expired, at_auth, latest, call>>

Cancelled ==
  /\ pc # "stopped"
  /\ pc' = "stopped"
  /\ call' = NoCall
  /\ UNCHANGED <<control, established>>

Stopped == pc = "stopped" /\ UNCHANGED vars

Next ==
  \/ UdpAuthSucceeds
  \/ UdpAuthFails
  \/ \E periodic \in BOOLEAN : StartReload(periodic)
  \/ SkipReload
  \/ ReloadFails
  \/ \E addresses \in Targets : TargetsUnchanged(addresses)
  \/ \E addresses \in Targets : GotAddresses(addresses)
  \/ \E pong \in Pong : KeepConnection(pong)
  \/ \E pong \in Pong : StartReplace(pong)
  \/ \E pong \in Pong : ReplacePong(pong)
  \/ ReplaceConnection
  \/ UpdateExpired
  \/ UpdateHealthy
  \/ \E pong \in Pong : AuthPong(pong)
  \/ AuthFails
  \/ AuthSucceeds
  \/ SendSucceeds
  \/ SendFails
  \/ \E pong \in Pong : RecvPong(pong)
  \/ RecvUnauthorized
  \/ RecvEvent
  \/ UpdateEnds
  \/ PongGrowsOld
  \/ DeadlinePasses
  \/ Cancelled
  \/ Stopped

Spec == Init /\ [][Next]_vars

(* Every await of the loop ends: it has a timeout, or its inner loop has a *)
(* bound on the number of messages it reads.                               *)
LoopStep == Next /\ pc' # pc

FairSpec == Spec /\ WF_vars(LoopStep)

-----------------------------------------------------------------------------
(* The pong watchdog of update() is switched off (last_pong zero) only     *)
(* while the session is forced to expire, so that a re-authentication or a *)
(* reconnect, which arms it again, is certain to come first.  Were it off  *)
(* with a session taken for good, a dead endpoint would never be noticed.  *)
WatchdogArmed == last_pong = "zero" => force_expired

(* The socket is rebuilt only after three failures in a row: both a        *)
(* pending request and a forced reload in progress stand for a failure     *)
(* count that reached the threshold and was not forgotten since.           *)
HardReconnectEarned ==
  hard_reconnect_requested \/ call.force
    => soft_reconnect_failures >= HARD_RECONNECT_FAILURE_THRESHOLD

(* Once a Pong has shown that the session is set up, no re-authentication  *)
(* and no replaced connection makes the agent forget it, whatever Pongs    *)
(* without a session come in meanwhile.                                    *)
SessionBaselineKept == [][at_auth.session => at_auth'.session]_vars

(* A request to rebuild the socket is never dropped: what takes it away is *)
(* the start of a forced reload, and neither a periodic reload nor a       *)
(* re-authentication that succeeds can come first.                         *)
HardRequestHonoured ==
  [][hard_reconnect_requested /\ ~hard_reconnect_requested' => call'.force]_vars

(* "Connected" is announced with a session that is not expired.  The code  *)
(* has two exceptions: a reload that keeps the old connection (which may   *)
(* be expired), and a session that was never set up, whose deadline a      *)
(* replaced connection does not renew.                                     *)
ConnectedIsUsable ==
  [][control_state = "Reconnecting" /\ control_state' = "Connected"
       => ~is_expired' \/ pc = "connect" \/ ~at_auth'.session]_vars

(* A session that stays expired whatever is tried on the old socket makes  *)
(* the agent rebuild the socket, again and again, also when the rebuilding *)
(* fails.  The routing may not change for ever: a periodic reload that     *)
(* keeps the connection clears the failure count.                          *)
DeadSessionIsRebuilt ==
  /\ <>[]is_expired
  /\ <>[][last_control_targets' = last_control_targets]_vars
  => <>(pc = "stopped") \/ []<>call.force

(* The loop forgets neither that its session was set up nor a request to   *)
(* rebuild the socket.                                                     *)
NothingIsForgotten == SessionBaselineKept /\ HardRequestHonoured
=============================================================================
