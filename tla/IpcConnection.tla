--------------------------- MODULE IpcConnection ---------------------------
(***************************************************************************)
(* One connection of playitd's local IPC: the publisher of the runtime     *)
(* state, the broadcast channel, the server's task for the connection      *)
(* (ipc_server.rs), the byte streams and the IpcClient at the other end    *)
(* (ipc.rs).  The state of the runtime is a version number per field; the  *)
(* channel keeps the last Capacity events for a receiver that is slow.     *)
(***************************************************************************)
EXTENDS Integers, Sequences, FiniteSets, FiniteSetsExt, Functions

CONSTANTS
    Fields,      \* the registers of StateCache, in the order a snapshot reads them
    Capacity,    \* events the broadcast channel keeps (256 in the daemon)
    Room,        \* messages a stream takes before its writer waits
    MaxWrites,   \* bound: publications, of all fields together
    MaxCalls     \* bound: requests of the client

FieldSet == Range(Fields)

ASSUME BoundsAssumption ==
    /\ {"status", "lifecycle"} \subseteq FieldSet /\ "log" \notin FieldSet
    /\ Capacity \in Nat \ {0}
    /\ Room \in Nat \ {0}
    /\ MaxWrites \in Nat
    /\ MaxCalls \in Nat

(* The response each request is answered with when it succeeds.  Requests  *)
(* that go through to the runtime and the API are one kind, "api_call".    *)
ResponseType ==
    [subscribe |-> "subscribe", get_status |-> "status", get_state |-> "state",
     api_call |-> "api_result", stop |-> "stop"]
KnownRequests == DOMAIN ResponseType

(* What a client of another release may send besides: a type this release  *)
(* does not know, or a known type with a payload that does not parse.      *)
UnknownRequests == {"unknown"}
Versions == {"ours", "other"}
Inputs == ((KnownRequests \cup UnknownRequests) \X {"ours"}) \cup {<<"stop", "other">>}

(* Messages are records with the same fields, so that they compare. *)
Blank == [f \in FieldSet |-> -1]
Msg(kind, id, type, data) == [kind |-> kind, id |-> id, type |-> type, data |-> data]
Hello == Msg("hello", 0, "hello", Blank)
EventMsg(e) == Msg("event", 0, e.field, [Blank EXCEPT ![e.field] = e.version])
LogEvent == [field |-> "log", version |-> 0]
NoRequest == [id |-> 0, version |-> "ours", request |-> "none"]

VARIABLES
    cache,          \* StateCache: the version each field has
    unsent,         \* fields that were written and whose event is not sent yet
    rx, lagged,     \* event_rx: the unread events it keeps, and whether some were dropped
    lost,           \* fields whose latest event never reached the subscriber's view
    srv,            \* the connection's task: place, request it handles, snapshot it reads
    subscribed,     \* its local variable
    host_shutdown,  \* the token of the daemon
    c2s, s2c,       \* the two directions of the stream
    client,         \* the IpcClient: place, next_request_id, the call it waits for
    view            \* what a subscriber shows
vars == <<cache, unsent, rx, lagged, lost, srv, subscribed, host_shutdown,
          c2s, s2c, client, view>>

Init ==
    /\ cache = [f \in FieldSet |-> 0] /\ unsent = {}
    /\ rx = <<>> /\ lagged = FALSE /\ lost = {}
    /\ srv = [pc |-> "accept", req |-> NoRequest, msg |-> Hello, read |-> Blank]
    /\ subscribed = FALSE /\ host_shutdown = FALSE
    /\ c2s = <<>> /\ s2c = <<>>
    /\ client = [pc |-> "hello", next |-> 1, want |-> 0, req |-> "none",
                 since |-> Blank, fresh |-> TRUE]
    /\ view = Blank

---------------------------------------------------------------------------
(* The publisher.  A register is written under its lock; the event follows. *)
set(f) ==
    /\ f \notin unsent /\ MapThenSumSet(LAMBDA g : cache[g], FieldSet) < MaxWrites
    /\ cache' = [cache EXCEPT ![f] = @ + 1]
    /\ unsent' = unsent \cup {f} /\ lost' = lost \ {f}
    /\ UNCHANGED <<rx, lagged, srv, subscribed, host_shutdown, c2s, s2c, client, view>>

(* An event that will not be shown matters if none with a newer version follows. *)
Missed(field, version) ==
    IF field \in FieldSet /\ version = cache[field] THEN {field} ELSE {}

(* The channel: a receiver that is Capacity events behind loses the oldest. *)
Push(e) ==
    IF srv.pc \in {"accept", "closed"}
    THEN UNCHANGED <<rx, lagged, lost>>
    ELSE IF Len(rx) < Capacity
    THEN rx' = Append(rx, e) /\ UNCHANGED <<lagged, lost>>
    ELSE /\ rx' = Append(Tail(rx), e)
         /\ lagged' = TRUE
         /\ lost' = lost \cup Missed(Head(rx).field, Head(rx).version)

send(f) ==
    /\ f \in unsent
    /\ unsent' = unsent \ {f}
    /\ Push([field |-> f, version |-> cache[f]])
    /\ UNCHANGED <<cache, srv, subscribed, host_shutdown, c2s, s2c, client, view>>

(* Log lines of the daemon go through the same channel. *)
on_event ==
    /\ Push(LogEvent)
    /\ UNCHANGED <<cache, unsent, srv, subscribed, host_shutdown, c2s, s2c, client, view>>

---------------------------------------------------------------------------
(* The server.  Its receiver exists from the start of the connection, before *)
(* the hello: whatever is sent from here on is kept for the subscription.    *)
handle_client ==
    /\ srv.pc = "accept"
    /\ srv' = [srv EXCEPT !.pc = "write", !.msg = Hello]
    /\ UNCHANGED <<cache, unsent, rx, lagged, lost, subscribed, host_shutdown,
                   c2s, s2c, client, view>>

(* send_hello, send_response and send_event: the write waits for room. *)
write_json ==
    /\ srv.pc = "write" /\ Len(s2c) < Room
    /\ s2c' = Append(s2c, srv.msg)
    /\ srv' = [srv EXCEPT !.pc = "select", !.msg = Hello, !.req = NoRequest, !.read = Blank]
    /\ UNCHANGED <<cache, unsent, rx, lagged, lost, subscribed, host_shutdown, c2s, client, view>>

read_request ==
    /\ srv.pc = "select" /\ c2s # <<>>
    /\ c2s' = Tail(c2s)
    /\ srv' = [srv EXCEPT !.pc = "handle", !.req = Head(c2s)]
    /\ UNCHANGED <<cache, unsent, rx, lagged, lost, subscribed, host_shutdown, s2c, client, view>>

(* event_rx.recv(), polled only once subscribed: Lagged is reported first and *)
(* only logged; the receiver goes on with the oldest event that is kept.      *)
recv_event ==
    /\ srv.pc = "select" /\ subscribed
    /\ IF lagged
       THEN lagged' = FALSE /\ UNCHANGED <<rx, srv>>
       ELSE /\ rx # <<>>
            /\ rx' = Tail(rx)
            /\ srv' = [srv EXCEPT !.pc = "write",
                           !.msg = IF Head(rx) = LogEvent THEN Msg("event", 0, "log", Blank)
                                                          ELSE EventMsg(Head(rx))]
            /\ UNCHANGED lagged
    /\ UNCHANGED <<cache, unsent, lost, subscribed, host_shutdown, c2s, s2c, client, view>>

(* validate_request_envelope: the version first, then the request itself. *)
IsValid(env) == env.version = "ours" /\ env.request \in KnownRequests

Respond(type, data) ==
    srv' = [srv EXCEPT !.pc = "write", !.msg = Msg("response", srv.req.id, type, data)]

(* Mutated form: a request that is not valid is dropped. *)
DropInvalid ==
    /\ srv.pc = "handle" /\ ~IsValid(srv.req)
    /\ srv' = [srv EXCEPT !.pc = "select", !.req = NoRequest]
    /\ UNCHANGED <<cache, unsent, rx, lagged, lost, subscribed, host_shutdown,
                   c2s, s2c, client, view>>

reject_request ==
    /\ srv.pc = "handle" /\ ~IsValid(srv.req)
    /\ Respond("error", Blank)
    /\ UNCHANGED <<cache, unsent, rx, lagged, lost, subscribed, host_shutdown,
                   c2s, s2c, client, view>>

(* subscription_snapshot takes one lock after the other; the connection      *)
(* counts as subscribed when the snapshot is complete.                       *)
Unread == {f \in FieldSet : srv.read[f] = -1}
NextField == Fields[CHOOSE i \in 1 .. Len(Fields) :
                        /\ Fields[i] \in Unread
                        /\ \A j \in 1 .. i - 1 : Fields[j] \notin Unread]

(* Mutated form: the receiver is created with the subscription. *)
FreshReceiver == rx' = <<>> /\ lagged' = FALSE
(* The subscription goes on with the receiver of handle_client. *)
Resume == UNCHANGED <<rx, lagged>>

subscription_snapshot ==
    /\ srv.pc = "handle" /\ IsValid(srv.req) /\ srv.req.request = "subscribe"
    /\ IF Unread # {}
       THEN /\ srv' = [srv EXCEPT !.read[NextField] = cache[NextField]]
            /\ UNCHANGED <<subscribed, rx, lagged>>
       ELSE /\ Respond("subscribe", srv.read)
            /\ subscribed' = TRUE
            /\ Resume
    /\ UNCHANGED <<cache, unsent, lost, host_shutdown, c2s, s2c, client, view>>

(* The requests with one answer: a register of the cache, a call of the      *)
(* runtime, or the shutdown of the host.                                     *)
handle_service_request ==
    /\ srv.pc = "handle" /\ IsValid(srv.req) /\ srv.req.request # "subscribe"
    /\ LET r == srv.req.request IN
       /\ CASE r = "get_status" -> Respond("status", [Blank EXCEPT !["status"] = cache["status"]])
            [] r = "get_state" -> Respond("state", [Blank EXCEPT !["lifecycle"] = cache["lifecycle"]])
            [] r = "api_call" -> srv' = [srv EXCEPT !.pc = "runtime"]
            [] OTHER -> Respond(ResponseType[r], Blank)
       /\ host_shutdown' = (host_shutdown \/ r = "stop")
    /\ UNCHANGED <<cache, unsent, rx, lagged, lost, subscribed, c2s, s2c, client, view>>

(* The call of the runtime succeeds or fails, if it returns: set_secret may  *)
(* wait as long as the runtime runs (Provisioning).  Until then the task does *)
(* nothing else for this client.                                             *)
runtime_answers ==
    /\ srv.pc = "runtime"
    /\ \E type \in {ResponseType["api_call"], "error"} : Respond(type, Blank)
    /\ UNCHANGED <<cache, unsent, rx, lagged, lost, subscribed, host_shutdown,
                   c2s, s2c, client, view>>

(* The task ends: a read or a write fails once the client is gone, and the   *)
(* process ends some time after the host was told to shut down.              *)
disconnect ==
    /\ srv.pc # "closed"
    /\ (client.pc = "closed" /\ srv.pc \in {"write", "select"}) \/ host_shutdown
    /\ srv' = [pc |-> "closed", req |-> NoRequest, msg |-> Hello, read |-> Blank]
    /\ rx' = <<>> /\ lagged' = FALSE /\ c2s' = <<>>
    /\ UNCHANGED <<cache, unsent, lost, subscribed, host_shutdown, s2c, client, view>>

---------------------------------------------------------------------------
(* The client. *)
Received == s2c # <<>> /\ s2c' = Tail(s2c)
Return(place) == [client EXCEPT !.pc = place, !.want = 0, !.req = "none", !.since = Blank]

recv_hello ==
    /\ client.pc = "hello" /\ Received
    /\ \E version \in Versions :
          client' = Return(IF Head(s2c).kind = "hello" /\ version = "ours"
                           THEN "idle" ELSE "closed")
    /\ UNCHANGED <<cache, unsent, rx, lagged, lost, srv, subscribed, host_shutdown, c2s, view>>

(* The fields the answer to a request shows. *)
Shown(r) == CASE r = "subscribe" -> FieldSet [] r = "get_status" -> {"status"}
              [] r = "get_state" -> {"lifecycle"} [] OTHER -> {}

(* A call begins with the write of its request, during which the client does *)
(* not read.                                                                 *)
request(r) ==
    /\ client.pc = "idle" /\ client.next <= MaxCalls
    /\ client' = [client EXCEPT !.pc = "write", !.req = r]
    /\ UNCHANGED <<cache, unsent, rx, lagged, lost, srv, subscribed, host_shutdown,
                   c2s, s2c, view>>

(* The write waits for room, then for the response.  The id was counted       *)
(* before the write, which nobody sees.                                       *)
send_request(r, version) ==
    /\ client.pc = "write" /\ client.req = r /\ Len(c2s) < Room
    /\ srv.pc # "closed"
    /\ c2s' = Append(c2s, [id |-> client.next, version |-> version, request |-> r])
    /\ client' = [client EXCEPT !.pc = "call", !.want = client.next, !.req = r,
                      !.next = @ + 1,
                      !.since = [f \in FieldSet |-> IF f \in Shown(r) THEN cache[f] ELSE -1]]
    /\ UNCHANGED <<cache, unsent, rx, lagged, lost, srv, subscribed, host_shutdown, s2c, view>>

write_fails ==
    /\ client.pc = "write" /\ srv.pc = "closed"
    /\ client' = Return("idle")
    /\ UNCHANGED <<cache, unsent, rx, lagged, lost, srv, subscribed, host_shutdown,
                   c2s, s2c, view>>

(* Mutated form: the id of the response is not compared. *)
AcceptsAnyId(m) == /\ m.kind = "response"
                   /\ client.req \in KnownRequests /\ m.type = ResponseType[client.req]

(* The value a typed call returns: expect_response refuses an error and      *)
(* another type, request refuses another id.                                 *)
Accepts(m) == /\ m.kind = "response" /\ m.id = client.want
              /\ client.req \in KnownRequests /\ m.type = ResponseType[client.req]

IsFresh(m) == \A f \in FieldSet : m.data[f] # -1 => m.data[f] >= client.since[f]

(* An event is read and dropped when a call waits for its response: the call *)
(* fails and the response stays in the stream.                               *)
recv_response ==
    /\ client.pc = "call" /\ Received
    /\ LET m == Head(s2c) IN
       /\ client' = IF Accepts(m) THEN [Return("idle") EXCEPT !.fresh = IsFresh(m)]
                                  ELSE Return("idle")
       /\ view' = IF Accepts(m) /\ m.type = "subscribe" THEN m.data ELSE view
       /\ lost' = IF m.kind = "event" /\ m.type # "log"
                  THEN lost \cup Missed(m.type, m.data[m.type]) ELSE lost
    /\ UNCHANGED <<cache, unsent, rx, lagged, srv, subscribed, host_shutdown, c2s>>

(* recv_update, and how a subscriber shows what it returns. *)
recv_update ==
    /\ client.pc = "idle" /\ Received
    /\ LET m == Head(s2c) IN
       view' = IF m.kind = "event" /\ m.type # "log"
               THEN [view EXCEPT ![m.type] = m.data[m.type]] ELSE view
    /\ UNCHANGED <<cache, unsent, rx, lagged, lost, srv, subscribed, host_shutdown, c2s, client>>

(* The client drops the connection, or finds it closed. *)
close ==
    /\ client.pc # "closed"
    /\ client.pc = "idle" \/ (client.pc # "write" /\ srv.pc = "closed" /\ s2c = <<>>)
    /\ client' = Return("closed")
    /\ s2c' = <<>>
    /\ UNCHANGED <<cache, unsent, rx, lagged, lost, srv, subscribed, host_shutdown, c2s, view>>

---------------------------------------------------------------------------
Publisher == on_event \/ \E f \in FieldSet : set(f) \/ send(f)
Server == \/ handle_client \/ write_json \/ read_request \/ recv_event
          \/ reject_request \/ subscription_snapshot \/ handle_service_request
          \/ runtime_answers \/ disconnect
Client == \/ recv_hello \/ recv_response \/ recv_update \/ write_fails \/ close
          \/ \E in \in Inputs : request(in[1]) \/ send_request(in[1], in[2])
Next == Publisher \/ Server \/ Client

(* The task of the connection runs, and a client that waits writes when there *)
(* is room and reads what is there.  The select of the server takes a request *)
(* that is there sooner or later (tokio polls the branches in random order).  *)
(* A process that was told to end ends.  The runtime need not answer.         *)
Fair ==
    /\ WF_vars((handle_client \/ write_json \/ reject_request
                     \/ subscription_snapshot \/ handle_service_request))
    /\ SF_vars(read_request)
    /\ WF_vars(disconnect)
    /\ WF_vars((recv_hello \/ recv_response \/ write_fails
                     \/ \E in \in Inputs : send_request(in[1], in[2])))
    /\ WF_vars(client.pc # "idle" /\ close)
Spec == Init /\ [][Next]_vars
FairSpec == Spec /\ Fair

---------------------------------------------------------------------------
Envelopes == [id : 0 .. MaxCalls, version : Versions,
              request : KnownRequests \cup UnknownRequests \cup {"none"}]
Readings == [FieldSet -> -1 .. MaxWrites]
Messages == [kind : {"hello", "response", "event"}, id : 0 .. MaxCalls,
             type : {ResponseType[r] : r \in KnownRequests} \cup FieldSet
                    \cup {"hello", "error", "log"},
             data : Readings]
Events == [field : FieldSet \cup {"log"}, version : 0 .. MaxWrites]

(* Type correctness; what waits in the channel and in the streams is bounded. *)
TypeOK ==
    /\ cache \in [FieldSet -> 0 .. MaxWrites] /\ unsent \subseteq FieldSet
    /\ \A i \in DOMAIN rx : rx[i] \in Events
    /\ Len(rx) <= Capacity /\ lagged \in BOOLEAN /\ lost \subseteq FieldSet
    /\ srv \in [pc : {"accept", "write", "select", "handle", "runtime", "closed"},
                req : Envelopes, msg : Messages, read : Readings]
    /\ subscribed \in BOOLEAN /\ host_shutdown \in BOOLEAN
    /\ \A i \in DOMAIN c2s : c2s[i] \in Envelopes
    /\ \A i \in DOMAIN s2c : s2c[i] \in Messages
    /\ Len(c2s) <= Room /\ Len(s2c) <= Room
    /\ client \in [pc : {"hello", "idle", "write", "call", "closed"}, next : 1 .. MaxCalls + 1,
                   want : 0 .. MaxCalls,
                   req : KnownRequests \cup UnknownRequests \cup {"none"},
                   since : Readings, fresh : BOOLEAN]
    /\ view \in Readings

(* A call that succeeds returns a state of the runtime that is no older than *)
(* the call: an answer that an earlier, failed call left in the stream is    *)
(* never taken for it (ipc.rs, request).                                     *)
AnswerIsFresh == client.fresh

(* A subscriber that has read everything shows, field by field, what the     *)
(* cache holds, although the snapshot is read register by register and is    *)
(* followed by events older than it.  The exceptions are the events it never *)
(* got: those the channel dropped, and those a call of its own swallowed.    *)
Drained ==
    /\ subscribed /\ srv.pc = "select" /\ client.pc = "idle" /\ view # Blank
    /\ rx = <<>> /\ ~lagged /\ s2c = <<>> /\ c2s = <<>>
SubscriberConverges ==
    Drained => \A f \in FieldSet \ (unsent \cup lost) : view[f] = cache[f]

(* Client and server both write and neither reads.                           *)
Stuck == /\ client.pc = "write" /\ Len(c2s) = Room
         /\ srv.pc = "write" /\ Len(s2c) = Room
InCall == client.pc \in {"write", "call"}

(* Every call comes back, unless the runtime never answers one: answered,    *)
(* refused, interrupted by an event, or ended with the connection.  The one   *)
(* other exception is a subscriber that goes on calling: the requests of      *)
(* calls that an event interrupted can fill one stream while events fill the  *)
(* other.  It cannot happen to a client that only calls, whatever it calls.   *)
CallsReturn ==
    /\ []<>(srv.pc # "runtime") => (InCall ~> (~InCall \/ Stuck))
    /\ [](~subscribed => ~Stuck)
=============================================================================
