----------------------------- MODULE TcpClients -----------------------------
(***************************************************************************)
(* TCP clients of the tunnel: the tunnel task announces them, a worker looks *)
(* their origin up, one task per client connects both ends and hands the     *)
(* client back to the worker, two pipes per client move the data, and the    *)
(* worker drops clients that are idle.                                       *)
(***************************************************************************)
EXTENDS Integers, Sequences, FiniteSets

CONSTANTS
    Conns,    \* the clients that may be announced
    EventRoom \* capacity of the channel of events

ASSUME TcpAssumption == IsFiniteSet(Conns) /\ EventRoom \in Nat

VARIABLES
    conn,     \* per client: where it is, and whether its pipes are cancelled
    pipe,     \* per client and direction: what the pipe does and since when it is quiet
    events,   \* the channel to the worker
    worker,   \* "running" or "ended"
    active,   \* the number of TCP clients the statistics show
    tunnel,   \* the tunnel task: "running", "ended" or "panicked"
    cancel    \* the agent is cancelled
tvars == <<conn, pipe, events, worker, active, tunnel, cancel>>

Directions == {"tunn_to_origin", "origin_to_tunn"}

(* Quiet times: 0 up to 30 seconds, 1 up to 60, 2 up to 90, 3 more.  A pipe   *)
(* has 0 or 1, which stands for all of 1 to 3.                                *)
Ages == 0 .. 1
Off == [at |-> "off", age |-> 0]
Closed == [at |-> "closed", age |-> 0]

TcpInit ==
    /\ conn = [c \in Conns |-> [at |-> "new", cancelled |-> FALSE]]
    /\ pipe = [c \in Conns |-> [d \in Directions |-> Off]]
    /\ events = <<>> /\ worker = "running" /\ active = 0
    /\ tunnel = "running" /\ cancel = FALSE

At(c, place) == conn[c].at = place
Move(c, place) == conn' = [conn EXCEPT ![c].at = place]
Listed == {c \in Conns : At(c, "listed")}
(* Mutated form: a dropped pipe is not cancelled. *)
DropOnly(S) ==
    /\ conn' = [c \in Conns |-> IF c \in S THEN [conn[c] EXCEPT !.at = "gone"] ELSE conn[c]]
    /\ UNCHANGED pipe

(* Dropping a TcpClient drops its pipes, which cancels both. *)
Drop(S) ==
    /\ conn' = [c \in Conns |-> IF c \in S THEN [at |-> "gone", cancelled |-> TRUE] ELSE conn[c]]
    /\ pipe' = [c \in Conns |-> IF c \in S
                  THEN [d \in Directions |-> [pipe[c][d] EXCEPT !.age = 0]] ELSE pipe[c]]

---------------------------------------------------------------------------
(* The tunnel task. *)

(* handle_new_client takes the client if the limiter lets it. *)
handle_new_client(c) ==
    /\ tunnel = "running" /\ At(c, "new") /\ \A o \in Conns : ~At(o, "sending")
    /\ \E limited \in BOOLEAN : Move(c, IF limited THEN "gone" ELSE "sending")
    /\ UNCHANGED <<pipe, events, worker, active, tunnel, cancel>>

(* The send: it waits for room, and panics if the worker is gone. *)
send_new_client(c) ==
    /\ tunnel = "running" /\ At(c, "sending")
    /\ \/ worker = "running" /\ Len(events) < EventRoom
          /\ events' = Append(events, <<"NewClient", c>>)
          /\ Move(c, "queued") /\ UNCHANGED tunnel
       \/ worker = "ended" /\ tunnel' = "panicked" /\ Move(c, "gone") /\ UNCHANGED events
    /\ UNCHANGED <<pipe, worker, active, cancel>>

(* A cancelled select ends the task, and what it was sending is dropped.  The *)
(* select polls its branches in any order.                                    *)
tunnel_ends ==
    /\ tunnel = "running" /\ cancel
    /\ tunnel' = "ended"
    /\ conn' = [c \in Conns |-> IF At(c, "sending") THEN [conn[c] EXCEPT !.at = "gone"] ELSE conn[c]]
    /\ UNCHANGED <<pipe, events, worker, active, cancel>>

cancel_agent ==
    /\ ~cancel /\ cancel' = TRUE
    /\ UNCHANGED <<conn, pipe, events, worker, active, tunnel>>

---------------------------------------------------------------------------
(* The worker. *)
Take(kind) ==
    /\ worker = "running" /\ events # <<>> /\ events[1][1] = kind
    /\ events' = Tail(events)

(* A client whose tunnel is not known, or whose addresses are of different    *)
(* families, is given up; else its task is spawned.                           *)
new_client ==
    /\ Take("NewClient")
    /\ \E next \in {"resolve", "gone"} : Move(events[1][2], next)
    /\ UNCHANGED <<pipe, worker, active, tunnel, cancel>>

connected_client ==
    /\ Take("ConnectedClient") /\ Move(events[1][2], "listed")
    /\ active' = Cardinality(Listed) + 1
    /\ UNCHANGED <<pipe, worker, tunnel, cancel>>

(* A pipe that is closed counts as never used. *)
last_use(c, d) ==
    CASE pipe[c][d].at = "closed" -> {3}
      [] pipe[c][d].age = 0 -> {0}
      [] OTHER -> 1 .. 3

(* The three rules of ClearOld: 90 and 30 seconds, 30 and 90, 60 and 60. *)
is_old(since_tunn, since_orig) ==
    \/ since_tunn >= 3 /\ since_orig >= 1
    \/ since_orig >= 3 /\ since_tunn >= 1
    \/ since_tunn >= 2 /\ since_orig >= 2
OldOrNot(c) ==
    {old \in BOOLEAN : \E t \in last_use(c, "tunn_to_origin"), o \in last_use(c, "origin_to_tunn") :
                          old = is_old(t, o)}

clear_old ==
    /\ worker = "running"
    /\ \E old \in SUBSET Listed :
          /\ \A c \in Listed : (c \in old) \in OldOrNot(c)
          /\ Drop(old)
          /\ active' = Cardinality(Listed \ old)
    /\ UNCHANGED <<events, worker, tunnel, cancel>>

(* Mutated form: the clients of the list are dropped, not those under way. *)
DropListed ==
    /\ worker = "running" /\ cancel
    /\ worker' = "ended" /\ events' = <<>>
    /\ Drop(Listed)
    /\ UNCHANGED <<active, tunnel, cancel>>

(* The worker ends when it is cancelled; its clients and what is in the       *)
(* channel are dropped with it.                                               *)
worker_ends ==
    /\ worker = "running" /\ cancel
    /\ worker' = "ended" /\ events' = <<>>
    /\ Drop(Listed \cup {c \in Conns : At(c, "queued") \/ At(c, "sent")})
    /\ UNCHANGED <<active, tunnel, cancel>>

---------------------------------------------------------------------------
(* The task of a client.  Every step has a timeout, and all but the first are *)
(* given up when the agent is cancelled.                                      *)
Step(c, from, to) ==
    /\ At(c, from)
    /\ \E next \in {to, "gone"} : Move(c, next)
    /\ UNCHANGED <<pipe, events, worker, active, tunnel, cancel>>
resolve_local(c) == Step(c, "resolve", "connect")
connect_tunnel(c) == Step(c, "connect", "claim")
send_claim(c) == Step(c, "claim", "confirm")
read_confirm(c) == Step(c, "confirm", "origin")
connect_origin(c) == Step(c, "origin", "proxy")

(* Both pipes start, with one cancellation token. *)
NewPipe == [at |-> "reading", age |-> 0]
create_with_stats(c) == pipe' = [pipe EXCEPT ![c] = [d \in Directions |-> NewPipe]]

(* The header is written, then the pipes are made. *)
write_proxy_header(c) ==
    /\ At(c, "proxy")
    /\ \/ Move(c, "announce") /\ create_with_stats(c)
       \/ Move(c, "gone") /\ UNCHANGED pipe
    /\ UNCHANGED <<events, worker, active, tunnel, cancel>>

(* The client goes to the worker.  It is dropped if the worker is gone or the *)
(* agent is cancelled.                                                        *)
announce(c) ==
    /\ At(c, "announce")
    /\ \/ worker = "running" /\ Len(events) < EventRoom
          /\ events' = Append(events, <<"ConnectedClient", c>>) /\ Move(c, "sent") /\ UNCHANGED pipe
       \/ (worker = "ended" \/ cancel) /\ Drop({c}) /\ UNCHANGED events
    /\ UNCHANGED <<worker, active, tunnel, cancel>>

---------------------------------------------------------------------------
(* A pipe: cancellation ends the wait for data, not a write.  When it ends it *)
(* drops both of its halves.                                                  *)
SetPipe(c, d, p) ==
    /\ pipe' = [pipe EXCEPT ![c][d] = p]
    /\ UNCHANGED <<conn, events, worker, active, tunnel, cancel>>

read(c, d) ==
    /\ pipe[c][d].at = "reading"
    /\ SetPipe(c, d, [pipe[c][d] EXCEPT !.at = "writing"])

(* End of file or an error. *)
pipe_ends(c, d) ==
    /\ pipe[c][d].at \in {"reading", "writing"}
    /\ SetPipe(c, d, Closed)

cancelled(c, d) ==
    /\ pipe[c][d].at = "reading" /\ conn[c].cancelled
    /\ SetPipe(c, d, Closed)

(* After a write the loop looks at the cancellation first. *)
write(c, d) ==
    /\ pipe[c][d].at = "writing"
    /\ SetPipe(c, d, IF conn[c].cancelled THEN Closed ELSE NewPipe)

(* Thirty seconds pass; of a client that was dropped nobody asks for them. *)
Quiets(c, d) == /\ pipe[c][d].at \in {"reading", "writing"} /\ pipe[c][d].age = 0
               /\ ~conn[c].cancelled
tick ==
    /\ \E c \in Conns, d \in Directions : Quiets(c, d)
    /\ pipe' = [c \in Conns |-> [d \in Directions |->
                  IF Quiets(c, d)
                  THEN [pipe[c][d] EXCEPT !.age = 1] ELSE pipe[c][d]]]
    /\ UNCHANGED <<conn, events, worker, active, tunnel, cancel>>

Setup(c) ==
    \/ resolve_local(c) \/ connect_tunnel(c) \/ send_claim(c) \/ read_confirm(c)
    \/ connect_origin(c) \/ write_proxy_header(c) \/ announce(c)
Worker == new_client \/ connected_client \/ worker_ends
Pipe(c, d) == read(c, d) \/ pipe_ends(c, d) \/ cancelled(c, d) \/ write(c, d)
TcpNext ==
    \/ \E c \in Conns : handle_new_client(c) \/ send_new_client(c) \/ Setup(c)
                        \/ \E d \in Directions : Pipe(c, d)
    \/ Worker \/ clear_old \/ tunnel_ends \/ cancel_agent \/ tick

TcpSpec == TcpInit /\ [][TcpNext]_tvars
(* Tasks run and the worker cleans up every fifteen seconds.  A write is      *)
(* assumed to end: the code puts no bound on it.                              *)
TcpFair ==
    /\ WF_tvars(Worker) /\ WF_tvars(clear_old)
    /\ \A c \in Conns :
          /\ WF_tvars(Setup(c))
          /\ \A d \in Directions : WF_tvars((write(c, d) \/ cancelled(c, d)))
TcpFairSpec == TcpSpec /\ TcpFair

---------------------------------------------------------------------------
(* Types; what is in the channel is a client that waits there. *)
TcpTypeOK ==
    /\ \A c \in Conns :
          /\ conn[c].at \in {"new", "sending", "queued", "resolve", "connect", "claim", "confirm",
                             "origin", "proxy", "announce", "sent", "listed", "gone"}
          /\ \A d \in Directions : pipe[c][d].at \in {"off", "reading", "writing", "closed"}
                                   /\ pipe[c][d].age \in Ages
    /\ Len(events) <= EventRoom
    /\ \A i \in 1 .. Len(events) :
          At(events[i][2], IF events[i][1] = "NewClient" THEN "queued" ELSE "sent")
    /\ worker \in {"running", "ended"} /\ tunnel \in {"running", "ended", "panicked"}
    /\ active \in 0 .. Cardinality(Conns) /\ cancel \in BOOLEAN

(* The number of TCP clients in the statistics is that of the list, at every  *)
(* await of the worker.                                                       *)
StatsMatchList == worker = "running" => active = Cardinality(Listed)

(* A pipe that runs belongs to a client that somebody still holds, or it has  *)
(* been cancelled: a client that is dropped half way, in the channel or with   *)
(* the worker leaves no connection behind.                                     *)
NoOrphanPipe ==
    \A c \in Conns, d \in Directions :
        pipe[c][d].at \in {"reading", "writing"} =>
            conn[c].cancelled \/ conn[c].at \in {"announce", "sent", "listed"}

(* A connection that has moved data in the last thirty seconds, in either     *)
(* direction, is not cleaned up while the agent runs.                         *)
ActiveIsKept ==
    [][\A c \in Conns : At(c, "listed") /\ worker' = "running" /\ ~At(c, "listed")' =>
          \A d \in Directions : pipe[c][d].at = "closed" \/ pipe[c][d].age > 0]_tvars

(* handle_new_client expects its worker: it is gone only when the agent is    *)
(* being stopped, so no client that is announced before is lost by a panic.   *)
PanicsOnlyWhenCancelled == tunnel = "panicked" => cancel

(* Once the agent is cancelled every pipe ends, whatever was under way: half   *)
(* open clients, clients in the channel, pipes that wait for data.            *)
CancelEndsPipes ==
    cancel ~> \A c \in Conns, d \in Directions : pipe[c][d].at \in {"off", "closed"}

(* A client both of whose pipes have ended leaves the list.  The clients are   *)
(* alike: one stands for all.                                                  *)
EndedIsRemoved ==
    LET c == CHOOSE e \in Conns : TRUE
    IN (At(c, "listed") /\ \A d \in Directions : pipe[c][d].at = "closed") ~> ~At(c, "listed")

(* List, statistics and pipes agree, whatever is dropped or gone half way.    *)
ClientsAreAccounted == StatsMatchList /\ NoOrphanPipe /\ PanicsOnlyWhenCancelled

(* Connections end when they should, and not before.                          *)
PipesEndInTime == CancelEndsPipes /\ EndedIsRemoved /\ ActiveIsKept
=============================================================================
