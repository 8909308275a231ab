--------------------------- MODULE WindowsService ---------------------------
(***************************************************************************)
(* The process the Windows service manager runs (bin/playitd-service.rs):  *)
(* it starts a playitd of its own, reports when the pipe is served, passes *)
(* a stop on over IPC and kills its child after a deadline.  Other daemons *)
(* may be started, stopped and killed at any time (Daemon).                *)
(***************************************************************************)
EXTENDS Daemon

VARIABLE host   \* its status, where it is, its child, whom it asks, a stop that
                \* was sent; blind: the system would not tell about the child
wvars == <<daemon, path, pipe, raced, host>>

HostInit ==
    /\ Init
    /\ host = [status |-> "Unstarted", pc |-> "idle", child |-> "none", peer |-> "none",
               stop |-> FALSE, blind |-> FALSE]

HostAt(pc) == pipe /\ host.pc = pc
ChildEnded == Ended(host.child)
HostGoto(pc) == host' = [host EXCEPT !.pc = pc]

(* set_service_status: when it fails run_service returns, and the manager    *)
(* goes on showing the status before.                                        *)
NotReported == HostGoto("over")
Report(status, pc) == host' = [host EXCEPT !.status = status, !.pc = pc] \/ NotReported
Stopped == Report("Stopped", "over")

(* try_wait or wait fails: that counts as an exit with code 1.               *)
CountedAsEnded ==
    host' = [host EXCEPT !.status = "Stopped", !.pc = "over", !.blind = TRUE] \/ NotReported

(* run_service up to the spawn of the child. *)
run_service ==
    /\ HostAt("idle")
    /\ \/ \E d \in Daemons :
             /\ start(d)
             /\ host' = [host EXCEPT !.status = "StartPending", !.pc = "startup", !.child = d]
       \/ Stopped /\ UNCHANGED dvars

(* wait_for_startup_ready: the child is looked at, then the pipe. *)
wait_for_startup_ready ==
    \/ /\ HostAt("startup")
       /\ \/ ChildEnded /\ Stopped
          \/ ~ChildEnded /\ (HostGoto("probe") \/ CountedAsEnded)
       /\ UNCHANGED dvars
    \/ /\ HostAt("probe")
       /\ IF Served THEN Report("Running", "running") ELSE HostGoto("startup")
       /\ UNCHANGED dvars

(* Mutated form: the child is left to itself. *)
KeepChild == Stopped /\ UNCHANGED dvars

(* The child is killed if there is still one; a failure is ignored, and the  *)
(* wait for its end has no deadline.                                         *)
terminate_child ==
    /\ HostGoto("reap")
    /\ \/ Alive(host.child) /\ kill(host.child)
       \/ UNCHANGED dvars

reap ==
    /\ HostAt("reap")
    /\ \/ ChildEnded /\ Stopped
       \/ ~ChildEnded /\ CountedAsEnded
    /\ UNCHANGED dvars

startup_timed_out == HostAt("startup") /\ terminate_child

(* The control handler: stops are accepted while the service runs. *)
control_stop ==
    /\ pipe /\ host.status = "Running" /\ ~host.stop
    /\ host' = [host EXCEPT !.stop = TRUE]
    /\ UNCHANGED dvars

(* A try_wait that fails counts as no exit here. *)
wait_for_stop_or_exit ==
    /\ HostAt("running")
    /\ \/ ChildEnded /\ Stopped
       \/ host.stop /\ Report("StopPending", "connect")
    /\ UNCHANGED dvars

(* The stop goes to whoever serves the pipe.  Failures are ignored, but each  *)
(* of the three steps waits for the other side without a deadline: for the    *)
(* connection, for its greeting, for the answer.                              *)
request_child_shutdown ==
    \/ /\ HostAt("connect")
       /\ \/ \E d \in Daemons :
                Reachable(d) /\ host' = [host EXCEPT !.pc = "hello", !.peer = d]
          \/ HostGoto("wait")
       /\ UNCHANGED dvars
    \/ /\ HostAt("hello")
       /\ HostGoto("ask") \/ HostGoto("wait")
       /\ UNCHANGED dvars
    \/ /\ HostAt("ask")
       /\ HostGoto("wait")
       /\ stop_request(host.peer) \/ UNCHANGED dvars

(* After the deadline the child is killed. *)
wait_for_child_exit ==
    \/ HostAt("wait") /\ ChildEnded /\ Stopped /\ UNCHANGED dvars
    \/ HostAt("wait") /\ ~ChildEnded /\ CountedAsEnded /\ UNCHANGED dvars
    \/ HostAt("wait") /\ terminate_child

HostStep ==
    \/ run_service \/ wait_for_startup_ready \/ startup_timed_out \/ reap
    \/ wait_for_stop_or_exit \/ request_child_shutdown \/ wait_for_child_exit
HostNext == HostStep \/ control_stop \/ (Next /\ UNCHANGED host)

(* The host is one thread; where it waits for a daemon without a deadline     *)
(* nothing is promised.                                                       *)
AtMercy == host.pc \in {"connect", "hello", "ask", "reap"}
HostSpec == HostInit /\ [][HostNext]_wvars
HostFair == Fair /\ WF_wvars(HostStep /\ ~AtMercy)
HostFairSpec == HostSpec /\ HostFair

(* Type correctness; a stop is taken only by a service that was started. *)
HostTypeOK ==
    /\ host.status \in {"Unstarted", "StartPending", "Running", "StopPending", "Stopped"}
    /\ host.pc \in {"idle", "startup", "probe", "running", "connect", "hello", "ask", "wait",
                    "reap", "over"}
    /\ {host.child, host.peer} \subseteq Daemons \cup {"none"}
    /\ {host.stop, host.blind} \subseteq BOOLEAN
    /\ host.stop => host.status \in {"Running", "StopPending", "Stopped"}

(* A service that is reported stopped has no child left, on every way to this *)
(* report: failed start, start that takes too long, exit, stop, kill.  The    *)
(* one exception is a child the system would not tell about: run_service      *)
(* takes a failed try_wait or wait for its end, and may leave it running.     *)
StoppedHasNoChild ==
    host.status = "Stopped" /\ host.child # "none" /\ ~host.blind => Ended(host.child)

(* A stop of the service gets to the end of run_service, provided that the    *)
(* daemon it asks answers or hangs up and a child that is to be killed dies:  *)
(* the 15 seconds of STOP_TIMEOUT begin only after the request, and the wait  *)
(* after the kill has none.                                                   *)
HostStops == []<>~AtMercy => (host.stop ~> host.pc = "over")

(* A stop ends what it is sent to: a daemon, and the run of the service.      *)
StopsEnd == StopEnds /\ HostStops
=============================================================================
