------------------------------- MODULE Daemon -------------------------------
(***************************************************************************)
(* playitd processes that share one IPC endpoint: run_daemon (daemon.rs)   *)
(* from the start of its runtime to the exit code, the single-instance     *)
(* check and the listener of IpcServer (ipc_server.rs).  The runtime is    *)
(* what Supervisor promises: it runs until it is asked to stop or ends.    *)
(***************************************************************************)
EXTENDS Integers, FiniteSets

CONSTANT Daemons    \* processes, each started at most once

ASSUME DaemonsAssumption == Daemons # {} /\ Daemons \cap {"none", "stale"} = {}

VARIABLES
    daemon,  \* per process: place in run_daemon, runtime, IPC task, token, result
    path,    \* the process whose listener the endpoint names, "stale" or "none"
    pipe,    \* whether the endpoint is a Windows named pipe, not a file
    raced    \* history: two processes were starting at the same time
dvars == <<daemon, path, pipe, raced>>

Off == [pc |-> "off", rt |-> "none", ipc |-> "none", host_shutdown |-> FALSE,
        res |-> "none"]

Init ==
    /\ daemon = [d \in Daemons |-> Off]
    /\ path \in {"none", "stale"}
    /\ raced = FALSE
    /\ pipe \in BOOLEAN /\ (pipe => path = "none")

Ended(d) == daemon[d].pc = "ended"
Alive(d) == daemon[d].pc \notin {"off", "ended"}
Starting(d) == daemon[d].pc \in {"check", "remove", "bind"}
Listening(d) == Alive(d) /\ daemon[d].ipc = "running"

(* What try_connect finds: a process that accepts, or nobody. *)
Reachable(d) == path = d /\ Listening(d)
Served == \E d \in Daemons : Reachable(d)

Step(d, new) == daemon' = [daemon EXCEPT ![d] = new] /\ UNCHANGED <<pipe, raced>>
Finish(rec, res) == [rec EXCEPT !.pc = "ended", !.res = res, !.ipc = "none",
                                !.host_shutdown = FALSE]

(* A listener that closes: its file may be removed with it, whatever the     *)
(* file names by then (the library unlinks the path it bound); otherwise it  *)
(* stays behind.  A pipe disappears with its listener.                       *)
ListenerCloses(d) ==
    IF pipe THEN path' = IF path = d THEN "none" ELSE path
    ELSE path' \in {IF path = d THEN "stale" ELSE path, "none"}

---------------------------------------------------------------------------
(* The runtime is started before the endpoint is looked at.                  *)
start(d) ==
    /\ daemon[d].pc = "off"
    /\ \/ /\ daemon' = [daemon EXCEPT ![d] = [Off EXCEPT !.pc = "check", !.rt = "running"]]
          /\ raced' = (raced \/ \E e \in Daemons : Starting(e))
          /\ UNCHANGED pipe
       \/ Step(d, Finish(daemon[d], "err"))
    /\ UNCHANGED path

(* Mutated form: nobody is asked. *)
NoInstanceCheck == FALSE
(* is_running: somebody accepts a connection. *)
is_running == Served

(* IpcServer::new: somebody answers, or the path is cleared for the bind.    *)
check_running(d) ==
    /\ daemon[d].pc = "check"
    /\ Step(d, [daemon[d] EXCEPT !.pc = IF is_running THEN "abort"
                                        ELSE IF pipe THEN "bind" ELSE "remove"])
    /\ UNCHANGED path

remove_file(d) ==
    /\ daemon[d].pc = "remove"
    /\ path' \in {"none"} \cup (IF path = "none" THEN {} ELSE {path})
    /\ Step(d, [daemon[d] EXCEPT !.pc = "bind"])

(* bind_listener and the spawn of the IPC task.  The bind fails on a name    *)
(* that exists, and for other reasons; when the permissions of the file      *)
(* cannot be set it has been bound already.                                  *)
bind_listener(d) ==
    /\ daemon[d].pc = "bind"
    /\ \/ /\ path = "none"
          /\ path' = d
          /\ Step(d, [daemon[d] EXCEPT !.pc = "select", !.ipc = "running"])
       \/ /\ Step(d, [daemon[d] EXCEPT !.pc = "abort"])
          /\ path' \in {path} \cup (IF path = "none" /\ ~pipe THEN {"stale"} ELSE {})

(* Mutated form: the shutdown is not requested before the wait. *)
WaitWithoutRequest(rec) == rec
(* runtime.shutdown: request, then wait; a joined supervisor is not awaited. *)
request_shutdown(rec) == [rec EXCEPT !.rt = IF @ = "running" THEN "asked" ELSE @]

(* Mutated form: the error is returned with the runtime still running. *)
AbortKeepsRuntime(d) ==
    /\ daemon[d].pc = "abort"
    /\ Step(d, Finish(daemon[d], "err"))
    /\ UNCHANGED path

(* The endpoint could not be had: the runtime is shut down first. *)
abort(d) ==
    /\ daemon[d].pc = "abort"
    /\ daemon[d].rt # "asked"
    /\ Step(d, IF daemon[d].rt = "running" THEN request_shutdown(daemon[d])
               ELSE Finish(daemon[d], "err"))
    /\ UNCHANGED path

(* The supervisor ends when it is asked to, or by itself: an error, a panic. *)
runtime_ends(d) ==
    /\ Alive(d) /\ daemon[d].rt \in {"running", "asked"}
    /\ \E end \in {"failed"} \cup (IF daemon[d].rt = "asked" THEN {"ended"} ELSE {}) :
          Step(d, [daemon[d] EXCEPT !.rt = end])
    /\ UNCHANGED path

(* IpcServer::run leaves its loop when the token is cancelled. *)
ipc_ends(d) ==
    /\ Listening(d) /\ daemon[d].host_shutdown
    /\ Step(d, [daemon[d] EXCEPT !.ipc = "done"])
    /\ ListenerCloses(d)

---------------------------------------------------------------------------
(* The select of run_daemon; every branch that is ready may be taken.  The   *)
(* branch of the IPC task consumes its handle, and so does the one of the    *)
(* runtime, which remembers it.  Each ends with host_shutdown.cancel().      *)
Leave(d, rec, res) ==
    Step(d, [rec EXCEPT !.pc = "join_ipc", !.res = res, !.host_shutdown = TRUE])

ctrl_c(d) ==
    /\ daemon[d].pc = "select"
    /\ Leave(d, daemon[d], "ok")
    /\ UNCHANGED path

host_cancelled(d) ==
    /\ daemon[d].pc = "select" /\ daemon[d].host_shutdown
    /\ Leave(d, daemon[d], "ok")
    /\ UNCHANGED path

runtime_done(d) ==
    /\ daemon[d].pc = "select" /\ daemon[d].rt \in {"ended", "failed"}
    /\ Leave(d, [daemon[d] EXCEPT !.rt = "joined"],
             IF daemon[d].rt = "ended" THEN "ok" ELSE "err")
    /\ UNCHANGED path

(* IpcServer::run returns Ok(()) whenever it returns, and does not panic: the *)
(* two error arms of this branch are not reached.                            *)
ipc_done(d) ==
    /\ daemon[d].pc = "select" /\ daemon[d].ipc = "done"
    /\ Leave(d, [daemon[d] EXCEPT !.ipc = "joined"], "ok")
    /\ UNCHANGED path

(* At most five seconds for the IPC task.  A handle that was consumed by the *)
(* select panics when it is polled again: the process unwinds, its runtime   *)
(* is only asked to stop (Drop), and the exit code is a failure.             *)
join_ipc(d) ==
    /\ daemon[d].pc = "join_ipc"
    /\ \/ /\ daemon[d].ipc = "joined"
          /\ Step(d, Finish(daemon[d], "panic"))
          /\ UNCHANGED path
       \/ /\ daemon[d].ipc # "joined"
          /\ Step(d, request_shutdown([daemon[d] EXCEPT !.pc = "wait_rt",
                        !.ipc = IF @ = "done" THEN "joined" ELSE @]))
          /\ UNCHANGED path

(* The process returns its result; the listener goes with it.               *)
exit(d) ==
    /\ daemon[d].pc = "wait_rt" /\ daemon[d].rt \in {"ended", "failed", "joined"}
    /\ Step(d, Finish(daemon[d],
                 IF daemon[d].res = "ok" /\ daemon[d].rt # "failed" THEN "ok" ELSE "err"))
    /\ IF daemon[d].ipc = "running" THEN ListenerCloses(d) ELSE UNCHANGED path

---------------------------------------------------------------------------
(* What clients ask for over a connection they made while it was possible.   *)
stop_request(d) ==
    /\ Alive(d) /\ daemon[d].ipc # "none" /\ ~daemon[d].host_shutdown
    /\ Step(d, [daemon[d] EXCEPT !.host_shutdown = TRUE])
    /\ UNCHANGED path

reset_request(d) ==
    /\ Alive(d) /\ daemon[d].ipc # "none" /\ daemon[d].rt = "running"
    /\ Step(d, [daemon[d] EXCEPT !.rt = "asked"])
    /\ UNCHANGED path

(* The process is killed: SIGTERM (only Ctrl+C is handled), or a crash.      *)
kill(d) ==
    /\ Alive(d)
    /\ Step(d, Finish(daemon[d], "killed"))
    /\ path' = IF path # d THEN path ELSE IF pipe THEN "none" ELSE "stale"

Run(d) ==
    \/ check_running(d) \/ remove_file(d) \/ bind_listener(d) \/ abort(d)
    \/ runtime_ends(d) \/ ipc_ends(d) \/ host_cancelled(d) \/ runtime_done(d)
    \/ ipc_done(d) \/ join_ipc(d) \/ exit(d)
Environment(d) == start(d) \/ ctrl_c(d) \/ stop_request(d) \/ reset_request(d) \/ kill(d)
Next == \E d \in Daemons : Run(d) \/ Environment(d)

(* Tasks run, and a runtime that was asked to stop ends: this is what        *)
(* Supervisor shows.  Nobody has to stop a daemon.                           *)
Runs(d) == \/ check_running(d) \/ remove_file(d) \/ bind_listener(d) \/ abort(d)
           \/ join_ipc(d) \/ exit(d)
Notices(d) == host_cancelled(d) \/ runtime_done(d) \/ ipc_done(d)
Obeys(d) == daemon[d].rt = "asked" /\ runtime_ends(d)
Fair == \A d \in Daemons :
    WF_dvars(Runs(d)) /\ WF_dvars(Notices(d)) /\ WF_dvars(ipc_ends(d)) /\ WF_dvars(Obeys(d))
Spec == Init /\ [][Next]_dvars
FairSpec == Spec /\ Fair

---------------------------------------------------------------------------
(* Type correctness; the name of a pipe never outlives its listener. *)
TypeOK ==
    /\ daemon \in [Daemons ->
          [pc : {"off", "check", "remove", "bind", "abort", "select", "join_ipc",
                 "wait_rt", "ended"},
           rt : {"none", "running", "asked", "ended", "failed", "joined"},
           ipc : {"none", "running", "done", "joined"},
           host_shutdown : BOOLEAN,
           res : {"none", "ok", "err", "panic", "killed"}]]
    /\ raced \in BOOLEAN /\ pipe \in BOOLEAN
    /\ path \in Daemons \cup {"none", "stale"}
    /\ pipe => path # "stale"

(* A process that returns a result has waited for its runtime, on every path *)
(* through run_daemon: also when the endpoint is taken or cannot be bound.   *)
EndedIsClean ==
    \A d \in Daemons : daemon[d].res \in {"ok", "err"} /\ Ended(d)
                          => daemon[d].rt \in {"none", "ended", "failed", "joined"}

(* A daemon that serves keeps its endpoint as long as no two daemons start at *)
(* the same time: check, removal and bind of IpcServer are three steps, but  *)
(* whoever starts later finds the endpoint served.                           *)
EndpointIsKept ==
    ~raced => \A d \in Daemons : Listening(d) => path = d

(* run_daemon does not panic, whoever stops it: the test of the stop over IPC  *)
(* joins the daemon's task with expect("daemon task panicked") and asserts an  *)
(* Ok.  The select may take the end of the IPC task, whose handle is then       *)
(* polled again.                                                                *)
StopReturnsOk == \A d \in Daemons : daemon[d].res # "panic"

(* A stop request ends the process, wherever run_daemon is, be it with a       *)
(* panic (StopReturnsOk).  The processes are alike: one stands for all.        *)
StopEnds == LET d == CHOOSE e \in Daemons : TRUE IN daemon[d].host_shutdown ~> Ended(d)
=============================================================================
