----------------------------- MODULE ServiceCli -----------------------------
(***************************************************************************)
(* One playit command (playit-cli: client.rs, service.rs, linux.rs, the     *)
(* set-up flow of main.rs) against the daemons of one endpoint and the      *)
(* service manager that runs the installed one.  Waits of the command that  *)
(* poll a number of times may succeed or give up at any poll.               *)
(***************************************************************************)
EXTENDS Daemon

CONSTANTS
    Managed     \* whether the command may use the service manager

VARIABLES
    key,     \* per process: the secret its runtime has
    secret,  \* the secret file
    unit,    \* the process of the installed service, or "none"
    cli      \* the command

cvars == <<daemon, path, pipe, raced, key, secret, unit, cli>>
world == <<daemon, path, pipe, raced, key, secret, unit>>

Commands == {"auto", "setup", "start", "stop", "status", "reset", "attach"}
Keys == {"none", "good", "bad"}
Idle == [cmd |-> "none", svc |-> FALSE, pc |-> "idle", ok |-> "none", err |-> "none",
         after |-> "none", conn |-> "none", said |-> "none"]

CliInit ==
    /\ Init /\ path = "none" /\ ~pipe
    /\ secret \in Keys
    /\ key = [d \in Daemons |-> "none"]
    /\ unit = "none"
    /\ cli = Idle

Goto(pc) ==
    cli' = IF pc \in {"done", "failed"}
           THEN [Idle EXCEPT !.cmd = cli.cmd, !.pc = pc, !.said = cli.said]
           ELSE [cli EXCEPT !.pc = pc]
At(pc) == cli.pc = pc /\ UNCHANGED world
Say(word, pc) ==
    cli' = IF pc = "done" THEN [Idle EXCEPT !.cmd = cli.cmd, !.pc = pc, !.said = word]
           ELSE [cli EXCEPT !.said = word, !.pc = pc]

---------------------------------------------------------------------------
(* What the runtime of a process may report, by the secret it has.           *)
lifecycle(d) ==
    IF daemon[d].rt # "running" THEN {"Stopping"}
    ELSE {"Starting"} \cup
         (CASE key[d] = "none" -> {"WaitingForSecret"}
            [] key[d] = "bad"  -> {"HasInvalidSecret"}
            [] key[d] = "good" -> {"Running", "DisabledOverLimit", "Error"})

(* A new process loads the secret file. *)
Launch(d) ==
    /\ start(d)
    /\ key' = [key EXCEPT ![d] = IF daemon'[d].pc = "ended" THEN "none" ELSE secret]

(* The service is started with the machine.  Daemons that run at the same     *)
(* time are the subject of Daemon.                                            *)
boot(d) ==
    /\ \A e \in Daemons : daemon[e].pc = "off"
    /\ Launch(d)
    /\ unit' = d
    /\ UNCHANGED <<secret, cli>>

(* The unit has Restart=on-failure: a failed exit is restarted, a successful *)
(* one and a stop by the manager are not.                                    *)
restart_on_failure(d) ==
    /\ unit \in Daemons /\ Ended(unit) /\ daemon[unit].res \in {"err", "panic"}
    /\ Launch(d)
    /\ unit' = d
    /\ UNCHANGED <<secret, cli>>

Active == unit \in Daemons /\ Alive(unit)

(* The secret of a process ends with it. *)
Forget(d) == key' = [key EXCEPT ![d] = IF daemon'[d].pc = "ended" THEN "none" ELSE @]

DaemonStep ==
    \E d \in Daemons : /\ Run(d) \/ ctrl_c(d)
                       /\ Forget(d)
                       /\ UNCHANGED <<secret, unit, cli>>

---------------------------------------------------------------------------
(* ensure_installed_service_running_for_cli, then cli.ok or cli.err. *)
ensure_running ==
    /\ At("ensure")
    /\ Goto(IF Served THEN cli.ok ELSE IF Managed THEN "prepare" ELSE cli.err)

prepare_installed_service ==
    \/ At("prepare") /\ Goto(IF Active THEN "poll" ELSE "ask_start")
    \/ At("ask_start") /\ (Goto("start") \/ Goto(cli.err))

(* Up to 20 or 50 polls. *)
wait_for_installed_service ==
    /\ At("poll")
    /\ Goto(IF Served THEN cli.ok ELSE cli.err)

(* The manager starts the unit, unless it is up by now. *)
start_service ==
    /\ cli.pc = "start"
    /\ \/ /\ Served \/ Active
          /\ Goto(cli.ok)
          /\ UNCHANGED world
       \/ /\ ~Served /\ ~Active
          /\ \E d \in Daemons : Launch(d) /\ unit' = d
          /\ Goto("poll")
          /\ UNCHANGED <<secret>>
       \/ /\ ~Served /\ ~Active
          /\ Goto(cli.err)
          /\ UNCHANGED world

(* The installed service is brought up first; an explicit socket is not.     *)
Ensure(ok) ==
    cli' = IF cli.svc THEN [cli EXCEPT !.pc = "ensure", !.ok = ok, !.err = "failed"]
           ELSE [cli EXCEPT !.pc = ok]

(* connect_target: the connection is with the process that accepts it.       *)
connect(from, to, err) ==
    /\ At(from)
    /\ \/ \E d \in Daemons : /\ Reachable(d)
                             /\ cli' = [cli EXCEPT !.pc = to, !.conn = d]
       \/ ~Served /\ Goto(err)

(* A call is answered as long as the process of the connection lives.        *)
Lost == ~Alive(cli.conn)

---------------------------------------------------------------------------
begin ==
    /\ At("idle")
    /\ \E c \in Commands, s \in BOOLEAN :
          cli' = [Idle EXCEPT !.cmd = c, !.svc = s,
             !.after = IF c = "auto" THEN "attach" ELSE "done",
             !.ok = CASE c = "auto" -> "auto" [] c = "start" -> "done" [] OTHER -> "waiting",
             !.err = IF c = "auto" THEN "auto" ELSE "failed",
             !.pc = CASE c \in {"auto", "setup"} ->
                             IF s THEN "ensure" ELSE IF c = "auto" THEN c ELSE "waiting"
                      [] c = "start" -> IF s /\ Managed THEN "ensure" ELSE "failed"
                      [] OTHER -> c]

(* Mutated form: the wait has no end. *)
WaitForSecret == FALSE

(* The five seconds of the wait after a reset are over: nobody is there, or    *)
(* whoever is there does not come to wait for a secret.  A daemon on its way   *)
(* up or down takes less.                                                      *)
give_up ==
    /\ At("await_waiting")
    /\ \A d \in Daemons : Alive(d) => Reachable(d) /\ daemon[d].rt = "running"
    /\ Goto("failed")

(* At most 50 polls; then the lifecycle decides. *)
wait_for_auto_lifecycle ==
    /\ At("lifecycle")
    /\ IF Lost THEN Goto("failed")
       ELSE \E l \in lifecycle(cli.conn) :
            Goto(CASE l = "Running" -> "attach"
                   [] l = "WaitingForSecret" -> "setup"
                   [] l = "HasInvalidSecret" -> "ask_reset"
                   [] OTHER -> "failed")

wait_for_service_waiting_for_secret ==
    \/ connect("await_waiting", "await_lifecycle", "await_waiting")
    \/ give_up
    \/ /\ At("await_lifecycle")
       /\ IF Lost THEN Goto("failed")
          ELSE \E l \in lifecycle(cli.conn) :
               Goto(CASE l = "WaitingForSecret" -> "setup"
                      [] l \in {"Stopping", "Error"} -> "failed"
                      [] OTHER -> "await_waiting")

run_auto ==
    \/ connect("auto", "lifecycle", "failed")
    \/ wait_for_auto_lifecycle
    \/ At("ask_reset") /\ (Goto("reset_for_setup") \/ Goto("failed"))
    \/ connect("reset_for_setup", "reset_call", "failed")
    \/ wait_for_service_waiting_for_secret

ensure_service_waiting_for_secret ==
    \/ At("setup") /\ Ensure("waiting")
    \/ connect("waiting", "check_waiting", "failed")
    \/ /\ At("check_waiting")
       /\ IF Lost THEN Goto("failed")
          ELSE \E l \in lifecycle(cli.conn) :
               Goto(IF l = "WaitingForSecret" THEN "claim" ELSE "failed")

(* run_setup_flow: the user approves the claim or not.                       *)
provision_service_secret == connect("provision", "set_secret", "failed")
run_setup ==
    \/ ensure_service_waiting_for_secret
    \/ At("claim") /\ (Ensure("provision") \/ Goto("failed"))
    \/ provision_service_secret

(* The supervisor takes a secret as long as it waits for one.                 *)
Waits(d) == Alive(d) /\ daemon[d].rt = "running" /\ key[d] = "none"
Provided(d) ==
    /\ secret' = "good"
    /\ key' = [key EXCEPT ![d] = "good"]
    /\ UNCHANGED <<daemon, path, pipe, raced, unit>>

(* Another client, or a claim the runtime was asked for, brings the secret.   *)
provided_by_another(d) == Waits(d) /\ Provided(d) /\ UNCHANGED cli

(* A request is refused unless the runtime reports that it waits for a secret; *)
(* otherwise it is sent to the supervisor.  The supervisor writes the file or   *)
(* reports that it could not.  Its answer is awaited until the runtime stops:   *)
(* a supervisor that went on with another secret never reads the request.       *)
set_secret ==
    \/ /\ At("set_secret")
       /\ IF Lost THEN Goto("failed")
          ELSE \E l \in lifecycle(cli.conn) :
               Goto(IF l = "WaitingForSecret" THEN "set_answer" ELSE "failed")
    \/ cli.pc = "set_answer" /\ Waits(cli.conn) /\ Provided(cli.conn) /\ Goto(cli.after)
    \/ At("set_answer") /\ Waits(cli.conn) /\ Goto("failed")
    \/ At("set_answer") /\ (Lost \/ daemon[cli.conn].rt # "running") /\ Goto("failed")

(* Mutated form: the runtime is not asked to stop. *)
FileOnly(d) == UNCHANGED daemon
request_stop(d) == daemon' = [daemon EXCEPT ![d].rt = IF @ = "running" THEN "asked" ELSE @]

(* reset_secret removes the file and asks the runtime to stop.  A runtime that *)
(* stops already, one with an inline secret and a file that cannot be removed  *)
(* are errors.                                                                 *)
reset_secret ==
    /\ cli.pc = "reset_call"
    /\ \/ Goto("failed") /\ UNCHANGED world
       \/ /\ ~Lost /\ daemon[cli.conn].rt = "running"
          /\ secret' = "none"
          /\ request_stop(cli.conn)
          /\ Say("reset", IF cli.cmd = "auto" THEN "await_waiting" ELSE "stop_call")
          /\ UNCHANGED <<path, pipe, raced, key, unit>>

(* The stop request of `stop` and `reset`. *)
stop ==
    /\ cli.pc = "stop_call"
    /\ \/ /\ Lost
          /\ Goto(IF cli.cmd = "stop" /\ cli.svc THEN "manager_stop" ELSE "failed")
          /\ UNCHANGED world
       \/ /\ ~Lost
          /\ daemon' = [daemon EXCEPT ![cli.conn].host_shutdown = TRUE]
          /\ Goto(IF cli.cmd = "stop" THEN "probe" ELSE "done")
          /\ UNCHANGED <<path, pipe, raced, key, secret, unit>>

(* stop_installed_service_for_cli: the manager kills the unit.               *)
stop_by_manager ==
    /\ cli.pc = "manager_stop"
    /\ \/ ~Managed /\ Goto("failed") /\ UNCHANGED world
       \/ Managed /\ ~Active /\ Goto("done") /\ UNCHANGED world
       \/ /\ Managed /\ Active
          /\ kill(unit) /\ Forget(unit)
          /\ unit' = "none"
          /\ Goto("probe")
          /\ UNCHANGED secret
       \/ Managed /\ Active /\ Goto("probe") /\ UNCHANGED world

run_stop ==
    \/ connect("stop", "stop_call", IF cli.svc THEN "manager_stop" ELSE "failed")
    \/ At("probe") /\ Say(IF Served THEN "may still be running" ELSE "stopped", "done")

run_status ==
    \/ At("status") /\ Goto(IF Served THEN "status_connect" ELSE "done")
    \/ connect("status_connect", "status_call", "failed")
    \/ At("status_call") /\ Goto(IF Lost THEN "failed" ELSE "done")

run_reset == connect("reset", "reset_call", "failed")

(* The session lasts until the user detaches or the daemon goes.             *)
run_attach ==
    \/ connect("attach", "attached", "failed")
    \/ At("attached") /\ Goto("done")

CliStep ==
    \/ ensure_running \/ prepare_installed_service \/ start_service
    \/ wait_for_installed_service \/ run_auto \/ run_setup \/ set_secret
    \/ reset_secret \/ stop \/ stop_by_manager \/ run_stop \/ run_status
    \/ run_reset \/ run_attach

CliNext ==
    \/ DaemonStep \/ begin \/ CliStep
    \/ \E d \in Daemons : boot(d) \/ restart_on_failure(d) \/ provided_by_another(d)

(* Tasks of the daemon run (Daemon), and so does the command.  The user may  *)
(* leave a claim unapproved, or stay attached.  No call of the command has a  *)
(* timeout: that a living daemon answers is an assumption, for which           *)
(* IpcConnection gives the reasons; the answer to set_secret is not assumed.   *)
CliSpec == CliInit /\ [][CliNext]_cvars
DaemonRuns(d) ==
    (Runs(d) \/ Notices(d)) /\ Forget(d) /\ UNCHANGED <<secret, unit, cli>>
DaemonObeys(d) == Obeys(d) /\ Forget(d) /\ UNCHANGED <<secret, unit, cli>>
CommandRuns == cli.pc \notin {"claim", "attached"} /\ CliStep
CliFair ==
    /\ \A d \in Daemons : WF_cvars(DaemonRuns(d)) /\ WF_cvars(DaemonObeys(d))
    /\ WF_cvars(CommandRuns) /\ SF_cvars(give_up)
CliFairSpec == CliSpec /\ CliFair

---------------------------------------------------------------------------
(* Type correctness of the command and of what it works on; whatever it asks  *)
(* of a daemon it asks over a connection.                                     *)
Calls == {"lifecycle", "reset_call", "await_lifecycle", "check_waiting", "set_secret",
          "set_answer", "stop_call", "status_call", "attached"}
CliTypeOK ==
    /\ key \in [Daemons -> Keys]
    /\ secret \in Keys
    /\ unit \in Daemons \cup {"none"}
    /\ cli.cmd \in Commands \cup {"none"}
    /\ cli.conn \in Daemons \cup {"none"}
    /\ cli.pc \in Calls => cli.conn \in Daemons
    /\ cli.said \in {"none", "reset", "stopped", "may still be running"}

(* No daemon goes on with a secret that was reset: reset_secret asks the     *)
(* runtime to stop, also when the stop that `playit reset` sends next on the  *)
(* same connection comes too late or, in `playit`, is never sent.  The processes *)
(* are alike: one stands for all.                                             *)
ResetTakesEffect ==
    LET d == CHOOSE e \in Daemons : TRUE IN
        (key[d] # "none" /\ secret = "none") ~> (key[d] = "none" \/ secret # "none")

(* A command ends unless it waits for its user or brings a secret to a runtime  *)
(* that has gone on with another one.  Daemons come and go meanwhile, and calls *)
(* are answered while the daemon lives.  The wait for the answer to a secret    *)
(* nobody wants has no end of its own; it ends with the runtime.                *)
Unwanted == cli.pc = "set_answer" /\ key[cli.conn] # "none"
CommandsEnd ==
    /\ (cli.pc # "idle")
          ~> (cli.pc \in {"done", "failed", "claim", "attached"} \/ Unwanted)
    /\ (Unwanted /\ daemon[cli.conn].rt # "running") ~> (cli.pc # "set_answer")

(* When `playit stop` has reported that the service stopped, the service stays *)
(* stopped until somebody starts it again.  It does not: the daemon may panic  *)
(* on the way out (join_ipc), which the service manager takes for a failure.   *)
(* No run checks it.                                                           *)
StopIsFinal ==
    [][\A d \in Daemons : restart_on_failure(d) => cli.said # "stopped"]_cvars

(* Whoever agrees to reset an invalid secret and run setup again gets to the   *)
(* set-up.  Not if nobody starts the daemon again, which the reset stops.  No  *)
(* run checks it.                                                              *)
ResetLeadsToSetup ==
    (cli.cmd = "auto" /\ cli.said = "reset") => cli.pc # "failed"
=============================================================================
