---------------------------- MODULE DaemonProofs ----------------------------
(***************************************************************************)
(* Proofs about processes: Daemon, under the service host                  *)
(* (WindowsService) and under the commands and the service manager         *)
(* (ServiceCli), for any number of daemons; and the account commands of    *)
(* AccountCli, for any number of terminals.                                *)
(***************************************************************************)
EXTENDS WindowsService, ServiceCli, AccountCli, TLAPS

Process ==
  [pc : {"off", "check", "remove", "bind", "abort", "select", "join_ipc", "wait_rt", "ended"},
   rt : {"none", "running", "asked", "ended", "failed", "joined"},
   ipc : {"none", "running", "done", "joined"},
   host_shutdown : BOOLEAN,
   res : {"none", "ok", "err", "panic", "killed"}]

(* What every action of a process does to daemon: a new record for it, and *)
(* nothing for the others.                                                 *)
LEMMA StepChanges ==
  ASSUME daemon \in [Daemons -> Process], NEW d \in Daemons, NEW new \in Process, Step(d, new)
  PROVE  /\ daemon' \in [Daemons -> Process]
         /\ daemon'[d] = new
         /\ \A e \in Daemons \ {d} : daemon'[e] = daemon[e]
         /\ pipe' = pipe /\ raced' = raced
BY DEF Step

(* The assignments to the fields of a process.                             *)
LEMMA FinishFields ==
  ASSUME NEW rec \in Process, NEW res \in {"ok", "err", "panic", "killed"}
  PROVE  /\ Finish(rec, res) \in Process
         /\ Finish(rec, res).pc = "ended" /\ Finish(rec, res).ipc = "none"
         /\ Finish(rec, res).res = res /\ Finish(rec, res).rt = rec.rt
BY Zenon DEF Finish, Process

-----------------------------------------------------------------------------
Clean == {"none", "ended", "failed", "joined"}

(* A process that has not started has no runtime, and one that has not     *)
(* bound the endpoint does not listen.                                     *)
OffIsIdle ==
  \A d \in Daemons : /\ daemon[d].pc = "off" => daemon[d].rt = "none"
                     /\ Starting(d) => daemon[d].ipc # "running"

(* Without a race one process starts at a time, and once it has found the  *)
(* endpoint free nobody listens until it binds.                            *)
OneStarts == ~raced => \A d, e \in Daemons : Starting(d) /\ Starting(e) => d = e
FoundFree ==
  ~raced => \A d \in Daemons : daemon[d].pc \in {"remove", "bind"} =>
                                 \A e \in Daemons : ~Listening(e)

DaemonInv ==
  /\ TypeOK
  /\ EndedIsClean /\ OffIsIdle
  /\ OneStarts /\ FoundFree /\ EndpointIsKept

(* The steps that leave the endpoint alone, start nothing and begin no     *)
(* listener keep the invariant, if what they end is clean.                 *)
LEMMA QuietStep ==
  ASSUME DaemonInv, NEW d \in Daemons, NEW new \in Process, Step(d, new), UNCHANGED path,
         new.pc # "off",
         new.pc = "ended" /\ new.res \in {"ok", "err"} => new.rt \in Clean,
         new.pc \in {"check", "remove", "bind"} => Starting(d),
         new.pc \in {"remove", "bind"} => raced \/ \A e \in Daemons : ~Listening(e),
         new.pc # "ended" /\ new.ipc = "running" => Listening(d)
  PROVE  DaemonInv'
<1>1. /\ daemon' \in [Daemons -> Process] /\ daemon'[d] = new
      /\ \A e \in Daemons \ {d} : daemon'[e] = daemon[e]
      /\ pipe' = pipe /\ raced' = raced
  BY StepChanges DEF DaemonInv, TypeOK, Process
<1>2. TypeOK'
  BY <1>1 DEF DaemonInv, TypeOK, Process
<1>3. EndedIsClean' /\ OffIsIdle'
  BY <1>1 DEF DaemonInv, EndedIsClean, OffIsIdle, Ended, Clean, Starting, Listening
<1>4. \A e \in Daemons : Listening(e)' => Listening(e)
  BY <1>1 DEF Listening, Alive
<1>5. \A e \in Daemons : Starting(e)' => Starting(e)
  BY <1>1 DEF Starting
<1>6. OneStarts' /\ EndpointIsKept'
  BY <1>1, <1>4, <1>5 DEF DaemonInv, OneStarts, EndpointIsKept
<1>7. FoundFree'
  BY <1>1, <1>4 DEF DaemonInv, FoundFree
<1> QED
  BY <1>2, <1>3, <1>6, <1>7 DEF DaemonInv

(* The steps of run_daemon up to the bind, other than the removal and the  *)
(* bind itself.                                                            *)
LEMMA CheckStep ==
  ASSUME DaemonInv, NEW d \in Daemons, check_running(d) \/ abort(d)
  PROVE  DaemonInv'
<1>0. daemon[d] \in Process
  BY DEF DaemonInv, TypeOK, Process
<1>1. CASE check_running(d)
  <2> DEFINE pc == IF is_running THEN "abort" ELSE IF pipe THEN "bind" ELSE "remove"
             new == [daemon[d] EXCEPT !.pc = pc]
  <2>1. Step(d, new) /\ UNCHANGED path /\ daemon[d].pc = "check"
    BY <1>1 DEF check_running
  <2>2. pc \in {"abort", "bind", "remove"}
    OBVIOUS
  <2>3. ASSUME NEW q \in {"abort", "bind", "remove"}
        PROVE  LET rec == [daemon[d] EXCEPT !.pc = q]
               IN  rec \in Process /\ rec.pc = q /\ rec.ipc = daemon[d].ipc
    BY <1>0 DEF Process
  <2>4. pc \in {"bind", "remove"} => raced \/ \A e \in Daemons : ~Listening(e)
    BY DEF is_running, Served, Reachable, DaemonInv, EndpointIsKept
  <2>5. Starting(d) /\ (daemon[d].ipc = "running" => Listening(d))
    BY <2>1 DEF Starting, Listening, Alive
  <2> HIDE DEF pc
  <2>6. new \in Process /\ new.pc = pc /\ new.ipc = daemon[d].ipc
    BY <2>2, <2>3
  <2> HIDE DEF new
  <2> QED
    BY <2>1, <2>2, <2>4, <2>5, <2>6, QuietStep
<1>2. CASE abort(d)
  <2>1. daemon[d].pc = "abort" /\ daemon[d].rt # "asked" /\ UNCHANGED path
    BY <1>2 DEF abort
  <2>2. CASE daemon[d].rt = "running"
    <3> DEFINE new == request_shutdown(daemon[d])
    <3>1. Step(d, new)
      BY <1>2, <2>2 DEF abort
    <3>2. new \in Process /\ new.pc = "abort" /\ new.ipc = daemon[d].ipc
      BY <1>0, <2>1 DEF request_shutdown, Process
    <3>3. daemon[d].ipc = "running" => Listening(d)
      BY <2>1 DEF Listening, Alive
    <3> HIDE DEF new
    <3> QED
      BY <2>1, <3>1, <3>2, <3>3, QuietStep
  <2>3. CASE daemon[d].rt # "running"
    <3>1. Step(d, Finish(daemon[d], "err"))
      BY <1>2, <2>3 DEF abort
    <3>2. daemon[d].rt \in Clean
      BY <1>0, <2>1, <2>3 DEF Process, Clean
    <3> QED
      BY <1>0, <2>1, <3>1, <3>2, FinishFields, QuietStep
  <2> QED
    BY <2>2, <2>3
<1> QED
  BY <1>1, <1>2

(* The select and what follows it, up to the exit; requests of clients.    *)
LEMMA ServingStep ==
  ASSUME DaemonInv, NEW d \in Daemons,
         \/ runtime_ends(d) \/ ctrl_c(d) \/ host_cancelled(d) \/ runtime_done(d) \/ ipc_done(d)
         \/ join_ipc(d) \/ stop_request(d) \/ reset_request(d)
  PROVE  DaemonInv'
<1>0. daemon[d] \in Process
  BY DEF DaemonInv, TypeOK, Process
<1>1. ASSUME NEW new \in Process, Step(d, new), UNCHANGED path, Alive(d),
             \/ new.pc = daemon[d].pc
             \/ new.pc \in {"join_ipc", "wait_rt"},
             new.ipc = daemon[d].ipc \/ new.ipc = "joined"
      PROVE  DaemonInv'
  <2>1. new.pc # "off" /\ new.pc # "ended"
    BY <1>1 DEF Alive
  <2>2. new.pc \in {"check", "remove", "bind"} => Starting(d)
    BY <1>1 DEF Starting
  <2>3. new.ipc = "running" => Listening(d)
    BY <1>1 DEF Listening
  <2>4. new.pc \in {"remove", "bind"} => raced \/ \A e \in Daemons : ~Listening(e)
    BY <1>1 DEF DaemonInv, FoundFree
  <2> QED
    BY <1>1, <2>1, <2>2, <2>3, <2>4, QuietStep
<1>2. CASE runtime_ends(d)
  <2>1. PICK end \in {"failed", "ended"} : Step(d, [daemon[d] EXCEPT !.rt = end])
    BY <1>2 DEF runtime_ends
  <2>2. LET new == [daemon[d] EXCEPT !.rt = end]
        IN  new \in Process /\ new.pc = daemon[d].pc /\ new.ipc = daemon[d].ipc
    BY <1>0 DEF Process
  <2> QED
    BY <1>1, <1>2, <2>1, <2>2, Zenon DEF runtime_ends
<1>3. ASSUME NEW rec \in Process, NEW res \in {"ok", "err"}, Leave(d, rec, res),
             daemon[d].pc = "select", UNCHANGED path,
             rec.ipc = daemon[d].ipc \/ rec.ipc = "joined"
      PROVE  DaemonInv'
  <2> DEFINE new == [rec EXCEPT !.pc = "join_ipc", !.res = res, !.host_shutdown = TRUE]
  <2>1. new \in Process /\ new.pc = "join_ipc" /\ new.ipc = rec.ipc
    BY Zenon DEF Process
  <2>2. Step(d, new)
    BY <1>3 DEF Leave
  <2>3. Alive(d)
    BY <1>3 DEF Alive
  <2> HIDE DEF new
  <2> QED
    BY <1>1, <1>3, <2>1, <2>2, <2>3
<1>4. CASE ctrl_c(d)
  BY <1>0, <1>3, <1>4 DEF ctrl_c
<1>5. CASE host_cancelled(d)
  BY <1>0, <1>3, <1>5 DEF host_cancelled
<1>6. CASE runtime_done(d)
  <2>1. LET rec == [daemon[d] EXCEPT !.rt = "joined"] IN rec \in Process /\ rec.ipc = daemon[d].ipc
    BY <1>0 DEF Process
  <2> QED
    BY <1>3, <1>6, <2>1, Zenon DEF runtime_done
<1>7. CASE ipc_done(d)
  <2>1. LET rec == [daemon[d] EXCEPT !.ipc = "joined"] IN rec \in Process /\ rec.ipc = "joined"
    BY <1>0 DEF Process
  <2> QED
    BY <1>3, <1>7, <2>1, Zenon DEF ipc_done
<1>8. CASE join_ipc(d)
  <2>1. daemon[d].pc = "join_ipc" /\ UNCHANGED path
    BY <1>8 DEF join_ipc
  <2>2. CASE daemon[d].ipc = "joined"
    <3>1. Step(d, Finish(daemon[d], "panic"))
      BY <1>8, <2>2 DEF join_ipc
    <3> QED
      BY <1>0, <2>1, <3>1, FinishFields, QuietStep
  <2>3. CASE daemon[d].ipc # "joined"
    <3> DEFINE new == request_shutdown([daemon[d] EXCEPT !.pc = "wait_rt",
                                          !.ipc = IF @ = "done" THEN "joined" ELSE @])
    <3>1. Step(d, new)
      BY <1>8, <2>3 DEF join_ipc
    <3>2. new \in Process /\ new.pc = "wait_rt" /\ (new.ipc = daemon[d].ipc \/ new.ipc = "joined")
      BY <1>0, Zenon DEF request_shutdown, Process
    <3>3. Alive(d)
      BY <2>1 DEF Alive
    <3> HIDE DEF new
    <3> QED
      BY <1>1, <2>1, <3>1, <3>2, <3>3
  <2> QED
    BY <2>2, <2>3
<1>9. CASE stop_request(d)
  <2>1. LET new == [daemon[d] EXCEPT !.host_shutdown = TRUE]
        IN  new \in Process /\ new.pc = daemon[d].pc /\ new.ipc = daemon[d].ipc
    BY <1>0, Zenon DEF Process
  <2> QED
    BY <1>1, <1>9, <2>1, Zenon DEF stop_request
<1>10. CASE reset_request(d)
  <2>1. LET new == [daemon[d] EXCEPT !.rt = "asked"]
        IN  new \in Process /\ new.pc = daemon[d].pc /\ new.ipc = daemon[d].ipc
    BY <1>0 DEF Process
  <2> QED
    BY <1>1, <1>10, <2>1, Zenon DEF reset_request
<1> QED
  BY <1>2, <1>4, <1>5, <1>6, <1>7, <1>8, <1>9, <1>10

(* A process that starts while none is starting starts no race.            *)
LEMMA StartStep ==
  ASSUME DaemonInv, NEW d \in Daemons, start(d)
  PROVE  DaemonInv'
<1>0. daemon[d] \in Process /\ daemon[d].pc = "off" /\ UNCHANGED path
  BY DEF DaemonInv, TypeOK, Process, start
<1>1. CASE Step(d, Finish(daemon[d], "err"))
  BY <1>0, <1>1, FinishFields, QuietStep DEF DaemonInv, OffIsIdle, Clean
<1>2. CASE /\ daemon' = [daemon EXCEPT ![d] = [Off EXCEPT !.pc = "check", !.rt = "running"]]
           /\ raced' = (raced \/ \E e \in Daemons : Starting(e))
           /\ UNCHANGED pipe
  <2> DEFINE new == [Off EXCEPT !.pc = "check", !.rt = "running"]
  <2>1. new \in Process /\ new.pc = "check" /\ new.ipc = "none"
    BY Zenon DEF Off, Process
  <2>2. /\ daemon' \in [Daemons -> Process] /\ daemon'[d] = new
        /\ \A e \in Daemons \ {d} : daemon'[e] = daemon[e]
    BY <1>2, <2>1 DEF DaemonInv, TypeOK, Process
  <2> HIDE DEF new
  <2>3. raced' \in BOOLEAN
    BY <1>2
  <2>4. TypeOK'
    BY <1>0, <1>2, <2>2, <2>3 DEF DaemonInv, TypeOK, Process
  <2>5. EndedIsClean' /\ OffIsIdle'
    BY <2>1, <2>2 DEF DaemonInv, EndedIsClean, OffIsIdle, Ended, Starting
  <2>6. \A e \in Daemons : Listening(e)' => Listening(e)
    BY <2>1, <2>2 DEF Listening, Alive
  <2>7. ~raced' => ~raced /\ \A e \in Daemons : ~Starting(e)
    BY <1>2, Zenon
  <2>8. \A e \in Daemons : Starting(e)' => e = d \/ Starting(e)
    BY <2>2 DEF Starting
  <2>9. OneStarts' /\ FoundFree' /\ EndpointIsKept'
    <3>1. OneStarts'
      BY <2>7, <2>8 DEF OneStarts
    <3>2. FoundFree'
      BY <2>1, <2>2, <2>6, <2>7 DEF DaemonInv, FoundFree
    <3>3. EndpointIsKept'
      BY <1>0, <2>6, <2>7 DEF DaemonInv, EndpointIsKept
    <3> QED
      BY <3>1, <3>2, <3>3
  <2> QED
    BY <2>4, <2>5, <2>9 DEF DaemonInv
<1> QED
  BY <1>1, <1>2 DEF start

(* Removal, bind, and the ends of a listener: the steps that change what   *)
(* the endpoint names.                                                     *)
LEMMA EndpointStep ==
  ASSUME DaemonInv, NEW d \in Daemons, NEW new \in Process, Step(d, new),
         path' \in Daemons \cup {"none", "stale"}, pipe => path' # "stale",
         new.pc # "off",
         new.pc = "ended" /\ new.res \in {"ok", "err"} => new.rt \in Clean,
         new.pc \in {"check", "remove", "bind"} => Starting(d) /\ new.ipc # "running",
         new.pc \in {"remove", "bind"} => daemon[d].pc \in {"remove", "bind"},
         ~raced => \A e \in Daemons : Listening(e)' => path' = e,
         Listening(d)' => Listening(d) \/ daemon[d].pc = "bind"
  PROVE  DaemonInv'
<1>1. /\ daemon' \in [Daemons -> Process] /\ daemon'[d] = new
      /\ \A e \in Daemons \ {d} : daemon'[e] = daemon[e]
      /\ pipe' = pipe /\ raced' = raced
  BY StepChanges DEF DaemonInv, TypeOK, Process
<1>2. TypeOK'
  BY <1>1 DEF DaemonInv, TypeOK, Process
<1>3. EndedIsClean' /\ OffIsIdle'
  BY <1>1 DEF DaemonInv, EndedIsClean, OffIsIdle, Ended, Clean, Starting
<1>4. \A e \in Daemons \ {d} : Listening(e)' => Listening(e)
  BY <1>1 DEF Listening, Alive
<1>5. \A e \in Daemons : Starting(e)' => Starting(e)
  BY <1>1 DEF Starting
<1>6. OneStarts' /\ EndpointIsKept'
  BY <1>1, <1>5 DEF DaemonInv, OneStarts, EndpointIsKept
<1>7. FoundFree'
  <2> SUFFICES ASSUME ~raced, NEW e \in Daemons, daemon'[e].pc \in {"remove", "bind"},
                      NEW f \in Daemons
               PROVE  ~Listening(f)'
    BY <1>1 DEF FoundFree
  <2>1. daemon[e].pc \in {"remove", "bind"}
    BY <1>1
  <2>2. \A g \in Daemons : ~Listening(g)
    BY <2>1 DEF DaemonInv, FoundFree
  <2>3. CASE f # d
    BY <1>4, <2>2, <2>3
  <2>4. CASE f = d /\ e = d
    BY <1>1, <2>4 DEF Listening
  <2>5. CASE f = d /\ e # d
    <3>1. daemon[d].pc # "bind"
      BY <2>1, <2>5 DEF DaemonInv, OneStarts, Starting
    <3> QED
      BY <2>2, <2>5, <3>1
  <2> QED
    BY <2>3, <2>4, <2>5
<1> QED
  BY <1>2, <1>3, <1>6, <1>7 DEF DaemonInv

(* The removal and the bind of a process that found the endpoint free.     *)
LEMMA BindStep ==
  ASSUME DaemonInv, NEW d \in Daemons, remove_file(d) \/ bind_listener(d)
  PROVE  DaemonInv'
<1>0. /\ daemon[d] \in Process /\ daemon \in [Daemons -> Process]
      /\ path \in Daemons \cup {"none", "stale"} /\ (pipe => path # "stale")
  BY DEF DaemonInv, TypeOK, Process
<1>1. ~raced => \A e \in Daemons : ~Listening(e)
  BY DEF remove_file, bind_listener, DaemonInv, FoundFree
<1>2. Starting(d) /\ daemon[d].pc \in {"remove", "bind"}
  BY DEF remove_file, bind_listener, Starting
<1>3. ASSUME NEW new \in Process, Step(d, new), new.pc # "ended", new.pc # "off",
             new.ipc = daemon[d].ipc,
             path' \in Daemons \cup {"none", "stale"}, pipe => path' # "stale"
      PROVE  \A e \in Daemons : Listening(e)' => Listening(e)
  <2>1. daemon'[d] = new /\ \A e \in Daemons \ {d} : daemon'[e] = daemon[e]
    BY <1>0, <1>3, StepChanges
  <2> QED
    BY <1>2, <1>3, <2>1 DEF Listening, Alive
<1>4. CASE remove_file(d)
  <2> DEFINE new == [daemon[d] EXCEPT !.pc = "bind"]
  <2>1. new \in Process /\ new.pc = "bind" /\ new.ipc = daemon[d].ipc
    BY <1>0 DEF Process
  <2>2. Step(d, new) /\ path' \in {"none", path}
    BY <1>4 DEF remove_file
  <2>3. path' \in Daemons \cup {"none", "stale"} /\ (pipe => path' # "stale")
    BY <1>0, <2>2
  <2> HIDE DEF new
  <2>4. \A e \in Daemons : Listening(e)' => Listening(e)
    BY <1>3, <2>1, <2>2, <2>3
  <2>5. daemon[d].ipc # "running"
    BY <1>2 DEF DaemonInv, OffIsIdle
  <2> QED
    BY <1>1, <1>2, <2>1, <2>2, <2>3, <2>4, <2>5, EndpointStep
<1>5. CASE bind_listener(d)
  <2>1. CASE path = "none" /\ path' = d
             /\ Step(d, [daemon[d] EXCEPT !.pc = "select", !.ipc = "running"])
    <3> DEFINE new == [daemon[d] EXCEPT !.pc = "select", !.ipc = "running"]
    <3>1. new \in Process /\ new.pc = "select"
      BY <1>0, Zenon DEF Process
    <3>2. daemon'[d] = new /\ \A e \in Daemons \ {d} : daemon'[e] = daemon[e]
      BY <1>0, <2>1, <3>1, StepChanges
    <3> HIDE DEF new
    <3>3. ~raced => \A e \in Daemons : Listening(e)' => path' = e
      BY <1>1, <2>1, <3>2 DEF Listening, Alive
    <3>4. d # "stale" /\ daemon[d].pc = "bind"
      BY <1>5, DaemonsAssumption DEF bind_listener
    <3> QED
      BY <1>0, <2>1, <3>1, <3>3, <3>4, EndpointStep, Zenon DEF new
  <2>2. CASE /\ Step(d, [daemon[d] EXCEPT !.pc = "abort"])
             /\ path' \in {path} \cup (IF path = "none" /\ ~pipe THEN {"stale"} ELSE {})
    <3> DEFINE new == [daemon[d] EXCEPT !.pc = "abort"]
    <3>1. new \in Process /\ new.pc = "abort" /\ new.ipc = daemon[d].ipc
      BY <1>0 DEF Process
    <3>2. path' \in Daemons \cup {"none", "stale"} /\ (pipe => path' # "stale")
      BY <1>0, <2>2
    <3> HIDE DEF new
    <3>3. \A e \in Daemons : Listening(e)' => Listening(e)
      BY <1>3, <2>2, <3>1, <3>2, Zenon DEF new
    <3> QED
      BY <1>1, <2>2, <3>1, <3>2, <3>3, EndpointStep, Zenon DEF new
  <2> QED
    BY <1>5, <2>1, <2>2 DEF bind_listener
<1> QED
  BY <1>4, <1>5

(* A listener ends: with its task, with the process, or with a kill.       *)
LEMMA ClosingStep ==
  ASSUME DaemonInv, NEW d \in Daemons, ipc_ends(d) \/ exit(d) \/ kill(d)
  PROVE  DaemonInv'
<1>0. /\ daemon[d] \in Process /\ daemon \in [Daemons -> Process]
      /\ path \in Daemons \cup {"none", "stale"} /\ (pipe => path # "stale")
  BY DEF DaemonInv, TypeOK, Process
<1>1. ASSUME NEW new \in Process, Step(d, new), new.pc \notin {"off", "check", "remove", "bind"},
             new.pc = "ended" \/ new.ipc # "running",
             new.pc = "ended" /\ new.res \in {"ok", "err"} => new.rt \in Clean,
             \/ path' = path
             \/ ~raced => path = d,
             path' \in Daemons \cup {"none", "stale"}, pipe => path' # "stale"
      PROVE  DaemonInv'
  <2>1. daemon'[d] = new /\ \A e \in Daemons \ {d} : daemon'[e] = daemon[e]
    BY <1>0, <1>1, StepChanges
  <2>2. ~Listening(d)' /\ \A e \in Daemons \ {d} : Listening(e)' => Listening(e)
    BY <1>1, <2>1 DEF Listening, Alive
  <2>3. ~raced => \A e \in Daemons : Listening(e)' => path' = e
    BY <1>1, <2>2 DEF DaemonInv, EndpointIsKept
  <2> QED
    BY <1>1, <2>2, <2>3, EndpointStep
<1>2. ASSUME ListenerCloses(d)
      PROVE  path' \in Daemons \cup {"none", "stale"} /\ (pipe => path' # "stale")
  BY <1>0, <1>2 DEF ListenerCloses
<1>3. CASE ipc_ends(d)
  <2> DEFINE new == [daemon[d] EXCEPT !.ipc = "done"]
  <2>1. new \in Process /\ new.pc = daemon[d].pc /\ new.ipc = "done"
    BY <1>0 DEF Process
  <2>2. Step(d, new) /\ Listening(d) /\ ListenerCloses(d)
    BY <1>3 DEF ipc_ends
  <2>3. ~raced => path = d
    BY <2>2 DEF DaemonInv, EndpointIsKept
  <2>4. daemon[d].pc \notin {"off", "ended", "check", "remove", "bind"}
    BY <2>2 DEF DaemonInv, OffIsIdle, Listening, Alive, Starting
  <2> HIDE DEF new
  <2> QED
    BY <1>1, <1>2, <2>1, <2>2, <2>3, <2>4
<1>4. ASSUME NEW res \in {"ok", "err", "killed"}, Step(d, Finish(daemon[d], res)),
             res \in {"ok", "err"} => daemon[d].rt \in Clean,
             \/ path' = path
             \/ ~raced => path = d,
             path' \in Daemons \cup {"none", "stale"}, pipe => path' # "stale"
      PROVE  DaemonInv'
  BY <1>0, <1>1, <1>4, FinishFields
<1>5. CASE exit(d)
  <2>1. PICK res \in {"ok", "err"} : Step(d, Finish(daemon[d], res))
    BY <1>5 DEF exit
  <2>2. daemon[d].rt \in Clean
    BY <1>5 DEF exit, Clean
  <2>3. CASE daemon[d].ipc = "running" /\ ListenerCloses(d)
    <3>1. ~raced => path = d
      BY <1>5, <2>3 DEF exit, DaemonInv, EndpointIsKept, Listening, Alive
    <3> QED
      BY <1>2, <1>4, <2>1, <2>2, <2>3, <3>1
  <2>4. CASE UNCHANGED path
    BY <1>0, <1>4, <2>1, <2>2, <2>4
  <2> QED
    BY <1>5, <2>3, <2>4 DEF exit
<1>6. CASE kill(d)
  <2>1. path' \in Daemons \cup {"none", "stale"} /\ (pipe => path' # "stale")
    BY <1>0, <1>6 DEF kill
  <2>2. path' = path \/ path = d
    BY <1>6 DEF kill
  <2> QED
    BY <1>4, <1>6, <2>1, <2>2 DEF kill
<1> QED
  BY <1>3, <1>5, <1>6

(* The invariant holds at first, and every step keeps it.                  *)
LEMMA DaemonInvInductive == (Init => DaemonInv) /\ (DaemonInv /\ [Next]_dvars => DaemonInv')
<1>1. Init => DaemonInv
  <2> SUFFICES ASSUME Init PROVE DaemonInv
    OBVIOUS
  <2>1. Off \in Process /\ Off.pc = "off" /\ Off.rt = "none" /\ Off.ipc = "none"
    BY DEF Off, Process
  <2>2. daemon \in [Daemons -> Process] /\ \A d \in Daemons : daemon[d] = Off
    BY <2>1 DEF Init
  <2>3. raced \in BOOLEAN /\ pipe \in BOOLEAN
    BY Zenon DEF Init
  <2>4. TypeOK
    BY <2>2, <2>3 DEF Init, TypeOK, Process
  <2>5. \A d \in Daemons : ~Ended(d) /\ ~Alive(d) /\ ~Starting(d)
    BY <2>1, <2>2 DEF Ended, Alive, Starting
  <2> QED
    BY <2>1, <2>2, <2>4, <2>5 DEF DaemonInv, EndedIsClean, OffIsIdle, OneStarts, FoundFree,
                                  EndpointIsKept, Listening
<1>2. DaemonInv /\ [Next]_dvars => DaemonInv'
  <2> SUFFICES ASSUME DaemonInv, [Next]_dvars PROVE DaemonInv'
    OBVIOUS
  <2>1. CASE UNCHANGED dvars
    BY <2>1 DEF dvars, DaemonInv, TypeOK, EndedIsClean, OffIsIdle, OneStarts, FoundFree,
                EndpointIsKept, Listening, Starting, Alive, Ended
  <2>2. CASE Next
    BY <2>2, CheckStep, ServingStep, StartStep, BindStep, ClosingStep DEF Next, Run, Environment
  <2> QED
    BY <2>1, <2>2
<1> QED
  BY <1>1, <1>2

(* The invariant holds for ever.                                           *)
LEMMA DaemonInvHolds == Spec => []DaemonInv
BY DaemonInvInductive, PTL DEF Spec

(* The records of the processes keep to their types, and the name of a     *)
(* pipe never outlives its listener.                                       *)
THEOREM DaemonTypeCorrect == Spec => []TypeOK
<1>1. DaemonInv => TypeOK
  BY DEF DaemonInv
<1> QED
  BY <1>1, DaemonInvHolds, PTL

(* A process that returns a result has waited for its runtime, on every    *)
(* path through run_daemon.                                                *)
THEOREM EndedDaemonIsClean == Spec => []EndedIsClean
<1>1. DaemonInv => EndedIsClean
  BY DEF DaemonInv
<1> QED
  BY <1>1, DaemonInvHolds, PTL

(* A daemon that serves keeps its endpoint as long as no two daemons start *)
(* at the same time, for any number of them (IpcServer::new).              *)
THEOREM EndpointStaysKept == Spec => []EndpointIsKept
<1>1. DaemonInv => EndpointIsKept
  BY DEF DaemonInv
<1> QED
  BY <1>1, DaemonInvHolds, PTL
-----------------------------------------------------------------------------
(* The service host.                                                       *)

(* What a step of the daemons never does: bring back a process that has    *)
(* ended, or one that has started to where it was before.                  *)
LEMMA ProcessesMoveOn ==
  ASSUME TypeOK, [Next]_dvars, NEW e \in Daemons
  PROVE  /\ Ended(e) => Ended(e)'
         /\ daemon[e].pc # "off" => daemon'[e].pc # "off"
<1>0. daemon \in [Daemons -> Process]
  BY DEF TypeOK, Process
<1>1. CASE UNCHANGED dvars
  BY <1>1 DEF dvars, Ended
<1>2. ASSUME NEW d \in Daemons, ~Ended(d), daemon'[d].pc # "off",
             NEW new, daemon' = [daemon EXCEPT ![d] = new]
      PROVE  /\ Ended(e) => Ended(e)'
             /\ daemon[e].pc # "off" => daemon'[e].pc # "off"
  BY <1>0, <1>2 DEF Ended
<1>3. CASE Next
  <2>1. PICK d \in Daemons : Run(d) \/ Environment(d)
    BY <1>3 DEF Next
  <2>2. daemon[d] \in Process
    BY <1>0
  <2>3. \A res : Finish(daemon[d], res).pc = "ended"
    BY <2>2 DEF Finish, Process
  <2>4. ASSUME NEW new, Step(d, new), new.pc # "off", ~Ended(d)
        PROVE  /\ Ended(e) => Ended(e)'
               /\ daemon[e].pc # "off" => daemon'[e].pc # "off"
    BY <1>0, <1>2, <2>4, Zenon DEF Step
  <2>5. CASE check_running(d) \/ remove_file(d) \/ bind_listener(d) \/ abort(d)
    BY <2>2, <2>3, <2>4, <2>5, Zenon DEF check_running, remove_file, bind_listener, abort, Ended,
                                  request_shutdown, Process
  <2>6. CASE runtime_ends(d) \/ ipc_ends(d)
    BY <2>2, <2>4, <2>6, Zenon DEF runtime_ends, ipc_ends, Ended, Alive, Listening, Process
  <2>7. CASE host_cancelled(d) \/ runtime_done(d) \/ ipc_done(d) \/ ctrl_c(d)
    BY <2>2, <2>4, <2>7, Zenon DEF host_cancelled, runtime_done, ipc_done, ctrl_c, Leave, Ended,
                            request_shutdown, Process
  <2>8. CASE join_ipc(d) \/ exit(d)
    BY <2>2, <2>3, <2>4, <2>8, Zenon DEF join_ipc, exit, Ended, request_shutdown, Process
  <2>9. CASE start(d)
    <3>1. CASE Step(d, Finish(daemon[d], "err"))
      BY <2>3, <2>4, <2>9, <3>1 DEF start, Ended
    <3>2. CASE daemon' = [daemon EXCEPT ![d] = [Off EXCEPT !.pc = "check", !.rt = "running"]]
      BY <1>0, <1>2, <2>9, <3>2 DEF start, Ended, Off
    <3> QED
      BY <2>9, <3>1, <3>2 DEF start
  <2>10. CASE stop_request(d) \/ reset_request(d) \/ kill(d)
    BY <2>2, <2>3, <2>4, <2>10 DEF stop_request, reset_request, kill, Ended, Alive, Process
  <2> QED
    BY <2>1, <2>5, <2>6, <2>7, <2>8, <2>9, <2>10 DEF Run, Environment
<1> QED
  BY <1>1, <1>3

(* The host has a child exactly while it deals with one, and a child it    *)
(* has was started; whom it asks is a daemon.                              *)
HostRecord ==
  [status : {"Unstarted", "StartPending", "Running", "StopPending", "Stopped"},
   pc : {"idle", "startup", "probe", "running", "connect", "hello", "ask", "wait", "reap", "over"},
   child : Daemons \cup {"none"}, peer : Daemons \cup {"none"}, stop : BOOLEAN, blind : BOOLEAN]

HostOK(h) ==
  /\ h \in HostRecord
  /\ h.pc = "idle" => h.child = "none" /\ h.status = "Unstarted"
  /\ h.pc \notin {"idle", "over"} => h.child # "none"
  /\ h.pc \in {"hello", "ask"} => h.peer # "none"
  /\ h.status = "Stopped" => h.pc = "over"
  /\ h.stop => h.status \in {"Running", "StopPending", "Stopped"}

ChildOK(h, procs) ==
  h.child # "none" =>
    /\ procs[h.child].pc # "off"
    /\ h.status = "Stopped" /\ ~h.blind => procs[h.child].pc = "ended"

HostInv == HostOK(host) /\ ChildOK(host, daemon)

(* The host acts on daemons only as their environment does.                *)
LEMMA HostMovesDaemons == HostInv /\ [HostNext]_wvars => [Next]_dvars
<1> SUFFICES ASSUME HostInv, [HostNext]_wvars PROVE [Next]_dvars
  OBVIOUS
<1>1. ASSUME terminate_child, host.child \in Daemons PROVE [Next]_dvars
  BY <1>1 DEF terminate_child, Next, Environment
<1>2. CASE run_service
  BY <1>2, Zenon DEF run_service, Next, Environment
<1>3. CASE wait_for_startup_ready \/ reap
  BY <1>3 DEF wait_for_startup_ready, reap
<1>4. CASE startup_timed_out
  BY <1>1, <1>4 DEF startup_timed_out, HostAt, HostInv, HostOK, HostRecord
<1>5. CASE wait_for_stop_or_exit \/ control_stop
  BY <1>5 DEF wait_for_stop_or_exit, control_stop
<1>6. CASE request_child_shutdown
  <2>1. CASE UNCHANGED dvars
    BY <2>1
  <2>2. CASE HostAt("ask") /\ stop_request(host.peer)
    <3>1. host.peer \in Daemons
      BY <2>2 DEF HostAt, HostInv, HostOK, HostRecord
    <3> QED
      BY <2>2, <3>1 DEF Next, Environment
  <2> QED
    BY <1>6, <2>1, <2>2 DEF request_child_shutdown
<1>7. CASE wait_for_child_exit
  BY <1>1, <1>7 DEF wait_for_child_exit, HostAt, HostInv, HostOK, HostRecord
<1>8. CASE Next /\ UNCHANGED host
  BY <1>8
<1>9. CASE UNCHANGED wvars
  BY <1>9 DEF wvars, dvars
<1> QED
  BY <1>2, <1>3, <1>4, <1>5, <1>6, <1>7, <1>8, <1>9 DEF HostNext, HostStep

(* The moves of the host, each on its own.                                 *)
LEMMA HostGoes ==
  ASSUME HostOK(host), NEW pc \in {"startup", "probe", "connect", "wait", "reap", "over"},
         host.pc \notin {"idle", "over"} \/ pc = "over", host.status # "Stopped", HostGoto(pc)
  PROVE  HostOK(host') /\ host'.child = host.child /\ host'.status = host.status
BY Zenon DEF HostGoto, HostOK, HostRecord

LEMMA HostReports ==
  ASSUME HostOK(host), NEW status, NEW pc, Report(status, pc),
         host.pc # "over",
         \/ status = "Running" /\ pc = "running" /\ host.pc # "idle"
         \/ status = "StopPending" /\ pc = "connect" /\ host.pc # "idle"
         \/ status = "Stopped" /\ pc = "over"
  PROVE  /\ HostOK(host') /\ host'.child = host.child
         /\ host'.status = "Stopped" => status = "Stopped"
<1>1. CASE NotReported
  BY <1>1, HostGoes, Zenon DEF NotReported, HostOK
<1>2. CASE host' = [host EXCEPT !.status = status, !.pc = pc]
  BY <1>2, Zenon DEF HostOK, HostRecord
<1> QED
  BY <1>1, <1>2 DEF Report

(* One step of the whole keeps the invariant of the host.                  *)
LEMMA HostInvInductive ==
  /\ HostInit => HostInv
  /\ TypeOK /\ HostInv /\ [HostNext]_wvars => HostInv'
<1>1. HostInit => HostInv
  BY DEF HostInit, HostInv, HostOK, HostRecord, ChildOK
<1>2. ASSUME TypeOK, HostInv, [HostNext]_wvars PROVE HostInv'
  <2>0. HostOK(host) /\ ChildOK(host, daemon) /\ host.child \in Daemons \cup {"none"}
    BY <1>2 DEF HostInv, HostOK, HostRecord
  <2>1. [Next]_dvars
    BY <1>2, HostMovesDaemons
  <2>2. host.child # "none" =>
          /\ daemon'[host.child].pc # "off"
          /\ daemon[host.child].pc = "ended" => daemon'[host.child].pc = "ended"
    BY <1>2, <2>0, <2>1, ProcessesMoveOn DEF ChildOK, Ended
  <2>3. ASSUME HostOK(host'), host'.child = host.child,
               host'.status = "Stopped" /\ ~host'.blind =>
                 host.child = "none" \/ daemon'[host.child].pc = "ended"
        PROVE  HostInv'
    BY <2>2, <2>3, Zenon DEF HostInv, ChildOK
  <2>4. ASSUME Stopped, host.pc # "over", host.child = "none" \/ ChildEnded PROVE HostInv'
    <3>1. HostOK(host') /\ host'.child = host.child
      BY <2>0, <2>4, HostReports DEF Stopped
    <3> QED
      BY <2>2, <2>3, <2>4, <3>1 DEF ChildEnded, Ended
  <2>5. ASSUME CountedAsEnded, host.pc \notin {"idle", "over"} PROVE HostInv'
    <3>1. CASE NotReported
      BY <2>0, <2>3, <2>5, <3>1, HostGoes, Zenon DEF NotReported, HostOK
    <3>2. CASE host' = [host EXCEPT !.status = "Stopped", !.pc = "over", !.blind = TRUE]
      <4>1. HostOK(host') /\ host'.child = host.child /\ host'.blind
        BY <2>0, <3>2, Zenon DEF HostOK, HostRecord
      <4> QED
        BY <2>3, <4>1
    <3> QED
      BY <2>5, <3>1, <3>2 DEF CountedAsEnded
  <2>6. ASSUME NEW pc \in {"startup", "probe", "wait", "reap"}, HostGoto(pc),
               host.pc \notin {"idle", "over"}
        PROVE  HostInv'
    BY <2>0, <2>3, <2>6, HostGoes, Zenon DEF HostOK
  <2>7. CASE UNCHANGED host
    BY <2>0, <2>2, <2>3, <2>7 DEF ChildOK
  <2>8. CASE run_service
    <3>1. HostAt("idle") /\ host.child = "none" /\ host.pc = "idle"
      BY <2>0, <2>8 DEF run_service, HostAt, HostOK
    <3>2. CASE Stopped
      BY <2>4, <3>1, <3>2
    <3>3. ASSUME NEW d \in Daemons, start(d),
                 host' = [host EXCEPT !.status = "StartPending", !.pc = "startup", !.child = d]
          PROVE  HostInv'
      <4>1. daemon'[d].pc # "off"
        <5>1. daemon \in [Daemons -> Process] /\ daemon[d] \in Process
          BY <1>2 DEF TypeOK, Process
        <5>2. Finish(daemon[d], "err").pc = "ended" /\ [Off EXCEPT !.pc = "check", !.rt = "running"].pc = "check"
          BY <5>1 DEF Finish, Process, Off
        <5> QED
          BY <3>3, <5>1, <5>2, Zenon DEF start, Step
      <4>2. HostOK(host') /\ host'.child = d /\ host'.status = "StartPending"
        BY <2>0, <3>1, <3>3, DaemonsAssumption, Zenon DEF HostOK, HostRecord
      <4> QED
        BY <4>1, <4>2, Zenon DEF HostInv, ChildOK
    <3> QED
      BY <2>8, <3>2, <3>3, Zenon DEF run_service
  <2>9. CASE wait_for_startup_ready
    <3>1. CASE HostAt("startup") /\ ((ChildEnded /\ Stopped) \/ HostGoto("probe") \/ CountedAsEnded)
      BY <2>4, <2>5, <2>6, <3>1 DEF HostAt
    <3>2. CASE HostAt("probe") /\ HostGoto("startup")
      BY <2>6, <3>2 DEF HostAt
    <3>3. CASE HostAt("probe") /\ Report("Running", "running")
      BY <2>0, <2>3, <3>3, HostReports DEF HostAt
    <3> QED
      BY <2>9, <3>1, <3>2, <3>3 DEF wait_for_startup_ready
  <2>10. CASE startup_timed_out \/ reap
    BY <2>4, <2>5, <2>6, <2>10 DEF startup_timed_out, terminate_child, reap, HostAt
  <2>11. CASE wait_for_stop_or_exit
    <3>1. CASE HostAt("running") /\ Report("StopPending", "connect")
      BY <2>0, <2>3, <3>1, HostReports DEF HostAt
    <3> QED
      BY <2>4, <2>11, <3>1 DEF wait_for_stop_or_exit, HostAt
  <2>12. CASE control_stop
    <3>1. HostOK(host') /\ host'.child = host.child /\ host'.status = "Running"
      BY <2>0, <2>12, Zenon DEF control_stop, HostOK, HostRecord
    <3> QED
      BY <2>3, <3>1
  <2>13. CASE request_child_shutdown
    <3>1. ASSUME HostAt("connect"), NEW d \in Daemons,
                 host' = [host EXCEPT !.pc = "hello", !.peer = d]
          PROVE  HostInv'
      <4>1. HostOK(host') /\ host'.child = host.child /\ host'.status # "Stopped"
        BY <2>0, <3>1, DaemonsAssumption, Zenon DEF HostAt, HostOK, HostRecord
      <4> QED
        BY <2>3, <4>1
    <3>2. CASE HostAt("hello") /\ HostGoto("ask")
      <4>1. HostOK(host') /\ host'.child = host.child /\ host'.status # "Stopped"
        BY <2>0, <3>2, Zenon DEF HostAt, HostGoto, HostOK, HostRecord
      <4> QED
        BY <2>3, <4>1
    <3> QED
      BY <2>6, <2>13, <3>1, <3>2 DEF request_child_shutdown, HostAt
  <2>14. CASE wait_for_child_exit
    BY <2>4, <2>5, <2>6, <2>14 DEF wait_for_child_exit, terminate_child, HostAt
  <2> QED
    BY <1>2, <2>7, <2>8, <2>9, <2>10, <2>11, <2>12, <2>13, <2>14 DEF HostNext, HostStep, wvars
<1> QED
  BY <1>1, <1>2

(* Both invariants together.                                               *)
LEMMA HostInvHolds == HostSpec => [](DaemonInv /\ HostInv)
<1>1. HostInit => DaemonInv /\ HostInv
  BY DaemonInvInductive, HostInvInductive DEF HostInit
<1>2. DaemonInv /\ HostInv /\ [HostNext]_wvars => DaemonInv' /\ HostInv'
  BY DaemonInvInductive, HostInvInductive, HostMovesDaemons DEF DaemonInv
<1> QED
  BY <1>1, <1>2, PTL DEF HostSpec

(* Seen from the daemons the service host is one more client: every step   *)
(* of the composition is a step of theirs or leaves them alone, so that    *)
(* what holds of daemons with any clients holds under the service          *)
(* (playitd-service.rs starts, asks and kills its child, nothing else).    *)
THEOREM HostImplementsDaemon == HostSpec => Spec
<1>1. HostInit => Init
  BY DEF HostInit
<1> QED
  BY <1>1, HostInvHolds, HostMovesDaemons, PTL DEF HostSpec, Spec

(* A service that reports SERVICE_STOPPED has no child left, on every way  *)
(* through run_service, whatever other daemons and clients do meanwhile    *)
(* and whether or not kill and IPC calls succeed, unless try_wait or wait  *)
(* itself failed: that alone can leave a child behind.                     *)
THEOREM StoppedServiceHasNoChild == HostSpec => []StoppedHasNoChild
<1>1. HostInv => StoppedHasNoChild
  BY DEF HostInv, ChildOK, StoppedHasNoChild, Ended
<1> QED
  BY <1>1, HostInvHolds, PTL

(* The host keeps to its types, and has taken a stop only after it         *)
(* reported that it runs.                                                  *)
THEOREM HostTypeCorrect == HostSpec => []HostTypeOK
<1>1. HostInv => HostTypeOK
  BY DEF HostInv, HostOK, HostRecord, HostTypeOK
<1> QED
  BY <1>1, HostInvHolds, PTL

(* Under the service too, a process that returns has waited for its        *)
(* runtime, and a daemon keeps its endpoint unless two start at once.      *)
THEOREM DaemonsUnderHost == HostSpec => [](EndedIsClean /\ EndpointIsKept)
BY HostImplementsDaemon, EndedDaemonIsClean, EndpointStaysKept, PTL

-----------------------------------------------------------------------------
(* The commands of the terminal.                                           *)

(* A process somebody has connected to: it listened, so that it has an IPC *)
(* task until it ends.                                                     *)
Met(d) == daemon[d].pc # "off" /\ (Ended(d) \/ daemon[d].ipc # "none")

(* The handle of the IPC task is kept until the process ends.              *)
LEMMA TasksStay ==
  ASSUME TypeOK, [Next]_dvars, NEW e \in Daemons, Met(e)
  PROVE  Met(e)'
<1>0. daemon \in [Daemons -> Process]
  BY DEF TypeOK, Process
<1>1. daemon'[e].pc # "off" /\ (Ended(e) => Ended(e)')
  BY ProcessesMoveOn DEF Met
<1>2. CASE UNCHANGED dvars
  BY <1>2 DEF dvars, Met, Ended
<1>3. CASE Next
  <2>1. PICK d \in Daemons : Run(d) \/ Environment(d)
    BY <1>3 DEF Next
  <2>2. daemon[d] \in Process
    BY <1>0
  <2>3. \A res : Finish(daemon[d], res).pc = "ended"
    BY <2>2 DEF Finish, Process
  <2>4. ASSUME NEW new, Step(d, new), new.pc = "ended" \/ new.ipc # "none" \/ new.ipc = daemon[d].ipc
        PROVE  Met(e)'
    BY <1>0, <1>1, <2>4 DEF Step, Met, Ended
  <2>5. CASE check_running(d) \/ remove_file(d) \/ bind_listener(d) \/ abort(d)
    BY <2>2, <2>3, <2>4, <2>5, Zenon DEF check_running, remove_file, bind_listener, abort,
                                  request_shutdown, Process
  <2>6. CASE runtime_ends(d) \/ ipc_ends(d)
    BY <2>2, <2>4, <2>6, Zenon DEF runtime_ends, ipc_ends, Process
  <2>7. CASE host_cancelled(d) \/ runtime_done(d) \/ ipc_done(d) \/ ctrl_c(d)
    BY <2>2, <2>4, <2>7, Zenon DEF host_cancelled, runtime_done, ipc_done, ctrl_c, Leave, Process
  <2>8. CASE join_ipc(d) \/ exit(d)
    BY <2>2, <2>3, <2>4, <2>8, Zenon DEF join_ipc, exit, request_shutdown, Process
  <2>9. CASE start(d)
    BY <1>0, <1>1, <2>9, Zenon DEF start, Met, Ended, Step
  <2>10. CASE stop_request(d) \/ reset_request(d) \/ kill(d)
    BY <2>2, <2>3, <2>4, <2>10 DEF stop_request, reset_request, kill, Process
  <2> QED
    BY <2>1, <2>5, <2>6, <2>7, <2>8, <2>9, <2>10 DEF Run, Environment
<1> QED
  BY <1>2, <1>3

(* Where a command may be, and what it remembers on the way.               *)
Places ==
  {"none", "idle", "done", "failed", "ensure", "prepare", "ask_start", "start", "poll", "auto",
   "ask_reset", "reset_for_setup", "await_waiting", "setup", "waiting", "claim", "provision",
   "manager_stop", "stop", "probe", "status", "status_connect", "reset", "attach"}
CliRecord ==
  [cmd : Commands \cup {"none"}, svc : BOOLEAN, pc : Places \cup Calls, ok : Places,
   err : Places, after : Places, conn : Daemons \cup {"none"},
   said : {"none", "reset", "stopped", "may still be running"}]

(* A command asks something only of a process it has met.                  *)
CliInv ==
  /\ key \in [Daemons -> Keys] /\ secret \in Keys /\ unit \in Daemons \cup {"none"}
  /\ cli \in CliRecord
  /\ cli.pc \in Calls => cli.conn \in Daemons
  /\ cli.conn \in Daemons => Met(cli.conn)

(* The command acts on daemons only as their environment does: it starts   *)
(* them, kills them, and asks those that it has met.                       *)
LEMMA CliMovesDaemons == CliInv /\ TypeOK /\ [CliNext]_cvars => [Next]_dvars
<1> SUFFICES ASSUME CliInv, TypeOK, [CliNext]_cvars PROVE [Next]_dvars
  OBVIOUS
<1>0. daemon \in [Daemons -> Process]
  BY DEF TypeOK, Process
<1>1. ASSUME NEW d \in Daemons, Launch(d) PROVE Next
  BY <1>1 DEF Launch, Next, Environment
<1>2. ASSUME UNCHANGED world PROVE UNCHANGED dvars
  BY <1>2 DEF world, dvars
<1>3. CASE DaemonStep
  BY <1>3, Zenon DEF DaemonStep, Next, Environment
<1>4. CASE begin \/ ensure_running \/ prepare_installed_service \/ wait_for_installed_service
  BY <1>2, <1>4, Zenon DEF begin, ensure_running, prepare_installed_service,
                           wait_for_installed_service, At
<1>5. CASE start_service
  BY <1>1, <1>2, <1>5, Zenon DEF start_service
<1>6. CASE run_auto \/ run_setup
  BY <1>2, <1>6, Zenon DEF run_auto, run_setup, connect, wait_for_auto_lifecycle, give_up,
        wait_for_service_waiting_for_secret, ensure_service_waiting_for_secret,
        provision_service_secret, At
<1>7. CASE set_secret
  BY <1>2, <1>7, Zenon DEF set_secret, At, Provided, dvars
<1>8. ASSUME cli.pc \in Calls, ~Lost
      PROVE  /\ cli.conn \in Daemons /\ Alive(cli.conn) /\ daemon[cli.conn].ipc # "none"
             /\ daemon[cli.conn] \in Process
  BY <1>0, <1>8 DEF CliInv, Lost, Met, Alive, Ended
<1>9. CASE reset_secret
  <2>1. CASE UNCHANGED world
    BY <1>2, <2>1
  <2>2. CASE ~Lost /\ request_stop(cli.conn) /\ UNCHANGED <<path, pipe, raced>>
    <3> DEFINE d == cli.conn
    <3>1. cli.pc \in Calls
      BY <1>9 DEF reset_secret, Calls
    <3>2. d \in Daemons /\ Alive(d) /\ daemon[d].ipc # "none" /\ daemon[d] \in Process
      BY <1>8, <2>2, <3>1
    <3>3. CASE daemon[d].rt = "running"
      <4>1. daemon' = [daemon EXCEPT ![d] = [daemon[d] EXCEPT !.rt = "asked"]]
        BY <2>2, <3>3, Zenon DEF request_stop
      <4>2. reset_request(d)
        BY <2>2, <3>2, <3>3, <4>1, Zenon DEF reset_request, Step
      <4> QED
        BY <3>2, <4>2 DEF Next, Environment
    <3>4. CASE daemon[d].rt # "running"
      <4>1. daemon' = [daemon EXCEPT ![d] = [daemon[d] EXCEPT !.rt = daemon[d].rt]]
        BY <2>2, <3>4, Zenon DEF request_stop
      <4>2. [daemon[d] EXCEPT !.rt = daemon[d].rt] = daemon[d]
        BY <3>2, Zenon DEF Process
      <4>3. daemon' = daemon
        BY <1>0, <3>2, <4>1, <4>2
      <4> QED
        BY <2>2, <4>3 DEF dvars
    <3> QED
      BY <3>3, <3>4
  <2> QED
    BY <1>9, <2>1, <2>2, Zenon DEF reset_secret
<1>10. CASE stop
  <2>1. CASE UNCHANGED world
    BY <1>2, <2>1
  <2>2. CASE /\ ~Lost /\ daemon' = [daemon EXCEPT ![cli.conn].host_shutdown = TRUE]
             /\ UNCHANGED <<path, pipe, raced>>
    <3> DEFINE d == cli.conn
    <3>1. cli.pc \in Calls
      BY <1>10 DEF stop, Calls
    <3>2. d \in Daemons /\ Alive(d) /\ daemon[d].ipc # "none" /\ daemon[d] \in Process
      BY <1>8, <2>2, <3>1
    <3>3. CASE ~daemon[d].host_shutdown
      <4>1. stop_request(d)
        BY <2>2, <3>2, <3>3, Zenon DEF stop_request, Step
      <4> QED
        BY <3>2, <4>1 DEF Next, Environment
    <3>4. CASE daemon[d].host_shutdown
      <4>1. [daemon[d] EXCEPT !.host_shutdown = TRUE] = daemon[d]
        BY <3>2, <3>4, Zenon DEF Process
      <4>2. daemon' = daemon
        BY <1>0, <2>2, <3>2, <4>1
      <4> QED
        BY <2>2, <4>2 DEF dvars
    <3> QED
      BY <3>3, <3>4
  <2> QED
    BY <1>10, <2>1, <2>2, Zenon DEF stop
<1>11. CASE stop_by_manager
  BY <1>2, <1>11, Zenon DEF stop_by_manager, Active, Next, Environment
<1>12. CASE run_stop \/ run_status \/ run_reset \/ run_attach
  BY <1>2, <1>12, Zenon DEF run_stop, run_status, run_reset, run_attach, connect, At
<1>13. CASE \E d \in Daemons : boot(d) \/ restart_on_failure(d) \/ provided_by_another(d)
  BY <1>1, <1>13, Zenon DEF boot, restart_on_failure, provided_by_another, Provided, dvars
<1>14. CASE UNCHANGED cvars
  BY <1>14 DEF cvars, dvars
<1> QED
  BY <1>3, <1>4, <1>5, <1>6, <1>7, <1>9, <1>10, <1>11, <1>12, <1>13, <1>14 DEF CliNext, CliStep

(* What the moves of a command do to its record.                           *)
LEMMA IdleIsTyped ==
  Idle \in CliRecord /\ Idle.conn = "none"
BY Zenon DEF Idle, CliRecord, Places, Commands

LEMMA GotoTyped ==
  ASSUME cli \in CliRecord, NEW p \in Places \cup Calls, Goto(p)
  PROVE  cli' \in CliRecord /\ cli'.pc = p /\ (cli'.conn = cli.conn \/ p \in {"done", "failed"})
         /\ (cli'.conn = cli.conn \/ cli'.conn = "none")
<1>1. CASE p \in {"done", "failed"}
  <2>1. cli' = [Idle EXCEPT !.cmd = cli.cmd, !.pc = p, !.said = cli.said]
    BY <1>1 DEF Goto
  <2> QED
    BY <1>1, <2>1, IdleIsTyped, Zenon DEF CliRecord
<1>2. CASE p \notin {"done", "failed"}
  BY <1>2, Zenon DEF Goto, CliRecord
<1> QED
  BY <1>1, <1>2

LEMMA SayTyped ==
  ASSUME cli \in CliRecord, NEW p \in Places \cup Calls,
         NEW word \in {"reset", "stopped", "may still be running"}, Say(word, p)
  PROVE  cli' \in CliRecord /\ cli'.pc = p /\ (cli'.conn = cli.conn \/ p = "done")
         /\ (cli'.conn = cli.conn \/ cli'.conn = "none")
<1>1. CASE p = "done"
  <2>1. cli' = [Idle EXCEPT !.cmd = cli.cmd, !.pc = p, !.said = word]
    BY <1>1 DEF Say
  <2>2. word \in {"none", "reset", "stopped", "may still be running"}
    OBVIOUS
  <2> QED
    BY <1>1, <2>1, <2>2, IdleIsTyped, Zenon DEF CliRecord
<1>2. CASE p # "done"
  BY <1>2, Zenon DEF Say, CliRecord
<1> QED
  BY <1>1, <1>2

LEMMA EnsureTyped ==
  ASSUME cli \in CliRecord, NEW p \in Places, Ensure(p)
  PROVE  cli' \in CliRecord /\ cli'.pc \in Places /\ cli'.conn = cli.conn
<1>1. CASE cli.svc
  <2>1. "ensure" \in Places /\ "failed" \in Places
    BY DEF Places
  <2> QED
    BY <1>1, <2>1, Zenon DEF Ensure, CliRecord
<1>2. CASE ~cli.svc
  BY <1>2, Zenon DEF Ensure, CliRecord
<1> QED
  BY <1>1, <1>2

(* A command that goes on with the connection it has, or without one,      *)
(* keeps the invariant.                                                    *)
LEMMA CommandGoesOn ==
  ASSUME CliInv, TypeOK, [Next]_dvars,
         cli' \in CliRecord, cli'.conn = cli.conn \/ cli'.conn = "none",
         cli'.pc \in Calls => cli'.conn \in Daemons,
         key' \in [Daemons -> Keys], secret' \in Keys, unit' \in Daemons \cup {"none"}
  PROVE  CliInv'
<1>1. \A d \in Daemons : d = cli'.conn => Met(d)'
  <2> SUFFICES ASSUME NEW d \in Daemons, d = cli'.conn PROVE Met(d)'
    OBVIOUS
  <2>1. d = cli.conn
    BY DaemonsAssumption
  <2> QED
    BY <2>1, TasksStay DEF CliInv
<1> QED
  BY <1>1 DEF CliInv, Met, Ended

(* The moves of a command that change nothing else.                        *)
LEMMA CommandMoves ==
  ASSUME CliInv, TypeOK, UNCHANGED world
  PROVE  /\ \A p \in Places : Goto(p) => CliInv'
         /\ \A p \in Places : Ensure(p) => CliInv'
         /\ \A from : \A to \in Calls, err \in Places : connect(from, to, err) => CliInv'
<1>0. UNCHANGED dvars /\ UNCHANGED <<key, secret, unit>>
  BY DEF world, dvars
<1>1. \A p \in Places : p \notin Calls
  BY DEF Places, Calls
<1>2. ASSUME cli' \in CliRecord, cli'.pc \in Places, cli'.conn = cli.conn \/ cli'.conn = "none"
      PROVE  CliInv'
  BY <1>0, <1>1, <1>2, CommandGoesOn DEF CliInv
<1>3. ASSUME NEW p \in Places, Goto(p) PROVE CliInv'
  BY <1>2, <1>3, GotoTyped DEF CliInv
<1>4. ASSUME NEW p \in Places, Ensure(p) PROVE CliInv'
  BY <1>2, <1>4, EnsureTyped DEF CliInv
<1>5. ASSUME NEW from, NEW to \in Calls, NEW err \in Places, connect(from, to, err)
      PROVE  CliInv'
  <2>1. ASSUME NEW d \in Daemons, Reachable(d), cli' = [cli EXCEPT !.pc = to, !.conn = d]
        PROVE  CliInv'
    <3>1. Met(d) /\ Met(d)'
      BY <1>0, <2>1 DEF Reachable, Listening, Alive, Met, Ended, dvars
    <3>2. cli' \in CliRecord /\ cli'.conn = d
      BY <2>1, Zenon DEF CliInv, CliRecord
    <3> QED
      BY <1>0, <3>1, <3>2 DEF CliInv
  <2> QED
    BY <1>3, <1>5, <2>1, Zenon DEF connect
<1> QED
  BY <1>3, <1>4, <1>5

(* The choice of the command line. *)
LEMMA CommandIsChosen ==
  ASSUME CliInv, TypeOK, begin
  PROVE  CliInv'
<1>1. PICK c \in Commands, s \in BOOLEAN :
          cli' = [Idle EXCEPT !.cmd = c, !.svc = s,
             !.after = IF c = "auto" THEN "attach" ELSE "done",
             !.ok = CASE c = "auto" -> "auto" [] c = "start" -> "done" [] OTHER -> "waiting",
             !.err = IF c = "auto" THEN "auto" ELSE "failed",
             !.pc = CASE c \in {"auto", "setup"} ->
                             IF s THEN "ensure" ELSE IF c = "auto" THEN c ELSE "waiting"
                      [] c = "start" -> IF s /\ Managed THEN "ensure" ELSE "failed"
                      [] OTHER -> c]
  BY Zenon DEF begin
<1> DEFINE after == IF c = "auto" THEN "attach" ELSE "done"
           ok == CASE c = "auto" -> "auto" [] c = "start" -> "done" [] OTHER -> "waiting"
           err == IF c = "auto" THEN "auto" ELSE "failed"
           place == CASE c \in {"auto", "setup"} ->
                             IF s THEN "ensure" ELSE IF c = "auto" THEN c ELSE "waiting"
                      [] c = "start" -> IF s /\ Managed THEN "ensure" ELSE "failed"
                      [] OTHER -> c
<1>2. after \in Places /\ ok \in Places /\ err \in Places
  BY DEF Places
<1>3. place \in Places
  BY DEF Places, Commands
<1>4. cli' = [Idle EXCEPT !.cmd = c, !.svc = s, !.after = after, !.ok = ok, !.err = err, !.pc = place]
  BY <1>1, Zenon
<1> HIDE DEF after, ok, err, place
<1>5. cli' \in CliRecord /\ cli'.pc = place /\ cli'.conn = "none"
  BY <1>2, <1>3, <1>4, IdleIsTyped, Zenon DEF CliRecord
<1>6. place \notin Calls
  BY <1>3 DEF Places, Calls
<1>7. UNCHANGED dvars /\ UNCHANGED <<key, secret, unit>>
  BY DEF begin, At, world, dvars
<1> QED
  BY <1>5, <1>6, <1>7, CommandGoesOn DEF CliInv

(* The steps of a command that only look at the daemons.                   *)
LEMMA CommandLooks ==
  ASSUME CliInv, TypeOK,
         \/ ensure_running \/ prepare_installed_service \/ wait_for_installed_service
         \/ run_auto \/ run_setup \/ run_stop \/ run_status \/ run_reset \/ run_attach
  PROVE  CliInv'
<1>0. /\ {"failed", "done", "prepare", "poll", "ask_start", "start", "attach", "setup", "ask_reset",
          "await_waiting", "reset_for_setup", "waiting", "claim", "provision", "manager_stop",
          "status_connect"} \subseteq Places
      /\ {"lifecycle", "reset_call", "await_lifecycle", "check_waiting", "set_secret", "stop_call",
          "status_call", "attached"} \subseteq Calls
  BY DEF Places, Calls
<1>1. cli.ok \in Places /\ cli.err \in Places
  BY DEF CliInv, CliRecord
<1>2. \A from : At(from) => UNCHANGED world
  BY DEF At
<1>3. \A from : \A to \in Calls, err \in Places : connect(from, to, err) => CliInv'
  BY <1>2, CommandMoves, Zenon DEF connect
<1>4. \A from, p : At(from) /\ Goto(p) /\ p \in Places => CliInv'
  BY <1>2, CommandMoves, Zenon
<1>5. \A from, p : At(from) /\ Ensure(p) /\ p \in Places => CliInv'
  BY <1>2, CommandMoves, Zenon
<1>6. CASE ensure_running \/ prepare_installed_service \/ wait_for_installed_service
  BY <1>0, <1>1, <1>4, <1>6 DEF ensure_running, prepare_installed_service,
                                wait_for_installed_service
<1>7. CASE wait_for_auto_lifecycle \/ wait_for_service_waiting_for_secret
  <2>1. CASE wait_for_auto_lifecycle
    BY <1>0, <1>4, <2>1 DEF wait_for_auto_lifecycle
  <2>2. CASE connect("await_waiting", "await_lifecycle", "await_waiting") \/ give_up
    BY <1>0, <1>3, <1>4, <2>2 DEF give_up
  <2>3. CASE At("await_lifecycle") /\ Lost /\ Goto("failed")
    BY <1>0, <1>4, <2>3
  <2>4. ASSUME NEW l, At("await_lifecycle"),
               Goto(CASE l = "WaitingForSecret" -> "setup"
                      [] l \in {"Stopping", "Error"} -> "failed"
                      [] OTHER -> "await_waiting")
        PROVE  CliInv'
    BY <1>0, <1>4, <2>4
  <2> QED
    BY <1>7, <2>1, <2>2, <2>3, <2>4, Zenon DEF wait_for_service_waiting_for_secret
<1>8. CASE run_auto
  BY <1>0, <1>3, <1>4, <1>7, <1>8 DEF run_auto
<1>9. CASE run_setup
  <2>1. CASE ensure_service_waiting_for_secret
    BY <1>0, <1>3, <1>4, <1>5, <2>1 DEF ensure_service_waiting_for_secret
  <2> QED
    BY <1>0, <1>3, <1>4, <1>5, <1>9, <2>1 DEF run_setup, provision_service_secret
<1>10. CASE run_stop
  <2>1. CASE connect("stop", "stop_call", IF cli.svc THEN "manager_stop" ELSE "failed")
    BY <1>0, <1>3, <2>1
  <2>2. ASSUME At("probe"), NEW word \in {"reset", "stopped", "may still be running"}, Say(word, "done")
        PROVE  CliInv'
    <3>1. "done" \in Places /\ "done" \notin Calls
      BY DEF Places, Calls
    <3>2. cli' \in CliRecord /\ cli'.pc = "done" /\ (cli'.conn = cli.conn \/ cli'.conn = "none")
      BY <2>2, <3>1, SayTyped DEF CliInv
    <3>3. UNCHANGED dvars /\ UNCHANGED <<key, secret, unit>>
      BY <2>2 DEF At, world, dvars
    <3> QED
      BY <3>1, <3>2, <3>3, CommandGoesOn DEF CliInv
  <2> QED
    BY <1>10, <2>1, <2>2 DEF run_stop
<1>11. CASE run_status
  BY <1>0, <1>3, <1>4, <1>11 DEF run_status
<1>12. CASE run_reset \/ run_attach
  BY <1>0, <1>3, <1>4, <1>12 DEF run_reset, run_attach
<1> QED
  BY <1>6, <1>8, <1>9, <1>10, <1>11, <1>12

(* A process that starts or goes takes or gives back its secret.           *)
LEMMA SecretsTyped ==
  ASSUME CliInv, NEW d \in Daemons, Launch(d) \/ Forget(d)
  PROVE  key' \in [Daemons -> Keys]
BY DEF CliInv, Launch, Forget, Keys

LEMMA SecretProvided ==
  ASSUME CliInv, NEW d, Provided(d)
  PROVE  key' \in [Daemons -> Keys] /\ secret' \in Keys /\ unit' = unit
<1>1. "good" \in Keys
  BY DEF Keys
<1> QED
  BY <1>1, Zenon DEF CliInv, Provided

(* The steps of a command that change something.                           *)
LEMMA CommandActs ==
  ASSUME CliInv, TypeOK, [Next]_dvars,
         start_service \/ set_secret \/ reset_secret \/ stop \/ stop_by_manager
  PROVE  CliInv'
<1>0. /\ {"failed", "done", "poll", "await_waiting", "manager_stop", "probe"} \subseteq Places
      /\ "stop_call" \in Calls /\ Places \cap Calls = {} /\ {"none", "good"} \subseteq Keys
  BY DEF Places, Calls, Keys
<1>1. cli.ok \in Places /\ cli.err \in Places /\ cli.after \in Places /\ cli \in CliRecord
  BY DEF CliInv, CliRecord
<1>2. ASSUME UNCHANGED world, NEW p \in Places, Goto(p) PROVE CliInv'
  BY <1>2, CommandMoves
<1>3. ASSUME NEW p \in Places, Goto(p), key' \in [Daemons -> Keys], secret' \in Keys,
             unit' \in Daemons \cup {"none"}
      PROVE  CliInv'
  <2>1. cli' \in CliRecord /\ cli'.pc = p /\ (cli'.conn = cli.conn \/ cli'.conn = "none")
    BY <1>1, <1>3, GotoTyped
  <2> QED
    BY <1>0, <1>3, <2>1, CommandGoesOn
<1>4. CASE start_service
  <2>1. ASSUME NEW d \in Daemons, Launch(d), unit' = d, Goto("poll"), UNCHANGED secret
        PROVE  CliInv'
    BY <1>0, <1>3, <2>1, SecretsTyped DEF CliInv
  <2> QED
    BY <1>0, <1>1, <1>2, <1>4, <2>1 DEF start_service
<1>5. CASE set_secret
  <2>1. CASE Provided(cli.conn) /\ Goto(cli.after)
    BY <1>1, <1>3, <2>1, SecretProvided DEF CliInv
  <2>2. CASE At("set_secret") /\ Goto("set_answer")
    <3>1. "set_answer" \in Calls /\ "set_secret" \in Calls /\ "set_answer" \notin {"done", "failed"}
      BY DEF Calls
    <3>2. cli' \in CliRecord /\ cli'.conn = cli.conn
      BY <1>1, <2>2, <3>1, GotoTyped
    <3>3. cli.conn \in Daemons
      BY <2>2, <3>1 DEF CliInv, At
    <3> QED
      BY <2>2, <3>2, <3>3, CommandGoesOn DEF CliInv, At, world
  <2>3. ASSUME NEW from, At(from), Goto("failed") PROVE CliInv'
    BY <1>0, <1>2, <2>3 DEF At
  <2> QED
    BY <1>5, <2>1, <2>2, <2>3 DEF set_secret
<1>6. CASE reset_secret
  <2>1. ASSUME NEW p \in {"await_waiting", "stop_call"}, Say("reset", p),
               secret' = "none", UNCHANGED <<key, unit>>, cli.pc = "reset_call"
        PROVE  CliInv'
    <3>1. p \in Places \cup Calls
      BY <1>0
    <3>2. /\ cli' \in CliRecord /\ cli'.conn = cli.conn
      BY <1>1, <2>1, <3>1, SayTyped
    <3>3. cli.conn \in Daemons
      BY <2>1 DEF CliInv, Calls
    <3> QED
      BY <1>0, <2>1, <3>2, <3>3, CommandGoesOn DEF CliInv
  <2> QED
    BY <1>0, <1>2, <1>6, <2>1 DEF reset_secret
<1>7. CASE stop
  <2>1. ASSUME NEW p \in {"probe", "done"}, Goto(p), UNCHANGED <<key, secret, unit>>
        PROVE  CliInv'
    BY <1>0, <1>3, <2>1 DEF CliInv
  <2> QED
    BY <1>0, <1>2, <1>7, <2>1 DEF stop
<1>8. CASE stop_by_manager
  <2>1. ASSUME Active, Forget(unit), unit' = "none", Goto("probe"), UNCHANGED secret
        PROVE  CliInv'
    <3>1. key' \in [Daemons -> Keys]
      BY <2>1, SecretsTyped DEF Active
    <3> QED
      BY <1>0, <1>3, <2>1, <3>1 DEF CliInv
  <2> QED
    BY <1>0, <1>2, <1>8, <2>1, Zenon DEF stop_by_manager
<1> QED
  BY <1>4, <1>5, <1>6, <1>7, <1>8

(* One step of the whole keeps the invariant of the command.               *)
LEMMA CliInvInductive ==
  /\ CliInit => CliInv
  /\ TypeOK /\ CliInv /\ [CliNext]_cvars => CliInv'
<1>1. CliInit => CliInv
  <2>1. Idle.pc = "idle" /\ "idle" \notin Calls
    BY DEF Idle, Calls
  <2> QED
    BY <2>1, IdleIsTyped, DaemonsAssumption DEF CliInit, CliInv, Keys
<1>2. ASSUME TypeOK, CliInv, [CliNext]_cvars PROVE CliInv'
  <2>1. [Next]_dvars
    BY <1>2, CliMovesDaemons
  <2>2. ASSUME UNCHANGED cli, key' \in [Daemons -> Keys], secret' \in Keys,
               unit' \in Daemons \cup {"none"}
        PROVE  CliInv'
    BY <1>2, <2>1, <2>2, CommandGoesOn DEF CliInv
  <2>3. CASE UNCHANGED cvars
    BY <1>2, <2>2, <2>3 DEF cvars, CliInv
  <2>4. CASE DaemonStep
    BY <1>2, <2>2, <2>4, SecretsTyped DEF DaemonStep, CliInv
  <2>5. CASE \E d \in Daemons : boot(d) \/ restart_on_failure(d)
    BY <1>2, <2>2, <2>5, SecretsTyped DEF boot, restart_on_failure, CliInv
  <2>8. CASE \E d \in Daemons : provided_by_another(d)
    BY <1>2, <2>2, <2>8, SecretProvided DEF provided_by_another, CliInv
  <2>6. CASE begin
    BY <1>2, <2>6, CommandIsChosen
  <2>7. CASE CliStep
    BY <1>2, <2>1, <2>7, CommandLooks, CommandActs DEF CliStep
  <2> QED
    BY <1>2, <2>3, <2>4, <2>5, <2>6, <2>7, <2>8 DEF CliNext
<1> QED
  BY <1>1, <1>2

(* Both invariants together.                                               *)
LEMMA CliInvHolds == CliSpec => [](DaemonInv /\ CliInv)
<1>1. CliInit => DaemonInv /\ CliInv
  BY DaemonInvInductive, CliInvInductive DEF CliInit
<1>2. DaemonInv /\ CliInv /\ [CliNext]_cvars => DaemonInv' /\ CliInv'
  BY DaemonInvInductive, CliInvInductive, CliMovesDaemons DEF DaemonInv
<1> QED
  BY <1>1, <1>2, PTL DEF CliSpec

(* Whatever a playit command asks of a daemon (client.rs) it asks over a   *)
(* connection that it made, on every way through the commands.             *)
THEOREM CliTypeCorrect == CliSpec => []CliTypeOK
<1>1. CliInv => CliTypeOK
  BY DEF CliInv, CliTypeOK, CliRecord
<1> QED
  BY <1>1, CliInvHolds, PTL

(* The commands and the service manager are clients of the daemons like    *)
(* any other: a reset, a stop, a start and a kill are requests that Daemon *)
(* allows, or change nothing.                                              *)
THEOREM CliImplementsDaemon == CliSpec => Spec
<1>1. CliInit => Init
  BY DEF CliInit
<1>2. DaemonInv => TypeOK
  BY DEF DaemonInv
<1> QED
  BY <1>1, <1>2, CliInvHolds, CliMovesDaemons, PTL DEF CliSpec, Spec

(* Under the command line and the service manager too, a process that      *)
(* returns has waited for its runtime, and a daemon keeps its endpoint     *)
(* unless two start at once.                                               *)
THEOREM DaemonsUnderCli == CliSpec => [](EndedIsClean /\ EndpointIsKept)
BY CliImplementsDaemon, EndedDaemonIsClean, EndpointStaysKept, PTL

-----------------------------------------------------------------------------
(* The commands of the account.                                            *)

Sessions == [owner : Procs \cup {"none", "earlier"}, pending : BOOLEAN, coded : BOOLEAN]
Files == [what : {"absent", "empty", "part", "whole"}, session : Sessions]
Claims == {"unknown", "visible", "accepted", "rejected", "expired", "lapsed"}
Decided == {"accepted", "rejected", "lapsed"}
Verdicts == {"none", "killed", "error", "stored", "cleared", "not logged in", "valid",
             "timed out", "approved", "rejected", "refused", "secret"}
Command ==
  [cmd : AccountCommands \cup {"none"},
   pc : {"idle", "sign_in", "totp", "truncate", "write", "restrict", "clear", "load", "validate", "approve",
         "accept", "reject", "setup", "exchange", "done"},
   session : Sessions, round : 0 .. Rounds, wait : BOOLEAN, late : BOOLEAN, said : Verdicts]

AccountTypes ==
  /\ proc \in [Procs -> Command]
  /\ session_file \in Files
  /\ web_claim \in Claims /\ kept \in Procs \cup {"none"}

(* What holds of process p with record rec when the server holds claim cl  *)
(* and the session of the process k is stored: a code was given for what   *)
(* it is about to store if one was wanted, for what it acts with too, and   *)
(* nobody is in the middle of a write of a file that counts as stored.     *)
Sound(p, rec, cl, k) ==
  /\ rec.pc \in {"sign_in", "totp", "truncate", "write", "restrict"} => rec.cmd = "login"
  /\ rec.pc \in {"setup", "exchange"} => rec.cmd = "exchange"
  /\ rec.pc = "load" => rec.cmd \in {"validate", "approve", "reject"}
  /\ rec.pc # "done" => rec.said = "none"
  /\ rec.pc \in {"truncate", "write"} => rec.session.owner = p /\ CodeWasGiven(rec.session)
  /\ rec.pc \in {"validate", "approve", "accept", "reject"} => CodeWasGiven(rec.session)
  /\ rec.pc = "write" => k = "none"
  /\ rec.pc = "exchange" => cl \in {"accepted", "lapsed"}
  /\ rec.said \in {"approved", "secret"} => cl \in {"accepted", "lapsed"}
  /\ rec.said \in {"rejected", "refused"} => cl = "rejected"

FileIsGenuine == session_file.what = "whole" => CodeWasGiven(session_file.session)

AccountInv ==
  /\ AccountTypes /\ FileIsGenuine /\ StoredIsKept
  /\ \A p \in Procs : Sound(p, proc[p], web_claim, kept)

(* A step of one process.  A claim that is decided stays so, and a session *)
(* counts as stored only when nobody else is writing.                      *)
LEMMA OneProcess ==
  ASSUME AccountInv, NEW p \in Procs, NEW new \in Command, proc' = [proc EXCEPT ![p] = new],
         web_claim' \in Claims,
         web_claim \in Decided => web_claim' = web_claim,
         kept' \in Procs \cup {"none"},
         kept' = kept \/ kept' = "none" \/ \A q \in Procs \ {p} : proc[q].pc # "write",
         session_file' \in Files,
         FileIsGenuine', StoredIsKept',
         Sound(p, new, web_claim', kept')
  PROVE  AccountInv'
<1>1. /\ proc' \in [Procs -> Command] /\ proc'[p] = new
      /\ \A q \in Procs \ {p} : proc'[q] = proc[q]
  BY DEF AccountInv, AccountTypes
<1>2. ASSUME NEW q \in Procs PROVE Sound(q, proc'[q], web_claim', kept')
  <2>1. CASE q = p
    BY <1>1, <2>1
  <2>2. CASE q # p
    <3>1. proc'[q] = proc[q] /\ Sound(q, proc[q], web_claim, kept)
      BY <1>1, <2>2 DEF AccountInv
    <3> QED
      BY <2>2, <3>1, Zenon DEF Sound, Decided
  <2> QED
    BY <2>1, <2>2
<1> QED
  BY <1>1, <1>2 DEF AccountInv, AccountTypes

LEMMA NotRunningIsTyped == NotRunning \in Command /\ NotRunning.session = NoSession /\ NoSession \in Sessions
<1>1. NoSession \in Sessions
  BY DEF NoSession, Session, Sessions
<1>2. 0 \in 0 .. Rounds
  BY AccountAssumption
<1> QED
  BY <1>1, <1>2 DEF NotRunning, Command, Verdicts

(* A command that ends reports what the server holds.                      *)
LEMMA EndingStep ==
  ASSUME AccountInv, NEW p \in Procs, NEW said \in Verdicts, End(p, said),
         web_claim' \in Claims,
         web_claim \in Decided => web_claim' = web_claim,
         said \in {"approved", "secret"} => web_claim' \in {"accepted", "lapsed"},
         said \in {"rejected", "refused"} => web_claim' = "rejected",
         kept' \in Procs \cup {"none"},
         kept' = kept \/ kept' = "none" \/ \A q \in Procs \ {p} : proc[q].pc # "write",
         session_file' \in Files,
         FileIsGenuine', StoredIsKept'
  PROVE  AccountInv'
<1> DEFINE new == [NotRunning EXCEPT !.cmd = proc[p].cmd, !.pc = "done", !.said = said]
<1>1. proc[p] \in Command
  BY DEF AccountInv, AccountTypes
<1>2. new \in Command
  BY <1>1, NotRunningIsTyped, Zenon DEF Command
<1>3. new.pc = "done" /\ new.said = said
  BY DEF NotRunning
<1>4. Sound(p, new, web_claim', kept')
  BY <1>3 DEF Sound
<1>5. proc' = [proc EXCEPT ![p] = new]
  BY DEF End
<1> HIDE DEF new
<1> QED
  BY <1>2, <1>4, <1>5, OneProcess, Zenon

(* A step that leaves the file alone leaves what it holds sound.           *)
LEMMA FileUntouched ==
  ASSUME AccountInv, UNCHANGED <<session_file, kept>>
  PROVE  /\ FileIsGenuine' /\ StoredIsKept' /\ kept' \in Procs \cup {"none"}
         /\ session_file' \in Files
BY Zenon DEF AccountInv, AccountTypes, FileIsGenuine, StoredIsKept


(* Beginning, being killed, and time.                                      *)
LEMMA CommandBegins ==
  ASSUME AccountInv, NEW p \in Procs, run_command(p) \/ interrupt(p) \/ deadline(p)
  PROVE  AccountInv'
<1>1. proc[p] \in Command /\ Sound(p, proc[p], web_claim, kept) /\ web_claim \in Claims
  BY DEF AccountInv, AccountTypes
<1>2. CASE run_command(p)
  <2>1. PICK c \in AccountCommands, w \in BOOLEAN :
          proc' = [proc EXCEPT ![p] =
                     [NotRunning EXCEPT !.cmd = c, !.wait = w,
                        !.pc = CASE c = "login" -> "sign_in" [] c = "logout" -> "clear"
                                 [] c = "exchange" -> "setup" [] OTHER -> "load"]]
    BY <1>2, Zenon DEF run_command
  <2> DEFINE place == CASE c = "login" -> "sign_in" [] c = "logout" -> "clear"
                        [] c = "exchange" -> "setup" [] OTHER -> "load"
             new == [NotRunning EXCEPT !.cmd = c, !.wait = w, !.pc = place]
  <2>2. /\ place \in {"sign_in", "clear", "setup", "load"}
        /\ place = "sign_in" => c = "login"
        /\ place = "setup" => c = "exchange"
        /\ place = "load" => c \in {"validate", "approve", "reject"}
    BY DEF AccountCommands
  <2> HIDE DEF place
  <2>3. new \in Command
    BY <2>2, NotRunningIsTyped, Zenon DEF Command
  <2>4. new.cmd = c /\ new.pc = place /\ new.said = "none"
    BY DEF NotRunning
  <2>5. Sound(p, new, web_claim, kept)
    BY <2>2, <2>4, Zenon DEF Sound
  <2>6. proc' = [proc EXCEPT ![p] = new]
    BY <2>1 DEF place
  <2>7. UNCHANGED <<session_file, web_claim, kept>>
    BY <1>2, Zenon DEF run_command
  <2> HIDE DEF new
  <2> QED
    BY <1>1, <2>3, <2>5, <2>6, <2>7, FileUntouched, OneProcess, Zenon
<1>3. CASE interrupt(p)
  BY <1>1, <1>3, FileUntouched, EndingStep DEF interrupt, Verdicts
<1>4. CASE deadline(p)
  <2> DEFINE new == [proc[p] EXCEPT !.late = TRUE]
  <2>1. new \in Command /\ Sound(p, new, web_claim, kept)
    BY <1>1, Zenon DEF Command, Sound
  <2>2. proc' = [proc EXCEPT ![p] = new] /\ UNCHANGED <<session_file, web_claim, kept>>
    BY <1>4 DEF deadline
  <2> HIDE DEF new
  <2> QED
    BY <1>1, <2>1, <2>2, FileUntouched, OneProcess, Zenon
<1> QED
  BY <1>2, <1>3, <1>4

(* login and logout: what changes the file.                                *)
LEMMA LoginStep ==
  ASSUME AccountInv, NEW p \in Procs, run_account_login(p) \/ run_account_logout(p)
  PROVE  AccountInv'
<1>1. proc[p] \in Command /\ Sound(p, proc[p], web_claim, kept) /\ web_claim \in Claims
  BY DEF AccountInv, AccountTypes
<1>2. ASSUME NEW totp \in BOOLEAN, NEW code \in BOOLEAN, NEW place \in {"totp", "truncate"},
             proc[p].cmd = "login", proc[p].said = "none",
             totp => code \/ place = "totp",
             proc' = [proc EXCEPT ![p].session = Session(p, totp, code), ![p].pc = place],
             UNCHANGED <<session_file, web_claim, kept>>
      PROVE  AccountInv'
  <2> DEFINE new == [proc[p] EXCEPT !.session = Session(p, totp, code), !.pc = place]
  <2>1. /\ Session(p, totp, code) \in Sessions
        /\ Session(p, totp, code).owner = p
        /\ place = "truncate" => CodeWasGiven(Session(p, totp, code))
    BY <1>2, AccountAssumption DEF Session, Sessions, CodeWasGiven
  <2>2. new \in Command /\ new.pc = place /\ new.session = Session(p, totp, code)
        /\ new.cmd = "login" /\ new.said = "none"
    BY <1>1, <1>2, <2>1, Zenon DEF Command
  <2>3. proc' = [proc EXCEPT ![p] = new]
    BY <1>1, <1>2, Zenon DEF AccountInv, AccountTypes, Command
  <2> HIDE DEF new
  <2>4. Sound(p, new, web_claim, kept)
    BY <1>2, <2>1, <2>2, Zenon DEF Sound
  <2> QED
    BY <1>1, <1>2, <2>2, <2>3, <2>4, FileUntouched, OneProcess, Zenon
<1>3. CASE sign_in(p)
  <2>1. proc[p].cmd = "login" /\ proc[p].said = "none"
    BY <1>1, <1>3 DEF sign_in, In, Sound
  <2>2. CASE End(p, "error")
    BY <1>1, <1>3, <2>2, FileUntouched, EndingStep DEF sign_in, Verdicts
  <2>3. ASSUME NEW totp \in BOOLEAN,
               proc' = [proc EXCEPT ![p].session = Session(p, totp, FALSE),
                                    ![p].pc = IF totp THEN "totp" ELSE "truncate"]
        PROVE  AccountInv'
    <3>1. CASE totp
      BY <1>2, <1>3, <2>1, <2>3, <3>1, Zenon DEF sign_in
    <3>2. CASE ~totp
      BY <1>2, <1>3, <2>1, <2>3, <3>2, Zenon DEF sign_in
    <3> QED
      BY <3>1, <3>2
  <2> QED
    BY <1>3, <2>2, <2>3, Zenon DEF sign_in
<1>4. CASE complete_totp(p)
  <2>1. proc[p].cmd = "login" /\ proc[p].said = "none"
    BY <1>1, <1>4 DEF complete_totp, In, Sound
  <2>2. CASE End(p, "error")
    BY <1>1, <1>4, <2>2, FileUntouched, EndingStep DEF complete_totp, Verdicts
  <2> QED
    BY <1>2, <1>4, <2>1, <2>2, Zenon DEF complete_totp
<1>5. \A what \in {"absent", "empty", "part"} :
        /\ File(what, NoSession) \in Files
        /\ session_file' = File(what, NoSession) => FileIsGenuine'
  BY NotRunningIsTyped DEF File, Files, FileIsGenuine
<1>6. Touch => kept' = "none" /\ StoredIsKept'
  BY DEF Touch, StoredIsKept
<1>7. CASE truncate(p)
  <2>1. CASE End(p, "error") /\ UNCHANGED <<session_file, kept>>
    BY <1>1, <1>7, <2>1, FileUntouched, EndingStep DEF truncate, Verdicts
  <2>2. CASE session_file' = File("empty", NoSession) /\ MoveTo(p, "write") /\ Touch
    <3> DEFINE new == [proc[p] EXCEPT !.pc = "write"]
    <3>1. /\ new \in Command /\ new.pc = "write" /\ new.cmd = proc[p].cmd
          /\ new.said = proc[p].said /\ new.session = proc[p].session
      BY <1>1 DEF Command
    <3>2. proc' = [proc EXCEPT ![p] = new]
      BY <2>2 DEF MoveTo
    <3> HIDE DEF new
    <3>3. Sound(p, new, web_claim, "none")
      BY <1>1, <1>7, <3>1, Zenon DEF truncate, In, Sound
    <3> QED
      BY <1>1, <1>5, <1>6, <1>7, <2>2, <3>1, <3>2, <3>3, OneProcess, Zenon DEF truncate
  <2> QED
    BY <1>7, <2>1, <2>2 DEF truncate
<1>8. CASE write_session(p)
  <2> DEFINE whole == File("whole", proc[p].session)
  <2>1. /\ proc[p].pc = "write" /\ proc[p].cmd = "login" /\ proc[p].said = "none"
        /\ proc[p].session.owner = p /\ CodeWasGiven(proc[p].session)
        /\ proc[p].session \in Sessions /\ kept = "none"
    BY <1>1, <1>8, Zenon DEF write_session, In, Sound, Command
  <2>2. /\ whole \in Files /\ whole.what = "whole" /\ whole.session.owner = p
        /\ session_file' = whole => FileIsGenuine'
    BY <2>1 DEF File, Files, FileIsGenuine
  <2>3. UNCHANGED web_claim
    BY <1>8 DEF write_session
  <2>4. CASE /\ session_file' \in
                  IF session_file.what = "empty" THEN {whole}
                  ELSE IF session_file.what = "absent" THEN {NoFile}
                  ELSE {whole, File("part", NoSession)}
             /\ MoveTo(p, "restrict")
             /\ kept' = IF session_file.what = "empty" /\ \A q \in Procs \ {p} : ~Saving(q)
                        THEN p ELSE "none"
    <3> HIDE DEF whole
    <3>1. FileIsGenuine' /\ session_file' \in Files
      BY <1>5, <2>2, <2>4, Zenon DEF NoFile
    <3>2. kept' \in {p, "none"} /\ StoredIsKept'
      BY <2>2, <2>4, Zenon DEF StoredIsKept
    <3>3. kept' = "none" \/ \A q \in Procs \ {p} : proc[q].pc # "write"
      BY <2>4 DEF Saving, In
    <3> DEFINE new == [proc[p] EXCEPT !.pc = "restrict"]
    <3>4. /\ new \in Command /\ new.pc = "restrict" /\ new.cmd = "login" /\ new.said = "none"
      BY <1>1, <2>1 DEF Command
    <3>5. proc' = [proc EXCEPT ![p] = new]
      BY <2>4 DEF MoveTo
    <3> HIDE DEF new
    <3>6. Sound(p, new, web_claim', kept')
      BY <3>4, Zenon DEF Sound
    <3> QED
      BY <1>1, <2>3, <3>1, <3>2, <3>3, <3>4, <3>5, <3>6, OneProcess
  <2>5. CASE /\ session_file' =
                  IF session_file.what = "absent" THEN NoFile ELSE File("part", NoSession)
             /\ End(p, "killed") /\ Touch
    BY <1>1, <1>5, <1>6, <2>3, <2>5, EndingStep DEF NoFile, Verdicts
  <2>6. CASE End(p, "error") /\ UNCHANGED session_file /\ Touch
    <3>1. UNCHANGED kept
      BY <1>6, <2>1, <2>6
    <3> QED
      BY <1>1, <2>3, <2>6, <3>1, FileUntouched, EndingStep DEF Verdicts
  <2> QED
    BY <1>8, <2>4, <2>5, <2>6 DEF write_session
<1>10. CASE restrict_to_owner(p)
  BY <1>1, <1>10, FileUntouched, EndingStep DEF restrict_to_owner, Verdicts
<1>9. CASE clear(p)
  <2>1. CASE End(p, "error") /\ UNCHANGED <<session_file, kept>>
    BY <1>1, <1>9, <2>1, FileUntouched, EndingStep DEF clear, Verdicts
  <2>2. CASE session_file' = NoFile /\ End(p, "cleared") /\ Touch
    BY <1>1, <1>5, <1>6, <1>9, <2>2, EndingStep DEF clear, NoFile, Verdicts
  <2> QED
    BY <1>9, <2>1, <2>2 DEF clear
<1> QED
  BY <1>3, <1>4, <1>7, <1>8, <1>9, <1>10 DEF run_account_login, run_account_logout


(* The commands that read the file, and the verdicts on a claim.           *)
LEMMA ClaimStep ==
  ASSUME AccountInv, NEW p \in Procs,
         \/ run_account_validate(p) \/ await_claim_details(p) \/ claim_approve(p) \/ claim_reject(p)
         \/ claim_setup(p) \/ claim_exchange(p)
  PROVE  AccountInv'
<1>1. /\ proc \in [Procs -> Command] /\ proc[p] \in Command
      /\ Sound(p, proc[p], web_claim, kept) /\ web_claim \in Claims
  BY DEF AccountInv, AccountTypes
<1>2. UNCHANGED <<session_file, kept>>
  BY DEF run_account_validate, load_stored_session, validate, await_claim_details, claim_approve,
         claim_reject, claim_setup, claim_exchange
<1>3. ASSUME NEW said \in Verdicts, End(p, said), web_claim' \in Claims,
             web_claim \in Decided => web_claim' = web_claim,
             said \in {"approved", "secret"} => web_claim' \in {"accepted", "lapsed"},
             said \in {"rejected", "refused"} => web_claim' = "rejected"
      PROVE  AccountInv'
  BY <1>2, <1>3, FileUntouched, EndingStep
<1>4. ASSUME NEW new \in Command, proc' = [proc EXCEPT ![p] = new], web_claim' \in Claims,
             web_claim \in Decided => web_claim' = web_claim,
             Sound(p, new, web_claim', kept)
      PROVE  AccountInv'
  BY <1>2, <1>4, FileUntouched, OneProcess, Zenon
<1>5. ASSUME UNCHANGED proc, web_claim' \in Claims,
             web_claim \in Decided => web_claim' = web_claim
      PROVE  AccountInv'
  <2>1. proc' = [proc EXCEPT ![p] = proc[p]]
    BY <1>1, <1>5
  <2>2. Sound(p, proc[p], web_claim', kept)
    BY <1>1, <1>5, Zenon DEF Sound, Decided
  <2> QED
    BY <1>1, <1>4, <1>5, <2>1, <2>2, Zenon
<1>6. ASSUME NEW place \in {"accept", "exchange"}, MoveTo(p, place)
      PROVE  LET new == [proc[p] EXCEPT !.pc = place]
             IN  /\ new \in Command /\ proc' = [proc EXCEPT ![p] = new]
                 /\ new.pc = place /\ new.cmd = proc[p].cmd /\ new.said = proc[p].said
                 /\ new.session = proc[p].session
  BY <1>1, <1>6 DEF MoveTo, Command
<1>7. Seen \in Claims /\ (web_claim \in Decided => Seen = web_claim)
  BY <1>1 DEF Seen, Claims, Decided
<1>8. CASE load_stored_session(p)
  <2>1. ASSUME NEW said \in {"not logged in", "error"}, End(p, said) PROVE AccountInv'
    BY <1>1, <1>3, <1>8, <2>1 DEF load_stored_session, Verdicts
  <2>2. CASE /\ session_file.what = "whole"
             /\ proc' = [proc EXCEPT ![p].session = session_file.session, ![p].pc = proc[p].cmd]
    <3> DEFINE new == [proc[p] EXCEPT !.session = session_file.session, !.pc = proc[p].cmd]
    <3>1. /\ proc[p].cmd \in {"validate", "approve", "reject"} /\ proc[p].said = "none"
          /\ session_file.session \in Sessions
          /\ CodeWasGiven(session_file.session)
      BY <1>1, <1>8, <2>2 DEF load_stored_session, In, Sound, AccountInv, AccountTypes, Files,
                              FileIsGenuine
    <3>2. /\ new \in Command /\ new.pc = proc[p].cmd /\ new.said = "none"
          /\ new.session = session_file.session
      BY <1>1, <3>1, Zenon DEF Command
    <3>3. proc' = [proc EXCEPT ![p] = new]
      BY <1>1, <2>2, Zenon DEF Command
    <3> HIDE DEF new
    <3>4. Sound(p, new, web_claim, kept)
      BY <3>1, <3>2, Zenon DEF Sound
    <3> QED
      BY <1>1, <1>4, <1>8, <3>2, <3>3, <3>4 DEF load_stored_session
  <2> QED
    BY <1>8, <2>1, <2>2 DEF load_stored_session
<1>9. CASE validate(p)
  BY <1>1, <1>3, <1>9 DEF validate, Verdicts
<1>10. CASE await_claim_details(p)
  <2>1. web_claim' \in {web_claim, Seen}
    BY <1>10 DEF await_claim_details
  <2>2. web_claim' \in Claims /\ (web_claim \in Decided => web_claim' = web_claim)
    BY <1>1, <1>7, <2>1
  <2>3. proc[p].pc = "approve"
    BY <1>10 DEF await_claim_details, In
  <2>4. ASSUME NEW said \in {"error", "timed out"}, End(p, said) PROVE AccountInv'
    BY <1>3, <2>2, <2>4 DEF Verdicts
  <2>5. CASE MoveTo(p, "accept")
    <3> DEFINE new == [proc[p] EXCEPT !.pc = "accept"]
    <3>1. /\ new \in Command /\ proc' = [proc EXCEPT ![p] = new] /\ new.pc = "accept"
          /\ new.said = proc[p].said /\ new.session = proc[p].session
      BY <1>6, <2>5
    <3> HIDE DEF new
    <3>2. Sound(p, new, web_claim', kept)
      BY <1>1, <2>3, <3>1 DEF Sound
    <3> QED
      BY <1>4, <2>2, <3>1, <3>2, Zenon
  <2>6. CASE RoundLeft(p) /\ proc' = [proc EXCEPT ![p].round = @ + 1]
    <3> DEFINE new == [proc[p] EXCEPT !.round = proc[p].round + 1]
    <3>1. proc[p].round + 1 \in 0 .. Rounds
      BY <1>1, <2>6, AccountAssumption DEF RoundLeft, Command
    <3>2. /\ new \in Command /\ new.pc = "approve"
          /\ new.said = proc[p].said /\ new.session = proc[p].session
      BY <1>1, <2>3, <3>1 DEF Command
    <3>3. proc' = [proc EXCEPT ![p] = new]
      BY <1>1, <2>6 DEF Command
    <3> HIDE DEF new
    <3>4. Sound(p, new, web_claim', kept)
      BY <1>1, <2>3, <3>2 DEF Sound
    <3> QED
      BY <1>4, <2>2, <3>2, <3>3, <3>4, Zenon
  <2> QED
    BY <1>10, <2>4, <2>5, <2>6 DEF await_claim_details
<1>11. CASE claim_approve(p)
  BY <1>1, <1>3, <1>11 DEF claim_approve, accept_claim, Verdicts, Claims, Decided
<1>12. CASE claim_reject(p)
  BY <1>1, <1>3, <1>12 DEF claim_reject, reject_claim, Verdicts, Claims, Decided
<1>13. CASE claim_setup(p)
  <2>1. /\ proc[p].pc = "setup" /\ web_claim' \in Claims
        /\ web_claim \in Decided => web_claim' = web_claim
    BY <1>7, <1>13 DEF claim_setup, In
  <2>2. CASE web_claim' = "accepted" /\ MoveTo(p, "exchange")
    <3> DEFINE new == [proc[p] EXCEPT !.pc = "exchange"]
    <3>1. /\ new \in Command /\ proc' = [proc EXCEPT ![p] = new] /\ new.pc = "exchange"
          /\ new.cmd = proc[p].cmd /\ new.said = proc[p].said
      BY <1>6, <2>2
    <3> HIDE DEF new
    <3>2. Sound(p, new, web_claim', kept)
      BY <1>1, <2>1, <2>2, <3>1 DEF Sound
    <3> QED
      BY <1>4, <2>1, <3>1, <3>2, Zenon
  <2>3. CASE web_claim' = "rejected" /\ End(p, "refused")
    BY <1>3, <2>1, <2>3 DEF Verdicts
  <2>4. CASE UNCHANGED proc
    BY <1>5, <2>1, <2>4
  <2> QED
    BY <1>13, <2>2, <2>3, <2>4 DEF claim_setup
<1>14. CASE claim_exchange(p)
  <2>1. web_claim \in {"accepted", "lapsed"} /\ UNCHANGED web_claim
    BY <1>1, <1>14 DEF claim_exchange, In, Sound
  <2>2. CASE UNCHANGED proc
    BY <1>1, <1>5, <2>1, <2>2
  <2>3. ASSUME NEW said \in {"secret", "error", "timed out"}, End(p, said) PROVE AccountInv'
    BY <1>1, <1>3, <2>1, <2>3 DEF Verdicts
  <2> QED
    BY <1>14, <2>2, <2>3 DEF claim_exchange
<1> QED
  BY <1>8, <1>9, <1>10, <1>11, <1>12, <1>13, <1>14 DEF run_account_validate

(* The invariant holds for ever.                                           *)
LEMMA AccountInvHolds == AccountSpec => []AccountInv
<1>1. ASSUME AccountInit PROVE AccountInv
  <2>1. /\ NoFile \in Files
        /\ File("whole", Session("earlier", FALSE, FALSE)) \in Files
    BY NotRunningIsTyped DEF NoFile, File, Files, Session, Sessions
  <2>2. AccountTypes
    BY <1>1, <2>1, NotRunningIsTyped, Zenon DEF AccountInit, AccountTypes, Claims
  <2>3. FileIsGenuine /\ StoredIsKept
    BY <1>1 DEF AccountInit, FileIsGenuine, StoredIsKept, NoFile, File, Session, CodeWasGiven
  <2>4. \A p \in Procs : Sound(p, proc[p], web_claim, kept)
    BY <1>1, Zenon DEF AccountInit, NotRunning, Sound
  <2> QED
    BY <2>2, <2>3, <2>4 DEF AccountInv
<1>2. ASSUME AccountInv, UNCHANGED pvars PROVE AccountInv'
  BY <1>2, Zenon DEF pvars, AccountInv, AccountTypes, FileIsGenuine, StoredIsKept
<1>3. ASSUME AccountInv, expire PROVE AccountInv'
  <2>1. /\ UNCHANGED <<proc, session_file, kept>>
        /\ \/ web_claim = "visible" /\ web_claim' = "expired"
           \/ web_claim = "accepted" /\ web_claim' = "lapsed"
    BY <1>3 DEF expire
  <2>2. \A p \in Procs : Sound(p, proc[p], web_claim', kept)
    BY <1>3, <2>1, Zenon DEF AccountInv, Sound
  <2> QED
    BY <1>3, <2>1, <2>2, Zenon DEF AccountInv, AccountTypes, FileIsGenuine, StoredIsKept, Claims
<1>4. AccountInv /\ [AccountNext]_pvars => AccountInv'
  BY <1>2, <1>3, CommandBegins, LoginStep, ClaimStep DEF AccountNext, command_step
<1> QED
  BY <1>1, <1>4, PTL DEF AccountSpec

(* Every record keeps to its type, and the rounds of await_claim_details   *)
(* to their bound.                                                         *)
THEOREM AccountTypeCorrect == AccountSpec => []AccountTypeOK
<1>1. AccountInv => AccountTypeOK
  BY Zenon DEF AccountInv, AccountTypes, Files, Command, Sound, Claims, AccountTypeOK
<1> QED
  BY <1>1, AccountInvHolds, PTL

(* Whatever logins, logouts and crashes do to the session file between     *)
(* each other's steps, nobody stores a session, or acts with one, that was *)
(* read in part or for which the server wanted a code that nobody gave,    *)
(* and what a login has written alone is there until somebody else touches *)
(* the file, for any number of processes (session.rs, account.rs).         *)
THEOREM SessionFileStaysSound == AccountSpec => []SessionFileIsSound
<1>1. AccountInv => SessionFileIsSound
  BY Zenon DEF AccountInv, FileIsGenuine, Sound, SessionFileIsSound, SessionIsGenuine
<1> QED
  BY <1>1, AccountInvHolds, PTL

(* What the commands of any number of processes report about one claim is  *)
(* what the server holds, so no two of them contradict each other          *)
(* (claim_approve, claim_reject, claim_exchange).                          *)
THEOREM VerdictsAlwaysAgree == AccountSpec => []VerdictsAgree
<1>1. AccountInv => VerdictsAgree
  BY Zenon DEF AccountInv, Sound, VerdictsAgree
<1> QED
  BY <1>1, AccountInvHolds, PTL
=============================================================================
