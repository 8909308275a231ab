-------------------------- MODULE SupervisorProofs --------------------------
(***************************************************************************)
(* Proofs about Supervisor.  The state is finite, but for the provers what *)
(* the tasks, the supervisor and the owner do is any interleaving of any   *)
(* length; the invariants say why the publishers do not overtake another.  *)
(***************************************************************************)
EXTENDS Supervisor, TLAPS

(* A handle run_agent still has to await.                                  *)
Awaited(t) == \E i \in 1 .. Len(todo) : todo[i] = t
Cleaning == pc \in {"cleanup", "aborting"} \/ (pub # None /\ pub.next = "cleanup")

(* While the tasks are stopped, a task that is still alive is awaited; the *)
(* supervisor announces this stop only in a shutdown.                      *)
TasksOK ==
  /\ NoStaleAgent
  /\ Cleaning => \A t \in Tasks : Alive(t) => Awaited(t)
  /\ pub # None /\ pub.next = "cleanup" => cancel

(* What broadcast_control_state is about to publish.                       *)
LocalOK ==
  task["control"] \in {"set", "send"} =>
    local_status \in [phase : {"Running", "Reconnecting"}, has_secret : BOOLEAN]

(* Each half of the cache is what was sent, or what its only writer at     *)
(* this moment is about to send.                                           *)
EventsOK ==
  ~cancel =>
    /\ pub = None /\ task["state"] # "send" => cache.lifecycle = sent.lifecycle
    /\ pub = None /\ task["state"] = "send" => cache.lifecycle = "Running"
    /\ pub = None /\ task["control"] # "send" => cache.status = sent.status
    /\ pub = None /\ task["control"] = "send" => cache.status = local_status
    /\ pc \in {"set_lifecycle", "send"} => cache.status = pub.status
    /\ pc = "send" => cache.lifecycle = pub.lifecycle

(* The supervisor announces that it waits for a secret only on its way     *)
(* there, and has no api then.                                             *)
WaitingOK ==
  /\ WaitingIsServed
  /\ pub # None => pub.next # "load"
  /\ pub # None /\ pub.next \in {"wait_for_secret", "await_secret"} => ~api
  /\ pc \in {"load", "wait_for_secret", "await_secret"} => ~api
  /\ pub # None /\ pub.lifecycle = "WaitingForSecret" => pub.next = "await_secret"
  /\ pc = "send" /\ cache.lifecycle = "WaitingForSecret" => pub.lifecycle = "WaitingForSecret"

(* The four handles.                                                       *)
LEMMA HandlesTyped ==
  /\ Handles \in Seq(Tasks) /\ Len(Handles) <= 4
  /\ Tail(Handles) \in Seq(Tasks) /\ Len(Tail(Handles)) <= 4
  /\ Handles # Tail(Handles)
<1>1. Handles \in Seq(Tasks) /\ Len(Handles) = 4
  BY DEF Handles, Tasks
<1>2. Tail(Handles) \in Seq(Tasks) /\ Len(Tail(Handles)) = 3
  BY <1>1
<1>3. 4 # 3 /\ 4 <= 4 /\ 3 <= 4
  OBVIOUS
<1> QED
  BY <1>1, <1>2, <1>3, Zenon

LEMMA HandlesCover ==
  /\ \A t \in Tasks : \E i \in 1 .. 4 : Handles[i] = t
  /\ \A t \in Tasks \ {"agent"} : \E i \in 1 .. 3 : Tail(Handles)[i] = t
<1>1. Handles \in Seq(Tasks) /\ Len(Handles) = 4
  BY DEF Handles, Tasks
<1>2. /\ Handles[1] = "agent" /\ Handles[2] = "stats"
      /\ Handles[3] = "state" /\ Handles[4] = "control"
  BY DEF Handles
<1>3. /\ Tail(Handles) \in Seq(Tasks) /\ Len(Tail(Handles)) = 3
      /\ \A i \in 1 .. 3 : Tail(Handles)[i] = Handles[i + 1]
  BY <1>1
<1>4. \A t \in Tasks : \E i \in 1 .. 4 : Handles[i] = t
  <2>1. 1 \in 1 .. 4 /\ 2 \in 1 .. 4 /\ 3 \in 1 .. 4 /\ 4 \in 1 .. 4
    OBVIOUS
  <2> QED
    BY <1>2, <2>1 DEF Tasks
<1>5. Tail(Handles)[1] = "stats" /\ Tail(Handles)[2] = "state" /\ Tail(Handles)[3] = "control"
  BY <1>2, <1>3
<1>6. \A t \in Tasks \ {"agent"} : \E i \in 1 .. 3 : Tail(Handles)[i] = t
  <2>1. 1 \in 1 .. 3 /\ 2 \in 1 .. 3 /\ 3 \in 1 .. 3
    OBVIOUS
  <2> QED
    BY <1>5, <2>1, Zenon DEF Tasks
<1> QED
  BY <1>4, <1>6, Zenon

(* What publish_state does.                                                *)
LEMMA PublishFacts ==
  ASSUME TypeOK, NEW phase \in Phases, NEW has_secret \in BOOLEAN, NEW lifecycle \in Lifecycles,
         NEW next \in Points, publish_state(phase, has_secret, lifecycle, next)
  PROVE  /\ pc' = "set_status" /\ UNCHANGED <<cache, sent>>
         /\ pub' \in Publication /\ pub' # None
         /\ pub'.lifecycle = lifecycle /\ pub'.next = next
<1>1. MkStatus(phase, has_secret) \in Status
  BY DEF MkStatus, Status
<1> QED
  BY <1>1, NoneAssumption DEF publish_state, Publication

PublishSteps ==
  \/ LoadReady \/ LoadMissing \/ LoadInvalid \/ wait_for_secret \/ Provisioned
  \/ ProvisioningCancelled \/ BuildCancelled \/ RunData \/ AgentBuilt \/ SecretRejected
  \/ OverLimit \/ SetupFailsTransiently \/ SetupFails \/ RetryCancelled

(* The supervisor begins to publish, while no agent runs.                  *)
Idle == {"load", "wait_for_secret", "await_secret", "build", "rundata", "new_agent", "limit",
         "retry"}
BeginsToPublish ==
  /\ pc \in Idle /\ pc' = "set_status" /\ pub' \in Publication /\ pub' # None
  /\ UNCHANGED <<cache, sent, source, tokens, task, watching, joining, owner>>
  /\ pub'.next \in Points \ {"load", "cleanup", "run"}
  /\ \/ /\ pub'.lifecycle # "WaitingForSecret" /\ pub'.next # "await_secret"
        /\ UNCHANGED api
     \/ /\ pub'.lifecycle = "WaitingForSecret" /\ pub'.next = "await_secret"
        /\ (pc \in {"load", "wait_for_secret"} /\ UNCHANGED api) \/ api' = FALSE
  /\ pub'.next = "wait_for_secret" => pc = "load" /\ UNCHANGED api

LEMMA PublishStep ==
  ASSUME TypeOK, PublishSteps
  PROVE  BeginsToPublish
<1> DEFINE Rest == UNCHANGED <<source, tokens, task, watching, joining, owner>>
<1>1. ASSUME pc \in Idle, Rest, UNCHANGED api,
             NEW phase \in Phases, NEW has_secret \in BOOLEAN,
             NEW lifecycle \in Lifecycles \ {"WaitingForSecret"},
             NEW next \in {"wait_for_secret", "build", "new_agent", "limit", "retry", "run_agent",
                           "finish"},
             next = "wait_for_secret" => pc = "load",
             publish_state(phase, has_secret, lifecycle, next)
      PROVE  BeginsToPublish
  <2>1. next \in Points \ {"load", "cleanup", "run", "await_secret"}
    BY DEF Points
  <2> QED
    BY <1>1, <2>1, PublishFacts DEF BeginsToPublish
<1>2. ASSUME pc \in Idle, Rest, publish_waiting,
             (pc \in {"load", "wait_for_secret"} /\ UNCHANGED api) \/ api' = FALSE
      PROVE  BeginsToPublish
  <2>1. /\ pc' = "set_status" /\ UNCHANGED <<cache, sent>>
        /\ pub' \in Publication /\ pub' # None
        /\ pub'.lifecycle = "WaitingForSecret" /\ pub'.next = "await_secret"
    BY <1>2, PublishFacts, Zenon DEF publish_waiting, Phases, Lifecycles, Points
  <2> QED
    BY <1>2, <2>1 DEF BeginsToPublish, Points
<1> USE DEF publish_starting, publish_reconnecting, publish_stopping, Phases, Lifecycles, config, Idle
<1>3. CASE LoadReady
  BY <1>1, <1>3, Zenon DEF LoadReady
<1>4. CASE LoadMissing
  BY <1>2, <1>4 DEF LoadMissing
<1>5. CASE LoadInvalid
  BY <1>1, <1>5, Zenon DEF LoadInvalid
<1>6. CASE wait_for_secret
  BY <1>2, <1>6 DEF wait_for_secret
<1>7. CASE Provisioned \/ ProvisioningCancelled
  BY <1>1, <1>7, Zenon DEF Provisioned, ProvisioningCancelled
<1>8. CASE BuildCancelled \/ RunData
  BY <1>1, <1>8, Zenon DEF BuildCancelled, RunData
<1>9. CASE AgentBuilt \/ OverLimit
  BY <1>1, <1>9, Zenon DEF AgentBuilt, OverLimit
<1>10. CASE SecretRejected
  BY <1>2, <1>10, Zenon DEF SecretRejected
<1>11. CASE SetupFailsTransiently \/ SetupFails
  BY <1>1, <1>11, Zenon DEF SetupFailsTransiently, SetupFails
<1>12. CASE RetryCancelled
  BY <1>1, <1>12, Zenon DEF RetryCancelled
<1> QED
  BY <1>3, <1>4, <1>5, <1>6, <1>7, <1>8, <1>9, <1>10, <1>11, <1>12 DEF PublishSteps

(* The other two places where the supervisor may begin to publish: it      *)
(* stops the agent, or is done with that.                                  *)
LEMMA StopFacts ==
  ASSUME TypeOK, StopRequested \/ AgentCompleted
  PROVE  /\ pc = "run" /\ UNCHANGED <<cache, sent, config, cancel, task, watching, owner>>
         /\ todo' \in {Handles, Tail(Handles)}
         /\ todo' = Tail(Handles) => ~Alive("agent")
         /\ \/ /\ cancel /\ pc' = "set_status" /\ pub' \in Publication /\ pub' # None
               /\ pub'.next = "cleanup" /\ pub'.lifecycle = "Stopping"
            \/ ~cancel /\ pc' = "cleanup" /\ UNCHANGED pub
<1>1. ASSUME publish_stopping(TRUE, "cleanup")
      PROVE  /\ pc' = "set_status" /\ pub' \in Publication /\ pub' # None
             /\ UNCHANGED <<cache, sent>>
             /\ pub'.next = "cleanup" /\ pub'.lifecycle = "Stopping"
  BY <1>1, PublishFacts, Zenon DEF publish_stopping, Phases, Lifecycles, Points
<1>2. CASE StopRequested
  <2>1. todo' = Handles /\ Handles # Tail(Handles)
    BY <1>2, HandlesTyped, Zenon DEF StopRequested
  <2> QED
    BY <1>1, <1>2, <2>1, Zenon DEF StopRequested
<1>3. CASE AgentCompleted
  BY <1>1, <1>3, HandlesTyped, Zenon DEF AgentCompleted, publication
<1> QED
  BY <1>2, <1>3

LEMMA CleanedUpFacts ==
  ASSUME TypeOK, CleanedUp
  PROVE  /\ pc \in {"cleanup", "aborting"} /\ todo = <<>>
         /\ UNCHANGED <<cache, sent, config, cancel, agent_token, task, watching, joining, owner>>
         /\ \/ pc' = "finish" /\ UNCHANGED pub
            \/ /\ pc' = "set_status" /\ pub' \in Publication /\ pub' # None
               /\ pub'.next \in {"finish", "retry"} /\ pub'.lifecycle \in {"Stopping", "Starting"}
<1>1. ASSUME publish_stopping(TRUE, "finish") \/ publish_reconnecting("retry")
      PROVE  /\ pc' = "set_status" /\ pub' \in Publication /\ pub' # None
             /\ UNCHANGED <<cache, sent>>
             /\ pub'.next \in {"finish", "retry"} /\ pub'.lifecycle \in {"Stopping", "Starting"}
  BY <1>1, PublishFacts, Zenon DEF publish_stopping, publish_reconnecting, Phases, Lifecycles, Points
<1> QED
  BY <1>1, Zenon DEF CleanedUp, publication

(* The flags, and the rest of the types.                                   *)
Flags ==
  /\ api \in BOOLEAN /\ cancel \in BOOLEAN /\ agent_slot \in BOOLEAN /\ agent_token \in BOOLEAN
  /\ aborted \in BOOLEAN /\ unexpected \in BOOLEAN
Shapes ==
  /\ pc \in Points \cup Publishing
  /\ pub \in Publication \cup {None}
  /\ pc \in Publishing <=> pub # None
  /\ cache \in Published /\ sent \in Published
  /\ source \in {"file", "inline"}
  /\ task \in [Tasks -> {"ended", "running", "wait", "check", "poll", "set", "send"}]
  /\ control_state \in {"Running", "Reconnecting"}
  /\ last_state \in {"Running", "Reconnecting", None}
  /\ local_status \in Status \cup {None}
  /\ todo \in Seq(Tasks) /\ Len(todo) <= 4
  /\ joined \subseteq Tasks
  /\ owner \in {"running", "cancelling", "waiting", "returned"}
  /\ LocalOK

LEMMA TypeParts == TypeOK /\ LocalOK <=> Flags /\ Shapes
BY DEF TypeOK, Flags, Shapes

(* Every step keeps the flags.                                             *)
LEMMA FlagsStep == Flags /\ [Next]_vars => Flags'
<1> SUFFICES ASSUME Flags, [Next]_vars PROVE Flags'
  OBVIOUS
<1> USE DEF Flags, tokens, watching, joining, config, publication
<1>1. CASE SetStatus \/ SetLifecycle \/ SendEvents
  BY <1>1, Zenon DEF SetStatus, SetLifecycle, SendEvents
<1>2. CASE LoadReady \/ LoadMissing \/ LoadInvalid \/ wait_for_secret \/ ProvisioningCancelled
  BY <1>2, Zenon DEF LoadReady, LoadMissing, LoadInvalid, wait_for_secret, ProvisioningCancelled
<1>3. CASE BuildCancelled \/ Build \/ RetryCancelled \/ Retry
  BY <1>3, Zenon DEF BuildCancelled, Build, RetryCancelled, Retry
<1>4. CASE SpawnTasks \/ StopRequested \/ AgentCompleted \/ Join
  BY <1>4, Zenon DEF SpawnTasks, StopRequested, AgentCompleted, Join
<1>5. CASE CleanupTimesOut \/ CleanedUp \/ Finish
  BY <1>5, Zenon DEF CleanupTimesOut, CleanedUp, Finish
<1>6. CASE Provisioned \/ ApiStep
  BY <1>6, Zenon DEF Provisioned, ApiStep, RunData, AgentBuilt, SecretRejected, OverLimit,
                     SetupFailsTransiently, SetupFails
<1>7. CASE AgentEnds \/ broadcast_stats
  BY <1>7, Zenon DEF AgentEnds, broadcast_stats
<1>8. CASE StateStep \/ StatePolls \/ StatePollFails \/ StatePollAnswers
  BY <1>8, Zenon DEF StateStep, StatePolls, StatePollFails, StatePollAnswers, StateSets, StateSends,
                     StateEnds, StateMoves
<1>9. CASE ControlStep \/ ControlWakes \/ ControlChanges
  BY <1>9, Zenon DEF ControlStep, ControlChecks, ControlSets, ControlSends, ControlEnds,
                     ControlWakes, ControlChanges
<1>10. CASE \E t \in Tasks : AbortedEnds(t)
  BY <1>10, Zenon DEF AbortedEnds
<1>11. CASE RequestShutdown \/ OwnerStep
  BY <1>11, Zenon DEF RequestShutdown, OwnerStep, CancelAgent, ShutdownReturns
<1>12. CASE Stopped \/ UNCHANGED vars
  BY <1>12, Zenon DEF Stopped, vars
<1> QED
  BY <1>1, <1>2, <1>3, <1>4, <1>5, <1>6, <1>7, <1>8, <1>9, <1>10, <1>11, <1>12
     DEF Next, SupervisorStep


(* Every step keeps the other types.                                       *)
LEMMA ShapesSupervisor ==
  ASSUME TypeOK, Shapes, SupervisorStep \/ Provisioned \/ ApiStep
  PROVE  Shapes'
<1> USE DEF Shapes, LocalOK, Publishing
<1> DEFINE Others == <<source, task, control_state, last_state, local_status, todo, joined, owner>>
<1>0. ASSUME UNCHANGED Others, UNCHANGED <<cache, sent>>,
             \/ pc' \in Points /\ pub' = None
             \/ pc' \in Publishing /\ pub' \in Publication /\ pub' # None
      PROVE  Shapes'
  <2>1. Points \cap Publishing = {}
    BY DEF Points
  <2> QED
    BY <1>0, <2>1
<1>1. CASE PublishSteps
  <2>1. BeginsToPublish
    BY <1>1, PublishStep
  <2> QED
    BY <1>0, <2>1 DEF BeginsToPublish, watching, joining
<1>2. CASE SetStatus
  <2>1. pub \in Publication /\ cache' \in Published
    BY <1>2 DEF SetStatus, Published, Publication
  <2> QED
    BY <1>2, <2>1 DEF SetStatus, config, watching, joining
<1>3. CASE SetLifecycle
  <2>1. pub \in Publication /\ cache' \in Published
    BY <1>3 DEF SetLifecycle, Published, Publication
  <2> QED
    BY <1>3, <2>1 DEF SetLifecycle, config, watching, joining
<1>4. CASE SendEvents
  <2>1. pub \in Publication /\ sent' \in Published /\ pc' \in Points
    BY <1>4 DEF SendEvents, Published, Publication
  <2>2. pc' \notin Publishing
    BY <2>1 DEF Points
  <2> QED
    BY <1>4, <2>1, <2>2 DEF SendEvents, config, watching, joining
<1>5. CASE Build \/ Retry \/ Finish
  <2>1. pc \notin Publishing /\ pc' \in Points
    BY <1>5 DEF Build, Retry, Finish, Points
  <2> QED
    BY <1>0, <1>5, <2>1 DEF Build, Retry, Finish, publication, config, watching, joining
<1>6. CASE SpawnTasks
  <2>1. task' \in [Tasks -> {"ended", "running", "wait", "check", "poll", "set", "send"}]
        /\ task'["control"] = "check"
    BY <1>6 DEF SpawnTasks, Tasks
  <2>2. pub = None /\ pc' \in Points
    BY <1>6 DEF SpawnTasks, Points
  <2>3. UNCHANGED <<pub, cache, sent, source, owner>> /\ pc' = "run"
    BY <1>6 DEF SpawnTasks, publication, config
  <2>4. /\ control_state' \in {"Running", "Reconnecting"} /\ last_state' = None
        /\ local_status' = None /\ todo' \in Seq(Tasks) /\ Len(todo') <= 4 /\ joined' = {}
    BY <1>6 DEF SpawnTasks
  <2> QED
    BY <2>1, <2>2, <2>3, <2>4
<1>7. CASE StopRequested \/ AgentCompleted
  <2>1. joined' \subseteq Tasks
    BY <1>7, Zenon DEF StopRequested, AgentCompleted, Tasks
  <2>2. todo' \in Seq(Tasks) /\ Len(todo') <= 4
    BY <1>7, StopFacts, HandlesTyped, Zenon
  <2>3. \/ pc' = "cleanup" /\ pub' = None
        \/ pc' = "set_status" /\ pub' \in Publication /\ pub' # None
    BY <1>7, StopFacts
  <2>4. UNCHANGED <<cache, sent, source, task, control_state, last_state, local_status, owner>>
    BY <1>7, StopFacts DEF config, watching
  <2> QED
    BY <2>1, <2>2, <2>3, <2>4 DEF Points
<1>8. CASE Join
  <2>1. Head(todo) \in Tasks /\ Tail(todo) \in Seq(Tasks) /\ Len(Tail(todo)) <= 4
    BY <1>8 DEF Join
  <2>2. todo' \in Seq(Tasks) /\ Len(todo') <= 4 /\ joined' \subseteq Tasks
    BY <1>8, <2>1 DEF Join
  <2>3. pub = None /\ pub' = None /\ pc' \in {"cleanup", "aborting", "panicked"}
    BY <1>8 DEF Join, publication
  <2>4. UNCHANGED <<cache, sent, source, task, control_state, last_state, local_status, owner>>
    BY <1>8 DEF Join, publication, config, watching
  <2> QED
    BY <2>2, <2>3, <2>4 DEF Points
<1>9. CASE CleanupTimesOut
  <2>1. pub = None /\ pub' = None /\ pc' = "aborting" /\ todo' = Handles
    BY <1>9 DEF CleanupTimesOut, publication
  <2>2. UNCHANGED <<cache, sent, source, task, control_state, last_state, local_status, joined,
                    owner>>
    BY <1>9 DEF CleanupTimesOut, publication, config, watching
  <2> QED
    BY <2>1, <2>2, HandlesTyped DEF Points
<1>10. CASE CleanedUp
  <2>1. \/ pc' = "finish" /\ pub' = None
        \/ pc' = "set_status" /\ pub' \in Publication /\ pub' # None
    BY <1>10, CleanedUpFacts
  <2>2. UNCHANGED Others /\ UNCHANGED <<cache, sent>>
    BY <1>10, CleanedUpFacts DEF config, watching, joining
  <2> QED
    BY <1>0, <2>1, <2>2 DEF Points
<1> QED
  BY <1>1, <1>2, <1>3, <1>4, <1>5, <1>6, <1>7, <1>8, <1>9, <1>10
     DEF SupervisorStep, ApiStep, PublishSteps


TaskSteps ==
  \/ AgentEnds \/ broadcast_stats
  \/ StateStep \/ StatePolls \/ StatePollFails \/ StatePollAnswers
  \/ ControlStep \/ ControlWakes \/ ControlChanges
  \/ \E t \in Tasks : AbortedEnds(t)
OwnerSteps == RequestShutdown \/ OwnerStep \/ UNCHANGED vars

(* What a task of the agent may change: its own place, the part of the     *)
(* cache and of the events that it publishes, what it watches.             *)
MovesTo(t, places) == \E place \in places : task' = [task EXCEPT ![t] = place]
StateMove ==
  /\ MovesTo("state", {"wait", "poll", "set", "send", "ended"}) /\ task["state"] # "ended"
  /\ UNCHANGED watching
  /\ \/ task["state"] # "send" /\ task'["state"] # "send" /\ UNCHANGED <<cache, sent>>
     \/ /\ task["state"] # "send" /\ task'["state"] = "send"
        /\ cache' = [cache EXCEPT !.lifecycle = "Running"] /\ UNCHANGED sent
     \/ /\ task["state"] = "send" /\ task'["state"] # "send"
        /\ sent' = [sent EXCEPT !.lifecycle = "Running"] /\ UNCHANGED cache
ControlMove ==
  /\ MovesTo("control", {"wait", "check", "set", "send", "ended"}) /\ task["control"] # "ended"
  /\ UNCHANGED control_state
  /\ \/ /\ task["control"] # "send" /\ task'["control"] \notin {"set", "send"}
        /\ UNCHANGED <<cache, sent, last_state, local_status>>
     \/ /\ task["control"] = "check" /\ task'["control"] = "set"
        /\ local_status' = MkStatus(control_state, cache.status.has_secret)
        /\ UNCHANGED <<cache, sent, last_state>>
     \/ /\ task["control"] = "set" /\ task'["control"] = "send"
        /\ cache' = [cache EXCEPT !.status = local_status]
        /\ UNCHANGED <<sent, last_state, local_status>>
     \/ /\ task["control"] = "send" /\ task'["control"] = "wait"
        /\ sent' = [sent EXCEPT !.status = local_status]
        /\ last_state' = local_status.phase /\ local_status' = None /\ UNCHANGED cache
OtherMove ==
  /\ UNCHANGED <<cache, sent, last_state, local_status>>
  /\ \/ /\ \E t \in {"agent", "stats"} : MovesTo(t, {"ended"}) /\ task[t] # "ended"
        /\ UNCHANGED control_state
     \/ control_state' \in {"Running", "Reconnecting"} /\ UNCHANGED task

LEMMA TaskFacts ==
  ASSUME Shapes, TaskSteps
  PROVE  /\ UNCHANGED <<pc, pub, config, tokens, joining, owner>>
         /\ StateMove \/ ControlMove \/ OtherMove
<1>0. task \in [Tasks -> {"ended", "running", "wait", "check", "poll", "set", "send"}]
  BY DEF Shapes
<1>1. UNCHANGED <<pc, pub, config, tokens, joining, owner>>
  BY Zenon DEF TaskSteps, AgentEnds, broadcast_stats, StateStep, StatePolls, StatePollFails,
         StatePollAnswers, StateSets, StateSends, StateEnds, StateMoves, ControlStep, ControlChecks,
         ControlSets, ControlSends, ControlEnds, ControlWakes, ControlChanges, AbortedEnds,
         publication
<1>2. CASE AgentEnds \/ broadcast_stats
  BY <1>2 DEF AgentEnds, broadcast_stats, Alive, publication, watching, OtherMove, MovesTo
<1>3. CASE StatePolls \/ StatePollFails \/ StatePollAnswers \/ StateEnds
  BY <1>0, <1>3 DEF StatePolls, StatePollFails, StatePollAnswers, StateEnds, StateMoves, StateMove,
                    MovesTo, Tasks
<1>4. CASE StateSets \/ StateSends
  BY <1>0, <1>4 DEF StateSets, StateSends, StateMoves, StateMove, MovesTo, Tasks
<1>5. CASE ControlChecks
  BY <1>0, <1>5 DEF ControlChecks, ControlMove, MovesTo, Tasks, publication
<1>6. CASE ControlSets \/ ControlSends
  BY <1>0, <1>6 DEF ControlSets, ControlSends, ControlMove, MovesTo, Tasks, publication, watching
<1>7. CASE ControlWakes \/ ControlEnds
  BY <1>0, <1>7 DEF ControlWakes, ControlEnds, ControlMove, MovesTo, Tasks, publication, watching
<1>8. CASE ControlChanges
  BY <1>8 DEF ControlChanges, OtherMove, publication
<1>9. ASSUME NEW t \in Tasks, AbortedEnds(t) PROVE StateMove \/ ControlMove \/ OtherMove
  <2>1. UNCHANGED <<cache, sent, control_state, last_state, local_status>>
    BY <1>9 DEF AbortedEnds, publication, watching
  <2>2. task' = [task EXCEPT ![t] = "ended"] /\ task[t] \notin {"ended", "send"}
    BY <1>9 DEF AbortedEnds, Alive
  <2>3. CASE t = "state"
    BY <1>0, <2>1, <2>2, <2>3 DEF StateMove, MovesTo, Tasks, watching
  <2>4. CASE t = "control"
    BY <1>0, <2>1, <2>2, <2>4 DEF ControlMove, MovesTo, Tasks
  <2>5. CASE t \in {"agent", "stats"}
    BY <2>1, <2>2, <2>5, Zenon DEF OtherMove, MovesTo
  <2> QED
    BY <2>3, <2>4, <2>5 DEF Tasks
<1> QED
  BY <1>1, <1>2, <1>3, <1>4, <1>5, <1>6, <1>7, <1>8, <1>9 DEF TaskSteps, StateStep, ControlStep

(* Every step of a task keeps the types.                                   *)
LEMMA ShapesTasks ==
  ASSUME Shapes, TaskSteps
  PROVE  Shapes'
<1>0. UNCHANGED <<pc, pub, source, todo, joined, owner>>
  BY TaskFacts DEF config, joining
<1> USE DEF Shapes, LocalOK, Tasks
<1>1. CASE StateMove
  <2>1. cache' \in Published /\ sent' \in Published
    BY <1>1 DEF StateMove, Published, Lifecycles, Phases
  <2> QED
    BY <1>0, <1>1, <2>1 DEF StateMove, MovesTo, watching
<1>2. CASE ControlMove
  <2>1. /\ task' \in [Tasks -> {"ended", "running", "wait", "check", "poll", "set", "send"}]
        /\ UNCHANGED control_state
    BY <1>2 DEF ControlMove, MovesTo
  <2>2. CASE task'["control"] \notin {"set", "send"} /\ UNCHANGED <<cache, sent, last_state, local_status>>
    BY <1>0, <2>1, <2>2
  <2>3. CASE /\ local_status' = MkStatus(control_state, cache.status.has_secret)
             /\ UNCHANGED <<cache, sent, last_state>>
    <3>1. local_status' \in [phase : {"Running", "Reconnecting"}, has_secret : BOOLEAN]
      BY <2>3 DEF MkStatus, Published, Status
    <3>2. local_status' \in Status
      BY <3>1 DEF Status, Phases
    <3> QED
      BY <1>0, <2>1, <2>3, <3>1, <3>2
  <2>4. CASE /\ task["control"] = "set"
             /\ cache' = [cache EXCEPT !.status = local_status]
             /\ UNCHANGED <<sent, last_state, local_status>>
    <3>1. local_status \in Status
      BY <2>4 DEF Status, Phases
    <3>2. cache' \in Published
      BY <2>4, <3>1 DEF Published
    <3> QED
      BY <1>0, <2>1, <2>4, <3>2
  <2>5. CASE /\ task["control"] = "send" /\ task'["control"] = "wait"
             /\ sent' = [sent EXCEPT !.status = local_status]
             /\ last_state' = local_status.phase /\ local_status' = None /\ UNCHANGED cache
    <3>1. local_status \in Status /\ local_status.phase \in {"Running", "Reconnecting"}
      BY <2>5 DEF Status, Phases
    <3>2. sent' \in Published
      BY <2>5, <3>1 DEF Published
    <3> QED
      BY <1>0, <2>1, <2>5, <3>1, <3>2
  <2> QED
    BY <1>2, <2>2, <2>3, <2>4, <2>5 DEF ControlMove
<1>3. CASE OtherMove
  BY <1>0, <1>3 DEF OtherMove, MovesTo
<1> QED
  BY <1>1, <1>2, <1>3, TaskFacts

LEMMA ShapesOwner == ASSUME Shapes, OwnerSteps PROVE Shapes'
BY DEF OwnerSteps, RequestShutdown, OwnerStep, CancelAgent, ShutdownReturns, Shapes, LocalOK,
       vars, publication, config, watching, joining

(* Flags and shapes together.                                              *)
LEMMA TypesStep == TypeOK /\ LocalOK /\ [Next]_vars => TypeOK' /\ LocalOK'
<1> SUFFICES ASSUME TypeOK, LocalOK, [Next]_vars PROVE TypeOK' /\ LocalOK'
  OBVIOUS
<1>1. Flags /\ Shapes
  BY TypeParts
<1>2. Flags'
  BY <1>1, FlagsStep
<1>3. Shapes'
  BY <1>1, ShapesSupervisor, ShapesTasks, ShapesOwner DEF Next, TaskSteps, OwnerSteps, Stopped
<1> QED
  BY <1>2, <1>3 DEF TypeOK, Flags, Shapes


(* A step of the supervisor keeps the tasks awaited.                       *)
LEMMA TasksSupervisor ==
  ASSUME TypeOK, Shapes, TasksOK, SupervisorStep \/ Provisioned \/ ApiStep
  PROVE  TasksOK'
<1> DEFINE NoneAlive == \A t \in Tasks : ~Alive(t)
<1>0. pc \in Publishing <=> pub # None
  BY DEF Shapes
<1>1. ASSUME NoneAlive', pub' # None => pub'.next # "cleanup"
      PROVE  TasksOK'
  BY <1>1 DEF TasksOK, NoStaleAgent
<1>2. CASE PublishSteps
  <2>1. BeginsToPublish
    BY <1>2, PublishStep
  <2>2. NoneAlive
    BY <1>0, <2>1 DEF BeginsToPublish, TasksOK, NoStaleAgent, Idle, Publishing
  <2> QED
    BY <1>1, <2>1, <2>2 DEF BeginsToPublish, Alive
<1>3. CASE SetStatus \/ SetLifecycle
  <2>1. pc \in Publishing /\ pc' \in Publishing /\ UNCHANGED <<pub, cancel, task, todo>>
    BY <1>3 DEF SetStatus, SetLifecycle, Publishing, tokens, joining
  <2>2. pc \notin {"run", "cleanup", "aborting", "panicked"}
        /\ pc' \notin {"run", "cleanup", "aborting", "panicked"}
    BY <2>1 DEF Publishing
  <2> QED
    BY <2>1, <2>2 DEF TasksOK, NoStaleAgent, Cleaning, Alive, Awaited
<1>4. CASE SendEvents
  <2>1. pc = "send" /\ pub # None /\ pc' = pub.next /\ pub' = None
    BY <1>0, <1>4 DEF SendEvents, Publishing
  <2>2. UNCHANGED <<cancel, task, todo>>
    BY <1>4 DEF SendEvents, tokens, joining
  <2>3. CASE pub.next = "cleanup"
    BY <2>1, <2>2, <2>3 DEF TasksOK, NoStaleAgent, Cleaning, Alive, Awaited
  <2>4. CASE pub.next # "cleanup"
    BY <1>1, <2>1, <2>2, <2>4 DEF TasksOK, NoStaleAgent, Alive
  <2> QED
    BY <2>3, <2>4
<1>5. CASE Build \/ Retry \/ Finish
  <2>1. pc \in {"build", "limit", "retry", "finish"} /\ UNCHANGED <<pub, task>>
    BY <1>5 DEF Build, Retry, Finish, publication
  <2>2. pub = None /\ NoneAlive
    BY <1>0, <2>1 DEF TasksOK, NoStaleAgent, Publishing
  <2> QED
    BY <1>1, <2>1, <2>2 DEF Alive
<1>6. CASE SpawnTasks
  <2>1. pub' = None /\ pc' = "run"
    BY <1>0, <1>6 DEF SpawnTasks, publication, Publishing
  <2> QED
    BY <2>1 DEF TasksOK, NoStaleAgent, Cleaning
<1>7. CASE StopRequested \/ AgentCompleted
  <2>1. \A t \in Tasks : Alive(t) => \E k \in 1 .. Len(todo') : todo'[k] = t
    <3>1. CASE todo' = Handles
      BY <3>1, HandlesCover DEF Handles
    <3>2. CASE todo' = Tail(Handles)
      <4>1. ~Alive("agent")
        BY <1>7, <3>2, StopFacts
      <4>2. Len(Tail(Handles)) = 3
        BY DEF Handles
      <4> QED
        BY <3>2, <4>1, <4>2, HandlesCover, Zenon
    <3> QED
      BY <1>7, <3>1, <3>2, StopFacts
  <2>2. UNCHANGED <<cancel, task>>
    BY <1>7, StopFacts
  <2>3. \A t \in Tasks : Alive(t)' => Awaited(t)'
    BY <2>1, <2>2 DEF Alive, Awaited
  <2>4. \/ cancel' /\ pub' # None /\ pub'.next = "cleanup"
        \/ pc' = "cleanup" /\ pub' = None
    BY <1>0, <1>7, <2>2, StopFacts DEF Publishing
  <2> QED
    BY <2>3, <2>4 DEF TasksOK, NoStaleAgent
<1>8. CASE Join
  <2>1. pc \in {"cleanup", "aborting"} /\ pub' = None /\ UNCHANGED <<task, cancel>>
    BY <1>0, <1>8 DEF Join, publication, tokens, Publishing
  <2>2. CASE pc' = "panicked"
    BY <2>1, <2>2 DEF TasksOK, NoStaleAgent, Cleaning
  <2>3. CASE /\ todo # <<>> /\ ~Alive(Head(todo)) /\ todo' = Tail(todo) /\ UNCHANGED pc
    <3>1. ASSUME NEW t \in Tasks, Alive(t) PROVE Awaited(t)'
      <4>1. PICK k \in 1 .. Len(todo) : todo[k] = t
        BY <2>1, <3>1 DEF TasksOK, Cleaning, Awaited
      <4>2. todo \in Seq(Tasks) /\ todo # <<>>
        BY <2>3 DEF Shapes
      <4>3. k # 1
        BY <2>3, <3>1, <4>1, <4>2
      <4>4. k - 1 \in 1 .. Len(Tail(todo)) /\ Tail(todo)[k - 1] = t
        BY <4>1, <4>2, <4>3
      <4> QED
        BY <2>3, <4>4 DEF Awaited
    <3> QED
      BY <2>1, <2>3, <3>1 DEF TasksOK, NoStaleAgent, Cleaning, Alive
  <2> QED
    BY <1>8, <2>2, <2>3 DEF Join
<1>9. CASE CleanupTimesOut
  <2>1. pc' = "aborting" /\ pub' = None /\ todo' = Handles
    BY <1>0, <1>9 DEF CleanupTimesOut, publication, Publishing
  <2>2. \A t \in Tasks : Awaited(t)'
    BY <2>1, HandlesCover DEF Awaited, Handles
  <2> QED
    BY <2>1, <2>2 DEF TasksOK, NoStaleAgent
<1>10. CASE CleanedUp
  <2>1. NoneAlive
    <3>1. pc \in {"cleanup", "aborting"} /\ todo = <<>>
      BY <1>10, CleanedUpFacts
    <3>2. 1 .. Len(todo) = {}
      BY <3>1
    <3> QED
      BY <3>1, <3>2 DEF TasksOK, Cleaning, Awaited
  <2>2. pub' # None => pub'.next # "cleanup"
    BY <1>0, <1>10, CleanedUpFacts DEF Publishing
  <2> QED
    BY <1>1, <1>10, <2>1, <2>2, CleanedUpFacts DEF Alive
<1> QED
  BY <1>2, <1>3, <1>4, <1>5, <1>6, <1>7, <1>8, <1>9, <1>10
     DEF SupervisorStep, ApiStep, PublishSteps

(* No task comes to life by itself.                                        *)
LEMMA TasksTasks ==
  ASSUME Shapes, TasksOK, TaskSteps
  PROVE  TasksOK'
<1>1. UNCHANGED <<pc, pub, cancel, todo>>
  BY TaskFacts DEF tokens, joining
<1>2. \A t \in Tasks : Alive(t)' => Alive(t)
  BY TaskFacts DEF Shapes, StateMove, ControlMove, OtherMove, MovesTo, Alive
<1> QED
  BY <1>1, <1>2 DEF TasksOK, NoStaleAgent, Cleaning, Awaited

LEMMA TasksOwner == ASSUME TasksOK, OwnerSteps PROVE TasksOK'
<1>1. UNCHANGED <<pc, pub, task, todo>> /\ (cancel => cancel')
  <2>1. CASE RequestShutdown
    BY <2>1 DEF RequestShutdown, publication, joining
  <2>2. CASE OwnerStep
    BY <2>2 DEF OwnerStep, CancelAgent, ShutdownReturns, publication, joining, tokens
  <2>3. CASE UNCHANGED vars
    BY <2>3 DEF vars, publication, joining, tokens
  <2> QED
    BY <2>1, <2>2, <2>3 DEF OwnerSteps
<1> QED
  BY <1>1 DEF TasksOK, NoStaleAgent, Cleaning, Awaited, Alive

(* Outside a shutdown, no task is alive while the supervisor publishes.    *)
LEMMA AloneWhenPublishing ==
  ASSUME Shapes, TasksOK, pub # None, ~cancel
  PROVE  \A t \in Tasks : task[t] = "ended"
<1>1. pc \in Publishing /\ pub.next # "cleanup"
  BY DEF Shapes, TasksOK
<1> QED
  BY <1>1 DEF TasksOK, NoStaleAgent, Alive, Publishing

(* A step of the supervisor keeps the events behind the cache.             *)
LEMMA EventsSupervisor ==
  ASSUME TypeOK, Shapes, TasksOK, EventsOK, SupervisorStep \/ Provisioned \/ ApiStep
  PROVE  EventsOK'
<1>0. pc \in Publishing <=> pub # None
  BY DEF Shapes
<1> SUFFICES ASSUME ~cancel' PROVE EventsOK'
  BY DEF EventsOK
<1>1. CASE PublishSteps
  <2>1. BeginsToPublish
    BY <1>1, PublishStep
  <2> QED
    BY <2>1 DEF BeginsToPublish, EventsOK
<1>2. CASE SetStatus
  <2>1. /\ pub' # None /\ pc' = "set_lifecycle" /\ cache' = [cache EXCEPT !.status = pub.status]
        /\ UNCHANGED pub
    BY <1>0, <1>2 DEF SetStatus, Publishing
  <2>2. cache'.status = pub'.status
    BY <2>1 DEF Shapes, Published
  <2> QED
    BY <2>1, <2>2 DEF EventsOK
<1>3. CASE SetLifecycle
  <2>1. /\ pub' # None /\ pc = "set_lifecycle" /\ pc' = "send"
        /\ cache' = [cache EXCEPT !.lifecycle = pub.lifecycle]
        /\ UNCHANGED <<pub, cancel>>
    BY <1>0, <1>3 DEF SetLifecycle, Publishing, tokens
  <2>2. cache'.status = cache.status /\ cache'.lifecycle = pub'.lifecycle
    BY <2>1 DEF Shapes, Published
  <2>3. cache.status = pub.status
    BY <2>1 DEF EventsOK
  <2> QED
    BY <2>1, <2>2, <2>3 DEF EventsOK
<1>4. CASE SendEvents
  <2>1. /\ pub # None /\ pc = "send" /\ pc' = pub.next /\ pub' = None
        /\ sent' = [status |-> pub.status, lifecycle |-> pub.lifecycle]
        /\ UNCHANGED <<cache, task, cancel>>
    BY <1>0, <1>4 DEF SendEvents, Publishing, tokens
  <2>2. task["state"] = "ended" /\ task["control"] = "ended"
    BY <2>1, AloneWhenPublishing DEF Tasks
  <2>3. cache.status = sent'.status /\ cache.lifecycle = sent'.lifecycle
    BY <2>1 DEF EventsOK
  <2>4. pc' \notin {"set_lifecycle", "send"}
    BY <2>1 DEF Shapes, Publication, Points
  <2> QED
    BY <2>1, <2>2, <2>3, <2>4 DEF EventsOK
<1>5. CASE Build \/ Retry \/ Finish
  BY <1>5 DEF Build, Retry, Finish, publication, watching, tokens, EventsOK
<1>6. CASE SpawnTasks
  <2>1. /\ pc = "run_agent" /\ pc' = "run" /\ UNCHANGED <<pub, cache, sent, cancel>>
        /\ pub = None
    BY <1>0, <1>6 DEF SpawnTasks, publication, Publishing
  <2>2. task'["state"] # "send" /\ task'["control"] # "send"
    BY <1>6 DEF SpawnTasks, Tasks
  <2>3. task["state"] # "send" /\ task["control"] # "send"
    BY <2>1 DEF TasksOK, NoStaleAgent, Alive, Tasks
  <2> QED
    BY <2>1, <2>2, <2>3 DEF EventsOK
<1>7. CASE StopRequested \/ AgentCompleted
  <2>1. pc' = "cleanup" /\ UNCHANGED <<pub, cache, sent, cancel, task, watching>>
    BY <1>7, StopFacts
  <2> QED
    BY <2>1 DEF EventsOK, watching
<1>8. CASE Join
  <2>1. /\ UNCHANGED <<pub, cache, sent, cancel, task, watching>>
        /\ pc' \in {"cleanup", "aborting", "panicked"}
    BY <1>8 DEF Join, publication, tokens
  <2> QED
    BY <2>1 DEF EventsOK, watching
<1>9. CASE CleanupTimesOut
  <2>1. UNCHANGED <<pub, cache, sent, cancel, task, watching>> /\ pc' = "aborting"
    BY <1>9 DEF CleanupTimesOut, publication, tokens
  <2> QED
    BY <2>1 DEF EventsOK, watching
<1>10. CASE CleanedUp
  <2>1. /\ UNCHANGED <<cache, sent, cancel, task, watching>>
        /\ (pc' = "finish" /\ UNCHANGED pub) \/ (pc' = "set_status" /\ pub' # None)
    BY <1>10, CleanedUpFacts
  <2> QED
    BY <2>1 DEF EventsOK, watching
<1> QED
  BY <1>1, <1>2, <1>3, <1>4, <1>5, <1>6, <1>7, <1>8, <1>9, <1>10
     DEF SupervisorStep, ApiStep, PublishSteps

(* A task that publishes does so while the supervisor does not.            *)
LEMMA EventsTasks ==
  ASSUME Shapes, TasksOK, EventsOK, TaskSteps
  PROVE  EventsOK'
<1>1. UNCHANGED <<pc, pub, cancel>> /\ (pc \in Publishing <=> pub # None)
  BY TaskFacts DEF tokens, Shapes
<1>2. /\ cache \in Published /\ sent \in Published /\ DOMAIN task = Tasks
      /\ "state" \in Tasks /\ "control" \in Tasks
  BY DEF Shapes, Tasks
<1>3. CASE cancel
  BY <1>1, <1>3 DEF EventsOK
<1>4. CASE ~cancel /\ pub # None
  <2>1. OtherMove /\ UNCHANGED <<cache, sent>>
    BY <1>4, AloneWhenPublishing, TaskFacts DEF StateMove, ControlMove, OtherMove, Tasks
  <2> QED
    BY <1>1, <1>4, <2>1 DEF EventsOK
<1>5. CASE ~cancel /\ pub = None
  <2>1. pc' \notin {"set_lifecycle", "send"} /\ pub' = None
    BY <1>1, <1>5 DEF Publishing
  <2>2. CASE StateMove
    <3>1. task'["control"] = task["control"] /\ UNCHANGED local_status
      BY <1>2, <2>2 DEF StateMove, MovesTo, watching
    <3>2. /\ task'["state"] # "send" => cache'.lifecycle = sent'.lifecycle
          /\ task'["state"] = "send" => cache'.lifecycle = "Running"
          /\ cache'.status = cache.status /\ sent'.status = sent.status
      BY <1>2, <1>5, <2>2 DEF StateMove, EventsOK, Published
    <3> QED
      BY <1>5, <2>1, <3>1, <3>2 DEF EventsOK
  <2>3. CASE ControlMove
    <3>1. task'["state"] = task["state"]
      BY <1>2, <2>3 DEF ControlMove, MovesTo
    <3>2. /\ task'["control"] # "send" => cache'.status = sent'.status
          /\ task'["control"] = "send" => cache'.status = local_status'
          /\ cache'.lifecycle = cache.lifecycle /\ sent'.lifecycle = sent.lifecycle
      BY <1>2, <1>5, <2>3 DEF ControlMove, EventsOK, Published
    <3> QED
      BY <1>5, <2>1, <3>1, <3>2 DEF EventsOK
  <2>4. CASE OtherMove
    <3>1. /\ task'["state"] = task["state"] /\ task'["control"] = task["control"]
          /\ UNCHANGED <<cache, sent, local_status>>
      BY <1>2, <2>4 DEF OtherMove, MovesTo
    <3> QED
      BY <1>5, <2>1, <3>1 DEF EventsOK
  <2> QED
    BY <2>2, <2>3, <2>4, TaskFacts
<1> QED
  BY <1>3, <1>4, <1>5


LEMMA EventsOwner == ASSUME EventsOK, OwnerSteps PROVE EventsOK'
<1>1. UNCHANGED <<pc, pub, cache, sent, task, local_status>>
  BY DEF OwnerSteps, RequestShutdown, OwnerStep, CancelAgent, ShutdownReturns, vars,
         publication, watching
<1>2. ~cancel' => ~cancel
  <2>1. CASE RequestShutdown
    BY <2>1 DEF RequestShutdown
  <2>2. CASE OwnerStep
    BY <2>2 DEF OwnerStep, CancelAgent, ShutdownReturns, tokens
  <2>3. CASE UNCHANGED vars
    BY <2>3 DEF vars, tokens
  <2> QED
    BY <2>1, <2>2, <2>3 DEF OwnerSteps
<1> QED
  BY <1>1, <1>2 DEF EventsOK

(* The supervisor announces that it waits only on its way there.           *)
LEMMA WaitingSupervisor ==
  ASSUME TypeOK, Shapes, WaitingOK, SupervisorStep \/ Provisioned \/ ApiStep
  PROVE  WaitingOK'
<1>0. (pc \in Publishing <=> pub # None) /\ cache \in Published
  BY DEF Shapes
<1>1. CASE PublishSteps
  <2>1. BeginsToPublish
    BY <1>1, PublishStep
  <2>2. pc' = "set_status" /\ pub' # None /\ UNCHANGED cache /\ pub'.next # "load"
    BY <2>1 DEF BeginsToPublish
  <2>3. ~api => ~api'
    BY <2>1 DEF BeginsToPublish
  <2>4. cache.lifecycle = "WaitingForSecret" => ~api'
    BY <2>3 DEF WaitingOK, WaitingIsServed
  <2>5. pub'.next \in {"wait_for_secret", "await_secret"} => ~api'
    BY <2>1 DEF BeginsToPublish, WaitingOK
  <2>6. pub'.lifecycle = "WaitingForSecret" => pub'.next = "await_secret"
    BY <2>1 DEF BeginsToPublish
  <2> QED
    BY <2>2, <2>4, <2>5, <2>6 DEF WaitingOK, WaitingIsServed, Publishing
<1>2. CASE SetStatus
  <2>1. /\ pc' = "set_lifecycle" /\ UNCHANGED <<pub, api>>
        /\ cache'.lifecycle = cache.lifecycle
    BY <1>0, <1>2 DEF SetStatus, config, Published
  <2> QED
    BY <2>1 DEF WaitingOK, WaitingIsServed, Publishing
<1>3. CASE SetLifecycle
  <2>1. /\ pc' = "send" /\ UNCHANGED <<pub, api>> /\ pub # None
        /\ cache'.lifecycle = pub.lifecycle
    BY <1>0, <1>3 DEF SetLifecycle, config, Published, Publishing
  <2> QED
    BY <2>1 DEF WaitingOK, WaitingIsServed, Publishing
<1>4. CASE SendEvents
  <2>1. pc = "send" /\ pc' = pub.next /\ UNCHANGED <<cache, api>> /\ pub # None /\ pub' = None
    BY <1>0, <1>4 DEF SendEvents, config, Publishing
  <2>2. pc' \in Points
    BY <2>1 DEF Shapes, Publication
  <2> QED
    BY <2>1, <2>2 DEF WaitingOK, WaitingIsServed, Points
<1>5. CASE Build \/ Retry \/ Finish \/ SpawnTasks \/ Join \/ CleanupTimesOut
  <2>1. /\ UNCHANGED <<pub, cache>> /\ pub = None
        /\ pc \in {"build", "limit", "retry", "finish", "run_agent", "cleanup", "aborting"}
        /\ pc' \in {"rundata", "build", "done", "run", "cleanup", "aborting", "panicked"}
    BY <1>0, <1>5 DEF Build, Retry, Finish, SpawnTasks, Join, CleanupTimesOut, publication, Publishing
  <2>2. cache.lifecycle # "WaitingForSecret"
    BY <2>1 DEF WaitingOK, WaitingIsServed, Publishing
  <2> QED
    BY <2>1, <2>2 DEF WaitingOK, WaitingIsServed
<1>6. CASE StopRequested \/ AgentCompleted \/ CleanedUp
  <2>1. /\ UNCHANGED cache /\ pc \in {"run", "cleanup", "aborting"} /\ pc' # "send"
        /\ pc' \notin {"load", "wait_for_secret", "await_secret"}
        /\ \/ pub' = None
           \/ pub'.next \in {"finish", "retry", "cleanup"} /\ pub'.lifecycle # "WaitingForSecret"
    BY <1>0, <1>6, StopFacts, CleanedUpFacts DEF Publishing
  <2>2. cache.lifecycle # "WaitingForSecret"
    BY <2>1 DEF WaitingOK, WaitingIsServed, Publishing
  <2> QED
    BY <2>1, <2>2 DEF WaitingOK, WaitingIsServed
<1> QED
  BY <1>1, <1>2, <1>3, <1>4, <1>5, <1>6 DEF SupervisorStep, ApiStep, PublishSteps

LEMMA WaitingOthers ==
  ASSUME Shapes, WaitingOK, TaskSteps \/ OwnerSteps
  PROVE  WaitingOK'
<1>1. UNCHANGED <<pc, pub, api>> /\ (UNCHANGED cache \/ cache'.lifecycle \in {cache.lifecycle, "Running"})
  <2>1. CASE TaskSteps
    BY <2>1, TaskFacts DEF StateMove, ControlMove, OtherMove, config, Shapes, Published
  <2>2. CASE OwnerSteps
    BY <2>2 DEF OwnerSteps, RequestShutdown, OwnerStep, CancelAgent, ShutdownReturns, vars,
                publication, config
  <2> QED
    BY <2>1, <2>2
<1> QED
  BY <1>1 DEF WaitingOK, WaitingIsServed

(***************************************************************************)
(* The inductive invariant.                                                *)
(***************************************************************************)
SupervisorInv == TypeOK /\ LocalOK /\ TasksOK /\ EventsOK /\ WaitingOK

LEMMA SupervisorInvInit == Init => SupervisorInv
<1> SUFFICES ASSUME Init PROVE SupervisorInv
  OBVIOUS
<1>1. /\ task \in [Tasks -> {"ended"}] /\ task["control"] = "ended" /\ task["state"] = "ended"
      /\ \A t \in Tasks : ~Alive(t)
  BY DEF Init, Tasks, Alive
<1>2. MkStatus("Starting", FALSE) \in Status
  BY DEF MkStatus, Status, Phases
<1>3. Flags
  BY Zenon DEF Init, Flags
<1>4. LocalOK
  BY <1>1 DEF LocalOK
<1>5. cache \in Published /\ sent \in Published
  BY <1>2, Zenon DEF Init, Published, Lifecycles, Phases
<1>6. Shapes
  BY <1>1, <1>4, <1>5 DEF Init, Shapes, Points, Publishing, Tasks
<1>7. TasksOK /\ EventsOK /\ WaitingOK
  BY <1>1, Zenon DEF Init, TasksOK, NoStaleAgent, EventsOK, WaitingOK, WaitingIsServed
<1> QED
  BY <1>3, <1>6, <1>7, TypeParts DEF SupervisorInv

LEMMA SupervisorInvInductive == SupervisorInv /\ [Next]_vars => SupervisorInv'
<1> SUFFICES ASSUME SupervisorInv, [Next]_vars PROVE SupervisorInv'
  OBVIOUS
<1>1. Shapes /\ TypeOK /\ LocalOK /\ TasksOK /\ EventsOK /\ WaitingOK
  BY TypeParts DEF SupervisorInv
<1>2. TypeOK' /\ LocalOK'
  BY <1>1, TypesStep
<1>3. SupervisorStep \/ Provisioned \/ ApiStep \/ TaskSteps \/ OwnerSteps
  BY DEF Next, TaskSteps, OwnerSteps, Stopped
<1>4. TasksOK'
  BY <1>1, <1>3, TasksSupervisor, TasksTasks, TasksOwner
<1>5. EventsOK'
  BY <1>1, <1>3, EventsSupervisor, EventsTasks, EventsOwner
<1>6. WaitingOK'
  BY <1>1, <1>3, WaitingSupervisor, WaitingOthers
<1> QED
  BY <1>2, <1>4, <1>5, <1>6 DEF SupervisorInv

LEMMA SupervisorInvHolds == Spec => []SupervisorInv
BY SupervisorInvInit, SupervisorInvInductive, PTL DEF Spec

(* The supervisor, the tasks of its agent and the owner of the runtime     *)
(* keep every variable within its type (runtime.rs).                       *)
THEOREM SupervisorTypeCorrect == Spec => []TypeOK
<1>1. SupervisorInv => TypeOK
  BY DEF SupervisorInv
<1> QED
  BY <1>1, SupervisorInvHolds, PTL

(* run_agent awaits or aborts and awaits every task it spawned before the  *)
(* supervisor announces anything else or builds the next agent.            *)
THEOREM NoAgentOutlivesItsRun == Spec => []NoStaleAgent
<1>1. SupervisorInv => NoStaleAgent
  BY DEF SupervisorInv, TasksOK
<1> QED
  BY <1>1, SupervisorInvHolds, PTL

(* publish_state, broadcast_agent_state and broadcast_control_state leave  *)
(* the cache and the last events equal whenever none of them is between    *)
(* its write and its event, unless the runtime is shutting down.           *)
THEOREM EventsAgreeWithCache == Spec => []EventsMatchCache
<1>1. Shapes /\ EventsOK => EventsMatchCache
  <2> SUFFICES ASSUME Shapes, EventsOK, pub = None, task["state"] # "send",
                      task["control"] # "send", ~cancel
               PROVE  cache = sent
    BY Zenon DEF EventsMatchCache
  <2>1. cache.status = sent.status /\ cache.lifecycle = sent.lifecycle
    BY DEF EventsOK
  <2> QED
    BY <2>1 DEF Shapes, Published
<1>2. SupervisorInv => EventsMatchCache
  BY <1>1, TypeParts DEF SupervisorInv
<1> QED
  BY <1>2, SupervisorInvHolds, PTL

(* Whoever reads the lifecycle WaitingForSecret finds a supervisor that    *)
(* takes the secret, and no api with the old one (runtime.rs).             *)
THEOREM WaitingIsAlwaysServed == Spec => []WaitingIsServed
<1>1. SupervisorInv => WaitingIsServed
  BY DEF SupervisorInv, WaitingOK
<1> QED
  BY <1>1, SupervisorInvHolds, PTL

=============================================================================
