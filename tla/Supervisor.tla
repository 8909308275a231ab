----------------------------- MODULE Supervisor -----------------------------
(***************************************************************************)
(* The supervisor of the runtime (playit-runtime/src/runtime.rs), the four *)
(* tasks of a running agent, and the owner that shuts the runtime down.    *)
(* An action is what a task does between two awaits.  The supervisor and   *)
(* two of the agent's tasks publish: they write the state cache and send   *)
(* an event, in steps of their own, without a lock over both.              *)
(*                                                                         *)
(* A status is its phase and has_secret; sent holds the last status and    *)
(* the last lifecycle that were sent as events.  Secrets, tunnels and      *)
(* statistics are not represented.                                         *)
(***************************************************************************)
EXTENDS Naturals, Sequences

CONSTANT None

Tasks == {"agent", "stats", "state", "control"}

VARIABLES
  pc,             \* where the supervisor is
  pub,            \* what it is publishing, and where it goes on
  cache,          \* StateCache: status and lifecycle
  sent,           \* the last events of each kind
  source,         \* SecretSource: "file" or "inline"
  api,            \* RuntimeInner.api is set
  cancel,         \* the runtime's token is cancelled
  agent_slot,     \* RuntimeInner.agent_cancel is set
  agent_token,    \* the token of the agent is cancelled
  task,           \* where each task of the agent is
  control_state,  \* the watch channel of the control connection
  last_state,     \* the value broadcast_control_state published last
  local_status,   \* the status it is about to publish
  todo,           \* JoinHandles run_agent still has to await
  joined,         \* JoinHandles that have been polled to completion
  aborted,        \* the tasks have been aborted
  unexpected,     \* why run_agent is stopping
  owner           \* where the owner of the runtime is

publication == <<pub, cache, sent>>
tokens == <<cancel, agent_slot, agent_token>>
watching == <<control_state, last_state, local_status>>
joining == <<todo, joined, aborted, unexpected>>
config == <<source, api>>
vars == <<pc, publication, config, tokens, task, watching, joining, owner>>

Phases == {"Starting", "WaitingForSecret", "HasInvalidSecret", "Running", "Reconnecting",
           "DisabledOverLimit", "Error", "Stopping"}
Lifecycles == Phases \ {"Reconnecting"}
Status == [phase : Phases, has_secret : BOOLEAN]
Published == [status : Status, lifecycle : Lifecycles]

Publishing == {"set_status", "set_lifecycle", "send"}
Points == {"load", "wait_for_secret", "await_secret", "build", "rundata", "new_agent", "limit",
           "retry", "run_agent", "run", "cleanup", "aborting", "finish", "done", "panicked"}
Publication == [status : Status, lifecycle : Lifecycles, next : Points]

(* What Option::None stands for is no value of the program.                *)
ASSUME NoneAssumption ==
  None \notin Status /\ None \notin Publication /\ None \notin {"Running", "Reconnecting"}

(* Every variable keeps to its type.                                       *)
TypeOK ==
  /\ pc \in Points \cup Publishing
  /\ pub \in Publication \cup {None}
  /\ pc \in Publishing <=> pub # None
  /\ cache \in Published /\ sent \in Published
  /\ source \in {"file", "inline"} /\ api \in BOOLEAN
  /\ cancel \in BOOLEAN /\ agent_slot \in BOOLEAN /\ agent_token \in BOOLEAN
  /\ task \in [Tasks -> {"ended", "running", "wait", "check", "poll", "set", "send"}]
  /\ control_state \in {"Running", "Reconnecting"}
  /\ last_state \in {"Running", "Reconnecting", None}
  /\ local_status \in Status \cup {None}
  /\ todo \in Seq(Tasks) /\ Len(todo) <= 4
  /\ joined \subseteq Tasks /\ aborted \in BOOLEAN /\ unexpected \in BOOLEAN
  /\ owner \in {"running", "cancelling", "waiting", "returned"}

MkStatus(phase, has_secret) == [phase |-> phase, has_secret |-> has_secret]

Alive(t) == task[t] # "ended"

(* start_with_event_sender has published Starting before it spawns the     *)
(* supervisor                                                              *)
Init ==
  /\ pc = "load" /\ pub = None
  /\ cache = [status |-> MkStatus("Starting", FALSE), lifecycle |-> "Starting"]
  /\ sent = cache
  /\ source \in {"file", "inline"} /\ api = FALSE
  /\ cancel = FALSE /\ agent_slot = FALSE /\ agent_token = FALSE
  /\ task = [t \in Tasks |-> "ended"]
  /\ control_state = "Running" /\ last_state = None /\ local_status = None
  /\ todo = <<>> /\ joined = {} /\ aborted = FALSE /\ unexpected = FALSE
  /\ owner = "running"

-----------------------------------------------------------------------------
(* RuntimeInner::publish_state, in the supervisor: two writes behind two   *)
(* locks, then the two events                                              *)

publish_state(phase, has_secret, lifecycle, next) ==
  /\ pc' = "set_status"
  /\ pub' = [status |-> MkStatus(phase, has_secret), lifecycle |-> lifecycle, next |-> next]
  /\ UNCHANGED <<cache, sent>>

SetStatus ==
  /\ pc = "set_status"
  /\ cache' = [cache EXCEPT !.status = pub.status]
  /\ pc' = "set_lifecycle"
  /\ UNCHANGED <<pub, sent, config, tokens, task, watching, joining, owner>>

SetLifecycle ==
  /\ pc = "set_lifecycle"
  /\ cache' = [cache EXCEPT !.lifecycle = pub.lifecycle]
  /\ pc' = "send"
  /\ UNCHANGED <<pub, sent, config, tokens, task, watching, joining, owner>>

SendEvents ==
  /\ pc = "send"
  /\ sent' = [status |-> pub.status, lifecycle |-> pub.lifecycle]
  /\ pc' = pub.next
  /\ pub' = None
  /\ UNCHANGED <<cache, config, tokens, task, watching, joining, owner>>

publish_starting(next) == publish_state("Starting", TRUE, "Starting", next)
publish_reconnecting(next) == publish_state("Reconnecting", TRUE, "Starting", next)
publish_stopping(has_secret, next) == publish_state("Stopping", has_secret, "Stopping", next)
publish_waiting == publish_state("WaitingForSecret", FALSE, "WaitingForSecret", "await_secret")

-----------------------------------------------------------------------------
(* run_supervisor and wait_for_secret.  An inline secret was validated     *)
(* before the supervisor started: it is neither missing nor invalid.       *)

LoadReady ==
  /\ pc = "load"
  /\ publish_starting("build")
  /\ UNCHANGED <<config, tokens, task, watching, joining, owner>>

LoadMissing ==
  /\ pc = "load" /\ source = "file"
  /\ publish_waiting
  /\ UNCHANGED <<config, tokens, task, watching, joining, owner>>

LoadInvalid ==
  /\ pc = "load" /\ source = "file"
  /\ publish_state("HasInvalidSecret", FALSE, "HasInvalidSecret", "wait_for_secret")
  /\ UNCHANGED <<config, tokens, task, watching, joining, owner>>

wait_for_secret ==
  /\ pc = "wait_for_secret"
  /\ publish_waiting
  /\ UNCHANGED <<config, tokens, task, watching, joining, owner>>

Provisioned ==
  /\ pc = "await_secret"
  /\ publish_starting("build")
  /\ UNCHANGED <<config, tokens, task, watching, joining, owner>>

ProvisioningCancelled ==
  /\ pc = "await_secret" /\ cancel
  /\ publish_stopping(FALSE, "finish")
  /\ UNCHANGED <<config, tokens, task, watching, joining, owner>>

-----------------------------------------------------------------------------
(* build_agent_with_reprovisioning                                         *)

BuildCancelled ==
  /\ pc = "build" /\ cancel
  /\ publish_stopping(TRUE, "finish")
  /\ UNCHANGED <<config, tokens, task, watching, joining, owner>>

Build ==
  /\ pc = "build" /\ ~cancel
  /\ api' = TRUE
  /\ pc' = "rundata"
  /\ UNCHANGED <<publication, source, tokens, task, watching, joining, owner>>

(* The request for the run data has no timeout and is not cancelled, and   *)
(* neither has the request for the addresses with which new_with_identity  *)
(* begins                                                                  *)
RunData ==
  /\ pc = "rundata"
  /\ publish_starting("new_agent")
  /\ UNCHANGED <<config, tokens, task, watching, joining, owner>>

AgentBuilt ==
  /\ pc = "new_agent"
  /\ publish_state("Running", TRUE, "Starting", "run_agent")
  /\ UNCHANGED <<config, tokens, task, watching, joining, owner>>

(* Mutated form: the api with the rejected secret stays in place.          *)
SecretRejected_keeps_api ==
  /\ pc = "new_agent" /\ source = "file"
  /\ publish_waiting
  /\ UNCHANGED <<config, tokens, task, watching, joining, owner>>

SecretRejected ==
  /\ pc = "new_agent" /\ source = "file"
  /\ api' = FALSE
  /\ publish_waiting
  /\ UNCHANGED <<source, tokens, task, watching, joining, owner>>

OverLimit ==
  /\ pc = "new_agent"
  /\ publish_state("DisabledOverLimit", TRUE, "DisabledOverLimit", "limit")
  /\ UNCHANGED <<config, tokens, task, watching, joining, owner>>

SetupFailsTransiently ==
  /\ pc = "new_agent"
  /\ publish_reconnecting("retry")
  /\ UNCHANGED <<config, tokens, task, watching, joining, owner>>

SetupFails ==
  /\ pc = "new_agent"
  /\ publish_state("Error", TRUE, "Error", "finish")
  /\ UNCHANGED <<config, tokens, task, watching, joining, owner>>

RetryCancelled ==
  /\ pc \in {"limit", "retry"} /\ cancel
  /\ publish_stopping(TRUE, "finish")
  /\ UNCHANGED <<config, tokens, task, watching, joining, owner>>

Retry ==
  /\ pc \in {"limit", "retry"}
  /\ pc' = "build"
  /\ UNCHANGED <<publication, config, tokens, task, watching, joining, owner>>

-----------------------------------------------------------------------------
(* run_agent                                                               *)

SpawnTasks ==
  /\ pc = "run_agent"
  /\ agent_slot' = TRUE
  /\ agent_token' = FALSE
  /\ task' = [t \in Tasks |-> CASE t = "state"   -> "wait"
                                [] t = "control" -> "check"
                                [] OTHER         -> "running"]
  /\ control_state' = "Running" /\ last_state' = None /\ local_status' = None
  /\ joined' = {} /\ aborted' = FALSE /\ todo' = <<>> /\ unexpected' = FALSE
  /\ pc' = "run"
  /\ UNCHANGED <<publication, config, cancel, owner>>

Handles == <<"agent", "stats", "state", "control">>

StopRequested ==
  /\ pc = "run" /\ cancel
  /\ agent_token' = TRUE
  /\ unexpected' = FALSE
  /\ todo' = Handles
  /\ publish_stopping(TRUE, "cleanup")
  /\ UNCHANGED <<config, cancel, agent_slot, task, watching, joined, aborted, owner>>

(* The JoinHandle of the agent is ready, and classify_agent_completion     *)
(* looks at the token of the runtime; when that is not cancelled the       *)
(* handle is not awaited again                                             *)
AgentCompleted ==
  /\ pc = "run" /\ ~Alive("agent")
  /\ joined' = {"agent"}
  /\ agent_token' = TRUE
  /\ unexpected' = ~cancel
  /\ todo' = IF cancel THEN Handles ELSE Tail(Handles)
  /\ IF cancel
     THEN publish_stopping(TRUE, "cleanup")
     ELSE pc' = "cleanup" /\ UNCHANGED publication
  /\ UNCHANGED <<config, cancel, agent_slot, task, watching, aborted, owner>>

(* Awaiting a JoinHandle: one that was polled to completion before panics  *)
Join ==
  /\ pc \in {"cleanup", "aborting"} /\ todo # <<>>
  /\ IF Head(todo) \in joined
     THEN pc' = "panicked" /\ UNCHANGED <<todo, joined>>
     ELSE /\ ~Alive(Head(todo))
          /\ joined' = joined \cup {Head(todo)}
          /\ todo' = Tail(todo)
          /\ UNCHANGED pc
  /\ UNCHANGED <<publication, config, tokens, task, watching, aborted, unexpected, owner>>

(* What can take five seconds: the agent, which has timeouts of its own    *)
(* for its tasks, and a poll of the API                                    *)
SlowCleanup == unexpected => Head(todo) = "state" /\ task["state"] = "poll"

(* Mutated form: the aborted tasks are not awaited.                        *)
CleanupTimesOut_not_awaited ==
  /\ pc = "cleanup" /\ todo # <<>>
  /\ Head(todo) \notin joined /\ Alive(Head(todo)) /\ SlowCleanup
  /\ aborted' = TRUE
  /\ todo' = <<>>
  /\ pc' = "aborting"
  /\ UNCHANGED <<publication, config, tokens, task, watching, joined, unexpected, owner>>

(* Mutated form: the cleanup has no timeout.                               *)
CleanupTimesOut_never == FALSE /\ UNCHANGED vars

(* After five seconds every task is aborted and every handle awaited again *)
CleanupTimesOut ==
  /\ pc = "cleanup" /\ todo # <<>>
  /\ Head(todo) \notin joined /\ Alive(Head(todo)) /\ SlowCleanup
  /\ aborted' = TRUE
  /\ todo' = Handles
  /\ pc' = "aborting"
  /\ UNCHANGED <<publication, config, tokens, task, watching, joined, unexpected, owner>>

CleanedUp ==
  /\ pc \in {"cleanup", "aborting"} /\ todo = <<>>
  /\ agent_slot' = FALSE
  /\ IF ~unexpected
     THEN pc' = "finish" /\ UNCHANGED publication
     ELSE IF cancel THEN publish_stopping(TRUE, "finish") ELSE publish_reconnecting("retry")
  /\ UNCHANGED <<config, cancel, agent_token, task, watching, joining, owner>>

(* supervise: request_shutdown, once run_supervisor has returned           *)
Finish ==
  /\ pc = "finish"
  /\ cancel' = TRUE
  /\ pc' = "done"
  /\ UNCHANGED <<publication, config, agent_slot, agent_token, task, watching, joining, owner>>

-----------------------------------------------------------------------------
(* The tasks of the agent                                                  *)

(* PlayitAgent::run returns when it is cancelled and when a task of its    *)
(* own ends                                                                *)
AgentEnds ==
  /\ Alive("agent")
  /\ task' = [task EXCEPT !["agent"] = "ended"]
  /\ UNCHANGED <<pc, publication, config, tokens, watching, joining, owner>>

broadcast_stats ==
  /\ task["stats"] = "running" /\ agent_token
  /\ task' = [task EXCEPT !["stats"] = "ended"]
  /\ UNCHANGED <<pc, publication, config, tokens, watching, joining, owner>>

(* broadcast_agent_state: a tick starts a poll of the API, which is not    *)
(* cancelled and has no timeout; the lifecycle Running follows it          *)
StateMoves(from, to) ==
  /\ task["state"] = from
  /\ task' = [task EXCEPT !["state"] = to]
  /\ UNCHANGED <<pc, pub, config, tokens, watching, joining, owner>>

StatePolls == ~aborted /\ StateMoves("wait", "poll") /\ UNCHANGED <<cache, sent>>
StatePollFails == ~aborted /\ StateMoves("poll", "wait") /\ UNCHANGED <<cache, sent>>
StatePollAnswers == ~aborted /\ StateMoves("poll", "set") /\ UNCHANGED <<cache, sent>>
StateSets ==
  /\ StateMoves("set", "send")
  /\ cache' = [cache EXCEPT !.lifecycle = "Running"]
  /\ UNCHANGED sent
StateSends ==
  /\ StateMoves("send", "wait")
  /\ sent' = [sent EXCEPT !.lifecycle = "Running"]
  /\ UNCHANGED cache
StateEnds == agent_token /\ StateMoves("wait", "ended") /\ UNCHANGED <<cache, sent>>

(* broadcast_control_state: phase Running or Reconnecting, as the control  *)
(* connection says, with the has_secret of the cached status               *)
ControlChanges ==
  /\ Alive("agent")
  /\ control_state' = IF control_state = "Running" THEN "Reconnecting" ELSE "Running"
  /\ UNCHANGED <<pc, publication, config, tokens, task, last_state, local_status, joining, owner>>

ControlChecks ==
  /\ task["control"] = "check"
  /\ IF last_state = control_state
     THEN task' = [task EXCEPT !["control"] = "wait"] /\ UNCHANGED local_status
     ELSE /\ task' = [task EXCEPT !["control"] = "set"]
          /\ local_status' = MkStatus(control_state, cache.status.has_secret)
  /\ UNCHANGED <<pc, publication, config, tokens, control_state, last_state, joining, owner>>

ControlSets ==
  /\ task["control"] = "set"
  /\ task' = [task EXCEPT !["control"] = "send"]
  /\ cache' = [cache EXCEPT !.status = local_status]
  /\ UNCHANGED <<pc, pub, sent, config, tokens, watching, joining, owner>>

ControlSends ==
  /\ task["control"] = "send"
  /\ task' = [task EXCEPT !["control"] = "wait"]
  /\ sent' = [sent EXCEPT !.status = local_status]
  /\ last_state' = local_status.phase
  /\ local_status' = None
  /\ UNCHANGED <<pc, pub, cache, config, tokens, control_state, joining, owner>>

ControlWakes ==
  /\ task["control"] = "wait" /\ control_state # last_state /\ ~aborted
  /\ task' = [task EXCEPT !["control"] = "check"]
  /\ UNCHANGED <<pc, publication, config, tokens, watching, joining, owner>>

ControlEnds ==
  /\ task["control"] = "wait" /\ (agent_token \/ ~Alive("agent"))
  /\ task' = [task EXCEPT !["control"] = "ended"]
  /\ UNCHANGED <<pc, publication, config, tokens, watching, joining, owner>>

(* Mutated form: an await separates the event from the write.              *)
AbortedEnds_before_event(t) ==
  /\ aborted /\ Alive(t)
  /\ task' = [task EXCEPT ![t] = "ended"]
  /\ UNCHANGED <<pc, publication, config, tokens, watching, joining, owner>>

(* An aborted task is not resumed and ends at the await it is at: there is *)
(* none between the write to the cache and the event                       *)
AbortedEnds(t) ==
  /\ aborted /\ Alive(t) /\ task[t] # "send"
  /\ task' = [task EXCEPT ![t] = "ended"]
  /\ UNCHANGED <<pc, publication, config, tokens, watching, joining, owner>>

-----------------------------------------------------------------------------
(* PlayitRuntime::shutdown: request_shutdown cancels two tokens, then the  *)
(* supervisor is awaited                                                   *)

RequestShutdown ==
  /\ owner = "running"
  /\ cancel' = TRUE
  /\ owner' = "cancelling"
  /\ UNCHANGED <<pc, publication, config, agent_slot, agent_token, task, watching, joining>>

CancelAgent ==
  /\ owner = "cancelling"
  /\ agent_token' = (agent_token \/ agent_slot)
  /\ owner' = "waiting"
  /\ UNCHANGED <<pc, publication, config, cancel, agent_slot, task, watching, joining>>

ShutdownReturns ==
  /\ owner = "waiting" /\ pc \in {"done", "panicked"}
  /\ owner' = "returned"
  /\ UNCHANGED <<pc, publication, config, tokens, task, watching, joining>>

Stopped == owner = "returned" /\ UNCHANGED vars

SupervisorStep ==
  \/ SetStatus \/ SetLifecycle \/ SendEvents
  \/ LoadReady \/ LoadMissing \/ LoadInvalid
  \/ wait_for_secret \/ ProvisioningCancelled
  \/ BuildCancelled \/ Build
  \/ RetryCancelled \/ Retry
  \/ SpawnTasks \/ StopRequested \/ AgentCompleted
  \/ Join \/ CleanupTimesOut \/ CleanedUp \/ Finish

(* What waits for an answer of the API, without a timeout                  *)
ApiStep ==
  \/ RunData
  \/ AgentBuilt \/ SecretRejected \/ OverLimit \/ SetupFailsTransiently \/ SetupFails

ControlStep == ControlChecks \/ ControlSets \/ ControlSends \/ ControlEnds
StateStep == StateSets \/ StateSends \/ StateEnds
OwnerStep == CancelAgent \/ ShutdownReturns

Next ==
  \/ SupervisorStep
  \/ Provisioned
  \/ ApiStep
  \/ AgentEnds
  \/ broadcast_stats
  \/ StateStep \/ StatePolls \/ StatePollFails \/ StatePollAnswers
  \/ ControlStep \/ ControlWakes \/ ControlChanges
  \/ \E t \in Tasks : AbortedEnds(t)
  \/ RequestShutdown \/ OwnerStep
  \/ Stopped

Spec == Init /\ [][Next]_vars

(* The tasks run, and the five seconds of the cleanup pass whatever they   *)
(* do.  Nothing says that a request to the API is answered (ApiStep, the   *)
(* polls), or that a secret is provisioned.                                *)
FairSpec ==
  /\ Spec
  /\ WF_vars(SupervisorStep)
  /\ SF_vars(CleanupTimesOut)
  /\ WF_vars(AgentEnds /\ agent_token)
  /\ WF_vars(broadcast_stats)
  /\ WF_vars(StateStep)
  /\ WF_vars(ControlStep)
  /\ \A t \in Tasks : WF_vars(AbortedEnds(t))
  /\ WF_vars(OwnerStep)

-----------------------------------------------------------------------------
(* Nothing is announced and no new agent is built while a task of the last *)
(* agent is alive: its late publications cannot overtake what came later.  *)
NoStaleAgent ==
  (\E t \in Tasks : Alive(t)) =>
    \/ pc \in {"run", "cleanup", "aborting", "panicked"}
    \/ pub # None /\ pub.next = "cleanup"

(* Whoever reads the cache and whoever follows the events see the same     *)
(* state, whenever nobody is publishing and no shutdown is under way: the  *)
(* three publishers never overtake each other between write and event.     *)
EventsMatchCache ==
  pub = None /\ task["state"] # "send" /\ task["control"] # "send" /\ ~cancel
    => cache = sent

(* The lifecycle WaitingForSecret, which lets set_secret and start_claim   *)
(* hand in a secret, is seen only while the supervisor is there to take    *)
(* it, or on its way there or back; the api of a rejected secret is gone.  *)
WaitingIsServed ==
  cache.lifecycle = "WaitingForSecret" =>
    ~api /\ (pc = "await_secret" \/ pc \in Publishing)

ApiHangs == <>[](pc \in {"rundata", "new_agent"})

(* A shutdown that was requested comes to an end, wherever the supervisor  *)
(* was, unless a request to the API hangs for ever.                        *)
ShutdownCompletes ==
  ApiHangs \/ ((owner = "waiting") ~> (owner = "returned"))

(* "the runtime keeps retrying": when the agent stops by itself, a new one *)
(* is built, unless the runtime is told to stop.                           *)
KeepsRetrying ==
  \/ ApiHangs
  \/ (pc = "run" /\ ~Alive("agent")) ~> (pc = "build" \/ cancel)
=============================================================================
