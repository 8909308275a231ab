---------------------------- MODULE Provisioning ----------------------------
(***************************************************************************)
(* How a runtime gets its secret and loses it: set_secret, start_claim and *)
(* reset_secret (playit-runtime/src/handle.rs), the claim task (claim.rs)  *)
(* and the end of the provisioning channel at which the supervisor waits   *)
(* (secret.rs, runtime.rs), with a shutdown at any time.                   *)
(*                                                                         *)
(* A secret is named by who hands it in: a call of set_secret or a claim   *)
(* code.  The file is written in one step here; SecretFile has its steps.  *)
(* The agent itself is Supervisor's matter: here the supervisor uses a     *)
(* secret until it is rejected or the runtime ends.                        *)
(***************************************************************************)
EXTENDS Naturals, Sequences, FiniteSets

CONSTANTS
  Callers,   \* calls of set_secret
  Starters,  \* calls of start_claim
  Codes,     \* claim codes that can be generated
  Old,       \* the secret the file may hold at the start
  Capacity,  \* of the provisioning channel (8)
  None

ASSUME ProvisioningAssumption ==
  /\ None \notin Codes
  /\ Capacity \in Nat \ {0}

Senders == Callers \cup Codes
Secrets == Senders \cup {Old}

VARIABLES
  sup,         \* where the supervisor is
  lifecycle_waiting,  \* the cached lifecycle is WaitingForSecret
  cancel,      \* the runtime's token is cancelled
  channel,     \* the requests in the provisioning channel
  request,     \* the request the supervisor is working on
  answer,      \* what was sent on the response channel of each request
  in_use,      \* the secret the supervisor has
  file,        \* the secret on disk
  caller,      \* where each call of set_secret is
  starter,     \* where each call of start_claim is
  started,     \* the code a start_claim has to track
  claim_code,  \* RuntimeInner.claim_code
  claim,       \* where each claim task is
  claim_tasks, \* RuntimeInner.claim_tasks
  joining,     \* the claim tasks the supervisor awaits
  reset,       \* where reset_secret is
  owner        \* where the owner of the runtime is

supervisor == <<sup, lifecycle_waiting, request, in_use, joining>>
calls == <<caller, starter, started>>
claims == <<claim_code, claim, claim_tasks>>
vars == <<supervisor, cancel, channel, answer, file, calls, claims, reset, owner>>

Flow == {"setup", "exchange", "send", "await"}

(* Every variable keeps to its type, and the channel to its capacity; a    *)
(* start_claim that has to track a task has its code.                      *)
TypeOK ==
  /\ sup \in {"enter", "waiting", "persisting", "acking", "leaving", "using", "stopping",
              "joining", "done"}
  /\ lifecycle_waiting \in BOOLEAN /\ cancel \in BOOLEAN
  /\ channel \in Seq(Senders) /\ Len(channel) <= Capacity
  /\ request \in Senders \cup {None}
  /\ answer \in [Senders -> {"ok", "failed", "dropped", None}]
  /\ in_use \in Secrets \cup {None} /\ file \in Secrets \cup {None}
  /\ caller \in [Callers -> {"idle", "send", "await", "ok", "failed", "stopped", "refused"}]
  /\ starter \in [Starters -> {"idle", "lock", "track", "done", "stopped", "refused"}]
  /\ started \in [Starters -> Codes \cup {None}]
  /\ \A s \in Starters : starter[s] = "track" => started[s] \in Codes
  /\ claim_code \in Codes \cup {None}
  /\ claim \in [Codes -> Flow \cup {"unused", "clear", "ended"}]
  /\ claim_tasks \subseteq Codes /\ joining \subseteq Codes
  /\ reset \in {"idle", "remove", "stop", "done", "failed"}
  /\ owner \in {"running", "waiting", "returned"}

(* The file holds a secret, which is loaded, or it does not                *)
Init ==
  /\ file \in {Old, None}
  /\ in_use = file
  /\ sup = IF file = None THEN "enter" ELSE "using"
  /\ lifecycle_waiting = FALSE /\ cancel = FALSE
  /\ channel = <<>> /\ request = None
  /\ answer = [s \in Senders |-> None]
  /\ caller = [c \in Callers |-> "idle"]
  /\ starter = [s \in Starters |-> "idle"] /\ started = [s \in Starters |-> None]
  /\ claim_code = None /\ claim = [k \in Codes |-> "unused"]
  /\ claim_tasks = {} /\ joining = {}
  /\ reset = "idle" /\ owner = "running"

-----------------------------------------------------------------------------
(* The supervisor: wait_for_secret, wait_for_provisioned_secret            *)

PublishWaiting ==
  /\ sup = "enter"
  /\ sup' = "waiting"
  /\ lifecycle_waiting' = TRUE
  /\ UNCHANGED <<cancel, channel, request, answer, in_use, file, joining, calls, claims, reset, owner>>

(* The select takes any branch that is ready: also after the cancellation  *)
ReceiveRequest ==
  /\ sup = "waiting" /\ channel # <<>>
  /\ request' = Head(channel)
  /\ channel' = Tail(channel)
  /\ sup' = "persisting"
  /\ UNCHANGED <<lifecycle_waiting, cancel, answer, in_use, file, joining, calls, claims, reset, owner>>

(* Mutated form: the secret is used although it could not be written.      *)
persist_secret_file_unchecked ==
  /\ sup = "persisting"
  /\ file' \in {request, file}
  /\ sup' = "acking"
  /\ UNCHANGED <<lifecycle_waiting, cancel, channel, request, answer, in_use, joining, calls, claims,
                 reset, owner>>

persist_secret_file ==
  /\ sup = "persisting"
  /\ file' = request
  /\ sup' = "acking"
  /\ UNCHANGED <<lifecycle_waiting, cancel, channel, request, answer, in_use, joining, calls, claims,
                 reset, owner>>

(* Mutated form: a failure is logged and not answered.                     *)
PersistFails_unanswered ==
  /\ sup = "persisting"
  /\ request' = None
  /\ sup' = "waiting"
  /\ UNCHANGED <<lifecycle_waiting, cancel, channel, answer, in_use, file, joining, calls, claims,
                 reset, owner>>

(* The secret is no secret, or the file cannot be written; the last thing  *)
(* that can fail, protecting it, comes after it has been replaced          *)
PersistFails ==
  /\ sup = "persisting"
  /\ file' \in {request, file}
  /\ answer' = [answer EXCEPT ![request] = "failed"]
  /\ request' = None
  /\ sup' = "waiting"
  /\ UNCHANGED <<lifecycle_waiting, cancel, channel, in_use, joining, calls, claims, reset, owner>>

Acknowledge ==
  /\ sup = "acking"
  /\ answer' = [answer EXCEPT ![request] = "ok"]
  /\ in_use' = request
  /\ request' = None
  /\ sup' = "leaving"
  /\ UNCHANGED <<lifecycle_waiting, cancel, channel, file, joining, calls, claims, reset, owner>>

PublishStarting ==
  /\ sup = "leaving"
  /\ sup' = "using"
  /\ lifecycle_waiting' = FALSE
  /\ UNCHANGED <<cancel, channel, request, answer, in_use, file, joining, calls, claims, reset, owner>>

(* The API does not know the secret any more                               *)
SecretRejected ==
  /\ sup = "using"
  /\ in_use' = None
  /\ sup' = "enter"
  /\ UNCHANGED <<lifecycle_waiting, cancel, channel, request, answer, file, joining, calls, claims,
                 reset, owner>>

(* run_supervisor returns, cancelled or because the agent cannot be set    *)
(* up: with it goes the receiver, with the requests in the channel         *)
Leave ==
  /\ lifecycle_waiting' = FALSE
  /\ sup' = "stopping"
  /\ channel' = <<>>
  /\ answer' = [s \in Senders |-> IF \E i \in DOMAIN channel : channel[i] = s
                                  THEN "dropped" ELSE answer[s]]
  /\ in_use' = None
  /\ UNCHANGED <<cancel, request, file, joining, calls, claims, reset, owner>>

WaitCancelled == sup = "waiting" /\ cancel /\ Leave
AgentStopped == sup = "using" /\ cancel /\ Leave
SetupFails == sup = "using" /\ Leave

join_claim_tasks ==
  /\ sup = "stopping"
  /\ cancel' = TRUE
  /\ joining' = claim_tasks
  /\ claim_tasks' = {}
  /\ sup' = "joining"
  /\ UNCHANGED <<lifecycle_waiting, channel, request, answer, in_use, file, calls, claim_code, claim,
                 reset, owner>>

SupervisorDone ==
  /\ sup = "joining"
  /\ \A k \in joining : claim[k] = "ended"
  /\ sup' = "done"
  /\ UNCHANGED <<lifecycle_waiting, cancel, channel, request, answer, in_use, file, joining, calls,
                 claims, reset, owner>>

ReceiverGone == sup \in {"stopping", "joining", "done"}

-----------------------------------------------------------------------------
(* set_secret                                                              *)

CallerMoves(c, from, to) ==
  /\ caller[c] = from
  /\ caller' = [caller EXCEPT ![c] = to]
  /\ UNCHANGED <<supervisor, cancel, file, starter, started, claims, reset, owner>>

set_secret(c) ==
  /\ CallerMoves(c, "idle", IF cancel THEN "stopped"
                            ELSE IF lifecycle_waiting THEN "send" ELSE "refused")
  /\ UNCHANGED <<channel, answer>>

Room == ~ReceiverGone /\ Len(channel) < Capacity

CallerSends(c) ==
  /\ Room
  /\ channel' = Append(channel, c)
  /\ CallerMoves(c, "send", "await")
  /\ UNCHANGED answer

CallerNotSent(c) ==
  /\ cancel \/ ReceiverGone
  /\ CallerMoves(c, "send", "stopped")
  /\ UNCHANGED <<channel, answer>>

CallerAnswered(c) ==
  /\ answer[c] \in {"ok", "failed"}
  /\ CallerMoves(c, "await", answer[c])
  /\ UNCHANGED <<channel, answer>>

CallerNotAnswered(c) ==
  /\ cancel \/ answer[c] = "dropped"
  /\ CallerMoves(c, "await", "stopped")
  /\ UNCHANGED <<channel, answer>>

-----------------------------------------------------------------------------
(* start_claim                                                             *)

start_claim(s) ==
  /\ starter[s] = "idle"
  /\ starter' = [starter EXCEPT ![s] = IF cancel THEN "stopped"
                                       ELSE IF lifecycle_waiting THEN "lock" ELSE "refused"]
  /\ UNCHANGED <<supervisor, cancel, channel, answer, file, caller, started, claims, reset, owner>>

(* Under the lock on claim_code: the active claim is returned, or a new    *)
(* one generated and its task spawned                                      *)
LockClaim(s) ==
  /\ starter[s] = "lock"
  /\ \/ /\ claim_code # None
        /\ starter' = [starter EXCEPT ![s] = "done"]
        /\ UNCHANGED <<claim_code, claim, started>>
     \/ /\ claim_code = None
        /\ \E k \in Codes :
             /\ claim[k] = "unused"
             /\ claim_code' = k
             /\ claim' = [claim EXCEPT ![k] = "setup"]
             /\ started' = [started EXCEPT ![s] = k]
             /\ starter' = [starter EXCEPT ![s] = "track"]
  /\ UNCHANGED <<supervisor, cancel, channel, answer, file, caller, claim_tasks, reset, owner>>

track_claim_task(s) ==
  /\ starter[s] = "track"
  /\ claim_tasks' = {k \in claim_tasks : claim[k] # "ended"} \cup {started[s]}
  /\ starter' = [starter EXCEPT ![s] = "done"]
  /\ UNCHANGED <<supervisor, cancel, channel, answer, file, caller, started, claim_code, claim, reset,
                 owner>>

-----------------------------------------------------------------------------
(* run_claim_flow                                                          *)

ClaimMoves(k, from, to) ==
  /\ claim[k] = from
  /\ claim' = [claim EXCEPT ![k] = to]
  /\ UNCHANGED <<supervisor, cancel, answer, file, calls, claim_tasks, reset, owner>>

ClaimAccepted(k) == ClaimMoves(k, "setup", "exchange") /\ UNCHANGED <<channel, claim_code>>
ClaimNotAccepted(k) == ClaimMoves(k, "exchange", "setup") /\ UNCHANGED <<channel, claim_code>>
ClaimExchanged(k) == ClaimMoves(k, "exchange", "send") /\ UNCHANGED <<channel, claim_code>>

ClaimSends(k) ==
  /\ Room
  /\ channel' = Append(channel, k)
  /\ ClaimMoves(k, "send", "await")
  /\ UNCHANGED claim_code

(* The flow ends: cancelled, timed out, rejected, failed or answered       *)
ClaimFlowEnds(k) ==
  /\ claim[k] \in Flow
  /\ ClaimMoves(k, claim[k], "clear")
  /\ UNCHANGED <<channel, claim_code>>

(* Mutated form: the code of a claim that is over is kept.                 *)
ClaimClears_keeps_code(k) ==
  /\ ClaimMoves(k, "clear", "ended")
  /\ UNCHANGED <<channel, claim_code>>

ClaimClears(k) ==
  /\ ClaimMoves(k, "clear", "ended")
  /\ claim_code' = IF claim_code = k THEN None ELSE claim_code
  /\ UNCHANGED channel

-----------------------------------------------------------------------------
(* reset_secret                                                            *)

reset_secret ==
  /\ reset = "idle" /\ ~cancel
  /\ reset' = "remove"
  /\ UNCHANGED <<supervisor, cancel, channel, answer, file, calls, claims, owner>>

reset_secret_file ==
  /\ reset = "remove"
  /\ \/ file' = None /\ reset' = "stop"
     \/ file' = file /\ reset' = "failed"
  /\ UNCHANGED <<supervisor, cancel, channel, answer, calls, claims, owner>>

ResetStops ==
  /\ reset = "stop"
  /\ cancel' = TRUE
  /\ reset' = "done"
  /\ UNCHANGED <<supervisor, channel, answer, file, calls, claims, owner>>

(* PlayitRuntime::shutdown                                                 *)
RequestShutdown ==
  /\ owner = "running"
  /\ cancel' = TRUE
  /\ owner' = "waiting"
  /\ UNCHANGED <<supervisor, channel, answer, file, calls, claims, reset>>

ShutdownReturns ==
  /\ owner = "waiting" /\ sup = "done"
  /\ \A k \in claim_tasks : claim[k] = "ended"
  /\ claim_tasks' = {}
  /\ owner' = "returned"
  /\ UNCHANGED <<supervisor, cancel, channel, answer, file, calls, claim_code, claim, reset>>

Stopped == owner = "returned" /\ UNCHANGED vars

SupervisorStep ==
  \/ PublishWaiting \/ ReceiveRequest \/ persist_secret_file \/ PersistFails \/ Acknowledge
  \/ PublishStarting \/ WaitCancelled \/ AgentStopped \/ join_claim_tasks \/ SupervisorDone

CallerStep(c) ==
  CallerSends(c) \/ CallerNotSent(c) \/ CallerAnswered(c) \/ CallerNotAnswered(c)
StarterStep(s) == LockClaim(s) \/ track_claim_task(s)
ClaimApiStep(k) == ClaimAccepted(k) \/ ClaimNotAccepted(k) \/ ClaimExchanged(k)
ClaimStep(k) == ClaimSends(k) \/ ClaimFlowEnds(k) \/ ClaimClears(k)
ResetStep == reset_secret_file \/ ResetStops

Next ==
  \/ SupervisorStep \/ SecretRejected \/ SetupFails
  \/ \E c \in Callers : set_secret(c) \/ CallerStep(c)
  \/ \E s \in Starters : start_claim(s) \/ StarterStep(s)
  \/ \E k \in Codes : ClaimApiStep(k) \/ ClaimStep(k)
  \/ reset_secret \/ ResetStep
  \/ RequestShutdown \/ ShutdownReturns
  \/ Stopped

Spec == Init /\ [][Next]_vars

(* Tasks run, and a claim flow is over after ten minutes whatever it is    *)
(* waiting for.  Nobody has to call, to reset or to shut down, and an      *)
(* agent may run for ever.                                                 *)
Fair ==
  /\ WF_vars(SupervisorStep)
  /\ \A c \in Callers : WF_vars(CallerStep(c))
  /\ \A s \in Starters : WF_vars(StarterStep(s))
  /\ \A k \in Codes : SF_vars(ClaimFlowEnds(k)) /\ WF_vars(ClaimClears(k))
  /\ WF_vars(ResetStep)
  /\ WF_vars(ShutdownReturns)
FairSpec == Spec /\ Fair

-----------------------------------------------------------------------------
(* A claim that is on its way has its code in claim_code, until it clears  *)
(* it: what keeps start_claim from a second one (run_claim_flow).          *)
CodeIsKept == \A k \in Codes : claim[k] \in Flow \cup {"clear"} => claim_code = k

(* A secret that is about to be acknowledged is on disk, unless a reset is *)
(* under way (wait_for_provisioned_secret).                                *)
AckedIsOnDisk == sup = "acking" /\ reset # "stop" /\ reset # "done" => file = request

(* The code that get_account and start_claim hand out belongs to a claim   *)
(* that is still running: nobody is sent to a URL nothing will act on.     *)
ClaimCodeLive == claim_code # None => claim[claim_code] \in Flow \cup {"clear"}

(* At most one claim flow is on its way, however calls of start_claim and  *)
(* ends of claims interleave: there are no two agents claimed at a time.   *)
OneClaimFlow == Cardinality({k \in Codes : claim[k] \in Flow}) <= 1

(* There is one claim at a time, and a code that is handed out is its code *)
(* (start_claim, run_claim_flow).                                          *)
OneLiveClaim == ClaimCodeLive /\ OneClaimFlow

(* The secret in use is the one a restart will find, unless a reset is     *)
(* under way.                                                              *)
InUseIsOnDisk == sup \in {"leaving", "using"} /\ reset # "stop" /\ reset # "done" => file = in_use

(* A call of set_secret gets its answer, or the runtime has a secret and   *)
(* goes on with that one: then the call may wait for as long as it does.   *)
SetSecretReturns ==
  \A c \in Callers : (caller[c] \in {"send", "await"}) ~> (caller[c] \in {"ok", "failed", "stopped"}
                                                           \/ sup = "using")

(* Once the runtime is stopping every claim task ends, also one that a     *)
(* late start_claim has spawned, and no code is left behind.               *)
ClaimsEnd ==
  <>cancel => <>[](claim_code = None /\ \A k \in Codes : claim[k] \in {"unused", "ended"})

(* Who provides a secret gets an answer, and claims do not outlive the     *)
(* runtime.                                                                *)
ProvisioningReturns == SetSecretReturns /\ ClaimsEnd

(* "Remove the dedicated secret file and stop this runtime."               *)
ResetRemovesSecret == reset = "done" /\ sup = "done" => file = None
=============================================================================
