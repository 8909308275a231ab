---------------------------- MODULE ServiceProofs ----------------------------
(***************************************************************************)
(* Proofs about the two kinds of requests that change what the service     *)
(* owns: Provisioning, of its secret, and TunnelRequests, of the account's *)
(* tunnels.  They share no state.                                          *)
(***************************************************************************)
EXTENDS Provisioning, TunnelRequests, FiniteSetTheorems, TLAPS

-----------------------------------------------------------------------------
(* Provisioning, for any number of calls and claim codes and any capacity  *)
(* of the channel.                                                         *)

(* Steps of the supervisor keep every variable to its type.                *)
LEMMA SupervisorTypes == TypeOK /\ (SupervisorStep \/ SecretRejected \/ SetupFails) => TypeOK'
<1> SUFFICES ASSUME TypeOK, SupervisorStep \/ SecretRejected \/ SetupFails PROVE TypeOK'
  OBVIOUS
<1> USE ProvisioningAssumption DEF TypeOK, Senders, Secrets, calls, claims
<1>1. CASE PublishWaiting
  BY <1>1 DEF PublishWaiting
<1>2. CASE ReceiveRequest
  <2>1. Head(channel) \in Senders /\ Tail(channel) \in Seq(Senders)
        /\ Len(Tail(channel)) <= Capacity
    BY <1>2 DEF ReceiveRequest
  <2> QED
    BY <1>2, <2>1 DEF ReceiveRequest
<1>3. CASE persist_secret_file
  BY <1>3 DEF persist_secret_file
<1>4. CASE PersistFails
  <2>1. answer' \in [Senders -> {"ok", "failed", "dropped", None}]
    BY <1>4, Zenon DEF PersistFails
  <2>2. file' \in Secrets \cup {None} /\ request' = None /\ sup' = "waiting"
    BY <1>4 DEF PersistFails
  <2> QED
    BY <1>4, <2>1, <2>2 DEF PersistFails
<1>5. CASE Acknowledge
  <2>1. answer' \in [Senders -> {"ok", "failed", "dropped", None}]
    BY <1>5, Zenon DEF Acknowledge
  <2> QED
    BY <1>5, <2>1 DEF Acknowledge
<1>6. CASE PublishStarting
  <2>1. lifecycle_waiting' \in BOOLEAN
    BY <1>6, Zenon DEF PublishStarting
  <2> QED
    BY <1>6, <2>1 DEF PublishStarting
<1>7. CASE SecretRejected
  BY <1>7 DEF SecretRejected
<1>8. CASE Leave
  <2>1. answer' \in [Senders -> {"ok", "failed", "dropped", None}]
    BY <1>8 DEF Leave
  <2>2. channel' \in Seq(Senders) /\ Len(channel') <= Capacity
    BY <1>8 DEF Leave
  <2> QED
    BY <1>8, <2>1, <2>2, Zenon DEF Leave
<1>9. CASE join_claim_tasks
  BY <1>9 DEF join_claim_tasks
<1>10. CASE SupervisorDone
  BY <1>10 DEF SupervisorDone
<1> QED
  BY <1>1, <1>2, <1>3, <1>4, <1>5, <1>6, <1>7, <1>8, <1>9, <1>10, Zenon
     DEF SupervisorStep, WaitCancelled, AgentStopped, SetupFails

(* Steps of the calls keep every variable to its type.                     *)
LEMMA CallTypes ==
  ASSUME TypeOK,
         \/ \E c \in Callers : set_secret(c) \/ CallerStep(c)
         \/ \E s \in Starters : start_claim(s) \/ StarterStep(s)
  PROVE  TypeOK'
<1> USE ProvisioningAssumption DEF TypeOK, Senders, Secrets, supervisor, claims
<1>1. ASSUME NEW c \in Callers, set_secret(c) PROVE TypeOK'
  BY <1>1 DEF set_secret, CallerMoves
<1>2. ASSUME NEW c \in Callers, CallerSends(c) PROVE TypeOK'
  <2>1. channel' \in Seq(Senders) /\ Len(channel') <= Capacity
    BY <1>2 DEF CallerSends, Room
  <2> QED
    BY <1>2, <2>1 DEF CallerSends, CallerMoves
<1>3. ASSUME NEW c \in Callers, CallerNotSent(c) PROVE TypeOK'
  BY <1>3 DEF CallerNotSent, CallerMoves
<1>4. ASSUME NEW c \in Callers, CallerAnswered(c) PROVE TypeOK'
  BY <1>4 DEF CallerAnswered, CallerMoves
<1>5. ASSUME NEW c \in Callers, CallerNotAnswered(c) PROVE TypeOK'
  BY <1>5 DEF CallerNotAnswered, CallerMoves
<1>6. ASSUME NEW s \in Starters, start_claim(s) PROVE TypeOK'
  BY <1>6 DEF start_claim
<1>7. ASSUME NEW s \in Starters, LockClaim(s) PROVE TypeOK'
  <2>1. CASE claim_code # None
    BY <1>7, <2>1 DEF LockClaim
  <2>2. CASE claim_code = None
    <3>1. PICK k \in Codes : /\ claim_code' = k
                            /\ claim' = [claim EXCEPT ![k] = "setup"]
                            /\ started' = [started EXCEPT ![s] = k]
                            /\ starter' = [starter EXCEPT ![s] = "track"]
      BY <1>7, <2>2 DEF LockClaim
    <3>2. claim' \in [Codes -> Flow \cup {"unused", "clear", "ended"}]
      BY <3>1 DEF Flow
    <3>3. started' \in [Starters -> Codes \cup {None}]
          /\ (\A t \in Starters : starter'[t] = "track" => started'[t] \in Codes)
          /\ starter' \in [Starters -> {"idle", "lock", "track", "done", "stopped", "refused"}]
      BY <3>1
    <3>4. UNCHANGED <<supervisor, cancel, channel, answer, file, caller, claim_tasks, reset, owner>>
      BY <1>7 DEF LockClaim
    <3> QED
      BY <3>1, <3>2, <3>3, <3>4
  <2> QED
    BY <2>1, <2>2
<1>8. ASSUME NEW s \in Starters, track_claim_task(s) PROVE TypeOK'
  BY <1>8 DEF track_claim_task
<1> QED
  BY <1>1, <1>2, <1>3, <1>4, <1>5, <1>6, <1>7, <1>8 DEF CallerStep, StarterStep
(* Steps of the claim tasks, of a reset and of a shutdown keep every       *)
(* variable to its type.                                                   *)
LEMMA OtherTypes ==
  ASSUME TypeOK,
         \/ \E k \in Codes : ClaimApiStep(k) \/ ClaimStep(k)
         \/ reset_secret \/ ResetStep \/ RequestShutdown \/ ShutdownReturns
  PROVE  TypeOK'
<1> USE ProvisioningAssumption DEF TypeOK, Senders, Secrets, supervisor, calls
<1>1. ASSUME NEW k \in Codes, NEW from, NEW to \in Flow \cup {"clear", "ended"},
             ClaimMoves(k, from, to), claim_code' \in {claim_code, None},
             channel' \in Seq(Senders), Len(channel') <= Capacity
      PROVE  TypeOK'
  <2>1. claim' \in [Codes -> Flow \cup {"unused", "clear", "ended"}]
    BY <1>1 DEF ClaimMoves, Flow
  <2> QED
    BY <1>1, <2>1 DEF ClaimMoves
<1>2. ASSUME NEW k \in Codes, ClaimAccepted(k) \/ ClaimNotAccepted(k) \/ ClaimExchanged(k) PROVE TypeOK'
  BY <1>1, <1>2 DEF ClaimAccepted, ClaimNotAccepted, ClaimExchanged, Flow
<1>3. ASSUME NEW k \in Codes, ClaimSends(k) PROVE TypeOK'
  <2>1. channel' \in Seq(Senders) /\ Len(channel') <= Capacity
    BY <1>3 DEF ClaimSends, Room
  <2> QED
    BY <1>1, <1>3, <2>1 DEF ClaimSends, Flow
<1>4. ASSUME NEW k \in Codes, ClaimFlowEnds(k) PROVE TypeOK'
  BY <1>1, <1>4 DEF ClaimFlowEnds, Flow
<1>5. ASSUME NEW k \in Codes, ClaimClears(k) PROVE TypeOK'
  BY <1>1, <1>5 DEF ClaimClears, Flow
<1>6. CASE reset_secret
  BY <1>6 DEF reset_secret, claims
<1>7. CASE reset_secret_file
  BY <1>7 DEF reset_secret_file, claims
<1>8. CASE ResetStops
  BY <1>8 DEF ResetStops, claims
<1>9. CASE RequestShutdown
  BY <1>9 DEF RequestShutdown, claims
<1>10. CASE ShutdownReturns
  BY <1>10 DEF ShutdownReturns
<1> QED
  BY <1>2, <1>3, <1>4, <1>5, <1>6, <1>7, <1>8, <1>9, <1>10, Zenon
     DEF ClaimApiStep, ClaimStep, ResetStep

(* Every step keeps every variable to its type.                            *)
LEMMA TypeStep == TypeOK /\ [Next]_vars => TypeOK'
<1> SUFFICES ASSUME TypeOK, [Next]_vars PROVE TypeOK'
  OBVIOUS
<1>1. CASE UNCHANGED vars
  BY <1>1 DEF TypeOK, vars, supervisor, calls, claims
<1>2. CASE Stopped
  BY <1>1, <1>2 DEF Stopped
<1> QED
  BY <1>1, <1>2, SupervisorTypes, CallTypes, OtherTypes DEF Next

(* The variables of the provisioning keep to their types, and the channel  *)
(* to its capacity, whatever the calls, claims and resets do.              *)
THEOREM ProvisioningTypeCorrect == Spec => []TypeOK
<1>1. Init => TypeOK
  <2> SUFFICES ASSUME Init PROVE TypeOK
    OBVIOUS
  <2>1. channel \in Seq(Senders) /\ Len(channel) <= Capacity
    BY ProvisioningAssumption DEF Init
  <2>2. /\ answer \in [Senders -> {"ok", "failed", "dropped", None}]
        /\ claim \in [Codes -> Flow \cup {"unused", "clear", "ended"}]
    BY DEF Init
  <2>3. /\ caller \in [Callers -> {"idle", "send", "await", "ok", "failed", "stopped", "refused"}]
        /\ starter \in [Starters -> {"idle", "lock", "track", "done", "stopped", "refused"}]
        /\ started \in [Starters -> Codes \cup {None}]
    BY DEF Init
  <2>4. lifecycle_waiting \in BOOLEAN /\ cancel \in BOOLEAN
    BY Zenon DEF Init
  <2> QED
    BY <2>1, <2>2, <2>3, <2>4 DEF Init, TypeOK, Secrets
<1> QED
  BY <1>1, TypeStep, PTL DEF Spec
-----------------------------------------------------------------------------
(* The invariant about claims: the code that is kept is that of the only   *)
(* claim on its way.                                                       *)
ClaimInv == CodeIsKept /\ ClaimCodeLive

(* Every step keeps the claim on its way and the code that is kept the     *)
(* same; start_claim, the end of a flow and its clearing are what could    *)
(* part them.                                                              *)
LEMMA ClaimInvStep == TypeOK /\ ClaimInv /\ [Next]_vars => ClaimInv'
<1> SUFFICES ASSUME TypeOK, ClaimInv, [Next]_vars PROVE ClaimInv'
  OBVIOUS
<1> USE ProvisioningAssumption DEF ClaimInv, CodeIsKept, ClaimCodeLive
<1>0. /\ claim \in [Codes -> Flow \cup {"unused", "clear", "ended"}]
      /\ claim_code \in Codes \cup {None}
  BY DEF TypeOK
<1>1. CASE UNCHANGED <<claim, claim_code>>
  BY <1>1
<1>2. ASSUME NEW s \in Starters, LockClaim(s) PROVE ClaimInv'
  <2>1. CASE claim_code # None
    BY <1>2, <2>1 DEF LockClaim
  <2>2. CASE claim_code = None
    <3>1. PICK k \in Codes : claim_code' = k /\ claim' = [claim EXCEPT ![k] = "setup"]
      BY <1>2, <2>2 DEF LockClaim
    <3>2. \A j \in Codes : claim[j] \notin Flow \cup {"clear"}
      BY <2>2
    <3> QED
      BY <1>0, <3>1, <3>2 DEF Flow
  <2> QED
    BY <2>1, <2>2
<1>3. ASSUME NEW k \in Codes, NEW from \in Flow, NEW to \in Flow \cup {"clear"},
             ClaimMoves(k, from, to), UNCHANGED claim_code
      PROVE  ClaimInv'
  BY <1>0, <1>3 DEF ClaimMoves
<1>4. ASSUME NEW k \in Codes, ClaimApiStep(k) \/ ClaimSends(k) \/ ClaimFlowEnds(k)
      PROVE  ClaimInv'
  BY <1>3, <1>4 DEF ClaimApiStep, ClaimAccepted, ClaimNotAccepted, ClaimExchanged, ClaimSends,
                    ClaimFlowEnds, Flow
<1>5. ASSUME NEW k \in Codes, ClaimClears(k) PROVE ClaimInv'
  <2>1. claim_code = k /\ claim_code' = None
    BY <1>5 DEF ClaimClears, ClaimMoves
  <2>2. claim' = [claim EXCEPT ![k] = "ended"]
    BY <1>5 DEF ClaimClears, ClaimMoves
  <2> QED
    BY <1>0, <2>1, <2>2 DEF Flow
<1>6. ASSUME SupervisorStep \/ SecretRejected \/ SetupFails PROVE UNCHANGED <<claim, claim_code>>
  BY <1>6 DEF SupervisorStep, PublishWaiting, ReceiveRequest, persist_secret_file, PersistFails,
              Acknowledge, PublishStarting, WaitCancelled, AgentStopped, Leave, join_claim_tasks,
              SupervisorDone, SecretRejected, SetupFails, claims
<1>7. ASSUME NEW c \in Callers, set_secret(c) \/ CallerStep(c) PROVE UNCHANGED <<claim, claim_code>>
  BY <1>7, Zenon DEF set_secret, CallerStep, CallerSends, CallerNotSent, CallerAnswered,
              CallerNotAnswered, CallerMoves, claims
<1>8. ASSUME NEW s \in Starters, start_claim(s) \/ track_claim_task(s)
      PROVE  UNCHANGED <<claim, claim_code>>
  BY <1>8 DEF start_claim, track_claim_task, claims
<1>9. ASSUME reset_secret \/ ResetStep \/ RequestShutdown \/ ShutdownReturns \/ Stopped
             \/ UNCHANGED vars
      PROVE  UNCHANGED <<claim, claim_code>>
  BY <1>9 DEF reset_secret, ResetStep, reset_secret_file, ResetStops, RequestShutdown,
              ShutdownReturns, Stopped, vars, claims
<1> QED
  BY <1>1, <1>2, <1>4, <1>5, <1>6, <1>7, <1>8, <1>9 DEF Next, StarterStep, ClaimStep

(* The invariant about claims holds for ever.                              *)
LEMMA ClaimInvHolds == Spec => []ClaimInv
<1>1. Init => ClaimInv
  BY DEF Init, ClaimInv, CodeIsKept, ClaimCodeLive, Flow
<1> QED
  BY <1>1, ClaimInvStep, ProvisioningTypeCorrect, PTL DEF Spec

(* A claim code that get_account and start_claim hand out belongs to a     *)
(* claim that is running.                                                  *)
LEMMA ClaimCodeStaysLive == Spec => []ClaimCodeLive
<1>1. ClaimInv => ClaimCodeLive
  BY DEF ClaimInv
<1> QED
  BY <1>1, ClaimInvHolds, PTL

(* There is at most one claim flow at a time, for any number of calls of   *)
(* start_claim.                                                            *)
LEMMA AtMostOneClaim == Spec => []OneClaimFlow
<1>1. ClaimInv => OneClaimFlow
  <2> SUFFICES ASSUME ClaimInv PROVE Cardinality({k \in Codes : claim[k] \in Flow}) <= 1
    BY DEF OneClaimFlow
  <2>1. {k \in Codes : claim[k] \in Flow} \subseteq {claim_code}
    BY DEF ClaimInv, CodeIsKept
  <2>2. IsFiniteSet({claim_code}) /\ Cardinality({claim_code}) = 1
    BY FS_Singleton, Zenon
  <2> QED
    BY <2>1, <2>2, FS_Subset
<1> QED
  BY <1>1, ClaimInvHolds, PTL

(* start_claim hands out the code of the one claim flow that is running.   *)
THEOREM OneClaimStaysLive == Spec => []OneLiveClaim
<1>1. ClaimCodeLive /\ OneClaimFlow => OneLiveClaim
  BY DEF OneLiveClaim
<1> QED
  BY <1>1, ClaimCodeStaysLive, AtMostOneClaim, PTL
-----------------------------------------------------------------------------
(* The invariant about the file: what is being acknowledged and what is in *)
(* use is what a restart will find.                                        *)
DiskInv == AckedIsOnDisk /\ InUseIsOnDisk

(* Every step keeps the secret in use on disk; the ones that write or      *)
(* remove the file and the acknowledgement are what could part them.       *)
LEMMA DiskInvStep == DiskInv /\ [Next]_vars => DiskInv'
<1> SUFFICES ASSUME DiskInv, [Next]_vars PROVE DiskInv'
  OBVIOUS
<1> USE DEF DiskInv, AckedIsOnDisk, InUseIsOnDisk
<1>1. CASE UNCHANGED <<sup, reset, file, request, in_use>>
  BY <1>1
<1>2. CASE PublishWaiting \/ ReceiveRequest \/ PersistFails \/ SecretRejected
  BY <1>2 DEF PublishWaiting, ReceiveRequest, PersistFails, SecretRejected
<1>3. CASE persist_secret_file
  BY <1>3 DEF persist_secret_file
<1>4. CASE Acknowledge
  BY <1>4 DEF Acknowledge
<1>5. CASE PublishStarting
  BY <1>5 DEF PublishStarting
<1>6. CASE Leave \/ join_claim_tasks \/ SupervisorDone
  BY <1>6 DEF Leave, join_claim_tasks, SupervisorDone
<1>7. CASE reset_secret \/ reset_secret_file \/ ResetStops
  BY <1>7 DEF reset_secret, reset_secret_file, ResetStops, supervisor
<1>8. ASSUME NEW c \in Callers, set_secret(c) \/ CallerStep(c)
      PROVE  UNCHANGED <<sup, reset, file, request, in_use>>
  BY <1>8 DEF set_secret, CallerStep, CallerSends, CallerNotSent, CallerAnswered,
              CallerNotAnswered, CallerMoves, supervisor
<1>9. ASSUME NEW s \in Starters, start_claim(s) \/ StarterStep(s)
      PROVE  UNCHANGED <<sup, reset, file, request, in_use>>
  BY <1>9 DEF start_claim, StarterStep, LockClaim, track_claim_task, supervisor
<1>10. ASSUME NEW k \in Codes, ClaimApiStep(k) \/ ClaimStep(k)
       PROVE  UNCHANGED <<sup, reset, file, request, in_use>>
  BY <1>10 DEF ClaimApiStep, ClaimStep, ClaimAccepted, ClaimNotAccepted, ClaimExchanged,
               ClaimSends, ClaimFlowEnds, ClaimClears, ClaimMoves, supervisor
<1>11. ASSUME RequestShutdown \/ ShutdownReturns \/ Stopped \/ UNCHANGED vars
       PROVE  UNCHANGED <<sup, reset, file, request, in_use>>
  BY <1>11 DEF RequestShutdown, ShutdownReturns, Stopped, vars, supervisor
<1> QED
  BY <1>1, <1>2, <1>3, <1>4, <1>5, <1>6, <1>7, <1>8, <1>9, <1>10, <1>11
     DEF Next, SupervisorStep, WaitCancelled, AgentStopped, SetupFails, ResetStep

(* The secret in use is the one a restart will find, unless a reset is     *)
(* under way: a secret is used only after persist_secret_file succeeded.   *)
THEOREM UsedSecretIsOnDisk == Spec => []InUseIsOnDisk
<1>1. Init => DiskInv
  BY DEF Init, DiskInv, AckedIsOnDisk, InUseIsOnDisk
<1>2. DiskInv => InUseIsOnDisk
  BY DEF DiskInv
<1> QED
  BY <1>1, <1>2, DiskInvStep, PTL DEF Spec


-----------------------------------------------------------------------------
(* TunnelRequests, for any agents, callers and tunnels.                    *)

(* The lifecycle names an agent exactly when the agent runs.               *)
LifeOK ==
  /\ api \in Agents \cup {Absent}
  /\ life = [state |-> life.state, agent |-> life.agent]
  /\ life.state \in {"Starting", "WaitingForSecret", "HasInvalidSecret", "DisabledOverLimit",
                     "Running", "Stopping", "Error"}
  /\ life.agent \in Agents \cup {Absent}
  /\ life.state = "Running" <=> life.agent # Absent

(* The agent and the destination that a request asked for.                 *)
Destined(agent, fields, q) ==
  /\ agent = q.agent
  /\ fields.local_port = q.input.port /\ q.input.port > 0
  /\ fields.local_ip = to_string(local_address(q.input))

IsTunnel(t) ==
  t = [state |-> t.state, agent |-> t.agent, fields |-> t.fields, enabled |-> t.enabled,
       reasons |-> t.reasons]

(* The tunnel of an agent is as the last request for it asked.             *)
TunnelOK(t, q) == IsTunnel(t) /\ (t.agent # Absent => Destined(t.agent, t.fields, q))
TunnelsOK(ts, as) ==
  /\ ts = [i \in Ids |-> ts[i]] /\ as = [i \in Ids |-> as[i]]
  /\ \A i \in Ids : TunnelOK(ts[i], as[i])

Listed(view, as) ==
  \A i \in DOMAIN view :
    /\ i \in Ids
    /\ view[i].is_disabled <=> view[i].disabled_reason # {}
    /\ view[i].agent_id # Absent => Destined(view[i].agent_id, view[i].destination, as[i])

Definite == {"InvalidTunnelRequest", "PermissionDenied", "TunnelNotFound",
             "ProvisioningUnavailable", "InvalidSecret", "AgentDisabledOverLimit"}
IsCall(w) ==
  w = [pc |-> w.pc, op |-> w.op, input |-> w.input, id |-> w.id, agent |-> w.agent,
       ran |-> w.ran, code |-> w.code, retry |-> w.retry, view |-> w.view,
       asked |-> w.asked]

(* A call that has not been answered has not run, one that is on its way   *)
(* passed the checks, and a tunnel that a call names has existed: a tunnel *)
(* that is gone does not come back.                                        *)
CallOK(w, ts) ==
  /\ IsCall(w)
  /\ w.pc \in {"idle", "lifecycle", "api", "wire", "answer", "done"}
  /\ w.op \in Ops \cup {Absent} /\ w.input \in Inputs
  /\ w.pc \in {"api", "wire"} =>
       w.op \in {"create_tunnel", "delete_tunnel", "reassign_tunnel", "list_account_tunnels"}
  /\ w.pc \in {"answer", "done"} <=> w.code # Absent
  /\ w.op \in {"create_tunnel", "reassign_tunnel"} /\ w.pc \in {"api", "wire"}
       => w.agent \in Agents /\ w.input.port > 0
  /\ w.op \in {"delete_tunnel", "reassign_tunnel"} => w.id \in Ids /\ ts[w.id].state # "free"
  /\ w.pc \notin {"answer", "done"} => ~w.ran
  /\ w.code \in Definite => ~w.ran
  /\ w.op = "delete_tunnel" /\ w.code \in {"Ok", "TunnelNotFound"} => ts[w.id].state # "here"
  /\ w.op = "list_account_tunnels" /\ w.code = "Ok" => Listed(w.view, w.asked)

OperationInv ==
  /\ LifeOK /\ TunnelsOK(tunnels, asked)
  /\ operation = [c \in Requesters |-> operation[c]]
  /\ \A c \in Requesters : CallOK(operation[c], tunnels)

(* No tunnel becomes free again, and none that is gone returns.            *)
Grows(ts, tn) ==
  \A i \in Ids : /\ ts[i].state # "free" => tn[i].state # "free"
                 /\ ts[i].state \notin {"free", "here"} => tn[i].state \notin {"free", "here"}

LEMMA CallsOutlast ==
  ASSUME NEW ts, NEW tn, Grows(ts, tn), NEW w, CallOK(w, ts)
  PROVE  CallOK(w, tn)
<1>1. w.op \in {"delete_tunnel", "reassign_tunnel"} => w.id \in Ids /\ tn[w.id].state # "free"
  BY Zenon DEF Grows, CallOK
<1>2. w.op = "delete_tunnel" /\ w.code \in {"Ok", "TunnelNotFound"} => tn[w.id].state # "here"
  BY Zenon DEF Grows, CallOK
<1> QED
  BY <1>1, <1>2, Zenon DEF CallOK

(* A step of one call, which changes at most the tunnels beside it.        *)
LEMMA OneCallMoves ==
  ASSUME OperationInv, NEW c \in Requesters, NEW new, operation' = [operation EXCEPT ![c] = new],
         LifeOK', TunnelsOK(tunnels', asked'), Grows(tunnels, tunnels'),
         CallOK(new, tunnels')
  PROVE  OperationInv'
<1>1. operation' = [d \in Requesters |-> operation'[d]]
  BY DEF OperationInv
<1>2. ASSUME NEW d \in Requesters PROVE CallOK(operation'[d], tunnels')
  <2>1. CASE d = c
    BY <2>1 DEF OperationInv
  <2>2. CASE d # c
    <3>1. operation'[d] = operation[d]
      BY <2>2 DEF OperationInv
    <3> QED
      BY <3>1, CallsOutlast DEF OperationInv
  <2> QED
    BY <2>1, <2>2
<1> QED
  BY <1>1, <1>2 DEF OperationInv

(* A step of a call that leaves the tunnels alone.                         *)
LEMMA OnlyCallMoves ==
  ASSUME OperationInv, NEW c \in Requesters, NEW new, operation' = [operation EXCEPT ![c] = new],
         UNCHANGED <<life, api, cancelled, tunnels, asked>>, CallOK(new, tunnels)
  PROVE  OperationInv'
<1>1. LifeOK' /\ TunnelsOK(tunnels', asked')
  BY DEF OperationInv, LifeOK
<1>2. Grows(tunnels, tunnels') /\ CallOK(new, tunnels')
  BY DEF Grows
<1> QED
  BY <1>1, <1>2, OneCallMoves, Zenon

(* The answer to a call: what Answer and Got leave in place of it.         *)
Answered(w, place, ran, e, view, seen) ==
  [pc |-> place, op |-> w.op, input |-> NoInput, id |-> w.id, agent |-> Absent, ran |-> ran,
   code |-> e.code, retry |-> e.retry, view |-> view, asked |-> seen]

(* What a listing is compared with.                                        *)
SeenBy(op, got) == IF op = "list_account_tunnels" /\ got = "Ok" THEN asked ELSE Absent

LEMMA AnswerForm ==
  ASSUME NEW c, NEW e, Answer(c, e)
  PROVE  operation' = [operation EXCEPT ![c] =
           Answered(operation[c], "done", operation[c].ran, e, operation[c].view,
                    operation[c].asked)]
<1>1. PICK x : /\ operation' = [operation EXCEPT ![c] = x]
               /\ x = [Idle EXCEPT !.pc = "done", !.op = operation[c].op,
                        !.id = operation[c].id, !.ran = operation[c].ran,
                        !.view = operation[c].view, !.asked = operation[c].asked,
                        !.code = e.code, !.retry = e.retry]
  BY Zenon DEF Answer
<1>2. x = Answered(operation[c], "done", operation[c].ran, e, operation[c].view,
                   operation[c].asked)
  BY <1>1, Zenon DEF Idle, Answered
<1> QED
  BY <1>1, <1>2, Zenon

LEMMA GotForm ==
  ASSUME NEW c, NEW ran, NEW got, NEW view, Got(c, ran, got, view)
  PROVE  operation' = [operation EXCEPT ![c] =
           Answered(operation[c], "answer", ran, Translated(operation[c].op, got), view,
                    SeenBy(operation[c].op, got))]
<1> DEFINE e == Translated(operation[c].op, got)
           seen == SeenBy(operation[c].op, got)
<1>1. PICK x : /\ operation' = [operation EXCEPT ![c] = x]
               /\ x = [Idle EXCEPT !.pc = "answer", !.op = operation[c].op,
                        !.id = operation[c].id, !.ran = ran, !.code = e.code,
                        !.retry = e.retry, !.view = view, !.asked = seen]
  BY Zenon DEF Got, Lists, SeenBy
<1> HIDE DEF e, seen
<1>2. x = Answered(operation[c], "answer", ran, e, view, seen)
  BY <1>1, Zenon DEF Idle, Answered
<1> QED
  BY <1>1, <1>2, Zenon DEF e, seen

LEMMA AnsweredOK ==
  ASSUME NEW ts, NEW seen, NEW w, CallOK(w, ts), NEW place \in {"answer", "done"}, NEW ran,
         NEW e, e.code \in ServiceErrorCode \cup {"Ok"}, NEW view,
         e.code \in Definite => ~ran,
         w.op = "delete_tunnel" /\ e.code \in {"Ok", "TunnelNotFound"} => ts[w.id].state # "here",
         w.op = "list_account_tunnels" /\ e.code = "Ok" => Listed(view, seen)
  PROVE  CallOK(Answered(w, place, ran, e, view, seen), ts)
<1> DEFINE new == Answered(w, place, ran, e, view, seen)
<1> SUFFICES CallOK(new, ts)
  OBVIOUS
<1>1. /\ IsCall(new) /\ new.pc = place /\ new.op = w.op /\ new.input = NoInput /\ new.id = w.id
      /\ new.ran = ran /\ new.code = e.code /\ new.view = view /\ new.asked = seen
  BY Zenon DEF Answered, IsCall
<1>2. NoInput \in Inputs
  BY DEF NoInput, Inputs
<1>3. e.code # Absent
  BY AbsentAssumption
<1> HIDE DEF new
<1> QED
  BY <1>1, <1>2, <1>3, Zenon DEF CallOK

(* The checks that come before a request.                                  *)
LEMMA ChecksAreErrors ==
  ASSUME OperationInv, NEW input \in Inputs
  PROVE  /\ CheckLifecycle.code \in ServiceErrorCode \cup {"Ok"}
         /\ CheckLifecycle = Done => life.state = "Running"
         /\ CheckDestination(input).code \in ServiceErrorCode \cup {"Ok"}
         /\ CheckDestination(input) = Done => input.port > 0
<1>1. CheckLifecycle.code \in ServiceErrorCode \cup {"Ok"}
  BY DEF OperationInv, LifeOK, CheckLifecycle, service_not_ready_error, Done, Err, ServiceErrorCode
<1>2. CheckLifecycle = Done => life.state = "Running"
  BY DEF OperationInv, LifeOK, CheckLifecycle, service_not_ready_error, Done, Err
<1>3. CheckDestination(input).code \in ServiceErrorCode \cup {"Ok"}
  BY DEF CheckDestination, Done, Err, ServiceErrorCode
<1>4. CheckDestination(input) = Done => input.port > 0
  <2>1. input.port \in {0, 80}
    BY DEF Inputs
  <2>2. input.port = 0 => CheckDestination(input) # Done
    BY DEF CheckDestination, Done, Err
  <2> QED
    BY <2>1, <2>2
<1> QED
  BY <1>1, <1>2, <1>3, <1>4

(* Translation: what a request answers has a code; only a success is Ok;   *)
(* and what may come back for a request that ran is no definite refusal.   *)
LEMMA Translations ==
  ASSUME NEW op \in {"create_tunnel", "delete_tunnel", "reassign_tunnel", "list_account_tunnels"},
         NEW got \in Refusals(op)
  PROVE  /\ Translated(op, got).code \in ServiceErrorCode
         /\ op = "delete_tunnel" => Translated(op, got).code # "TunnelNotFound"
         /\ got \in Unsure => Translated(op, got).code \notin Definite
<1> USE DEF Refusals, Translated, Unsure, CreateFailures, ConfigFailures, CreateDenied, CreateRejected,
            CreateInvalid, ServiceErrorCode, Definite, Err, map_tunnel_create_error,
            map_tunnel_delete_error, map_tunnel_config_error, map_account_tunnel_list_error,
            map_tunnel_create_failure, TunnelConfigFailure, map_api_response_error,
            map_http_client_error, ResponseErrors, ClientErrors, is_transient
<1>1. CASE op = "create_tunnel"
  BY <1>1
<1>2. CASE op = "delete_tunnel"
  BY <1>2
<1>3. CASE op = "reassign_tunnel"
  BY <1>3
<1>4. CASE op = "list_account_tunnels"
  BY <1>4
<1> QED
  BY <1>1, <1>2, <1>3, <1>4, Zenon

LEMMA ExecutedTranslations ==
  /\ \A op \in Ops : Translated(op, "Ok") = Done
  /\ Translated("delete_tunnel", "TunnelNotFound").code = "TunnelNotFound"
  /\ Translated("reassign_tunnel", "TunnelNotFound").code = "TunnelNotFound"
  /\ Translated("reassign_tunnel", "NothingToUpdate").code = "ApiRejected"
  /\ Done.code = "Ok"
  /\ \A op \in Ops : Unsure \subseteq Refusals(op)
<1>1. \A op \in Ops : Translated(op, "Ok") = Done
  BY DEF Translated
<1>2. Translated("delete_tunnel", "TunnelNotFound").code = "TunnelNotFound"
  <2>1. ASSUME NEW op, NEW got, op = "delete_tunnel", got = "TunnelNotFound"
        PROVE  Translated(op, got).code = "TunnelNotFound"
    BY <2>1 DEF Translated, map_tunnel_delete_error, ResponseErrors, ClientErrors, Err
  <2> QED
    BY <2>1, Zenon
<1>3. Translated("reassign_tunnel", "TunnelNotFound").code = "TunnelNotFound"
  <2>1. ASSUME NEW op, NEW got, op = "reassign_tunnel", got = "TunnelNotFound"
        PROVE  Translated(op, got).code = "TunnelNotFound"
    BY <2>1 DEF Translated, map_tunnel_config_error, TunnelConfigFailure, ConfigFailures,
                ResponseErrors, ClientErrors, Err
  <2> QED
    BY <2>1, Zenon
<1>4. Translated("reassign_tunnel", "NothingToUpdate").code = "ApiRejected"
  <2>1. ASSUME NEW op, NEW got, op = "reassign_tunnel", got = "NothingToUpdate"
        PROVE  Translated(op, got).code = "ApiRejected"
    BY <2>1 DEF Translated, map_tunnel_config_error, TunnelConfigFailure, ConfigFailures,
                ResponseErrors, ClientErrors, Err
  <2> QED
    BY <2>1, Zenon
<1>5. Done.code = "Ok"
  BY DEF Done, Err
<1>6. \A op \in Ops : Unsure \subseteq Refusals(op)
  BY DEF Refusals
<1> QED
  BY <1>1, <1>2, <1>3, <1>4, <1>5, <1>6

(* A call answers without having run.                                      *)
LEMMA AnswersUnrun ==
  ASSUME OperationInv, NEW c \in Requesters, NEW e, e.code \in ServiceErrorCode \cup {"Ok"},
         Answer(c, e), UNCHANGED <<life, api, cancelled, tunnels, asked>>,
         operation[c].pc \notin {"answer", "done"},
         operation[c].op = "delete_tunnel" => e.code \notin {"Ok", "TunnelNotFound"},
         operation[c].op = "list_account_tunnels" => e.code # "Ok"
  PROVE  OperationInv'
<1> DEFINE w == operation[c]
           new == Answered(w, "done", w.ran, e, w.view, w.asked)
<1>1. CallOK(w, tunnels)
  BY DEF OperationInv
<1>2. ~w.ran
  BY <1>1 DEF CallOK
<1>3. CallOK(new, tunnels)
  BY <1>1, <1>2, AnsweredOK
<1>4. operation' = [operation EXCEPT ![c] = new]
  BY AnswerForm
<1> HIDE DEF new
<1> QED
  BY <1>3, <1>4, OnlyCallMoves, Zenon

(* The steps of a call up to its request.                                  *)
LEMMA BeginKeepsInv ==
  ASSUME OperationInv, NEW c \in Requesters, begin_operation(c)
  PROVE  OperationInv'
<1>1. PICK op \in Ops, input \in Inputs, id \in Ids \cup {Absent} :
        /\ IF op \in {"delete_tunnel", "reassign_tunnel"}
           THEN id # Absent /\ tunnels[id].state # "free" ELSE id = Absent
        /\ operation' = [operation EXCEPT ![c] = [Idle EXCEPT
              !.op = op, !.input = input, !.id = id,
              !.pc = IF cancelled THEN "done"
                     ELSE IF op \in {"delete_tunnel", "list_account_tunnels"} THEN "api"
                     ELSE "lifecycle",
              !.code = IF cancelled THEN NotReady.code ELSE Absent,
              !.retry = cancelled]]
  BY Zenon DEF begin_operation
<1> DEFINE new ==
      [pc |-> IF cancelled THEN "done"
              ELSE IF op \in {"delete_tunnel", "list_account_tunnels"} THEN "api" ELSE "lifecycle",
       op |-> op, input |-> input, id |-> id, agent |-> Absent, ran |-> FALSE,
       code |-> IF cancelled THEN "ApiUnavailable" ELSE Absent, retry |-> cancelled,
       view |-> Absent, asked |-> Absent]
<1>2. operation' = [operation EXCEPT ![c] = new]
  <2>1. NotReady.code = "ApiUnavailable"
    BY DEF NotReady, Err
  <2>2. PICK x : /\ operation' = [operation EXCEPT ![c] = x]
                 /\ x = [Idle EXCEPT
                           !.op = op, !.input = input, !.id = id,
                           !.pc = IF cancelled THEN "done"
                                  ELSE IF op \in {"delete_tunnel", "list_account_tunnels"} THEN "api"
                                  ELSE "lifecycle",
                           !.code = IF cancelled THEN NotReady.code ELSE Absent,
                           !.retry = cancelled]
    BY <1>1, Zenon
  <2>3. x = new
    BY <2>1, <2>2, Zenon DEF Idle
  <2> QED
    BY <2>2, <2>3, Zenon
<1>3. CallOK(new, tunnels)
  <2>1. /\ IsCall(new) /\ new.op = op /\ new.input = input /\ new.id = id /\ ~new.ran
        /\ \/ new.pc = "done" /\ new.code = "ApiUnavailable"
           \/ new.pc = "lifecycle" /\ new.code = Absent
           \/ /\ new.pc = "api" /\ new.code = Absent
              /\ op \in {"delete_tunnel", "list_account_tunnels"}
    BY DEF IsCall
  <2>2. Absent \notin {"Ok", "TunnelNotFound", "ApiUnavailable"}
    BY AbsentAssumption DEF ServiceErrorCode
  <2> HIDE DEF new
  <2> QED
    BY <1>1, <2>1, <2>2 DEF CallOK
<1>4. UNCHANGED <<life, api, cancelled, tunnels, asked>>
  BY DEF begin_operation
<1> HIDE DEF new
<1> QED
  BY <1>2, <1>3, <1>4, OnlyCallMoves, Zenon

LEMMA PrepareKeepsInv ==
  ASSUME OperationInv, NEW c \in Requesters, create_tunnel(c) \/ reassign_tunnel(c)
  PROVE  OperationInv'
<1>1. PICK op \in {"create_tunnel", "reassign_tunnel"} :
        \E e : /\ Prepare(c, op, e)
               /\ e = (IF CheckDestination(operation[c].input) # Done
                       THEN CheckDestination(operation[c].input) ELSE CheckLifecycle)
  BY DEF create_tunnel, reassign_tunnel, create_request_with_protocol, reassign_request
<1>2. PICK e : /\ Prepare(c, op, e)
               /\ e = (IF CheckDestination(operation[c].input) # Done
                       THEN CheckDestination(operation[c].input) ELSE CheckLifecycle)
  BY <1>1
<1> DEFINE w == operation[c]
<1>3. CallOK(w, tunnels)
  BY DEF OperationInv
<1>4. w.input \in Inputs
  BY <1>3, Zenon DEF CallOK
<1>5. /\ e.code \in ServiceErrorCode \cup {"Ok"}
      /\ e = Done => life.state = "Running" /\ w.input.port > 0
  BY <1>2, <1>4, ChecksAreErrors, Zenon
<1>6. /\ w.op = op /\ w.pc = "lifecycle"
      /\ IF e = Done THEN operation' = [operation EXCEPT ![c].pc = "api", ![c].agent = life.agent]
         ELSE Answer(c, e)
      /\ UNCHANGED <<life, api, cancelled, tunnels, asked>>
  BY <1>2 DEF Prepare
<1>7. CASE e = Done
  <2> DEFINE new == [pc |-> "api", op |-> w.op, input |-> w.input, id |-> w.id,
                     agent |-> life.agent, ran |-> w.ran, code |-> w.code, retry |-> w.retry,
                     view |-> w.view, asked |-> w.asked]
  <2>1. w = [pc |-> w.pc, op |-> w.op, input |-> w.input, id |-> w.id, agent |-> w.agent,
             ran |-> w.ran, code |-> w.code, retry |-> w.retry, view |-> w.view,
             asked |-> w.asked]
    BY <1>3, Zenon DEF CallOK, IsCall
  <2>2. PICK x : /\ operation' = [operation EXCEPT ![c] = x]
                 /\ x = [w EXCEPT !.pc = "api", !.agent = life.agent]
    BY <1>6, <1>7 DEF OperationInv
  <2>3. x = new
    BY <2>1, <2>2, Zenon
  <2>4. operation' = [operation EXCEPT ![c] = new]
    BY <2>2, <2>3, Zenon
  <2>5. life.agent \in Agents
    BY <1>5, <1>7 DEF OperationInv, LifeOK
  <2>6. CallOK(new, tunnels)
    <3>1. /\ IsCall(new) /\ new.op = op /\ new.input = w.input /\ new.id = w.id /\ new.ran = w.ran
          /\ new.pc = "api" /\ new.code = w.code /\ new.agent \in Agents
      BY <1>6, <2>5 DEF IsCall
    <3> HIDE DEF new
    <3> QED
      BY <1>3, <1>5, <1>6, <1>7, <3>1 DEF CallOK
  <2> HIDE DEF new
  <2> QED
    BY <1>6, <2>4, <2>6, OnlyCallMoves, Zenon
<1>8. CASE e # Done
  BY <1>5, <1>6, <1>8, AnswersUnrun
<1> QED
  BY <1>7, <1>8

LEMMA SendKeepsInv ==
  ASSUME OperationInv, NEW c \in Requesters,
         NEW op \in {"create_tunnel", "delete_tunnel", "reassign_tunnel", "list_account_tunnels"},
         Send(c, op)
  PROVE  OperationInv'
<1> DEFINE w == operation[c]
<1>1. CallOK(w, tunnels)
  BY DEF OperationInv
<1>2. /\ w.op = op /\ w.pc = "api"
      /\ IF api = Absent THEN Answer(c, NotReady)
         ELSE operation' = [operation EXCEPT ![c].pc = "wire"]
      /\ UNCHANGED <<life, api, cancelled, tunnels, asked>>
  BY DEF Send
<1>3. CASE api = Absent
  <2>1. NotReady.code = "ApiUnavailable"
    BY DEF NotReady, Err
  <2>2. NotReady.code \in ServiceErrorCode
    BY <2>1 DEF ServiceErrorCode
  <2> QED
    BY <1>2, <1>3, <2>1, <2>2, AnswersUnrun
<1>4. CASE api # Absent
  <2> DEFINE new == [pc |-> "wire", op |-> w.op, input |-> w.input, id |-> w.id,
                     agent |-> w.agent, ran |-> w.ran, code |-> w.code, retry |-> w.retry,
                     view |-> w.view, asked |-> w.asked]
  <2>1. w = [pc |-> w.pc, op |-> w.op, input |-> w.input, id |-> w.id, agent |-> w.agent,
             ran |-> w.ran, code |-> w.code, retry |-> w.retry, view |-> w.view,
             asked |-> w.asked]
    BY <1>1, Zenon DEF CallOK, IsCall
  <2>2. operation' = [operation EXCEPT ![c] = [w EXCEPT !.pc = "wire"]]
    BY <1>2, <1>4 DEF OperationInv
  <2>3. [w EXCEPT !.pc = "wire"] = new
    BY <2>1
  <2>4. operation' = [operation EXCEPT ![c] = new]
    BY <2>2, <2>3, Zenon
  <2>5. CallOK(new, tunnels)
    <3>1. /\ IsCall(new) /\ new.op = op /\ new.input = w.input /\ new.id = w.id /\ new.ran = w.ran
          /\ new.pc = "wire" /\ new.code = w.code /\ new.agent = w.agent /\ new.view = w.view
          /\ new.asked = w.asked
      BY <1>2 DEF IsCall
    <3> HIDE DEF new
    <3> QED
      BY <1>1, <1>2, <3>1 DEF CallOK
  <2> HIDE DEF new
  <2> QED
    BY <1>2, <2>4, <2>5, OnlyCallMoves, Zenon
<1> QED
  BY <1>3, <1>4

(* The answer to a request that changed nothing.                           *)
LEMMA FoundKeepsInv ==
  ASSUME OperationInv, NEW c \in Requesters, NEW got, NEW view,
         operation[c].pc = "wire", Got(c, FALSE, got, view),
         UNCHANGED <<life, api, cancelled, tunnels, asked>>,
         Translated(operation[c].op, got).code \in ServiceErrorCode \cup {"Ok"},
         operation[c].op = "delete_tunnel"
           /\ Translated(operation[c].op, got).code \in {"Ok", "TunnelNotFound"}
           => tunnels[operation[c].id].state # "here",
         operation[c].op = "list_account_tunnels"
           /\ Translated(operation[c].op, got).code = "Ok"
           => Listed(view, SeenBy(operation[c].op, got))
  PROVE  OperationInv'
<1> DEFINE w == operation[c]
           e == Translated(w.op, got)
           seen == SeenBy(w.op, got)
           new == Answered(w, "answer", FALSE, e, view, seen)
<1>1. operation' = [operation EXCEPT ![c] = new]
  BY GotForm, Zenon
<1>2. CallOK(w, tunnels)
  BY DEF OperationInv
<1> HIDE DEF e, seen
<1>3. CallOK(new, tunnels)
  BY <1>2, AnsweredOK, Zenon DEF e, seen
<1> HIDE DEF new
<1> QED
  BY <1>1, <1>3, OnlyCallMoves, Zenon

(* The answer to a request that did not run.                               *)
LEMMA RefusedKeepsInv ==
  ASSUME OperationInv, NEW c \in Requesters, refuse(c) \/ parse_tunnel_id(c) \/ list_tunnels(c)
  PROVE  OperationInv'
<1> DEFINE w == operation[c]
<1>1. CallOK(w, tunnels)
  BY DEF OperationInv
<1>2. CASE parse_tunnel_id(c)
  <2>1. /\ w.pc \in {"api", "lifecycle"} /\ w.op \in {"delete_tunnel", "reassign_tunnel"}
        /\ Answer(c, Err("InvalidTunnelRequest", FALSE))
        /\ UNCHANGED <<life, api, cancelled, tunnels, asked>>
    BY <1>2, Zenon DEF parse_tunnel_id
  <2>2. /\ Err("InvalidTunnelRequest", FALSE).code = "InvalidTunnelRequest"
        /\ "InvalidTunnelRequest" \in ServiceErrorCode
    BY DEF Err, ServiceErrorCode
  <2> QED
    BY <2>1, <2>2, AnswersUnrun, Zenon
<1>3. CASE list_tunnels(c)
  <2>1. /\ w.pc = "lifecycle" /\ w.op = "list_tunnels" /\ Answer(c, CheckLifecycle)
        /\ UNCHANGED <<life, api, cancelled, tunnels, asked>>
    BY <1>3 DEF list_tunnels, tunnel_list
  <2>2. NoInput \in Inputs
    BY DEF NoInput, Inputs
  <2>3. CheckLifecycle.code \in ServiceErrorCode \cup {"Ok"}
    BY <2>2, ChecksAreErrors
  <2> QED
    BY <2>1, <2>3, AnswersUnrun
<1>4. CASE refuse(c)
  <2>1. PICK got \in Refusals(w.op) : Got(c, FALSE, got, Absent)
    BY <1>4, Zenon DEF refuse
  <2>2. w.op \in {"create_tunnel", "delete_tunnel", "reassign_tunnel", "list_account_tunnels"}
    BY <1>1, <1>4, Zenon DEF CallOK, refuse
  <2>3. /\ Translated(w.op, got).code \in ServiceErrorCode
        /\ w.op = "delete_tunnel" => Translated(w.op, got).code # "TunnelNotFound"
    BY <2>2, Translations
  <2>4. "Ok" \notin ServiceErrorCode
    BY DEF ServiceErrorCode
  <2>5. w.pc = "wire" /\ UNCHANGED <<life, api, cancelled, tunnels, asked>>
    BY <1>4, Zenon DEF refuse
  <2> QED
    BY <2>1, <2>3, <2>4, <2>5, FoundKeepsInv, Zenon
<1> QED
  BY <1>2, <1>3, <1>4

(* What the server executed and what came back for it.                     *)
LEMMA ReplyKeepsInv ==
  ASSUME OperationInv, NEW c \in Requesters, reply(c)
  PROVE  OperationInv'
<1> DEFINE w == operation[c]
           e == Err(w.code, w.retry)
           new == Answered(w, "done", w.ran, e, w.view, w.asked)
<1>1. CallOK(w, tunnels) /\ w.pc = "answer"
  BY DEF OperationInv, reply
<1>2. operation' = [operation EXCEPT ![c] = new]
  BY AnswerForm DEF reply
<1>3. CallOK(new, tunnels)
  <2>1. /\ IsCall(new) /\ new.pc = "done" /\ new.op = w.op /\ new.input = NoInput /\ new.id = w.id
        /\ new.ran = w.ran /\ new.code = w.code /\ new.view = w.view /\ new.asked = w.asked
    BY Zenon DEF Answered, IsCall, Err
  <2>2. NoInput \in Inputs
    BY DEF NoInput, Inputs
  <2> HIDE DEF new
  <2> QED
    BY <1>1, <2>1, <2>2, Zenon DEF CallOK
<1> HIDE DEF new
<1> QED
  BY <1>2, <1>3, OnlyCallMoves, Zenon DEF reply

(* The listing of the tunnels.                                             *)
LEMMA ListingIsListed ==
  ASSUME OperationInv
  PROVE  Listed(account_tunnel_list, asked)
<1> DEFINE S == {j \in Ids : tunnels[j].state = "here"}
<1>1. DOMAIN account_tunnel_list = S
      /\ \A i \in S : account_tunnel_list[i] = account_tunnel_view(tunnels[i])
  BY DEF account_tunnel_list
<1>2. ASSUME NEW i \in S
      PROVE  /\ account_tunnel_view(tunnels[i]).is_disabled <=>
                  account_tunnel_view(tunnels[i]).disabled_reason # {}
             /\ account_tunnel_view(tunnels[i]).agent_id # Absent =>
                  Destined(account_tunnel_view(tunnels[i]).agent_id,
                           account_tunnel_view(tunnels[i]).destination, asked[i])
  <2>1. /\ account_tunnel_view(tunnels[i]).agent_id = tunnels[i].agent
        /\ account_tunnel_view(tunnels[i]).destination = tunnels[i].fields
    BY DEF account_tunnel_view
  <2>2. account_tunnel_view(tunnels[i]).is_disabled <=>
          account_tunnel_view(tunnels[i]).disabled_reason # {}
    BY DEF account_tunnel_view
  <2>3. tunnels[i].agent # Absent => Destined(tunnels[i].agent, tunnels[i].fields, asked[i])
    BY DEF OperationInv, TunnelsOK, TunnelOK
  <2> QED
    BY <2>1, <2>2, <2>3
<1> QED
  BY <1>1, <1>2 DEF Listed

(* One tunnel changes.                                                     *)
LEMMA OneTunnelChanges ==
  ASSUME OperationInv, NEW i \in Ids, NEW t, NEW q,
         tunnels' = [tunnels EXCEPT ![i] = t],
         asked' = [asked EXCEPT ![i] = q], TunnelOK(t, q),
         t.state # "free", tunnels[i].state \notin {"free", "here"} => t.state # "here"
  PROVE  TunnelsOK(tunnels', asked') /\ Grows(tunnels, tunnels')
<1>1. /\ tunnels' = [j \in Ids |-> tunnels'[j]] /\ asked' = [j \in Ids |-> asked'[j]]
      /\ tunnels'[i] = t /\ asked'[i] = q
      /\ \A j \in Ids \ {i} : tunnels'[j] = tunnels[j] /\ asked'[j] = asked[j]
  BY Zenon DEF OperationInv, TunnelsOK
<1>2. \A j \in Ids : TunnelOK(tunnels[j], asked[j])
  BY DEF OperationInv, TunnelsOK
<1>3. \A j \in Ids : TunnelOK(tunnels'[j], asked'[j])
  BY <1>1, <1>2
<1> QED
  BY <1>1, <1>3 DEF TunnelsOK, Grows

(* A request that the server executes.                                     *)
LEMMA ChangeKeepsInv ==
  ASSUME OperationInv, NEW c \in Requesters, NEW i \in Ids, NEW t, NEW q,
         operation[c].pc = "wire",
         operation[c].op \in {"create_tunnel", "delete_tunnel", "reassign_tunnel"},
         operation[c].op = "delete_tunnel" => i = operation[c].id /\ t.state # "here",
         UNCHANGED <<life, api, cancelled>>,
         tunnels' = [tunnels EXCEPT ![i] = t],
         asked' = [asked EXCEPT ![i] = q], TunnelOK(t, q),
         t.state # "free", tunnels[i].state \notin {"free", "here"} => t.state # "here",
         \E got \in Unsure \cup {"Ok"} : Got(c, TRUE, got, Absent)
  PROVE  OperationInv'
<1> DEFINE w == operation[c]
<1>1. PICK got \in Unsure \cup {"Ok"} : Got(c, TRUE, got, Absent)
  BY Zenon
<1> DEFINE e == Translated(w.op, got)
           seen == SeenBy(w.op, got)
           new == Answered(w, "answer", TRUE, e, Absent, seen)
<1>2. operation' = [operation EXCEPT ![c] = new]
  BY <1>1, GotForm, Zenon
<1>3. TunnelsOK(tunnels', asked') /\ Grows(tunnels, tunnels')
  BY OneTunnelChanges, Zenon
<1>4. CallOK(w, tunnels')
  BY <1>3, CallsOutlast DEF OperationInv
<1>5. e.code \in ServiceErrorCode \cup {"Ok"} /\ e.code \notin Definite
  <2>1. w.op \in Ops
    BY DEF Ops
  <2>2. CASE got = "Ok"
    BY <2>1, <2>2, ExecutedTranslations DEF Definite
  <2>3. CASE got \in Unsure
    BY <2>1, <2>3, ExecutedTranslations, Translations
  <2> QED
    BY <2>2, <2>3, Zenon
<1>6. w.op = "delete_tunnel" => tunnels'[w.id].state # "here"
  BY DEF OperationInv, TunnelsOK
<1>7. LifeOK'
  BY DEF OperationInv, LifeOK
<1> HIDE DEF e, seen
<1>8. CallOK(new, tunnels')
  BY <1>4, <1>5, <1>6, AnsweredOK, Zenon
<1> HIDE DEF new
<1> QED
  BY <1>2, <1>3, <1>7, <1>8, OneCallMoves, Zenon

LEMMA GoneTunnel ==
  \A x : x = [NoTunnel EXCEPT !.state = "deleted"] =>
            IsTunnel(x) /\ x.state = "deleted" /\ x.agent = Absent
<1> SUFFICES ASSUME NEW x, x = [NoTunnel EXCEPT !.state = "deleted"]
             PROVE  IsTunnel(x) /\ x.state = "deleted" /\ x.agent = Absent
  BY Zenon
<1>1. IsTunnel(x) /\ x.agent = Absent
  BY Zenon DEF NoTunnel, IsTunnel
<1>2. x.state = "deleted"
  BY DEF NoTunnel
<1> QED
  BY <1>1, <1>2

LEMMA ExecuteKeepsInv ==
  ASSUME OperationInv, NEW c \in Requesters, execute_operation(c)
  PROVE  OperationInv'
<1> DEFINE w == operation[c]
           created == [state |-> "here", agent |-> w.agent, fields |-> config_fields(w.input),
                       enabled |-> TRUE, reasons |-> {}]
           moved == [tunnels[w.id] EXCEPT !.agent = w.agent, !.fields = config_fields(w.input)]
           gone == [NoTunnel EXCEPT !.state = "deleted"]
           q == [agent |-> w.agent, input |-> w.input]
           Runs == \E got \in Unsure \cup {"Ok"} : Got(c, TRUE, got, Absent)
<1>1. CallOK(w, tunnels)
  BY DEF OperationInv
<1>2. w.pc = "wire" /\ UNCHANGED <<life, api, cancelled>>
  BY DEF execute_operation
<1>3. w.op \in {"create_tunnel", "reassign_tunnel"} =>
        Destined(w.agent, config_fields(w.input), q)
  <2>1. w.op \in {"create_tunnel", "reassign_tunnel"} => w.input.port > 0
    BY <1>1, <1>2, Zenon DEF CallOK
  <2> QED
    BY <2>1 DEF Destined, config_fields
<1>4. CASE /\ w.op = "create_tunnel"
           /\ \E i \in Ids : /\ tunnels[i].state = "free" /\ tunnels' = [tunnels EXCEPT ![i] = created]
                             /\ asked' = [asked EXCEPT ![i] = q] /\ Runs
  <2>1. PICK i \in Ids : /\ tunnels[i].state = "free" /\ tunnels' = [tunnels EXCEPT ![i] = created]
                         /\ asked' = [asked EXCEPT ![i] = q] /\ Runs
    BY <1>4, Zenon
  <2>3. /\ IsTunnel(created) /\ created.state = "here" /\ created.agent = w.agent
        /\ created.fields = config_fields(w.input)
    BY Zenon DEF IsTunnel
  <2> HIDE DEF q
  <2>4. TunnelOK(created, q)
    BY <1>3, <1>4, <2>3, Zenon DEF TunnelOK
  <2> HIDE DEF created
  <2> QED
    BY <1>2, <1>4, <2>1, <2>3, <2>4, ChangeKeepsInv, Zenon
<1>5. CASE /\ w.op = "reassign_tunnel" /\ tunnels[w.id].state = "here"
           /\ tunnels' = [tunnels EXCEPT ![w.id] = moved]
           /\ asked' = [asked EXCEPT ![w.id] = q] /\ Runs
  <2>1. w.id \in Ids
    BY <1>1, <1>5 DEF CallOK
  <2>3. PICK t : t = moved
    OBVIOUS
  <2>4. /\ IsTunnel(t) /\ t.state = tunnels[w.id].state /\ t.agent = w.agent
        /\ t.fields = config_fields(w.input)
    <3>1. IsTunnel(tunnels[w.id])
      BY <2>1 DEF OperationInv, TunnelsOK, TunnelOK
    <3> QED
      BY <2>3, <3>1, Zenon DEF IsTunnel
  <2> HIDE DEF q
  <2>5. TunnelOK(t, q)
    BY <1>3, <1>5, <2>4 DEF TunnelOK
  <2>6. tunnels' = [tunnels EXCEPT ![w.id] = t]
    BY <1>5, <2>3
  <2> HIDE DEF moved
  <2> QED
    BY <1>2, <1>5, <2>1, <2>4, <2>5, <2>6, ChangeKeepsInv, Zenon
<1>6. CASE /\ w.op = "delete_tunnel"
           /\ tunnels' = [tunnels EXCEPT ![w.id] = gone] /\ Runs /\ UNCHANGED asked
  <2>1. w.id \in Ids
    BY <1>1, <1>6 DEF CallOK
  <2>2. asked' = [asked EXCEPT ![w.id] = asked[w.id]]
    BY <1>6 DEF OperationInv, TunnelsOK
  <2>3. IsTunnel(gone) /\ gone.state = "deleted" /\ gone.agent = Absent
    BY GoneTunnel, Zenon
  <2>4. TunnelOK(gone, asked[w.id])
    BY <2>3 DEF TunnelOK
  <2> HIDE DEF gone
  <2> QED
    BY <1>2, <1>6, <2>1, <2>2, <2>3, <2>4, ChangeKeepsInv, Zenon
<1>7. CASE /\ w.op \in {"delete_tunnel", "reassign_tunnel"} /\ tunnels[w.id].state # "here"
           /\ Got(c, FALSE, "TunnelNotFound", Absent) /\ UNCHANGED <<tunnels, asked>>
  <2>1. Translated(w.op, "TunnelNotFound").code = "TunnelNotFound"
    BY <1>7, ExecutedTranslations, Zenon
  <2>2. "TunnelNotFound" \in ServiceErrorCode
    BY DEF ServiceErrorCode
  <2> QED
    BY <1>2, <1>7, <2>1, <2>2, FoundKeepsInv, Zenon
<1>8. CASE /\ w.op = "reassign_tunnel"
           /\ Got(c, FALSE, "NothingToUpdate", Absent) /\ UNCHANGED <<tunnels, asked>>
  <2>1. Translated(w.op, "NothingToUpdate").code = "ApiRejected"
    BY <1>8, ExecutedTranslations
  <2>2. "ApiRejected" \in ServiceErrorCode
    BY DEF ServiceErrorCode
  <2> QED
    BY <1>2, <1>8, <2>1, <2>2, FoundKeepsInv, Zenon
<1>9. CASE /\ w.op = "list_account_tunnels"
           /\ Got(c, FALSE, "Ok", account_tunnel_list) /\ UNCHANGED <<tunnels, asked>>
  <2>1. Translated(w.op, "Ok").code = "Ok"
    BY <1>9, ExecutedTranslations DEF Ops
  <2>2. Listed(account_tunnel_list, SeenBy(w.op, "Ok"))
    BY <1>9, ListingIsListed DEF SeenBy
  <2> QED
    BY <1>2, <1>9, <2>1, <2>2, FoundKeepsInv, Zenon
<1> QED
  BY <1>4, <1>5, <1>6, <1>7, <1>8, <1>9, Zenon DEF execute_operation

(* The supervisor and the account beside the calls.                        *)
LEMMA OthersKeepInv ==
  ASSUME OperationInv,
         \/ build_agent \/ publish_running \/ reject_secret \/ publish_state \/ request_stop
         \/ change_tunnel \/ add_tunnel \/ UNCHANGED operations
  PROVE  OperationInv'
<1>1. ASSUME UNCHANGED <<tunnels, asked, operation>>, LifeOK' PROVE OperationInv'
  BY <1>1 DEF OperationInv
<1>2. LifeOK
  BY DEF OperationInv
<1>3. CASE build_agent \/ request_stop \/ UNCHANGED operations
  <2>1. UNCHANGED <<tunnels, asked, operation, life>> /\ api' \in Agents \cup {Absent}
    BY <1>2, <1>3 DEF build_agent, request_stop, operations, LifeOK
  <2> QED
    BY <1>1, <1>2, <2>1 DEF LifeOK
<1>4. CASE publish_running
  <2>1. /\ UNCHANGED <<tunnels, asked, operation, api>> /\ api # Absent
        /\ life' = [state |-> "Running", agent |-> api]
    BY <1>4 DEF publish_running
  <2>2. LifeOK'
    BY <1>2, <2>1 DEF LifeOK
  <2> QED
    BY <1>1, <2>1, <2>2
<1>5. CASE reject_secret \/ publish_state
  <2>1. UNCHANGED <<tunnels, asked, operation>> /\ api' \in Agents \cup {Absent}
    BY <1>2, <1>5 DEF reject_secret, publish_state, LifeOK
  <2>2. PICK st \in {"WaitingForSecret", "Starting", "DisabledOverLimit", "Error", "Stopping"} :
          life' = [state |-> st, agent |-> Absent]
    BY <1>5 DEF reject_secret, publish_state, State
  <2>3. LifeOK'
    BY <2>1, <2>2 DEF LifeOK
  <2> QED
    BY <1>1, <2>1, <2>3
<1>6. CASE change_tunnel
  <2>1. PICK i \in Ids :
          /\ tunnels[i].state = "here"
          /\ \/ tunnels' = [tunnels EXCEPT ![i].enabled = ~@]
             \/ tunnels' = [tunnels EXCEPT ![i] = [NoTunnel EXCEPT !.state = "deleted"]]
             \/ tunnels' = [tunnels EXCEPT ![i].reasons =
                                IF @ = {} THEN {"agent over limit"} ELSE {}]
    BY <1>6 DEF change_tunnel
  <2>2. UNCHANGED <<life, api, cancelled, asked, operation>>
    BY <1>6 DEF change_tunnel
  <2> DEFINE t == tunnels[i]
  <2>3. TunnelOK(t, asked[i]) /\ tunnels = [j \in Ids |-> tunnels[j]]
    BY DEF OperationInv, TunnelsOK
  <2>4. PICK x : /\ tunnels' = [tunnels EXCEPT ![i] = x] /\ IsTunnel(x)
                 /\ \/ x.state = "deleted" /\ x.agent = Absent
                    \/ x.state = "here" /\ x.agent = t.agent /\ x.fields = t.fields
    <3>1. t = [state |-> t.state, agent |-> t.agent, fields |-> t.fields, enabled |-> t.enabled,
               reasons |-> t.reasons]
      BY <2>3 DEF TunnelOK, IsTunnel
    <3>2. CASE tunnels' = [tunnels EXCEPT ![i].enabled = ~@]
      <4>1. tunnels' = [tunnels EXCEPT ![i] = [t EXCEPT !.enabled = ~t.enabled]]
        BY <3>2, <2>3
      <4>2. IsTunnel([t EXCEPT !.enabled = ~t.enabled])
            /\ [t EXCEPT !.enabled = ~t.enabled].state = t.state
            /\ [t EXCEPT !.enabled = ~t.enabled].agent = t.agent
            /\ [t EXCEPT !.enabled = ~t.enabled].fields = t.fields
        BY <3>1 DEF IsTunnel
      <4> QED
        BY <2>1, <4>1, <4>2, Zenon
    <3>3. CASE tunnels' = [tunnels EXCEPT ![i] = [NoTunnel EXCEPT !.state = "deleted"]]
      <4>1. /\ IsTunnel([NoTunnel EXCEPT !.state = "deleted"])
            /\ [NoTunnel EXCEPT !.state = "deleted"].state = "deleted"
            /\ [NoTunnel EXCEPT !.state = "deleted"].agent = Absent
        BY GoneTunnel, Zenon
      <4> QED
        BY <3>3, <4>1, Zenon
    <3>4. CASE tunnels' = [tunnels EXCEPT ![i].reasons =
                                IF @ = {} THEN {"agent over limit"} ELSE {}]
      <4> DEFINE r == IF t.reasons = {} THEN {"agent over limit"} ELSE {}
      <4>1. tunnels' = [tunnels EXCEPT ![i] = [t EXCEPT !.reasons = r]]
        BY <3>4, <2>3
      <4> HIDE DEF r
      <4>2. IsTunnel([t EXCEPT !.reasons = r])
            /\ [t EXCEPT !.reasons = r].state = t.state
            /\ [t EXCEPT !.reasons = r].agent = t.agent
            /\ [t EXCEPT !.reasons = r].fields = t.fields
        BY <3>1 DEF IsTunnel
      <4> QED
        BY <2>1, <4>1, <4>2
    <3> QED
      BY <2>1, <3>2, <3>3, <3>4
  <2>5. TunnelOK(x, asked[i])
    BY <2>3, <2>4 DEF TunnelOK
  <2>6. asked' = [asked EXCEPT ![i] = asked[i]]
    BY <2>2 DEF OperationInv, TunnelsOK
  <2>7. x.state # "free" /\ (tunnels[i].state \notin {"free", "here"} => x.state # "here")
    BY <2>1, <2>4
  <2>8. TunnelsOK(tunnels', asked') /\ Grows(tunnels, tunnels')
    BY <2>4, <2>5, <2>6, <2>7, OneTunnelChanges, Zenon
  <2>9. \A c \in Requesters : CallOK(operation[c], tunnels')
    BY <2>8, CallsOutlast DEF OperationInv
  <2>10. LifeOK'
    BY <1>2, <2>2 DEF LifeOK
  <2> QED
    BY <2>2, <2>8, <2>9, <2>10 DEF OperationInv
<1>7. CASE add_tunnel
  <2> DEFINE input == [port |-> 80, addr |-> "10.0.0.1"]
  <2>1. PICK i \in Ids, a \in Agents :
          /\ tunnels[i].state = "free"
          /\ tunnels' = [tunnels EXCEPT ![i] = [NoTunnel EXCEPT !.state = "here", !.agent = a,
                                                   !.fields = config_fields(input)]]
          /\ asked' = [asked EXCEPT ![i] = [agent |-> a, input |-> input]]
    BY <1>7, Zenon DEF add_tunnel
  <2>2. UNCHANGED <<life, api, cancelled, operation>>
    BY <1>7 DEF add_tunnel
  <2>3. PICK q : q = [agent |-> a, input |-> input]
    OBVIOUS
  <2>4. q.agent = a /\ q.input = input /\ input.port > 0
    BY <2>3
  <2> HIDE DEF input
  <2>5. PICK t : t = [NoTunnel EXCEPT !.state = "here", !.agent = a,
                                      !.fields = config_fields(input)]
    OBVIOUS
  <2>6. /\ IsTunnel(t) /\ t.state = "here" /\ t.agent = a
        /\ t.fields = config_fields(input)
    BY <2>5, Zenon DEF NoTunnel, IsTunnel
  <2>7. Destined(a, config_fields(input), q)
    BY <2>4 DEF Destined, config_fields
  <2>8. TunnelOK(t, q)
    BY <2>6, <2>7, Zenon DEF TunnelOK
  <2>9. tunnels' = [tunnels EXCEPT ![i] = t] /\ asked' = [asked EXCEPT ![i] = q]
    BY <2>1, <2>3, <2>5, Zenon
  <2>10. TunnelsOK(tunnels', asked') /\ Grows(tunnels, tunnels')
    BY <2>1, <2>6, <2>8, <2>9, OneTunnelChanges, Zenon
  <2>11. \A c \in Requesters : CallOK(operation[c], tunnels')
    BY <2>10, CallsOutlast DEF OperationInv
  <2>12. LifeOK'
    BY <1>2, <2>2 DEF LifeOK
  <2> QED
    BY <2>2, <2>10, <2>11, <2>12 DEF OperationInv
<1> QED
  BY <1>3, <1>4, <1>5, <1>6, <1>7

LEMMA OperationInvInit == OperationInit => OperationInv
<1> SUFFICES ASSUME OperationInit PROVE OperationInv
  OBVIOUS
<1>1. LifeOK
  BY DEF OperationInit, LifeOK, State
<1>2. TunnelsOK(tunnels, asked)
  <2>1. /\ \A i \in Ids : tunnels[i] \in {NoTunnel, [NoTunnel EXCEPT !.state = "here"]}
        /\ tunnels = [i \in Ids |-> tunnels[i]] /\ asked = [i \in Ids |-> asked[i]]
    BY DEF OperationInit
  <2>2. \A t \in {NoTunnel, [NoTunnel EXCEPT !.state = "here"]} : IsTunnel(t) /\ t.agent = Absent
    BY DEF NoTunnel, IsTunnel
  <2> QED
    BY <2>1, <2>2, Zenon DEF TunnelsOK, TunnelOK
<1>3. CallOK(Idle, tunnels)
  <2>1. NoInput \in Inputs
    BY DEF NoInput, Inputs
  <2>2. /\ IsCall(Idle) /\ Idle.pc = "idle" /\ Idle.op = Absent /\ Idle.code = Absent
        /\ Idle.input = NoInput /\ ~Idle.ran
    BY DEF Idle, IsCall
  <2>3. /\ Absent \notin {"delete_tunnel", "reassign_tunnel", "list_account_tunnels"}
    BY AbsentAssumption DEF Ops
  <2> QED
    BY <2>1, <2>2, <2>3 DEF CallOK
<1>4. operation = [c \in Requesters |-> Idle]
  BY DEF OperationInit
<1> QED
  BY <1>1, <1>2, <1>3, <1>4 DEF OperationInv

LEMMA OperationInvHolds == OperationSpec => []OperationInv
<1>1. OperationInv /\ [OperationNext]_operations => OperationInv'
  BY BeginKeepsInv, PrepareKeepsInv, SendKeepsInv, RefusedKeepsInv, ReplyKeepsInv,
     ExecuteKeepsInv, OthersKeepInv
     DEF OperationNext, create_v1_tunnel, send_reassign, delete_tunnel, list_account_tunnels
<1> QED
  BY <1>1, OperationInvInit, PTL DEF OperationSpec

(* The lifecycle and the calls keep their types, and a request that needs  *)
(* an agent names one (tunnels.rs, handle.rs).                             *)
THEOREM OperationTypeCorrect == OperationSpec => []OperationTypeOK
<1>1. OperationInv => OperationTypeOK
  BY DEF OperationInv, LifeOK, CallOK, OperationTypeOK
<1> QED
  BY <1>1, OperationInvHolds, PTL

(* What the operations on tunnels report is true for any number of agents, *)
(* callers and tunnels, whatever answers are lost and whatever others do   *)
(* to the tunnels (tunnels.rs, handle.rs).                                 *)
THEOREM AnswersStayTrue == OperationSpec => []AnswersAreTrue
<1>1. OperationInv => RefusedIsUndone
  BY DEF OperationInv, CallOK, RefusedIsUndone, Definite
<1>2. OperationInv => DeletedIsGone
  BY DEF OperationInv, CallOK, DeletedIsGone
<1>3. OperationInv => ListingIsTrue
  BY DEF OperationInv, CallOK, ListingIsTrue, Listed, Destined
<1>4. OperationInv => AnswersAreTrue
  BY <1>1, <1>2, <1>3 DEF AnswersAreTrue
<1> QED
  BY <1>4, OperationInvHolds, PTL
==============================================================================
