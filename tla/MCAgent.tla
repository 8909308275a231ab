------------------------------ MODULE MCAgent -------------------------------
(***************************************************************************)
(* Instance for TLC of four components that do not interact: the packet     *)
(* pool, the TCP clients, the provisioning of a secret and the commands of  *)
(* the account.  A behaviour is one of one of them; which says of which.    *)
(***************************************************************************)
EXTENDS PacketPool, TcpClients, AccountCli

CONSTANTS
  Callers, Starters, Codes, Old, Capacity, None   \* of Provisioning

VARIABLES
  which,
  sup, lifecycle_waiting, runtime_cancel, channel, request, answer, in_use, file, caller,
  starter, started, claim_code, claim, claim_tasks, joining, reset, owner

Prov == INSTANCE Provisioning WITH cancel <- runtime_cancel

provisioning == <<sup, lifecycle_waiting, runtime_cancel, channel, request, answer, in_use, file,
                  caller, starter, started, claim_code, claim, claim_tasks, joining, reset, owner>>
agent_vars == <<which, pool_vars, tvars, provisioning, pvars>>

AgentInit ==
  /\ which \in {"pool", "tcp", "provisioning", "account"}
  /\ PoolInit /\ TcpInit /\ Prov!Init /\ AccountInit
  /\ which # "provisioning" => file = Old
  /\ which # "account" => session_file = NoFile

AgentNext ==
  /\ UNCHANGED which
  /\ \/ which = "pool" /\ PoolNext /\ UNCHANGED <<tvars, provisioning, pvars>>
     \/ which = "tcp" /\ TcpNext /\ UNCHANGED <<pool_vars, provisioning, pvars>>
     \/ which = "provisioning" /\ Prov!Next /\ UNCHANGED <<pool_vars, tvars, pvars>>
     \/ which = "account" /\ AccountNext /\ UNCHANGED <<pool_vars, tvars, provisioning>>

(* The fairness of each component, in its behaviours. *)
AgentSpec ==
  /\ AgentInit /\ [][AgentNext]_agent_vars
  /\ WF_pool_vars(which = "pool" /\ DropWake)
  /\ \A t \in Tasks :
       WF_pool_vars(which = "pool" /\ (PopFree(t) \/ FindNone(t) \/ PushWaker(t) \/ Resume(t)))
  /\ WF_tvars(which = "tcp" /\ Worker) /\ WF_tvars(which = "tcp" /\ clear_old)
  /\ \A c \in Conns :
       /\ WF_tvars(which = "tcp" /\ Setup(c))
       /\ \A d \in Directions : WF_tvars(which = "tcp" /\ (write(c, d) \/ cancelled(c, d)))
  /\ WF_provisioning(which = "provisioning" /\ Prov!SupervisorStep)
  /\ \A c \in Callers : WF_provisioning(which = "provisioning" /\ Prov!CallerStep(c))
  /\ \A s \in Starters : WF_provisioning(which = "provisioning" /\ Prov!StarterStep(s))
  /\ \A k \in Codes : /\ SF_provisioning(which = "provisioning" /\ Prov!ClaimFlowEnds(k))
                      /\ WF_provisioning(which = "provisioning" /\ Prov!ClaimClears(k))
  /\ WF_provisioning(which = "provisioning" /\ Prov!ResetStep)
  /\ WF_provisioning(which = "provisioning" /\ Prov!ShutdownReturns)
  /\ \A p \in Procs : /\ WF_pvars(which = "account" /\ goes_on(p))
                      /\ WF_pvars(which = "account" /\ deadline(p))

(* A call of set_secret gets its answer, and once the runtime is stopping     *)
(* every claim task ends (Provisioning).                                      *)
ProvisioningReturns == Prov!ProvisioningReturns
=============================================================================
