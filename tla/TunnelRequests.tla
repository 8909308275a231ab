--------------------------- MODULE TunnelRequests ---------------------------
(***************************************************************************)
(* The operations on tunnels that PlayitHandle passes to the playit API     *)
(* (playit-runtime: handle.rs, tunnels.rs).  A call reads the lifecycle,    *)
(* then the API of the agent, sends one request and translates what comes   *)
(* back; the supervisor replaces lifecycle and API in between.  The server  *)
(* is external: it may have executed a request whose answer is lost.        *)
(***************************************************************************)
EXTENDS Naturals

CONSTANTS Agents, Requesters, Ids, Absent

VARIABLES
    life,       \* the lifecycle in the state cache, with the agent_id of Running
    api,        \* RuntimeInner.api: None, or the agent whose secret it has
    cancelled,  \* the runtime's token
    tunnels,    \* the tunnels of the account, by id
    asked,      \* history: the last agent and destination asked for a tunnel, by id
    operation   \* the call each caller is in

operations == <<life, api, cancelled, tunnels, asked, operation>>

Ops == {"list_tunnels", "list_account_tunnels", "create_tunnel", "delete_tunnel",
        "reassign_tunnel"}
ServiceErrorCode ==
    {"Internal", "UnsupportedProtocol", "InvalidRequest", "InvalidRequestType",
     "AgentDisabledOverLimit", "InvalidSecret", "SecretPinned", "ProvisioningUnavailable",
     "SecretWriteFailed", "ApiUnavailable", "InvalidTunnelRequest", "TunnelNotFound",
     "ApiRejected", "PermissionDenied"}

(* What Option::None stands for is no value of the program. *)
ASSUME AbsentAssumption == Absent \notin Agents \cup Ids \cup Ops \cup ServiceErrorCode \cup {"Ok"}

Default == "127.0.0.1"
Inputs == [port : {0}, addr : {Absent}] \cup [port : {80}, addr : {Absent, "localhost", "10.0.0.1", " ::0001"}]
NoInput == [port |-> 0, addr |-> Absent]
NoRequest == [agent |-> Absent, input |-> NoInput]
NoFields == [local_ip |-> Absent, local_port |-> Absent]
NoTunnel == [state |-> "free", agent |-> Absent, fields |-> NoFields, enabled |-> TRUE,
             reasons |-> {}]
Idle == [pc |-> "idle", op |-> Absent, input |-> NoInput, id |-> Absent, agent |-> Absent,
         ran |-> FALSE, code |-> Absent, retry |-> FALSE, view |-> Absent, asked |-> Absent]

Err(code, retry) == [code |-> code, retry |-> retry]
Done == Err("Ok", FALSE)

---------------------------------------------------------------------------
(* What a call answers before it has sent anything. *)
NotReady == Err("ApiUnavailable", TRUE)

service_not_ready_error(state) ==
    CASE state = "WaitingForSecret" -> Err("ProvisioningUnavailable", TRUE)
      [] state = "HasInvalidSecret" -> Err("InvalidSecret", FALSE)
      [] state = "DisabledOverLimit" -> Err("AgentDisabledOverLimit", FALSE)
      [] state \in {"Starting", "Stopping"} -> Err("ApiUnavailable", TRUE)
      [] state = "Error" -> Err("Internal", TRUE)   \* RuntimeError::setup(message, true)

parses(addr) == addr # "localhost"
local_address(input) == IF input.addr = Absent THEN Default ELSE input.addr
CheckDestination(input) ==
    IF input.port = 0 \/ ~parses(local_address(input))
    THEN Err("InvalidTunnelRequest", FALSE) ELSE Done

CheckLifecycle == IF life.state = "Running" THEN Done ELSE service_not_ready_error(life.state)

tunnel_list == CheckLifecycle

(* Destination first, then the lifecycle.  The agent_id of a Running         *)
(* lifecycle was a Uuid when it was written, so it always parses.            *)
create_request_with_protocol(input) ==
    IF CheckDestination(input) # Done THEN CheckDestination(input) ELSE CheckLifecycle

reassign_request(input) ==
    IF CheckDestination(input) # Done THEN CheckDestination(input) ELSE CheckLifecycle

(* The configuration both requests carry: the address as IpAddr prints it,   *)
(* without the blanks and in the form that it has once.                      *)
to_string(addr) == IF addr = " ::0001" THEN "::1" ELSE addr
config_fields(input) ==
    [local_ip |-> to_string(local_address(input)), local_port |-> input.port]

---------------------------------------------------------------------------
(* Translation of errors. *)
CreateDenied == {"RequiresVerifiedAccount", "RegionRequiresPlayitPremium",
    "PublicPortRequiresPlayitPremium", "RequiresPlayitPremium"}
CreateRejected == {"AgentNotFound", "AgentVersionTooOld", "DedicatedIpNotFound",
    "PortAllocNotFound", "RegionNotSupported", "FirewallNotFound", "PortAllocCurrentlyAssigned",
    "GatewayAlreadyHasTunnelType", "GatewayDoesNotSupportTunnelType",
    "TunnelTypeBlockedOnRegion", "Other"}
CreateInvalid == {"InvalidAgentId", "InvalidIpHostname", "InvalidPortCount",
    "InvalidTunnelConfig", "TunnelNameIsNotAscii", "TunnelNameTooLong",
    "PortAllocDoesNotMatchPortDetails", "AllocRequestNotSupportedByPorts", "InvalidHostnameId",
    "HostnameHasTunnelTypeTarget", "EndpointDoesNotSupportProtocol", "InvalidGatewayId",
    "InvalidSoftwareDescription"}
CreateFailures == CreateDenied \cup CreateRejected \cup CreateInvalid

map_tunnel_create_failure(failure) ==
    Err(CASE failure \in CreateDenied -> "PermissionDenied"
          [] failure \in CreateRejected -> "ApiRejected"
          [] failure \in CreateInvalid -> "InvalidTunnelRequest", FALSE)

ConfigFailures == {"TunnelNotFound", "AgentNotFound", "AgentVersionUnknown",
    "CannotConfigTunnelWithoutAgent", "SelfManagedAgentCannotReassignTunnel", "InvalidConfig",
    "ConfigNotCompatibleWithAgent", "NothingToUpdate"}

TunnelConfigFailure(failure) ==
    Err(CASE failure = "TunnelNotFound" -> "TunnelNotFound"
          [] failure = "SelfManagedAgentCannotReassignTunnel" -> "PermissionDenied"
          [] failure \in {"AgentNotFound", "AgentVersionUnknown", "NothingToUpdate"} -> "ApiRejected"
          [] OTHER -> "InvalidTunnelRequest", FALSE)

ResponseErrors == {"Validation", "PathNotFound", "Auth", "Internal"}
map_api_response_error(error, validation_code) ==
    CASE error = "Validation" -> Err(validation_code, FALSE)
      [] error = "PathNotFound" -> Err("ApiRejected", FALSE)
      [] error = "Auth" -> Err("PermissionDenied", FALSE)
      [] error = "Internal" -> Err("ApiUnavailable", TRUE)

(* A connection that failed or was lost; another error of the request; an   *)
(* unreadable answer with a 5xx status, or with another one.                *)
ClientErrors == {"TooManyRequests", "connect", "lost", "RequestError", "ParseError5xx",
                 "ParseError"}
is_transient(error) == error \in {"TooManyRequests", "connect", "lost", "ParseError5xx"}

(* Mutated form: an answer that cannot be read is taken for a refusal. *)
UnreadableIsInvalid(error) ==
    Err(IF is_transient(error) THEN "ApiUnavailable" ELSE "InvalidTunnelRequest",
        is_transient(error))

map_http_client_error(error) ==
    Err(CASE is_transient(error) -> "ApiUnavailable"
          [] error = "RequestError" -> "Internal"
          [] error = "ParseError" -> "ApiRejected", is_transient(error))

map_tunnel_create_error(got) ==
    CASE got \in CreateFailures -> map_tunnel_create_failure(got)
      [] got \in ResponseErrors -> map_api_response_error(got, "InvalidTunnelRequest")
      [] got \in ClientErrors -> map_http_client_error(got)

map_tunnel_delete_error(got) ==
    CASE got = "TunnelNotFound" -> Err("TunnelNotFound", FALSE)
      [] got \in ResponseErrors -> map_api_response_error(got, "InvalidTunnelRequest")
      [] got \in ClientErrors -> map_http_client_error(got)

map_account_tunnel_list_error(got) ==
    CASE got = "UnexpectedFail" -> Err("ApiRejected", FALSE)
      [] got \in ResponseErrors -> map_api_response_error(got, "ApiRejected")
      [] got \in ClientErrors -> map_http_client_error(got)

map_tunnel_config_error(got) ==
    CASE got \in ConfigFailures -> TunnelConfigFailure(got)
      [] got \in ResponseErrors -> map_api_response_error(got, "ApiRejected")
      [] got \in ClientErrors -> map_http_client_error(got)

---------------------------------------------------------------------------
(* The view of an account's tunnel.  A tunnel without an origin may still    *)
(* carry the configuration of an agent.                                      *)

account_tunnel_view(t) ==
    [agent_id |-> t.agent, destination |-> t.fields,
     is_disabled |-> ~t.enabled \/ t.reasons # {},
     disabled_reason |-> IF ~t.enabled THEN {"disabled by user"} ELSE t.reasons]

account_tunnel_list == [i \in {j \in Ids : tunnels[j].state = "here"} |->
                            account_tunnel_view(tunnels[i])]

---------------------------------------------------------------------------
(* The call. *)
Answer(c, e) ==
    operation' = [operation EXCEPT ![c] = [Idle EXCEPT !.pc = "done", !.op = operation[c].op,
                !.id = operation[c].id, !.ran = operation[c].ran, !.view = operation[c].view,
                !.asked = operation[c].asked, !.code = e.code, !.retry = e.retry]]

(* ensure_running, and parse_tunnel_id where the tunnel is the only argument. *)
begin_operation(c) ==
    /\ operation[c].pc \in {"idle", "done"}
    /\ \E op \in Ops, input \in Inputs, id \in Ids \cup {Absent} :
          /\ op \notin {"create_tunnel", "reassign_tunnel"} => input = NoInput
          /\ IF op \in {"delete_tunnel", "reassign_tunnel"}
             THEN id # Absent /\ tunnels[id].state # "free" ELSE id = Absent
          /\ operation' = [operation EXCEPT ![c] = [Idle EXCEPT
                !.op = op, !.input = input, !.id = id,
                !.pc = IF cancelled THEN "done"
                       ELSE IF op \in {"delete_tunnel", "list_account_tunnels"} THEN "api"
                       ELSE "lifecycle",
                !.code = IF cancelled THEN NotReady.code ELSE Absent,
                !.retry = cancelled]]
    /\ UNCHANGED <<life, api, cancelled, tunnels, asked>>

(* An argument that is no UUID, which the two operations on a given tunnel   *)
(* refuse: delete_tunnel at once, reassign_tunnel after all its other checks. *)
parse_tunnel_id(c) ==
    /\ \/ operation[c].op = "delete_tunnel" /\ operation[c].pc = "api"
       \/ /\ operation[c].op = "reassign_tunnel" /\ operation[c].pc = "lifecycle"
          /\ reassign_request(operation[c].input) = Done
    /\ Answer(c, Err("InvalidTunnelRequest", FALSE))
    /\ UNCHANGED <<life, api, cancelled, tunnels, asked>>

list_tunnels(c) ==
    /\ operation[c].op = "list_tunnels" /\ operation[c].pc = "lifecycle"
    /\ Answer(c, tunnel_list)
    /\ UNCHANGED <<life, api, cancelled, tunnels, asked>>

(* create_tunnel, create_minecraft_java_tunnel and reassign_tunnel up to the *)
(* request.                                                                  *)
Prepare(c, op, e) ==
    /\ operation[c].op = op /\ operation[c].pc = "lifecycle"
    /\ IF e = Done THEN operation' = [operation EXCEPT ![c].pc = "api", ![c].agent = life.agent]
       ELSE Answer(c, e)
    /\ UNCHANGED <<life, api, cancelled, tunnels, asked>>

create_tunnel(c) == Prepare(c, "create_tunnel", create_request_with_protocol(operation[c].input))
reassign_tunnel(c) == Prepare(c, "reassign_tunnel", reassign_request(operation[c].input))

(* The API of the agent is read and the request is sent. *)
Send(c, op) ==
    /\ operation[c].op = op /\ operation[c].pc = "api"
    /\ IF api = Absent THEN Answer(c, NotReady)
       ELSE operation' = [operation EXCEPT ![c].pc = "wire"]
    /\ UNCHANGED <<life, api, cancelled, tunnels, asked>>

create_v1_tunnel(c) == Send(c, "create_tunnel")
send_reassign(c) == Send(c, "reassign_tunnel")
delete_tunnel(c) == Send(c, "delete_tunnel")
list_account_tunnels(c) == Send(c, "list_account_tunnels")

---------------------------------------------------------------------------
(* The server executes a request, and the answer arrives or does not.        *)
Unsure == {"Internal", "lost", "RequestError", "ParseError5xx", "ParseError"}
Refusals(op) ==
    {"Validation", "PathNotFound", "Auth", "TooManyRequests", "connect"} \cup Unsure \cup
    CASE op = "create_tunnel" -> CreateFailures
      [] op = "reassign_tunnel" -> ConfigFailures \ {"TunnelNotFound", "NothingToUpdate"}
      [] op = "list_account_tunnels" -> {"UnexpectedFail"}
      [] OTHER -> {}

Translated(op, got) ==
    CASE got = "Ok" -> Done
      [] got # "Ok" /\ op = "create_tunnel" -> map_tunnel_create_error(got)
      [] got # "Ok" /\ op = "delete_tunnel" -> map_tunnel_delete_error(got)
      [] got # "Ok" /\ op = "reassign_tunnel" -> map_tunnel_config_error(got)
      [] got # "Ok" /\ op = "list_account_tunnels" -> map_account_tunnel_list_error(got)

Lists(c) == operation[c].op = "list_account_tunnels"

(* The answer, translated; the translation reads nothing but the answer.     *)
Got(c, ran, got, view) ==
    LET e == Translated(operation[c].op, got)
    IN operation' = [operation EXCEPT ![c] = [Idle EXCEPT !.pc = "answer", !.op = operation[c].op,
                  !.id = operation[c].id, !.ran = ran, !.code = e.code, !.retry = e.retry,
                  !.view = view, !.asked = IF Lists(c) /\ got = "Ok" THEN asked ELSE Absent]]

refuse(c) ==
    /\ operation[c].pc = "wire"
    /\ \E got \in Refusals(operation[c].op) : Got(c, FALSE, got, Absent)
    /\ UNCHANGED <<life, api, cancelled, tunnels, asked>>

execute_operation(c) ==
    LET w == operation[c]
        new == [state |-> "here", agent |-> w.agent, fields |-> config_fields(w.input),
                enabled |-> TRUE, reasons |-> {}]
        moved == [tunnels[w.id] EXCEPT !.agent = w.agent, !.fields = config_fields(w.input)]
        Change(i, t) == /\ tunnels' = [tunnels EXCEPT ![i] = t]
                        /\ \E got \in Unsure \cup {"Ok"} : Got(c, TRUE, got, Absent)
        Ask(i) == asked' = [asked EXCEPT ![i] = [agent |-> w.agent, input |-> w.input]]
    IN /\ w.pc = "wire"
       /\ \/ /\ w.op = "create_tunnel"
             /\ \E i \in Ids : tunnels[i].state = "free" /\ Change(i, new) /\ Ask(i)
          \/ /\ w.op = "reassign_tunnel" /\ tunnels[w.id].state = "here"
             /\ tunnels[w.id] # moved
             /\ Change(w.id, moved) /\ Ask(w.id)
          \/ /\ w.op = "delete_tunnel" /\ tunnels[w.id].state = "here"
             /\ Change(w.id, [NoTunnel EXCEPT !.state = "deleted"])
             /\ UNCHANGED asked
          \/ /\ w.op \in {"delete_tunnel", "reassign_tunnel"} /\ tunnels[w.id].state # "here"
             /\ Got(c, FALSE, "TunnelNotFound", Absent) /\ UNCHANGED <<tunnels, asked>>
          \/ /\ w.op = "reassign_tunnel" /\ tunnels[w.id] = moved
             /\ Got(c, FALSE, "NothingToUpdate", Absent) /\ UNCHANGED <<tunnels, asked>>
          \/ /\ w.op = "list_account_tunnels"
             /\ Got(c, FALSE, "Ok", account_tunnel_list) /\ UNCHANGED <<tunnels, asked>>
       /\ UNCHANGED <<life, api, cancelled>>

(* The answer reaches the caller. *)
reply(c) ==
    /\ operation[c].pc = "answer"
    /\ Answer(c, Err(operation[c].code, operation[c].retry))
    /\ UNCHANGED <<life, api, cancelled, tunnels, asked>>

---------------------------------------------------------------------------
(* The supervisor, as far as it writes what a call reads (module Supervisor  *)
(* has its steps): an agent is built, its state is published, its secret is  *)
(* rejected, a new one arrives, and everything may end.                      *)
State(s) == [state |-> s, agent |-> Absent]

build_agent ==
    /\ life.state = "Starting" /\ ~cancelled
    /\ \E a \in Agents : (api = Absent \/ api = a) /\ api' = a
    /\ UNCHANGED <<life, cancelled, tunnels, asked, operation>>

publish_running ==
    /\ life.state \in {"Starting", "Running"} /\ api # Absent
    /\ life' = [state |-> "Running", agent |-> api]
    /\ UNCHANGED <<api, cancelled, tunnels, asked, operation>>

(* Both writes in one step: a call reads the lifecycle before the API, and   *)
(* refuses in the same way with either one written.                          *)
reject_secret ==
    /\ life.state = "Starting" /\ api # Absent
    /\ api' = Absent /\ life' = State("WaitingForSecret")
    /\ UNCHANGED <<cancelled, tunnels, asked, operation>>

publish_state ==
    /\ \/ life.state = "HasInvalidSecret" /\ life' = State("WaitingForSecret")
       \/ life.state \in {"WaitingForSecret", "Running", "DisabledOverLimit"}
          /\ life' = State("Starting")
       \/ life.state = "Starting" /\ api # Absent
          /\ life' \in {State("DisabledOverLimit"), State("Error")}
       \/ cancelled /\ life.state \notin {"Stopping", "Error"} /\ life' = State("Stopping")
    /\ UNCHANGED <<api, cancelled, tunnels, asked, operation>>

request_stop ==
    /\ ~cancelled /\ cancelled' = TRUE
    /\ UNCHANGED <<life, api, tunnels, asked, operation>>

(* The user, or another client of the account, disables or deletes a tunnel; *)
(* the server takes it offline.                                              *)
change_tunnel ==
    /\ \E i \in Ids : /\ tunnels[i].state = "here"
                      /\ \/ tunnels' = [tunnels EXCEPT ![i].enabled = ~@]
                         \/ tunnels' = [tunnels EXCEPT ![i] = [NoTunnel EXCEPT !.state = "deleted"]]
                         \/ tunnels' = [tunnels EXCEPT ![i].reasons =
                                            IF @ = {} THEN {"agent over limit"} ELSE {}]
    /\ UNCHANGED <<life, api, cancelled, asked, operation>>

(* Another client of the account creates a tunnel.                           *)
add_tunnel ==
    /\ \E i \in Ids, a \in Agents :
         LET input == [port |-> 80, addr |-> "10.0.0.1"]
         IN /\ tunnels[i].state = "free"
            /\ tunnels' = [tunnels EXCEPT ![i] = [NoTunnel EXCEPT !.state = "here", !.agent = a,
                                                     !.fields = config_fields(input)]]
            /\ asked' = [asked EXCEPT ![i] = [agent |-> a, input |-> input]]
    /\ UNCHANGED <<life, api, cancelled, operation>>

(* A secret was loaded, or none, or one that cannot be used; the account may *)
(* have a tunnel that no agent serves.                                       *)
OperationInit ==
    /\ life \in {State("Starting"), State("WaitingForSecret"), State("HasInvalidSecret")}
    /\ api = Absent /\ cancelled = FALSE
    /\ tunnels \in [Ids -> {NoTunnel, [NoTunnel EXCEPT !.state = "here"]}]
    /\ asked = [i \in Ids |-> NoRequest]
    /\ operation = [c \in Requesters |-> Idle]

OperationNext ==
    \/ \E c \in Requesters :
          \/ begin_operation(c) \/ parse_tunnel_id(c) \/ list_tunnels(c) \/ create_tunnel(c)
          \/ reassign_tunnel(c) \/ create_v1_tunnel(c) \/ send_reassign(c) \/ delete_tunnel(c)
          \/ list_account_tunnels(c) \/ refuse(c) \/ execute_operation(c) \/ reply(c)
    \/ build_agent \/ publish_running \/ reject_secret \/ publish_state \/ request_stop
    \/ change_tunnel \/ add_tunnel

OperationSpec == OperationInit /\ [][OperationNext]_operations

---------------------------------------------------------------------------
(* Type correctness; a request that needs an agent names one: the checks of  *)
(* create_request_with_protocol and reassign_request.                        *)
OperationTypeOK ==
    /\ api \in Agents \cup {Absent}
    /\ life.state = "Running" <=> life.agent # Absent
    /\ \A c \in Requesters :
          /\ operation[c].op \in Ops \cup {Absent}
          /\ operation[c].pc \in {"answer", "done"} <=> operation[c].code # Absent
          /\ operation[c].op \in {"create_tunnel", "reassign_tunnel"}
             /\ operation[c].pc \in {"api", "wire"} => operation[c].agent \in Agents

(* A call that is refused for its arguments, for a missing tunnel, for       *)
(* missing rights or for the state of the service has changed nothing, also  *)
(* when answers get lost; only the codes ApiUnavailable, ApiRejected and     *)
(* Internal leave it open (the translation of errors in tunnels.rs).         *)
RefusedIsUndone ==
    \A c \in Requesters :
        operation[c].code \in {"InvalidTunnelRequest", "PermissionDenied", "TunnelNotFound",
                          "ProvisioningUnavailable", "InvalidSecret", "AgentDisabledOverLimit"}
            => ~operation[c].ran

(* Whoever is told that a tunnel was deleted, or that there is none, can     *)
(* rely on it, whatever was lost, repeated or done by others meanwhile       *)
(* (delete_tunnel with map_tunnel_delete_error).                             *)
DeletedIsGone ==
    \A c \in Requesters :
        operation[c].op = "delete_tunnel" /\ operation[c].code \in {"Ok", "TunnelNotFound"}
            => tunnels[operation[c].id].state # "here"

(* A listed tunnel of an agent has the agent and the destination that the    *)
(* last create or reassign request for it named, of this program or another, *)
(* although the agent was read from one lifecycle and the request sent with  *)
(* the API of a later one; and one that is shown as disabled has a reason    *)
(* (account_tunnel_view reads the fields that config of a request wrote).    *)
ListingIsTrue ==
    \A c \in Requesters :
        operation[c].op = "list_account_tunnels" /\ operation[c].code = "Ok" =>
            \A i \in DOMAIN operation[c].view :
                LET v == operation[c].view[i]
                    q == operation[c].asked[i]
                IN /\ v.is_disabled <=> v.disabled_reason # {}
                   /\ v.agent_id # Absent =>
                         /\ v.agent_id = q.agent
                         /\ v.destination.local_port = q.input.port /\ q.input.port > 0
                         /\ v.destination.local_ip = to_string(local_address(q.input))

(* What a call on tunnels reports is true of the tunnels.                    *)
AnswersAreTrue == RefusedIsUndone /\ DeletedIsGone /\ ListingIsTrue
=============================================================================
