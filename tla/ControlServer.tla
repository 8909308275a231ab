---------------------------- MODULE ControlServer ----------------------------
(***************************************************************************)
(* The control connection together with the other end of it: the network,  *)
(* the tunnel server and the API.  Until the world settles, every answer   *)
(* and every failure of MaintainedControl is possible: Pongs of old flows, *)
(* lost and late answers, an unreachable API.  Once it has settled,        *)
(* requests are answered, and the answers are those of one server:         *)
(*   - datagrams of the agent's socket arrive under the flow net;          *)
(*   - a Pong carries net, and a session exactly if the session registered *)
(*     with the server belongs to net;                                     *)
(*   - a register request is accepted if it was signed for net;            *)
(*   - other requests are answered Unauthorized if no session belongs to   *)
(*     net;                                                                *)
(*   - the API returns the addresses route.                                *)
(* The server is not part of this repository: this is what connected_      *)
(* control.rs and established_control.rs rely on.  The agent is left       *)
(* running: its cancellation is not part of this composition.              *)
(***************************************************************************)
EXTENDS MaintainedControl

VARIABLE server   \* None until the world has settled

allvars == <<vars, server>>

Server == [net : Flows, registered : Flows \cup {None}, route : Targets]

settled == server # None

ServerTypeOK == TypeOK /\ server \in Server \cup {None}

HasSession == settled /\ server.registered = server.net

ServerPong == [flow |-> server.net, session |-> HasSession]

(* It is enough to let the world settle at the top of the loop: what a     *)
(* settled world does in the rest of a turn, an unsettled one can do too.  *)
Settle ==
  /\ ~settled
  /\ pc = "top"
  /\ server' \in Server
  /\ UNCHANGED vars

-----------------------------------------------------------------------------
(* Steps that only the unsettled world forces on the agent                 *)
Disturbance ==
  /\ ~settled
  /\ \/ UdpAuthFails
     \/ SendFails
     \/ ReloadFails
     \/ PongGrowsOld
     \/ AuthFails
     \/ AuthSucceeds
     \/ ReplaceConnection
     \/ RecvUnauthorized
     \/ \E addresses \in Targets : TargetsUnchanged(addresses) \/ GotAddresses(addresses)
     \/ \E pong \in Pong : ReplacePong(pong) \/ AuthPong(pong) \/ RecvPong(pong)

(* Steps of the agent that depend on nobody, or on a fresh socket          *)
Local ==
  \/ UdpAuthSucceeds
  \/ \E periodic \in BOOLEAN : StartReload(periodic)
  \/ SkipReload
  \/ \E pong \in Pong : KeepConnection(pong) \/ StartReplace(pong)
  \/ UpdateExpired
  \/ UpdateHealthy
  \/ SendSucceeds
  \/ RecvEvent
  \/ UpdateEnds
  \/ ~HasSession /\ DeadlinePasses

(* Answers of the settled server that leave it as it is                    *)
PongInAuth == settled /\ AuthPong(ServerPong)
PongInRecv == settled /\ RecvPong(ServerPong)
NotAuthorized == settled /\ ~HasSession /\ RecvUnauthorized
RegisterRefused == settled /\ call.auth_pong # server.net /\ AuthFails
RoutingAnswer == settled /\ (TargetsUnchanged(server.route) \/ GotAddresses(server.route))

(* Answers that register a session                                         *)
RegisterAccepted ==
  /\ settled
  /\ call.auth_pong = server.net
  /\ AuthSucceeds
  /\ server' = [server EXCEPT !.registered = server.net]

NewSocketRegistered ==
  /\ settled
  /\ ReplaceConnection
  /\ server' = [server EXCEPT !.net = call.connected.flow, !.registered = call.auth_pong]

AgentStep ==
  \/ Disturbance /\ UNCHANGED server
  \/ Local /\ UNCHANGED server
  \/ PongInAuth /\ UNCHANGED server
  \/ PongInRecv /\ UNCHANGED server
  \/ NotAuthorized /\ UNCHANGED server
  \/ RegisterRefused /\ UNCHANGED server
  \/ RoutingAnswer /\ UNCHANGED server
  \/ RegisterAccepted
  \/ NewSocketRegistered

ServerInit == Init /\ server = None

ServerNext == Settle \/ AgentStep

(* The loop of the agent turns; pings and keep-alives are sent over and    *)
(* over, and what the settled server answers to them arrives; the routing  *)
(* is asked for every 30 seconds.                                          *)
ServerSpec ==
  /\ ServerInit
  /\ [][ServerNext]_allvars
  /\ WF_allvars(AgentStep /\ pc' # pc)
  /\ SF_allvars(PongInAuth /\ UNCHANGED server)
  /\ SF_allvars(PongInRecv /\ UNCHANGED server)
  /\ SF_allvars(NotAuthorized /\ UNCHANGED server)
  /\ SF_allvars(StartReload(TRUE) /\ UNCHANGED server)

-----------------------------------------------------------------------------
Healthy == ~is_expired /\ HasSession

(* After any disturbance, once the world has settled, the agent finds its  *)
(* way back to a session that it does not take for expired and that is the *)
(* one registered with the server for the flow in use, and stays there.    *)
SessionRecovers == <>settled => <>[]Healthy

(* The state shown to clients returns to Connected (phase running) once    *)
(* the control connection is healthy again.  It does not: a reload that    *)
(* sees changed addresses announces Reconnecting, fails, and finds the old *)
(* addresses the next time.  No run checks it.                             *)
HealthyIsReported == <>[]Healthy => []<>(control_state = "Connected")
=============================================================================
