-------------------------------- MODULE MCUdp -------------------------------
(***************************************************************************)
(* Instance for TLC of the two halves of the agent's UDP side, which share *)
(* no state: the virtual clients (UdpClients) and the session of the       *)
(* channel (UdpSession).  A behaviour is one of one of them; which says of *)
(* which.  The server replaces its session once.  In "moved" it changes the *)
(* address, in "renewed" only the token, so that answers to the old session  *)
(* come from the address of the new one.                                    *)
(***************************************************************************)
EXTENDS UdpClients

CONSTANTS Addrs, Tokens, DetailsCapacity, SessionCapacity

VARIABLES
  which, should_renew, needs_renew, auth_due, replies, details, sessions, session, tunnel_addr,
  age, tokens_sent, answers, server, settled

Session == INSTANCE UdpSession

session_vars == <<should_renew, needs_renew, auth_due, replies, details, sessions, session,
                  tunnel_addr, age, tokens_sent, answers, server, settled>>
FirstSession == CHOOSE s \in Session!Sessions : TRUE
udp_vars == <<which, vars, session_vars>>

UdpInit ==
  /\ which \in {"clients", "moved", "renewed"}
  /\ Init
  /\ Session!Init /\ server = FirstSession

UdpNext ==
  /\ UNCHANGED which
  /\ \/ which = "clients" /\ Next /\ UNCHANGED session_vars
     \/ /\ which # "clients" /\ Session!Next /\ UNCHANGED vars
        /\ server' # server => server = FirstSession
        /\ IF which = "moved" THEN server'.token = server.token
           ELSE server'.tunnel_addr = server.tunnel_addr

(* The fairness of the two, each in its own behaviours. *)
Clients(A) == which = "clients" /\ A
Channel(A) == which # "clients" /\ A
UdpSpec ==
  /\ UdpInit /\ [][UdpNext]_udp_vars
  /\ \A i \in Ids : WF_vars(Clients(ReceiverEnds(i)))
  /\ WF_vars(Clients(SendToTunnel \/ RemoveOld \/ ShutdownEnds \/ ClearEnds))
  /\ WF_vars(Clients(Sent))
  /\ WF_session_vars(Channel(Session!send_udp_session_auth))
  /\ WF_session_vars(Channel(Session!ForwardDetails))
  /\ WF_session_vars(Channel(Session!UdpTaskStep)) /\ SF_session_vars(Channel(Session!update_session))
  /\ WF_session_vars(Channel(Session!handle_session)) /\ WF_session_vars(Channel(Session!send_establish))
  /\ WF_session_vars(Channel(Session!ReceiveAnswer)) /\ WF_session_vars(Channel(Session!ServerAnswers))
  /\ WF_session_vars(Channel(Session!AuthDue)) /\ WF_session_vars(Channel(Session!Ageing))

-----------------------------------------------------------------------------
(* The channel ends up with the session of the server (UdpSession).        *)
SessionFollowsServer == Session!SessionFollowsServer
=============================================================================
