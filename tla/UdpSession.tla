----------------------------- MODULE UdpSession -----------------------------
(***************************************************************************)
(* How the UDP channel gets, keeps and renews its session: the two tasks   *)
(* of PlayitAgent::run, the send and the receive task of UdpChannel, and   *)
(* the tunnel server with the network in between.                          *)
(*                                                                         *)
(* The udp task raises a flag when the channel was not established for six *)
(* seconds; the tunnel task then asks for session details over the control *)
(* connection, at most every five seconds; the details travel through two  *)
(* channels to the send task, which sends the token to the tunnel address; *)
(* the answer of the tunnel server, checked against that address by the    *)
(* receive task, makes the channel established.                            *)
(*                                                                         *)
(* The server has one valid session, an address and a token.  It changes   *)
(* it as it likes, and messages are lost, until it is settled.  Time is    *)
(* the age of the last establish answer: at most five seconds, at most     *)
(* six, or more.                                                           *)
(***************************************************************************)
EXTENDS Naturals, Sequences

CONSTANTS
  Addrs, Tokens,     \* what session details consist of
  DetailsCapacity,   \* of the channel between tunnel and udp task (8)
  SessionCapacity,   \* of the channel to the send task (32)
  None

Sessions == [tunnel_addr : Addrs, token : Tokens]
Ages == {"never", "fresh", "ageing", "old"}

VARIABLES
  should_renew,   \* udp_session_should_renew
  needs_renew,    \* what the udp task computed and is about to store
  auth_due,       \* last_udp_auth is five seconds ago
  replies,        \* session details on their way to the agent
  details,        \* channel from tunnel task to udp task
  sessions,       \* channel from udp task to send task
  session,        \* SendTask.session
  tunnel_addr,    \* Shared.session_tunnel_addr
  age,            \* age of Shared.establish_rx_epoch
  tokens_sent,    \* establish packets on their way to the server
  answers,        \* establish answers on their way, by source address
  server,         \* the session that is valid at the server
  settled

tunnel_task == <<should_renew, auth_due>>
channels == <<details, sessions>>
send_task == <<session, tunnel_addr>>
network == <<replies, tokens_sent, answers, server, settled>>
vars == <<tunnel_task, needs_renew, channels, send_task, age, network>>

(* Every variable keeps to its type and the channels to their capacity.    *)
TypeOK ==
  /\ should_renew \in BOOLEAN /\ needs_renew \in BOOLEAN \cup {None}
  /\ auth_due \in BOOLEAN
  /\ replies \subseteq Sessions
  /\ details \in Seq(Sessions) /\ Len(details) <= DetailsCapacity
  /\ sessions \in Seq(Sessions) /\ Len(sessions) <= SessionCapacity
  /\ session \in Sessions \cup {None} /\ tunnel_addr \in Addrs \cup {None}
  /\ age \in Ages
  /\ tokens_sent \subseteq Sessions /\ answers \subseteq Addrs
  /\ server \in Sessions /\ settled \in BOOLEAN

Init ==
  /\ should_renew = FALSE /\ needs_renew = None
  /\ auth_due = TRUE
  /\ replies = {} /\ details = <<>> /\ sessions = <<>>
  /\ session = None /\ tunnel_addr = None
  /\ age = "never"
  /\ tokens_sent = {} /\ answers = {}
  /\ server \in Sessions /\ settled = FALSE

-----------------------------------------------------------------------------
(* The tunnel task                                                         *)

(* The request over the control connection, with the details the server    *)
(* answers it with on their way back; losing them is losing either         *)
send_udp_session_auth ==
  /\ should_renew /\ auth_due
  /\ auth_due' = FALSE
  /\ replies' = replies \cup {server}
  /\ UNCHANGED <<should_renew, needs_renew, channels, send_task, age, tokens_sent, answers, server, settled>>

(* A forced reload of the control connection has succeeded: last_udp_auth  *)
(* is reset and the flag raised                                            *)
ForcedReload ==
  /\ ~settled
  /\ should_renew' = TRUE
  /\ auth_due' = TRUE
  /\ UNCHANGED <<needs_renew, channels, send_task, age, network>>

(* try_send drops details that find the channel full                       *)
ForwardDetails ==
  \E d \in replies :
    /\ replies' = replies \ {d}
    /\ details' = IF Len(details) < DetailsCapacity THEN Append(details, d) ELSE details
    /\ UNCHANGED <<tunnel_task, needs_renew, sessions, send_task, age, tokens_sent, answers, server,
                   settled>>

-----------------------------------------------------------------------------
(* The udp task: what woke it, then the flag, which it computes and stores *)

NeedsRenew == age \in {"never", "old"}

update_session ==
  /\ needs_renew = None
  /\ details # <<>> /\ Len(sessions) < SessionCapacity
  /\ sessions' = Append(sessions, Head(details))
  /\ details' = Tail(details)
  /\ needs_renew' = NeedsRenew
  /\ UNCHANGED <<tunnel_task, send_task, age, network>>

(* A packet, or three seconds without one; the iteration of an origin      *)
(* packet that is dropped ends before the flag and changes nothing here    *)
UdpTaskLoops ==
  /\ needs_renew = None
  /\ needs_renew' = NeedsRenew
  /\ UNCHANGED <<tunnel_task, channels, send_task, age, network>>

StoreFlag ==
  /\ needs_renew # None
  /\ should_renew' = needs_renew
  /\ needs_renew' = None
  /\ UNCHANGED <<auth_due, channels, send_task, age, network>>

-----------------------------------------------------------------------------
(* The send task                                                           *)

(* Mutated form: the first session is kept.                                *)
handle_session_first_only ==
  /\ sessions # <<>>
  /\ sessions' = Tail(sessions)
  /\ session' = IF session = None THEN Head(sessions) ELSE session
  /\ tunnel_addr' = session'.tunnel_addr
  /\ tokens_sent' = tokens_sent \cup {session'}
  /\ UNCHANGED <<tunnel_task, needs_renew, details, age, replies, answers, server, settled>>

handle_session ==
  /\ sessions # <<>>
  /\ sessions' = Tail(sessions)
  /\ session' = Head(sessions)
  /\ tunnel_addr' = Head(sessions).tunnel_addr
  /\ tokens_sent' = IF session # Head(sessions) \/ age # "fresh"
                    THEN tokens_sent \cup {Head(sessions)} ELSE tokens_sent
  /\ UNCHANGED <<tunnel_task, needs_renew, details, age, replies, answers, server, settled>>

(* Every ten seconds, or every three while there is no answer              *)
send_establish ==
  /\ session # None
  /\ tokens_sent' = tokens_sent \cup {session}
  /\ UNCHANGED <<tunnel_task, needs_renew, channels, send_task, age, replies, answers, server, settled>>

(* The receive task: an establish answer counts when it comes from the     *)
(* address of the session                                                  *)
ReceiveAnswer ==
  \E a \in answers :
    /\ answers' = answers \ {a}
    /\ age' = IF tunnel_addr = a THEN "fresh" ELSE age
    /\ UNCHANGED <<tunnel_task, needs_renew, channels, send_task, replies, tokens_sent, server, settled>>

-----------------------------------------------------------------------------
(* The server and the network                                              *)

ServerAnswers ==
  \E s \in tokens_sent :
    /\ tokens_sent' = tokens_sent \ {s}
    /\ answers' = IF s = server THEN answers \cup {s.tunnel_addr} ELSE answers
    /\ UNCHANGED <<tunnel_task, needs_renew, channels, send_task, age, replies, server, settled>>

ServerMoves ==
  /\ ~settled
  /\ server' \in Sessions \ {server}
  /\ UNCHANGED <<tunnel_task, needs_renew, channels, send_task, age, replies, tokens_sent, answers, settled>>

Lose ==
  /\ ~settled
  /\ \/ /\ \E d \in replies : replies' = replies \ {d}
        /\ UNCHANGED <<tokens_sent, answers>>
     \/ /\ \E s \in tokens_sent : tokens_sent' = tokens_sent \ {s}
        /\ UNCHANGED <<replies, answers>>
     \/ /\ \E a \in answers : answers' = answers \ {a}
        /\ UNCHANGED <<replies, tokens_sent>>
  /\ UNCHANGED <<should_renew, auth_due, needs_renew, channels, send_task, age, server, settled>>

Settle ==
  /\ ~settled
  /\ settled' = TRUE
  /\ UNCHANGED <<tunnel_task, needs_renew, channels, send_task, age, replies, tokens_sent, answers, server>>

(* Time passes                                                             *)
AuthDue ==
  /\ ~auth_due
  /\ auth_due' = TRUE
  /\ UNCHANGED <<should_renew, needs_renew, channels, send_task, age, network>>

Ageing ==
  /\ age \in {"fresh", "ageing"}
  /\ age' = IF age = "fresh" THEN "ageing" ELSE "old"
  /\ UNCHANGED <<tunnel_task, needs_renew, channels, send_task, network>>

UdpTaskStep == update_session \/ UdpTaskLoops \/ StoreFlag

Next ==
  \/ send_udp_session_auth \/ ForcedReload \/ ForwardDetails
  \/ UdpTaskStep
  \/ handle_session \/ send_establish \/ ReceiveAnswer
  \/ ServerAnswers \/ ServerMoves \/ Lose \/ Settle
  \/ AuthDue \/ Ageing

(* Every task runs, the select of the udp task takes details that are      *)
(* there sooner or later, messages arrive and time passes.                 *)
Spec ==
  /\ Init /\ [][Next]_vars
  /\ WF_vars(send_udp_session_auth) /\ WF_vars(ForwardDetails)
  /\ WF_vars(UdpTaskStep) /\ SF_vars(update_session)
  /\ WF_vars(handle_session) /\ WF_vars(send_establish) /\ WF_vars(ReceiveAnswer)
  /\ WF_vars(ServerAnswers)
  /\ WF_vars(AuthDue) /\ WF_vars(Ageing)

-----------------------------------------------------------------------------
(* Once server and network have settled, the channel ends up with the      *)
(* session of the server, keeps it, and is established again and again,    *)
(* whatever old details, old answers and overwritten flags were on their   *)
(* way (update_session, handle_session, ReceiveAnswer).                    *)
SessionFollowsServer ==
  <>settled => <>[](session = server) /\ []<>(age = "fresh")
=============================================================================
