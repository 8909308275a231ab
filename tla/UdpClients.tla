----------------------------- MODULE UdpClients -----------------------------
(***************************************************************************)
(* The virtual UDP clients of the agent (udp_clients.rs), the receiver     *)
(* task of each (udp_receiver.rs), and the udp task of PlayitAgent::run    *)
(* that drives them.  A client is made for each (source, tunnel) that      *)
(* sends through the tunnel; its receiver forwards what the local server   *)
(* answers through one bounded channel, which only the udp task reads.     *)
(*                                                                         *)
(* Every receiver holds one buffer of the pool while it waits for a        *)
(* datagram, and what is in the channel or on its way to the tunnel holds  *)
(* one each; the pool is the number of its free buffers (see PacketPool).  *)
(* A time stamp is its age: 0 up to a minute, 1 up to 1.5 minutes, 2 more. *)
(***************************************************************************)
EXTENDS Naturals, Sequences, FiniteSets, FiniteSetsExt

CONSTANTS
  Keys,           \* UdpClientKey: (source_addr, tunnel_id)
  Targets,        \* local addresses, as target of a client and source of an answer
  Slots,          \* slots of the slab, numbers
  MaxGeneration,  \* bound on the number of clients made
  ChannelCap,     \* capacity of the channel of received packets (2048)
  SendCap,        \* capacity of the channel to the tunnel (1024)
  PoolSize,       \* buffers of the pool (8192)
  None

Ids == Slots \X (1..MaxGeneration)

VARIABLES
  virtual_client_lookup,   \* key -> slot
  virtual_clients,         \* slot -> client
  next_client_generation,
  receiver,                \* id -> where its receiver task is
  rx,                      \* id -> the key its socket was opened for
  cancelled,               \* ids whose cancellation token is cancelled
  consumed,                \* ids whose end signal is_closed has taken
  channel,                 \* packets received, not yet dispatched
  free,                    \* free buffers of the pool
  sending,                 \* packets in the channel to the tunnel
  task,                    \* where the udp task is
  to_remove,               \* slots clear_old still has to remove
  awaiting,                \* id of the receiver clear_old is shutting down
  out,                     \* the packet dispatched last: its flow and who received it
  active_udp               \* the count shown in the statistics

slab == <<virtual_client_lookup, virtual_clients, next_client_generation>>
receivers == <<receiver, rx, cancelled, consumed>>
clearing == <<to_remove, awaiting>>
vars == <<slab, receivers, channel, free, sending, task, clearing, out, active_udp>>

Client == [id : Ids, key : Keys, target_addr : Targets,
           from_tunnel_ts : 0..2, from_origin_ts : 0..2]
Flow == [flow : Keys, owner : Keys]

(* The slab numbers its slots from zero.                                   *)
ASSUME SlotsAssumption ==
  /\ IsFiniteSet(Slots) /\ Slots \subseteq 0..Cardinality(Slots)
  /\ MaxGeneration \in Nat
  /\ {ChannelCap, SendCap, PoolSize} \subseteq Nat
  /\ None \notin Slots \cup Keys \cup Client \cup Ids \cup Flow

(* The packet a receiver forwards: its id, and the source of the datagram. *)
(* owner is the key whose socket received it; the code does not carry it.  *)
Received == [rx_id : Ids, from : Targets, owner : Keys]

(* Every variable keeps to its type: the channels within their capacity,   *)
(* the pool within its size.                                               *)
TypeOK ==
  /\ virtual_client_lookup \in [Keys -> Slots \cup {None}]
  /\ virtual_clients \in [Slots -> Client \cup {None}]
  /\ next_client_generation \in 1..MaxGeneration + 1
  /\ receiver \in [Ids -> {"none", "allocate", "recv", "send", "ended"}]
  /\ rx \in [Ids -> Keys \cup {None}]
  /\ cancelled \subseteq Ids /\ consumed \subseteq Ids
  /\ channel \in Seq(Received) /\ Len(channel) <= ChannelCap
  /\ free \in 0..PoolSize
  /\ sending \in 0..SendCap
  /\ task \in {"select", "send", "clear", "shutdown", "stopped", "panicked"}
  /\ to_remove \subseteq Slots
  /\ awaiting \in Ids \cup {None}
  /\ out \in Flow \cup {None}
  /\ active_udp \in 0..Cardinality(Slots)

Init ==
  /\ virtual_client_lookup = [k \in Keys |-> None]
  /\ virtual_clients = [s \in Slots |-> None]
  /\ next_client_generation = 1
  /\ receiver = [i \in Ids |-> "none"]
  /\ rx = [i \in Ids |-> None]
  /\ cancelled = {} /\ consumed = {}
  /\ channel = <<>>
  /\ free = PoolSize
  /\ sending = 0
  /\ task = "select"
  /\ to_remove = {} /\ awaiting = None
  /\ out = None
  /\ active_udp = 0

Occupied(clients) == {s \in Slots : clients[s] # None}

-----------------------------------------------------------------------------
(* UdpReceiver: the task of one client                                     *)

ReceiverAllocates(i) ==
  /\ receiver[i] = "allocate"
  /\ free > 0
  /\ free' = free - 1
  /\ receiver' = [receiver EXCEPT ![i] = "recv"]
  /\ UNCHANGED <<slab, rx, cancelled, consumed, channel, sending, task, clearing, out, active_udp>>

(* Mutated form: a receive error ends the task.                            *)
ReceiveFails_ends(i) ==
  /\ receiver[i] = "recv"
  /\ receiver' = [receiver EXCEPT ![i] = "ended"]
  /\ free' = free + 1
  /\ UNCHANGED <<slab, rx, cancelled, consumed, channel, sending, task, clearing, out, active_udp>>

(* A receive error drops the buffer and goes on                            *)
ReceiveFails(i) ==
  /\ receiver[i] = "recv"
  /\ receiver' = [receiver EXCEPT ![i] = "allocate"]
  /\ free' = free + 1
  /\ UNCHANGED <<slab, rx, cancelled, consumed, channel, sending, task, clearing, out, active_udp>>

Receives(i) ==
  /\ receiver[i] = "recv"
  /\ receiver' = [receiver EXCEPT ![i] = "send"]
  /\ UNCHANGED <<slab, rx, cancelled, consumed, channel, free, sending, task, clearing, out,
                 active_udp>>

(* The packet is put on the channel when there is room                     *)
ReceiverSends(i, from) ==
  /\ receiver[i] = "send"
  /\ task # "stopped"
  /\ Len(channel) < ChannelCap
  /\ channel' = Append(channel, [rx_id |-> i, from |-> from, owner |-> rx[i]])
  /\ receiver' = [receiver EXCEPT ![i] = "allocate"]
  /\ UNCHANGED <<slab, rx, cancelled, consumed, free, sending, task, clearing, out, active_udp>>

Holds(i) == IF receiver[i] \in {"recv", "send"} THEN 1 ELSE 0

(* Mutated form: the send to the channel is awaited without the token.     *)
ReceiverEnds_not_in_send(i) ==
  /\ receiver[i] \in {"allocate", "recv", "send"}
  /\ \/ receiver[i] # "send" /\ i \in cancelled
     \/ receiver[i] = "send" /\ task = "stopped"
  /\ receiver' = [receiver EXCEPT ![i] = "ended"]
  /\ free' = free + Holds(i)
  /\ UNCHANGED <<slab, rx, cancelled, consumed, channel, sending, task, clearing, out, active_udp>>

(* Mutated form: the buffer of a cancelled receiver is not given back.     *)
ReceiverEnds_keeps_buffer(i) ==
  /\ receiver[i] \in {"allocate", "recv", "send"}
  /\ i \in cancelled \/ (receiver[i] = "send" /\ task = "stopped")
  /\ receiver' = [receiver EXCEPT ![i] = "ended"]
  /\ UNCHANGED <<slab, rx, cancelled, consumed, channel, free, sending, task, clearing, out,
                 active_udp>>

(* Each of the three awaits races with the cancellation; the send also     *)
(* fails once the channel is gone                                          *)
ReceiverEnds(i) ==
  /\ receiver[i] \in {"allocate", "recv", "send"}
  /\ i \in cancelled \/ (receiver[i] = "send" /\ task = "stopped")
  /\ receiver' = [receiver EXCEPT ![i] = "ended"]
  /\ free' = free + Holds(i)
  /\ UNCHANGED <<slab, rx, cancelled, consumed, channel, sending, task, clearing, out, active_udp>>

-----------------------------------------------------------------------------
(* The udp task: an answer of a local server                               *)

Sender(packet) == virtual_clients[packet.rx_id[1]]

(* Mutated form: the generation in the id is not compared.                 *)
Accepted_any_generation(packet) ==
  LET client == Sender(packet)
  IN  client # None /\ client.target_addr = packet.from

Accepted(packet) ==
  LET client == Sender(packet)
  IN  client # None /\ client.id = packet.rx_id /\ client.target_addr = packet.from

(* dispatch_origin_packet, when it rejects the packet                      *)
RejectOrigin ==
  /\ task = "select"
  /\ channel # <<>>
  /\ ~Accepted(Head(channel))
  /\ channel' = Tail(channel)
  /\ free' = free + 1
  /\ UNCHANGED <<slab, receivers, sending, task, clearing, out, active_udp>>

(* dispatch_origin_packet; the packet then waits for the channel to the    *)
(* tunnel                                                                  *)
DispatchOrigin ==
  /\ task = "select"
  /\ channel # <<>>
  /\ LET packet == Head(channel)
     IN  /\ Accepted(packet)
         /\ virtual_clients' =
              [virtual_clients EXCEPT ![packet.rx_id[1]].from_origin_ts = 0]
         /\ out' = [flow |-> Sender(packet).key, owner |-> packet.owner]
  /\ channel' = Tail(channel)
  /\ task' = "send"
  /\ UNCHANGED <<virtual_client_lookup, next_client_generation, receivers, free, sending,
                 clearing, active_udp>>

SendToTunnel ==
  /\ task = "send"
  /\ sending < SendCap
  /\ sending' = sending + 1
  /\ task' = "select"
  /\ UNCHANGED <<slab, receivers, channel, free, clearing, out, active_udp>>

(* SendTask of the UdpChannel sends a packet, or drops it                  *)
Sent ==
  /\ sending > 0
  /\ sending' = sending - 1
  /\ free' = free + 1
  /\ UNCHANGED <<slab, receivers, channel, task, clearing, out, active_udp>>

-----------------------------------------------------------------------------
(* The udp task: handle_tunneled_packet                                    *)

Closed(i) == i \in consumed \/ receiver[i] = "ended"

(* is_closed takes the end signal of a receiver that has ended             *)
TakeEnd(ids) == consumed' = consumed \cup {i \in ids : receiver[i] = "ended"}

IdsOf(slots) == {virtual_clients[s].id : s \in slots}

SlotsOf(key) == {virtual_client_lookup[key]} \ {None}

ClosedSlots(key) == {s \in SlotsOf(key) : Closed(virtual_clients[s].id)}

TunneledToClient(key) ==
  /\ task = "select"
  /\ TakeEnd(IdsOf(SlotsOf(key)))
  /\ \E s \in SlotsOf(key) \ ClosedSlots(key) :
       virtual_clients' = [virtual_clients EXCEPT ![s].from_tunnel_ts = 0]
  /\ UNCHANGED <<virtual_client_lookup, next_client_generation, receiver, rx, cancelled,
                 channel, free, sending, task, clearing, out, active_udp>>

(* What is left of the slab when the closed client of key is dropped       *)
WithoutClosed(key) ==
  [s \in Slots |-> IF s \in ClosedSlots(key) THEN None ELSE virtual_clients[s]]

(* The rate limit, the lookup of the target or the socket stops a new      *)
(* client; a closed one has been dropped by then                           *)
TunneledRefused(key) ==
  /\ task = "select"
  /\ SlotsOf(key) = ClosedSlots(key)
  /\ TakeEnd(IdsOf(SlotsOf(key)))
  /\ cancelled' = cancelled \cup IdsOf(ClosedSlots(key))
  /\ virtual_client_lookup' = [virtual_client_lookup EXCEPT ![key] = None]
  /\ virtual_clients' = WithoutClosed(key)
  /\ active_udp' = IF ClosedSlots(key) = {} THEN active_udp
                   ELSE Cardinality(Occupied(virtual_clients'))
  /\ UNCHANGED <<next_client_generation, receiver, rx, channel, free, sending, task,
                 clearing, out>>

(* The ports of the flow are left out, with the assertion that an offset is *)
(* not greater than the port it is taken from.                              *)
NewClient(key, target, slot) ==
  /\ task = "select"
  /\ SlotsOf(key) = ClosedSlots(key)
  /\ slot \notin Occupied(WithoutClosed(key))
  /\ next_client_generation <= MaxGeneration
  /\ next_client_generation' = next_client_generation + 1
  /\ TakeEnd(IdsOf(SlotsOf(key)))
  /\ cancelled' = cancelled \cup IdsOf(ClosedSlots(key))
  /\ LET id == <<slot, next_client_generation>>
     IN  /\ receiver' = [receiver EXCEPT ![id] = "allocate"]
         /\ rx' = [rx EXCEPT ![id] = key]
         /\ virtual_clients' = [WithoutClosed(key) EXCEPT ![slot] =
              [id |-> id, key |-> key, target_addr |-> target,
               from_tunnel_ts |-> 0, from_origin_ts |-> 0]]
  /\ virtual_client_lookup' = [virtual_client_lookup EXCEPT ![key] = slot]
  /\ active_udp' = Cardinality(Occupied(virtual_clients'))
  /\ UNCHANGED <<channel, free, sending, task, clearing, out>>

-----------------------------------------------------------------------------
(* The udp task: clear_old                                                 *)

IsOld(client) ==
  \/ Closed(client.id)
  \/ client.from_tunnel_ts >= 1 /\ client.from_origin_ts >= 1
  \/ client.from_tunnel_ts = 2
  \/ client.from_origin_ts = 2

clear_old ==
  /\ task = "select"
  /\ TakeEnd(IdsOf(Occupied(virtual_clients)))
  /\ to_remove' = {s \in Occupied(virtual_clients) : IsOld(virtual_clients[s])}
  /\ task' = "clear"
  /\ UNCHANGED <<slab, receiver, rx, cancelled, channel, free, sending, awaiting, out,
                 active_udp>>

(* The highest slot of to_remove goes first.  The task panics if the       *)
(* lookup does not lead to the slot, and if shutdown awaits an end signal  *)
(* that is_closed has taken: a oneshot receiver must not be polled again.  *)
RemoveOld ==
  /\ task = "clear"
  /\ to_remove # {}
  /\ LET slot == Max(to_remove)
         client == virtual_clients[slot]
     IN  /\ to_remove' = to_remove \ {slot}
         /\ virtual_clients' = [virtual_clients EXCEPT ![slot] = None]
         /\ virtual_client_lookup' = [virtual_client_lookup EXCEPT ![client.key] = None]
         /\ cancelled' = cancelled \cup {client.id}
         /\ awaiting' = client.id
         /\ task' = IF virtual_client_lookup[client.key] # slot \/ client.id \in consumed
                    THEN "panicked"
                    ELSE "shutdown"
  /\ UNCHANGED <<next_client_generation, receiver, rx, consumed, channel, free, sending, out,
                 active_udp>>

ShutdownEnds ==
  /\ task = "shutdown"
  /\ receiver[awaiting] = "ended"
  /\ awaiting' = None
  /\ task' = "clear"
  /\ UNCHANGED <<slab, receivers, channel, free, sending, to_remove, out, active_udp>>

ClearEnds ==
  /\ task = "clear"
  /\ to_remove = {}
  /\ active_udp' = Cardinality(Occupied(virtual_clients))
  /\ task' = "select"
  /\ UNCHANGED <<slab, receivers, channel, free, sending, clearing, out>>

-----------------------------------------------------------------------------
(* The clock; and the end of the udp task, which drops the clients and the *)
(* channel: by its token in the select, by abort at another await          *)

GrowOld(slot) ==
  /\ virtual_clients[slot] # None
  /\ \/ /\ virtual_clients[slot].from_tunnel_ts < 2
        /\ virtual_clients' = [virtual_clients EXCEPT ![slot].from_tunnel_ts = @ + 1]
     \/ /\ virtual_clients[slot].from_origin_ts < 2
        /\ virtual_clients' = [virtual_clients EXCEPT ![slot].from_origin_ts = @ + 1]
  /\ UNCHANGED <<virtual_client_lookup, next_client_generation, receivers, channel, free,
                 sending, task, clearing, out, active_udp>>

Stop ==
  /\ task \in {"select", "send", "shutdown"}
  /\ task' = "stopped"
  /\ cancelled' = cancelled \cup IdsOf(Occupied(virtual_clients))
  /\ virtual_clients' = [s \in Slots |-> None]
  /\ virtual_client_lookup' = [k \in Keys |-> None]
  /\ channel' = <<>>
  /\ free' = free + Len(channel) + (IF task = "send" THEN 1 ELSE 0)
  /\ to_remove' = {} /\ awaiting' = None
  /\ UNCHANGED <<next_client_generation, receiver, rx, consumed, sending, out, active_udp>>

Finished ==
  /\ task = "stopped"
  /\ UNCHANGED vars

ReceiverStep(i) ==
  \/ ReceiverAllocates(i)
  \/ ReceiveFails(i)
  \/ Receives(i)
  \/ \E from \in Targets : ReceiverSends(i, from)
  \/ ReceiverEnds(i)

Next ==
  \/ \E i \in Ids : ReceiverStep(i)
  \/ RejectOrigin
  \/ DispatchOrigin
  \/ SendToTunnel
  \/ Sent
  \/ \E key \in Keys : TunneledToClient(key)
  \/ \E key \in Keys : TunneledRefused(key)
  \/ \E key \in Keys, target \in Targets, slot \in Slots : NewClient(key, target, slot)
  \/ clear_old
  \/ RemoveOld
  \/ ShutdownEnds
  \/ ClearEnds
  \/ \E slot \in Slots : GrowOld(slot)
  \/ Stop
  \/ Finished

Spec == Init /\ [][Next]_vars

(* The tasks run: a cancelled receiver ends, a handler of the udp task     *)
(* goes on after its await, the task that sends to the tunnel sends.       *)
FairSpec ==
  /\ Spec
  /\ \A i \in Ids : WF_vars(ReceiverEnds(i))
  /\ WF_vars(SendToTunnel \/ RemoveOld \/ ShutdownEnds \/ ClearEnds)
  /\ WF_vars(Sent)

-----------------------------------------------------------------------------
(* What the safety of the module rests on.  The receiver of a client in    *)
(* the slab runs, on the socket of that client, and nobody has told it to  *)
(* stop; so no end signal is ever taken, and a closed client is never met. *)
SlabIsServed ==
  /\ \A s \in Occupied(virtual_clients) :
       LET client == virtual_clients[s]
       IN  /\ client.id[1] = s
           /\ rx[client.id] = client.key
           /\ client.id \notin cancelled
           /\ receiver[client.id] \in {"allocate", "recv", "send"}
  /\ consumed = {}
  /\ to_remove \subseteq Occupied(virtual_clients)
  /\ task = "stopped" => Occupied(virtual_clients) = {}

(* An id is given to one receiver only, and a packet in the channel came   *)
(* through the socket that was opened for its id.                          *)
IdsAreFresh ==
  /\ \A i \in Ids : receiver[i] # "none" => rx[i] \in Keys /\ i[2] < next_client_generation
  /\ \A i \in cancelled : receiver[i] # "none"
  /\ \A n \in DOMAIN channel :
       /\ receiver[channel[n].rx_id] # "none"
       /\ channel[n].owner = rx[channel[n].rx_id]

(* The lookup and the slab agree, in both directions, at every await of    *)
(* the udp task, and outside of clear_old the statistics show their size.  *)
LookupMatchesSlab ==
  /\ \A k \in Keys, s \in Slots :
       virtual_client_lookup[k] = s
         <=> virtual_clients[s] # None /\ virtual_clients[s].key = k
  /\ task \in {"select", "send"} => active_udp = Cardinality(Occupied(virtual_clients))

(* The udp task never panics in clear_old: its unwrap and its assertion    *)
(* hold, and it never awaits an end signal that was taken, because no      *)
(* receiver ends while its client is in the slab.                          *)
NoPanic == task # "panicked"

(* What is sent to the tunnel goes to the client whose socket received it, *)
(* also when packets of a removed client are still in the channel and its  *)
(* slot has been taken by another.                                         *)
DeliveredToOwner == out # None => out.flow = out.owner

(* "when dropped, rx task get killed": a receiver that runs has its client *)
(* in the slab, or has been told to stop.                                  *)
NoOrphanReceiver ==
  \A i \in Ids :
    receiver[i] \in {"allocate", "recv", "send"}
      => i \in cancelled \/ i \in IdsOf(Occupied(virtual_clients))

(* Every buffer of the pool is free, with a receiver, in the channel, in   *)
(* the hands of the udp task or on its way to the tunnel.                  *)
BuffersAccounted ==
  free + Cardinality({i \in Ids : Holds(i) = 1}) + Len(channel) + sending
       + (IF task = "send" THEN 1 ELSE 0) = PoolSize

(* clear_old gets past the shutdown of each receiver, although it is the   *)
(* only reader of the channel that a receiver may be blocked on.           *)
ShutdownCompletes == (task = "shutdown") ~> (task # "shutdown")

(* When the agent stops, every receiver ends and every buffer comes back.  *)
StopReleasesAll ==
  (task = "stopped")
    ~> (free = PoolSize /\ \A i \in Ids : receiver[i] \in {"none", "ended"})

(* Slab and lookup stay consistent, and clear_old never fails on them.     *)
SlabIsSound == LookupMatchesSlab /\ NoPanic

(* Neither a receiver task nor a buffer is lost, whatever is removed.      *)
NothingLeaks == NoOrphanReceiver /\ BuffersAccounted

(* Receivers end when they are told to: clear_old gets past each, and a    *)
(* stopped agent gets every buffer back.                                   *)
ReceiversEnd == ShutdownCompletes /\ StopReleasesAll
=============================================================================
