-------------------------- MODULE UdpClientsProofs --------------------------
(***************************************************************************)
(* Proofs about UdpClients, for any number of flows, slots, clients and    *)
(* buffers and any capacity of the channels.                               *)
(***************************************************************************)
EXTENDS UdpClients, FiniteSetTheorems, WellFoundedInduction, TLAPS

Running == {"allocate", "recv", "send"}

(* The receivers that hold a buffer.                                       *)
Held(states) == {i \in Ids : states[i] \in {"recv", "send"}}

(* There are finitely many ids.                                            *)
LEMMA IdsAreFinite == IsFiniteSet(Ids)
<1>1. IsFiniteSet(Slots) /\ MaxGeneration \in Nat
  BY SlotsAssumption
<1>2. IsFiniteSet(1..MaxGeneration)
  BY <1>1, FS_Interval
<1> QED
  BY <1>1, <1>2, FS_Product DEF Ids

(* One receiver moves: how many hold a buffer.                             *)
LEMMA HeldMoves ==
  ASSUME NEW states, NEW moved, NEW i \in Ids, \A j \in Ids : j # i => moved[j] = states[j]
  PROVE  /\ Cardinality(Held(states)) \in Nat /\ Cardinality(Held(moved)) \in Nat
         /\ i \in Held(states) /\ i \in Held(moved)
              => Cardinality(Held(moved)) = Cardinality(Held(states))
         /\ i \in Held(states) /\ i \notin Held(moved)
              => Cardinality(Held(states)) = Cardinality(Held(moved)) + 1
         /\ i \notin Held(states) /\ i \in Held(moved)
              => Cardinality(Held(moved)) = Cardinality(Held(states)) + 1
         /\ i \notin Held(states) /\ i \notin Held(moved)
              => Cardinality(Held(moved)) = Cardinality(Held(states))
<1> DEFINE rest == Held(states) \ {i}
<1>1. IsFiniteSet(Held(states))
  <2>1. Held(states) \in SUBSET Ids
    BY DEF Held
  <2> QED
    BY <2>1, IdsAreFinite, FS_Subset
<1>2. IsFiniteSet(rest) /\ Cardinality(rest) \in Nat
  BY <1>1, FS_RemoveElement, FS_CardinalityType
<1>3. Cardinality(rest \cup {i}) = Cardinality(rest) + 1
  BY <1>2, FS_AddElement
<1>4. Held(states) = IF i \in Held(states) THEN rest \cup {i} ELSE rest
  BY DEF Held
<1>5. Held(moved) = IF i \in Held(moved) THEN rest \cup {i} ELSE rest
  BY DEF Held
<1> HIDE DEF rest
<1> QED
  BY <1>2, <1>3, <1>4, <1>5

(* A set of slots has a highest one.                                       *)
LEMMA HighestSlot ==
  ASSUME NEW S, S \subseteq Slots, S # {}
  PROVE  Max(S) \in S
<1> DEFINE n == Cardinality(Slots)
           T == {n - s : s \in S}
<1>1. n \in Nat /\ \A s \in S : s \in Nat /\ s <= n
  <2>1. n \in Nat
    BY SlotsAssumption, FS_CardinalityType
  <2> QED
    BY <2>1, SlotsAssumption
<1>2. T \subseteq Nat /\ T # {}
  BY <1>1
<1>3. PICK t \in T : \A u \in T : ~(<<u, t>> \in OpToRel(<, Nat))
  BY <1>2, NatLessThanWellFounded, WFMin
<1>4. PICK s \in S : t = n - s
  BY <1>3
<1>5. \A r \in S : s >= r
  <2> SUFFICES ASSUME NEW r \in S PROVE s >= r
    OBVIOUS
  <2>1. n - r \in T /\ n - r \in Nat /\ t \in Nat
    BY <1>1, <1>2
  <2>2. ~(n - r < t)
    BY <1>3, <2>1 DEF OpToRel
  <2> QED
    BY <2>1, <2>2, <1>1, <1>4
<1> QED
  BY <1>5 DEF Max
-----------------------------------------------------------------------------
(* The inductive invariant: the properties, and what they rest on.         *)
UdpInv ==
  /\ TypeOK
  /\ SlabIsServed
  /\ IdsAreFresh
  /\ LookupMatchesSlab
  /\ NoPanic
  /\ DeliveredToOwner
  /\ NoOrphanReceiver
  /\ BuffersAccounted

(* A client in the slab is one of its type, and the lookup leads to it.    *)
LEMMA SlabFacts ==
  ASSUME UdpInv, NEW s \in Occupied(virtual_clients)
  PROVE  /\ s \in Slots /\ s # None
         /\ virtual_clients[s] \in Client
         /\ virtual_clients[s].id \in Ids
         /\ virtual_clients[s].key \in Keys
         /\ virtual_client_lookup[virtual_clients[s].key] = s
         /\ receiver[virtual_clients[s].id] \in Running
         /\ virtual_clients[s].id[1] = s
         /\ virtual_clients[s].id \notin cancelled
         /\ rx[virtual_clients[s].id] = virtual_clients[s].key
<1>1. s \in Slots /\ virtual_clients[s] # None
  BY DEF Occupied
<1>2. virtual_clients[s] \in Client /\ s # None
  BY <1>1, SlotsAssumption DEF UdpInv, TypeOK
<1>3. virtual_clients[s].id \in Ids /\ virtual_clients[s].key \in Keys
  BY <1>2 DEF Client
<1>4. virtual_client_lookup[virtual_clients[s].key] = s
  BY <1>1, <1>3 DEF UdpInv, LookupMatchesSlab
<1>5. /\ receiver[virtual_clients[s].id] \in Running
      /\ virtual_clients[s].id[1] = s
      /\ virtual_clients[s].id \notin cancelled
      /\ rx[virtual_clients[s].id] = virtual_clients[s].key
  BY DEF UdpInv, SlabIsServed, Running
<1> QED
  BY <1>1, <1>2, <1>3, <1>4, <1>5

(* is_closed finds no client of the slab closed, and takes no end signal.  *)
LEMMA NoneIsClosed ==
  ASSUME UdpInv
  PROVE  /\ \A S \in SUBSET Occupied(virtual_clients) : TakeEnd(IdsOf(S)) => consumed' = consumed
         /\ \A key \in Keys :
              /\ SlotsOf(key) \subseteq Occupied(virtual_clients)
              /\ ClosedSlots(key) = {}
              /\ WithoutClosed(key) = virtual_clients
<1>1. \A S \in SUBSET Occupied(virtual_clients) : TakeEnd(IdsOf(S)) => consumed' = consumed
  <2> SUFFICES ASSUME NEW S \in SUBSET Occupied(virtual_clients), TakeEnd(IdsOf(S))
               PROVE  consumed' = consumed
    OBVIOUS
  <2>1. {i \in IdsOf(S) : receiver[i] = "ended"} = {}
    <3>1. \A s \in S : receiver[virtual_clients[s].id] # "ended"
      BY SlabFacts DEF Running
    <3> QED
      BY <3>1 DEF IdsOf
  <2> QED
    BY <2>1 DEF TakeEnd
<1>2. ASSUME NEW key \in Keys
      PROVE  /\ SlotsOf(key) \subseteq Occupied(virtual_clients)
             /\ ClosedSlots(key) = {}
             /\ WithoutClosed(key) = virtual_clients
  <2>1. SlotsOf(key) \subseteq Occupied(virtual_clients)
    <3> SUFFICES ASSUME NEW s \in SlotsOf(key) PROVE s \in Occupied(virtual_clients)
      OBVIOUS
    <3>1. virtual_client_lookup[key] = s /\ s \in Slots
      BY DEF SlotsOf, UdpInv, TypeOK
    <3> QED
      BY <3>1 DEF UdpInv, LookupMatchesSlab, Occupied
  <2>2. \A s \in SlotsOf(key) : ~Closed(virtual_clients[s].id)
    <3>1. \A s \in SlotsOf(key) : receiver[virtual_clients[s].id] \in Running
      BY <2>1, SlabFacts
    <3>2. consumed = {}
      BY DEF UdpInv, SlabIsServed
    <3> QED
      BY <3>1, <3>2 DEF Closed, Running
  <2>3. ClosedSlots(key) = {}
    BY <2>2 DEF ClosedSlots
  <2>4. WithoutClosed(key) = virtual_clients
    BY <2>3 DEF WithoutClosed, UdpInv, TypeOK
  <2> QED
    BY <2>1, <2>3, <2>4
<1> QED
  BY <1>1, <1>2

(* A packet that is refused leaves everything as it was.                   *)
LEMMA RefusedChangesNothing ==
  ASSUME UdpInv, NEW key \in Keys, TunneledRefused(key)
  PROVE  UNCHANGED vars
<1>1. ClosedSlots(key) = {} /\ WithoutClosed(key) = virtual_clients
  BY NoneIsClosed
<1>2. SlotsOf(key) = {}
  BY <1>1 DEF TunneledRefused
<1>3. virtual_client_lookup[key] = None
  BY <1>2 DEF SlotsOf
<1>4. virtual_client_lookup' = virtual_client_lookup
  BY <1>3 DEF TunneledRefused, UdpInv, TypeOK
<1>5. virtual_clients' = virtual_clients /\ active_udp' = active_udp
  BY <1>1 DEF TunneledRefused
<1>6. IdsOf({}) = {}
  BY DEF IdsOf
<1>7. consumed' = consumed /\ cancelled' = cancelled
  BY <1>1, <1>2, <1>6 DEF TunneledRefused, TakeEnd
<1> QED
  BY <1>4, <1>5, <1>7 DEF TunneledRefused, vars, slab, receivers, clearing

(* A new client: its flow, its slot and its id were unused.                *)
LEMMA NewIsUnused ==
  ASSUME UdpInv, NEW key \in Keys, NEW target \in Targets, NEW slot \in Slots,
         NewClient(key, target, slot)
  PROVE  LET id == <<slot, next_client_generation>>
         IN  /\ virtual_client_lookup[key] = None /\ virtual_clients[slot] = None
             /\ id \in Ids /\ receiver[id] = "none" /\ id \notin cancelled
             /\ UNCHANGED <<consumed, cancelled>>
             /\ virtual_clients' = [virtual_clients EXCEPT ![slot] =
                  [id |-> id, key |-> key, target_addr |-> target,
                   from_tunnel_ts |-> 0, from_origin_ts |-> 0]]
<1> DEFINE id == <<slot, next_client_generation>>
<1>1. ClosedSlots(key) = {} /\ WithoutClosed(key) = virtual_clients
  BY NoneIsClosed
<1>2. SlotsOf(key) = {}
  BY <1>1 DEF NewClient
<1>3. virtual_client_lookup[key] = None
  BY <1>2 DEF SlotsOf
<1>4. virtual_clients[slot] = None
  BY <1>1 DEF NewClient, Occupied
<1>5. IdsOf({}) = {}
  BY DEF IdsOf
<1>6. consumed' = consumed /\ cancelled' = cancelled
  BY <1>1, <1>2, <1>5 DEF NewClient, TakeEnd
<1>7. id \in Ids /\ id[2] = next_client_generation /\ next_client_generation \in Nat
  BY SlotsAssumption DEF NewClient, Ids, UdpInv, TypeOK
<1>8. receiver[id] = "none"
  BY <1>7 DEF UdpInv, IdsAreFresh
<1>9. id \notin cancelled
  BY <1>8 DEF UdpInv, IdsAreFresh
<1>10. virtual_clients' = [virtual_clients EXCEPT ![slot] =
         [id |-> id, key |-> key, target_addr |-> target,
          from_tunnel_ts |-> 0, from_origin_ts |-> 0]]
  BY <1>1 DEF NewClient
<1> QED
  BY <1>3, <1>4, <1>6, <1>7, <1>8, <1>9, <1>10
-----------------------------------------------------------------------------
(* Where the buffers are.                                                  *)
InHand(place) == IF place = "send" THEN 1 ELSE 0
Accounted(unused, states, received, leaving, place) ==
  unused + Cardinality(Held(states)) + Len(received) + leaving + InHand(place) = PoolSize

(* The property, in these terms, and what is known of the numbers.         *)
LEMMA AccountFacts ==
  ASSUME UdpInv
  PROVE  /\ Accounted(free, receiver, channel, sending, task)
         /\ free \in Nat /\ sending \in Nat /\ PoolSize \in Nat
         /\ channel \in Seq(Received) /\ Len(channel) \in Nat
         /\ Cardinality(Held(receiver)) \in Nat
         /\ receiver \in [Ids -> {"none", "allocate", "recv", "send", "ended"}]
<1>1. /\ free \in Nat /\ sending \in Nat /\ PoolSize \in Nat
      /\ channel \in Seq(Received) /\ Len(channel) \in Nat
      /\ receiver \in [Ids -> {"none", "allocate", "recv", "send", "ended"}]
  BY SlotsAssumption DEF UdpInv, TypeOK
<1>2. Held(receiver) \in SUBSET Ids
  BY DEF Held
<1>3. Cardinality(Held(receiver)) \in Nat
  BY <1>2, IdsAreFinite, FS_Subset, FS_CardinalityType
<1>4. {i \in Ids : Holds(i) = 1} = Held(receiver)
  BY DEF Holds, Held
<1>5. Accounted(free, receiver, channel, sending, task)
  BY <1>4 DEF UdpInv, BuffersAccounted, Accounted, InHand
<1> QED
  BY <1>1, <1>3, <1>5

(* A step of a receiver keeps the account.                                 *)
LEMMA ReceiverAccount ==
  ASSUME UdpInv, NEW i \in Ids, ReceiverStep(i)
  PROVE  free' \in Nat /\ Accounted(free', receiver', channel', sending', task')
<1> DEFINE before == Cardinality(Held(receiver))
           after == Cardinality(Held(receiver'))
<1>1. receiver \in [Ids -> {"none", "allocate", "recv", "send", "ended"}]
  BY AccountFacts
<1>2. /\ free \in Nat /\ sending \in Nat /\ Len(channel) \in Nat /\ before \in Nat
      /\ InHand(task) \in Nat /\ PoolSize \in Nat
      /\ free + before + Len(channel) + sending + InHand(task) = PoolSize
  BY AccountFacts DEF Accounted, InHand
<1>3. SUFFICES /\ free' \in Nat
               /\ free' + after + Len(channel') + sending' + InHand(task') = PoolSize
  BY DEF Accounted
<1>4. CASE ReceiverAllocates(i)
  <2>1. after = before + 1
    <3>1. /\ i \notin Held(receiver) /\ i \in Held(receiver')
          /\ \A j \in Ids : j # i => receiver'[j] = receiver[j]
      BY <1>1, <1>4 DEF ReceiverAllocates, Held
    <3> QED
      BY <3>1, HeldMoves
  <2> HIDE DEF before, after
  <2> QED
    BY <1>4, <2>1, <1>2 DEF ReceiverAllocates
<1>5. CASE ReceiveFails(i)
  <2>1. before = after + 1 /\ after \in Nat
    <3>1. /\ i \in Held(receiver) /\ i \notin Held(receiver')
          /\ \A j \in Ids : j # i => receiver'[j] = receiver[j]
      BY <1>1, <1>5 DEF ReceiveFails, Held
    <3> QED
      BY <3>1, HeldMoves
  <2> HIDE DEF before, after
  <2> QED
    BY <1>5, <2>1, <1>2 DEF ReceiveFails
<1>6. CASE Receives(i)
  <2>1. after = before
    <3>1. /\ i \in Held(receiver) /\ i \in Held(receiver')
          /\ \A j \in Ids : j # i => receiver'[j] = receiver[j]
      BY <1>1, <1>6 DEF Receives, Held
    <3> QED
      BY <3>1, HeldMoves
  <2> HIDE DEF before, after
  <2> QED
    BY <1>6, <2>1, <1>2 DEF Receives
<1>7. CASE \E from \in Targets : ReceiverSends(i, from)
  <2>1. PICK from \in Targets : ReceiverSends(i, from)
    BY <1>7
  <2>2. before = after + 1 /\ after \in Nat
    <3>1. /\ i \in Held(receiver) /\ i \notin Held(receiver')
          /\ \A j \in Ids : j # i => receiver'[j] = receiver[j]
      BY <1>1, <2>1 DEF ReceiverSends, Held
    <3> QED
      BY <3>1, HeldMoves
  <2>3. Len(channel') = Len(channel) + 1
    BY <2>1, AccountFacts DEF ReceiverSends
  <2> HIDE DEF before, after
  <2> QED
    BY <2>1, <2>2, <2>3, <1>2 DEF ReceiverSends
<1>8. CASE ReceiverEnds(i)
  <2>1. /\ i \notin Held(receiver') /\ UNCHANGED <<channel, sending, task>>
        /\ \A j \in Ids : j # i => receiver'[j] = receiver[j]
    BY <1>1, <1>8 DEF ReceiverEnds, Held
  <2>2. CASE i \in Held(receiver)
    <3>1. before = after + 1 /\ after \in Nat
      BY <2>1, <2>2, HeldMoves
    <3>2. free' = free + 1
      BY <1>8, <2>2 DEF ReceiverEnds, Holds, Held
    <3> HIDE DEF before, after
    <3> QED
      BY <2>1, <3>1, <3>2, <1>2
  <2>3. CASE i \notin Held(receiver)
    <3>1. before = after
      BY <2>1, <2>3, HeldMoves
    <3>2. free' = free
      BY <1>8, <1>2, <2>3 DEF ReceiverEnds, Holds, Held
    <3> HIDE DEF before, after
    <3> QED
      BY <2>1, <3>1, <3>2, <1>2
  <2> QED
    BY <2>2, <2>3
<1> QED
  BY <1>4, <1>5, <1>6, <1>7, <1>8 DEF ReceiverStep

(* So does every step of the agent; free buffers are within the pool.      *)
LEMMA AccountStep ==
  ASSUME UdpInv, Next
  PROVE  free' \in 0..PoolSize /\ BuffersAccounted'
<1> DEFINE before == Cardinality(Held(receiver))
           after == Cardinality(Held(receiver'))
<1>1. /\ free \in Nat /\ sending \in Nat /\ Len(channel) \in Nat /\ before \in Nat
      /\ InHand(task) \in Nat /\ PoolSize \in Nat
      /\ channel \in Seq(Received)
      /\ receiver \in [Ids -> {"none", "allocate", "recv", "send", "ended"}]
      /\ free + before + Len(channel) + sending + InHand(task) = PoolSize
  BY AccountFacts DEF Accounted, InHand
<1>2. SUFFICES /\ free' \in Nat /\ sending' \in Nat /\ Len(channel') \in Nat /\ after \in Nat
               /\ free' + after + Len(channel') + sending' + InHand(task') = PoolSize
  <2>1. {i \in Ids : Holds(i)' = 1} = Held(receiver')
    BY DEF Holds, Held
  <2>2. BuffersAccounted'
    BY <1>2, <2>1 DEF BuffersAccounted, InHand
  <2>3. InHand(task') \in Nat
    BY DEF InHand
  <2>4. free' <= PoolSize
    <3>1. \A a, b, c, d, e, all \in Nat : a + b + c + d + e = all => a <= all
      OBVIOUS
    <3> QED
      BY <1>1, <1>2, <2>3, <3>1
  <2>5. free' \in 0..PoolSize
    BY <1>1, <1>2, <2>4
  <2> QED
    BY <2>2, <2>5
<1>3. receiver' = receiver => after = before
  OBVIOUS
<1>4. ASSUME NEW i \in Ids, ReceiverStep(i)
      PROVE  /\ free' \in Nat /\ sending' \in Nat /\ Len(channel') \in Nat /\ after \in Nat
             /\ free' + after + Len(channel') + sending' + InHand(task') = PoolSize
  <2>1. free' \in Nat /\ Accounted(free', receiver', channel', sending', task')
    BY <1>4, ReceiverAccount
  <2>2. sending' = sending
    BY <1>4 DEF ReceiverStep, ReceiverAllocates, ReceiveFails, Receives, ReceiverSends, ReceiverEnds
  <2>3. channel' = channel \/ \E packet : channel' = Append(channel, packet)
    BY <1>4 DEF ReceiverStep, ReceiverAllocates, ReceiveFails, Receives, ReceiverSends, ReceiverEnds
  <2>4. Len(channel') \in Nat
    BY <1>1, <2>3
  <2>5. after \in Nat
    <3>1. Held(receiver') \in SUBSET Ids
      BY DEF Held
    <3> QED
      BY <3>1, IdsAreFinite, FS_Subset, FS_CardinalityType
  <2> QED
    BY <1>1, <2>1, <2>2, <2>4, <2>5 DEF Accounted
<1>5. CASE RejectOrigin
  <2>1. Len(channel') = Len(channel) - 1 /\ Len(channel) > 0
    BY <1>1, <1>5 DEF RejectOrigin
  <2> HIDE DEF before, after
  <2> QED
    BY <1>1, <1>3, <1>5, <2>1 DEF RejectOrigin, receivers
<1>6. CASE DispatchOrigin
  <2>1. Len(channel') = Len(channel) - 1 /\ Len(channel) > 0
    BY <1>1, <1>6 DEF DispatchOrigin
  <2>2. InHand(task) = 0 /\ InHand(task') = 1
    BY <1>6 DEF DispatchOrigin, InHand
  <2> HIDE DEF before, after
  <2> QED
    BY <1>1, <1>3, <1>6, <2>1, <2>2 DEF DispatchOrigin, receivers
<1>7. CASE SendToTunnel
  <2>1. InHand(task) = 1 /\ InHand(task') = 0
    BY <1>7 DEF SendToTunnel, InHand
  <2> HIDE DEF before, after
  <2> QED
    BY <1>1, <1>3, <1>7, <2>1 DEF SendToTunnel, receivers
<1>8. CASE Sent
  <2> HIDE DEF before, after
  <2> QED
    BY <1>1, <1>3, <1>8 DEF Sent, receivers
<1>9. ASSUME NEW key \in Keys, NEW target \in Targets, NEW slot \in Slots,
             NewClient(key, target, slot)
      PROVE  /\ free' \in Nat /\ sending' \in Nat /\ Len(channel') \in Nat /\ after \in Nat
             /\ free' + after + Len(channel') + sending' + InHand(task') = PoolSize
  <2> DEFINE id == <<slot, next_client_generation>>
  <2>1. id \in Ids /\ receiver[id] = "none"
    BY <1>9, NewIsUnused
  <2>2. receiver' = [receiver EXCEPT ![id] = "allocate"]
    BY <1>9 DEF NewClient
  <2>3. Held(receiver') = Held(receiver)
    BY <1>1, <2>1, <2>2 DEF Held
  <2> QED
    BY <1>1, <1>9, <2>3 DEF NewClient
<1>10. CASE Stop
  <2>1. Len(channel') = 0 /\ InHand(task') = 0
    BY <1>10 DEF Stop, InHand
  <2>2. free' = free + Len(channel) + InHand(task) /\ sending' = sending /\ receiver' = receiver
    BY <1>10 DEF Stop, InHand
  <2> HIDE DEF before, after
  <2> QED
    BY <1>1, <1>3, <2>1, <2>2
<1>11. CASE UNCHANGED <<free, receiver, channel, sending>> /\ InHand(task') = InHand(task)
  BY <1>1, <1>3, <1>11
<1>12. ASSUME \/ \E key \in Keys : TunneledToClient(key) \/ TunneledRefused(key)
              \/ clear_old \/ RemoveOld \/ ShutdownEnds \/ ClearEnds \/ Finished
              \/ \E slot \in Slots : GrowOld(slot)
       PROVE  UNCHANGED <<free, receiver, channel, sending>> /\ InHand(task') = InHand(task)
  BY <1>12 DEF TunneledToClient, TunneledRefused, clear_old, RemoveOld, ShutdownEnds, ClearEnds,
               Finished, GrowOld, receivers, vars, InHand
<1> QED
  BY <1>4, <1>5, <1>6, <1>7, <1>8, <1>9, <1>10, <1>11, <1>12 DEF Next

-----------------------------------------------------------------------------
(* What every step has to keep besides the account.                        *)
KeepsRest == /\ TypeOK' /\ SlabIsServed' /\ IdsAreFresh' /\ LookupMatchesSlab'
             /\ NoPanic' /\ DeliveredToOwner' /\ NoOrphanReceiver'

(* A receiver that moves was running; it ends only if it was told to or    *)
(* the udp task is gone.                                                   *)
LEMMA ReceiverMoves ==
  ASSUME UdpInv, NEW i \in Ids, ReceiverStep(i)
  PROVE  /\ UNCHANGED <<slab, rx, cancelled, consumed, sending, task, clearing, out, active_udp>>
         /\ receiver[i] \in Running /\ receiver'[i] \in Running \cup {"ended"}
         /\ receiver'[i] = "ended" => i \in cancelled \/ task = "stopped"
         /\ receiver' \in [Ids -> {"none", "allocate", "recv", "send", "ended"}]
         /\ \A j \in Ids : j # i => receiver'[j] = receiver[j]
         /\ \/ channel' = channel
            \/ /\ Len(channel) < ChannelCap
               /\ \E from \in Targets :
                    channel' = Append(channel, [rx_id |-> i, from |-> from, owner |-> rx[i]])
<1>1. receiver \in [Ids -> {"none", "allocate", "recv", "send", "ended"}]
  BY DEF UdpInv, TypeOK
<1>2. CASE ReceiverAllocates(i)
  BY <1>1, <1>2 DEF ReceiverAllocates, Running
<1>3. CASE ReceiveFails(i)
  BY <1>1, <1>3 DEF ReceiveFails, Running
<1>4. CASE Receives(i)
  BY <1>1, <1>4 DEF Receives, Running
<1>5. CASE \E from \in Targets : ReceiverSends(i, from)
  BY <1>1, <1>5 DEF ReceiverSends, Running
<1>6. CASE ReceiverEnds(i)
  BY <1>1, <1>6 DEF ReceiverEnds, Running
<1> QED
  BY <1>2, <1>3, <1>4, <1>5, <1>6 DEF ReceiverStep

(* The steps of the receivers.                                             *)
LEMMA ReceiverKeeps ==
  ASSUME UdpInv, NEW i \in Ids, ReceiverStep(i), free' \in 0..PoolSize
  PROVE  KeepsRest
<1>1. /\ UNCHANGED <<virtual_client_lookup, virtual_clients, next_client_generation, rx,
                     cancelled, consumed, sending, task, to_remove, awaiting, out, active_udp>>
      /\ receiver[i] \in Running /\ receiver'[i] \in Running \cup {"ended"}
      /\ receiver'[i] = "ended" => i \in cancelled \/ task = "stopped"
      /\ receiver' \in [Ids -> {"none", "allocate", "recv", "send", "ended"}]
      /\ \A j \in Ids : j # i => receiver'[j] = receiver[j]
  BY ReceiverMoves DEF slab, clearing
<1>2. \A j \in Ids : receiver'[j] # "none" <=> receiver[j] # "none"
  BY <1>1 DEF Running
<1>3. \A j \in Ids : receiver'[j] \in Running => receiver[j] \in Running
  BY <1>1
<1>4. rx[i] \in Keys
  BY <1>1 DEF UdpInv, IdsAreFresh, Running
<1>5. channel \in Seq(Received) /\ Len(channel) <= ChannelCap /\ ChannelCap \in Nat
  BY SlotsAssumption DEF UdpInv, TypeOK
<1>6. /\ channel' \in Seq(Received) /\ Len(channel') <= ChannelCap
      /\ \A n \in DOMAIN channel' :
           \/ n \in DOMAIN channel /\ channel'[n] = channel[n]
           \/ channel'[n].rx_id = i /\ channel'[n].owner = rx[i]
  <2>1. CASE channel' = channel
    BY <1>5, <2>1
  <2>2. ASSUME Len(channel) < ChannelCap, NEW from \in Targets,
               channel' = Append(channel, [rx_id |-> i, from |-> from, owner |-> rx[i]])
        PROVE  <1>6!1 /\ <1>6!2
    <3> DEFINE packet == [rx_id |-> i, from |-> from, owner |-> rx[i]]
    <3>1. packet \in Received /\ packet.rx_id = i /\ packet.owner = rx[i]
      BY <1>4 DEF Received
    <3> HIDE DEF packet
    <3>2. channel' = Append(channel, packet)
      BY <2>2 DEF packet
    <3>3. channel' \in Seq(Received) /\ Len(channel') = Len(channel) + 1
      BY <1>5, <3>1, <3>2
    <3>4. \A n \in DOMAIN channel' : \/ n \in DOMAIN channel /\ channel'[n] = channel[n]
                                     \/ channel'[n] = packet
      BY <1>5, <3>1, <3>2
    <3> QED
      BY <1>5, <2>2, <3>1, <3>3, <3>4
  <2> QED
    BY <2>1, <2>2, ReceiverMoves
<1>7. TypeOK'
  BY <1>1, <1>6 DEF UdpInv, TypeOK
<1>8. IdsAreFresh'
  <2>1. \A n \in DOMAIN channel' : /\ receiver'[channel'[n].rx_id] # "none"
                                   /\ channel'[n].owner = rx[channel'[n].rx_id]
    <3> SUFFICES ASSUME NEW n \in DOMAIN channel'
                 PROVE  /\ receiver'[channel'[n].rx_id] # "none"
                        /\ channel'[n].owner = rx[channel'[n].rx_id]
      OBVIOUS
    <3>1. CASE n \in DOMAIN channel /\ channel'[n] = channel[n]
      <4>1. channel[n].rx_id \in Ids
        <5>1. channel[n] \in Received
          BY <1>5, <3>1
        <5> QED
          BY <5>1 DEF Received
      <4>2. receiver[channel[n].rx_id] # "none" /\ channel[n].owner = rx[channel[n].rx_id]
        BY <3>1 DEF UdpInv, IdsAreFresh
      <4> QED
        BY <1>2, <3>1, <4>1, <4>2
    <3>2. CASE channel'[n].rx_id = i /\ channel'[n].owner = rx[i]
      BY <1>1, <3>2 DEF Running
    <3> QED
      BY <1>6, <3>1, <3>2
  <2>2. cancelled \subseteq Ids
    BY DEF UdpInv, TypeOK
  <2> QED
    BY <1>1, <1>2, <2>1, <2>2 DEF UdpInv, IdsAreFresh
<1>9. SlabIsServed'
  <2>1. Occupied(virtual_clients)' = Occupied(virtual_clients)
    BY <1>1 DEF Occupied
  <2>2. ASSUME NEW s \in Occupied(virtual_clients)
        PROVE  receiver'[virtual_clients[s].id] \in Running
    <3>1. /\ virtual_clients[s].id \in Ids /\ virtual_clients[s].id \notin cancelled
          /\ receiver[virtual_clients[s].id] \in Running
      BY SlabFacts
    <3>2. task # "stopped"
      BY DEF UdpInv, SlabIsServed
    <3> QED
      BY <1>1, <3>1, <3>2
  <2> QED
    BY <1>1, <2>1, <2>2 DEF UdpInv, SlabIsServed, Running
<1>10. LookupMatchesSlab' /\ NoPanic' /\ DeliveredToOwner'
  BY <1>1 DEF UdpInv, LookupMatchesSlab, NoPanic, DeliveredToOwner, Occupied
<1>11. NoOrphanReceiver'
  BY <1>1, <1>3 DEF UdpInv, NoOrphanReceiver, IdsOf, Occupied, Running
<1> QED
  BY <1>7, <1>8, <1>9, <1>10, <1>11 DEF KeepsRest

(* The clients of the slab are the same, but for their time stamps.        *)
SameClients(new) ==
  /\ new \in [Slots -> Client \cup {None}]
  /\ \A s \in Slots :
       /\ new[s] = None <=> virtual_clients[s] = None
       /\ virtual_clients[s] # None => new[s].id = virtual_clients[s].id
                                       /\ new[s].key = virtual_clients[s].key

(* Setting a time stamp of a client.                                       *)
LEMMA TouchIsSame ==
  ASSUME UdpInv, NEW slot \in Slots, virtual_clients[slot] # None, NEW age \in 0..2
  PROVE  /\ SameClients([virtual_clients EXCEPT ![slot].from_tunnel_ts = age])
         /\ SameClients([virtual_clients EXCEPT ![slot].from_origin_ts = age])
<1>1. virtual_clients \in [Slots -> Client \cup {None}]
  BY DEF UdpInv, TypeOK
<1>2. virtual_clients[slot] \in Client
  BY <1>1
<1> DEFINE tunnel == [virtual_clients[slot] EXCEPT !.from_tunnel_ts = age]
           origin == [virtual_clients[slot] EXCEPT !.from_origin_ts = age]
<1>3. /\ tunnel \in Client /\ tunnel.id = virtual_clients[slot].id
      /\ tunnel.key = virtual_clients[slot].key
  BY <1>2 DEF Client
<1>4. /\ origin \in Client /\ origin.id = virtual_clients[slot].id
      /\ origin.key = virtual_clients[slot].key
  BY <1>2 DEF Client
<1>5. None \notin Client
  BY SlotsAssumption
<1> HIDE DEF tunnel, origin
<1>6. SameClients([virtual_clients EXCEPT ![slot] = tunnel])
  BY <1>1, <1>3, <1>5 DEF SameClients
<1>7. SameClients([virtual_clients EXCEPT ![slot] = origin])
  BY <1>1, <1>4, <1>5 DEF SameClients
<1> QED
  BY <1>6, <1>7 DEF tunnel, origin

(* A step that leaves the clients the same keeps what is known of them.    *)
LEMMA SameKeeps ==
  ASSUME UdpInv, SameClients(virtual_clients'),
         UNCHANGED <<virtual_client_lookup, receiver, rx, cancelled, consumed, to_remove,
                     active_udp>>,
         task' = "stopped" => task = "stopped",
         task' \in {"select", "send"} => task \in {"select", "send"}
  PROVE  SlabIsServed' /\ LookupMatchesSlab' /\ NoOrphanReceiver'
<1>1. Occupied(virtual_clients') = Occupied(virtual_clients)
  BY DEF SameClients, Occupied
<1>2. \A s \in Occupied(virtual_clients) :
        virtual_clients'[s].id = virtual_clients[s].id
        /\ virtual_clients'[s].key = virtual_clients[s].key
  BY DEF SameClients, Occupied
<1>3. SlabIsServed'
  <2>1. \A s \in Occupied(virtual_clients) :
          /\ virtual_clients'[s].id[1] = s
          /\ rx[virtual_clients'[s].id] = virtual_clients'[s].key
          /\ virtual_clients'[s].id \notin cancelled
          /\ receiver[virtual_clients'[s].id] \in {"allocate", "recv", "send"}
    BY <1>2 DEF UdpInv, SlabIsServed
  <2> QED
    BY <1>1, <2>1 DEF UdpInv, SlabIsServed
<1>4. LookupMatchesSlab'
  BY <1>1 DEF UdpInv, LookupMatchesSlab, SameClients
<1>5. IdsOf(Occupied(virtual_clients))' = IdsOf(Occupied(virtual_clients))
  BY <1>1, <1>2 DEF IdsOf
<1>6. NoOrphanReceiver'
  BY <1>1, <1>5 DEF UdpInv, NoOrphanReceiver
<1> QED
  BY <1>3, <1>4, <1>6

(* Packets that leave the channel.                                         *)
LEMMA TailKeeps ==
  ASSUME UdpInv, channel # <<>>, channel' = Tail(channel),
         UNCHANGED <<receiver, rx, cancelled, next_client_generation>>
  PROVE  IdsAreFresh' /\ channel' \in Seq(Received) /\ Len(channel') <= ChannelCap
<1>1. channel \in Seq(Received) /\ Len(channel) <= ChannelCap /\ ChannelCap \in Nat
  BY SlotsAssumption DEF UdpInv, TypeOK
<1>2. channel' \in Seq(Received) /\ Len(channel') = Len(channel) - 1
  BY <1>1
<1>3. \A n \in DOMAIN channel' : n + 1 \in DOMAIN channel /\ channel'[n] = channel[n + 1]
  BY <1>1
<1>4. \A n \in DOMAIN channel' : /\ receiver[channel'[n].rx_id] # "none"
                                 /\ channel'[n].owner = rx[channel'[n].rx_id]
  BY <1>3 DEF UdpInv, IdsAreFresh
<1>5. IdsAreFresh'
  BY <1>4 DEF UdpInv, IdsAreFresh
<1> QED
  BY <1>1, <1>2, <1>5

(* The udp task at the channel, at the tunnel and with packets for clients *)
(* it has, and the clock.                                                  *)
LEMMA TrafficKeeps ==
  ASSUME UdpInv, free' \in 0..PoolSize,
         \/ RejectOrigin \/ DispatchOrigin \/ SendToTunnel \/ Sent
         \/ \E key \in Keys : TunneledToClient(key)
         \/ \E slot \in Slots : GrowOld(slot)
  PROVE  KeepsRest
<1> USE DEF slab, receivers, clearing
<1>1. SameClients(virtual_clients)
  BY DEF UdpInv, TypeOK, SameClients
<1>2. CASE RejectOrigin
  <2>1. UNCHANGED <<virtual_client_lookup, virtual_clients, next_client_generation, receiver, rx,
                    cancelled, consumed, sending, task, to_remove, awaiting, out, active_udp>>
    BY <1>2 DEF RejectOrigin
  <2>2. IdsAreFresh' /\ channel' \in Seq(Received) /\ Len(channel') <= ChannelCap
    BY <1>2, <2>1, TailKeeps DEF RejectOrigin
  <2>3. SlabIsServed' /\ LookupMatchesSlab' /\ NoOrphanReceiver'
    BY <1>1, <2>1, SameKeeps
  <2>4. TypeOK' /\ NoPanic' /\ DeliveredToOwner'
    BY <2>1, <2>2 DEF UdpInv, TypeOK, NoPanic, DeliveredToOwner
  <2> QED
    BY <2>2, <2>3, <2>4 DEF KeepsRest
<1>3. CASE DispatchOrigin
  <2> DEFINE packet == Head(channel)
             slot == packet.rx_id[1]
  <2>1. /\ UNCHANGED <<virtual_client_lookup, next_client_generation, receiver, rx, cancelled,
                       consumed, free, sending, to_remove, awaiting, active_udp>>
        /\ channel # <<>> /\ channel' = Tail(channel) /\ task = "select" /\ task' = "send"
        /\ virtual_clients' = [virtual_clients EXCEPT ![slot].from_origin_ts = 0]
        /\ out' = [flow |-> virtual_clients[slot].key, owner |-> packet.owner]
        /\ virtual_clients[slot] # None /\ virtual_clients[slot].id = packet.rx_id
    BY <1>3 DEF DispatchOrigin, Accepted, Sender
  <2>2. packet \in Received /\ 1 \in DOMAIN channel /\ packet = channel[1]
    <3>1. channel \in Seq(Received)
      BY DEF UdpInv, TypeOK
    <3> QED
      BY <2>1, <3>1
  <2>3. packet.rx_id \in Ids /\ packet.owner \in Keys /\ packet.owner = rx[packet.rx_id]
    BY <2>2 DEF Received, UdpInv, IdsAreFresh
  <2>4. slot \in Slots
    BY <2>3 DEF Ids
  <2>5. SameClients(virtual_clients')
    <3>1. SameClients([virtual_clients EXCEPT ![slot].from_origin_ts = 0])
      BY <2>1, <2>4, 0 \in 0..2, TouchIsSame
    <3> QED
      BY <2>1, <3>1
  <2>6. SlabIsServed' /\ LookupMatchesSlab' /\ NoOrphanReceiver'
    BY <2>1, <2>5, SameKeeps
  <2>7. IdsAreFresh' /\ channel' \in Seq(Received) /\ Len(channel') <= ChannelCap
    BY <2>1, TailKeeps
  <2>8. slot \in Occupied(virtual_clients)
    BY <2>1, <2>4 DEF Occupied
  <2>9. rx[packet.rx_id] = virtual_clients[slot].key /\ virtual_clients[slot].key \in Keys
    BY <2>1, <2>8, SlabFacts
  <2>10. out' \in Flow /\ out'.flow = out'.owner
    <3>1. packet.owner = virtual_clients[slot].key
      BY <2>3, <2>9
    <3> QED
      BY <2>1, <2>9, <3>1 DEF Flow
  <2>11. TypeOK' /\ NoPanic' /\ DeliveredToOwner'
    BY <2>1, <2>5, <2>7, <2>10 DEF UdpInv, TypeOK, NoPanic, DeliveredToOwner, SameClients
  <2> QED
    BY <2>6, <2>7, <2>11 DEF KeepsRest
<1>4. CASE SendToTunnel \/ Sent
  <2>1. /\ UNCHANGED <<virtual_client_lookup, virtual_clients, next_client_generation, receiver, rx,
                       cancelled, consumed, channel, to_remove, awaiting, out, active_udp>>
        /\ task' = task \/ (task = "send" /\ task' = "select")
    BY <1>4 DEF SendToTunnel, Sent
  <2>2. sending' \in 0..SendCap
    <3>1. sending \in 0..SendCap /\ SendCap \in Nat
      BY SlotsAssumption DEF UdpInv, TypeOK
    <3> QED
      BY <1>4, <3>1 DEF SendToTunnel, Sent
  <2>3. SlabIsServed' /\ LookupMatchesSlab' /\ NoOrphanReceiver'
    BY <1>1, <2>1, SameKeeps
  <2>4. TypeOK' /\ NoPanic' /\ DeliveredToOwner' /\ IdsAreFresh'
    BY <2>1, <2>2 DEF UdpInv, TypeOK, NoPanic, DeliveredToOwner, IdsAreFresh
  <2> QED
    BY <2>3, <2>4 DEF KeepsRest
<1>5. ASSUME SameClients(virtual_clients'),
             UNCHANGED <<virtual_client_lookup, next_client_generation, receiver, rx, cancelled,
                         consumed, channel, free, sending, task, to_remove, awaiting, out,
                         active_udp>>
      PROVE  KeepsRest
  <2>1. SlabIsServed' /\ LookupMatchesSlab' /\ NoOrphanReceiver'
    BY <1>5, SameKeeps
  <2>2. TypeOK' /\ NoPanic' /\ DeliveredToOwner' /\ IdsAreFresh'
    BY <1>5 DEF UdpInv, TypeOK, NoPanic, DeliveredToOwner, IdsAreFresh, SameClients
  <2> QED
    BY <2>1, <2>2 DEF KeepsRest
<1>6. ASSUME NEW key \in Keys, TunneledToClient(key)
      PROVE  KeepsRest
  <2>1. /\ SlotsOf(key) \subseteq Occupied(virtual_clients)
        /\ consumed' = consumed
    BY <1>6, NoneIsClosed DEF TunneledToClient
  <2>2. PICK s \in SlotsOf(key) :
          virtual_clients' = [virtual_clients EXCEPT ![s].from_tunnel_ts = 0]
    BY <1>6 DEF TunneledToClient
  <2>3. s \in Slots /\ virtual_clients[s] # None
    BY <2>1 DEF Occupied
  <2>4. SameClients(virtual_clients')
    <3>1. SameClients([virtual_clients EXCEPT ![s].from_tunnel_ts = 0])
      BY <2>3, 0 \in 0..2, TouchIsSame
    <3> QED
      BY <2>2, <3>1
  <2> QED
    BY <1>5, <1>6, <2>1, <2>4 DEF TunneledToClient
<1>7. ASSUME NEW slot \in Slots, GrowOld(slot)
      PROVE  KeepsRest
  <2>1. virtual_clients[slot] # None /\ virtual_clients[slot] \in Client
    BY <1>7 DEF GrowOld, UdpInv, TypeOK
  <2>2. virtual_clients[slot].from_tunnel_ts \in 0..2 /\ virtual_clients[slot].from_origin_ts \in 0..2
    BY <2>1 DEF Client
  <2>3. \E age \in 0..2 :
          \/ virtual_clients' = [virtual_clients EXCEPT ![slot].from_tunnel_ts = age]
          \/ virtual_clients' = [virtual_clients EXCEPT ![slot].from_origin_ts = age]
    <3>1. CASE /\ virtual_clients[slot].from_tunnel_ts < 2
               /\ virtual_clients' = [virtual_clients EXCEPT ![slot].from_tunnel_ts = @ + 1]
      <4>1. virtual_clients[slot].from_tunnel_ts + 1 \in 0..2
        BY <2>2, <3>1
      <4> QED
        BY <3>1, <4>1
    <3>2. CASE /\ virtual_clients[slot].from_origin_ts < 2
               /\ virtual_clients' = [virtual_clients EXCEPT ![slot].from_origin_ts = @ + 1]
      <4>1. virtual_clients[slot].from_origin_ts + 1 \in 0..2
        BY <2>2, <3>2
      <4> QED
        BY <3>2, <4>1
    <3> QED
      BY <1>7, <3>1, <3>2 DEF GrowOld
  <2>4. SameClients(virtual_clients')
    BY <2>1, <2>3, TouchIsSame
  <2> QED
    BY <1>5, <1>7, <2>4 DEF GrowOld
<1> QED
  BY <1>2, <1>3, <1>4, <1>6, <1>7

(* The number of clients is within that of the slots.                      *)
LEMMA CountIsBounded ==
  ASSUME NEW clients
  PROVE  Cardinality(Occupied(clients)) \in 0..Cardinality(Slots)
<1>1. Occupied(clients) \in SUBSET Slots /\ IsFiniteSet(Slots)
  BY SlotsAssumption DEF Occupied
<1>2. /\ Cardinality(Occupied(clients)) <= Cardinality(Slots)
      /\ IsFiniteSet(Occupied(clients))
  BY <1>1, FS_Subset
<1>3. Cardinality(Occupied(clients)) \in Nat /\ Cardinality(Slots) \in Nat
  BY <1>1, <1>2, FS_CardinalityType
<1> QED
  BY <1>2, <1>3

(* A new client takes a flow, a slot and an id that nobody has.            *)
LEMMA NewKeeps ==
  ASSUME UdpInv, free' \in 0..PoolSize, NEW key \in Keys, NEW target \in Targets,
         NEW slot \in Slots, NewClient(key, target, slot)
  PROVE  KeepsRest
<1> DEFINE id == <<slot, next_client_generation>>
           client == [id |-> id, key |-> key, target_addr |-> target,
                      from_tunnel_ts |-> 0, from_origin_ts |-> 0]
<1>1. /\ virtual_client_lookup[key] = None /\ virtual_clients[slot] = None
      /\ id \in Ids /\ receiver[id] = "none" /\ id \notin cancelled
      /\ consumed' = consumed /\ cancelled' = cancelled
      /\ virtual_clients' = [virtual_clients EXCEPT ![slot] = client]
  BY NewIsUnused
<1>2. /\ task = "select"
      /\ next_client_generation <= MaxGeneration
      /\ next_client_generation' = next_client_generation + 1
      /\ receiver' = [receiver EXCEPT ![id] = "allocate"]
      /\ rx' = [rx EXCEPT ![id] = key]
      /\ virtual_client_lookup' = [virtual_client_lookup EXCEPT ![key] = slot]
      /\ active_udp' = Cardinality(Occupied(virtual_clients'))
      /\ UNCHANGED <<channel, free, sending, task, to_remove, awaiting, out>>
  BY DEF NewClient, clearing
<1>3. /\ client \in Client /\ client # None
      /\ client.id = id /\ client.key = key /\ id[1] = slot /\ id[2] = next_client_generation
  <2>1. client \in Client
    BY <1>1 DEF Client
  <2> QED
    BY <2>1, SlotsAssumption
<1> HIDE DEF client
<1>4. /\ virtual_clients \in [Slots -> Client \cup {None}]
      /\ virtual_client_lookup \in [Keys -> Slots \cup {None}]
      /\ receiver \in [Ids -> {"none", "allocate", "recv", "send", "ended"}]
      /\ rx \in [Ids -> Keys \cup {None}]
      /\ next_client_generation \in 1..MaxGeneration + 1
      /\ MaxGeneration \in Nat
      /\ None \notin Slots
  BY SlotsAssumption DEF UdpInv, TypeOK
<1>5. /\ virtual_clients'[slot] = client
      /\ \A s \in Slots : s # slot => virtual_clients'[s] = virtual_clients[s]
  BY <1>1, <1>4
<1> HIDE DEF id
<1>6. /\ receiver'[id] = "allocate" /\ rx'[id] = key
      /\ \A i \in Ids : i # id => receiver'[i] = receiver[i] /\ rx'[i] = rx[i]
  BY <1>1, <1>2, <1>4
<1>7. Occupied(virtual_clients') = Occupied(virtual_clients) \cup {slot}
  BY <1>3, <1>5 DEF Occupied
<1>8. TypeOK'
  <2>1. active_udp' \in 0..Cardinality(Slots)
    BY <1>2, CountIsBounded
  <2>2. /\ virtual_clients' \in [Slots -> Client \cup {None}]
        /\ virtual_client_lookup' \in [Keys -> Slots \cup {None}]
        /\ receiver' \in [Ids -> {"none", "allocate", "recv", "send", "ended"}]
        /\ rx' \in [Ids -> Keys \cup {None}]
    BY <1>1, <1>2, <1>3, <1>4
  <2>3. next_client_generation' \in 1..MaxGeneration + 1
    BY <1>2, <1>4
  <2> QED
    BY <1>1, <1>2, <2>1, <2>2, <2>3 DEF UdpInv, TypeOK
<1>9. ASSUME NEW s \in Occupied(virtual_clients)
      PROVE  /\ virtual_clients'[s] = virtual_clients[s] /\ s # slot
             /\ virtual_clients[s].id \in Ids /\ virtual_clients[s].id # id
             /\ receiver'[virtual_clients[s].id] = receiver[virtual_clients[s].id]
             /\ rx'[virtual_clients[s].id] = rx[virtual_clients[s].id]
  <2>1. s \in Slots /\ s # slot
    BY <1>1 DEF Occupied
  <2>2. virtual_clients[s].id \in Ids /\ virtual_clients[s].id # id
    BY <1>1, SlabFacts DEF Running
  <2> QED
    BY <1>5, <1>6, <2>1, <2>2
<1>10. SlabIsServed'
  <2>1. ASSUME NEW s \in Occupied(virtual_clients)
        PROVE  /\ virtual_clients'[s].id[1] = s
               /\ rx'[virtual_clients'[s].id] = virtual_clients'[s].key
               /\ virtual_clients'[s].id \notin cancelled'
               /\ receiver'[virtual_clients'[s].id] \in {"allocate", "recv", "send"}
    <3> DEFINE c == virtual_clients[s]
    <3>1. /\ c.id[1] = s /\ rx[c.id] = c.key
          /\ c.id \notin cancelled /\ receiver[c.id] \in {"allocate", "recv", "send"}
      BY <1>1, SlabFacts DEF Running
    <3>2. /\ virtual_clients'[s] = c
          /\ receiver'[c.id] = receiver[c.id] /\ rx'[c.id] = rx[c.id]
      BY <1>9
    <3>3. cancelled' = cancelled
      BY <1>1
    <3> QED
      BY <3>1, <3>2, <3>3
  <2>2. /\ virtual_clients'[slot].id[1] = slot
        /\ rx'[virtual_clients'[slot].id] = virtual_clients'[slot].key
        /\ virtual_clients'[slot].id \notin cancelled'
        /\ receiver'[virtual_clients'[slot].id] \in {"allocate", "recv", "send"}
    BY <1>1, <1>3, <1>5, <1>6
  <2>3. consumed' = {} /\ to_remove' \subseteq Occupied(virtual_clients') /\ task' # "stopped"
    BY <1>1, <1>2, <1>7 DEF UdpInv, SlabIsServed
  <2> QED
    BY <1>7, <2>1, <2>2, <2>3 DEF SlabIsServed
<1>11. IdsAreFresh'
  <2>1. \A i \in Ids : receiver'[i] # "none" => rx'[i] \in Keys /\ i[2] < next_client_generation'
    <3> SUFFICES ASSUME NEW i \in Ids, receiver'[i] # "none"
                 PROVE  rx'[i] \in Keys /\ i[2] < next_client_generation'
      OBVIOUS
    <3>1. CASE i = id
      BY <1>2, <1>3, <1>4, <1>6, <3>1
    <3>2. CASE i # id
      <4>1. rx[i] \in Keys /\ i[2] < next_client_generation /\ rx'[i] = rx[i]
        BY <1>6, <3>2 DEF UdpInv, IdsAreFresh
      <4>2. i[2] \in Nat
        BY DEF Ids
      <4> QED
        BY <1>2, <1>4, <4>1, <4>2
    <3> QED
      BY <3>1, <3>2
  <2>2. \A i \in cancelled' : receiver'[i] # "none"
    <3>1. cancelled \subseteq Ids
      BY DEF UdpInv, TypeOK
    <3> QED
      BY <1>1, <1>6, <3>1 DEF UdpInv, IdsAreFresh
  <2>3. ASSUME NEW n \in DOMAIN channel
        PROVE  /\ receiver'[channel[n].rx_id] # "none"
               /\ channel[n].owner = rx'[channel[n].rx_id]
    <3>1. channel[n] \in Received
      BY DEF UdpInv, TypeOK
    <3>2. channel[n].rx_id \in Ids
      BY <3>1 DEF Received
    <3>3. receiver[channel[n].rx_id] # "none" /\ channel[n].owner = rx[channel[n].rx_id]
      BY DEF UdpInv, IdsAreFresh
    <3> QED
      BY <1>1, <1>6, <3>2, <3>3
  <2> QED
    BY <1>2, <2>1, <2>2, <2>3 DEF IdsAreFresh
<1>12. LookupMatchesSlab'
  <2>1. ASSUME NEW k \in Keys, NEW s \in Slots
        PROVE  virtual_client_lookup'[k] = s
                 <=> virtual_clients'[s] # None /\ virtual_clients'[s].key = k
    <3>1. virtual_client_lookup[k] = s <=> virtual_clients[s] # None /\ virtual_clients[s].key = k
      BY DEF UdpInv, LookupMatchesSlab
    <3>2. virtual_client_lookup[k] = slot <=> virtual_clients[slot] # None /\ virtual_clients[slot].key = k
      BY DEF UdpInv, LookupMatchesSlab
    <3>3. virtual_client_lookup'[k] = IF k = key THEN slot ELSE virtual_client_lookup[k]
      BY <1>2, <1>4
    <3>4. CASE s = slot
      BY <1>1, <1>3, <1>5, <3>2, <3>3, <3>4
    <3>5. CASE s # slot
      <4>1. virtual_clients'[s] = virtual_clients[s]
        BY <1>5, <3>5
      <4>2. virtual_client_lookup[key] = s <=> virtual_clients[s] # None /\ virtual_clients[s].key = key
        BY DEF UdpInv, LookupMatchesSlab
      <4> QED
        BY <1>1, <1>4, <3>1, <3>3, <3>5, <4>1, <4>2
    <3> QED
      BY <3>4, <3>5
  <2> QED
    BY <1>2, <2>1 DEF LookupMatchesSlab
<1>13. NoPanic' /\ DeliveredToOwner'
  BY <1>2 DEF UdpInv, NoPanic, DeliveredToOwner
<1>14. NoOrphanReceiver'
  <2> SUFFICES ASSUME NEW i \in Ids, receiver'[i] \in Running
               PROVE  i \in cancelled' \/ \E s \in Occupied(virtual_clients') : virtual_clients'[s].id = i
    BY DEF NoOrphanReceiver, IdsOf, Running
  <2>1. CASE i = id
    BY <1>3, <1>5, <1>7, <2>1
  <2>2. CASE i # id
    <3>1. i \in cancelled \/ \E s \in Occupied(virtual_clients) : virtual_clients[s].id = i
      BY <1>6, <2>2 DEF UdpInv, NoOrphanReceiver, IdsOf, Running
    <3> QED
      BY <1>1, <1>7, <1>9, <3>1
  <2> QED
    BY <2>1, <2>2
<1> QED
  BY <1>8, <1>10, <1>11, <1>12, <1>13, <1>14 DEF KeepsRest

(* clear_old removes a client: the lookup leads to its slot and its end    *)
(* signal is there to be awaited.                                          *)
LEMMA RemoveKeeps ==
  ASSUME UdpInv, free' \in 0..PoolSize, RemoveOld
  PROVE  KeepsRest
<1> DEFINE slot == Max(to_remove)
           client == virtual_clients[slot]
<1>1. to_remove \subseteq Occupied(virtual_clients) /\ to_remove # {} /\ to_remove \subseteq Slots
  BY DEF RemoveOld, UdpInv, SlabIsServed, Occupied
<1>2. slot \in to_remove /\ slot \in Occupied(virtual_clients) /\ slot \in Slots
  BY <1>1, HighestSlot
<1>3. /\ client.id \in Ids /\ client.key \in Keys /\ client # None
      /\ virtual_client_lookup[client.key] = slot
      /\ receiver[client.id] \in Running
  BY <1>2, SlabFacts DEF Occupied
<1>4. consumed = {}
  BY DEF UdpInv, SlabIsServed
<1>5. /\ to_remove' = to_remove \ {slot}
      /\ virtual_clients' = [virtual_clients EXCEPT ![slot] = None]
      /\ virtual_client_lookup' = [virtual_client_lookup EXCEPT ![client.key] = None]
      /\ cancelled' = cancelled \cup {client.id}
      /\ awaiting' = client.id
      /\ task' = "shutdown"
      /\ UNCHANGED <<next_client_generation, receiver, rx, consumed, channel, free, sending, out,
                     active_udp>>
  BY <1>3, <1>4 DEF RemoveOld
<1> HIDE DEF slot
<1>6. /\ virtual_clients \in [Slots -> Client \cup {None}]
      /\ virtual_client_lookup \in [Keys -> Slots \cup {None}]
      /\ cancelled \subseteq Ids
  BY DEF UdpInv, TypeOK
<1>7. /\ virtual_clients'[slot] = None
      /\ \A s \in Slots : s # slot => virtual_clients'[s] = virtual_clients[s]
  BY <1>2, <1>5, <1>6
<1>8. Occupied(virtual_clients') = Occupied(virtual_clients) \ {slot}
  BY <1>7 DEF Occupied
<1>9. ASSUME NEW s \in Occupied(virtual_clients')
      PROVE  /\ s \in Occupied(virtual_clients) /\ s # slot
             /\ virtual_clients'[s] = virtual_clients[s]
             /\ virtual_clients[s].id # client.id
             /\ virtual_clients[s].key # client.key
  <2>1. s \in Occupied(virtual_clients) /\ s # slot /\ s \in Slots
    BY <1>8 DEF Occupied
  <2>2. virtual_clients[s].id[1] = s /\ client.id[1] = slot
    BY <1>2, <2>1, SlabFacts
  <2>3. virtual_client_lookup[virtual_clients[s].key] = s
    BY <2>1, SlabFacts
  <2> QED
    BY <1>3, <1>7, <2>1, <2>2, <2>3
<1>10. TypeOK'
  <2>1. /\ virtual_clients' \in [Slots -> Client \cup {None}]
        /\ virtual_client_lookup' \in [Keys -> Slots \cup {None}]
        /\ cancelled' \subseteq Ids /\ awaiting' \in Ids /\ to_remove' \subseteq Slots
    BY <1>1, <1>3, <1>5, <1>6
  <2> QED
    BY <1>5, <2>1 DEF UdpInv, TypeOK
<1>11. SlabIsServed'
  <2>1. ASSUME NEW s \in Occupied(virtual_clients')
        PROVE  /\ virtual_clients'[s].id[1] = s
               /\ rx'[virtual_clients'[s].id] = virtual_clients'[s].key
               /\ virtual_clients'[s].id \notin cancelled'
               /\ receiver'[virtual_clients'[s].id] \in {"allocate", "recv", "send"}
    <3>1. /\ s \in Occupied(virtual_clients) /\ virtual_clients'[s] = virtual_clients[s]
          /\ virtual_clients[s].id # client.id
      BY <1>9
    <3>2. /\ virtual_clients[s].id[1] = s
          /\ rx[virtual_clients[s].id] = virtual_clients[s].key
          /\ virtual_clients[s].id \notin cancelled
          /\ receiver[virtual_clients[s].id] \in Running
      BY <3>1, SlabFacts
    <3> HIDE DEF client
    <3> QED
      BY <1>5, <3>1, <3>2 DEF Running
  <2>2. consumed' = {} /\ to_remove' \subseteq Occupied(virtual_clients') /\ task' # "stopped"
    BY <1>1, <1>4, <1>5, <1>8
  <2> QED
    BY <2>1, <2>2 DEF SlabIsServed
<1>12. IdsAreFresh'
  <2>1. \A i \in cancelled' : receiver[i] # "none"
    BY <1>3, <1>5 DEF UdpInv, IdsAreFresh, Running
  <2> QED
    BY <1>5, <2>1 DEF UdpInv, IdsAreFresh
<1>13. LookupMatchesSlab'
  <2>1. ASSUME NEW k \in Keys, NEW s \in Slots
        PROVE  virtual_client_lookup'[k] = s
                 <=> virtual_clients'[s] # None /\ virtual_clients'[s].key = k
    <3>1. virtual_client_lookup[k] = s <=> virtual_clients[s] # None /\ virtual_clients[s].key = k
      BY DEF UdpInv, LookupMatchesSlab
    <3>2. virtual_client_lookup'[k] = IF k = client.key THEN None ELSE virtual_client_lookup[k]
      BY <1>5, <1>6
    <3>3. s # None
      BY SlotsAssumption
    <3>4. CASE s = slot
      BY <1>7, <3>1, <3>2, <3>3, <3>4
    <3>5. CASE s # slot
      BY <1>3, <1>7, <3>1, <3>2, <3>3, <3>5
    <3> QED
      BY <3>4, <3>5
  <2> QED
    BY <1>5, <2>1 DEF LookupMatchesSlab
<1>14. NoPanic' /\ DeliveredToOwner'
  BY <1>5 DEF UdpInv, NoPanic, DeliveredToOwner
<1>15. NoOrphanReceiver'
  <2> SUFFICES ASSUME NEW i \in Ids, receiver'[i] \in Running
               PROVE  i \in cancelled' \/ \E s \in Occupied(virtual_clients') : virtual_clients'[s].id = i
    BY DEF NoOrphanReceiver, IdsOf, Running
  <2>1. i \in cancelled \/ \E s \in Occupied(virtual_clients) : virtual_clients[s].id = i
    BY <1>5 DEF UdpInv, NoOrphanReceiver, IdsOf, Running
  <2>2. ASSUME NEW s \in Occupied(virtual_clients), virtual_clients[s].id = i, s # slot
        PROVE  s \in Occupied(virtual_clients') /\ virtual_clients'[s].id = i
    BY <1>7, <1>8, <2>2 DEF Occupied
  <2> QED
    BY <1>5, <2>1, <2>2
<1> QED
  BY <1>10, <1>11, <1>12, <1>13, <1>14, <1>15 DEF KeepsRest

(* The other steps of clear_old.                                           *)
LEMMA ClearKeeps ==
  ASSUME UdpInv, free' \in 0..PoolSize, clear_old \/ ShutdownEnds \/ ClearEnds
  PROVE  KeepsRest
<1>1. /\ UNCHANGED <<virtual_client_lookup, virtual_clients, next_client_generation, receiver, rx,
                     cancelled, channel, sending, out>>
      /\ task' \in {"clear", "select"}
  BY DEF clear_old, ShutdownEnds, ClearEnds, slab, receivers
<1>2. consumed' = consumed
  <2>1. CASE clear_old
    BY <2>1, NoneIsClosed DEF clear_old
  <2> QED
    BY <2>1 DEF ShutdownEnds, ClearEnds, receivers
<1>3. to_remove' \subseteq Occupied(virtual_clients)
  BY DEF clear_old, ShutdownEnds, ClearEnds, clearing, UdpInv, SlabIsServed
<1>4. /\ awaiting' \in Ids \cup {None}
      /\ active_udp' \in 0..Cardinality(Slots)
      /\ task' = "select" => active_udp' = Cardinality(Occupied(virtual_clients))
  BY CountIsBounded DEF clear_old, ShutdownEnds, ClearEnds, clearing, UdpInv, TypeOK
<1>5. TypeOK'
  BY <1>1, <1>2, <1>3, <1>4 DEF UdpInv, TypeOK, Occupied
<1>6. SlabIsServed' /\ IdsAreFresh'
  BY <1>1, <1>2, <1>3 DEF UdpInv, SlabIsServed, IdsAreFresh, Occupied
<1>7. LookupMatchesSlab'
  BY <1>1, <1>4 DEF UdpInv, LookupMatchesSlab, Occupied
<1>8. NoPanic' /\ DeliveredToOwner'
  BY <1>1 DEF UdpInv, NoPanic, DeliveredToOwner
<1>9. NoOrphanReceiver'
  BY <1>1 DEF UdpInv, NoOrphanReceiver, IdsOf, Occupied
<1> QED
  BY <1>5, <1>6, <1>7, <1>8, <1>9 DEF KeepsRest

(* The end of the udp task.                                                *)
LEMMA StopKeeps ==
  ASSUME UdpInv, free' \in 0..PoolSize, Stop
  PROVE  KeepsRest
<1>1. /\ task' = "stopped"
      /\ cancelled' = cancelled \cup IdsOf(Occupied(virtual_clients))
      /\ virtual_clients' = [s \in Slots |-> None]
      /\ virtual_client_lookup' = [k \in Keys |-> None]
      /\ channel' = <<>> /\ to_remove' = {} /\ awaiting' = None
      /\ UNCHANGED <<next_client_generation, receiver, rx, consumed, sending, out, active_udp>>
  BY DEF Stop
<1>2. Occupied(virtual_clients') = {}
  BY <1>1 DEF Occupied
<1>3. \A i \in IdsOf(Occupied(virtual_clients)) : i \in Ids /\ receiver[i] # "none"
  <2>1. \A s \in Occupied(virtual_clients) :
          virtual_clients[s].id \in Ids /\ receiver[virtual_clients[s].id] # "none"
    BY SlabFacts DEF Running
  <2> QED
    BY <2>1 DEF IdsOf
<1>4. TypeOK'
  <2>1. /\ virtual_clients' \in [Slots -> Client \cup {None}]
        /\ virtual_client_lookup' \in [Keys -> Slots \cup {None}]
        /\ cancelled' \subseteq Ids
    BY <1>1, <1>3 DEF UdpInv, TypeOK
  <2>2. channel' \in Seq(Received) /\ Len(channel') <= ChannelCap
    BY <1>1, SlotsAssumption
  <2> QED
    BY <1>1, <2>1, <2>2 DEF UdpInv, TypeOK
<1>5. SlabIsServed'
  BY <1>1, <1>2 DEF UdpInv, SlabIsServed
<1>6. IdsAreFresh'
  <2>1. \A i \in cancelled' : receiver[i] # "none"
    BY <1>1, <1>3 DEF UdpInv, IdsAreFresh
  <2>2. DOMAIN channel' = {}
    BY <1>1
  <2> QED
    BY <1>1, <2>1, <2>2 DEF UdpInv, IdsAreFresh
<1>7. LookupMatchesSlab'
  BY <1>1, SlotsAssumption DEF LookupMatchesSlab
<1>8. NoPanic' /\ DeliveredToOwner'
  BY <1>1 DEF UdpInv, NoPanic, DeliveredToOwner
<1>9. NoOrphanReceiver'
  BY <1>1 DEF UdpInv, NoOrphanReceiver
<1> QED
  BY <1>4, <1>5, <1>6, <1>7, <1>8, <1>9 DEF KeepsRest

(* Every step keeps the invariant.                                         *)
LEMMA UdpInvStep ==
  ASSUME UdpInv, [Next]_vars
  PROVE  UdpInv'
<1>1. CASE UNCHANGED vars
  <2>1. UNCHANGED <<virtual_client_lookup, virtual_clients, next_client_generation, receiver, rx,
                    cancelled, consumed, channel, free, sending, task, to_remove, awaiting, out,
                    active_udp>>
    BY <1>1 DEF vars, slab, receivers, clearing
  <2>2. TypeOK' /\ SlabIsServed' /\ IdsAreFresh' /\ LookupMatchesSlab'
    BY <2>1 DEF UdpInv, TypeOK, SlabIsServed, IdsAreFresh, LookupMatchesSlab, Occupied
  <2>3. NoPanic' /\ DeliveredToOwner' /\ NoOrphanReceiver' /\ BuffersAccounted'
    BY <2>1 DEF UdpInv, NoPanic, DeliveredToOwner, NoOrphanReceiver, BuffersAccounted, Occupied,
                IdsOf, Holds
  <2> QED
    BY <2>2, <2>3 DEF UdpInv
<1>2. ASSUME Next
      PROVE  UdpInv'
  <2>1. free' \in 0..PoolSize /\ BuffersAccounted'
    BY <1>2, AccountStep
  <2>2. CASE UNCHANGED vars
    BY <1>1, <2>2
  <2>3. ASSUME KeepsRest PROVE UdpInv'
    BY <2>1, <2>3 DEF KeepsRest, UdpInv
  <2>4. CASE \E i \in Ids : ReceiverStep(i)
    BY <2>1, <2>3, <2>4, ReceiverKeeps
  <2>5. CASE \/ RejectOrigin \/ DispatchOrigin \/ SendToTunnel \/ Sent
             \/ \E key \in Keys : TunneledToClient(key)
             \/ \E slot \in Slots : GrowOld(slot)
    BY <2>1, <2>3, <2>5, TrafficKeeps
  <2>6. CASE \E key \in Keys : TunneledRefused(key)
    BY <2>2, <2>6, RefusedChangesNothing
  <2>7. CASE \E key \in Keys, target \in Targets, slot \in Slots : NewClient(key, target, slot)
    BY <2>1, <2>3, <2>7, NewKeeps
  <2>8. CASE RemoveOld
    BY <2>1, <2>3, <2>8, RemoveKeeps
  <2>9. CASE clear_old \/ ShutdownEnds \/ ClearEnds
    BY <2>1, <2>3, <2>9, ClearKeeps
  <2>10. CASE Stop
    BY <2>1, <2>3, <2>10, StopKeeps
  <2>11. CASE Finished
    BY <2>2, <2>11 DEF Finished
  <2> QED
    BY <1>2, <2>4, <2>5, <2>6, <2>7, <2>8, <2>9, <2>10, <2>11 DEF Next
<1> QED
  BY <1>1, <1>2

(* It holds at the start.                                                  *)
LEMMA UdpInvInit ==
  ASSUME Init
  PROVE  UdpInv
<1>1. Occupied(virtual_clients) = {} /\ DOMAIN channel = {} /\ channel = <<>>
  BY DEF Init, Occupied
<1>2. {i \in Ids : Holds(i) = 1} = {}
  BY DEF Init, Holds
<1>3. BuffersAccounted
  <2>1. Cardinality({i \in Ids : Holds(i) = 1}) = 0 /\ Len(channel) = 0 /\ PoolSize \in Nat
    BY <1>1, <1>2, FS_EmptySet, SlotsAssumption
  <2>2. free = PoolSize /\ sending = 0 /\ task = "select"
    BY DEF Init
  <2> QED
    BY <2>1, <2>2 DEF BuffersAccounted
<1>4. TypeOK
  <2>1. active_udp \in 0..Cardinality(Slots)
    BY SlotsAssumption, FS_CardinalityType DEF Init
  <2>2. channel \in Seq(Received) /\ Len(channel) <= ChannelCap
    BY <1>1, SlotsAssumption
  <2>3. next_client_generation \in 1..MaxGeneration + 1 /\ free \in 0..PoolSize
        /\ sending \in 0..SendCap
    BY SlotsAssumption DEF Init
  <2> QED
    BY <2>1, <2>2, <2>3 DEF Init, TypeOK
<1>5. SlabIsServed /\ IdsAreFresh
  BY <1>1 DEF Init, SlabIsServed, IdsAreFresh
<1>6. LookupMatchesSlab
  BY <1>1, FS_EmptySet, SlotsAssumption DEF Init, LookupMatchesSlab
<1>7. NoPanic /\ DeliveredToOwner /\ NoOrphanReceiver
  BY DEF Init, NoPanic, DeliveredToOwner, NoOrphanReceiver
<1> QED
  BY <1>3, <1>4, <1>5, <1>6, <1>7 DEF UdpInv

(* The invariant holds in every behaviour.                                 *)
LEMMA UdpInvHolds == Spec => []UdpInv
BY UdpInvInit, UdpInvStep, PTL DEF Spec

(* The variables keep to their types, for any number of flows and slots:   *)
(* channels stay within their capacity and the pool within its size.       *)
THEOREM UdpTypeCorrect == Spec => []TypeOK
<1>1. UdpInv => TypeOK
  BY DEF UdpInv
<1> QED
  BY <1>1, UdpInvHolds, PTL

(* The lookup and the slab of the virtual clients agree at every await of  *)
(* the udp task, so clear_old never fails its unwrap or its assertion, and *)
(* it never awaits an end signal that is_closed has taken.                 *)
THEOREM SlabStaysSound == Spec => []SlabIsSound
<1>1. UdpInv => SlabIsSound
  BY DEF UdpInv, SlabIsSound
<1> QED
  BY <1>1, UdpInvHolds, PTL

(* What dispatch_origin_packet sends to the tunnel goes to the flow whose  *)
(* socket received it, however slots are reused.                           *)
THEOREM PacketsReachTheirOwner == Spec => []DeliveredToOwner
<1>1. UdpInv => DeliveredToOwner
  BY DEF UdpInv
<1> QED
  BY <1>1, UdpInvHolds, PTL

(* No receiver task is left behind by a client that was dropped, and no    *)
(* path of a packet, cancelled receivers and the end of the udp task       *)
(* included, leaks a buffer of the pool or frees one twice.                *)
THEOREM NothingEverLeaks == Spec => []NothingLeaks
<1>1. UdpInv => NothingLeaks
  BY DEF UdpInv, NothingLeaks
<1> QED
  BY <1>1, UdpInvHolds, PTL
=============================================================================
