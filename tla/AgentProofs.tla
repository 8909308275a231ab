---------------------------- MODULE AgentProofs -----------------------------
(***************************************************************************)
(* Proofs about three parts of the agent that do not interact: PacketPool, *)
(* for any number of tasks and buffers and any capacity of the queue of    *)
(* wakers; TcpClients, for any finite set of clients and any channel;      *)
(* MaintainedControl, alone and with the server of ControlServer, for      *)
(* every set of flows and targets and every bound of the failure counter.  *)
(***************************************************************************)
EXTENDS PacketPool, TcpClients, ControlServer, FiniteSetTheorems, TLAPS

-----------------------------------------------------------------------------
(* The packet pool.                                                        *)

Queued(t, queue) == \E i \in DOMAIN queue : queue[i] = t

(* Appending a waker keeps the others and adds the new one.                *)
LEMMA QueuedAppend ==
  ASSUME NEW queue \in Seq(Tasks), NEW t \in Tasks, NEW u \in Tasks,
         u = t \/ Queued(u, queue)
  PROVE  Queued(u, Append(queue, t))
<1> DEFINE longer == Append(queue, t)
<1>1. /\ DOMAIN longer = 1..Len(queue) + 1
      /\ longer[Len(queue) + 1] = t
      /\ \A i \in DOMAIN queue : i \in DOMAIN longer /\ longer[i] = queue[i]
  OBVIOUS
<1>2. Len(queue) + 1 \in DOMAIN longer
  BY <1>1
<1>3. CASE u = t
  BY <1>1, <1>2, <1>3 DEF Queued
<1>4. CASE Queued(u, queue)
  BY <1>1, <1>4 DEF Queued
<1> QED
  BY <1>3, <1>4

(* Popping the oldest waker keeps the others.                              *)
LEMMA QueuedTail ==
  ASSUME NEW queue \in Seq(Tasks), queue # <<>>, NEW u \in Tasks, Queued(u, queue)
  PROVE  u = Head(queue) \/ Queued(u, Tail(queue))
<1>1. PICK i \in DOMAIN queue : queue[i] = u
  BY DEF Queued
<1>2. CASE i = 1
  BY <1>1, <1>2
<1>3. CASE i # 1
  <2>1. i - 1 \in DOMAIN Tail(queue) /\ Tail(queue)[i - 1] = u
    BY <1>1, <1>3
  <2> QED
    BY <2>1 DEF Queued
<1> QED
  BY <1>2, <1>3

(* Buffers are conserved and the queue of wakers keeps within its          *)
(* capacity, in every step.                                                *)
LEMMA PoolTypeStep == PoolTypeOK /\ [PoolNext]_pool_vars => PoolTypeOK'
<1> SUFFICES ASSUME PoolTypeOK, [PoolNext]_pool_vars PROVE PoolTypeOK'
  OBVIOUS
<1> USE PoolAssumption DEF PoolTypeOK, WaitPoints
<1>1. ASSUME NEW t \in Tasks, StartWait(t) PROVE PoolTypeOK'
  BY <1>1 DEF StartWait
<1>2. ASSUME NEW t \in Tasks, PopFree(t) PROVE PoolTypeOK'
  BY <1>2 DEF PopFree
<1>3. ASSUME NEW t \in Tasks, FindNone(t) PROVE PoolTypeOK'
  BY <1>3 DEF FindNone
<1>4. ASSUME NEW t \in Tasks, PushWaker(t) PROVE PoolTypeOK'
  BY <1>4 DEF PushWaker
<1>5. ASSUME NEW t \in Tasks, Resume(t) PROVE PoolTypeOK'
  BY <1>5 DEF Resume
<1>6. ASSUME NEW t \in Tasks, PolledForAnotherBranch(t) PROVE PoolTypeOK'
  BY <1>6 DEF PolledForAnotherBranch
<1>7. ASSUME NEW t \in Tasks, Abandon(t) PROVE PoolTypeOK'
  BY <1>7 DEF Abandon
<1>8. CASE allocate
  BY <1>8 DEF allocate
<1>9. CASE DropPush
  BY <1>9 DEF DropPush
<1>10. CASE DropWake
  <2>1. CASE waiting = <<>>
    BY <1>10, <2>1 DEF DropWake
  <2>2. CASE waiting # <<>>
    <3>1. /\ Head(waiting) \in Tasks
          /\ Tail(waiting) \in Seq(Tasks)
          /\ Len(Tail(waiting)) <= MaxWaiting
      BY <2>2
    <3>2. woken' \in SUBSET Tasks
      BY <1>10, <2>2, <3>1 DEF DropWake, Wake
    <3> QED
      BY <1>10, <2>2, <3>1, <3>2 DEF DropWake
  <2> QED
    BY <2>1, <2>2
<1>11. CASE UNCHANGED pool_vars
  BY <1>11 DEF pool_vars
<1> QED
  BY <1>1, <1>2, <1>3, <1>4, <1>5, <1>6, <1>7, <1>8, <1>9, <1>10, <1>11 DEF PoolNext

(* Every step keeps a parked task registered or woken.                     *)
LEMMA RegisteredStep == PoolTypeOK /\ RegisteredOrWoken /\ [PoolNext]_pool_vars => RegisteredOrWoken'
<1> SUFFICES ASSUME PoolTypeOK, RegisteredOrWoken, [PoolNext]_pool_vars, NEW u \in Tasks, task'[u] = "parked"
             PROVE  u \in woken' \/ Queued(u, waiting')
  BY DEF RegisteredOrWoken, Queued
<1>0. task[u] = "parked" => u \in woken \/ Queued(u, waiting)
  BY DEF RegisteredOrWoken, Queued
<1> USE DEF PoolTypeOK
<1>1. ASSUME NEW t \in Tasks, StartWait(t) \/ FindNone(t)
      PROVE  u \in woken' \/ Queued(u, waiting')
  BY <1>0, <1>1 DEF StartWait, FindNone
<1>2. ASSUME NEW t \in Tasks, PopFree(t) \/ Resume(t) \/ Abandon(t)
      PROVE  u \in woken' \/ Queued(u, waiting')
  BY <1>0, <1>2 DEF PopFree, Resume, Abandon
<1>3. ASSUME NEW t \in Tasks, PushWaker(t)
      PROVE  u \in woken' \/ Queued(u, waiting')
  <2>1. u = t \/ task[u] = "parked"
    BY <1>3 DEF PushWaker
  <2>2. CASE Len(waiting) < MaxWaiting
    BY <1>0, <1>3, <2>1, <2>2, QueuedAppend, Zenon DEF PushWaker
  <2>3. CASE ~(Len(waiting) < MaxWaiting)
    BY <1>0, <1>3, <2>1, <2>3 DEF PushWaker
  <2> QED
    BY <2>2, <2>3
<1>4. ASSUME NEW t \in Tasks, PolledForAnotherBranch(t)
      PROVE  u \in woken' \/ Queued(u, waiting')
  BY <1>0, <1>4 DEF PolledForAnotherBranch
<1>5. CASE allocate \/ DropPush
  BY <1>0, <1>5 DEF allocate, DropPush
<1>6. CASE DropWake
  <2>1. task[u] = "parked"
    BY <1>6 DEF DropWake
  <2>2. CASE waiting = <<>>
    BY <1>0, <1>6, <2>1, <2>2 DEF DropWake
  <2>3. CASE waiting # <<>>
    <3>1. waiting' = Tail(waiting) /\ Wake(Head(waiting))
      BY <1>6, <2>3 DEF DropWake
    <3>2. woken \subseteq woken'
      BY <3>1 DEF Wake
    <3>3. u = Head(waiting) => u \in woken'
      BY <3>1, <2>1 DEF Wake
    <3> QED
      BY <1>0, <2>1, <2>3, <3>1, <3>2, <3>3, QueuedTail
  <2> QED
    BY <2>2, <2>3
<1>7. CASE UNCHANGED pool_vars
  BY <1>0, <1>7 DEF pool_vars
<1> QED
  BY <1>1, <1>2, <1>3, <1>4, <1>5, <1>6, <1>7 DEF PoolNext

(* No buffer is lost or handed out twice, and no queue grows past its      *)
(* capacity: the two expects of packets.rs never fail.                     *)
THEOREM PoolTypeCorrect == PoolSpec => []PoolTypeOK
<1>1. PoolInit => PoolTypeOK
  BY PoolAssumption DEF PoolInit, PoolTypeOK, WaitPoints
<1> QED
  BY <1>1, PoolTypeStep, PTL DEF PoolSpec

(* allocate_wait never strands a task: for any number of tasks and any     *)
(* capacity of the queue of wakers.                                        *)
THEOREM NoStrandedWaiter == PoolSpec => []RegisteredOrWoken
<1>1. PoolInit => RegisteredOrWoken
  BY DEF PoolInit, RegisteredOrWoken
<1> QED
  BY <1>1, RegisteredStep, PoolTypeCorrect, PTL DEF PoolSpec

-----------------------------------------------------------------------------
(* The TCP clients.                                                        *)

Places ==
  {"new", "sending", "queued", "resolve", "connect", "claim", "confirm", "origin", "proxy",
   "announce", "sent", "listed", "gone"}
Pipes == [at : {"off", "reading", "writing", "closed"}, age : Ages]
Messages == {"NewClient", "ConnectedClient"} \X Conns

TcpTypes ==
  /\ conn \in [Conns -> [at : Places, cancelled : BOOLEAN]]
  /\ pipe \in [Conns -> [Directions -> Pipes]]
  /\ worker \in {"running", "ended"} /\ tunnel \in {"running", "ended", "panicked"}
  /\ active \in 0 .. Cardinality(Conns) /\ cancel \in BOOLEAN

(* A message is for a client that waits for it, and a client waits for one *)
(* message: the worker never handles a client that was dropped meanwhile,  *)
(* and never lists one twice.                                              *)
Waits(kind) == IF kind = "NewClient" THEN "queued" ELSE "sent"
QueueOK ==
  /\ events \in Seq(Messages) /\ Len(events) <= EventRoom
  /\ \A i \in 1 .. Len(events) : At(events[i][2], Waits(events[i][1]))
  /\ \A i, j \in 1 .. Len(events) : events[i][2] = events[j][2] => i = j

TcpInv ==
  /\ TcpTypes /\ QueueOK
  /\ worker = "ended" => cancel
  /\ ClientsAreAccounted

(* What Move and Drop do to the clients.                                   *)
LEMMA MoveChanges ==
  ASSUME TcpTypes, NEW c \in Conns, NEW place \in Places, Move(c, place)
  PROVE  /\ conn' \in [Conns -> [at : Places, cancelled : BOOLEAN]]
         /\ conn'[c].at = place /\ conn'[c].cancelled = conn[c].cancelled
         /\ \A o \in Conns \ {c} : conn'[o] = conn[o]
BY DEF TcpTypes, Move

LEMMA DropChanges ==
  ASSUME TcpTypes, NEW S \in SUBSET Conns, Drop(S)
  PROVE  /\ conn' \in [Conns -> [at : Places, cancelled : BOOLEAN]]
         /\ pipe' \in [Conns -> [Directions -> Pipes]]
         /\ \A c \in S : conn'[c].at = "gone" /\ conn'[c].cancelled
         /\ \A c \in Conns \ S : conn'[c] = conn[c]
         /\ \A c \in Conns, d \in Directions : pipe'[c][d].at = pipe[c][d].at
<1>1. conn' \in [Conns -> [at : Places, cancelled : BOOLEAN]]
  BY DEF TcpTypes, Drop, Places
<1>2. /\ \A c \in S : conn'[c].at = "gone" /\ conn'[c].cancelled
      /\ \A c \in Conns \ S : conn'[c] = conn[c]
  BY DEF TcpTypes, Drop
<1>3. ASSUME NEW c \in Conns, NEW d \in Directions
      PROVE  /\ [pipe[c][d] EXCEPT !.age = 0] \in Pipes
             /\ [pipe[c][d] EXCEPT !.age = 0].at = pipe[c][d].at
  <2>1. pipe[c][d] \in Pipes
    BY DEF TcpTypes
  <2> QED
    BY <2>1 DEF Pipes, Ages
<1>4. pipe' \in [Conns -> [Directions -> Pipes]]
  BY <1>3 DEF TcpTypes, Drop
<1>5. \A c \in Conns, d \in Directions : pipe'[c][d].at = pipe[c][d].at
  BY <1>3 DEF TcpTypes, Drop
<1> QED
  BY <1>1, <1>2, <1>4, <1>5

(* The list is a finite set, so that its size counts.                      *)
LEMMA ListedIsFinite ==
  /\ IsFiniteSet(Listed) /\ Cardinality(Listed) \in 0 .. Cardinality(Conns)
  /\ \A S \in SUBSET Listed : Cardinality(Listed \ S) \in 0 .. Cardinality(Conns)
<1>1. IsFiniteSet(Conns) /\ Cardinality(Conns) \in Nat
  BY TcpAssumption, FS_CardinalityType
<1>2. ASSUME NEW S \in SUBSET Conns
      PROVE  IsFiniteSet(S) /\ Cardinality(S) \in 0 .. Cardinality(Conns)
  <2>1. IsFiniteSet(S) /\ Cardinality(S) <= Cardinality(Conns)
    BY <1>1, FS_Subset
  <2>2. Cardinality(S) \in Nat
    BY <2>1, FS_CardinalityType
  <2> QED
    BY <1>1, <2>1, <2>2
<1>3. Listed \in SUBSET Conns /\ \A S \in SUBSET Listed : Listed \ S \in SUBSET Conns
  BY DEF Listed
<1> QED
  BY <1>2, <1>3


(* A step that moves no client that waits keeps the queue sound.           *)
LEMMA QueueUntouched ==
  ASSUME TcpInv, events' = events,
         \A c \in Conns : conn[c].at \in {"queued", "sent"} => conn'[c].at = conn[c].at
  PROVE  QueueOK'
<1> USE DEF TcpInv, QueueOK
<1>1. ASSUME NEW i \in 1 .. Len(events)
      PROVE  /\ events[i][2] \in Conns /\ conn[events[i][2]].at = Waits(events[i][1])
             /\ Waits(events[i][1]) \in {"queued", "sent"}
  <2>1. events[i] \in Messages
    BY <1>1
  <2> QED
    BY <1>1, <2>1 DEF Messages, At, Waits
<1>2. \A i \in 1 .. Len(events) : conn'[events[i][2]].at = Waits(events[i][1])
  BY <1>1
<1> QED
  BY <1>2 DEF At

(* So does one that queues a client that did not wait.                     *)
LEMMA QueueAppend ==
  ASSUME TcpInv, NEW c \in Conns, NEW kind \in {"NewClient", "ConnectedClient"},
         Len(events) < EventRoom, conn[c].at \notin {"queued", "sent"},
         events' = Append(events, <<kind, c>>), Move(c, Waits(kind))
  PROVE  QueueOK'
<1> DEFINE n == Len(events)
<1>1. /\ events \in Seq(Messages) /\ n \in Nat /\ n + 1 <= EventRoom
      /\ \A i \in 1 .. n : events[i] \in Messages
  BY TcpAssumption DEF TcpInv, QueueOK
<1>2. <<kind, c>> \in Messages
  BY DEF Messages
<1>3. /\ events' \in Seq(Messages) /\ Len(events') = n + 1
      /\ events'[n + 1] = <<kind, c>>
      /\ \A i \in 1 .. n : events'[i] = events[i]
  BY <1>1, <1>2
<1>4. conn'[c].at = Waits(kind) /\ \A o \in Conns \ {c} : conn'[o] = conn[o]
  BY MoveChanges DEF TcpInv, Waits, Places
<1>5. ASSUME NEW i \in 1 .. n
      PROVE  /\ events[i][2] \in Conns \ {c}
             /\ conn'[events[i][2]].at = Waits(events[i][1])
  <2>1. events[i][2] \in Conns /\ conn[events[i][2]].at = Waits(events[i][1])
    BY <1>1, <1>5 DEF TcpInv, QueueOK, At, Messages
  <2>2. Waits(events[i][1]) \in {"queued", "sent"}
    BY DEF Waits
  <2> QED
    BY <1>4, <2>1, <2>2
<1>6. \A i \in 1 .. n + 1 : conn'[events'[i][2]].at = Waits(events'[i][1])
  <2> SUFFICES ASSUME NEW i \in 1 .. n + 1
               PROVE  conn'[events'[i][2]].at = Waits(events'[i][1])
    OBVIOUS
  <2>1. CASE i \in 1 .. n
    BY <1>3, <1>5, <2>1
  <2>2. CASE i = n + 1
    BY <1>3, <1>4, <2>2
  <2> QED
    BY <1>1, <2>1, <2>2
<1>7. ASSUME NEW i \in 1 .. n + 1, NEW j \in 1 .. n + 1, events'[i][2] = events'[j][2]
      PROVE  i = j
  <2>1. CASE i \in 1 .. n /\ j \in 1 .. n
    BY <1>3, <1>7, <2>1 DEF TcpInv, QueueOK
  <2>2. CASE i = n + 1 \/ j = n + 1
    BY <1>1, <1>3, <1>5, <1>7, <2>2
  <2> QED
    BY <1>1, <2>1, <2>2
<1> QED
  BY <1>1, <1>3, <1>6, <1>7 DEF QueueOK, At

(* And one that takes the oldest message and moves its client.             *)
LEMMA QueueTake ==
  ASSUME TcpInv, NEW kind, Take(kind)
  PROVE  /\ events[1] \in Messages /\ events[1][2] \in Conns
         /\ conn[events[1][2]].at = Waits(kind)
         /\ \A place \in Places : Move(events[1][2], place) => QueueOK'
<1> DEFINE n == Len(events)
           c == events[1][2]
<1>1. /\ events \in Seq(Messages) /\ events # <<>> /\ events[1][1] = kind
      /\ n \in Nat /\ n <= EventRoom /\ 1 \in 1 .. n
      /\ \A i \in 1 .. n : events[i] \in Messages
  BY DEF TcpInv, QueueOK, Take
<1>2. \A i \in 1 .. n : events[i][2] \in Conns /\ conn[events[i][2]].at = Waits(events[i][1])
  BY <1>1 DEF TcpInv, QueueOK, At, Messages
<1>3. ASSUME NEW place \in Places, Move(c, place) PROVE QueueOK'
  <2>1. \A o \in Conns \ {c} : conn'[o] = conn[o]
    BY <1>1, <1>2, <1>3, MoveChanges DEF TcpInv
  <2>2. /\ events' \in Seq(Messages) /\ Len(events') = n - 1
        /\ \A i \in 1 .. n - 1 : events'[i] = events[i + 1]
    BY <1>1 DEF Take
  <2>3. \A i \in 1 .. n - 1 : i + 1 \in 1 .. n /\ i + 1 # 1
    BY <1>1
  <2>4. \A i \in 1 .. n - 1 : events[i + 1][2] # c
    BY <1>1, <2>3 DEF TcpInv, QueueOK
  <2>5. \A i \in 1 .. n - 1 : conn'[events'[i][2]].at = Waits(events'[i][1])
    BY <1>2, <2>1, <2>2, <2>3, <2>4
  <2>6. ASSUME NEW i \in 1 .. n - 1, NEW j \in 1 .. n - 1, events'[i][2] = events'[j][2]
        PROVE  i = j
    <3>1. i + 1 = j + 1
      BY <2>2, <2>3, <2>6 DEF TcpInv, QueueOK
    <3> QED
      BY <1>1, <3>1
  <2>7. Len(events') <= EventRoom
    BY <1>1, <2>2, TcpAssumption
  <2> QED
    BY <2>2, <2>5, <2>6, <2>7, Zenon DEF QueueOK, At
<1> QED
  BY <1>1, <1>2, <1>3


(* A client that moves without entering or leaving the list, and not away  *)
(* from a place where somebody holds its pipes.                            *)
LEMMA QuietMove ==
  ASSUME TcpInv, NEW c \in Conns, NEW place \in Places \ {"listed"}, Move(c, place),
         conn[c].at # "listed",
         conn[c].at \in {"announce", "sent"} => place \in {"announce", "sent"},
         QueueOK', UNCHANGED <<pipe, worker, active, cancel>>,
         tunnel' \in {"running", "ended", "panicked"}, tunnel' = "panicked" => cancel
  PROVE  TcpInv'
<1>1. /\ conn' \in [Conns -> [at : Places, cancelled : BOOLEAN]]
      /\ conn'[c].at = place /\ conn'[c].cancelled = conn[c].cancelled
      /\ \A o \in Conns \ {c} : conn'[o] = conn[o]
  BY MoveChanges DEF TcpInv
<1>2. Listed' = Listed
  BY <1>1 DEF Listed, At
<1>3. TcpTypes' /\ (worker' = "ended" => cancel')
  BY <1>1 DEF TcpInv, TcpTypes
<1>4. NoOrphanPipe'
  BY <1>1 DEF TcpInv, ClientsAreAccounted, NoOrphanPipe
<1>5. StatsMatchList'
  BY <1>2 DEF TcpInv, ClientsAreAccounted, StatsMatchList
<1> QED
  BY <1>3, <1>4, <1>5 DEF TcpInv, ClientsAreAccounted, PanicsOnlyWhenCancelled

(* The tunnel task.                                                        *)
LEMMA TunnelStep ==
  ASSUME TcpInv, \/ \E c \in Conns : handle_new_client(c) \/ send_new_client(c)
                 \/ tunnel_ends \/ cancel_agent
  PROVE  TcpInv'
<1>0. \A c \in Conns : conn[c].at \in Places
  BY DEF TcpInv, TcpTypes
<1>1. ASSUME NEW c \in Conns, handle_new_client(c) PROVE TcpInv'
  <2>1. PICK place \in {"gone", "sending"} : Move(c, place)
    BY <1>1 DEF handle_new_client
  <2>2. conn[c].at = "new"
    BY <1>1 DEF handle_new_client, At
  <2>3. \A o \in Conns \ {c} : conn'[o] = conn[o]
    BY <2>1, MoveChanges DEF TcpInv, Places
  <2>4. QueueOK'
    BY <1>1, <2>2, <2>3, QueueUntouched DEF handle_new_client
  <2> QED
    BY <1>1, <2>1, <2>2, <2>4, QuietMove
       DEF handle_new_client, Places, TcpInv, TcpTypes, ClientsAreAccounted, PanicsOnlyWhenCancelled
<1>2. ASSUME NEW c \in Conns, send_new_client(c) PROVE TcpInv'
  <2>1. conn[c].at = "sending"
    BY <1>2 DEF send_new_client, At
  <2>2. CASE worker = "running" /\ Move(c, "queued") /\ Len(events) < EventRoom
             /\ events' = Append(events, <<"NewClient", c>>) /\ UNCHANGED tunnel
    <3>1. QueueOK'
      BY <2>1, <2>2, QueueAppend DEF Waits
    <3> QED
      BY <1>2, <2>1, <2>2, <3>1, QuietMove
         DEF send_new_client, Places, TcpInv, TcpTypes, ClientsAreAccounted, PanicsOnlyWhenCancelled
  <2>3. CASE worker = "ended" /\ tunnel' = "panicked" /\ Move(c, "gone") /\ UNCHANGED events
    <3>1. \A o \in Conns \ {c} : conn'[o] = conn[o]
      BY <2>3, MoveChanges DEF TcpInv, Places
    <3>2. QueueOK'
      BY <2>1, <2>3, <3>1, QueueUntouched
    <3> QED
      BY <1>2, <2>1, <2>3, <3>2, QuietMove DEF send_new_client, Places, TcpInv
  <2> QED
    BY <1>2, <2>2, <2>3 DEF send_new_client
<1>3. CASE tunnel_ends
  <2>1. \A c \in Conns : \/ conn'[c] = conn[c]
                         \/ /\ conn[c].at = "sending" /\ conn'[c].at = "gone"
                            /\ conn'[c].cancelled = conn[c].cancelled
    BY <1>3 DEF tunnel_ends, At, TcpInv, TcpTypes
  <2>2. conn' \in [Conns -> [at : Places, cancelled : BOOLEAN]]
    BY <1>3 DEF tunnel_ends, At, TcpInv, TcpTypes, Places
  <2>3. QueueOK'
    BY <1>3, <2>1, QueueUntouched, Zenon DEF tunnel_ends
  <2>4. Listed' = Listed
    BY <2>1 DEF Listed, At
  <2>5. NoOrphanPipe'
    BY <1>3, <2>1, Zenon DEF tunnel_ends, TcpInv, ClientsAreAccounted, NoOrphanPipe
  <2>6. StatsMatchList'
    BY <1>3, <2>4 DEF tunnel_ends, TcpInv, ClientsAreAccounted, StatsMatchList
  <2> QED
    BY <1>3, <2>2, <2>3, <2>5, <2>6
       DEF tunnel_ends, TcpInv, TcpTypes, ClientsAreAccounted, PanicsOnlyWhenCancelled
<1>4. CASE cancel_agent
  <2>1. QueueOK'
    BY <1>4, QueueUntouched DEF cancel_agent
  <2>2. Listed' = Listed
    BY <1>4 DEF cancel_agent, Listed, At
  <2> QED
    BY <1>4, <2>1, <2>2 DEF cancel_agent, TcpInv, TcpTypes, ClientsAreAccounted,
                            PanicsOnlyWhenCancelled, StatsMatchList, NoOrphanPipe
<1> QED
  BY <1>1, <1>2, <1>3, <1>4

(* The task of a client.                                                   *)
LEMMA SetupStep ==
  ASSUME TcpInv, NEW c \in Conns, Setup(c)
  PROVE  TcpInv'
<1>0. /\ tunnel \in {"running", "ended", "panicked"} /\ (tunnel = "panicked" => cancel)
      /\ conn[c].at \in Places
  BY DEF TcpInv, TcpTypes, ClientsAreAccounted, PanicsOnlyWhenCancelled
<1>1. ASSUME NEW from \in {"resolve", "connect", "claim", "confirm", "origin"},
             NEW to \in {"connect", "claim", "confirm", "origin", "proxy"}, Step(c, from, to)
      PROVE  TcpInv'
  <2>1. PICK place \in {to, "gone"} : Move(c, place)
    BY <1>1 DEF Step
  <2>2. conn[c].at = from /\ place \in Places \ {"listed"}
    BY <1>1 DEF Step, At, Places
  <2>3. \A o \in Conns \ {c} : conn'[o] = conn[o]
    BY <2>1, <2>2, MoveChanges DEF TcpInv
  <2>4. QueueOK'
    BY <1>1, <2>2, <2>3, QueueUntouched DEF Step
  <2> QED
    BY <1>0, <1>1, <2>1, <2>2, <2>4, QuietMove DEF Step
<1>2. CASE write_proxy_header(c)
  <2>1. conn[c].at = "proxy"
    BY <1>2 DEF write_proxy_header, At
  <2>2. CASE Move(c, "gone") /\ UNCHANGED pipe
    <3>1. \A o \in Conns \ {c} : conn'[o] = conn[o]
      BY <2>2, MoveChanges DEF TcpInv, Places
    <3>2. QueueOK'
      BY <1>2, <2>1, <3>1, QueueUntouched DEF write_proxy_header
    <3> QED
      BY <1>0, <1>2, <2>1, <2>2, <3>2, QuietMove DEF write_proxy_header, Places
  <2>3. CASE Move(c, "announce") /\ create_with_stats(c)
    <3>1. /\ conn' \in [Conns -> [at : Places, cancelled : BOOLEAN]]
          /\ conn'[c].at = "announce"
          /\ \A o \in Conns \ {c} : conn'[o] = conn[o]
      BY <2>3, MoveChanges DEF TcpInv, Places
    <3>2. QueueOK'
      BY <1>2, <2>1, <3>1, QueueUntouched DEF write_proxy_header
    <3>3. Listed' = Listed
      BY <2>1, <3>1 DEF Listed, At
    <3>4. /\ pipe' \in [Conns -> [Directions -> Pipes]]
          /\ \A o \in Conns \ {c} : pipe'[o] = pipe[o]
      BY <2>3 DEF create_with_stats, TcpInv, TcpTypes, NewPipe, Pipes, Ages
    <3>5. NoOrphanPipe'
      BY <3>1, <3>4 DEF TcpInv, ClientsAreAccounted, NoOrphanPipe
    <3> QED
      BY <1>2, <3>1, <3>2, <3>3, <3>4, <3>5
         DEF write_proxy_header, TcpInv, TcpTypes, ClientsAreAccounted, PanicsOnlyWhenCancelled,
             StatsMatchList
  <2> QED
    BY <1>2, <2>2, <2>3 DEF write_proxy_header
<1>3. CASE announce(c)
  <2>1. conn[c].at = "announce"
    BY <1>3 DEF announce, At
  <2>2. CASE /\ Len(events) < EventRoom /\ events' = Append(events, <<"ConnectedClient", c>>)
             /\ Move(c, "sent") /\ UNCHANGED pipe
    <3>1. QueueOK'
      BY <2>1, <2>2, QueueAppend DEF Waits
    <3> QED
      BY <1>0, <1>3, <2>1, <2>2, <3>1, QuietMove DEF announce, Places
  <2>3. CASE Drop({c}) /\ UNCHANGED events
    <3>1. /\ conn' \in [Conns -> [at : Places, cancelled : BOOLEAN]]
          /\ pipe' \in [Conns -> [Directions -> Pipes]]
          /\ conn'[c].at = "gone" /\ conn'[c].cancelled
          /\ \A o \in Conns \ {c} : conn'[o] = conn[o]
          /\ \A o \in Conns, d \in Directions : pipe'[o][d].at = pipe[o][d].at
      BY <2>3, DropChanges DEF TcpInv
    <3>2. QueueOK'
      BY <2>1, <2>3, <3>1, QueueUntouched
    <3>3. Listed' = Listed
      BY <2>1, <3>1 DEF Listed, At
    <3>4. NoOrphanPipe'
      BY <3>1 DEF TcpInv, ClientsAreAccounted, NoOrphanPipe
    <3> QED
      BY <1>3, <3>1, <3>2, <3>3, <3>4
         DEF announce, TcpInv, TcpTypes, ClientsAreAccounted, PanicsOnlyWhenCancelled,
             StatsMatchList
  <2> QED
    BY <1>3, <2>2, <2>3 DEF announce
<1> QED
  BY <1>1, <1>2, <1>3 DEF Setup, resolve_local, connect_tunnel, send_claim, read_confirm,
                          connect_origin


(* The worker.                                                             *)
LEMMA WorkerStep ==
  ASSUME TcpInv, Worker \/ clear_old
  PROVE  TcpInv'
<1>0. /\ tunnel \in {"running", "ended", "panicked"} /\ (tunnel = "panicked" => cancel)
  BY DEF TcpInv, TcpTypes, ClientsAreAccounted, PanicsOnlyWhenCancelled
<1>1. CASE new_client
  <2>1. Take("NewClient")
    BY <1>1 DEF new_client
  <2>2. PICK place \in {"resolve", "gone"} : Move(events[1][2], place)
    BY <1>1 DEF new_client
  <2>3. /\ events[1][2] \in Conns /\ conn[events[1][2]].at = "queued" /\ QueueOK'
    BY <2>1, <2>2, QueueTake DEF Waits, Places
  <2> QED
    BY <1>0, <1>1, <2>2, <2>3, QuietMove DEF new_client, Places
<1>2. CASE connected_client
  <2> DEFINE c == events[1][2]
  <2>1. Take("ConnectedClient") /\ Move(c, "listed") /\ worker = "running"
    BY <1>2 DEF connected_client, Take
  <2>2. c \in Conns /\ conn[c].at = "sent" /\ QueueOK'
    BY <2>1, QueueTake DEF Waits, Places
  <2>3. /\ conn' \in [Conns -> [at : Places, cancelled : BOOLEAN]]
        /\ conn'[c].at = "listed" /\ conn'[c].cancelled = conn[c].cancelled
        /\ \A o \in Conns \ {c} : conn'[o] = conn[o]
    BY <2>1, <2>2, MoveChanges DEF TcpInv, Places
  <2>4. Listed' = Listed \cup {c} /\ c \notin Listed
    BY <2>2, <2>3 DEF Listed, At
  <2>5. active' = Cardinality(Listed')
    BY <1>2, <2>4, ListedIsFinite, FS_AddElement, Zenon DEF connected_client
  <2>6. active' \in 0 .. Cardinality(Conns)
    <3>1. IsFiniteSet(Conns) /\ Listed' \in SUBSET Conns
      BY TcpAssumption DEF Listed
    <3>2. Cardinality(Listed') <= Cardinality(Conns) /\ IsFiniteSet(Listed')
      BY <3>1, FS_Subset
    <3> QED
      BY <2>5, <3>1, <3>2, FS_CardinalityType
  <2>7. NoOrphanPipe'
    BY <1>2, <2>3 DEF connected_client, TcpInv, ClientsAreAccounted, NoOrphanPipe
  <2> QED
    BY <1>2, <2>2, <2>3, <2>5, <2>6, <2>7
       DEF connected_client, TcpInv, TcpTypes, ClientsAreAccounted, PanicsOnlyWhenCancelled,
           StatsMatchList
<1>3. CASE clear_old
  <2>1. PICK old \in SUBSET Listed : Drop(old) /\ active' = Cardinality(Listed \ old)
    BY <1>3, Zenon DEF clear_old
  <2>2. old \in SUBSET Conns /\ \A c \in old : conn[c].at = "listed"
    BY DEF Listed, At
  <2>3. /\ conn' \in [Conns -> [at : Places, cancelled : BOOLEAN]]
        /\ pipe' \in [Conns -> [Directions -> Pipes]]
        /\ \A c \in old : conn'[c].at = "gone" /\ conn'[c].cancelled
        /\ \A c \in Conns \ old : conn'[c] = conn[c]
        /\ \A c \in Conns, d \in Directions : pipe'[c][d].at = pipe[c][d].at
    BY <2>1, <2>2, DropChanges DEF TcpInv
  <2>4. QueueOK'
    BY <1>3, <2>2, <2>3, QueueUntouched DEF clear_old
  <2>5. Listed' = Listed \ old
    BY <2>2, <2>3 DEF Listed, At
  <2>6. active' = Cardinality(Listed') /\ active' \in 0 .. Cardinality(Conns)
    BY <2>1, <2>5, ListedIsFinite
  <2>7. NoOrphanPipe'
    BY <2>3 DEF TcpInv, ClientsAreAccounted, NoOrphanPipe
  <2> QED
    BY <1>3, <2>3, <2>4, <2>6, <2>7
       DEF clear_old, TcpInv, TcpTypes, ClientsAreAccounted, PanicsOnlyWhenCancelled,
           StatsMatchList
<1>4. CASE worker_ends
  <2> DEFINE all == Listed \cup {c \in Conns : At(c, "queued") \/ At(c, "sent")}
  <2>1. all \in SUBSET Conns /\ Drop(all)
    BY <1>4 DEF worker_ends, Listed
  <2>2. /\ conn' \in [Conns -> [at : Places, cancelled : BOOLEAN]]
        /\ pipe' \in [Conns -> [Directions -> Pipes]]
        /\ \A c \in all : conn'[c].at = "gone" /\ conn'[c].cancelled
        /\ \A c \in Conns \ all : conn'[c] = conn[c]
        /\ \A c \in Conns, d \in Directions : pipe'[c][d].at = pipe[c][d].at
    BY <2>1, DropChanges DEF TcpInv
  <2>3. QueueOK'
    BY <1>4, TcpAssumption DEF worker_ends, QueueOK
  <2>4. NoOrphanPipe'
    BY <2>2 DEF TcpInv, ClientsAreAccounted, NoOrphanPipe
  <2> QED
    BY <1>4, <2>2, <2>3, <2>4
       DEF worker_ends, TcpInv, TcpTypes, ClientsAreAccounted, PanicsOnlyWhenCancelled,
           StatsMatchList
<1> QED
  BY <1>1, <1>2, <1>3, <1>4 DEF Worker

(* The pipes, and the passing of time.                                     *)
LEMMA PipeStep ==
  ASSUME TcpInv, tick \/ \E c \in Conns, d \in Directions : Pipe(c, d)
  PROVE  TcpInv'
<1>1. \A c \in Conns, d \in Directions : pipe[c][d] \in Pipes
  BY DEF TcpInv, TcpTypes
<1>2. ASSUME UNCHANGED <<conn, events, worker, active, tunnel, cancel>>,
             pipe' \in [Conns -> [Directions -> Pipes]],
             \A c \in Conns, d \in Directions :
               pipe'[c][d].at \in {"reading", "writing"} => pipe[c][d].at \in {"reading", "writing"}
      PROVE  TcpInv'
  <2>1. QueueOK'
    BY <1>2, QueueUntouched
  <2>2. Listed' = Listed
    BY <1>2 DEF Listed, At
  <2>3. NoOrphanPipe'
    BY <1>2 DEF TcpInv, ClientsAreAccounted, NoOrphanPipe
  <2> QED
    BY <1>2, <2>1, <2>2, <2>3 DEF TcpInv, TcpTypes, ClientsAreAccounted, PanicsOnlyWhenCancelled,
                                  StatsMatchList
<1>3. ASSUME NEW c \in Conns, NEW d \in Directions, NEW p \in Pipes, SetPipe(c, d, p),
             pipe[c][d].at \in {"reading", "writing"}
      PROVE  TcpInv'
  <2>1. /\ pipe' \in [Conns -> [Directions -> Pipes]]
        /\ \A o \in Conns, e \in Directions : o # c \/ e # d => pipe'[o][e] = pipe[o][e]
    BY <1>3 DEF SetPipe, TcpInv, TcpTypes
  <2> QED
    BY <1>2, <1>3, <2>1 DEF SetPipe
<1>4. ASSUME NEW c \in Conns, NEW d \in Directions, Pipe(c, d) PROVE TcpInv'
  <2>1. Closed \in Pipes /\ NewPipe \in Pipes /\ [pipe[c][d] EXCEPT !.at = "writing"] \in Pipes
    BY <1>1 DEF Closed, NewPipe, Pipes, Ages
  <2>2. CASE read(c, d)
    BY <1>3, <2>1, <2>2 DEF read
  <2>3. CASE pipe_ends(c, d) \/ cancelled(c, d)
    BY <1>3, <2>1, <2>3 DEF pipe_ends, cancelled
  <2>4. CASE write(c, d)
    BY <1>3, <2>1, <2>4 DEF write
  <2> QED
    BY <1>4, <2>2, <2>3, <2>4 DEF Pipe
<1>5. CASE tick
  <2>1. \A c \in Conns, d \in Directions :
          /\ [pipe[c][d] EXCEPT !.age = 1] \in Pipes
          /\ [pipe[c][d] EXCEPT !.age = 1].at = pipe[c][d].at
    BY <1>1 DEF Pipes, Ages
  <2>2. /\ pipe' \in [Conns -> [Directions -> Pipes]]
        /\ \A c \in Conns, d \in Directions : pipe'[c][d].at = pipe[c][d].at
    BY <1>1, <1>5, <2>1 DEF tick
  <2> QED
    BY <1>2, <1>5, <2>2 DEF tick
<1> QED
  BY <1>4, <1>5

(* The invariant holds for ever.                                           *)
LEMMA TcpInvHolds == TcpSpec => []TcpInv
<1>1. ASSUME TcpInit PROVE TcpInv
  <2>1. Listed = {}
    BY <1>1 DEF TcpInit, Listed, At
  <2>2. active = Cardinality(Listed) /\ active \in 0 .. Cardinality(Conns)
    BY <1>1, <2>1, FS_EmptySet, TcpAssumption, FS_CardinalityType DEF TcpInit
  <2>3. TcpTypes
    <3>1. /\ Off \in Pipes
          /\ [at |-> "new", cancelled |-> FALSE] \in [at : Places, cancelled : BOOLEAN]
      BY DEF Off, Pipes, Ages, Places
    <3>2. conn \in [Conns -> [at : Places, cancelled : BOOLEAN]]
      BY <1>1, <3>1 DEF TcpInit
    <3>3. pipe \in [Conns -> [Directions -> Pipes]]
      BY <1>1, <3>1 DEF TcpInit
    <3> QED
      BY <1>1, <2>2, <3>2, <3>3, Zenon DEF TcpInit, TcpTypes
  <2>4. QueueOK
    BY <1>1, TcpAssumption DEF TcpInit, QueueOK
  <2> QED
    BY <1>1, <2>2, <2>3, <2>4 DEF TcpInit, TcpInv, ClientsAreAccounted, StatsMatchList,
                                  NoOrphanPipe, PanicsOnlyWhenCancelled, Off
<1>2. ASSUME TcpInv, UNCHANGED tvars PROVE TcpInv'
  <2>1. QueueOK'
    BY <1>2, QueueUntouched DEF tvars
  <2>2. Listed' = Listed
    BY <1>2 DEF tvars, Listed, At
  <2> QED
    BY <1>2, <2>1, <2>2 DEF tvars, TcpInv, TcpTypes, ClientsAreAccounted, StatsMatchList,
                            NoOrphanPipe, PanicsOnlyWhenCancelled
<1>3. TcpInv /\ [TcpNext]_tvars => TcpInv'
  BY <1>2, TunnelStep, SetupStep, WorkerStep, PipeStep DEF TcpNext
<1> QED
  BY <1>1, <1>3, PTL DEF TcpSpec

(* The channel of events holds each waiting client once and within its     *)
(* capacity, and the number of clients shown is never more than there are. *)
THEOREM TcpTypeCorrect == TcpSpec => []TcpTypeOK
<1>1. TcpInv => TcpTypeOK
  <2> SUFFICES ASSUME TcpInv PROVE TcpTypeOK
    OBVIOUS
  <2>1. ASSUME NEW c \in Conns
        PROVE  /\ conn[c].at \in Places
               /\ \A d \in Directions : pipe[c][d].at \in {"off", "reading", "writing", "closed"}
                                        /\ pipe[c][d].age \in Ages
    BY DEF TcpInv, TcpTypes, Pipes
  <2> QED
    BY <2>1 DEF TcpInv, TcpTypes, QueueOK, Waits, TcpTypeOK, Places
<1> QED
  BY <1>1, TcpInvHolds, PTL

(* List, statistics and pipes agree for any number of clients and any room *)
(* in the channel, wherever a client is dropped: by the limiter, by a      *)
(* failed step of its task, in the channel, with the worker (tcp_clients.rs).*)
THEOREM ClientsStayAccounted == TcpSpec => []ClientsAreAccounted
<1>1. TcpInv => ClientsAreAccounted
  BY DEF TcpInv
<1> QED
  BY <1>1, TcpInvHolds, PTL

(* ClearOld never removes a connection that has moved data in the last     *)
(* thirty seconds in either direction.                                     *)
THEOREM ActiveClientsAreKept == TcpSpec => ActiveIsKept
<1> DEFINE Kept == \A c \in Conns :
                     At(c, "listed") /\ worker' = "running" /\ ~At(c, "listed")' =>
                       \A d \in Directions : pipe[c][d].at = "closed" \/ pipe[c][d].age > 0
<1>1. TcpInv /\ [TcpNext]_tvars => [Kept]_tvars
  <2> SUFFICES ASSUME TcpInv, TcpNext, NEW c \in Conns,
                      conn[c].at = "listed", worker' = "running", conn'[c].at # "listed",
                      NEW d \in Directions
               PROVE  pipe[c][d].at = "closed" \/ pipe[c][d].age > 0
    BY DEF At
  <2>0. \A o \in Conns : conn[o] \in [at : Places, cancelled : BOOLEAN]
    BY DEF TcpInv, TcpTypes
  <2>1. ASSUME NEW o \in Conns, NEW place \in Places, Move(o, place), conn[o].at # "listed"
        PROVE  FALSE
    BY <2>1, MoveChanges DEF TcpInv
  <2>2. CASE clear_old
    <3>1. PICK old \in SUBSET Listed :
                 /\ \A o \in Listed : (o \in old) \in OldOrNot(o)
                 /\ Drop(old)
      BY <2>2 DEF clear_old
    <3>2. old \in SUBSET Conns /\ c \in Listed
      BY DEF Listed, At
    <3>3. c \in old
      BY <3>1, <3>2, DropChanges DEF TcpInv
    <3>4. PICK t \in last_use(c, "tunn_to_origin"), o \in last_use(c, "origin_to_tunn") :
                 is_old(t, o)
      <4>1. (c \in old) \in OldOrNot(c)
        BY <3>1, <3>2
      <4>2. PICK t \in last_use(c, "tunn_to_origin"), o \in last_use(c, "origin_to_tunn") :
                   (c \in old) = is_old(t, o)
        BY <4>1 DEF OldOrNot
      <4> QED
        BY <3>3, <4>2, Zenon DEF is_old
    <3>5. pipe[c][d] \in Pipes
      BY DEF TcpInv, TcpTypes
    <3>6. \A e \in Directions : pipe[c][e].at # "closed" /\ pipe[c][e].age = 0 =>
                                  last_use(c, e) = {0}
      BY DEF last_use
    <3>7. \A e \in Directions : \A n \in last_use(c, e) : n \in 0 .. 3
      BY DEF last_use
    <3>8. t \in 0 .. 3 /\ o \in 0 .. 3
      BY <3>4, <3>7 DEF Directions
    <3>9. t > 0 /\ o > 0
      BY <3>4, <3>8 DEF is_old
    <3> QED
      BY <3>4, <3>5, <3>6, <3>9 DEF Directions, Pipes, Ages
  <2>3. CASE \E o \in Conns : handle_new_client(o) \/ send_new_client(o)
    BY <2>1, <2>3 DEF handle_new_client, send_new_client, At, Places
  <2>4. ASSUME NEW o \in Conns, Setup(o) PROVE FALSE
    <3>1. CASE announce(o) /\ ~Drop({o})
      BY <2>1, <3>1 DEF announce, At, Places
    <3>2. CASE announce(o) /\ Drop({o})
      BY <3>2, DropChanges DEF announce, At, TcpInv
    <3>3. CASE write_proxy_header(o)
      BY <2>1, <3>3 DEF write_proxy_header, At, Places
    <3>4. ASSUME NEW from \in Places \ {"listed"}, NEW to \in Places, Step(o, from, to)
          PROVE  FALSE
      BY <2>1, <3>4 DEF Step, At, Places
    <3> QED
      BY <2>4, <3>1, <3>2, <3>3, <3>4 DEF Setup, resolve_local, connect_tunnel, send_claim,
                                          read_confirm, connect_origin, Places
  <2>5. CASE new_client \/ connected_client
    BY <2>1, <2>5, QueueTake, Zenon DEF new_client, connected_client, Waits, Places
  <2>6. CASE worker_ends
    BY <2>6 DEF worker_ends
  <2>7. CASE tunnel_ends
    BY <2>0, <2>7 DEF tunnel_ends, At
  <2>8. CASE cancel_agent \/ tick \/ \E o \in Conns, e \in Directions : Pipe(o, e)
    BY <2>8 DEF cancel_agent, tick, Pipe, read, pipe_ends, cancelled, write, SetPipe
  <2> QED
    BY <2>2, <2>3, <2>4, <2>5, <2>6, <2>7, <2>8 DEF TcpNext, Worker
<1>2. TcpSpec => [][Kept]_tvars
  BY <1>1, TcpInvHolds, PTL DEF TcpSpec
<1> QED
  BY <1>2 DEF ActiveIsKept


-----------------------------------------------------------------------------
(* The control channel.                                                    *)

(* A request to rebuild the socket waits only where the loop is on its way *)
(* to the next reload: no step that forgets the failures is at hand.       *)
RequestPending ==
  hard_reconnect_requested => pc \in {"top", "reload", "keep_alive", "recv", "stopped"}

(* The inductive invariant: the type correctness of the locals of a reload *)
(* is what makes the replaced connection a connection.                     *)
ControlInv == TypeOK /\ WatchdogArmed /\ HardReconnectEarned /\ RequestPending

USE DEF HARD_RECONNECT_FAILURE_THRESHOLD, set_expired, flow_changed

(* note_control_failure keeps the counter in its range, never takes a      *)
(* request back, and requests the hard reconnect only at the threshold.    *)
LEMMA FailureCounted ==
  ASSUME soft_reconnect_failures \in 0..MaxFailures,
         hard_reconnect_requested \in BOOLEAN,
         hard_reconnect_requested => soft_reconnect_failures >= HARD_RECONNECT_FAILURE_THRESHOLD,
         note_control_failure
  PROVE  /\ soft_reconnect_failures' \in 0..MaxFailures
         /\ soft_reconnect_failures' >= soft_reconnect_failures
         /\ hard_reconnect_requested' \in BOOLEAN
         /\ hard_reconnect_requested => hard_reconnect_requested'
         /\ hard_reconnect_requested'
              => soft_reconnect_failures' >= HARD_RECONNECT_FAILURE_THRESHOLD
  BY FailuresAssumption DEF note_control_failure

(* A forgotten failure count is a failure count.                           *)
LEMMA ZeroFailures == 0 \in 0..MaxFailures
  BY FailuresAssumption

(* The locals of no call at all.                                           *)
LEMMA NoCallType == NoCall \in Calls /\ NoCall.force = FALSE
  BY DEF NoCall, Calls

(* setup leaves the control connection in a state of the invariant.        *)
LEMMA ControlInvInit == Init => ControlInv
<1> SUFFICES ASSUME Init PROVE ControlInv
  OBVIOUS
<1>1. TypeOK
  BY ZeroFailures, NoCallType, Zenon DEF Init, TypeOK, Points, Pong, DeadlineFor
<1>2. WatchdogArmed
  BY DEF Init, WatchdogArmed
<1>3. ~hard_reconnect_requested /\ ~call.force
  BY NoCallType DEF Init
<1>4. HardReconnectEarned
  BY <1>3 DEF HardReconnectEarned
<1>5. RequestPending
  BY <1>3 DEF RequestPending
<1> QED
  BY <1>1, <1>2, <1>4, <1>5 DEF ControlInv

(* Every step of the tunnel task keeps the invariant.                      *)
LEMMA ControlInvStep == ControlInv /\ [Next]_vars => ControlInv'
<1> SUFFICES ASSUME ControlInv, [Next]_vars PROVE ControlInv'
  OBVIOUS
<1> USE DEF ControlInv, TypeOK, WatchdogArmed, HardReconnectEarned, RequestPending, Points, Pong,
            Calls, control, established
<1>1. CASE UdpAuthSucceeds
  BY <1>1 DEF UdpAuthSucceeds
<1>2. CASE UdpAuthFails
  BY <1>2, FailureCounted DEF UdpAuthFails
<1>3. ASSUME NEW periodic \in BOOLEAN, StartReload(periodic) PROVE ControlInv'
  BY <1>3, NoCallType, Zenon DEF StartReload
<1>4. CASE SkipReload
  BY <1>4 DEF SkipReload
<1>5. CASE ReloadFails
  BY <1>5, NoCallType DEF ReloadFails
<1>6. ASSUME NEW addresses \in Targets, TargetsUnchanged(addresses) PROVE ControlInv'
  BY <1>6, NoCallType DEF TargetsUnchanged
<1>7. ASSUME NEW addresses \in Targets, GotAddresses(addresses) PROVE ControlInv'
  BY <1>7 DEF GotAddresses
<1>8. ASSUME NEW pong \in Pong, KeepConnection(pong) PROVE ControlInv'
  BY <1>8, ZeroFailures, NoCallType, Zenon DEF KeepConnection, FinishReload, forget_failures
<1>9. ASSUME NEW pong \in Pong, StartReplace(pong) PROVE ControlInv'
  BY <1>9, Zenon DEF StartReplace
<1>10. ASSUME NEW pong \in Pong, ReplacePong(pong) PROVE ControlInv'
  BY <1>10 DEF ReplacePong
<1>11. CASE ReplaceConnection
  BY <1>11, ZeroFailures, NoCallType, Zenon
  DEF ReplaceConnection, reset_established, FinishReload, forget_failures
<1>12. CASE UpdateExpired
  BY <1>12, NoCallType DEF UpdateExpired
<1>13. CASE UpdateHealthy
  BY <1>13 DEF UpdateHealthy
<1>14. ASSUME NEW pong \in Pong, AuthPong(pong) PROVE ControlInv'
  BY <1>14 DEF AuthPong
<1>15. CASE AuthFails
  BY <1>15, FailureCounted, NoCallType DEF AuthFails
<1>16. CASE AuthSucceeds
  BY <1>16, ZeroFailures, NoCallType, Zenon
  DEF AuthSucceeds, authenticate, forget_failures, DeadlineFor
<1>17. CASE SendSucceeds
  BY <1>17 DEF SendSucceeds, NextSend
<1>18. CASE SendFails
  BY <1>18, FailureCounted DEF SendFails, NextSend
<1>19. ASSUME NEW pong \in Pong, RecvPong(pong) PROVE ControlInv'
  BY <1>19 DEF RecvPong
<1>20. CASE RecvUnauthorized
  BY <1>20 DEF RecvUnauthorized
<1>21. CASE RecvEvent
  BY <1>21 DEF RecvEvent
<1>22. CASE UpdateEnds
  <2>1. CASE last_pong = "old"
    BY <1>22, <2>1, FailureCounted DEF UpdateEnds, PongMissing
  <2>2. CASE last_pong # "old"
    BY <1>22, <2>2 DEF UpdateEnds
  <2> QED BY <2>1, <2>2
<1>23. CASE PongGrowsOld
  BY <1>23 DEF PongGrowsOld
<1>24. CASE DeadlinePasses
  BY <1>24 DEF DeadlinePasses
<1>25. CASE Cancelled
  BY <1>25, NoCallType DEF Cancelled
<1>26. CASE Stopped \/ UNCHANGED vars
  BY <1>26 DEF Stopped, vars
<1> QED
  BY <1>1, <1>2, <1>3, <1>4, <1>5, <1>6, <1>7, <1>8, <1>9, <1>10, <1>11, <1>12, <1>13,
     <1>14, <1>15, <1>16, <1>17, <1>18, <1>19, <1>20, <1>21, <1>22, <1>23, <1>24, <1>25,
     <1>26 DEF Next

(* The invariant holds of every reachable state.                           *)
LEMMA ControlInvHolds == Spec => []ControlInv
  BY ControlInvInit, ControlInvStep, PTL DEF Spec

(* Every variable of the control connection keeps to its type.             *)
THEOREM ControlTypeCorrect == Spec => []TypeOK
<1>1. ControlInv => TypeOK
  BY DEF ControlInv
<1> QED
  BY <1>1, ControlInvHolds, PTL

(* update() never switches the pong watchdog off on a session it takes for *)
(* good.                                                                   *)
THEOREM WatchdogStaysArmed == Spec => []WatchdogArmed
<1>1. ControlInv => WatchdogArmed
  BY DEF ControlInv
<1> QED
  BY <1>1, ControlInvHolds, PTL

(* The socket is rebuilt only after the threshold of failures in a row.    *)
THEOREM HardReconnectIsEarned == Spec => []HardReconnectEarned
<1>1. ControlInv => HardReconnectEarned
  BY DEF ControlInv
<1> QED
  BY <1>1, ControlInvHolds, PTL

(* No step makes the agent forget that its session was set up: the three   *)
(* assignments of pong_at_auth all keep session_expire_at.                 *)
LEMMA SessionKeptStep == ControlInv /\ [Next]_vars => (at_auth.session => at_auth'.session)
<1> SUFFICES ASSUME ControlInv, [Next]_vars, at_auth.session PROVE at_auth'.session
  OBVIOUS
<1> USE DEF ControlInv, TypeOK, Pong
<1>1. CASE ReplaceConnection
  BY <1>1 DEF ReplaceConnection, reset_established
<1>2. CASE AuthSucceeds
  BY <1>2 DEF AuthSucceeds, authenticate
<1>3. ASSUME NEW pong \in Pong, RecvPong(pong) PROVE at_auth'.session
  BY <1>3 DEF RecvPong
<1>4. CASE UNCHANGED at_auth
  BY <1>4
<1>5. \/ ReplaceConnection
      \/ AuthSucceeds
      \/ \E pong \in Pong : RecvPong(pong)
      \/ UNCHANGED at_auth
  BY Zenon DEF Next, vars, established, UdpAuthSucceeds, UdpAuthFails, StartReload, SkipReload,
         ReloadFails, TargetsUnchanged, GotAddresses, KeepConnection, StartReplace,
         ReplacePong, UpdateExpired, UpdateHealthy, AuthPong, AuthFails, SendSucceeds,
         SendFails, RecvUnauthorized, RecvEvent, UpdateEnds, PongMissing, PongGrowsOld,
         DeadlinePasses, Cancelled, Stopped
<1> QED
  BY <1>1, <1>2, <1>3, <1>4, <1>5

(* The session baseline, once initialised, stays initialised.              *)
LEMMA SessionBaselineIsKept == Spec => SessionBaselineKept
<1>1. ControlInv /\ [Next]_vars => [at_auth.session => at_auth'.session]_vars
  BY SessionKeptStep
<1> QED
  BY <1>1, ControlInvHolds, PTL DEF Spec, SessionBaselineKept

(* Only a finished reload and a successful re-authentication announce      *)
(* Connected or take a pending request away, besides the start of a reload. *)
LEMMA ConnectedSteps ==
  ControlInv /\ [Next]_vars =>
    \/ \E pong \in Pong : KeepConnection(pong)
    \/ ReplaceConnection
    \/ AuthSucceeds
    \/ \E periodic \in BOOLEAN : StartReload(periodic)
    \/ /\ control_state' = "Connected" => control_state = "Connected"
       /\ hard_reconnect_requested => hard_reconnect_requested'
<1> SUFFICES ASSUME ControlInv, [Next]_vars
             PROVE  \/ \E pong \in Pong : KeepConnection(pong)
                    \/ ReplaceConnection
                    \/ AuthSucceeds
                    \/ \E periodic \in BOOLEAN : StartReload(periodic)
                    \/ /\ control_state' = "Connected" => control_state = "Connected"
                       /\ hard_reconnect_requested => hard_reconnect_requested'
  OBVIOUS
<1>1. note_control_failure => (hard_reconnect_requested => hard_reconnect_requested')
  BY FailureCounted DEF ControlInv, TypeOK, HardReconnectEarned
<1> QED
  BY <1>1, Zenon
  DEF Next, vars, control, UdpAuthSucceeds, UdpAuthFails, SkipReload, ReloadFails,
      TargetsUnchanged, GotAddresses, StartReplace, ReplacePong, UpdateExpired,
      UpdateHealthy, AuthPong, AuthFails, SendSucceeds, SendFails, RecvPong,
      RecvUnauthorized, RecvEvent, UpdateEnds, PongMissing, PongGrowsOld, DeadlinePasses,
      Cancelled, Stopped

(* A request to rebuild the socket goes away only with a forced reload:    *)
(* where the failures are forgotten, none is pending.                      *)
LEMMA HardRequestIsHonoured == Spec => HardRequestHonoured
<1> DEFINE Honoured ==
      hard_reconnect_requested /\ ~hard_reconnect_requested' => call'.force
<1>1. ASSUME ControlInv, [Next]_vars PROVE Honoured
  <2>1. ASSUME NEW pong \in Pong, KeepConnection(pong) PROVE Honoured
    BY <2>1, <1>1 DEF KeepConnection, ControlInv, RequestPending
  <2>2. CASE ReplaceConnection
    BY <2>2, <1>1 DEF ReplaceConnection, ControlInv, RequestPending
  <2>3. CASE AuthSucceeds
    BY <2>3, <1>1 DEF AuthSucceeds, ControlInv, RequestPending
  <2>4. ASSUME NEW periodic \in BOOLEAN, StartReload(periodic) PROVE Honoured
    BY <2>4, <1>1 DEF StartReload, NoCall, ControlInv, TypeOK
  <2> QED
    BY <2>1, <2>2, <2>3, <2>4, <1>1, ConnectedSteps
<1>2. ControlInv /\ [Next]_vars => [Honoured]_vars
  BY <1>1
<1> QED
  BY <1>2, ControlInvHolds, PTL DEF Spec, HardRequestHonoured

(* Connected is announced on a usable session, but for the two cases the   *)
(* property names.                                                         *)
THEOREM ConnectedImpliesUsable == Spec => ConnectedIsUsable
<1> DEFINE Usable ==
      control_state = "Reconnecting" /\ control_state' = "Connected"
        => ~is_expired' \/ pc = "connect" \/ ~at_auth'.session
<1>1. ASSUME ControlInv, [Next]_vars PROVE Usable
  <2>1. ASSUME NEW pong \in Pong, KeepConnection(pong) PROVE Usable
    BY <2>1 DEF KeepConnection
  <2>2. CASE ReplaceConnection
    BY <2>2, <1>1 DEF ReplaceConnection, reset_established, is_expired, ControlInv, TypeOK, Pong
  <2>3. CASE AuthSucceeds
    BY <2>3, <1>1 DEF AuthSucceeds, authenticate, is_expired, ControlInv, TypeOK, Pong
  <2>4. ASSUME NEW periodic \in BOOLEAN, StartReload(periodic) PROVE Usable
    BY <2>4 DEF StartReload
  <2> QED
    BY <2>1, <2>2, <2>3, <2>4, <1>1, ConnectedSteps
<1>2. ControlInv /\ [Next]_vars => [Usable]_vars
  BY <1>1
<1> QED
  BY <1>2, ControlInvHolds, PTL DEF Spec, ConnectedIsUsable

(* The control loop forgets neither that its session was set up nor a      *)
(* request to rebuild the socket, whatever fails in between.               *)
THEOREM NothingIsEverForgotten == Spec => NothingIsForgotten
BY SessionBaselineIsKept, HardRequestIsHonoured, PTL DEF NothingIsForgotten

-----------------------------------------------------------------------------
(* The control connection with a server.                                   *)

(* Every answer of the settled server is one the control loop has to be    *)
(* prepared for, and no step of the composition gives the agent another.   *)
LEMMA ServerMovesAgent == ServerTypeOK /\ [ServerNext]_allvars => [Next]_vars
<1> SUFFICES ASSUME ServerTypeOK, [ServerNext]_allvars PROVE [Next]_vars
  OBVIOUS
<1>1. CASE UNCHANGED allvars
  BY <1>1 DEF allvars
<1>2. CASE Settle
  BY <1>2 DEF Settle
<1>3. CASE Disturbance
  BY <1>3, Zenon DEF Disturbance, Next
<1>4. CASE Local
  BY <1>4, Zenon DEF Local, Next
<1>5. ASSUME settled PROVE ServerPong \in Pong /\ server.route \in Targets
  <2>1. server \in Server
    BY <1>5 DEF settled, ServerTypeOK
  <2>2. HasSession \in BOOLEAN
    BY DEF HasSession
  <2> QED
    BY <2>1, <2>2, Zenon DEF Server, ServerPong, Pong
<1>6. CASE PongInAuth \/ PongInRecv
  BY <1>5, <1>6, Zenon DEF PongInAuth, PongInRecv, Next
<1>7. CASE RoutingAnswer
  BY <1>5, <1>7, Zenon DEF RoutingAnswer, Next
<1>8. CASE NotAuthorized \/ RegisterRefused \/ RegisterAccepted \/ NewSocketRegistered
  BY <1>8, Zenon DEF NotAuthorized, RegisterRefused, RegisterAccepted, NewSocketRegistered, Next
<1> QED
  BY <1>1, <1>2, <1>3, <1>4, <1>6, <1>7, <1>8 DEF ServerNext, AgentStep

(* The record of the server is one, whoever registers with it.             *)
LEMMA ServerStaysTyped ==
  ASSUME ServerTypeOK, [ServerNext]_allvars
  PROVE  server' \in Server \cup {None}
<1>1. CASE UNCHANGED server
  BY <1>1 DEF ServerTypeOK
<1>2. CASE Settle
  BY <1>2 DEF Settle
<1>3. ASSUME settled PROVE server \in Server
  BY <1>3 DEF settled, ServerTypeOK
<1>4. CASE RegisterAccepted
  BY <1>3, <1>4 DEF RegisterAccepted, Server
<1>5. CASE NewSocketRegistered
  <2>1. call.connected \in Pong /\ call.auth_pong \in Flows \cup {None}
    BY <1>5 DEF NewSocketRegistered, ReplaceConnection, ServerTypeOK, TypeOK, Calls
  <2> QED
    BY <1>3, <1>5, <2>1, Zenon DEF NewSocketRegistered, Server, Pong
<1> QED
  BY <1>1, <1>2, <1>4, <1>5 DEF ServerNext, AgentStep, allvars

(* The invariant of the control loop and the types of the server, together. *)
LEMMA ServerInvHolds == ServerSpec => [](ControlInv /\ ServerTypeOK)
<1>1. ServerInit => ControlInv /\ ServerTypeOK
  BY ControlInvInit DEF ServerInit, ServerTypeOK, ControlInv
<1>2. ControlInv /\ ServerTypeOK /\ [ServerNext]_allvars => ControlInv' /\ ServerTypeOK'
  <2> SUFFICES ASSUME ControlInv, ServerTypeOK, [ServerNext]_allvars
               PROVE  ControlInv' /\ ServerTypeOK'
    OBVIOUS
  <2>1. ControlInv'
    BY ServerMovesAgent, ControlInvStep
  <2>2. TypeOK'
    BY <2>1 DEF ControlInv
  <2> QED
    BY <2>1, <2>2, ServerStaysTyped DEF ServerTypeOK
<1> QED
  BY <1>1, <1>2, PTL DEF ServerSpec

(* The agent and the server keep to their types: the server knows no flow  *)
(* but those that a Pong carried.                                          *)
THEOREM ServerTypeCorrect == ServerSpec => []ServerTypeOK
BY ServerInvHolds, PTL

(* The composition with a server, which settles or not, implements the     *)
(* control loop with arbitrary answers: all that is proved of the loop     *)
(* holds on the way to the recovery that SessionRecovers is about.         *)
THEOREM ServerImplementsControl == ServerSpec => Spec
<1>1. ServerInit => Init
  BY DEF ServerInit
<1> QED
  BY <1>1, ServerInvHolds, ServerMovesAgent, PTL DEF ServerSpec, Spec

(* While the agent recovers, too, the watchdog stays armed, the socket is  *)
(* rebuilt only after the threshold of failures, Connected is announced on *)
(* a usable session and nothing is forgotten.                              *)
THEOREM RecoveryIsSafe ==
  ServerSpec => /\ [](WatchdogArmed /\ HardReconnectEarned)
                /\ ConnectedIsUsable /\ NothingIsForgotten
BY ServerImplementsControl, WatchdogStaysArmed, HardReconnectIsEarned, ConnectedImpliesUsable,
   NothingIsEverForgotten, PTL
=============================================================================
