----------------------------- MODULE PacketPool -----------------------------
(***************************************************************************)
(* The pool of packet buffers, network/udp/packets.rs: two lock-free       *)
(* queues, one of free buffers and one of wakers, with no lock that makes  *)
(* a test of one and an update of the other one step.  Tasks take buffers  *)
(* with allocate_wait, any thread gives one back by dropping a Packet.     *)
(*                                                                         *)
(* Which buffer is taken does not matter here: the queue of free buffers   *)
(* is its length.  A waker is the task it wakes.                           *)
(***************************************************************************)
EXTENDS Naturals, Sequences

CONSTANTS
  Tasks,         \* the tasks that call allocate_wait
  packet_count,  \* number of buffers
  MaxWaiting,    \* capacity of the waiting queue (1024 in the code)
  MaxDrops       \* threads that can be in the middle of a drop

ASSUME PoolAssumption ==
  packet_count \in Nat /\ MaxWaiting \in Nat /\ MaxDrops \in Nat

VARIABLES
  free,      \* length of free_packets
  held,      \* number of Packets alive
  waiting,   \* the wakers, oldest first
  task,        \* where each task is: see WaitPoints
  woken,     \* tasks that have been woken since their last poll began
  dropping   \* drops that have returned the buffer and not yet woken anyone

pool_vars == <<free, held, waiting, task, woken, dropping>>

(* "idle": not in allocate_wait; "poll": at the pop of a free buffer;      *)
(* "push": about to queue its waker; "parked": returned Pending            *)
WaitPoints == {"idle", "poll", "push", "parked"}

(* Every variable keeps to its type, and no buffer is lost or counted      *)
(* twice, so that the push of a dropped buffer cannot find its queue full. *)
PoolTypeOK ==
  /\ free \in Nat /\ held \in Nat
  /\ free + held = packet_count
  /\ waiting \in Seq(Tasks) /\ Len(waiting) <= MaxWaiting
  /\ task \in [Tasks -> WaitPoints]
  /\ woken \in SUBSET Tasks
  /\ dropping \in 0..MaxDrops

PoolInit ==
  /\ free = packet_count
  /\ held = 0
  /\ waiting = <<>>
  /\ task = [t \in Tasks |-> "idle"]
  /\ woken = {}
  /\ dropping = 0

-----------------------------------------------------------------------------
(* allocate_wait                                                           *)

StartWait(t) ==
  /\ task[t] = "idle"
  /\ task' = [task EXCEPT ![t] = "poll"]
  /\ UNCHANGED <<free, held, waiting, woken, dropping>>

PopFree(t) ==
  /\ task[t] = "poll"
  /\ free > 0
  /\ free' = free - 1
  /\ held' = held + 1
  /\ task' = [task EXCEPT ![t] = "idle"]
  /\ woken' = woken \ {t}
  /\ UNCHANGED <<waiting, dropping>>

FindNone(t) ==
  /\ task[t] = "poll"
  /\ free = 0
  /\ task' = [task EXCEPT ![t] = "push"]
  /\ UNCHANGED <<free, held, waiting, woken, dropping>>

(* Mutated form: a waker that does not fit is thrown away.                 *)
PushWaker_dropped(t) ==
  /\ task[t] = "push"
  /\ task' = [task EXCEPT ![t] = "parked"]
  /\ waiting' = IF Len(waiting) < MaxWaiting THEN Append(waiting, t) ELSE waiting
  /\ UNCHANGED <<free, held, woken, dropping>>

PushWaker(t) ==
  /\ task[t] = "push"
  /\ task' = [task EXCEPT ![t] = "parked"]
  /\ IF Len(waiting) < MaxWaiting
     THEN waiting' = Append(waiting, t) /\ UNCHANGED woken
     ELSE woken' = woken \cup {t} /\ UNCHANGED waiting
  /\ UNCHANGED <<free, held, dropping>>

(* The executor polls a task that was woken; a select! around the wait may *)
(* also poll it because another branch was woken.                          *)
Resume(t) ==
  /\ task[t] = "parked"
  /\ t \in woken
  /\ task' = [task EXCEPT ![t] = "poll"]
  /\ woken' = woken \ {t}
  /\ UNCHANGED <<free, held, waiting, dropping>>

PolledForAnotherBranch(t) ==
  /\ task[t] = "parked"
  /\ t \notin woken
  /\ task' = [task EXCEPT ![t] = "poll"]
  /\ UNCHANGED <<free, held, waiting, woken, dropping>>

(* The select! takes its other branch: the waker stays in the queue        *)
Abandon(t) ==
  /\ task[t] = "parked"
  /\ task' = [task EXCEPT ![t] = "idle"]
  /\ woken' = woken \ {t}
  /\ UNCHANGED <<free, held, waiting, dropping>>

-----------------------------------------------------------------------------
(* Packets::allocate, and Drop for Packet                                  *)

allocate ==
  /\ free > 0
  /\ free' = free - 1
  /\ held' = held + 1
  /\ UNCHANGED <<waiting, task, woken, dropping>>

DropPush ==
  /\ held > 0
  /\ dropping < MaxDrops
  /\ held' = held - 1
  /\ free' = free + 1
  /\ dropping' = dropping + 1
  /\ UNCHANGED <<waiting, task, woken>>

(* A task that is not waiting is polled for nothing when it is woken       *)
Wake(t) == woken' = IF task[t] = "idle" THEN woken ELSE woken \cup {t}

(* Mutated form: the youngest waker is taken.                              *)
DropWake_youngest ==
  /\ dropping > 0
  /\ dropping' = dropping - 1
  /\ IF waiting = <<>>
     THEN UNCHANGED <<waiting, woken>>
     ELSE /\ waiting' = SubSeq(waiting, 1, Len(waiting) - 1)
          /\ Wake(waiting[Len(waiting)])
  /\ UNCHANGED <<free, held, task>>

DropWake ==
  /\ dropping > 0
  /\ dropping' = dropping - 1
  /\ IF waiting = <<>>
     THEN UNCHANGED <<waiting, woken>>
     ELSE waiting' = Tail(waiting) /\ Wake(Head(waiting))
  /\ UNCHANGED <<free, held, task>>

PoolNext ==
  \/ \E t \in Tasks :
       \/ StartWait(t) \/ PopFree(t) \/ FindNone(t) \/ PushWaker(t)
       \/ Resume(t) \/ PolledForAnotherBranch(t) \/ Abandon(t)
  \/ allocate
  \/ DropPush
  \/ DropWake

PoolSpec == PoolInit /\ [][PoolNext]_pool_vars

(* A poll runs to its end, and so does a drop; the executor polls a task   *)
(* that was woken.                                                         *)
PoolFair ==
  /\ WF_pool_vars(DropWake)
  /\ \A t \in Tasks : WF_pool_vars(PopFree(t) \/ FindNone(t) \/ PushWaker(t) \/ Resume(t))
PoolFairSpec == PoolSpec /\ PoolFair

-----------------------------------------------------------------------------
(* A task that returned Pending has its waker in the queue or has been     *)
(* woken: no path of the poll and no drop strands it, also when the queue  *)
(* of wakers is full and when wakers of abandoned waits are in the way.    *)
RegisteredOrWoken ==
  \A t \in Tasks :
    task[t] = "parked" => t \in woken \/ \E i \in DOMAIN waiting : waiting[i] = t

(* A waiting task may miss the drop that happens between its pop and the   *)
(* push of its waker, but not the drops that follow: while buffers keep    *)
(* being dropped, a parked task gets to poll again.  The tasks are alike:  *)
(* one stands for all.                                                     *)
WokenByTraffic ==
  LET t == CHOOSE u \in Tasks : TRUE
  IN []<><<DropWake>>_pool_vars => (task[t] = "parked") ~> (task[t] # "parked")
=============================================================================
