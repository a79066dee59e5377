----------------------------- MODULE OrderProofs -----------------------------
(***************************************************************************)
(* Proofs about the parts that promise an order or an account of what went *)
(* through them: the event loop, the synchronisation objects and the       *)
(* scheduler.  Each part has its inductive invariant and the theorems that *)
(* follow from it.                                                         *)
(***************************************************************************)
EXTENDS EventLoop, Sync, Scheduler, DataProofs

(* A leaf that names no prover is for Zenon, with time to spare. *)
USE ZenonT(30)

-----------------------------------------------------------------------------
(* The event loop.  That an event acts at most once is no invariant by     *)
(* itself: it rests on the ids above the last accepted one not having      *)
(* acted, and that nothing in order is stale on the inbox being sorted.    *)
Event == [cpu : CpuIds, id : 1..MaxEvent, correlation : Nat, kind : Kinds]

LoopTypes ==
  /\ next_event \in Nat \ {0} /\ next_action \in Nat \ {0} /\ last_global_event \in Nat
  /\ issued \subseteq [id : Nat, action : Actions]
  /\ inbox \in Seq(Event) /\ fifo \in BOOLEAN
  /\ acted \in [1..MaxEvent -> Nat]

(* Every id in the inbox was given out, and an id that is newer than the   *)
(* last one accepted has not acted.                                        *)
OrderInv ==
  /\ last_global_event < next_event
  /\ \A k \in 1..Len(inbox) : inbox[k].id < next_event
  /\ \A i \in 1..MaxEvent : acted[i] <= 1 /\ (i > last_global_event => acted[i] = 0)

(* An inbox that is stepped in order is sorted and newer than what was     *)
(* accepted.                                                               *)
FifoInv ==
  fifo => /\ \A k \in 1..Len(inbox) : inbox[k].id > last_global_event
          /\ \A j, k \in 1..Len(inbox) : j < k => inbox[j].id < inbox[k].id

LoopInv == LoopTypes /\ OrderInv /\ FifoInv

(* RemoveAt takes one element out and moves the later ones up. *)
LEMMA RemoveAtElements ==
  ASSUME NEW S, NEW s \in Seq(S), NEW i \in 1..Len(s)
  PROVE  /\ RemoveAt(s, i) \in Seq(S)
         /\ Len(RemoveAt(s, i)) = Len(s) - 1
         /\ \A k \in 1..(Len(s) - 1) : RemoveAt(s, i)[k] = IF k < i THEN s[k] ELSE s[k + 1]
BY SMT DEF RemoveAt

(* What waits in the inbox are events with their ids. *)
LEMMA InboxIds ==
  ASSUME LoopTypes
  PROVE  /\ Len(inbox) \in Nat
         /\ \A k \in 1..Len(inbox) : /\ inbox[k] \in Event
                                     /\ inbox[k].id \in 1..MaxEvent /\ inbox[k].id \in Nat
<1>1. Len(inbox) \in Nat /\ \A k \in 1..Len(inbox) : inbox[k] \in Event
  BY SMT DEF LoopTypes
<1>2. \A e \in Event : e.id \in 1..MaxEvent /\ e.id \in Nat
  BY SMT, EventLoopAssumption DEF Event
<1>3. QED BY <1>1, <1>2

(* Nothing has come in and nothing has been accepted. *)
LEMMA LoopInvInit == LoopInit => LoopInv
  BY SMT, EventLoopAssumption DEF LoopInit, LoopInv, LoopTypes, OrderInv, FifoInv

(* An event that comes in has the newest id, and joins the end. *)
LEMMA IngressKeeps ==
  ASSUME LoopInv, NEW c \in CpuIds, NEW kind \in Kinds, NEW r \in Nat, Ingress(c, kind, r)
  PROVE  LoopInv'
<1> DEFINE e == [cpu |-> c, id |-> next_event, correlation |-> r, kind |-> kind]
<1>1. /\ UNCHANGED <<next_action, issued, fifo, last_global_event, acted>>
      /\ next_event' = next_event + 1 /\ next_event <= MaxEvent
      /\ inbox' = inbox \/ inbox' = Append(inbox, e)
  BY DEF Ingress, policy, SpendsId
<1>2. e \in Event /\ e.id = next_event
  BY SMT, <1>1, EventLoopAssumption DEF LoopInv, LoopTypes, Event
<1> HIDE DEF e
<1>3. CASE inbox' = inbox
  <2>1. LoopTypes' /\ FifoInv'
    BY SMT, <1>1, <1>3 DEF LoopInv, LoopTypes, FifoInv
  <2>2. OrderInv'
    BY SMT, <1>1, <1>3, InboxIds DEF LoopInv, LoopTypes, OrderInv
  <2>3. QED BY <2>1, <2>2 DEF LoopInv
<1>4. CASE inbox' = Append(inbox, e)
  <2>1. /\ inbox' \in Seq(Event) /\ Len(inbox') = Len(inbox) + 1
        /\ \A k \in 1..Len(inbox) : inbox'[k] = inbox[k]
        /\ inbox'[Len(inbox) + 1] = e /\ Len(inbox) \in Nat
    BY SMT, <1>2, <1>4 DEF LoopInv, LoopTypes
  <2>2. \A k \in 1..Len(inbox') : k \in 1..Len(inbox) \/ k = Len(inbox) + 1
    BY SMT, <2>1
  <2>3. LoopTypes'
    BY SMT, <1>1, <2>1 DEF LoopInv, LoopTypes
  <2>4. \A k \in 1..Len(inbox) : inbox[k].id \in Nat
    BY InboxIds DEF LoopInv
  <2>5. OrderInv'
    BY SMTT(30), <1>1, <1>2, <2>1, <2>2, <2>4 DEF LoopInv, LoopTypes, OrderInv
  <2>6. /\ last_global_event < next_event /\ last_global_event \in Nat /\ next_event \in Nat
        /\ \A k \in 1..Len(inbox) : inbox[k].id < next_event
    BY DEF LoopInv, LoopTypes, OrderInv
  <2>7. fifo' => \A k \in 1..Len(inbox') : inbox'[k].id > last_global_event'
    BY <1>1, <1>2, <2>1, <2>2, <2>6 DEF LoopInv, FifoInv
  <2>8. fifo' => \A j, k \in 1..Len(inbox') : j < k => inbox'[j].id < inbox'[k].id
    <3> SUFFICES ASSUME fifo', NEW j \in 1..Len(inbox'), NEW k \in 1..Len(inbox'), j < k
                 PROVE  inbox'[j].id < inbox'[k].id
      OBVIOUS
    <3>1. j \in 1..Len(inbox)
      BY SMT, <2>1
    <3>2. CASE k \in 1..Len(inbox)
      BY <1>1, <2>1, <3>1, <3>2 DEF LoopInv, FifoInv
    <3>3. CASE k = Len(inbox) + 1
      BY <1>2, <2>1, <2>6, <3>1, <3>3
    <3>4. QED BY <2>2, <3>2, <3>3
  <2>9. FifoInv'
    BY <2>7, <2>8 DEF FifoInv
  <2>10. QED BY <2>3, <2>5, <2>9 DEF LoopInv
<1>5. QED BY <1>1, <1>3, <1>4

(* A step takes the event out, or leaves it to be delivered again, and     *)
(* accepts it only if it is newer than all that acted.                     *)
LEMMA StepKeeps ==
  ASSUME LoopInv, NEW i \in 1..Len(inbox), step(i)
  PROVE  LoopInv'
<1> DEFINE e == inbox[i]
           n == Len(inbox)
<1>1. e \in Event /\ e.id \in 1..MaxEvent /\ e.id < next_event /\ inbox \in Seq(Event) /\ n \in Nat
  BY InboxIds DEF LoopInv, LoopTypes, OrderInv
<1>2. /\ UNCHANGED <<next_event, next_action, issued, fifo>>
      /\ fifo => i = 1
      /\ inbox' = RemoveAt(inbox, i) \/ (~fifo /\ inbox' = inbox)
      /\ \/ /\ e.id > last_global_event /\ last_global_event' = e.id
            /\ acted' = [acted EXCEPT ![e.id] = @ + 1]
         \/ UNCHANGED <<last_global_event, acted>>
  BY DEF step, policy, sequencer, Accepts, Newer
<1> HIDE DEF e
<1>3. /\ RemoveAt(inbox, i) \in Seq(Event) /\ Len(RemoveAt(inbox, i)) = n - 1
      /\ \A k \in 1..(n - 1) : RemoveAt(inbox, i)[k] = IF k < i THEN inbox[k] ELSE inbox[k + 1]
  BY <1>1, RemoveAtElements
<1>4. /\ inbox' \in Seq(Event)
      /\ \A k \in 1..Len(inbox') : \E j \in 1..n : inbox'[k] = inbox[j]
  BY SMT, <1>1, <1>2, <1>3
<1>5. LoopTypes'
  <2>1. acted' \in [1..MaxEvent -> Nat] /\ last_global_event' \in Nat
    BY SMTT(30), <1>1, <1>2 DEF LoopInv, LoopTypes
  <2>2. QED BY <1>2, <1>4, <2>1 DEF LoopInv, LoopTypes
<1>6. OrderInv'
  <2>1. \A k \in 1..Len(inbox') : inbox'[k].id < next_event'
    BY <1>2, <1>4 DEF LoopInv, OrderInv
  <2>2. last_global_event' < next_event'
    BY <1>1, <1>2 DEF LoopInv, OrderInv
  <2>3. ASSUME NEW k \in 1..MaxEvent
        PROVE  acted'[k] <= 1 /\ (k > last_global_event' => acted'[k] = 0)
    <3>1. CASE UNCHANGED <<last_global_event, acted>>
      BY <3>1 DEF LoopInv, OrderInv
    <3>2. CASE /\ e.id > last_global_event /\ last_global_event' = e.id
               /\ acted' = [acted EXCEPT ![e.id] = @ + 1]
      <4>1. acted[e.id] = 0 /\ (k > e.id => acted[k] = 0) /\ acted[k] <= 1
        BY SMT, <1>1, <3>2, EventLoopAssumption DEF LoopInv, LoopTypes, OrderInv
      <4>2. QED BY SMT, <1>1, <3>2, <4>1 DEF LoopInv, LoopTypes
    <3>3. QED BY <1>2, <3>1, <3>2
  <2>4. QED BY <2>1, <2>2, <2>3 DEF OrderInv
<1>7. FifoInv'
  <2>1. SUFFICES ASSUME fifo PROVE FifoInv'
    BY <1>2 DEF FifoInv
  <2>2. Len(inbox') = n - 1 /\ \A k \in 1..(n - 1) : inbox'[k] = inbox[k + 1]
    BY SMT, <1>2, <1>3, <2>1
  <2>3. \A k \in 1..n : inbox[k].id \in Nat /\ inbox[k].id > last_global_event
    BY <2>1, InboxIds DEF LoopInv, FifoInv
  <2>4. \A j, k \in 1..n : j < k => inbox[j].id < inbox[k].id
    BY <2>1 DEF LoopInv, FifoInv
  <2>5. \A k \in 1..(n - 1) : inbox'[k].id > last_global_event'
    BY SMTT(30), <1>2, <2>1, <2>2, <2>3, <2>4 DEF e
  <2>6. \A j, k \in 1..(n - 1) : j < k => inbox'[j].id < inbox'[k].id
    BY SMT, <2>2, <2>4
  <2>7. QED BY <2>2, <2>5, <2>6 DEF FifoInv
<1>8. QED BY <1>5, <1>6, <1>7 DEF LoopInv

(* Every call of the sequencer and the policy keeps the invariant. *)
LEMMA LoopInvStep == LoopInv /\ [LoopNext]_loopVars => LoopInv'
<1> SUFFICES ASSUME LoopInv, [LoopNext]_loopVars PROVE LoopInv'
  OBVIOUS
<1>1. ASSUME UNCHANGED <<next_event, inbox, fifo, last_global_event, acted>>, LoopTypes'
      PROVE  LoopInv'
  BY <1>1 DEF LoopInv, OrderInv, FifoInv
<1>2. ASSUME NEW a \in Actions, issue(a) PROVE LoopInv'
  BY SMT, <1>1, <1>2, EventLoopAssumption DEF issue, LoopInv, LoopTypes, policy
<1>3. ASSUME NEW c \in CpuIds, NEW k \in Kinds, NEW r \in 0..MaxAction, ingress(c, k, r)
      PROVE  LoopInv'
  BY SMT, <1>3, IngressKeeps DEF ingress
<1>4. ASSUME NEW i \in issued, NEW c \in CpuIds, NEW ok \in BOOLEAN, complete(i, c, ok)
      PROVE  LoopInv'
  <2>1. i.id \in Nat
    BY DEF LoopInv, LoopTypes
  <2>2. QED BY <1>4, <2>1, IngressKeeps DEF complete
<1>5. ASSUME NEW i \in DOMAIN inbox, step(i) PROVE LoopInv'
  <2>1. i \in 1..Len(inbox)
    BY SMT DEF LoopInv, LoopTypes
  <2>2. QED BY <1>5, <2>1, StepKeeps
<1>6. ASSUME \/ \E v \in Vectors, c \in CpuIds : assign_irq(v, c)
             \/ allow_dma_slot
             \/ \E c \in CpuIds : add_cpu(c)
             \/ UNCHANGED loopVars
      PROVE  LoopInv'
  BY <1>1, <1>6 DEF assign_irq, allow_dma_slot, add_cpu, loopVars, policy, sequencer, LoopInv, LoopTypes
<1>7. QED BY <1>2, <1>3, <1>4, <1>5, <1>6 DEF LoopNext

(* An event acts at most once, in whatever order and however often the     *)
(* caller presents it, also when add_cpu replaces a shard in between.      *)
THEOREM ActsAtMostOnceHolds == LoopSpec => []ActsAtMostOnce
<1>1. LoopInv => ActsAtMostOnce BY DEF LoopInv, OrderInv, ActsAtMostOnce
<1>2. QED BY <1>1, LoopInvInit, LoopInvStep, PTL DEF LoopSpec

(* A caller that steps its inbox in order never has an event refused as    *)
(* stale.                                                                  *)
THEOREM InOrderNeverStaleHolds == LoopSpec => []InOrderNeverStale
<1>1. LoopInv => InOrderNeverStale
  BY SMT DEF LoopInv, LoopTypes, FifoInv, InOrderNeverStale
<1>2. QED BY <1>1, LoopInvInit, LoopInvStep, PTL DEF LoopSpec
-----------------------------------------------------------------------------
(* The synchronisation objects.  Each account of NothingLost, with the     *)
(* types it needs, is kept by the calls of its object alone.               *)
LockAccount ==
  /\ lock_next \in Nat /\ lock_owner \in Nat /\ lock_owner <= lock_next
  /\ outstanding = lock_owner..(lock_next - 1)

QueueAccount ==
  /\ queue \in Seq(SyncCpus) /\ pushes \in [SyncCpus -> Nat] /\ pops \in Nat
  /\ Sum(pushes, SyncCpus) = pops + Len(queue)

BarrierAccount ==
  /\ arrived \subseteq Participants /\ barrier_generation \in Nat
  /\ rounds \in [Participants -> SUBSET Nat]
  /\ \A c \in Participants :
       rounds[c] = 0..(IF c \in arrived THEN barrier_generation ELSE barrier_generation - 1)

SyncInv == LockAccount /\ QueueAccount /\ BarrierAccount

(* The accounts are those that NothingLost names. *)
LEMMA SyncInvAccounts == SyncInv => NothingLost
  BY DEF SyncInv, LockAccount, QueueAccount, BarrierAccount, NothingLost, Sum

(* Initially nothing has been handed out, pushed or counted. *)
LEMMA SyncInvInit == SyncInit => SyncInv
<1> SUFFICES ASSUME SyncInit PROVE SyncInv
  OBVIOUS
<1> USE SyncAssumption
<1>1. LockAccount
  BY SMT DEF SyncInit, LockAccount
<1>2. QueueAccount
  <2>1. /\ pushes = [c \in SyncCpus |-> 0] /\ pushes \in [SyncCpus -> Nat]
        /\ pops = 0 /\ queue \in Seq(SyncCpus) /\ Len(queue) = 0
    BY SMT DEF SyncInit
  <2>2. Sum(pushes, SyncCpus) = pops + Len(queue)
    BY SMT, <2>1, SumZero
  <2>3. QED BY <2>1, <2>2 DEF QueueAccount
<1>3. BarrierAccount
  BY SMT DEF SyncInit, BarrierAccount
<1>4. QED BY <1>1, <1>2, <1>3 DEF SyncInv

(* A ticket is handed out at one end and returned at the other. *)
LEMMA LockKeeps == LockAccount /\ LockNext => LockAccount'
<1> SUFFICES ASSUME LockAccount, LockNext PROVE LockAccount'
  OBVIOUS
<1>1. CASE enqueue
  BY SMT, <1>1 DEF enqueue, LockAccount
<1>2. ASSUME NEW t \in 0..MaxTicket, release_ticket(t) PROVE LockAccount'
  BY SMT, <1>2 DEF release_ticket, InTurn, LockAccount
<1>3. QED BY <1>1, <1>2 DEF LockNext

(* A push counts one more and adds one message, a pop removes what it      *)
(* counts.                                                                 *)
LEMMA QueueKeeps == QueueAccount /\ QueueNext => QueueAccount'
<1> SUFFICES ASSUME QueueAccount, QueueNext PROVE QueueAccount'
  OBVIOUS
<1> USE SyncAssumption
<1>1. CASE pop
  <2>1. /\ queue # << >> /\ queue' = Tail(queue) /\ pops' = pops + 1 /\ pushes' = pushes
    BY <1>1 DEF pop
  <2>2. queue' \in Seq(SyncCpus) /\ Len(queue') = Len(queue) - 1 /\ pops' \in Nat
    BY SMT, <2>1 DEF QueueAccount
  <2>3. pops' + Len(queue') = pops + Len(queue)
    BY SMT, <2>1, <2>2 DEF QueueAccount
  <2>4. QED BY <2>1, <2>2, <2>3 DEF QueueAccount
<1>2. ASSUME NEW c \in SyncCpus, push(c) PROVE QueueAccount'
  <2>1. /\ queue' = Append(queue, c) /\ pops' = pops
        /\ pushes' = [pushes EXCEPT ![c] = @ + 1]
    BY <1>2 DEF push
  <2>2. queue' \in Seq(SyncCpus) /\ Len(queue') = Len(queue) + 1
        /\ pushes' \in [SyncCpus -> Nat]
    BY SMT, <2>1 DEF QueueAccount
  <2>3. Sum(pushes', SyncCpus) = Sum(pushes, SyncCpus) + 1
    BY <2>1, SumIncrement DEF QueueAccount
  <2>4. Len(queue) \in Nat
    BY SMT DEF QueueAccount
  <2>5. QED BY SMT, <2>1, <2>2, <2>3, <2>4 DEF QueueAccount
<1>3. QED BY <1>1, <1>2 DEF QueueNext

(* The generation moves on exactly when all have arrived, so that the      *)
(* arrivals of the round before are what everybody starts from.            *)
LEMMA BarrierKeeps == BarrierAccount /\ BarrierNext => BarrierAccount'
<1> SUFFICES ASSUME BarrierAccount, BarrierNext PROVE BarrierAccount'
  OBVIOUS
<1> USE SyncAssumption
<1>1. ASSUME NEW c \in Participants, NEW g \in 0..MaxBarrierGen, arrive(c, g)
      PROVE  BarrierAccount'
  <2>1. /\ g = barrier_generation /\ c \notin arrived /\ arrived' = arrived \cup {c}
        /\ rounds' = [rounds EXCEPT ![c] = @ \cup {g}] /\ barrier_generation' = barrier_generation
    BY <1>1 DEF arrive, ThisRound
  <2>2. g \in Nat /\ (0..(g - 1)) \cup {g} = 0..g
    BY SMT, <2>1 DEF BarrierAccount
  <2>3. rounds[c] \cup {g} = 0..g /\ rounds[c] \cup {g} \in SUBSET Nat
    BY <2>1, <2>2 DEF BarrierAccount
  <2>4. QED BY <2>1, <2>3 DEF BarrierAccount
<1>2. CASE advance_barrier
  <2>1. arrived = Participants
    <3>1. IsFiniteSet(Participants) BY FS_Subset
    <3>2. arrived \in SUBSET Participants BY DEF BarrierAccount
    <3>3. Cardinality(Participants) = Cardinality(arrived)
      BY <1>2 DEF advance_barrier, AllArrived
    <3>4. QED BY <3>1, <3>2, <3>3, FS_Subset
  <2>2. /\ arrived' = {} /\ rounds' = rounds
        /\ barrier_generation' = barrier_generation + 1
    BY <1>2 DEF advance_barrier
  <2>3. barrier_generation' \in Nat /\ barrier_generation' - 1 = barrier_generation
    BY SMT, <2>2 DEF BarrierAccount
  <2>4. QED BY <2>1, <2>2, <2>3 DEF BarrierAccount
<1>3. QED BY <1>1, <1>2 DEF BarrierNext

(* A step of one object keeps the account of each. *)
LEMMA SyncInvStep == SyncInv /\ [SyncNext]_syncVars => SyncInv'
<1> SUFFICES ASSUME SyncInv, [SyncNext]_syncVars PROVE SyncInv'
  OBVIOUS
<1>1. UNCHANGED lockVars => LockAccount'
  BY DEF SyncInv, lockVars, LockAccount
<1>2. UNCHANGED queueVars => QueueAccount'
  BY DEF SyncInv, queueVars, QueueAccount
<1>3. UNCHANGED barrierVars => BarrierAccount'
  BY DEF SyncInv, barrierVars, BarrierAccount
<1>4. CASE LockNext /\ UNCHANGED <<once_value, queueVars, barrierVars>>
  BY <1>2, <1>3, <1>4, LockKeeps DEF SyncInv
<1>5. CASE QueueNext /\ UNCHANGED <<lockVars, once_value, barrierVars>>
  BY <1>1, <1>3, <1>5, QueueKeeps DEF SyncInv
<1>6. CASE BarrierNext /\ UNCHANGED <<lockVars, once_value, queueVars>>
  BY <1>1, <1>2, <1>6, BarrierKeeps DEF SyncInv
<1>7. CASE UNCHANGED <<lockVars, queueVars, barrierVars>>
  BY <1>1, <1>2, <1>3, <1>7 DEF SyncInv
<1>8. QED BY <1>4, <1>5, <1>6, <1>7 DEF SyncNext, syncVars

(* No ticket, message or arrival is lost or counted twice, for any finite  *)
(* set of CPUs and any capacity.                                           *)
THEOREM NothingLostHolds == SyncSpec => []NothingLost
  BY SyncInvAccounts, SyncInvInit, SyncInvStep, PTL DEF SyncSpec
-----------------------------------------------------------------------------
(* The scheduler, for every set of CPUs and tasks.  TypeOK, QueuesAgree    *)
(* and TasksHeld together are inductive: the first two say that the        *)
(* branches of the code that find a popped or taken task in the wrong      *)
(* state are dead, the third that no branch but the overflow drops a task. *)
TasksHeld ==
  \A t \in Tasks :
    /\ state[t] = "Runnable" => \E c \in Cpus : Queued(c, t)
    /\ state[t] = "Running" =>
         cpu_of[t] \in Cpus /\ (current[cpu_of[t]] = t \/ t \in overflowed)
    /\ t \in overflowed => state[t] = "Running" /\ \A c \in Cpus : current[c] # t

SchedulerInv == TypeOK /\ QueuesAgree /\ TasksHeld

(* What Push does to a queue, position by position. *)
LEMMA PushFacts ==
  ASSUME NEW q \in Seq(Tasks), NEW t \in Tasks
  PROVE  /\ Push(q, t) \in Seq(Tasks)
         /\ DOMAIN Push(q, t) = 1..(Len(q) + 1)
         /\ \A i \in 1..Len(q) : Push(q, t)[i] = q[i]
         /\ Push(q, t)[Len(q) + 1] = t
BY SMT DEF Push

(* Popping the head moves every other entry down by one position. *)
LEMMA TailFacts ==
  ASSUME NEW q \in Seq(Tasks), q # << >>
  PROVE  /\ Tail(q) \in Seq(Tasks)
         /\ Len(Tail(q)) = Len(q) - 1
         /\ \A i \in 1..(Len(q) - 1) : Tail(q)[i] = q[i + 1]
         /\ Head(q) = q[1]
         /\ Len(q) \in Nat \ {0}
BY SMT

(* Popping the tail leaves every other entry where it is. *)
LEMMA PopBackFacts ==
  ASSUME NEW q \in Seq(Tasks), q # << >>
  PROVE  /\ PopBack(q) \in Seq(Tasks)
         /\ Len(PopBack(q)) = Len(q) - 1
         /\ \A i \in 1..(Len(q) - 1) : PopBack(q)[i] = q[i]
         /\ Len(q) \in Nat \ {0}
<1>1. Len(q) \in Nat \ {0}
  BY SMT
<1>2. \A i \in 1..(Len(q) - 1) : q[i] \in Tasks
  BY SMT
<1>3. /\ SubSeq(q, 1, Len(q) - 1) \in Seq(Tasks)
      /\ Len(SubSeq(q, 1, Len(q) - 1)) = IF 1 <= Len(q) - 1 THEN Len(q) - 1 - 1 + 1 ELSE 0
      /\ \A i \in 1..(Len(q) - 1 - 1 + 1) : SubSeq(q, 1, Len(q) - 1)[i] = q[1 + i - 1]
  <2>1. 1 \in Int /\ Len(q) - 1 \in Int
    BY SMT
  <2> QED
    BY SMT, <1>2, <2>1
<1> DEFINE b == PopBack(q)
<1>4. /\ b \in Seq(Tasks)
      /\ Len(b) = IF 1 <= Len(q) - 1 THEN Len(q) - 1 - 1 + 1 ELSE 0
      /\ \A i \in 1..(Len(q) - 1 - 1 + 1) : b[i] = q[1 + i - 1]
  BY <1>3, Zenon DEF PopBack
<1> HIDE DEF b
<1>5. Len(b) = Len(q) - 1
  <2> DEFINE n == Len(q)
             m == Len(b)
  <2>1. n \in Nat \ {0} /\ m = IF 1 <= n - 1 THEN n - 1 - 1 + 1 ELSE 0
    BY <1>1, <1>4
  <2> HIDE DEF n, m
  <2>2. m = n - 1
    <3>1. CASE n = 1
      BY SMT, <2>1, <3>1
    <3>2. CASE n # 1
      BY SMT, <2>1, <3>2
    <3> QED
      BY <3>1, <3>2
  <2> QED
    BY <2>2 DEF n, m
<1>6. ASSUME NEW i \in 1..(Len(q) - 1)
      PROVE  b[i] = q[i]
  <2>1. i \in 1..(Len(q) - 1 - 1 + 1) /\ 1 + i - 1 = i
    BY SMT, <1>1, <1>6
  <2>2. b[i] = q[1 + i - 1]
    BY <2>1, <1>4, Zenon
  <2> QED
    BY <2>1, <2>2
<1> QED
  BY <1>1, <1>4, <1>5, <1>6 DEF b

(* A task that becomes Runnable joins one queue.  It was in none before,   *)
(* since queue entries are Runnable, and it leaves its CPU if it had one.  *)
LEMMA EnqueuePreserves ==
  ASSUME SchedulerInv, NEW c \in Cpus, NEW t \in Tasks, state[t] # "Runnable",
         queues' = [queues EXCEPT ![c] = Push(@, t)],
         state' = [state EXCEPT ![t] = "Runnable"],
         TypeOK',
         \A u \in Tasks \ {t} : cpu_of'[u] = cpu_of[u],
         t \notin overflowed, overflowed' = overflowed,
         \A d \in Cpus : current'[d] = IF current[d] = t THEN None ELSE current[d]
  PROVE  SchedulerInv'
<1> USE DEF SchedulerInv
<1>1. \A d \in Cpus : queues[d] \in Seq(Tasks) /\ DOMAIN queues[d] = 1..Len(queues[d])
                      /\ Len(queues[d]) \in Nat
  BY SMT DEF TypeOK
<1>2. \A d \in Cpus : \A i \in DOMAIN queues[d] : queues[d][i] \in Tasks /\ queues[d][i] # t
  BY SMT, <1>1 DEF TypeOK, QueuesAgree
<1>3. \A d \in Cpus : d # c => queues'[d] = queues[d]
  BY DEF TypeOK
<1>4. /\ DOMAIN queues'[c] = 1..(Len(queues[c]) + 1)
      /\ \A i \in DOMAIN queues[c] : i \in DOMAIN queues'[c] /\ queues'[c][i] = queues[c][i]
      /\ queues'[c][Len(queues[c]) + 1] = t
  <2>1. queues'[c] = Push(queues[c], t)
    BY DEF TypeOK
  <2>2. queues[c] \in Seq(Tasks) /\ DOMAIN queues[c] = 1..Len(queues[c])
        /\ Len(queues[c]) \in Nat
    BY <1>1
  <2>3. /\ DOMAIN Push(queues[c], t) = 1..(Len(queues[c]) + 1)
        /\ \A i \in 1..Len(queues[c]) : Push(queues[c], t)[i] = queues[c][i]
        /\ Push(queues[c], t)[Len(queues[c]) + 1] = t
    BY <2>2, PushFacts
  <2> QED
    BY SMT, <2>1, <2>2, <2>3
<1>5. \A d \in Cpus : \A i \in DOMAIN queues'[d] :
        \/ i \in DOMAIN queues[d] /\ queues'[d][i] = queues[d][i]
        \/ d = c /\ i = Len(queues[c]) + 1 /\ queues'[d][i] = t
  BY SMT, <1>1, <1>3, <1>4
<1>6. state'[t] = "Runnable" /\ \A u \in Tasks : u # t => state'[u] = state[u]
  BY DEF TypeOK
<1>7. QueuesAgree'
  <2>1. \A d \in Cpus : \A i \in DOMAIN queues'[d] : state'[queues'[d][i]] = "Runnable"
    BY SMTT(30), <1>2, <1>5, <1>6 DEF QueuesAgree
  <2>2. \A d, e \in Cpus : \A i \in DOMAIN queues'[d], j \in DOMAIN queues'[e] :
          queues'[d][i] = queues'[e][j] => d = e /\ i = j
    BY SMTT(30), <1>2, <1>5 DEF QueuesAgree
  <2>3. ASSUME NEW d \in Cpus, current'[d] # None
        PROVE  state'[current'[d]] = "Running" /\ cpu_of'[current'[d]] = d
    <3>1. current[d] \in Tasks /\ current[d] # t /\ current'[d] = current[d]
      BY <2>3 DEF TypeOK
    <3> QED
      BY SMT, <2>3, <3>1, <1>6 DEF QueuesAgree, RunningOn
  <2> QED
    BY <2>1, <2>2, <2>3 DEF QueuesAgree, RunningOn
<1>8. TasksHeld'
  <2> SUFFICES ASSUME NEW u \in Tasks
               PROVE  /\ state'[u] = "Runnable" =>
                           \E d \in Cpus : \E i \in DOMAIN queues'[d] : queues'[d][i] = u
                      /\ state'[u] = "Running" =>
                           cpu_of'[u] \in Cpus /\ (current'[cpu_of'[u]] = u \/ u \in overflowed')
                      /\ u \in overflowed' => state'[u] = "Running" /\ \A d \in Cpus : current'[d] # u
    BY DEF TasksHeld, Queued
  <2>1. CASE u = t
    BY SMTT(30), <2>1, <1>1, <1>4, <1>6
  <2>2. CASE u # t /\ state[u] = "Runnable"
    <3>0. PICK d \in Cpus : \E i \in DOMAIN queues[d] : queues[d][i] = u
      BY <2>2 DEF TasksHeld, Queued
    <3>1. PICK i \in DOMAIN queues[d] : queues[d][i] = u
      BY <3>0
    <3>2. i \in DOMAIN queues'[d] /\ queues'[d][i] = u
      BY <3>1, <1>3, <1>4
    <3>3. u \notin overflowed
      BY <2>2 DEF TasksHeld
    <3> QED
      BY <2>2, <3>2, <3>3, <1>6
  <2>3. CASE u # t /\ state[u] # "Runnable"
    <3>1. state'[u] = state[u] /\ cpu_of'[u] = cpu_of[u] /\ u # None
      BY <2>3, <1>6, SchedulerAssumption
    <3>2. \A d \in Cpus : current'[d] = u <=> current[d] = u
      BY <2>3, <3>1
    <3> QED
      BY <2>3, <3>1, <3>2 DEF TasksHeld
  <2> QED
    BY <2>1, <2>2, <2>3
<1> QED
  BY <1>7, <1>8

(* A dispatch takes the entry at position p out of the queue of v, either  *)
(* the head (the entries behind it move down: shift is 1) or the tail      *)
(* (shift is 0), and makes it the current task of the idle CPU c.          *)
LEMMA DequeuePreserves ==
  ASSUME SchedulerInv, NEW c \in Cpus, NEW v \in Cpus, NEW r \in Seq(Tasks),
         NEW shift \in {0, 1}, NEW p \in DOMAIN queues[v],
         current[c] = None,
         queues' = [queues EXCEPT ![v] = r],
         p = IF shift = 1 THEN 1 ELSE Len(queues[v]),
         Len(r) = Len(queues[v]) - 1,
         \A i \in 1..(Len(queues[v]) - 1) : r[i] = queues[v][i + shift],
         Start(queues[v][p], c)
  PROVE  SchedulerInv'
<1> USE DEF SchedulerInv
<1> DEFINE t == queues[v][p]
<1>1. /\ \A d \in Cpus : queues[d] \in Seq(Tasks) /\ DOMAIN queues[d] = 1..Len(queues[d])
                         /\ Len(queues[d]) \in Nat
      /\ t \in Tasks /\ state[t] = "Runnable"
  BY SMT DEF TypeOK, QueuesAgree
<1>2. /\ state' = [state EXCEPT ![t] = "Running"]
      /\ cpu_of' = [cpu_of EXCEPT ![t] = c]
      /\ current' = [current EXCEPT ![c] = t]
      /\ exhausted' = exhausted /\ overflowed' = overflowed
  BY <1>1 DEF Start
<1>3. TypeOK'
  BY <1>1, <1>2 DEF TypeOK, Tags
<1> DEFINE Old(d, i) == IF d = v THEN i + shift ELSE i
<1>4. ASSUME NEW d \in Cpus, NEW i \in DOMAIN queues'[d]
      PROVE  /\ Old(d, i) \in DOMAIN queues[d]
             /\ queues'[d][i] = queues[d][Old(d, i)]
             /\ d = v => Old(d, i) # p
  <2>1. CASE d # v
    BY <2>1, <1>4 DEF TypeOK
  <2>2. CASE d = v
    <3>1. queues'[d] = r /\ DOMAIN r = 1..(Len(queues[v]) - 1)
      BY SMT, <2>2 DEF TypeOK
    <3>2. i \in 1..(Len(queues[v]) - 1)
      BY <3>1, <1>4
    <3>3. i + shift \in 1..Len(queues[v]) /\ i + shift # p
      BY SMTT(30), <3>2, <1>1
    <3> QED
      BY <2>2, <3>1, <3>2, <3>3, <1>1
  <2> QED
    BY <2>1, <2>2
<1>5. \A d \in Cpus : \A i \in DOMAIN queues'[d] :
        queues'[d][i] \in Tasks /\ queues'[d][i] # t /\ state[queues'[d][i]] = "Runnable"
  BY SMTT(30), <1>1, <1>4 DEF QueuesAgree
<1>6. state'[t] = "Running" /\ \A u \in Tasks : u # t => state'[u] = state[u]
  BY <1>1, <1>2 DEF TypeOK
<1>7. QueuesAgree'
  <2>1. \A d \in Cpus : \A i \in DOMAIN queues'[d] : state'[queues'[d][i]] = "Runnable"
    BY SMTT(30), <1>5, <1>6
  <2>2. ASSUME NEW d \in Cpus, NEW e \in Cpus, NEW i \in DOMAIN queues'[d],
               NEW j \in DOMAIN queues'[e], queues'[d][i] = queues'[e][j]
        PROVE  d = e /\ i = j
    <3>1. /\ Old(d, i) \in DOMAIN queues[d] /\ queues'[d][i] = queues[d][Old(d, i)]
          /\ Old(e, j) \in DOMAIN queues[e] /\ queues'[e][j] = queues[e][Old(e, j)]
      BY SMTT(30), <1>4
    <3>2. d = e /\ Old(d, i) = Old(e, j)
      <4> HIDE DEF Old
      <4> QED
        BY SMTT(30), <2>2, <3>1 DEF QueuesAgree
    <3>3. i \in Nat /\ j \in Nat
      BY SMT, <1>3 DEF TypeOK
    <3> QED
      BY SMTT(30), <3>2, <3>3
  <2>3. ASSUME NEW d \in Cpus, current'[d] # None
        PROVE  state'[current'[d]] = "Running" /\ cpu_of'[current'[d]] = d
    <3>1. CASE d = c
      BY <3>1, <1>1, <1>2 DEF TypeOK
    <3>2. CASE d # c
      <4>1. current'[d] = current[d] /\ current[d] # None /\ current[d] \in Tasks
        BY <2>3, <3>2, <1>2 DEF TypeOK
      <4>2. state[current[d]] = "Running" /\ cpu_of[current[d]] = d
        BY <4>1 DEF QueuesAgree, RunningOn
      <4> QED
        BY <4>1, <4>2, <1>1, <1>2 DEF TypeOK
    <3> QED
      BY <3>1, <3>2
  <2> QED
    BY <2>1, <2>2, <2>3 DEF QueuesAgree, RunningOn
<1>8. TasksHeld'
  <2> SUFFICES ASSUME NEW u \in Tasks
               PROVE  /\ state'[u] = "Runnable" =>
                           \E d \in Cpus : \E i \in DOMAIN queues'[d] : queues'[d][i] = u
                      /\ state'[u] = "Running" =>
                           cpu_of'[u] \in Cpus /\ (current'[cpu_of'[u]] = u \/ u \in overflowed')
                      /\ u \in overflowed' => state'[u] = "Running" /\ \A d \in Cpus : current'[d] # u
    BY DEF TasksHeld, Queued
  <2>1. CASE u = t
    <3>1. u \notin overflowed
      BY <2>1, <1>1 DEF TasksHeld
    <3> QED
      BY <2>1, <3>1, <1>1, <1>2, <1>6 DEF TypeOK
  <2>2. CASE u # t /\ state[u] = "Runnable"
    <3>1. PICK d \in Cpus : \E i \in DOMAIN queues[d] : queues[d][i] = u
      BY <2>2 DEF TasksHeld, Queued
    <3>2. PICK i \in DOMAIN queues[d] : queues[d][i] = u
      BY <3>1
    <3>3. \E j \in DOMAIN queues'[d] : queues'[d][j] = u
      <4>1. CASE d # v
        BY <4>1, <3>2 DEF TypeOK
      <4>2. CASE d = v
        <5>1. i # p /\ i \in 1..Len(queues[v])
          BY <4>2, <3>2, <2>2, <1>1
        <5>2. i - shift \in 1..(Len(queues[v]) - 1)
          BY SMTT(30), <5>1, <1>1
        <5>3. r[i - shift] = queues[v][i]
          BY <5>1, <5>2, SMTT(30)
        <5>4. queues'[d] = r /\ DOMAIN r = 1..(Len(queues[v]) - 1)
          BY SMT, <4>2 DEF TypeOK
        <5> QED
          BY <5>2, <5>3, <5>4, <4>2, <3>2
      <4> QED
        BY <4>1, <4>2
    <3>4. u \notin overflowed
      BY <2>2 DEF TasksHeld
    <3> QED
      BY <3>3, <3>4, <2>2, <1>2, <1>6
  <2>3. CASE u # t /\ state[u] # "Runnable"
    <3>1. cpu_of'[u] = cpu_of[u] /\ state'[u] = state[u] /\ u # None
      BY <2>3, <1>1, <1>2, <1>6, SchedulerAssumption DEF TypeOK
    <3>2. \A d \in Cpus : current'[d] = u <=> current[d] = u
      BY <2>3, <3>1, <1>2 DEF TypeOK
    <3> QED
      BY <2>3, <3>1, <3>2, <1>2 DEF TasksHeld
  <2> QED
    BY <2>1, <2>2, <2>3
<1> QED
  BY <1>3, <1>7, <1>8

(* A block or an exit, and a yield that finds its task's generation        *)
(* exhausted, only take the current task away; no queue changes.           *)
LEMMA LeavePreserves ==
  ASSUME SchedulerInv, NEW c \in Cpus, NEW tag \in {"Running", "Blocked", "Exited"},
         current[c] # None,
         overflowed' = overflowed \cup (IF tag = "Running" THEN {current[c]} ELSE {}),
         current' = [current EXCEPT ![c] = None],
         state' = [state EXCEPT ![current[c]] = tag],
         \/ cpu_of' = [cpu_of EXCEPT ![current[c]] = None] /\ tag # "Running"
         \/ cpu_of' = cpu_of,
         UNCHANGED <<queues, exhausted>>
  PROVE  SchedulerInv'
<1> USE DEF SchedulerInv
<1> DEFINE t == current[c]
<1>1. t \in Tasks /\ state[t] = "Running" /\ cpu_of[t] = c
  BY SMT DEF TypeOK, QueuesAgree, RunningOn
<1>2. TypeOK'
  BY <1>1 DEF TypeOK, Tags
<1>3. \A u \in Tasks \ {t} : state'[u] = state[u] /\ cpu_of'[u] = cpu_of[u]
  BY <1>1 DEF TypeOK
<1>4. \A d \in Cpus : \A i \in DOMAIN queues[d] :
        queues[d][i] \in Tasks \ {t} /\ state'[queues[d][i]] = "Runnable"
  BY SMTT(30), <1>1, <1>3 DEF TypeOK, QueuesAgree
<1>5. ASSUME NEW d \in Cpus, current'[d] # None
      PROVE  state'[current'[d]] = "Running" /\ cpu_of'[current'[d]] = d
  <2>1. current'[d] = current[d] /\ current[d] \in Tasks /\ d # c
    BY <1>5 DEF TypeOK
  <2>2. state[current[d]] = "Running" /\ cpu_of[current[d]] = d
    BY <1>5, <2>1 DEF QueuesAgree, RunningOn
  <2> QED
    BY SMTT(30), <2>1, <2>2, <1>1, <1>3
<1>6. QueuesAgree'
  BY SMT, <1>4, <1>5 DEF QueuesAgree, RunningOn
<1>7. ASSUME NEW u \in Tasks
      PROVE  /\ state'[u] = "Runnable" => \E d \in Cpus : Queued(d, u)
             /\ state'[u] = "Running" =>
                  cpu_of'[u] \in Cpus /\ (current'[cpu_of'[u]] = u \/ u \in overflowed')
             /\ u \in overflowed' => state'[u] = "Running" /\ \A d \in Cpus : current'[d] # u
  <2>1. u # None /\ \A d \in Cpus : current'[d] = IF d = c THEN None ELSE current[d]
    BY SchedulerAssumption DEF TypeOK
  <2>2. CASE u = t
    <3>1. state'[u] = tag /\ (tag = "Running" => cpu_of'[u] = c)
      BY <2>2, <1>1 DEF TypeOK
    <3>2. ASSUME NEW d \in Cpus, d # c PROVE current[d] # u
      <4>1. current[d] # None => cpu_of[current[d]] = d
        BY DEF QueuesAgree, RunningOn
      <4> QED
        BY <1>1, <2>1, <2>2, <3>2, <4>1
    <3>3. u \notin overflowed
      BY <2>2 DEF TasksHeld
    <3>4. u \in overflowed' <=> tag = "Running"
      BY <2>2, <3>3
    <3>5. \A d \in Cpus : current'[d] # u
      BY <2>1, <3>2
    <3>6. CASE tag = "Running"
      BY <3>1, <3>4, <3>5, <3>6
    <3>7. CASE tag \in {"Blocked", "Exited"}
      BY <3>1, <3>4, <3>7
    <3> QED
      BY <3>6, <3>7
  <2>3. CASE u # t
    <3>1. state'[u] = state[u] /\ cpu_of'[u] = cpu_of[u] /\ (u \in overflowed' <=> u \in overflowed)
      BY <2>3, <1>3
    <3>2. \A d \in Cpus : current'[d] = u <=> current[d] = u
      BY <2>1, <2>3
    <3> QED
      BY <3>1, <3>2 DEF TasksHeld
  <2> QED
    BY <2>2, <2>3
<1>8. TasksHeld'
  BY SMT, <1>7 DEF TasksHeld, Queued
<1> QED
  BY <1>2, <1>6, <1>8

(* Every operation of the scheduler preserves the invariant. *)
LEMMA NextPreserves ==
  ASSUME SchedulerInv, [Next]_vars
  PROVE  SchedulerInv'
<1>1. CASE UNCHANGED vars
  BY SMT, <1>1 DEF SchedulerInv, vars, TypeOK, QueuesAgree, TasksHeld, Queued, RunningOn
<1>2. ASSUME NEW c \in Cpus, NEW t \in Tasks, create_task(t, c)
      PROVE  SchedulerInv'
  <2>1. queues[c] \in Seq(Tasks) /\ Push(queues[c], t) \in Seq(Tasks)
    BY PushFacts DEF SchedulerInv, TypeOK
  <2>2. TypeOK'
    BY <1>2, <2>1 DEF SchedulerInv, TypeOK, Tags, create_task
  <2>3. \A d \in Cpus : current[d] # t
    BY SMT, <1>2, SchedulerAssumption DEF SchedulerInv, create_task, QueuesAgree, RunningOn
  <2>4. t \notin overflowed /\ overflowed' = overflowed
    BY <1>2 DEF SchedulerInv, TasksHeld, create_task
  <2> QED
    BY <1>2, <2>2, <2>3, <2>4, EnqueuePreserves DEF create_task
<1>3. ASSUME NEW c \in Cpus, NEW t \in Tasks, wake(t, c)
      PROVE  SchedulerInv'
  <2>1. queues[c] \in Seq(Tasks) /\ Push(queues[c], t) \in Seq(Tasks)
    BY PushFacts DEF SchedulerInv, TypeOK
  <2>2. TypeOK'
    BY <1>3, <2>1 DEF SchedulerInv, TypeOK, Tags, wake
  <2>3. state[t] = "Blocked" /\ \A d \in Cpus : current[d] # t
    BY SMT, <1>3, SchedulerAssumption DEF SchedulerInv, wake, Wakeable, QueuesAgree, RunningOn
  <2>4. t \notin overflowed /\ overflowed' = overflowed
    BY <1>3, <2>3 DEF SchedulerInv, TasksHeld, wake
  <2> QED
    BY <1>3, <2>2, <2>3, <2>4, EnqueuePreserves DEF wake
<1>4. ASSUME NEW c \in Cpus, dispatch_local(c)
      PROVE  SchedulerInv'
  <2>1. queues[c] \in Seq(Tasks) /\ queues[c] # << >>
    BY <1>4 DEF SchedulerInv, TypeOK, dispatch_local
  <2>2. /\ Tail(queues[c]) \in Seq(Tasks)
        /\ Len(Tail(queues[c])) = Len(queues[c]) - 1
        /\ \A i \in 1..(Len(queues[c]) - 1) : Tail(queues[c])[i] = queues[c][i + 1]
        /\ Head(queues[c]) = queues[c][1]
        /\ 1 \in DOMAIN queues[c]
    BY SMT, <2>1, TailFacts
  <2>3. /\ queues' = [queues EXCEPT ![c] = Tail(queues[c])]
        /\ Start(queues[c][1], c)
        /\ current[c] = None
    BY <1>4, <2>2 DEF dispatch_local
  <2> QED
    BY <2>2, <2>3, DequeuePreserves
<1>5. ASSUME NEW c \in Cpus, dispatch_steal(c)
      PROVE  SchedulerInv'
  <2>1. PICK v \in Cpus : /\ queues[v] # << >>
                          /\ queues' = [queues EXCEPT ![v] = PopBack(queues[v])]
                          /\ Start(queues[v][Len(queues[v])], c)
    BY <1>5 DEF dispatch_steal, StealVictim
  <2>2. queues[v] \in Seq(Tasks)
    BY DEF SchedulerInv, TypeOK
  <2>3. /\ PopBack(queues[v]) \in Seq(Tasks)
        /\ Len(PopBack(queues[v])) = Len(queues[v]) - 1
        /\ \A i \in 1..(Len(queues[v]) - 1) : PopBack(queues[v])[i] = queues[v][i]
        /\ Len(queues[v]) \in Nat \ {0}
    BY <2>1, <2>2, PopBackFacts
  <2> DEFINE r == PopBack(queues[v])
             p == Len(queues[v])
             shift == 0
  <2>4. /\ r \in Seq(Tasks) /\ Len(r) = Len(queues[v]) - 1
        /\ queues' = [queues EXCEPT ![v] = r]
        /\ \A i \in 1..(Len(queues[v]) - 1) : r[i] = queues[v][i + shift]
    BY SMTT(30), <2>1, <2>3
  <2>5. /\ p \in DOMAIN queues[v] /\ current[c] = None /\ Start(queues[v][p], c)
        /\ shift \in {0, 1} /\ p = IF shift = 1 THEN 1 ELSE Len(queues[v])
    BY SMTT(30), <1>5, <2>1, <2>2, <2>3 DEF dispatch_steal
  <2> HIDE DEF r, p, shift
  <2> QED
    BY <2>4, <2>5, DequeuePreserves
<1>6. ASSUME NEW c \in Cpus, yield_current(c)
      PROVE  SchedulerInv'
  <2> DEFINE t == current[c]
  <2>1. /\ t \in Tasks /\ t # None /\ state[t] = "Running" /\ cpu_of[t] = c /\ RunningOn(t, c)
        /\ current' = [current EXCEPT ![c] = None]
    BY SMT, <1>6 DEF SchedulerInv, TypeOK, QueuesAgree, RunningOn, yield_current
  <2>2. CASE exhausted[t]
    <3>1. UNCHANGED <<queues, state, cpu_of, exhausted>> /\ overflowed' = overflowed \cup {t}
      BY <1>6, <2>1, <2>2 DEF yield_current
    <3>2. state' = [state EXCEPT ![t] = "Running"]
      BY <2>1, <3>1 DEF SchedulerInv, TypeOK
    <3> QED
      BY <2>1, <2>2, <3>1, <3>2, LeavePreserves
  <2>3. CASE ~exhausted[t]
    <3>1. /\ state' = [state EXCEPT ![t] = "Runnable"]
          /\ cpu_of' = [cpu_of EXCEPT ![t] = None]
          /\ queues' = [queues EXCEPT ![c] = Push(@, t)]
          /\ \E max \in BOOLEAN : exhausted' = [exhausted EXCEPT ![t] = max]
          /\ overflowed' = overflowed
      BY <1>6, <2>1, <2>3 DEF yield_current
    <3>2. queues[c] \in Seq(Tasks) /\ Push(queues[c], t) \in Seq(Tasks)
      BY <2>1, PushFacts DEF SchedulerInv, TypeOK
    <3>3. exhausted' \in [Tasks -> BOOLEAN] /\ t \notin overflowed
      BY <2>1, <3>1 DEF SchedulerInv, TypeOK, TasksHeld
    <3>4. TypeOK'
      BY <2>1, <3>1, <3>2, <3>3 DEF SchedulerInv, TypeOK, Tags
    <3>5. \A d \in Cpus : current'[d] = IF current[d] = t THEN None ELSE current[d]
      BY SMT, <2>1 DEF SchedulerInv, TypeOK, QueuesAgree, RunningOn
    <3>6. \A u \in Tasks \ {t} : cpu_of'[u] = cpu_of[u]
      BY <3>1 DEF SchedulerInv, TypeOK
    <3> HIDE DEF t
    <3> QED
      BY <2>1, <3>1, <3>3, <3>4, <3>5, <3>6, EnqueuePreserves
  <2> QED
    BY <2>2, <2>3
<1>7. ASSUME NEW c \in Cpus, NEW tag \in {"Blocked", "Exited"}, StopCurrent(c, tag)
      PROVE  SchedulerInv'
  <2>1. current[c] # None /\ RunningOn(current[c], c)
    BY <1>7 DEF SchedulerInv, QueuesAgree, StopCurrent
  <2>2. /\ current' = [current EXCEPT ![c] = None]
        /\ state' = [state EXCEPT ![current[c]] = tag]
        /\ cpu_of' = [cpu_of EXCEPT ![current[c]] = None]
        /\ UNCHANGED <<queues, exhausted, overflowed>>
    BY <1>7, <2>1 DEF StopCurrent
  <2>3. tag \in {"Running", "Blocked", "Exited"} /\ tag # "Running"
    OBVIOUS
  <2> QED
    BY <2>1, <2>2, <2>3, LeavePreserves
<1> QED
  BY <1>1, <1>2, <1>3, <1>4, <1>5, <1>6, <1>7
     DEF Next, dispatch, block_current, exit_current

(* The invariant holds for any number of CPUs and tasks. *)
THEOREM SchedulerInvariant == Spec => []SchedulerInv
<1>1. Init => SchedulerInv
  BY SMT, SchedulerAssumption
     DEF Init, SchedulerInv, TypeOK, Tags, QueuesAgree, TasksHeld, Queued, RunningOn
<1>2. SchedulerInv /\ [Next]_vars => SchedulerInv'
  BY NextPreserves
<1> QED
  BY <1>1, <1>2, PTL DEF Spec

(* Queue entries, current tasks and task states keep their types. *)
THEOREM SchedulerTypeCorrect == Spec => []TypeOK
<1>1. SchedulerInv => TypeOK
  BY DEF SchedulerInv
<1> QED
  BY <1>1, SchedulerInvariant, PTL

(* No dispatch, steal, yield or wake ever puts one task in two places.     *)
THEOREM QueuesAgreeHolds == Spec => []QueuesAgree
<1>1. SchedulerInv => QueuesAgree
  BY DEF SchedulerInv
<1> QED
  BY <1>1, SchedulerInvariant, PTL

(* No dispatch, steal, yield or wake drops a task, except a yield that     *)
(* reports GenerationOverflow, and that one drops it for good.             *)
THEOREM LostOnlyByOverflowHolds == Spec => []LostOnlyByOverflow
<1>1. SchedulerInv => LostOnlyByOverflow
  <2> SUFFICES ASSUME SchedulerInv, NEW t \in Tasks
               PROVE  /\ state[t] \in {"Runnable", "Running"} => (Seen(t) <=> t \notin overflowed)
                      /\ t \in overflowed => state[t] = "Running"
    BY DEF LostOnlyByOverflow
  <2>1. state[t] = "Runnable" => Seen(t) /\ t \notin overflowed
    BY DEF SchedulerInv, TasksHeld, Seen
  <2>2. t \in overflowed => ~Seen(t) /\ state[t] = "Running"
    <3>1. ASSUME t \in overflowed PROVE \A c \in Cpus : current[c] # t /\ ~Queued(c, t)
      BY <3>1 DEF SchedulerInv, TasksHeld, QueuesAgree, Queued
    <3> QED
      BY <3>1 DEF SchedulerInv, TasksHeld, Seen
  <2>3. state[t] = "Running" /\ t \notin overflowed => Seen(t)
    BY DEF SchedulerInv, TasksHeld, Seen
  <2> QED
    BY <2>1, <2>2, <2>3
<1> QED
  BY <1>1, SchedulerInvariant, PTL

(* If some other CPU has a waiting task, steal has a victim: the longest   *)
(* of finitely many queues, and the lowest id among the longest.           *)
LEMMA VictimExists ==
  ASSUME TypeOK, NEW c \in Cpus, NEW d \in Cpus \ {c}, queues[d] # << >>
  PROVE  \E v \in Cpus : StealVictim(c, v)
<1> DEFINE Others == Cpus \ {c}
           len == [o \in Others |-> Len(queues[o])]
<1>1. IsFiniteSet(Others) /\ Others # {}
  BY SchedulerAssumption, FS_RemoveElement
<1>2. len \in [Others -> Nat] /\ \A o \in Others : len[o] = Len(queues[o])
  BY SMT DEF TypeOK
<1> HIDE DEF len
<1>3. PICK m \in Others : \A o \in Others : len[o] <= len[m]
  BY <1>1, <1>2, LargestValue
<1> DEFINE Longest == {o \in Others : len[o] = len[m]}
<1>4. Longest \in SUBSET Nat /\ Longest # {}
  BY <1>3, SchedulerAssumption
<1>5. PICK v \in Longest : \A o \in Longest : v <= o
  BY <1>4, LeastNat
<1>6. \A o \in Others : len[o] < len[v] \/ (len[o] = len[v] /\ v <= o)
  BY SMT, <1>2, <1>3, <1>5
<1>7. queues[v] # << >>
  <2>1. Len(queues[d]) > 0 /\ Len(queues[d]) <= Len(queues[v])
    BY SMTT(30), <1>2, <1>3, <1>5 DEF TypeOK
  <2>2. QED BY SMT, <2>1
<1>8. QED BY <1>2, <1>5, <1>6, <1>7 DEF StealVictim

(* A CPU whose dispatch finds nothing leaves nothing waiting anywhere, for *)
(* any number of CPUs and tasks.                                           *)
THEOREM WorkConservingHolds == Spec => []WorkConserving
<1>1. SchedulerInv => WorkConserving
  <2> SUFFICES ASSUME SchedulerInv, NEW c \in Cpus, NEW t \in Tasks, state[t] = "Runnable",
                      queues[c] = << >>
               PROVE  \E v \in Cpus : StealVictim(c, v)
    BY DEF WorkConserving
  <2>1. PICK d \in Cpus : Queued(d, t)
    BY DEF SchedulerInv, TasksHeld
  <2>2. queues[d] # << >>
    BY SMT, <2>1 DEF Queued
  <2>3. QED BY <2>2, VictimExists DEF SchedulerInv
<1>2. QED BY <1>1, SchedulerInvariant, PTL
=============================================================================
