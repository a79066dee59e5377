---------------------------------- MODULE Sync ----------------------------------
(***************************************************************************)
(* The synchronisation objects of kernel/src/sync.rs: TicketLock, OnceCell,*)
(* BoundedMpsc and Barrier.  Tickets, guards and generations are plain     *)
(* values: a caller may present any of them at any time, early, late or    *)
(* twice.  acquire writes nothing, and a guard says no more than its ticket*)
(* does, so release is modelled on tickets.                                *)
(***************************************************************************)
EXTENDS Integers, Sequences, FiniteSetsExt

CONSTANTS
  SyncCpus,      \* the producers of the queue
  Participants,  \* the participants of the barrier
  Capacity,      \* the capacity of the queue
  OnceValues,    \* the values a OnceCell is initialised with
  Unset,         \* the OnceCell before that
  MaxTicket,     \* the last ticket number (u64::MAX in the code)
  MaxPushes,     \* bound on the pushes of a producer
  MaxBarrierGen  \* the last generation (u64::MAX in the code)

ASSUME SyncAssumption ==
  /\ IsFiniteSet(SyncCpus) /\ Participants \subseteq SyncCpus /\ Unset \notin OnceValues
  /\ {Capacity, MaxTicket, MaxPushes, MaxBarrierGen} \subseteq Nat

VARIABLES
  lock_next, lock_owner, outstanding,      \* TicketLock
  once_value,                         \* OnceCell
  queue, pushes, pops,           \* BoundedMpsc; a message is its producer
  arrived, barrier_generation,   \* Barrier
  rounds                         \* the generations each participant was accepted with

lockVars == <<lock_next, lock_owner, outstanding>>
queueVars == <<queue, pushes, pops>>
barrierVars == <<arrived, barrier_generation, rounds>>
syncVars == <<lockVars, once_value, queueVars, barrierVars>>

SyncInit ==
  /\ lock_next = 0 /\ lock_owner = 0 /\ outstanding = {}
  /\ once_value = Unset
  /\ queue = << >> /\ pushes = [c \in SyncCpus |-> 0] /\ pops = 0
  /\ arrived = {} /\ barrier_generation = 0
  /\ rounds = [c \in Participants |-> {}]
-----------------------------------------------------------------------------
enqueue ==
  /\ lock_next < MaxTicket
  /\ lock_next' = lock_next + 1
  /\ outstanding' = outstanding \cup {lock_next}
  /\ UNCHANGED lock_owner

(* Both acquire and release insist on the ticket whose turn it is. *)
AnyTurn(ticket) == TRUE

InTurn(ticket) == ticket = lock_owner

release_ticket(ticket) ==
  /\ InTurn(ticket)
  /\ ticket \in outstanding
  /\ outstanding' = outstanding \ {ticket}
  /\ lock_owner' = lock_owner + 1
  /\ UNCHANGED lock_next

initialize(v) ==
  /\ once_value = Unset
  /\ once_value' = v

push(producer) ==
  /\ Len(queue) # Capacity
  /\ pushes[producer] < MaxPushes
  /\ queue' = Append(queue, producer)
  /\ pushes' = [pushes EXCEPT ![producer] = @ + 1]
  /\ UNCHANGED pops

pop ==
  /\ queue # << >>
  /\ queue' = Tail(queue)
  /\ pops' = pops + 1
  /\ UNCHANGED pushes

AnyRound(g) == TRUE

ThisRound(g) == g = barrier_generation

arrive(c, g) ==
  /\ ThisRound(g)
  /\ c \notin arrived
  /\ arrived' = arrived \cup {c}
  /\ rounds' = [rounds EXCEPT ![c] = @ \cup {g}]
  /\ UNCHANGED barrier_generation

AllArrived == Cardinality(arrived) = Cardinality(Participants)

advance_barrier ==
  /\ AllArrived
  /\ barrier_generation < MaxBarrierGen
  /\ barrier_generation' = barrier_generation + 1
  /\ arrived' = {}
  /\ UNCHANGED rounds

LockNext == enqueue \/ \E t \in 0..MaxTicket : release_ticket(t)

OnceNext == \E v \in OnceValues : initialize(v)

QueueNext == pop \/ \E c \in SyncCpus : push(c)

BarrierNext ==
  \/ \E c \in Participants, g \in 0..MaxBarrierGen : arrive(c, g)
  \/ advance_barrier

SyncNext ==
  \/ LockNext /\ UNCHANGED <<once_value, queueVars, barrierVars>>
  \/ OnceNext /\ UNCHANGED <<lockVars, queueVars, barrierVars>>
  \/ QueueNext /\ UNCHANGED <<lockVars, once_value, barrierVars>>
  \/ BarrierNext /\ UNCHANGED <<lockVars, once_value, queueVars>>

SyncSpec == SyncInit /\ [][SyncNext]_syncVars
-----------------------------------------------------------------------------
(* No ticket, message or arrival is lost or counted twice.  The tickets    *)
(* still out are exactly those from the owner on, so the lock can always   *)
(* move on; what was pushed was popped or is still in the queue, which is  *)
(* accounting_holds; and the participants of a barrier stay in lockstep:   *)
(* each was accepted for every round that is over, for the one that is on  *)
(* if it has arrived, and for no other, although it may present any old or *)
(* future generation at any time.                                          *)
NothingLost ==
  /\ outstanding = lock_owner..(lock_next - 1)
  /\ MapThenSumSet(LAMBDA c : pushes[c], SyncCpus) = pops + Len(queue)
  /\ \A c \in Participants :
       rounds[c] = 0..(IF c \in arrived THEN barrier_generation ELSE barrier_generation - 1)
=============================================================================
