------------------------------- MODULE Scheduler -------------------------------
(***************************************************************************)
(* The work-stealing scheduler of kernel/src/scheduler.rs: one FIFO run    *)
(* queue and at most one current task per CPU; an idle CPU takes the head  *)
(* of its own queue or else the tail of the longest other queue.           *)
(*                                                                         *)
(* Every operation is one call on &mut Scheduler, hence atomic.  A call    *)
(* that fails before its first write is a stuttering step; the failures    *)
(* after a first write (a popped or taken task whose record then does not  *)
(* fit) are kept, as the ELSE branches below.                              *)
(*                                                                         *)
(* Two data abstractions.  A task's generation is only ever incremented    *)
(* and never compared, so all that is kept of it is whether it has reached *)
(* u64::MAX, which any yield may bring about.  The statistics              *)
(* completed_dispatches and steals, which nothing reads back, are left     *)
(* out, and so is the exit code.                                           *)
(***************************************************************************)
EXTENDS Naturals, Sequences, FiniteSets

CONSTANTS
  Cpus,    \* the online CPUs the scheduler is built with
  Tasks,   \* task identifiers
  None     \* no current task, no CPU

ASSUME SchedulerAssumption ==
  /\ Cpus \subseteq Nat /\ IsFiniteSet(Cpus)
  /\ None \notin Cpus
  /\ None \notin Tasks

Tags == {"Absent", "Runnable", "Running", "Blocked", "Exited"}

VARIABLES
  queues,    \* run queue of each CPU, head first
  state,     \* TaskState of each task; Absent before create_task
  cpu_of,    \* the CPU of a Running task
  exhausted, \* the task's generation is u64::MAX
  current,   \* the task each CPU runs
  overflowed \* the tasks whose yield reported GenerationOverflow (history)

vars == <<queues, state, cpu_of, exhausted, current, overflowed>>

TypeOK ==
  /\ queues \in [Cpus -> Seq(Tasks)]
  /\ state \in [Tasks -> Tags]
  /\ cpu_of \in [Tasks -> Cpus \cup {None}]
  /\ exhausted \in [Tasks -> BOOLEAN]
  /\ current \in [Cpus -> Tasks \cup {None}]
  /\ overflowed \subseteq Tasks

(* with_online_cpus *)
Init ==
  /\ queues = [c \in Cpus |-> << >>]
  /\ state = [t \in Tasks |-> "Absent"]
  /\ cpu_of = [t \in Tasks |-> None]
  /\ exhausted = [t \in Tasks |-> FALSE]
  /\ current = [c \in Cpus |-> None]
  /\ overflowed = {}
-----------------------------------------------------------------------------
RunningOn(t, c) == state[t] = "Running" /\ cpu_of[t] = c

Queued(c, t) == \E i \in DOMAIN queues[c] : queues[c][i] = t

PushFront(q, t) == <<t>> \o q

Push(q, t) == Append(q, t)

PopBack(q) == SubSeq(q, 1, Len(q) - 1)

(* The victim of a steal: of the other CPUs the one with the longest queue, *)
(* the lowest id among equals, if that queue is not empty.                  *)
LowestOther(c, v) ==
  /\ v # c
  /\ \A o \in Cpus \ {c} : v <= o
  /\ queues[v] # << >>

StealVictim(c, v) ==
  /\ v # c
  /\ \A o \in Cpus \ {c} :
       \/ Len(queues[o]) < Len(queues[v])
       \/ Len(queues[o]) = Len(queues[v]) /\ v <= o
  /\ queues[v] # << >>
-----------------------------------------------------------------------------
create_task(t, c) ==
  /\ state[t] = "Absent"
  /\ state' = [state EXCEPT ![t] = "Runnable"]
  /\ queues' = [queues EXCEPT ![c] = Push(@, t)]
  /\ UNCHANGED <<cpu_of, exhausted, current, overflowed>>

(* The second half of dispatch, for a task already popped. *)
Start(t, c) ==
  /\ IF state[t] = "Runnable"
       THEN /\ state' = [state EXCEPT ![t] = "Running"]
            /\ cpu_of' = [cpu_of EXCEPT ![t] = c]
            /\ current' = [current EXCEPT ![c] = t]
       ELSE UNCHANGED <<state, cpu_of, current>>
  /\ UNCHANGED <<exhausted, overflowed>>

dispatch_local(c) ==
  /\ current[c] = None
  /\ queues[c] # << >>
  /\ queues' = [queues EXCEPT ![c] = Tail(@)]
  /\ Start(Head(queues[c]), c)

dispatch_steal(c) ==
  /\ current[c] = None
  /\ queues[c] = << >>
  /\ \E v \in Cpus :
       /\ StealVictim(c, v)
       /\ queues' = [queues EXCEPT ![v] = PopBack(@)]
       /\ Start(queues[v][Len(queues[v])], c)

(* yield_current, block_current and exit_current first take the current    *)
(* task; the record is only touched if it says Running on this CPU.  A     *)
(* yield whose generation is exhausted fails there, with the task taken    *)
(* off its CPU and put nowhere.                                            *)
yield_current(c) ==
  LET t == current[c]
  IN /\ t # None
     /\ current' = [current EXCEPT ![c] = None]
     /\ IF RunningOn(t, c) /\ ~exhausted[t]
          THEN /\ state' = [state EXCEPT ![t] = "Runnable"]
               /\ cpu_of' = [cpu_of EXCEPT ![t] = None]
               /\ queues' = [queues EXCEPT ![c] = Push(@, t)]
               /\ \E max \in BOOLEAN : exhausted' = [exhausted EXCEPT ![t] = max]
               /\ UNCHANGED overflowed
          ELSE /\ overflowed' = overflowed \cup (IF RunningOn(t, c) THEN {t} ELSE {})
               /\ UNCHANGED <<queues, state, cpu_of, exhausted>>

StopCurrent(c, tag) ==
  LET t == current[c]
  IN /\ t # None
     /\ current' = [current EXCEPT ![c] = None]
     /\ IF RunningOn(t, c)
          THEN /\ state' = [state EXCEPT ![t] = tag]
               /\ cpu_of' = [cpu_of EXCEPT ![t] = None]
          ELSE UNCHANGED <<state, cpu_of>>
     /\ UNCHANGED <<queues, exhausted, overflowed>>

block_current(c) == StopCurrent(c, "Blocked")

exit_current(c) == StopCurrent(c, "Exited")

AwakeIfAnything(t) == state[t] # "Absent"

Wakeable(t) == state[t] = "Blocked"

wake_unqueued(t, c) ==
  /\ Wakeable(t)
  /\ state' = [state EXCEPT ![t] = "Runnable"]
  /\ UNCHANGED <<queues, cpu_of, exhausted, current, overflowed>>

wake(t, c) ==
  /\ Wakeable(t)
  /\ ~Queued(c, t)
  /\ state' = [state EXCEPT ![t] = "Runnable"]
  /\ queues' = [queues EXCEPT ![c] = Push(@, t)]
  /\ UNCHANGED <<cpu_of, exhausted, current, overflowed>>

dispatch(c) == dispatch_local(c) \/ dispatch_steal(c)

Next ==
  \E c \in Cpus :
    \/ \E t \in Tasks : create_task(t, c) \/ wake(t, c)
    \/ dispatch(c)
    \/ yield_current(c)
    \/ block_current(c)
    \/ exit_current(c)

Spec == Init /\ [][Next]_vars

(* The library is passive: what it promises, it promises to a caller that  *)
(* keeps dispatching on every idle CPU and that ends every turn, by a      *)
(* yield (the timer), a block or an exit.                                  *)
EndTurn(c) == yield_current(c) \/ block_current(c) \/ exit_current(c)

FairSpec == Spec /\ \A c \in Cpus : WF_vars(dispatch(c)) /\ WF_vars(EndTurn(c))
-----------------------------------------------------------------------------
(* Scheduler::invariant_holds, first half: a queue entry is Runnable and   *)
(* occurs once in all the queues, and a current task is Running here.      *)
QueuesAgree ==
  /\ \A c \in Cpus : \A i \in DOMAIN queues[c] : state[queues[c][i]] = "Runnable"
  /\ \A c, d \in Cpus : \A i \in DOMAIN queues[c], j \in DOMAIN queues[d] :
       queues[c][i] = queues[d][j] => c = d /\ i = j
  /\ \A c \in Cpus : current[c] # None => RunningOn(current[c], c)

Seen(t) == \E c \in Cpus : Queued(c, t) \/ current[c] = t

(* Scheduler::invariant_holds, whole: besides, every task that is neither  *)
(* Blocked nor Exited is in a queue or on a CPU.  A yield that reports     *)
(* GenerationOverflow violates it.                                         *)
InvariantHolds ==
  /\ QueuesAgree
  /\ \A t \in Tasks : state[t] \in {"Runnable", "Running"} => Seen(t)

(* No task is lost in any other way.  The tasks that have to be in a queue *)
(* or on a CPU and are not are exactly those whose yield told the caller   *)
(* so, and each of them says Running for good: nothing wakes, queues or    *)
(* runs it again.                                                          *)
LostOnlyByOverflow ==
  \A t \in Tasks :
    /\ state[t] \in {"Runnable", "Running"} => (Seen(t) <=> t \notin overflowed)
    /\ t \in overflowed => state[t] = "Running"

(* Work conservation: a CPU whose dispatch returns None has no task to run *)
(* anywhere.  This rests on steal choosing the longest queue: any other    *)
(* fixed choice of victim leaves an idle CPU beside a waiting task.        *)
WorkConserving ==
  \A c \in Cpus :
    (\E t \in Tasks : state[t] = "Runnable") =>
      queues[c] # << >> \/ \E v \in Cpus : StealVictim(c, v)

(* No starvation: a runnable task runs, although thieves take tasks from   *)
(* the tail of its queue and yielding tasks keep joining it.               *)
RunnableRuns == \A t \in Tasks : state[t] = "Runnable" ~> state[t] = "Running"
=============================================================================
