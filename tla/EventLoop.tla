------------------------------- MODULE EventLoop -------------------------------
(***************************************************************************)
(* The event/action loop of the kernel: EventSequencer (kernel/src/event.rs)*)
(* numbers the events that come in and the actions that go out, and        *)
(* KernelPolicy (kernel/src/policy.rs) steps one event at a time.  Between *)
(* the two lies the caller's inbox.                                        *)
(*                                                                         *)
(* An event kind stands for all its payloads; a payload that ingress       *)
(* refuses fails without a write.  What is kept of payloads is ownership:  *)
(* an Irq event needs the vector's owner, a DmaComplete an allowed slot.   *)
(***************************************************************************)
EXTENDS Integers, Sequences

CONSTANTS
  CpuIds,      \* the CPUs of the topology, all of them online
  Kinds,       \* the event kinds that occur
  Actions,     \* the actions that callers issue
  Vectors,     \* interrupt vectors from 32 on
  NoCpu,       \* the owner of an unassigned vector
  MaxEvent,    \* the last event id (u64::MAX - 1 in the code)
  MaxAction,   \* the last action id (u64::MAX - 1 in the code)
  MaxCount     \* the last tick and task count (u64::MAX and u32::MAX)

ASSUME EventLoopAssumption ==
  /\ NoCpu \notin CpuIds
  /\ MaxEvent \in Nat /\ MaxAction \in Nat /\ MaxCount \in Nat

VARIABLES
  next_event, next_action,  \* EventSequencer
  irq_owners, dma_allowed,  \* EventSequencer: vector owners; the one DMA slot
  issued,                   \* the IssuedActions callers hold
  inbox,                    \* the events not yet stepped
  fifo,                     \* whether the caller steps them in order, and once
  shards,                   \* KernelPolicy: CPU -> CpuShard, for added CPUs
  last_global_event,        \* KernelPolicy
  acted                     \* how often the event of each id was accepted

loopVars == <<next_event, next_action, irq_owners, dma_allowed, issued, inbox, fifo,
              shards, last_global_event, acted>>
sequencer == <<next_event, next_action, irq_owners, dma_allowed, issued>>
policy == <<fifo, shards, last_global_event, acted>>

NewShard == [last_event |-> 0, ticks |-> 0, runnable_tasks |-> 0, terminal |-> FALSE]

LoopInit ==
  /\ next_event = 1 /\ next_action = 1
  /\ irq_owners = [v \in Vectors |-> NoCpu] /\ dma_allowed = FALSE
  /\ issued = {} /\ inbox = << >> /\ fifo \in BOOLEAN
  /\ shards = [c \in {} |-> NewShard] /\ last_global_event = 0
  /\ acted = [i \in 1..MaxEvent |-> 0]
-----------------------------------------------------------------------------
(* assign_irq: the owner is replaced even when the call then fails because *)
(* there already was one.                                                  *)
assign_irq(v, c) ==
  /\ irq_owners' = [irq_owners EXCEPT ![v] = c]
  /\ UNCHANGED <<next_event, next_action, dma_allowed, issued, inbox, policy>>

allow_dma_slot ==
  /\ dma_allowed' = TRUE
  /\ UNCHANGED <<next_event, next_action, irq_owners, issued, inbox, policy>>

issue(a) ==
  /\ next_action <= MaxAction
  /\ next_action' = next_action + 1
  /\ issued' = issued \cup {[id |-> next_action, action |-> a]}
  /\ UNCHANGED <<next_event, irq_owners, dma_allowed, inbox, policy>>

Admissible(c, kind) ==
  /\ kind = "Irq" => \E v \in Vectors : irq_owners[v] = c
  /\ kind = "DmaComplete" => dma_allowed

(* ingress: the id is spent before the correlation is looked at, so a bad  *)
(* correlation leaves a gap in the ids.  0 is no correlation.              *)
ReusesId(bad) == IF bad THEN next_event + 1 ELSE next_event

SpendsId(bad) == next_event + 1

Ingress(c, kind, correlation) ==
  LET bad == correlation # 0 /\ correlation >= next_action
  IN /\ Admissible(c, kind)
     /\ next_event <= MaxEvent
     /\ next_event' = SpendsId(bad)
     /\ inbox' = IF bad THEN inbox
                 ELSE Append(inbox, [cpu |-> c, id |-> next_event,
                                     correlation |-> correlation, kind |-> kind])
     /\ UNCHANGED <<next_action, irq_owners, dma_allowed, issued, policy>>

ingress(c, kind, correlation) == Ingress(c, kind, correlation)

completion_kind(a, ok) ==
  IF ~ok THEN "DeviceFault"
  ELSE CASE a = "StartCpu" -> "CpuOnline"
         [] a = "SendIpi" -> "Ipi"
         [] a = "SubmitDma" -> "DmaComplete"
         [] a \in {"ArmTimer", "CancelTimer"} -> "Timer"
         [] a \in {"Reboot", "PowerOff", "Halt"} -> "ShutdownRequest"
         [] OTHER -> "ActionComplete"

(* complete does not record that an action has been completed. *)
complete(i, c, ok) ==
  /\ completion_kind(i.action, ok) \in Kinds
  /\ Ingress(c, completion_kind(i.action, ok), i.id)
-----------------------------------------------------------------------------
(* add_cpu: the shard is replaced even when the call then fails because    *)
(* there already was one.                                                  *)
add_cpu(c) ==
  /\ shards' = [d \in DOMAIN shards \cup {c} |-> IF d = c THEN NewShard ELSE shards[d]]
  /\ UNCHANGED <<last_global_event, acted, inbox, fifo, sequencer>>

CompletionEvent(kind) == kind \in {"CpuOnline", "CpuStartFailed", "DmaComplete"}

NotLast(e) == e.id # last_global_event

Newer(e) == e.id > last_global_event

LiveShard(e) == e.cpu \in DOMAIN shards /\ ~shards[e.cpu].terminal

Accepts(e) ==
  /\ Newer(e)
  /\ LiveShard(e)
  /\ CompletionEvent(e.kind) <=> e.correlation # 0

(* The effect of an accepted event on the shard of its CPU.  A count that  *)
(* would overflow stays, though the event counts as seen.                  *)
Bump(n) == IF n < MaxCount THEN n + 1 ELSE n

Stepped(s, e) ==
  [last_event |-> e.id,
   ticks |-> IF e.kind = "Timer" THEN Bump(s.ticks) ELSE s.ticks,
   runnable_tasks |-> IF e.kind \in {"CpuOnline", "DmaComplete"}
                        THEN Bump(s.runnable_tasks) ELSE s.runnable_tasks,
   terminal |-> s.terminal \/ e.kind = "ShutdownRequest"]

RemoveAt(s, i) == [k \in 1..(Len(s) - 1) |-> IF k < i THEN s[k] ELSE s[k + 1]]

(* step on the i-th event of the inbox.  An event that may be delivered    *)
(* again stays there.                                                      *)
step(i) ==
  LET e == inbox[i]
  IN /\ fifo => i = 1
     /\ inbox' \in {RemoveAt(inbox, i)} \cup (IF fifo THEN {} ELSE {inbox})
     /\ IF Accepts(e)
          THEN /\ last_global_event' = e.id
               /\ shards' = [shards EXCEPT ![e.cpu] = Stepped(@, e)]
               /\ acted' = [acted EXCEPT ![e.id] = @ + 1]
          ELSE UNCHANGED policy
     /\ UNCHANGED <<fifo, sequencer>>

LoopNext ==
  \/ \E v \in Vectors, c \in CpuIds : assign_irq(v, c)
  \/ allow_dma_slot
  \/ \E a \in Actions : issue(a)
  \/ \E c \in CpuIds, k \in Kinds, r \in 0..MaxAction : ingress(c, k, r)
  \/ \E i \in issued, c \in CpuIds, ok \in BOOLEAN : complete(i, c, ok)
  \/ \E c \in CpuIds : add_cpu(c)
  \/ \E i \in DOMAIN inbox : step(i)

LoopSpec == LoopInit /\ [][LoopNext]_loopVars
-----------------------------------------------------------------------------
(* An event acts at most once, however often and in whatever order the     *)
(* caller presents it, over all CPUs, and even when a shard is added again *)
(* and forgets what it had seen: the global order, not the shard, decides. *)
ActsAtMostOnce == \A i \in 1..MaxEvent : acted[i] <= 1

(* A caller that delivers in the order of ingress loses nothing to the     *)
(* staleness check, whichever CPUs the events belong to.                   *)
InOrderNeverStale == fifo => \A i \in DOMAIN inbox : inbox[i].id > last_global_event
=============================================================================
