----------------------------- MODULE PostFirmware -----------------------------
(***************************************************************************)
(* The multiprocessor run of runtime/src/post_firmware.rs after the image  *)
(* has left the firmware: the boot processor (run, from the AP startup to  *)
(* the timer stage) and the application processors                         *)
(* (thermite_ap_rust_entry), which share the POST_* atomics.               *)
(*                                                                         *)
(* Every access to a POST_* atomic that another CPU can see the effect of  *)
(* is one step; m holds them, with the masks as sets of CPUs.  Steps are   *)
(* merged only where no other CPU can look in between: counters that are   *)
(* only read once every CPU is done with them (TASK_SUM, TASK_WORKERS,     *)
(* MAX_ACTIVE) change together with the step before them, and the stores   *)
(* that set up phase 1 are one step, since every AP still spins on PHASE.  *)
(*                                                                         *)
(* The hardware is external: an IPI is a bit in pending, an armed deadline *)
(* timer may fire once or never, and a TLB may load the page table entry   *)
(* ahead of use.  A bounded wait (wait_for_mask, wait_for_count, wait_icr)  *)
(* may give up at any time if Timeouts holds.  POST_IPI_EPOCH and the      *)
(* fallback counter, which nothing decides on, are left out.               *)
(***************************************************************************)
EXTENDS Naturals, FiniteSets

CONSTANTS
  Bsp,         \* the boot processor
  Aps,         \* the application processors in apic_ids
  POST_TASKS,  \* the number of tasks
  Timeouts,    \* whether a bounded wait may give up
  Speculates,  \* the CPUs whose TLB may load an entry ahead of use
  MayFail      \* the APs whose CPU-local or LAPIC setup may fail

ASSUME PostFirmwareAssumption ==
  /\ IsFiniteSet(Aps) /\ Bsp \notin Aps /\ "unset" \notin Aps \cup {Bsp}
  /\ POST_TASKS \in Nat /\ Cardinality(Aps) < POST_TASKS
  /\ Timeouts \in BOOLEAN
  /\ Speculates \subseteq Aps \cup {Bsp}
  /\ MayFail \subseteq Aps

Cpus == Aps \cup {Bsp}
Workers == Cardinality(Cpus)

VARIABLES
  pc,       \* the next step of each CPU
  reg,      \* the local seed_task, then ticket, of each CPU
  todo,     \* the APs a loop of the BSP has still to visit
  m,        \* the POST_* atomics
  pte,      \* the page the shootdown mapping points to
  tlb,      \* the page each CPU has cached for it, or "none"
  pending,  \* the interrupts each LAPIC holds
  armed,    \* the CPUs whose deadline timer may still fire
  handler   \* whether a CPU is inside thermite_ipi_handler, before its ack

vars == <<pc, reg, todo, m, pte, tlb, pending, armed, handler>>
local == <<reg, todo>>
hardware == <<pte, tlb, pending, armed, handler>>

Errors == {"ApStartup", "Ipi", "Scheduler", "Tlb", "Timer"}

Work == {"message", "message_mask", "seed", "active", "open", "gate", "take", "leave",
         "ticket", "spin", "enter", "unlock", "once", "probe_pre", "mask_pre"}

(* The BSP has stored its own bit and is about to start the APs. *)
Init ==
  /\ pc = [c \in Cpus |-> IF c = Bsp THEN "start" ELSE "off"]
  /\ reg = [c \in Cpus |-> 0]
  /\ todo = Aps
  /\ m = [ONLINE |-> {Bsp}, CPU_LOCAL |-> {Bsp}, READY |-> 0, PHASE |-> 0,
          PAYLOAD |-> FALSE, MESSAGE_READY |-> FALSE, MESSAGE |-> {}, MESSAGE_STALE |-> 0,
          TASK_READY |-> 0, GATE |-> FALSE, EXPECTED |-> 0, NEXT_TASK |-> 0,
          SUM |-> 0, WORKERS |-> {}, ACTIVE |-> 0, MAX_ACTIVE |-> 0, DONE |-> 0,
          LOCK_NEXT |-> 0, LOCK_OWNER |-> 0, LOCK_ENTRIES |-> 0, ONCE |-> "unset",
          PRE |-> {}, POST |-> {}, STALE |-> 0, ACK |-> {}, TIMER |-> {}]
  /\ pte = "A"
  /\ tlb = [c \in Cpus |-> "none"]
  /\ pending = [c \in Cpus |-> {}]
  /\ armed = {}
  /\ handler = [c \in Cpus |-> FALSE]
-----------------------------------------------------------------------------
(* CPU c executes its step from; the next one is to. *)
Step(c, from, to) ==
  /\ ~handler[c]
  /\ pc[c] = from
  /\ pc' = [pc EXCEPT ![c] = to]

(* Interrupts are enabled from sti on. *)
Interruptible(c) ==
  pc[c] \notin {"off", "cpu_local", "halted", "start", "await_online"} \cup Errors

MaxOf(a, b) == IF a > b THEN a ELSE b
-----------------------------------------------------------------------------
(* message_probe *)
message(c) ==
  /\ m.MESSAGE_READY
  /\ Step(c, "message", "message_mask")
  /\ m' = IF m.PAYLOAD THEN m ELSE [m EXCEPT !.MESSAGE_STALE = @ + 1]
  /\ UNCHANGED <<local, hardware>>

message_mask(c) ==
  /\ Step(c, "message_mask", "seed")
  /\ m' = [m EXCEPT !.MESSAGE = @ \cup {c}]
  /\ UNCHANGED <<local, hardware>>

(* run_tasks.  A seed beyond the expected workers returns at once. *)
seed(c) ==
  LET s == m.TASK_READY
      late == s >= m.EXPECTED
  IN /\ Step(c, "seed", IF late THEN "ticket" ELSE "active")
     /\ reg' = [reg EXCEPT ![c] = s]
     /\ m' = IF late THEN [m EXCEPT !.TASK_READY = s + 1]
             ELSE [m EXCEPT !.TASK_READY = s + 1, !.SUM = @ + s, !.WORKERS = @ \cup {c}]
     /\ UNCHANGED <<todo, hardware>>

active(c) ==
  /\ Step(c, "active", "open")
  /\ m' = [m EXCEPT !.ACTIVE = @ + 1, !.MAX_ACTIVE = MaxOf(@, m.ACTIVE + 1)]
  /\ UNCHANGED <<local, hardware>>

FirstOpens(s) == s = m.EXPECTED

LastOpens(s) == s + 1 = m.EXPECTED

open(c) ==
  /\ Step(c, "open", "gate")
  /\ m' = IF LastOpens(reg[c]) THEN [m EXCEPT !.GATE = TRUE] ELSE m
  /\ UNCHANGED <<local, hardware>>

gate(c) ==
  /\ m.GATE
  /\ Step(c, "gate", "take")
  /\ UNCHANGED <<local, m, hardware>>

take(c) ==
  LET t == m.NEXT_TASK
      over == t >= POST_TASKS
  IN /\ Step(c, "take", IF over THEN "leave" ELSE "take")
     /\ m' = IF over THEN [m EXCEPT !.NEXT_TASK = t + 1]
             ELSE [m EXCEPT !.NEXT_TASK = t + 1, !.SUM = @ + t]
     /\ UNCHANGED <<local, hardware>>

leave(c) ==
  /\ Step(c, "leave", "ticket")
  /\ m' = [m EXCEPT !.ACTIVE = @ - 1]
  /\ UNCHANGED <<local, hardware>>

(* lock_once *)
ticket(c) ==
  /\ Step(c, "ticket", "spin")
  /\ reg' = [reg EXCEPT ![c] = m.LOCK_NEXT]
  /\ m' = [m EXCEPT !.LOCK_NEXT = @ + 1]
  /\ UNCHANGED <<todo, hardware>>

NotPassed(c) == m.LOCK_OWNER <= reg[c]

Served(c) == m.LOCK_OWNER = reg[c]

spin(c) ==
  /\ Served(c)
  /\ Step(c, "spin", "enter")
  /\ UNCHANGED <<local, m, hardware>>

enter(c) ==
  /\ Step(c, "enter", "unlock")
  /\ m' = [m EXCEPT !.LOCK_ENTRIES = @ + 1]
  /\ UNCHANGED <<local, hardware>>

unlock(c) ==
  /\ Step(c, "unlock", "once")
  /\ m' = [m EXCEPT !.LOCK_OWNER = reg[c] + 1]
  /\ UNCHANGED <<local, hardware>>

once(c) ==
  /\ Step(c, "once", "probe_pre")
  /\ m' = IF m.ONCE = "unset" THEN [m EXCEPT !.ONCE = c] ELSE m
  /\ UNCHANGED <<local, hardware>>

(* shootdown_probe: the load goes through the TLB, which it fills. *)
Observed(c) == IF tlb[c] = "none" THEN pte ELSE tlb[c]

Probe(c, from, to, expected) ==
  /\ Step(c, from, to)
  /\ tlb' = [tlb EXCEPT ![c] = Observed(c)]
  /\ m' = IF Observed(c) = expected THEN m ELSE [m EXCEPT !.STALE = @ + 1]
  /\ UNCHANGED <<local, pte, pending, armed, handler>>

probe_pre(c) == Probe(c, "probe_pre", "mask_pre", "A")

mask_pre(c) ==
  /\ Step(c, "mask_pre", IF c = Bsp THEN "await_done" ELSE "done")
  /\ m' = [m EXCEPT !.PRE = @ \cup {c}]
  /\ UNCHANGED <<local, hardware>>

probe_post(c) == Probe(c, "probe_post", "mask_post", "B")

mask_post(c) ==
  /\ Step(c, "mask_post", IF c = Bsp THEN "await_post" ELSE "arm")
  /\ m' = [m EXCEPT !.POST = @ \cup {c}]
  /\ UNCHANGED <<local, hardware>>

(* arm_timer: if the deadline has passed without the interrupt, the CPU    *)
(* sends it to itself; an AP ignores a failure of that.                    *)
AfterTimer(c) == IF c = Bsp THEN "poll" ELSE "idle"

arm(c) ==
  /\ Step(c, "arm", "deadline")
  /\ armed' = armed \cup {c}
  /\ UNCHANGED <<local, m, pte, tlb, pending, handler>>

deadline(c) ==
  /\ Step(c, "deadline", IF c \in m.TIMER THEN AfterTimer(c) ELSE "fallback")
  /\ todo' = IF c = Bsp THEN Aps ELSE todo
  /\ UNCHANGED <<reg, m, hardware>>

fallback(c) ==
  /\ Step(c, "fallback", AfterTimer(c))
  /\ pending' = [pending EXCEPT ![c] = @ \cup {"timer"}]
  /\ UNCHANGED <<local, m, pte, tlb, armed, handler>>

fallback_gives_up(a) ==
  /\ Timeouts
  /\ Step(a, "fallback", "idle")
  /\ UNCHANGED <<local, m, hardware>>
-----------------------------------------------------------------------------
(* thermite_ap_rust_entry.  A failed setup, before or after the bit in     *)
(* CPU_LOCAL_MASK is set, halts the AP for good.                           *)
cpu_local(a) ==
  /\ Step(a, "cpu_local", "online")
  /\ m' = [m EXCEPT !.CPU_LOCAL = @ \cup {a}]
  /\ UNCHANGED <<local, hardware>>

setup_fails(a) ==
  /\ a \in MayFail
  /\ Step(a, "cpu_local", "halted")
  /\ m' \in {m, [m EXCEPT !.CPU_LOCAL = @ \cup {a}]}
  /\ UNCHANGED <<local, hardware>>

online(a) ==
  /\ Step(a, "online", "ready")
  /\ m' = [m EXCEPT !.ONLINE = @ \cup {a}]
  /\ UNCHANGED <<local, hardware>>

ready(a) ==
  /\ Step(a, "ready", "phase_1")
  /\ m' = [m EXCEPT !.READY = @ + 1]
  /\ UNCHANGED <<local, hardware>>

phase_1(a) ==
  /\ m.PHASE >= 1
  /\ Step(a, "phase_1", "message")
  /\ UNCHANGED <<local, m, hardware>>

done(a) ==
  /\ Step(a, "done", "phase_2")
  /\ m' = [m EXCEPT !.DONE = @ + 1]
  /\ UNCHANGED <<local, hardware>>

phase_2(a) ==
  /\ m.PHASE >= 2
  /\ Step(a, "phase_2", "probe_post")
  /\ UNCHANGED <<local, m, hardware>>
-----------------------------------------------------------------------------
(* run, on the BSP.  A loop over the APs visits them one at a time and is  *)
(* left when none is to do.                                                *)
start_ap(a) ==
  /\ pc[Bsp] = "start"
  /\ a \in todo
  /\ todo' = todo \ {a}
  /\ pc' = [pc EXCEPT ![a] = "cpu_local"]
  /\ UNCHANGED <<reg, m, hardware>>

LoopDone(from, to) ==
  /\ todo = {}
  /\ Step(Bsp, from, to)
  /\ UNCHANGED <<local, m, hardware>>

await_online ==
  /\ m.ONLINE = Cpus /\ m.READY >= Cardinality(Aps) /\ m.CPU_LOCAL = Cpus
  /\ Step(Bsp, "await_online", "clear_ack")
  /\ UNCHANGED <<local, m, hardware>>

(* Both rounds of IPIs clear the mask, send, and wait for every bit. *)
ClearAck(from, to) ==
  /\ Step(Bsp, from, to)
  /\ m' = [m EXCEPT !.ACK = {}]
  /\ todo' = Aps
  /\ UNCHANGED <<reg, hardware>>

Send(a, from, vector) ==
  /\ a \in todo
  /\ todo' = todo \ {a}
  /\ Step(Bsp, from, from)
  /\ pending' = [pending EXCEPT ![a] = @ \cup {vector}]
  /\ UNCHANGED <<reg, m, pte, tlb, armed, handler>>

AwaitAck(from, to) ==
  /\ Aps \subseteq m.ACK
  /\ Step(Bsp, from, to)
  /\ UNCHANGED <<local, m, hardware>>

FirstTask == 0

FirstShared == Workers

setup ==
  /\ Step(Bsp, "setup", "message_ready")
  /\ m' = [m EXCEPT !.NEXT_TASK = FirstShared, !.TASK_READY = 0, !.GATE = FALSE,
                    !.EXPECTED = Workers, !.SUM = 0, !.WORKERS = {}, !.DONE = 0,
                    !.ACTIVE = 0, !.MAX_ACTIVE = 0, !.READY = 0, !.PAYLOAD = TRUE]
  /\ UNCHANGED <<local, hardware>>

message_ready ==
  /\ Step(Bsp, "message_ready", "release")
  /\ m' = [m EXCEPT !.MESSAGE_READY = TRUE]
  /\ UNCHANGED <<local, hardware>>

release ==
  /\ Step(Bsp, "release", "message")
  /\ m' = [m EXCEPT !.PHASE = 1]
  /\ UNCHANGED <<local, hardware>>

await_done ==
  /\ m.DONE >= Cardinality(Aps) /\ m.PRE = Cpus /\ m.MESSAGE = Cpus
  /\ Step(Bsp, "await_done", "check")
  /\ UNCHANGED <<local, m, hardware>>

(* What the stage check of run looks at, once every CPU is done. *)
MessagesFresh == m.MESSAGE_STALE = 0

SumIsExact == m.SUM = (POST_TASKS * (POST_TASKS - 1)) \div 2

EnoughWorkers ==
  LET wanted == IF Cardinality(Aps) >= 2 THEN 2 ELSE Cardinality(Aps)
  IN Cardinality(m.WORKERS) >= 1 + wanted

LockAndOnce == m.LOCK_ENTRIES = Workers /\ m.ONCE # "unset"

Overlapped == Cardinality(Aps) >= 2 => m.MAX_ACTIVE >= 2

check ==
  /\ Step(Bsp, "check",
          IF ~MessagesFresh THEN "Scheduler"
          ELSE IF m.STALE # 0 THEN "Tlb"
          ELSE IF SumIsExact /\ EnoughWorkers /\ LockAndOnce /\ Overlapped THEN "remap"
          ELSE "Scheduler")
  /\ m' = IF MessagesFresh THEN [m EXCEPT !.STALE = 0] ELSE m
  /\ UNCHANGED <<local, hardware>>

(* The page table entry changes, then the BSP's own TLB entry goes. *)
remap ==
  /\ Step(Bsp, "remap", "invlpg")
  /\ pte' = "B"
  /\ UNCHANGED <<local, m, tlb, pending, armed, handler>>

invlpg ==
  /\ Step(Bsp, "invlpg", "reset_ack")
  /\ tlb' = [tlb EXCEPT ![Bsp] = "none"]
  /\ UNCHANGED <<local, m, pte, pending, armed, handler>>

enter_phase_2 ==
  /\ Step(Bsp, "phase_2", "probe_post")
  /\ m' = [m EXCEPT !.PHASE = 2]
  /\ UNCHANGED <<local, hardware>>

await_post ==
  /\ m.POST = Cpus
  /\ Step(Bsp, "await_post", IF m.STALE = 0 THEN "timer_clear" ELSE "Tlb")
  /\ UNCHANGED <<local, m, hardware>>

ClearTimer(from, to) ==
  /\ Step(Bsp, from, to)
  /\ m' = [m EXCEPT !.TIMER = {}]
  /\ UNCHANGED <<local, hardware>>

(* int 0xf2 runs the timer handler at once, so the check after it passes. *)
int_timer ==
  /\ Step(Bsp, "int_timer", "timer_reset")
  /\ m' = [m EXCEPT !.TIMER = @ \cup {Bsp}]
  /\ UNCHANGED <<local, hardware>>

NoBroker(a) == FALSE

Broker(a) == a \notin m.TIMER

poll(a) ==
  /\ ~Broker(a)
  /\ a \in todo
  /\ todo' = todo \ {a}
  /\ Step(Bsp, "poll", "poll")
  /\ UNCHANGED <<reg, m, hardware>>

await_timer ==
  /\ m.TIMER = Cpus
  /\ Step(Bsp, "await_timer", "Ok")
  /\ UNCHANGED <<local, m, hardware>>

(* The error run returns when the bounded wait at a step gives up. *)
GivesUp ==
  [start |-> "Ipi", await_online |-> "ApStartup", send_ipi |-> "Ipi", await_ipi |-> "Ipi",
   await_done |-> "Scheduler", send_shootdown |-> "Ipi", await_shootdown |-> "Tlb",
   await_post |-> "Tlb", fallback |-> "Ipi", poll |-> "Ipi", await_timer |-> "Timer"]

bsp_gives_up ==
  /\ Timeouts
  /\ pc[Bsp] \in DOMAIN GivesUp
  /\ Step(Bsp, pc[Bsp], GivesUp[pc[Bsp]])
  /\ UNCHANGED <<local, m, hardware>>
-----------------------------------------------------------------------------
(* thermite_ipi_handler: the invalidation and the acknowledgement are two  *)
(* instructions of the handler, which nothing interrupts.                  *)
ipi_handler_keeps_tlb(c) ==
  /\ Interruptible(c) /\ ~handler[c]
  /\ "ipi" \in pending[c]
  /\ pending' = [pending EXCEPT ![c] = @ \ {"ipi"}]
  /\ handler' = [handler EXCEPT ![c] = TRUE]
  /\ UNCHANGED <<pc, local, m, pte, tlb, armed>>

ipi_handler(c) ==
  /\ Interruptible(c) /\ ~handler[c]
  /\ "ipi" \in pending[c]
  /\ pending' = [pending EXCEPT ![c] = @ \ {"ipi"}]
  /\ tlb' = [tlb EXCEPT ![c] = "none"]
  /\ handler' = [handler EXCEPT ![c] = TRUE]
  /\ UNCHANGED <<pc, local, m, pte, armed>>

ipi_ack(c) ==
  /\ handler[c]
  /\ handler' = [handler EXCEPT ![c] = FALSE]
  /\ m' = [m EXCEPT !.ACK = @ \cup {c}]
  /\ UNCHANGED <<pc, local, pte, tlb, pending, armed>>

timer_handler(c) ==
  /\ Interruptible(c) /\ ~handler[c]
  /\ "timer" \in pending[c]
  /\ pending' = [pending EXCEPT ![c] = @ \ {"timer"}]
  /\ m' = [m EXCEPT !.TIMER = @ \cup {c}]
  /\ UNCHANGED <<pc, local, pte, tlb, armed, handler>>

(* The hardware: a deadline expires, a TLB loads the entry ahead of use. *)
timer_fires(c) ==
  /\ c \in armed
  /\ armed' = armed \ {c}
  /\ pending' = [pending EXCEPT ![c] = @ \cup {"timer"}]
  /\ UNCHANGED <<pc, local, m, pte, tlb, handler>>

tlb_loads(c) ==
  /\ c \in Speculates
  /\ pc[c] # "off" /\ tlb[c] = "none"
  /\ tlb' = [tlb EXCEPT ![c] = pte]
  /\ UNCHANGED <<pc, local, m, pte, pending, armed, handler>>
-----------------------------------------------------------------------------
worker(c) ==
  \/ message(c) \/ message_mask(c)
  \/ seed(c) \/ active(c) \/ open(c) \/ gate(c) \/ take(c) \/ leave(c)
  \/ ticket(c) \/ spin(c) \/ enter(c) \/ unlock(c) \/ once(c)
  \/ probe_pre(c) \/ mask_pre(c) \/ probe_post(c) \/ mask_post(c)
  \/ arm(c) \/ deadline(c) \/ fallback(c)

thermite_ap_rust_entry(a) ==
  \/ cpu_local(a) \/ setup_fails(a) \/ online(a) \/ ready(a)
  \/ phase_1(a) \/ done(a) \/ phase_2(a) \/ fallback_gives_up(a)
  \/ worker(a)

run ==
  \/ \E a \in Aps : start_ap(a)
  \/ LoopDone("start", "await_online") \/ await_online
  \/ ClearAck("clear_ack", "send_ipi")
  \/ \E a \in Aps : Send(a, "send_ipi", "ipi")
  \/ LoopDone("send_ipi", "await_ipi") \/ AwaitAck("await_ipi", "setup")
  \/ setup \/ message_ready \/ release
  \/ worker(Bsp)
  \/ await_done \/ check
  \/ remap \/ invlpg \/ ClearAck("reset_ack", "send_shootdown")
  \/ \E a \in Aps : Send(a, "send_shootdown", "ipi")
  \/ LoopDone("send_shootdown", "await_shootdown") \/ AwaitAck("await_shootdown", "phase_2")
  \/ enter_phase_2 \/ await_post
  \/ ClearTimer("timer_clear", "int_timer") \/ int_timer \/ ClearTimer("timer_reset", "arm")
  \/ \E a \in Aps : poll(a) \/ (Broker(a) /\ Send(a, "poll", "timer"))
  \/ LoopDone("poll", "await_timer") \/ await_timer
  \/ bsp_gives_up

interrupt(c) == ipi_handler(c) \/ ipi_ack(c) \/ timer_handler(c)

Next ==
  \/ run
  \/ \E a \in Aps : thermite_ap_rust_entry(a)
  \/ \E c \in Cpus : interrupt(c) \/ timer_fires(c) \/ tlb_loads(c)

Spec == Init /\ [][Next]_vars

(* Every started CPU keeps executing and takes the interrupts its LAPIC    *)
(* holds; the deadline timer need not fire and a TLB need not load.  A     *)
(* wait of run is sure to reach its limit only when an AP has halted: what *)
(* the other waits are for must come without it.                           *)
Fairness ==
  /\ WF_vars(run /\ ~bsp_gives_up)
  /\ WF_vars(bsp_gives_up /\ \E a \in Aps : pc[a] = "halted")
  /\ \A a \in Aps : WF_vars(thermite_ap_rust_entry(a))
  /\ \A c \in Cpus : WF_vars(interrupt(c))

FairSpec == Spec /\ Fairness
-----------------------------------------------------------------------------
(* The ticket lock of lock_once admits one CPU at a time. *)
MutualExclusion ==
  \A c, d \in Cpus :
    pc[c] \in {"enter", "unlock"} /\ pc[d] \in {"enter", "unlock"} => c = d

(* The shootdown works: once the BSP has seen every acknowledgement of the *)
(* second round, no TLB holds the page that the mapping pointed to before, *)
(* although a TLB may load the entry at any time.                          *)
OldTranslationGone == m.PHASE = 2 => \A c \in Cpus : tlb[c] # "A"

(* The counters are exact when run looks at them, whatever the APs'        *)
(* interleaving: each task was added once, each CPU entered the lock once, *)
(* every CPU took part and none read the message before it was published.  *)
(* Nor does a probe of the remapped page ever see the wrong page: those    *)
(* before the remap see page A because run waits for all of them first,    *)
(* those after it page B.                                                  *)
CountersExact ==
  /\ pc[Bsp] = "check" =>
       MessagesFresh /\ SumIsExact /\ LockAndOnce /\ m.WORKERS = Cpus /\ m.ACTIVE = 0
  /\ m.STALE = 0

(* An AP's timer interrupt that the BSP's clearing of TIMER_MASK wipes out *)
(* is delivered again: when the BSP waits for the mask, each bit is set or *)
(* an interrupt is on its way that will set it.                            *)
NoTimerLost ==
  pc[Bsp] = "await_timer" => \A c \in Cpus : c \in m.TIMER \/ "timer" \in pending[c]

(* The comment in run_tasks: every online CPU holds an active scheduler    *)
(* interval until the complete set has entered.  The gate is opened by the *)
(* CPU with the last seed, which need not be the last one to become active.*)
GateWaitsForAll == m.GATE => \A c \in Cpus : pc[c] \notin {"message", "message_mask", "seed", "active"}

(* run always returns: none of the unbounded spins (message, gate, ticket) *)
(* waits for a CPU that waits for it, and no bounded wait needs its limit  *)
(* unless an AP has halted, so no acknowledgement, DONE or timer bit is    *)
(* lost.  By CountersExact what it then returns is Ok, the report that the *)
(* workers did not overlap, or the error of a wait that gave up.           *)
RunReturns == <>(pc[Bsp] \in Errors \cup {"Ok"})
=============================================================================
