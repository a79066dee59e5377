------------------------------- MODULE UefiBoot -------------------------------
(***************************************************************************)
(* The firmware phase of the image, platform/.../runtime/src/main.rs:      *)
(* efi_main on the bootstrap processor (BSP) and the two callbacks it has  *)
(* the UEFI MP Services run on every application processor (AP), ap_entry  *)
(* and ipi_entry.  The dispatch is blocking: it returns when every AP has  *)
(* left its callback, or after its time limit, when the firmware stops the *)
(* APs that have not.                                                      *)
(*                                                                         *)
(* A processor is named by its MP Services number, 0..discovered-1;        *)
(* numbers of disabled processors are not reused, so the enabled ones need *)
(* not be the first.  The atomics of main.rs are the fields of mem.  What  *)
(* only efi_main reads, after a dispatch, is updated together with the     *)
(* step next to it.                                                        *)
(***************************************************************************)
EXTENDS Integers, Sequences, FiniteSetsExt

CONSTANTS
  MAX_CPUS,      \* processors the image can name, and the bits of a mask
  SCHED_TASKS,   \* tasks of the scheduler probe
  WORK_PER_CPU,  \* units of work every processor does
  ManyCpus,      \* from how many processors on two must have worked (4)
  Topologies     \* the machines: what the MP Services of each report

ASSUME BootAssumption ==
  /\ MAX_CPUS \in Nat \ {0} /\ WORK_PER_CPU \in Nat /\ ManyCpus \in Nat
  /\ SCHED_TASKS \in Nat /\ SCHED_TASKS >= MAX_CPUS
  /\ \A t \in Topologies :
       /\ t.discovered \in Nat /\ t.enabled \subseteq 0..(t.discovered - 1)
       /\ t.bsp \in t.enabled
       /\ t.apic \in [0..(t.discovered - 1) -> Nat]
       /\ t.mute \subseteq t.enabled \X {"ap_entry", "ipi_entry"}

VARIABLES
  topology,   \* the machine
  bsp_pc,     \* where efi_main is
  failed_at,  \* the stage efi_main reported as failed, or "none"
  ap_pc,      \* where each processor is in its callback, "off" outside one
  ap_local,   \* the locals of ap_entry: ticket, active and observed
  mem,        \* the shared atomics
  peak        \* the most processors ever counted active at once (history)

bootVars == <<topology, bsp_pc, failed_at, ap_pc, ap_local, mem, peak>>

enabled == Cardinality(topology.enabled)
aps == topology.enabled \ {topology.bsp}
expected_aps == enabled - 1

(* 1 << cpu on a u64: the shift count wraps in a release build. *)
Bit(cpu) == cpu % MAX_CPUS

Counters == {"WORK_TOTAL", "AP_COUNT", "ACTIVE", "MAX_ACTIVE", "DUPLICATE_CPUS", "STALE_READS",
             "BAD_CPU_IDS", "TIMER_FAILURES", "IPI_EPOCH", "SCHED_READY", "NEXT_TASK",
             "TASK_SUM", "LOCK_NEXT", "LOCK_OWNER", "LOCK_COUNTER", "ONCE_OWNER"}
Masks == {"CPU_MASK", "TASK_CPU_MASK", "IPI_ACK_MASK"}

BootInit ==
  /\ topology \in Topologies
  /\ bsp_pc = "system-table" /\ failed_at = "none"
  /\ ap_pc = [p \in topology.enabled |-> "off"]
  /\ ap_local = [p \in topology.enabled |-> [ticket |-> 0, active |-> 0, observed |-> 0]]
  /\ mem = [s \in Counters \cup Masks \cup {"READY"} |->
              IF s \in Masks THEN {} ELSE IF s = "READY" THEN FALSE ELSE 0]
  /\ peak = 0

MoreThan(m, name, n) == [m EXCEPT ![name] = @ + n]
-----------------------------------------------------------------------------
(* Both callbacks ask the firmware who they are first. *)
WhoAmI(p, entry) == <<p, entry>> \notin topology.mute

record_cpu(m, cpu) ==
  IF cpu >= MAX_CPUS THEN MoreThan(m, "BAD_CPU_IDS", 1)
  ELSE IF Bit(cpu) \in m.CPU_MASK THEN MoreThan(m, "DUPLICATE_CPUS", 1)
  ELSE [m EXCEPT !.CPU_MASK = @ \cup {Bit(cpu)}]

ApAt(p, from, to) ==
  /\ ap_pc[p] = from /\ ap_pc' = [ap_pc EXCEPT ![p] = to]
  /\ UNCHANGED <<topology, bsp_pc, failed_at>>

ap_enter(p) ==
  /\ ApAt(p, "ap_entry", IF WhoAmI(p, "ap_entry") THEN "arrive" ELSE "off")
  /\ mem' = IF WhoAmI(p, "ap_entry")
            THEN MoreThan(MoreThan(record_cpu(mem, p), "STALE_READS", IF mem.READY THEN 0 ELSE 1),
                          "AP_COUNT", 1)
            ELSE MoreThan(mem, "BAD_CPU_IDS", 1)
  /\ UNCHANGED <<ap_local, peak>>

(* The arrival number is also the number of the AP's seed task. *)
ap_arrive(p) ==
  LET ready == mem.SCHED_READY + 1 IN
  /\ ApAt(p, "arrive", IF ready > expected_aps THEN "off" ELSE "rendezvous")
  /\ mem' = LET arrived == MoreThan(mem, "SCHED_READY", 1) IN
            IF ready > expected_aps THEN MoreThan(arrived, "BAD_CPU_IDS", 1)
                                    ELSE MoreThan(arrived, "TASK_SUM", ready - 1)
  /\ UNCHANGED <<ap_local, peak>>

ap_rendezvous(p) ==
  /\ mem.SCHED_READY = expected_aps
  /\ ApAt(p, "rendezvous", "task")
  /\ UNCHANGED <<ap_local, mem, peak>>

ap_task(p) ==
  LET task == mem.NEXT_TASK
      claimed == MoreThan(mem, "NEXT_TASK", 1) IN
  /\ ApAt(p, "task", IF task >= SCHED_TASKS THEN "ticket" ELSE "task")
  /\ mem' = IF task >= SCHED_TASKS
            THEN [claimed EXCEPT !.TASK_CPU_MASK = @ \cup {Bit(p)}]
            ELSE MoreThan(claimed, "TASK_SUM", task)
  /\ UNCHANGED <<ap_local, peak>>

ap_ticket(p) ==
  /\ ApAt(p, "ticket", "lock")
  /\ ap_local' = [ap_local EXCEPT ![p].ticket = mem.LOCK_NEXT]
  /\ mem' = MoreThan(mem, "LOCK_NEXT", 1)
  /\ UNCHANGED peak

ap_lock(p) ==
  /\ mem.LOCK_OWNER = ap_local[p].ticket
  /\ ApAt(p, "lock", "unlock")
  /\ mem' = MoreThan(mem, "LOCK_COUNTER", 1)
  /\ UNCHANGED <<ap_local, peak>>

KeepsTicket(p) == ap_local[p].ticket

NextTicket(p) == ap_local[p].ticket + 1

ap_unlock(p) ==
  /\ ApAt(p, "unlock", "once")
  /\ mem' = [mem EXCEPT !.LOCK_OWNER = NextTicket(p)]
  /\ UNCHANGED <<ap_local, peak>>

ap_once(p) ==
  /\ ApAt(p, "once", "active")
  /\ mem' = [mem EXCEPT !.ONCE_OWNER = IF @ = 0 THEN p + 1 ELSE @]
  /\ UNCHANGED <<ap_local, peak>>

(* ACTIVE is raised and observe_max reads the maximum it may have to raise. *)
ap_active(p) ==
  /\ ApAt(p, "active", "load")
  /\ mem' = MoreThan(mem, "ACTIVE", 1)
  /\ ap_local' = [ap_local EXCEPT ![p].active = mem.ACTIVE + 1]
  /\ peak' = Max({peak, mem.ACTIVE + 1})

observe_load(p) ==
  /\ ApAt(p, "load", "raise")
  /\ ap_local' = [ap_local EXCEPT ![p].observed = mem.MAX_ACTIVE]
  /\ UNCHANGED <<mem, peak>>

(* observe_max tries to raise the maximum while its own count is larger.   *)
(* The exchange fails if another AP raised it first, and the loop goes on  *)
(* from what that AP stored; a spurious failure changes nothing.           *)
StoresAnyway(p) == TRUE

Exchanges(p) == mem.MAX_ACTIVE = ap_local[p].observed

Larger(p) == ap_local[p].active > ap_local[p].observed

observe_retry(p) ==
  /\ Larger(p) /\ ~Exchanges(p)
  /\ ApAt(p, "raise", "raise")
  /\ ap_local' = [ap_local EXCEPT ![p].observed = mem.MAX_ACTIVE]
  /\ UNCHANGED <<mem, peak>>

(* The maximum is settled and perform_work follows. *)
observe_done(p) ==
  /\ Larger(p) => Exchanges(p)
  /\ ApAt(p, "raise", "leave")
  /\ mem' = MoreThan(IF Larger(p) THEN [mem EXCEPT !.MAX_ACTIVE = ap_local[p].active] ELSE mem,
                     "WORK_TOTAL", WORK_PER_CPU)
  /\ UNCHANGED <<ap_local, peak>>

(* The time stamps around the work may not have advanced. *)
ap_leave(p, stuck) ==
  /\ ApAt(p, "leave", "off")
  /\ mem' = MoreThan(MoreThan(mem, "ACTIVE", -1), "TIMER_FAILURES", IF stuck THEN 1 ELSE 0)
  /\ UNCHANGED <<ap_local, peak>>

ipi_entry(p) ==
  LET refused == ~WhoAmI(p, "ipi_entry") \/ p >= MAX_CPUS \/ mem.IPI_EPOCH # 1 IN
  /\ ApAt(p, "ipi_entry", "off")
  /\ mem' = IF refused THEN MoreThan(mem, "BAD_CPU_IDS", 1)
                       ELSE [mem EXCEPT !.IPI_ACK_MASK = @ \cup {Bit(p)}]
  /\ UNCHANGED <<ap_local, peak>>

ApStep(p) ==
  \/ ap_enter(p) \/ ap_arrive(p) \/ ap_rendezvous(p) \/ ap_task(p) \/ ap_ticket(p) \/ ap_lock(p)
  \/ ap_unlock(p) \/ ap_once(p) \/ ap_active(p) \/ observe_load(p) \/ observe_retry(p)
  \/ observe_done(p) \/ (\E stuck \in BOOLEAN : ap_leave(p, stuck)) \/ ipi_entry(p)
-----------------------------------------------------------------------------
BspAt(from, to) == bsp_pc = from /\ bsp_pc' = to /\ UNCHANGED <<topology, failed_at>>

Fail(stage) ==
  /\ bsp_pc' = "returned" /\ failed_at' = stage
  /\ UNCHANGED topology

(* A check of what the firmware hands over, which passes or ends the boot. *)
Checked(stage, next) ==
  /\ bsp_pc = stage
  /\ Fail(stage) \/ BspAt(stage, next)
  /\ UNCHANGED <<ap_pc, ap_local, mem, peak>>

(* The null checks of the tables, the clock boundary, the lookup of the MP *)
(* Services and the BSP's own number.                                      *)
lookups ==
  \/ Checked("system-table", "boot-services")
  \/ Checked("boot-services", "normalized-handoff")
  \/ Checked("clock-boundary", "locate-mp-services")
  \/ Checked("locate-mp-services", "cpu-discovery")
  \/ Checked("bsp-identity", "startup")

(* The loaded image, its options and the ACPI root pointer are checked. *)
normalized_handoff == Checked("normalized-handoff", "memory-map")

memory_map_probe == Checked("memory-map", "clock-boundary")

cpu_discovery ==
  /\ bsp_pc = "cpu-discovery"
  /\ \/ Fail("cpu-discovery")
     \/ enabled \in 1..MAX_CPUS /\ BspAt("cpu-discovery", "bsp-identity")
  /\ UNCHANGED <<ap_pc, ap_local, mem, peak>>

(* The stores before the first dispatch; an image is loaded once, so what  *)
(* they reset has its initial value.                                       *)
Prepared(m) == [m EXCEPT !.READY = TRUE, !.NEXT_TASK = expected_aps]

Dispatch(entry) == ap_pc' = [p \in topology.enabled |-> IF p \in aps THEN entry ELSE "off"]

startup ==
  /\ IF enabled > 1 THEN Dispatch("ap_entry") /\ BspAt("startup", "startup-all-aps")
                    ELSE UNCHANGED ap_pc /\ BspAt("startup", "bsp-work")
  /\ mem' = Prepared(mem)
  /\ UNCHANGED <<ap_local, peak>>

AllLeft == \A p \in aps : ap_pc[p] = "off"

dispatch_done(from, to) ==
  /\ AllLeft
  /\ BspAt(from, to)
  /\ UNCHANGED <<ap_pc, ap_local, mem, peak>>

(* The firmware refuses the dispatch, or its time limit is reached and it  *)
(* stops the APs that are still running.                                   *)
dispatch_timeout(stage) ==
  /\ bsp_pc = stage /\ ~AllLeft
  /\ Fail(stage)
  /\ ap_pc' = [p \in topology.enabled |-> "off"]
  /\ UNCHANGED <<ap_local, mem, peak>>

(* The BSP's own share; alone it also runs the tasks. *)
BspWorked(m) ==
  LET recorded == MoreThan(record_cpu(m, topology.bsp), "WORK_TOTAL", WORK_PER_CPU) IN
  IF enabled = 1
  THEN [recorded EXCEPT !.TASK_SUM = @ + SumSet(0..(SCHED_TASKS - 1)),
                        !.TASK_CPU_MASK = {Bit(topology.bsp)}, !.ONCE_OWNER = topology.bsp + 1]
  ELSE recorded

SchedulerInvariants(m) ==
  /\ m.TASK_SUM = (SCHED_TASKS * (SCHED_TASKS - 1)) \div 2
  /\ m.TASK_CPU_MASK # {}
  /\ enabled >= ManyCpus => Cardinality(m.TASK_CPU_MASK) >= 2
  /\ m.LOCK_COUNTER = expected_aps
  /\ m.ONCE_OWNER # 0

scheduler_invariants ==
  /\ bsp_pc = "bsp-work"
  /\ mem' = BspWorked(mem)
  /\ IF SchedulerInvariants(mem') THEN BspAt("bsp-work", "ipi") ELSE Fail("scheduler-invariants")
  /\ UNCHANGED <<ap_pc, ap_local, peak>>

ipi_broadcast ==
  /\ IF enabled > 1 THEN Dispatch("ipi_entry") /\ BspAt("ipi", "ipi-broadcast")
                    ELSE UNCHANGED ap_pc /\ BspAt("ipi", "ipi-acknowledgement")
  /\ mem' = [mem EXCEPT !.IPI_ACK_MASK = {Bit(topology.bsp)}, !.IPI_EPOCH = 1]
  /\ UNCHANGED <<ap_local, peak>>

(* The acknowledgements are compared with the first enabled bits. *)
ipi_acknowledgement ==
  /\ bsp_pc = "ipi-acknowledgement"
  /\ IF mem.IPI_ACK_MASK = 0..(enabled - 1)
     THEN BspAt("ipi-acknowledgement", "monotonic-clock") ELSE Fail("ipi-acknowledgement")
  /\ UNCHANGED <<ap_pc, ap_local, mem, peak>>

monotonic_clock ==
  /\ bsp_pc = "monotonic-clock"
  /\ \/ mem.TIMER_FAILURES = 0 /\ BspAt("monotonic-clock", "block-read")
     \/ Fail("monotonic-clock")
  /\ UNCHANGED <<ap_pc, ap_local, mem, peak>>

(* The boot sector is read through the firmware and its signature checked. *)
block_probe == Checked("block-read", "smp-invariants")

SmpInvariants ==
  /\ mem.AP_COUNT = expected_aps
  /\ Cardinality(mem.CPU_MASK) = enabled
  /\ mem.WORK_TOTAL = enabled * WORK_PER_CPU
  /\ mem.MAX_ACTIVE >= Min({expected_aps, 1})
  /\ mem.STALE_READS = 0 /\ mem.DUPLICATE_CPUS = 0 /\ mem.BAD_CPU_IDS = 0

smp_invariants ==
  /\ bsp_pc = "smp-invariants"
  /\ IF SmpInvariants THEN BspAt("smp-invariants", "inventory") ELSE Fail("smp-invariants")
  /\ UNCHANGED <<ap_pc, ap_local, mem, peak>>

BspStep ==
  \/ lookups \/ normalized_handoff \/ memory_map_probe \/ cpu_discovery
  \/ startup
  \/ dispatch_done("startup-all-aps", "bsp-work")
  \/ scheduler_invariants
  \/ ipi_broadcast
  \/ dispatch_done("ipi-broadcast", "ipi-acknowledgement")
  \/ ipi_acknowledgement \/ monotonic_clock \/ block_probe \/ smp_invariants

Dispatches == {"startup-all-aps", "ipi-broadcast"}

BootNext ==
  \/ \E p \in topology.enabled : ApStep(p)
  \/ BspStep
  \/ \E stage \in Dispatches : dispatch_timeout(stage)
-----------------------------------------------------------------------------
Dense == topology.enabled = 0..(enabled - 1)

(* The verdict of the firmware phase is right both ways.  efi_main goes on *)
(* to the inventory only with the whole truth in its tallies: every        *)
(* enabled processor named itself in both dispatches, and the parallelism  *)
(* it prints is the most processors that were ever active at once, however *)
(* the raises of MAX_ACTIVE raced.  And the checks of the tallies accuse a *)
(* machine only if some processor could not name itself or the enabled     *)
(* ones are not numbered from zero without a gap.                          *)
BootVerdict ==
  /\ bsp_pc = "inventory" =>
       /\ topology.mute = {} /\ Dense
       /\ mem.CPU_MASK = topology.enabled /\ mem.IPI_ACK_MASK = topology.enabled
       /\ mem.MAX_ACTIVE = peak /\ mem.ACTIVE = 0
  /\ failed_at \in {"scheduler-invariants", "ipi-acknowledgement", "smp-invariants"} =>
       topology.mute # {} \/ ~Dense
=============================================================================
