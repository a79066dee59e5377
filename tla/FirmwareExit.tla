----------------------------- MODULE FirmwareExit -----------------------------
(***************************************************************************)
(* From the firmware to the kernel: the processor inventory efi_main takes *)
(* (main.rs), post_firmware::run up to the start of the APs, where module  *)
(* PostFirmware begins (post_firmware.rs), and what efi_main does with the *)
(* result of run.  run reads two test fixtures from the QEMU fw_cfg        *)
(* directory, prepares the trampoline page and the heap with the           *)
(* firmware's allocator and takes the machine over with ExitBootServices.  *)
(* That call needs the key of the current memory map, which any allocation *)
(* and the firmware's own timers change, so run tries it four times.       *)
(*                                                                         *)
(* UEFI (external): once ExitBootServices was called, even in vain, only   *)
(* GetMemoryMap and ExitBootServices may be called.  ResetSystem is a      *)
(* runtime service and outlives the exit.                                  *)
(***************************************************************************)
EXTENDS UefiBoot

CONSTANTS
  FwCfgs,    \* the fw_cfg directories: sequences of files
  U32_MAX,   \* the largest value of the failure fixture
  EntriesMax,\* the longest directory it reads (1,024)
  FileMax,   \* the largest file fw_cfg_find accepts (56)
  DigitsMax, \* the largest failure fixture (10)
  PowerMax,  \* the largest power fixture (8)
  MaxTicks   \* bound: how often the firmware changes the memory map itself

ASSUME ExitAssumption ==
  {U32_MAX, EntriesMax, FileMax, DigitsMax, PowerMax, MaxTicks} \subseteq Nat

(* Results of reading a fixture that are no APIC id. *)
None == -1
InjectionError == -2

VARIABLES
  apic_ids,       \* the inventory, then the effective APIC ids
  failed_apic,    \* the injected start failure: None or an APIC id
  power_action,   \* what the run ends with
  stack_tops,     \* APIC ids the trampoline page holds a stack for
  firmware,       \* "live", "exiting" after a failed exit, "gone"
  map_key, key,   \* the firmware's memory-map key and the one run read
  attempts,       \* exits tried
  ticks           \* changes the firmware made itself

exitVars == <<apic_ids, failed_apic, power_action, stack_tops, firmware, map_key, key,
              attempts, ticks>>

handoffVars == <<bootVars, exitVars>>

ExitInit ==
  /\ apic_ids = <<>> /\ failed_apic = None /\ power_action = "PowerOff" /\ stack_tops = {}
  /\ firmware = "live" /\ map_key = 0 /\ key = 0 /\ attempts = 0 /\ ticks = 0

HandoffInit == BootInit /\ ExitInit
-----------------------------------------------------------------------------
bsp_apic_id == topology.apic[topology.bsp]

(* run failed: efi_main reports it and spins, it does not return. *)
Spins(stage) == bsp_pc' = "spin" /\ failed_at' = stage /\ UNCHANGED topology

Sequential == UNCHANGED <<ap_pc, ap_local, mem, peak>>

(* The APIC ids of the enabled processors.  What follows does not depend on *)
(* their order in the array, so each stands under its processor's number.   *)
EnabledIds == Restrict(topology.apic, topology.enabled)

inventory ==
  /\ bsp_pc = "inventory"
  /\ \/ Fail("processor-information") /\ UNCHANGED apic_ids
     \/ /\ \E id \in Range(EnabledIds) : id >= MAX_CPUS
        /\ Fail("processor-apic-id") /\ UNCHANGED apic_ids
     \/ /\ \A id \in Range(EnabledIds) : id < MAX_CPUS
        /\ apic_ids' = EnabledIds
        /\ BspAt("inventory", "fixtures")
  /\ Sequential
  /\ UNCHANGED <<failed_apic, power_action, stack_tops, firmware, map_key, key, attempts,
                 ticks>>

(* fw_cfg_find takes the last file of that name; one of a bad size, or too *)
(* long a directory, is an error.                                          *)
Named(dir, name) == SelectSeq(dir, LAMBDA f : f.name = name)
BadEntry(dir, name) ==
  \/ Len(dir) > EntriesMax
  \/ \E f \in Range(Named(dir, name)) : f.size = 0 \/ f.size > FileMax
fw_cfg_find(dir, name) == LET found == Named(dir, name) IN found[Len(found)]

(* The digits before the first NUL or newline, as a decimal number; the    *)
(* bytes that are no digit have numbers of their own.                      *)
Newline == 10
NUL == 11
Letter == 12
Digits(file) ==
  LET ends == {i \in 1..file.size : file.bytes[i] \in {NUL, Newline}} IN
  SubSeq(file.bytes, 1, IF ends = {} THEN file.size ELSE Min(ends) - 1)
Decimal(digits) ==
  LET value[i \in 0..Len(digits)] == IF i = 0 THEN 0 ELSE value[i - 1] * 10 + digits[i] IN
  value[Len(digits)]

fw_cfg_failure_apic(dir) ==
  LET name == "opt/thermite/fail-ap"
      digits == Digits(fw_cfg_find(dir, name)) IN
  IF BadEntry(dir, name) THEN InjectionError
  ELSE IF Named(dir, name) = <<>> THEN None
  ELSE IF \/ fw_cfg_find(dir, name).size > DigitsMax
          \/ digits = <<>> \/ Letter \in Range(digits)
          \/ Decimal(digits) > U32_MAX
       THEN InjectionError ELSE Decimal(digits)

(* word is what the file holds before the first NUL or newline. *)
fw_cfg_power_action(dir) ==
  LET name == "opt/thermite/power" IN
  IF BadEntry(dir, name) THEN "Injection"
  ELSE IF Named(dir, name) = <<>> THEN "PowerOff"
  ELSE IF fw_cfg_find(dir, name).size > PowerMax THEN "Injection"
  ELSE IF fw_cfg_find(dir, name).word = "reboot" THEN "Reboot"
  ELSE IF fw_cfg_find(dir, name).word = "poweroff" THEN "PowerOff" ELSE "Injection"

Injectable(failed) ==
  failed = None \/ (failed # bsp_apic_id /\ failed \in Range(apic_ids))

(* expected_mask: no two processors have one bit. *)
AnyIds(ids) == TRUE

UniqueIds(ids) == IsInjective(ids)

Effective(failed) == Restrict(apic_ids, {p \in DOMAIN apic_ids : apic_ids[p] # failed})

(* The effective ids; a BSP outside the inventory, a bad fixture and two   *)
(* processors with one id are refused.                                     *)
fixtures(dir) ==
  LET failed == fw_cfg_failure_apic(dir)
      effective == Effective(failed) IN
  /\ bsp_pc = "fixtures"
  /\ IF bsp_apic_id \notin Range(apic_ids) THEN Spins("InvalidCpuId") /\ UNCHANGED exitVars
     ELSE IF ~Injectable(failed) \/ fw_cfg_power_action(dir) = "Injection"
          THEN Spins("Injection") /\ UNCHANGED exitVars
     ELSE IF ~UniqueIds(effective) THEN Spins("InvalidCpuId") /\ UNCHANGED exitVars
     ELSE /\ BspAt("fixtures", "xapic")
          /\ apic_ids' = effective /\ failed_apic' = failed
          /\ power_action' = fw_cfg_power_action(dir)
          /\ UNCHANGED <<stack_tops, firmware, map_key, key, attempts, ticks>>
  /\ Sequential
(* The xAPIC check and the tables in the image's own memory. *)
setup_tables ==
  /\ bsp_pc = "xapic"
  /\ BspAt("xapic", "trampoline") \/ Spins("UnsupportedApic")
  /\ Sequential /\ UNCHANGED exitVars

(* The firmware grants the fixed low page, and every effective id gets its *)
(* own stack.                                                              *)
install_trampoline ==
  /\ bsp_pc = "trampoline"
  /\ \/ Spins("TrampolineAllocation") /\ UNCHANGED <<stack_tops, map_key>>
     \/ /\ BspAt("trampoline", "heap")
        /\ stack_tops' = Range(apic_ids) /\ map_key' = map_key + 1
  /\ Sequential
  /\ UNCHANGED <<apic_ids, failed_apic, power_action, firmware, key, attempts, ticks>>

reserve_boot_heap ==
  /\ bsp_pc = "heap"
  /\ \/ Spins("Heap") /\ UNCHANGED map_key
     \/ BspAt("heap", "map") /\ map_key' = map_key + 1
  /\ Sequential
  /\ UNCHANGED <<apic_ids, failed_apic, power_action, stack_tops, firmware, key, attempts,
                 ticks>>

(* exit_boot_services: one round reads the map and offers its key. *)
get_memory_map ==
  /\ bsp_pc = "map"
  /\ \/ Spins("MemoryMap") /\ UNCHANGED key
     \/ BspAt("map", "exit") /\ key' = map_key
  /\ Sequential
  /\ UNCHANGED <<apic_ids, failed_apic, power_action, stack_tops, firmware, map_key,
                 attempts, ticks>>

(* Where the next attempt starts. *)
ReservesAgain == "heap"

RetriesFrom == "map"

exit_boot_services ==
  /\ bsp_pc = "exit"
  /\ attempts' = attempts + 1
  /\ IF key = map_key THEN BspAt("exit", "takeover") /\ firmware' = "gone"
     ELSE /\ firmware' = "exiting"
          /\ IF attempts' = 4 THEN Spins("ExitBootServices") ELSE BspAt("exit", RetriesFrom)
  /\ Sequential
  /\ UNCHANGED <<apic_ids, failed_apic, power_action, stack_tops, map_key, key, ticks>>

(* The firmware's own timers allocate while it is in charge (external). *)
firmware_tick ==
  /\ bsp_pc \in {"trampoline", "heap", "map", "exit"} /\ ticks < MaxTicks
  /\ ticks' = ticks + 1 /\ map_key' = map_key + 1
  /\ UNCHANGED <<bootVars, apic_ids, failed_apic, power_action, stack_tops, firmware, key,
                 attempts>>

(* The kernel's tables, syscall entry, CPU-local block and LAPIC, then the *)
(* allocator, model and device probes.                                     *)
takeover ==
  /\ bsp_pc = "takeover"
  /\ BspAt("takeover", "start_aps") \/ Spins("Probe")
  /\ Sequential /\ UNCHANGED exitVars

(* The rest of run, of which modules PostFirmware, VirtioBlock and UserMode *)
(* have the steps, ends well or in an error.                                *)
rest_of_run ==
  /\ bsp_pc = "start_aps"
  /\ BspAt("start_aps", "power") \/ Spins("PostFirmware")
  /\ Sequential /\ UNCHANGED exitVars

(* ResetSystem does what the power fixture asked for.  If there are no     *)
(* runtime services, or it comes back, efi_main returns EFI_SUCCESS.       *)
reset_system ==
  /\ BspAt("power", power_action) \/ BspAt("power", "returned")
  /\ Sequential /\ UNCHANGED exitVars

RunStep ==
  \/ inventory \/ (\E dir \in FwCfgs : fixtures(dir)) \/ setup_tables \/ install_trampoline
  \/ reserve_boot_heap \/ get_memory_map \/ exit_boot_services \/ takeover
  \/ rest_of_run \/ reset_system

HandoffNext == (BootNext /\ UNCHANGED exitVars) \/ RunStep \/ firmware_tick

HandoffSpec == HandoffInit /\ [][HandoffNext]_handoffVars
-----------------------------------------------------------------------------
(* The steps of efi_main and run that call a boot service (MP Services     *)
(* included), by where they start.                                         *)
MapCalls == {"map", "exit"}
OtherCalls == {"normalized-handoff", "memory-map", "locate-mp-services", "cpu-discovery",
               "bsp-identity", "startup", "ipi", "monotonic-clock", "block-read", "inventory",
               "trampoline", "heap"}

(* The firmware is only used while it may be: once run has tried to exit   *)
(* boot services it calls nothing but the two services of the exit itself, *)
(* after the exit none.  efi_main returns an error only to a firmware that *)
(* is live, whatever fails.  To one that is gone it returns in the one     *)
(* case it means to: all of run succeeded, the machine was not reset, and  *)
(* the result is EFI_SUCCESS.                                              *)
FirmwareOnlyWhileLive ==
  [][bsp_pc' # bsp_pc =>
       /\ bsp_pc \in OtherCalls => firmware = "live"
       /\ bsp_pc \in MapCalls => firmware # "gone"
       /\ bsp_pc' = "returned" =>
            IF failed_at' = "none" THEN bsp_pc = "power" /\ firmware = "gone"
                                   ELSE firmware = "live"]_handoffVars

(* What run starts the APs with: the machine is the kernel's, the ids are  *)
(* distinct, in range and each has its own stack, the BSP is among them    *)
(* and exactly the injected failure is missing of the enabled processors.  *)
StartsWithOwnMachine ==
  bsp_pc = "start_aps" =>
    /\ firmware = "gone" /\ key = map_key
    /\ IsInjective(apic_ids) /\ Range(apic_ids) \subseteq 0..(MAX_CPUS - 1)
    /\ Range(apic_ids) = stack_tops
    /\ bsp_apic_id \in stack_tops
    /\ {topology.apic[p] : p \in topology.enabled} \ stack_tops = {failed_apic} \ {None}
=============================================================================
