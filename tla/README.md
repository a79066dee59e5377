# A TLA+ model of Bulla

Bulla is a kernel written as a set of small transition systems (the Rust crate
`kernel/`) together with a freestanding x86_64 runtime that boots on UEFI, leaves
the firmware and brings up all processors (`platform/x86_64-pc-uefi-smp-v1/runtime/`).
This directory models both: TLC checks the modules on small instances, and TLAPS
proves the safety properties that matter most for every value of the constants.

Definitions carry the names of the functions they model. A call that returns an
error without having written anything is a stuttering step and does not appear; a
call that fails *after* its first write is modelled with that write. `u64` counters
are bounded by a named constant (`MaxGen`, `MaxEpoch`, ...), and the checked
addition at the bound is the code's own.

## Inventory

| Part | Source | State | Operations | What makes it hard |
|---|---|---|---|---|
| capability ledger | `capability.rs` | record per slot | mint_root, transfer, release, validate | handles are copied and outlive the state they name |
| action executor | `event.rs` | results held | authorize | check and use are apart |
| event sequencer, policy | `event.rs`, `policy.rs` | next ids, shards | ingress, issue, complete, step, add_cpu | late, repeated, reordered events |
| scheduler | `scheduler.rs` | queues, tasks, current | create, dispatch, yield, block, wake, exit | work stealing, exhausted generations |
| SMP state | `smp.rs` | lifecycles, epochs | discover, transition, begin, acknowledge, complete | overtaken epochs, late acknowledgements |
| frame allocator | `frame.rs` | free, allocated, generations, loans | add, allocate, lend, reclaim, split, join, release | coalescing, reuse of generations |
| address space, window | `memory.rs` | mappings, epoch, active mapping | map, unmap, protect, destroy; map, revoke | mixed page sizes, stale translations |
| user memory | `memory.rs` | bytes, the copy under way | copy_to_user, copy_from_user | ranges over several pages, one of them bad or shared |
| user context | `context.rs` | registers, generation | enter, trap, resume, terminate | copied trap frames |
| interrupts | `irq.rs` | local flags, routes, in service | save_disable, restore, route, deliver, EOI | copied tokens |
| DMA | `dma.rs` | pins, domains, segments | pin, map, unmap, unpin, sync | the device owns the buffer for a while |
| synchronisation | `sync.rs` | tickets, cell, queue, barrier | enqueue, release, push, pop, arrive, advance | tickets and rounds out of turn |
| atomic model | `atomic.rs` | cells, events | load, store, fetch_add, fence | edges between events |
| atomic cell | `atomic.rs` | a word of a width | store, exchange, compare_exchange, arithmetic | values wider than the cell, wrapping |
| device bus | `device.rs` | device bytes, ports, barriers | read, write, barrier | widths, alignment, the last port |
| fixed storage | `storage.rs` | arrays, indices, counts | push, pop, insert, remove, set, clear | wrapped rings, the entry moved by a removal |
| kernel heap | `post_firmware.rs` | `HEAP_BITMAP` | alloc, dealloc | lock-free search |
| post-firmware run | `post_firmware.rs` | the `POST_*` atomics, TLBs, LAPICs | `run`, `thermite_ap_rust_entry`, handlers | real interleaving of all CPUs and interrupts |
| UEFI boot | `main.rs` | the boot atomics, tallies, phase | `efi_main`, `ap_entry`, `ipi_entry`, the inventory | a rendezvous inside a firmware dispatch with a time limit |
| exit from firmware | `main.rs`, `post_firmware.rs` | map key, APIC ids, fixtures | fw_cfg, allocations, `exit_boot_services` | a key that goes stale, services that are gone |
| block probe | `post_firmware.rs` | queue, device registers | `virtio_block_dma_probe` | a device that works on its own and may answer late |
| user run | `post_firmware.rs` | stacks, privilege, IF, counts | `run_user_mode`, syscall entry, handlers | interrupts before any instruction |
| memory move | `post_firmware.rs` | bytes | `memmove` | overlap |

## Modules

* `CapabilityLedger` with `ActionExecutor` on top of it: the executor's results are
  kept in `authorized` while the ledger moves on.
* `EventLoop`: sequencer, the caller's inbox, policy. `fifo` is chosen at the start:
  either the caller delivers in order and once, or in any order and repeatedly.
* `Scheduler`. A generation is abstracted to whether it is exhausted.
* `Smp`. `discover` overwrites whatever CPU it is called for.
* `FrameGrants` (what an allocator promises), `FrameAllocator` (the code, with the
  refinement `ImplementsGrants`), `FrameHandles` (plus the history of consumed handles).
* `UefiBoot`: `efi_main` and the callbacks of its two dispatches. The machine
  (`topology`) is chosen at the start: which processors are enabled, their APIC ids,
  and which of them cannot name themselves. `FirmwareExit` continues with the inventory
  and `run` up to the start of the APs, where `PostFirmware` begins, and with what
  `efi_main` does after `run`: reset the machine, return, or spin. Before any of the last
  calls up to the exit the firmware may change the memory map. `apic_ids` keeps each id
  under its processor's number: nothing `run` does depends on their order in the array.
* `PostFirmware`: one step per access to a shared atomic that others can see.
* `VirtioBlock`: the driver in its program order and the device as a process of its own.
* `UserMode`: one step per instruction where it matters; a frame is pushed where the
  processor would push it.
* `MemMove`: one step per byte.
* `Platform` puts `FirmwareExit`, `VirtioBlock`, `UserMode`, `MemMove` and `Smp` side by
  side, and `KernelObjects` does so with `AddressSpace`, `UserMemory`, `UserContext`,
  `Irq`, `Dma`, `DeviceBus`, `KernelHeap`, `Sync`, `AtomicTrace`, `AtomicCell` and
  `Storage`. These share no state or never run at the same time, so a behaviour
  exercises the one that `subject` names; interleaving them would only multiply states.
* `Containers`: what `Storage` promises (a stack, a table, a set and a queue), with the
  refinement `ImplementsContainers`.
* The theorems are in modules of their own: `DataProofs` (numbers, finite sets, sums,
  runs of pages), `FrameProofs`, `OrderProofs` (event loop, synchronisation, scheduler),
  `StorageProofs` (containers, the atomic trace), `ObjectProofs` (capabilities, executor,
  DMA, address spaces, user copies, heap), `PostFirmwareProofs` and `CounterProofs` (the
  multiprocessor run), `MachineProofs` (block probe, user run, `memmove`, firmware exit,
  interrupts, user contexts). Components that share no state stand together where they
  need the same facts or none.
* `MC*` modules give constants their values.

The mistaken variants that stand directly before some definitions
(`AnyTurn` before `InTurn`, `SameEpoch` before `NextEpoch`) are used by no
specification: they record a plausible bug, which the property named in
`PROJECT.json` detects when it replaces the definition.

## Runs

| Run | Instance | Shows |
|---|---|---|
| authority | 2 kinds, 1 slot each, 2 owners, 2 rights, 3 generations, 2 results held | stale stays stale, the stamp of an authorization suffices |
| scheduler | 3 CPUs, 3 tasks | queues and states agree, what is lost, work conservation, no starvation |
| scheduler_yield | 2 CPUs, 2 tasks | violated, see Findings |
| post_firmware | BSP and 2 APs, 4 tasks, faults, timeouts, speculative TLB loads | mutual exclusion, shootdown, exact counters, no timer lost |
| post_firmware_live | BSP and 1 AP, 4 tasks, faults, timeouts, speculative TLB loads | `run` returns |
| post_firmware_gate | BSP and 2 APs | violated, see Findings |
| frames | regions in `MCFrameHandles`, sizes 1 to 3, alignments 1 and 2, 3 generations | coalesced, consumed handles stay refused, loans hold, refinement |
| frames_split | the same | violated, see Findings |
| platform | the machines and fixtures in `MCPlatform`, 4 tasks; queue sizes 2, 3, 256, 257; 3 interrupts; memory of 7 bytes; 2 CPUs, 1 IPI and 2 shootdown epochs | see below |
| events | 2 CPUs, 4 event kinds, 3 events, 1 action | at most once, in-order loses nothing |
| objects | see `MCKernelObjects` | one property or more for each object |
| atomic_rmw | the same | violated, see Findings |

What the properties of `platform` say:

* `BootVerdict`: the boot goes on only with true tallies, `MAX_ACTIVE` included, and
  the checks accuse a machine only if a processor is mute or the numbers have gaps.
* `BootEnds`: the boot ends on every machine, also when an AP never arrives.
* `FirmwareOnlyWhileLive`: no boot service is called that the firmware no longer offers,
  and an error is returned only to a firmware that is live, whatever fails. `efi_main` does
  return after the exit in one case, which its comment names: everything succeeded and
  ResetSystem, or a firmware without runtime services, left the machine running.
* `StartsWithOwnMachine`: APs are started only after the exit, with distinct ids and
  stacks, and without exactly the one the fixture fails.
* `RequestOwnedByOne`: driver and device never hold the request together.
* `KernelStackPrivate`, `UserRunExact`: no kernel frame lands on the user stack, and
  `run_user_mode` finds the counts it checks, wherever interrupts fall.
* `MoveIsCopy`: the destination receives the source as it was.
* `ShootdownsDrain`: overtaken shootdowns complete once the newer ones are done, also
  when a target is discovered again.

And those that `objects` has:

* `CopyAllOrNothing`: a user copy that fails wrote nothing; one that succeeds moved
  every byte through frames open to the user.
* `AccessesWhole`: device accesses stay inside their capability and are never half done.
* `NarrowAgrees`: a cell, which computes in whole words and masks what it writes, holds
  what a register of its width would hold after the same calls.
* `TranslationsSound`: no address has two translations, none lies past the last address,
  and every one leads into the frames of one capability.
* `EpochMarksChange`: no translation changes under an epoch, until the epoch is exhausted.
* `SectionsEndOnce`: every critical section but the open one was ended exactly once, by
  its token; interrupts are off exactly while one is open. CPUs may be added again.
* `ResumesOnce`: of the copies of the frames of a generation one resumes. The code keeps
  no mark of termination: a frame of a terminated context that was not yet resumed is
  accepted as before.
* `DeviceOwnershipHolds`: nothing unpins or unmaps a buffer while the device owns it.
* `BlocksExclusive`, `NullMeansContention`: a heap page has one owner, and null is returned
  only if no place that fits was free all along.
* `NothingLost`: tickets, messages and barrier rounds are accounted for; a participant has
  been accepted for the very rounds that are over, and for the current one if it arrived.
* `LoadsCoherent`: a load reads the last write to its cell since the cell was registered,
  or the registered value; a registration reported as a duplicate has taken effect.
* `ImplementsContainers`: the arrays behave as the abstract containers call by call, for
  the index, key or bit of the call, answers included.

`ImplementsGrants`, of `frames`, lets pages disappear only in the release of a run that is
`worn`, that is, in its last generation. `LostOnlyByOverflow`, of `scheduler`, says which
tasks a scheduler has lost: those whose yield reported GenerationOverflow and no others.
`RunReturns` and `CountersExact` together say that `run` returns Ok or the report of missing
overlap unless one of its waits gave up.

The bounds are the smallest at which the hard cases occur: two generations of
reuse after the first, a thief with two possible victims, two APs racing for the
last seed and the gate, a shootdown that a newer one overtakes, a heap where a
two-page request meets fragmentation, traces of three events, in which a foreign one lies
between a write and the operation that reads it, a user range over two pages of which either
may be the bad one, a ring that wraps, queue sizes on both sides of each limit, and
one machine for every way the boot can go wrong. The boot demands two workers from four
processors on; the constant `ManyCpus` is 3 in the instance, so that its three-processor
machines take both sides of that check. 7 bytes hold two ranges of every
overlap; no byte occurs twice, so none passes for another. The APs are symmetric in the safety run of
`PostFirmware`; symmetry is not used where liveness is checked, which is why the
liveness run has one AP: with two the behaviour graph is seventy times as large.

Deadlock checking is off throughout: the objects are passive and stop when their
bounded counters are spent, and `run` ends.

## Fairness

* `Scheduler`: the library is passive. `RunnableRuns` is what it promises to a caller
  that keeps dispatching on idle CPUs and ends every turn; weak fairness for each CPU
  says just that.
* `PostFirmware`: weak fairness for each CPU's own steps (processors keep executing)
  and for taking interrupts the LAPIC holds. The deadline timer need not fire and a
  TLB need not load. The waits of `run` are bounded in the code, so all of them give up in
  the end; the model assumes that only while an AP is halted, since everything the others
  wait for must come without it.
* `UefiBoot` and `FirmwareExit`: weak fairness for the BSP's and each AP's own steps. The
  firmware's time limit is fair only while some AP is mute: a machine whose APs all
  arrive must end the rendezvous without it. ExitBootServices is tried four times, so no
  fairness of the firmware is needed there.
* `Smp`: every target answers the newest pending epoch and the initiator completes
  it. `ShootdownsDrain` also relies on shootdowns not being begun for ever, which the
  bound on epochs provides: under an endless supply an old epoch could stay stale.

## Proofs

Every safety property of the passing runs is proved except three (see the end of this
section), for every value of the constants that meets the assumptions. The usual form:
an inductive invariant, one lemma per operation, and the property as a consequence.

**Data.** The library's induction rules take a predicate as parameter, which the provers
cannot instantiate. `DataProofs` therefore states induction with sets: the members for
which a statement holds form a set, and a least member of its complement (or a minimal
subset) is a contradiction. From this follow that a fold over a finite set is the unique
function with its recursion equation, what a sum over the CPUs does when one entry grows,
and what `coalesce` and a cut compute: the same pages, as runs that do not touch.

**Capabilities and actions** (`ObjectProofs`). `LedgerInv`: types, and that every handle
ever returned has at most its record's generation and equals the record when the
generations agree. `StaleNeverRevives` needs it: that a handle is refused now says nothing
of later states, unless its generation is known to lie behind the record's.
`ExecutorInv` adds that every authorization still held was given for a handle that was
returned; `StampDetectsStaleness` follows from both.

**Other kernel objects** (`ObjectProofs`, `MachineProofs`).

* heap: `BlocksExclusive` is inductive itself, since the exchange compares the whole
  bitmap. `NullMeansContention` needs `SearchInv`: a place that was free from the call
  on lies ahead of the search, and the bitmap it last saw did not cover it.
* interrupts: `IrqInv` adds types, that every token was taken with interrupts on, and how
  often each generation was ended.
* contexts: `ContextInv` says no generation from the current one on has been resumed.
* DMA: ownership is checked against the record of the slot and not against the mapping
  presented, so `DmaInv` needs only types, whatever mapping comes with whatever slot.
* address spaces: `SpaceInv` says the mapped ranges are disjoint, so the mapping that
  translates an address is unique; `Backed` says each was made from one capability.
* user copies: `CopyInv` says that the addresses found so far are those the mappings give,
  which do not change during a call, and that the bytes moved so far are where they
  belong, the last one to a byte winning where two pages share a frame.

**Order** (`OrderProofs`). `LoopInv`: ids in the inbox were given out, ids above the last
accepted one have not acted, and an inbox that is stepped in order is sorted. `SyncInv`
accounts for every ticket, element and arrival; that what was pushed is what was popped or
is still queued counts over the CPUs, hence the sums. `SchedulerInv` proves types,
`QueuesAgree` and `LostOnlyByOverflow` together: that a wake adds no duplicate needs the
state of every queued task, and what is lost needs the queues. `WorkConserving` adds that
among finitely many queues there is a longest, and among its owners one with the least
number.

**Frames** (`FrameProofs`). One layer is about sets only: free pages and the extents of
the live runs stay a partition of the pages added. `FrameInv` says that of the maps the
code keeps, and that the free map is coalesced; the coalesced free list, what a loan
holds, and the refinement `ImplementsGrants` of `FrameGrants` follow, step by step.
`HandleInv` is about generations: while nothing was split or joined a consumed handle is
older than what is recorded for its base.

**Containers and trace** (`StorageProofs`). `StorageInv` is what the operations of
`storage.rs` rely on and do not check: the entries of the map are packed and have
different keys, the head of the ring is in its array. Each operation on the arrays is
then the operation of `Containers` on what `Stacked`, `Tabled`, `BitNumbers` and `Queued`
read off them, answers and refusals included, hence `ImplementsContainers`. `TraceInv`
says a cell remembers the last write to it since its registration, or what it was
registered with, which is what `LoadsCoherent` asks of a load.

**The multiprocessor run** (`PostFirmwareProofs`, `CounterProofs`), with all its faults,
for any finite set of APs. `LockInv`: tickets drawn and not yet served differ, and whoever
is inside holds the one being served. `ShootInv`: from the remap on a CPU holds the old
page only while it still owes its acknowledgement. `TimerInv`: once the BSP has passed its
clearing of the mask each bit is set or an interrupt is on its way. `CountInv`: each
counter is the number of CPUs past the step that adds to it, and the sum of the tasks is
that of the seeds and of the tasks taken; `CountersExact` is what is left of it when the
BSP compares.

**The machine** (`MachineProofs`). `QueueFits` is about arithmetic, for every size the
probe accepts. `VirtioInv` says for each point of the driver what the device may be doing.
`UserInv` names the parts of the user run (about to enter, in the program, in the syscall
entry, in the fault handler, in the finish handler, in an interrupt from ring 0 or ring 3)
and for each the stack in use, the frames on the stacks and what has been counted; it
holds for any number of interrupts. `MoveInv` says which offsets have been moved and that
no source byte still to be read has been overwritten, in either direction. `HandoffInv`
says for each point of `efi_main` and `run` whether the firmware is live, whether anything
has failed, and what is known of the ids and the stacks, for every topology and fw_cfg directory.

**Assumptions.** Those on the constants, in the modules that declare them and all
evaluated by the runs. Most say that bounds are numbers. The others: CPUs are finitely
many (`SchedulerAssumption`, `SyncAssumption`, `PostFirmwareAssumption`, where there are
also more tasks than APs and `"unset"` is no CPU); the regions added to the frame
allocator do not overlap (`FrameAssumption`); APIC ids are natural numbers and the BSP is
an enabled processor (`BootAssumption`); 0, with which the arrays are initialised, is a
value (`StorageAssumption`); buffers hold bytes (`UserMemoryAssumption`).

**Only model-checked.** Liveness (`RunnableRuns`, `RunReturns`, `BootEnds`,
`ShootdownsDrain`), which is out of the prover's reach. `NarrowAgrees`, whose operators
are bitwise and recursive. `AccessesWhole`, whose bytes are powers of the byte size: the
provers do not interpret exponentiation. `BootVerdict`, which needs the tallies of two
dispatches with a time limit; the argument would be that of `CountInv` again, and longer.

## Findings

1. **The task gate** (`post_firmware.rs:892`). The comment says every CPU holds an
   active interval until the whole set has entered. The gate is opened by the CPU with
   the last seed, while one with an earlier seed may not have counted itself yet. The
   overlap check at line 2129 can then fail without any fault.
2. **Frame generations** (`frame.rs:155`). Splitting a run gives the right half the
   generation of the whole, which may have been used at that base: a released handle
   validates again. Without splits and joins `NoHandleRevives` holds.
3. **RMW edges** (`atomic.rs:353`). `fetch_add` takes the preceding event, not the
   preceding modification its comment speaks of.
4. **A yield at the last generation** (`scheduler.rs:122`). `yield_current` takes the task
   off its CPU before it finds the generation exhausted. The task stays `Running`, in no
   queue and on no CPU, and `invariant_holds`, which the tests and the post-firmware stage
   assert, is false from then on. It takes 2^64 - 1 yields of one task.
   `LostOnlyByOverflow` shows that nothing else loses one.

## Assumptions about callers

`add_region` is called once for each region, and the regions are disjoint
(`FrameAssumption`). Elsewhere callers may do what they like: `IrqController::add_cpu` and
`route`, `AtomicMemoryModel::register`, `discover`, `KernelPolicy::add_cpu` and
`register_domain` overwrite an entry before they report it as a duplicate, and the models
do so too.

## Not modelled

* `services.rs`: a monotone clock, a map of deadlines and two flags. Each operation
  checks and writes one field, only a test calls them, and any statement about them
  would restate a guard.
* The entropy probe (a bounded `rdrand` loop), the construction of page tables and
  descriptor tables, and the mode switch of the AP trampoline: sequential code whose
  outcome is what the hardware makes of it.
* The address checks of `UserContext::create` and the capability ranges of
  `DmaState::pin`: pure guards in front of what is modelled.
* Boundary table and registry (constants), the crate root, the Thermite sources (another
  language with its own proofs) and the build tooling.
