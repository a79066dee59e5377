---------------------------- MODULE MachineProofs ----------------------------
(***************************************************************************)
(* Proofs about parts of the machine that share no state: the block probe  *)
(* (the layout of the queue for every size the driver accepts, the         *)
(* ownership of the request), the ring-3 run under any number of           *)
(* interrupts, memmove for every overlap, the handoff from the firmware    *)
(* for every topology, the interrupt controller and the user contexts.     *)
(***************************************************************************)
EXTENDS VirtioBlock, UserMode, MemMove, FirmwareExit, Irq, UserContext, TLAPS

(* A leaf that names no prover is for Zenon, with time to spare. *)
USE ZenonT(30)

(* For every queue size the driver accepts the regions of the queue follow *)
(* each other without overlap and fit the 16 KiB that VIRTIO_QUEUE has, so *)
(* the size check after the offsets never refuses one.                     *)
THEOREM QueueFits ==
  \A size \in 3..256 :
    /\ available_offset(size) + 6 + size * 2 <= used_offset(size)
    /\ Fits(size)
  BY SMT DEF available_offset, used_offset, Fits
-----------------------------------------------------------------------------
Chain == {"header", "data", "status"}

(* The request is unseen, being worked on, or done with. *)
Unseen == device.work = "idle" /\ device.seen = 0 /\ queue.used = 0
Working ==
  /\ device.work \in {"data", "status", "used"} /\ device.seen = 1 /\ queue.used = 0
  /\ device.chain = Chain
Served == device.work = "idle" /\ device.seen = 1 /\ queue.used = 1

Published ==
  queue.avail = 1 /\ queue.descriptors = Chain /\ (Unseen \/ Working \/ Served)

(* Where the request is at each step of the driver; a driver that failed   *)
(* left the device off its queue or with a published request.              *)
VirtioInv ==
  /\ DOMAIN device = {"driver_ok", "pfn", "seen", "work", "chain"}
  /\ DOMAIN queue = {"descriptors", "avail", "used"}
  /\ probe_pc \in {"find", "reset", "size", "clear", "describe", "attach", "publish", "poll",
                   "validate", "read", "failed"}
  /\ probe_pc \in {"find", "reset"} => device.pfn = "firmware" /\ device.work = "idle"
  /\ probe_pc \in {"size", "clear", "describe", "attach"} =>
       device.pfn = "none" /\ device.work = "idle" /\ device.seen = 0
  /\ probe_pc \in {"describe", "attach", "publish"} => queue.avail = 0 /\ queue.used = 0
  /\ probe_pc \in {"attach", "publish"} => queue.descriptors = Chain
  /\ probe_pc = "publish" => device.work = "idle" /\ device.seen = 0
  /\ probe_pc \in {"poll", "validate"} => Published
  /\ probe_pc = "validate" /\ complete => Served
  /\ probe_pc = "read" => Served /\ queue.avail = 1
  /\ probe_pc = "failed" =>
       \/ device.work = "idle" /\ ~(device.driver_ok /\ device.pfn = "kernel")
       \/ Published

(* The device starts live on the firmware's queue, with no request. *)
LEMMA VirtioInvInit == VirtioInit => VirtioInv
  BY SMT, VirtioAssumption DEF VirtioInit, VirtioInv

(* Every step of driver and device keeps who holds the request. *)
LEMMA VirtioInvStep == VirtioInv /\ [VirtioNext]_virtioVars => VirtioInv'
  <1> SUFFICES ASSUME VirtioInv, [VirtioNext]_virtioVars PROVE VirtioInv'
    OBVIOUS
  <1> USE DEF VirtioInv, ProbeAt, ProbeFails, Published, Unseen, Working, Served, Chain
  <1>1. CASE find_legacy_virtio_block \/ above_4gib
    BY <1>1 DEF find_legacy_virtio_block, above_4gib
  <1>2. CASE reset_device
    BY <1>2 DEF reset_device, Reset
  <1>3. ASSUME NEW size \in QueueSizes, read_queue_size(size) PROVE VirtioInv'
    BY SMT, <1>3 DEF read_queue_size
  <1>4. CASE clear_memory
    BY <1>4 DEF clear_memory
  <1>5. CASE describe_request
    BY <1>5 DEF describe_request
  <1>6. ASSUME NEW accepted \in BOOLEAN, attach_queue(accepted) PROVE VirtioInv'
    BY <1>6 DEF attach_queue
  <1>7. CASE publish_request
    BY <1>7 DEF publish_request
  <1>8. ASSUME NEW seen \in BOOLEAN, poll_used(seen) PROVE VirtioInv'
    BY SMT, <1>8 DEF poll_used
  <1>9. CASE validate
    BY <1>9 DEF validate, Looks
  <1>10. CASE device_fetch
    <2>1. probe_pc \in {"poll", "validate", "failed"} /\ Published /\ Unseen /\ ~(probe_pc = "validate" /\ complete)
      BY <1>10 DEF device_fetch
    <2>2. /\ DOMAIN device' = DOMAIN device
          /\ device'.work = "data" /\ device'.seen = 1 /\ device'.chain = queue.descriptors
          /\ UNCHANGED <<probe_pc, queue, complete>>
      BY SMT, <1>10, <2>1 DEF device_fetch
    <2>3. Working' /\ Published'
      BY <2>1, <2>2
    <2> QED
      BY <2>1, <2>2, <2>3
  <1>11. ASSUME NEW content, device_data(content) PROVE VirtioInv'
    BY <1>11 DEF device_data, DeviceAt
  <1>12. ASSUME NEW status, device_status(status) PROVE VirtioInv'
    BY <1>12 DEF device_status, DeviceAt
  <1>13. CASE device_used
    BY SMT, <1>13 DEF device_used, DeviceAt
  <1>14. CASE UNCHANGED virtioVars
    BY SMT, <1>14 DEF virtioVars
  <1> QED
    BY <1>1, <1>2, <1>3, <1>4, <1>5, <1>6, <1>7, <1>8, <1>9, <1>10, <1>11, <1>12, <1>13, <1>14
    DEF VirtioNext, DriverStep, DeviceStep

(* Driver and device never hold the request at once, for every queue size  *)
(* the device may report and wherever the firmware left its queue.         *)
THEOREM RequestOwnedByOneHolds == VirtioSpec => []RequestOwnedByOne
  <1>1. VirtioInv => RequestOwnedByOne
    BY DEF VirtioInv, RequestOwnedByOne, Looks, Published, Unseen, Working, Served, Chain
  <1> QED
    BY <1>1, VirtioInvInit, VirtioInvStep, PTL DEF VirtioSpec
-----------------------------------------------------------------------------
(* What the run has done when its next instruction is at `p'. *)
Before(p) == p \in {At("enter"), User(0), User(5), At("save-rsp"), At("load-rsp"), At("count")}

Done(p) ==
  /\ counts.finished = (IF p = At("returned") THEN 1 ELSE 0)
  /\ Before(p) => counts.syscalls = 0 /\ counts.faults = 0
  /\ ~Before(p) => counts.syscalls = 1 /\ values.syscall = 4660
  /\ p \in {At("restore-rsp"), At("sysretq"), User(7), At("page-fault")} => counts.faults = 0
  /\ p \in {User(17), User(22), At("finish"), At("returned")} => counts.faults = 1
  /\ p \in {User(5), At("save-rsp"), At("load-rsp"), At("count")} => rax = 4660
  /\ p \in {User(22), At("finish")} => rax = 22136
  /\ p = At("returned") => values.finish = 22136

InUser == {User(0), User(5), User(7), User(17), User(22)}

InEntry == {At("save-rsp"), At("load-rsp"), At("count"), At("restore-rsp"), At("sysretq")}

(* The one frame a handler runs on. *)
Pushed(from, level, stack) == <<[rip |-> from, cpl |-> level, flag |-> TRUE, rsp |-> stack]>>

(* Where the run is, on which stack, with which frames: a handler runs on  *)
(* exactly one frame, and ring 3 on none.                                  *)
AtEnter ==
  /\ rip = At("enter") /\ cpl = 0 /\ flag = TRUE /\ rsp = "boot"
  /\ stacks.boot = <<>> /\ stacks.ring0 = <<>> /\ Done(rip)
InProgram ==
  /\ rip \in InUser /\ cpl = 3 /\ flag = TRUE /\ rsp = "user"
  /\ stacks.boot = <<>> /\ stacks.ring0 = <<>> /\ Done(rip)
InSyscall ==
  /\ rip \in InEntry /\ cpl = 0 /\ flag = FALSE
  /\ rsp = (IF rip \in {At("count"), At("restore-rsp")} THEN "ring0" ELSE "user")
  /\ link = [rip |-> User(7), flag |-> TRUE]
  /\ stacks.boot = <<>> /\ stacks.ring0 = <<>> /\ Done(rip)
InFault ==
  /\ rip = At("page-fault") /\ cpl = 0 /\ flag = FALSE /\ rsp = "ring0"
  /\ stacks.boot = <<>> /\ stacks.ring0 = Pushed(User(7), 3, "user") /\ Done(rip)
InFinish ==
  /\ rip \in {At("finish"), At("returned")} /\ cpl = 0 /\ flag = FALSE
  /\ rsp = (IF rip = At("finish") THEN "ring0" ELSE "boot")
  /\ stacks.boot = <<>> /\ Done(rip)
InBootHandler ==
  /\ rip = At("handler") /\ cpl = 0 /\ flag = FALSE /\ rsp = "boot"
  /\ stacks.boot = Pushed(At("enter"), 0, "boot") /\ stacks.ring0 = <<>>
  /\ Done(At("enter"))
InHandler ==
  /\ rip = At("handler") /\ cpl = 0 /\ flag = FALSE /\ rsp = "ring0"
  /\ stacks.boot = <<>>
  /\ \E p \in InUser : stacks.ring0 = Pushed(p, 3, "user") /\ Done(p)

UserTypes ==
  /\ counts \in [syscalls : Nat, faults : Nat, finished : Nat]
  /\ values \in [syscall : Nat, finish : Nat] /\ rax \in Nat
  /\ DOMAIN stacks = {"boot", "ring0", "user"}
  /\ stacks.user = <<>>

UserInv ==
  /\ UserTypes
  /\ AtEnter \/ InProgram \/ InSyscall \/ InFault \/ InFinish \/ InBootHandler \/ InHandler

(* run_user_mode starts on an empty boot stack with nothing counted. *)
LEMMA UserInvInit == UserInit => UserInv
  BY SMT DEF UserInit, UserInv, UserTypes, AtEnter, Done, Before, At, User

(* The next instruction tells which part of the run it is. *)
LEMMA WhichPart ==
  ASSUME UserInv
  PROVE  /\ rip = At("enter") => AtEnter
         /\ rip \in InUser => InProgram
         /\ rip \in InEntry => InSyscall
         /\ rip = At("page-fault") => InFault
         /\ rip \in {At("finish"), At("returned")} => InFinish
         /\ rip = At("handler") => InBootHandler \/ InHandler
         /\ flag => AtEnter \/ InProgram
         /\ cpl = 3 => InProgram
         /\ rip # At("halted")
  <1> USE DEF At, User, InUser, InEntry
  <1>1. CASE AtEnter
    BY SMT, <1>1 DEF AtEnter
  <1>2. CASE InProgram
    BY SMT, <1>2 DEF InProgram
  <1>3. CASE InSyscall
    BY SMT, <1>3 DEF InSyscall
  <1>4. CASE InFault
    BY SMT, <1>4 DEF InFault
  <1>5. CASE InFinish
    BY SMT, <1>5 DEF InFinish
  <1>6. CASE InBootHandler
    BY SMT, <1>6 DEF InBootHandler
  <1>7. CASE InHandler
    BY SMT, <1>7 DEF InHandler
  <1> QED
    BY <1>1, <1>2, <1>3, <1>4, <1>5, <1>6, <1>7 DEF UserInv

(* What a frame alone on a stack gives back. *)
LEMMA FrameFacts ==
  ASSUME NEW from, NEW level, NEW stack
  PROVE  /\ Pushed(from, level, stack)[1] = [rip |-> from, cpl |-> level, flag |-> TRUE, rsp |-> stack]
         /\ Len(Pushed(from, level, stack)) = 1
         /\ SubSeq(Pushed(from, level, stack), 1, 0) = <<>>
         /\ Append(<<>>, [rip |-> from, cpl |-> level, flag |-> TRUE, rsp |-> stack])
              = Pushed(from, level, stack)
  BY SMT DEF Pushed

(* An iretq with one frame on the stack in use. *)
LEMMA ReturnFacts ==
  ASSUME NEW from, NEW level, NEW stack, stacks[rsp] = Pushed(from, level, stack)
  PROVE  /\ Top.rip = from /\ Top.cpl = level /\ Top.rsp = stack /\ Top.flag = TRUE
         /\ SubSeq(stacks[rsp], 1, Len(stacks[rsp]) - 1) = <<>>
  <1>1. Top = [rip |-> from, cpl |-> level, flag |-> TRUE, rsp |-> stack]
    BY SMT, FrameFacts DEF Top
  <1>2. Top.rip = from /\ Top.cpl = level /\ Top.rsp = stack /\ Top.flag = TRUE
    BY <1>1
  <1>3. Len(Pushed(from, level, stack)) = 1 /\ SubSeq(Pushed(from, level, stack), 1, 0) = <<>>
    BY SMT DEF Pushed
  <1>4. Len(stacks[rsp]) = 1
    BY <1>3
  <1>5. Len(stacks[rsp]) - 1 = 0
    BY SMT, <1>4
  <1>6. SubSeq(stacks[rsp], 1, 0) = <<>>
    BY <1>3, Zenon
  <1>7. SubSeq(stacks[rsp], 1, Len(stacks[rsp]) - 1) = <<>>
    BY <1>5, <1>6, Zenon
  <1> QED
    BY <1>2, <1>7

(* Every instruction, and every interrupt before one, keeps the frames and *)
(* the counts where UserInv says.                                          *)
LEMMA UserInvStep == UserInv /\ [UserNext]_userVars => UserInv'
  <1> SUFFICES ASSUME UserInv, [UserNext]_userVars PROVE UserInv'
    OBVIOUS
  <1> USE DEF InUser, InEntry, At, User
  <1>0. ASSUME UNCHANGED <<counts, values, rax>> PROVE \A p : Done(p)' = Done(p)
    BY SMT, <1>0 DEF Done, Before
  <1>1. CASE thermite_enter_user
    <2>1. AtEnter /\ UserTypes
      BY <1>1, WhichPart DEF thermite_enter_user, UserInv
    <2>2. UserTypes'
      BY SMT, <1>1, <2>1 DEF thermite_enter_user, UserTypes
    <2>3. Done(rip)'
      BY SMT, <1>1, <2>1 DEF thermite_enter_user, AtEnter, Done, Before
    <2>4. InProgram'
      BY <1>1, <2>1, <2>3 DEF thermite_enter_user, AtEnter, InProgram
    <2> QED
      BY <2>2, <2>4 DEF UserInv
  <1>2. ASSUME NEW offset \in {0, 17}, NEW value \in Nat, user_move(offset, value),
               offset = 0 => value = 4660, offset = 17 => value = 22136
        PROVE  UserInv'
    <2>1. InProgram /\ UserTypes
      BY SMT, <1>2, WhichPart DEF user_move, UserInv
    <2>2. UserTypes'
      BY SMT, <1>2, <2>1 DEF user_move, UserTypes
    <2>3. rip' \in {User(5), User(22)}
      BY SMT, <1>2 DEF user_move
    <2>4. Done(rip)'
      <3>1. CASE offset = 0
        BY SMT, <1>2, <2>1, <3>1 DEF user_move, InProgram, Done, Before
      <3>2. CASE offset = 17
        BY SMT, <1>2, <2>1, <3>2 DEF user_move, InProgram, Done, Before
      <3> QED
        BY SMT, <3>1, <3>2
    <2>5. InProgram'
      BY SMT, <1>2, <2>1, <2>3, <2>4 DEF user_move, InProgram
    <2> QED
      BY SMT, <2>2, <2>5 DEF UserInv
  <1>3. CASE user_syscall
    <2>1. InProgram /\ UserTypes
      BY SMT, <1>3, WhichPart DEF user_syscall, UserInv
    <2>2. UserTypes'
      BY <1>3, <2>1 DEF user_syscall, UserTypes
    <2>3. Done(rip)'
      BY SMT, <1>3, <2>1 DEF user_syscall, InProgram, Done, Before
    <2>4. InSyscall'
      BY <1>3, <2>1, <2>3 DEF user_syscall, InProgram, InSyscall, FlagAtEntry
    <2> QED
      BY <2>2, <2>4 DEF UserInv
  <1>4. CASE entry_save_rsp
    <2>1. InSyscall /\ UserTypes
      BY <1>4, WhichPart DEF entry_save_rsp, UserInv
    <2>2. UserTypes'
      BY SMTT(30), <1>4, <2>1 DEF entry_save_rsp, UserTypes
    <2>3. Done(rip)'
      BY SMT, <1>4, <2>1 DEF entry_save_rsp, InSyscall, Done, Before
    <2>4. InSyscall'
      BY <1>4, <2>1, <2>3 DEF entry_save_rsp, InSyscall
    <2> QED
      BY <2>2, <2>4 DEF UserInv
  <1>5. CASE entry_load_rsp
    <2>1. InSyscall /\ UserTypes
      BY <1>5, WhichPart DEF entry_load_rsp, UserInv
    <2>2. UserTypes'
      BY SMT, <1>5, <2>1 DEF entry_load_rsp, UserTypes
    <2>3. Done(rip)'
      BY SMT, <1>5, <2>1 DEF entry_load_rsp, InSyscall, Done, Before
    <2>4. stacks'.boot = stacks.boot /\ stacks'.ring0 = <<>>
      BY <1>5, <2>1 DEF entry_load_rsp, UserTypes
    <2>5. InSyscall'
      BY <1>5, <2>1, <2>3, <2>4 DEF entry_load_rsp, InSyscall
    <2> QED
      BY <2>2, <2>5 DEF UserInv
  <1>6. CASE entry_count
    <2>1. InSyscall /\ UserTypes
      BY <1>6, WhichPart DEF entry_count, UserInv
    <2>2. UserTypes'
      BY SMT, <1>6, <2>1 DEF entry_count, UserTypes
    <2>3. Done(rip)'
      BY SMT, <1>6, <2>1 DEF entry_count, InSyscall, UserTypes, Done, Before
    <2>4. InSyscall'
      BY <1>6, <2>1, <2>3 DEF entry_count, InSyscall
    <2> QED
      BY <2>2, <2>4 DEF UserInv
  <1>7. CASE entry_restore_rsp
    <2>1. InSyscall /\ UserTypes
      BY <1>7, WhichPart DEF entry_restore_rsp, UserInv
    <2>2. UserTypes'
      BY SMTT(30), <1>7, <2>1 DEF entry_restore_rsp, UserTypes
    <2>3. Done(rip)'
      BY SMT, <1>7, <2>1 DEF entry_restore_rsp, InSyscall, Done, Before
    <2>4. InSyscall'
      BY <1>7, <2>1, <2>3 DEF entry_restore_rsp, InSyscall
    <2> QED
      BY <2>2, <2>4 DEF UserInv
  <1>8. CASE sysretq
    <2>1. InSyscall /\ UserTypes
      BY <1>8, WhichPart DEF sysretq, UserInv
    <2>2. UserTypes'
      BY <1>8, <2>1 DEF sysretq, UserTypes
    <2>3. rip' = User(7) /\ flag' = TRUE
      BY SMTT(30), <1>8, <2>1 DEF sysretq, InSyscall
    <2>4. Done(rip)'
      BY SMT, <1>8, <2>1, <2>3 DEF sysretq, InSyscall, Done, Before
    <2>5. InProgram'
      BY <1>8, <2>1, <2>3, <2>4 DEF sysretq, InSyscall, InProgram
    <2> QED
      BY <2>2, <2>5 DEF UserInv
  <1>9. CASE user_load
    <2>1. InProgram /\ UserTypes
      BY <1>9, WhichPart DEF user_load, UserInv
    <2>2. stacks' = [stacks EXCEPT !["ring0"] = Pushed(User(7), 3, "user")]
      BY <1>9, <2>1 DEF user_load, Enters, Target, Pushed, InProgram
    <2>3. /\ rip' = At("page-fault") /\ cpl' = 0 /\ flag' = FALSE /\ rsp' = "ring0"
          /\ UNCHANGED <<link, rax, counts, values>>
      BY SMT, <1>9, <2>1 DEF user_load, Enters, Target, InProgram
    <2>4. Done(rip)'
      BY SMT, <1>9, <2>1, <2>3 DEF user_load, InProgram, Done, Before
    <2>5. DOMAIN stacks' = DOMAIN stacks /\ stacks'.user = stacks.user /\ stacks'.boot = stacks.boot
          /\ stacks'.ring0 = Pushed(User(7), 3, "user")
      BY <2>1, <2>2 DEF UserTypes
    <2>6. UserTypes'
      BY <2>1, <2>3, <2>5 DEF UserTypes
    <2>7. InFault'
      BY <2>1, <2>3, <2>4, <2>5 DEF InProgram, InFault
    <2> QED
      BY <2>6, <2>7 DEF UserInv
  <1>10. CASE thermite_page_fault_handler
    <2>1. InFault /\ UserTypes
      BY <1>10, WhichPart DEF thermite_page_fault_handler, UserInv
    <2>2. stacks[rsp] = Pushed(User(7), 3, "user")
      BY <2>1 DEF InFault
    <2>3. /\ Top.rip = User(7) /\ Top.cpl = 3 /\ Top.rsp = "user" /\ Top.flag = TRUE
          /\ SubSeq(stacks[rsp], 1, Len(stacks[rsp]) - 1) = <<>>
      BY <2>2, ReturnFacts
    <2>4. Top.cpl = 3 /\ User(Top.rip[2] + FaultSkip) = User(17)
      BY SMT, <2>3 DEF FaultSkip
    <2>5. iretq(User(17)) /\ counts' = [counts EXCEPT !.faults = @ + 1] /\ UNCHANGED <<link, rax, values>>
      BY <1>10, <2>4 DEF thermite_page_fault_handler
    <2>6. /\ rip' = User(17) /\ cpl' = 3 /\ flag' = TRUE /\ rsp' = "user"
          /\ stacks' = [stacks EXCEPT !["ring0"] = <<>>]
      BY <2>1, <2>5, <2>3 DEF iretq, InFault
    <2>7. Done(rip)'
      BY SMT, <2>1, <2>5, <2>6 DEF InFault, UserTypes, Done, Before
    <2>8. DOMAIN stacks' = DOMAIN stacks /\ stacks'.user = stacks.user /\ stacks'.boot = stacks.boot
          /\ stacks'.ring0 = <<>>
      BY <2>1, <2>6 DEF UserTypes
    <2>9. UserTypes'
      BY SMT, <2>1, <2>5, <2>8 DEF UserTypes
    <2>10. InProgram'
      BY <2>1, <2>6, <2>7, <2>8 DEF InFault, InProgram
    <2> QED
      BY <2>9, <2>10 DEF UserInv
  <1>11. CASE user_finish
    <2>1. InProgram /\ UserTypes
      BY <1>11, WhichPart DEF user_finish, UserInv
    <2>2. /\ rip' = At("finish") /\ cpl' = 0 /\ flag' = FALSE /\ rsp' = "ring0"
          /\ UNCHANGED <<link, rax, counts, values>>
      BY <1>11, <2>1 DEF user_finish, Enters, Target, InProgram
    <2>3. /\ DOMAIN stacks' = DOMAIN stacks /\ stacks'.user = stacks.user
          /\ stacks'.boot = stacks.boot
      BY <1>11, <2>1 DEF user_finish, Enters, Target, InProgram, UserTypes
    <2>4. Done(rip)'
      BY SMT, <1>11, <2>1, <2>2 DEF user_finish, InProgram, Done, Before
    <2>5. UserTypes'
      BY <2>1, <2>2, <2>3 DEF UserTypes
    <2>6. InFinish'
      BY <2>1, <2>2, <2>3, <2>4 DEF InProgram, InFinish
    <2> QED
      BY <2>5, <2>6 DEF UserInv
  <1>12. CASE thermite_user_finish_handler
    <2>1. InFinish /\ UserTypes
      BY <1>12, WhichPart DEF thermite_user_finish_handler, UserInv
    <2>2. UserTypes'
      BY SMT, <1>12, <2>1 DEF thermite_user_finish_handler, UserTypes
    <2>3. Done(rip)'
      BY SMT, <1>12, <2>1 DEF thermite_user_finish_handler, InFinish, UserTypes, Done, Before
    <2>4. InFinish'
      BY <1>12, <2>1, <2>3 DEF thermite_user_finish_handler, InFinish
    <2> QED
      BY <2>2, <2>4 DEF UserInv
  <1>13. CASE take_interrupt
    <2>1. (AtEnter \/ InProgram) /\ UserTypes
      BY <1>13, WhichPart DEF take_interrupt, UserInv
    <2>2. UNCHANGED <<counts, values, rax>> /\ \A p : Done(p)' = Done(p)
      BY <1>0, <1>13 DEF take_interrupt
    <2>3. Enters("handler", rip)
      BY <1>13 DEF take_interrupt
    <2>4. CASE AtEnter
      <3>1. rip = At("enter") /\ cpl = 0 /\ rsp = "boot" /\ flag = TRUE /\ stacks["boot"] = <<>>
        BY <2>4 DEF AtEnter
      <3>2. Target = "boot" /\ ~(cpl = 3)
        BY SMT, <3>1 DEF Target
      <3> DEFINE frame == [rip |-> rip, cpl |-> cpl, flag |-> flag, rsp |-> rsp]
      <3>3. stacks' = [stacks EXCEPT ![Target] = IF cpl = 3 THEN <<frame>> ELSE Append(@, frame)]
        BY <2>3, Zenon DEF Enters
      <3>4. frame = [rip |-> At("enter"), cpl |-> 0, flag |-> TRUE, rsp |-> "boot"]
        BY <3>1
      <3> HIDE DEF frame
      <3>5. stacks' = [stacks EXCEPT !["boot"] = Append(<<>>, frame)]
        BY <3>1, <3>2, <3>3
      <3>6. Append(<<>>, frame) = Pushed(At("enter"), 0, "boot")
        BY <3>4, FrameFacts, Zenon
      <3>7. stacks' = [stacks EXCEPT !["boot"] = Pushed(At("enter"), 0, "boot")]
        BY <3>5, <3>6, Zenon
      <3>8. /\ DOMAIN stacks' = DOMAIN stacks /\ stacks'.user = stacks.user
            /\ stacks'.ring0 = stacks.ring0 /\ stacks'.boot = Pushed(At("enter"), 0, "boot")
        BY <2>1, <3>7 DEF UserTypes
      <3>9. rip' = At("handler") /\ cpl' = 0 /\ flag' = FALSE /\ rsp' = "boot"
        BY <2>3, <3>2 DEF Enters
      <3>10. UserTypes'
        BY <2>1, <2>2, <3>8 DEF UserTypes
      <3>11. InBootHandler'
        BY <2>2, <2>4, <3>8, <3>9 DEF AtEnter, InBootHandler
      <3> QED
        BY <3>10, <3>11 DEF UserInv
    <2>5. CASE InProgram
      <3>1. cpl = 3 /\ rsp = "user" /\ flag = TRUE /\ rip \in InUser /\ Done(rip)
        BY <2>5 DEF InProgram
      <3>2. stacks' = [stacks EXCEPT !["ring0"] = Pushed(rip, 3, "user")]
        BY <2>3, <3>1 DEF Enters, Target, Pushed
      <3>3. rip' = At("handler") /\ cpl' = 0 /\ flag' = FALSE /\ rsp' = "ring0"
        BY <2>3, <3>1 DEF Enters, Target
      <3>4. /\ DOMAIN stacks' = DOMAIN stacks /\ stacks'.user = stacks.user
            /\ stacks'.boot = stacks.boot /\ stacks'.ring0 = Pushed(rip, 3, "user")
        BY <2>1, <3>2 DEF UserTypes
      <3>5. PICK p \in InUser : p = rip
        BY <3>1
      <3>6. Done(p)' /\ stacks'.ring0 = Pushed(p, 3, "user")
        BY <2>2, <3>1, <3>4, <3>5
      <3>7. UserTypes'
        BY <2>1, <2>2, <3>4 DEF UserTypes
      <3>8. InHandler'
        BY <2>5, <3>3, <3>4, <3>6 DEF InProgram, InHandler
      <3> QED
        BY <3>7, <3>8 DEF UserInv
    <2> QED
      BY <2>1, <2>4, <2>5
  <1>14. CASE handler_return
    <2>1. (InBootHandler \/ InHandler) /\ UserTypes
      BY <1>14, WhichPart DEF handler_return, UserInv
    <2>2. UNCHANGED <<counts, values, rax>> /\ \A p : Done(p)' = Done(p)
      BY <1>0, <1>14 DEF handler_return
    <2>3. ASSUME NEW p, NEW level, NEW stack, stacks[rsp] = Pushed(p, level, stack)
          PROVE  /\ rip' = p /\ cpl' = level /\ flag' = TRUE /\ rsp' = stack
                 /\ stacks' = [stacks EXCEPT ![rsp] = <<>>]
      <3>1. /\ Top.rip = p /\ Top.cpl = level /\ Top.rsp = stack /\ Top.flag = TRUE
            /\ SubSeq(stacks[rsp], 1, Len(stacks[rsp]) - 1) = <<>>
        BY <2>3, ReturnFacts
      <3> QED
        BY <1>14, <3>1 DEF handler_return, iretq
    <2>4. CASE InBootHandler
      <3>1. rsp = "boot" /\ stacks["boot"] = Pushed(At("enter"), 0, "boot")
        BY <2>4 DEF InBootHandler
      <3>2. /\ rip' = At("enter") /\ cpl' = 0 /\ flag' = TRUE /\ rsp' = "boot"
            /\ stacks' = [stacks EXCEPT !["boot"] = <<>>]
        BY <2>3, <3>1
      <3>3. /\ DOMAIN stacks' = DOMAIN stacks /\ stacks'.user = stacks.user
            /\ stacks'.ring0 = stacks.ring0 /\ stacks'.boot = <<>>
        BY <2>1, <3>2 DEF UserTypes
      <3>4. Done(rip)'
        BY SMT, <2>2, <2>4, <3>2 DEF InBootHandler, Done, Before
      <3>5. UserTypes'
        BY <2>1, <2>2, <3>3 DEF UserTypes
      <3>6. AtEnter'
        BY <2>4, <3>2, <3>3, <3>4 DEF InBootHandler, AtEnter
      <3> QED
        BY <3>5, <3>6 DEF UserInv
    <2>5. CASE InHandler
      <3>1. PICK p \in InUser : stacks.ring0 = Pushed(p, 3, "user") /\ Done(p)
        BY <2>5 DEF InHandler
      <3>2. rsp = "ring0" /\ stacks[rsp] = Pushed(p, 3, "user")
        BY <2>5, <3>1 DEF InHandler
      <3>3. /\ rip' = p /\ cpl' = 3 /\ flag' = TRUE /\ rsp' = "user"
            /\ stacks' = [stacks EXCEPT ![rsp] = <<>>]
        BY <2>3, <3>2
      <3>4. /\ DOMAIN stacks' = DOMAIN stacks /\ stacks'.user = stacks.user
            /\ stacks'.boot = stacks.boot /\ stacks'.ring0 = <<>>
        BY SMTT(30), <2>1, <3>2, <3>3 DEF UserTypes
      <3>5. Done(rip)'
        <4>1. Done(p)'
          BY <2>2, <3>1
        <4> QED
          BY SMT, <2>2, <3>3, <4>1 DEF Done, Before
      <3>6. UserTypes'
        BY <2>1, <2>2, <3>4 DEF UserTypes
      <3>7. InProgram'
        BY <2>5, <3>3, <3>4, <3>5 DEF InHandler, InProgram
      <3> QED
        BY <3>6, <3>7 DEF UserInv
    <2> QED
      BY <2>1, <2>4, <2>5
  <1>15. CASE UNCHANGED userVars
    <2>1. UNCHANGED <<rip, cpl, flag, rsp, stacks, link>> /\ \A p : Done(p)' = Done(p)
      BY SMT, <1>0, <1>15 DEF userVars
    <2>2. Done(rip)' = Done(rip)
      BY SMT, <1>15 DEF userVars, Done, Before
    <2>3. UserTypes'
      BY <1>15 DEF userVars, UserInv, UserTypes
    <2>4. /\ AtEnter' = AtEnter /\ InProgram' = InProgram /\ InSyscall' = InSyscall
          /\ InFault' = InFault /\ InFinish' = InFinish
      BY <2>1, <2>2 DEF AtEnter, InProgram, InSyscall, InFault, InFinish
    <2>5. InBootHandler' = InBootHandler /\ InHandler' = InHandler
      BY SMT, <2>1 DEF InBootHandler, InHandler
    <2> QED
      BY <2>3, <2>4, <2>5 DEF UserInv
  <1> QED
    BY SMTT(30), <1>1, <1>2, <1>3, <1>4, <1>5, <1>6, <1>7, <1>8, <1>9, <1>10, <1>11, <1>12, <1>13, <1>14,
       <1>15
    DEF UserNext

(* No frame of the kernel is ever on the user stack and ring 3 never runs  *)
(* over one, for any number of interrupts.                                 *)
THEOREM KernelStackPrivateHolds == UserSpec => []KernelStackPrivate
  <1>1. UserInv => KernelStackPrivate
    <2> SUFFICES ASSUME UserInv PROVE KernelStackPrivate
      OBVIOUS
    <2>1. stacks.user = <<>>
      BY DEF UserInv, UserTypes
    <2>2. cpl = 3 => stacks.boot = <<>> /\ stacks.ring0 = <<>>
      BY WhichPart DEF InProgram
    <2>3. cpl = 0 /\ rsp = "user" => ~flag
      BY SMT, WhichPart DEF AtEnter, InProgram
    <2> QED
      BY <2>1, <2>2, <2>3 DEF KernelStackPrivate
  <1> QED
    BY <1>1, UserInvInit, UserInvStep, PTL DEF UserSpec

(* run_user_mode finds the counts and the values it checks, for any number *)
(* of interrupts, wherever they fall.                                      *)
THEOREM UserRunExactHolds == UserSpec => []UserRunExact
  <1>1. UserInv => UserRunExact
    <2>1. UserInv => rip # At("halted")
      BY SMT, WhichPart
    <2> SUFFICES ASSUME UserInv, rip = At("returned")
                 PROVE  /\ counts = [syscalls |-> 1, faults |-> 1, finished |-> 1]
                        /\ values = [syscall |-> 4660, finish |-> 22136]
                        /\ rsp = "boot" /\ stacks.boot = <<>>
      BY SMT, <2>1 DEF UserRunExact
    <2>2. Done(rip) /\ rsp = "boot" /\ stacks.boot = <<>>
      BY SMT, WhichPart DEF InFinish, At
    <2>3. /\ counts.syscalls = 1 /\ counts.faults = 1 /\ counts.finished = 1
          /\ values.syscall = 4660 /\ values.finish = 22136
      BY SMT, <2>2 DEF Done, Before, At, User
    <2> QED
      BY SMT, <2>2, <2>3 DEF UserInv, UserTypes
  <1> QED
    BY <1>1, UserInvInit, UserInvStep, PTL DEF UserSpec
-----------------------------------------------------------------------------
(* memmove copies, for memories of every size and contents: the loop       *)
(* invariant of each direction says which prefix or suffix has been moved  *)
(* and that the rest of memory, the part of the source still to be read    *)
(* included, is as it was.                                                 *)
InRanges ==
  /\ rcx \in Nat /\ rdx \in Nat /\ r8 \in Nat /\ r10 \in Nat
  /\ rcx + r8 <= MemoryEnd /\ rdx + r8 <= MemoryEnd

(* The bytes of the offsets from low up to high have been moved. *)
MovedFrom(low, high) ==
  \A a \in Addresses :
    memory[a] = IF rcx + low <= a /\ a < rcx + high THEN Contents[a - rcx + rdx]
                ELSE Contents[a]

MoveInv ==
  /\ InRanges
  /\ DOMAIN memory = Addresses
  /\ at \in {"entry", "forward", "backward", "ret"}
  /\ at = "entry" => MovedFrom(0, 0)
  /\ at = "forward" => Forward /\ r10 < r8 /\ MovedFrom(0, r10)
  /\ at = "backward" => ~Forward /\ 0 < r10 /\ r10 <= r8 /\ MovedFrom(r10, r8)
  /\ at = "ret" => MovedFrom(0, r8)

(* The start: nothing has been moved. *)
LEMMA MoveInvInit == MoveInit => MoveInv
  BY SMT, MemMoveAssumption DEF MoveInit, MoveInv, InRanges, MovedFrom, Addresses

(* The direction is chosen before anything is moved. *)
LEMMA ChooseDirectionKeeps == MoveInv /\ choose_direction => MoveInv'
<1> SUFFICES ASSUME MoveInv, choose_direction PROVE MoveInv'
  OBVIOUS
<1> USE MemMoveAssumption
<1>1. InRanges' /\ DOMAIN memory' = Addresses
  BY SMT DEF MoveInv, choose_direction, InRanges
<1>2. MovedFrom(0, 0) /\ UNCHANGED <<memory, rcx, rdx, r8>>
  BY DEF MoveInv, choose_direction
<1>3. \A n \in Nat : MovedFrom(n, n)'
  BY SMT, <1>1, <1>2 DEF MovedFrom, InRanges, Addresses
<1>4. CASE r8 = 0 /\ at' = "ret" /\ r10' = r10
  BY <1>1, <1>2, <1>3, <1>4 DEF MoveInv, InRanges
<1>5. CASE r8 # 0 /\ Forward /\ at' = "forward" /\ r10' = 0
  BY SMTT(30), <1>1, <1>2, <1>3, <1>5 DEF MoveInv, InRanges, Forward
<1>6. CASE r8 # 0 /\ ~Forward /\ at' = "backward" /\ r10' = r8
  BY SMT, <1>1, <1>2, <1>3, <1>6 DEF MoveInv, InRanges, Forward
<1> QED
  BY <1>4, <1>5, <1>6 DEF choose_direction

(* Forward, the next byte of the source is not in the part already         *)
(* written, which ends before it or lies wholly above the source.          *)
LEMMA MoveForwardKeeps == MoveInv /\ move_forward => MoveInv'
<1> SUFFICES ASSUME MoveInv, move_forward PROVE MoveInv'
  OBVIOUS
<1> USE MemMoveAssumption
<1>1. InRanges /\ Forward /\ r10 < r8 /\ MovedFrom(0, r10) /\ DOMAIN memory = Addresses
  BY DEF MoveInv, move_forward
<1>2. /\ r10' = r10 + 1 /\ UNCHANGED <<rcx, rdx, r8>>
      /\ memory' = [memory EXCEPT ![rcx + r10] = memory[rdx + r10]]
      /\ at' = IF r10 + 1 < r8 THEN "forward" ELSE "ret"
  BY DEF move_forward
<1>3. rcx + r10 \in Addresses /\ rdx + r10 \in Addresses
  BY SMT, <1>1 DEF InRanges, Addresses
<1>4. memory[rdx + r10] = Contents[rdx + r10]
  BY SMTT(30), <1>1, <1>3 DEF InRanges, Forward, MovedFrom
<1>5. MovedFrom(0, r10)'
  <2> SUFFICES ASSUME NEW a \in Addresses
               PROVE memory'[a] = IF rcx + 0 <= a /\ a < rcx + (r10 + 1)
                                  THEN Contents[a - rcx + rdx] ELSE Contents[a]
    BY <1>2 DEF MovedFrom
  <2>1. CASE a = rcx + r10
    <3>1. a - rcx + rdx = rdx + r10
      BY SMT, <2>1, <1>1 DEF InRanges
    <3> QED
      BY SMT, <2>1, <3>1, <1>1, <1>2, <1>3, <1>4 DEF InRanges
  <2>2. CASE a # rcx + r10
    <3>1. memory'[a] = memory[a]
      BY <2>2, <1>1, <1>2
    <3>2. memory[a] = IF rcx + 0 <= a /\ a < rcx + r10 THEN Contents[a - rcx + rdx]
                      ELSE Contents[a]
      BY <1>1 DEF MovedFrom
    <3>3. (rcx + 0 <= a /\ a < rcx + r10) <=> (rcx + 0 <= a /\ a < rcx + (r10 + 1))
      BY SMT, <2>2, <1>1 DEF InRanges, Addresses
    <3> QED
      BY <3>1, <3>2, <3>3
  <2> QED
    BY <2>1, <2>2
<1>6. InRanges' /\ DOMAIN memory' = Addresses /\ Forward'
  BY SMT, <1>1, <1>2 DEF InRanges, Forward
<1>7. CASE r10 + 1 < r8
  BY <1>1, <1>2, <1>5, <1>6, <1>7 DEF MoveInv, InRanges
<1>8. CASE ~(r10 + 1 < r8)
  <2>1. r10 + 1 = r8
    BY SMT, <1>1, <1>8 DEF InRanges
  <2> QED
    BY <1>1, <1>2, <1>5, <1>6, <2>1 DEF MoveInv, InRanges
<1> QED
  BY <1>7, <1>8

(* Backward, the destination lies above the source, and so does all that   *)
(* has been written.                                                       *)
LEMMA MoveBackwardKeeps == MoveInv /\ move_backward => MoveInv'
<1> SUFFICES ASSUME MoveInv, move_backward PROVE MoveInv'
  OBVIOUS
<1> USE MemMoveAssumption
<1>1. /\ InRanges /\ ~Forward /\ 0 < r10 /\ r10 <= r8 /\ MovedFrom(r10, r8)
      /\ DOMAIN memory = Addresses
  BY DEF MoveInv, move_backward
<1>2. /\ r10' = r10 - 1 /\ UNCHANGED <<rcx, rdx, r8>>
      /\ memory' = [memory EXCEPT ![rcx + r10 - 1] = memory[rdx + r10 - 1]]
      /\ at' = IF r10 - 1 # 0 THEN "backward" ELSE "ret"
  BY DEF move_backward
<1>3. rcx + r10 - 1 \in Addresses /\ rdx + r10 - 1 \in Addresses
  BY SMT, <1>1 DEF InRanges, Addresses
<1>4. memory[rdx + r10 - 1] = Contents[rdx + r10 - 1]
  BY SMT, <1>1, <1>3 DEF InRanges, Forward, MovedFrom
<1>5. MovedFrom(r10, r8)'
  <2> SUFFICES ASSUME NEW a \in Addresses
               PROVE memory'[a] = IF rcx + (r10 - 1) <= a /\ a < rcx + r8
                                  THEN Contents[a - rcx + rdx] ELSE Contents[a]
    BY <1>2 DEF MovedFrom
  <2>1. CASE a = rcx + r10 - 1
    <3>1. a - rcx + rdx = rdx + r10 - 1
      BY SMT, <2>1, <1>1 DEF InRanges
    <3>2. memory'[a] = Contents[rdx + r10 - 1]
      BY <2>1, <1>1, <1>2, <1>3, <1>4
    <3>3. rcx + (r10 - 1) <= a /\ a < rcx + r8
      BY SMT, <2>1, <1>1 DEF InRanges, Addresses
    <3> QED
      BY <3>1, <3>2, <3>3
  <2>2. CASE a # rcx + r10 - 1
    <3>1. memory'[a] = memory[a]
      BY <2>2, <1>1, <1>2
    <3>2. memory[a] = IF rcx + r10 <= a /\ a < rcx + r8 THEN Contents[a - rcx + rdx]
                      ELSE Contents[a]
      BY <1>1 DEF MovedFrom
    <3>3. (rcx + r10 <= a /\ a < rcx + r8) <=> (rcx + (r10 - 1) <= a /\ a < rcx + r8)
      BY SMT, <2>2, <1>1 DEF InRanges, Addresses
    <3> QED
      BY <3>1, <3>2, <3>3
  <2> QED
    BY <2>1, <2>2
<1>6. InRanges' /\ DOMAIN memory' = Addresses /\ ~(Forward')
  <2>1. r10 - 1 \in Nat
    BY SMT, <1>1 DEF InRanges
  <2>2. InRanges' /\ ~(Forward')
    BY <2>1, <1>1, <1>2 DEF InRanges, Forward
  <2> QED
    BY <2>2, <1>1, <1>2
<1>7. CASE r10 - 1 # 0
  BY SMT, <1>1, <1>2, <1>5, <1>6, <1>7 DEF MoveInv, InRanges
<1>8. CASE r10 - 1 = 0
  BY <1>1, <1>2, <1>5, <1>6, <1>8 DEF MoveInv, InRanges
<1> QED
  BY <1>7, <1>8

(* memmove is a copy, however source and destination overlap: MoveIsCopy   *)
(* for every memory, every contents and all arguments.                     *)
THEOREM MoveIsCopyHolds == MoveSpec => []MoveIsCopy
<1>1. MoveInv /\ [MoveNext]_moveVars => MoveInv'
  <2>1. MoveInv /\ UNCHANGED moveVars => MoveInv'
    BY DEF MoveInv, moveVars, InRanges, MovedFrom, Forward
  <2> QED
    BY <2>1, ChooseDirectionKeeps, MoveForwardKeeps, MoveBackwardKeeps DEF MoveNext
<1>2. MoveInv => MoveIsCopy
  BY SMT DEF MoveInv, MoveIsCopy, MovedFrom, Copied, InRanges
<1> QED
  BY MoveInvInit, <1>1, <1>2, PTL DEF MoveSpec
-----------------------------------------------------------------------------
(* The handoff.  Stages of run, and those of them after the last check     *)
(* that is made with the firmware untouched.                               *)
Running == {"fixtures", "xapic", "trampoline", "heap", "map", "exit", "takeover", "start_aps",
            "power", "Reboot", "PowerOff", "spin"}
Leaving == {"map", "exit", "takeover", "start_aps", "power", "Reboot", "PowerOff", "spin", "returned"}

(* What a step of the probe before run does: it is none of run, and        *)
(* efi_main returns in it with an error or not at all.                     *)
ProbeStep ==
  /\ bsp_pc \notin Running \cup {"returned"} /\ bsp_pc' \notin Running
  /\ IF bsp_pc' = "returned" THEN failed_at' # "none" ELSE UNCHANGED failed_at

(* The probe leaves the machine as it is. *)
LEMMA BootStaysOut ==
  ASSUME BootNext
  PROVE  /\ UNCHANGED topology
         /\ UNCHANGED <<bsp_pc, failed_at>> \/ ProbeStep
<1> USE DEF ProbeStep
<1>1. ASSUME NEW p \in topology.enabled, ApStep(p) PROVE UNCHANGED <<topology, bsp_pc, failed_at>>
  BY <1>1 DEF ApStep, ApAt, ap_enter, ap_arrive, ap_rendezvous, ap_task, ap_ticket, ap_lock,
     ap_unlock, ap_once, ap_active, observe_load, observe_retry, observe_done, ap_leave, ipi_entry
<1>2. ASSUME lookups \/ normalized_handoff \/ memory_map_probe \/ block_probe
      PROVE  UNCHANGED topology /\ ProbeStep
  BY <1>2 DEF lookups, normalized_handoff, memory_map_probe, block_probe, Checked, Fail, BspAt, Running
<1>3. ASSUME cpu_discovery \/ startup \/ scheduler_invariants \/ ipi_broadcast
             \/ ipi_acknowledgement \/ monotonic_clock \/ smp_invariants
      PROVE  UNCHANGED topology /\ ProbeStep
  BY <1>3 DEF cpu_discovery, startup, scheduler_invariants, ipi_broadcast, ipi_acknowledgement,
     monotonic_clock, smp_invariants, Fail, BspAt, Running
<1>4. ASSUME dispatch_done("startup-all-aps", "bsp-work")
             \/ dispatch_done("ipi-broadcast", "ipi-acknowledgement")
      PROVE  UNCHANGED topology /\ ProbeStep
  BY <1>4 DEF dispatch_done, BspAt, Running
<1>5. ASSUME NEW stage \in Dispatches, dispatch_timeout(stage)
      PROVE  UNCHANGED topology /\ ProbeStep
  BY <1>5 DEF dispatch_timeout, Fail, Dispatches, Running
<1>6. QED BY <1>1, <1>2, <1>3, <1>4, <1>5 DEF BootNext, BspStep

(* The ids of the enabled processors of the machine. *)
AllIds == {topology.apic[p] : p \in topology.enabled}

(* What run has checked of the ids it will start the APs with: different,  *)
(* small enough for the tables, its own among them, and none missing but   *)
(* the one injected as failed.                                             *)
Started(ids) ==
  /\ IsInjective(ids) /\ Range(ids) \subseteq 0..(MAX_CPUS - 1)
  /\ bsp_apic_id \in Range(ids)
  /\ AllIds \ Range(ids) = {failed_apic} \ {None}

PowerActions == {"Reboot", "PowerOff"}

(* The inductive invariant: how far run is decides whether the firmware is *)
(* live, and what is known of the ids and the stacks.                      *)
HandoffInv ==
  /\ topology \in Topologies /\ power_action \in PowerActions
  /\ bsp_pc \notin Leaving => firmware = "live"
  /\ bsp_pc \in {"map", "exit"} => firmware # "gone"
  /\ bsp_pc \in {"takeover", "start_aps", "power"} => firmware = "gone" /\ key = map_key
  /\ bsp_pc \notin {"returned", "spin"} => failed_at = "none"
  /\ bsp_pc = "fixtures" => apic_ids = EnabledIds /\ Range(apic_ids) \subseteq 0..(MAX_CPUS - 1)
  /\ bsp_pc \in {"xapic", "trampoline"} => Started(apic_ids)
  /\ bsp_pc \in {"heap", "map", "exit", "takeover", "start_aps"} =>
       Started(apic_ids) /\ stack_tops = Range(apic_ids)

(* Initially the firmware is live and run has not been called. *)
LEMMA HandoffInitHolds == HandoffInit => HandoffInv
BY DEF HandoffInit, BootInit, ExitInit, HandoffInv, Leaving, PowerActions

(* The effective ids, once the checks of run passed. *)
LEMMA EffectiveIds ==
  ASSUME topology \in Topologies, apic_ids = EnabledIds, Range(apic_ids) \subseteq 0..(MAX_CPUS - 1),
         bsp_apic_id \in Range(apic_ids), NEW failed, Injectable(failed),
         IsInjective(Effective(failed))
  PROVE  LET ids == Effective(failed) IN
         /\ Range(ids) \subseteq 0..(MAX_CPUS - 1) /\ bsp_apic_id \in Range(ids)
         /\ AllIds \ Range(ids) = {failed} \ {None}
<1>1. Range(apic_ids) = AllIds BY DEF EnabledIds, Restrict, Range, AllIds
<1>2. Range(Effective(failed)) = AllIds \ {failed}
  BY <1>1 DEF Effective, Restrict, Range
<1>3. None \notin AllIds BY SMT, <1>1, BootAssumption DEF None
<1>4. failed # None => failed \in AllIds /\ failed # bsp_apic_id BY <1>1 DEF Injectable
<1>5. None # bsp_apic_id BY <1>1, <1>3
<1>6. QED BY <1>1, <1>2, <1>3, <1>4, <1>5

(* Every step of the probe, of run and of the firmware keeps it. *)
LEMMA HandoffStep ==
  ASSUME HandoffInv, [HandoffNext]_handoffVars
  PROVE  HandoffInv'
<1> USE DEF Leaving
<1>1. CASE BootNext /\ UNCHANGED exitVars
  <2>1. UNCHANGED topology /\ (UNCHANGED <<bsp_pc, failed_at>> \/ ProbeStep)
    BY <1>1, BootStaysOut
  <2>2. CASE UNCHANGED <<bsp_pc, failed_at>>
    BY <1>1, <2>1, <2>2 DEF HandoffInv, exitVars, Started, AllIds, bsp_apic_id, EnabledIds
  <2>3. CASE ProbeStep
    BY <1>1, <2>1, <2>3 DEF HandoffInv, exitVars, ProbeStep, Running
  <2>4. QED BY <2>1, <2>2, <2>3
<1>2. CASE inventory
  <2>1. bsp_pc = "inventory" /\ UNCHANGED <<topology, firmware, power_action>>
    BY <1>2 DEF inventory, Fail, BspAt
  <2>2. CASE bsp_pc' = "returned" BY <2>1, <2>2 DEF HandoffInv
  <2>3. CASE /\ bsp_pc' = "fixtures" /\ failed_at' = failed_at /\ apic_ids' = EnabledIds
             /\ \A id \in Range(EnabledIds) : id < MAX_CPUS
    <3>1. EnabledIds' = EnabledIds BY <2>1 DEF EnabledIds
    <3>2. topology.enabled \subseteq DOMAIN topology.apic /\ \A p \in DOMAIN topology.apic : topology.apic[p] \in Nat
      BY BootAssumption DEF HandoffInv
    <3>3. Range(EnabledIds) \subseteq Nat BY <3>2 DEF EnabledIds, Restrict, Range
    <3>4. Range(EnabledIds) \subseteq 0..(MAX_CPUS - 1) BY SMT, <2>3, <3>3, BootAssumption
    <3>5. QED BY <2>1, <2>3, <3>1, <3>4 DEF HandoffInv
  <2>4. QED BY <1>2, <2>2, <2>3 DEF inventory, Fail, BspAt
<1>3. ASSUME NEW dir \in FwCfgs, fixtures(dir) PROVE HandoffInv'
  <2> DEFINE failed == fw_cfg_failure_apic(dir)
  <2>1. bsp_pc = "fixtures" /\ UNCHANGED topology BY <1>3 DEF fixtures, Spins, BspAt
  <2>2. CASE bsp_pc' = "spin" /\ UNCHANGED exitVars BY <2>1, <2>2 DEF HandoffInv, exitVars
  <2>3. CASE /\ bsp_apic_id \in Range(apic_ids) /\ Injectable(failed)
             /\ IsInjective(Effective(failed)) /\ bsp_pc' = "xapic"
             /\ apic_ids' = Effective(failed) /\ failed_apic' = failed
             /\ power_action' = fw_cfg_power_action(dir)
             /\ fw_cfg_power_action(dir) # "Injection"
             /\ UNCHANGED <<firmware, failed_at>>
    <3> HIDE DEF failed
    <3>1. /\ Range(Effective(failed)) \subseteq 0..(MAX_CPUS - 1)
          /\ bsp_apic_id \in Range(Effective(failed))
          /\ AllIds \ Range(Effective(failed)) = {failed} \ {None}
      BY <2>1, <2>3, EffectiveIds DEF HandoffInv
    <3>2. bsp_apic_id' = bsp_apic_id /\ AllIds' = AllIds BY <2>1 DEF bsp_apic_id, AllIds
    <3>3. Started(apic_ids)' BY <2>3, <3>1, <3>2 DEF Started
    <3>4. power_action' \in PowerActions BY <2>3 DEF fw_cfg_power_action, PowerActions
    <3>5. QED BY <2>1, <2>3, <3>3, <3>4 DEF HandoffInv
  <2>4. QED BY <1>3, <2>2, <2>3 DEF fixtures, Spins, BspAt, UniqueIds
<1>4. ASSUME setup_tables \/ install_trampoline \/ reserve_boot_heap \/ get_memory_map
             \/ exit_boot_services \/ takeover \/ rest_of_run \/ reset_system
      PROVE HandoffInv'
  <2>1. UNCHANGED <<topology, apic_ids, failed_apic, power_action>>
    BY <1>4 DEF setup_tables, install_trampoline, reserve_boot_heap, get_memory_map,
       exit_boot_services, takeover, rest_of_run, reset_system, BspAt, Spins, exitVars
  <2>2. Started(apic_ids)' = Started(apic_ids)
    BY <2>1 DEF Started, AllIds, bsp_apic_id
  <2>3. CASE setup_tables BY <2>1, <2>2, <2>3 DEF setup_tables, HandoffInv, BspAt, Spins, exitVars
  <2>4. CASE install_trampoline
    BY <2>1, <2>2, <2>4 DEF install_trampoline, HandoffInv, BspAt, Spins
  <2>5. CASE reserve_boot_heap
    BY <2>1, <2>2, <2>5 DEF reserve_boot_heap, HandoffInv, BspAt, Spins
  <2>6. CASE get_memory_map
    BY <2>1, <2>2, <2>6 DEF get_memory_map, HandoffInv, BspAt, Spins
  <2>7. CASE exit_boot_services
    BY <2>1, <2>2, <2>7 DEF exit_boot_services, HandoffInv, BspAt, Spins, RetriesFrom
  <2>8. CASE takeover BY <2>1, <2>2, <2>8 DEF takeover, HandoffInv, BspAt, Spins, exitVars
  <2>9. CASE rest_of_run BY <2>1, <2>2, <2>9 DEF rest_of_run, HandoffInv, BspAt, Spins, exitVars
  <2>10. CASE reset_system
    BY <2>1, <2>2, <2>10 DEF reset_system, HandoffInv, PowerActions, BspAt, exitVars
  <2>11. QED BY <1>4, <2>3, <2>4, <2>5, <2>6, <2>7, <2>8, <2>9, <2>10
<1>5. CASE firmware_tick
  <2>1. bsp_pc \in {"trampoline", "heap", "map", "exit"} /\ UNCHANGED <<bsp_pc, topology>>
        /\ UNCHANGED <<apic_ids, failed_apic, stack_tops, firmware, power_action, failed_at>>
    BY <1>5 DEF firmware_tick, bootVars
  <2>2. Started(apic_ids)' = Started(apic_ids)
    BY <2>1 DEF Started, AllIds, bsp_apic_id
  <2>3. QED BY <2>1, <2>2 DEF HandoffInv
<1>6. CASE UNCHANGED handoffVars
  BY <1>6 DEF handoffVars, bootVars, exitVars, HandoffInv, Started, AllIds, bsp_apic_id, EnabledIds
<1>7. QED BY <1>1, <1>2, <1>3, <1>4, <1>5, <1>6 DEF HandoffNext, RunStep

(* The invariant holds in every behaviour, for every topology and fw_cfg   *)
(* directory.                                                              *)
THEOREM HandoffInvHolds == HandoffSpec => []HandoffInv
<1>1. HandoffInv /\ [HandoffNext]_handoffVars => HandoffInv' BY HandoffStep
<1>2. QED BY <1>1, HandoffInitHolds, PTL DEF HandoffSpec

(* When run starts the APs it owns the machine: the firmware is gone, with *)
(* a map that was current, and the ids are those of this machine,          *)
(* different, with a stack each.                                           *)
THEOREM StartsWithOwnMachineHolds == HandoffSpec => []StartsWithOwnMachine
<1>1. HandoffInv => StartsWithOwnMachine
  BY DEF HandoffInv, StartsWithOwnMachine, Started, AllIds
<1>2. QED BY <1>1, HandoffInvHolds, PTL

(* What the action property says of one step. *)
UsesLiveFirmware ==
  bsp_pc' # bsp_pc =>
    /\ bsp_pc \in OtherCalls => firmware = "live"
    /\ bsp_pc \in MapCalls => firmware # "gone"
    /\ bsp_pc' = "returned" =>
         IF failed_at' = "none" THEN bsp_pc = "power" /\ firmware = "gone" ELSE firmware = "live"

(* run calls no boot service after the exit and only the two map services  *)
(* once an exit has been tried.  efi_main returns errors to a live         *)
(* firmware only, and success only after a whole run, when the machine was *)
(* not reset: for every topology, fw_cfg directory and number of timer     *)
(* ticks.                                                                  *)
THEOREM FirmwareOnlyWhileLiveHolds == HandoffSpec => FirmwareOnlyWhileLive
<1>1. HandoffInv /\ [HandoffNext]_handoffVars => [UsesLiveFirmware]_handoffVars
  <2> SUFFICES ASSUME HandoffInv, HandoffNext, bsp_pc' # bsp_pc PROVE UsesLiveFirmware
    BY DEF UsesLiveFirmware
  <2>1. bsp_pc \in OtherCalls => firmware = "live" BY DEF OtherCalls, HandoffInv, Leaving
  <2>2. bsp_pc \in MapCalls => firmware # "gone" BY DEF MapCalls, HandoffInv
  <2>3. bsp_pc' = "returned" =>
          IF failed_at' = "none" THEN bsp_pc = "power" /\ firmware = "gone" ELSE firmware = "live"
    <3> SUFFICES ASSUME bsp_pc' = "returned"
                 PROVE  \/ failed_at' = "none" /\ bsp_pc = "power" /\ firmware = "gone"
                        \/ failed_at' # "none" /\ firmware = "live"
      OBVIOUS
    <3>1. CASE BootNext
      <4>1. ProbeStep BY <3>1, BootStaysOut
      <4>2. QED BY <4>1 DEF ProbeStep, HandoffInv, Running, Leaving
    <3>2. CASE reset_system
      BY <3>2 DEF reset_system, BspAt, HandoffInv
    <3>3. CASE inventory
      BY <3>3 DEF inventory, Fail, BspAt, HandoffInv, Leaving
    <3>4. ASSUME \/ \E dir \in FwCfgs : fixtures(dir)
                 \/ setup_tables \/ install_trampoline \/ reserve_boot_heap \/ get_memory_map
                 \/ exit_boot_services \/ takeover \/ rest_of_run \/ firmware_tick
          PROVE  FALSE
      BY <3>4 DEF fixtures, setup_tables, install_trampoline, reserve_boot_heap, get_memory_map,
         exit_boot_services, takeover, rest_of_run, firmware_tick, bootVars, BspAt, Spins, RetriesFrom
    <3>5. QED BY <3>1, <3>2, <3>3, <3>4 DEF HandoffNext, RunStep
  <2>4. QED BY <2>1, <2>2, <2>3 DEF UsesLiveFirmware
<1>2. QED BY <1>1, HandoffInvHolds, PTL DEF HandoffSpec, FirmwareOnlyWhileLive, UsesLiveFirmware
-----------------------------------------------------------------------------
(* The interrupt controller.  A token is only made while interrupts are    *)
(* on, so every token ever made restores them to on.                       *)
LocalIrqState == [enabled : BOOLEAN, generation : 0..MaxIrqGen, outstanding : BOOLEAN]

Endings == [1..MaxIrqGen -> Nat]

IrqStateToken == [cpu : IrqCpus, generation : 1..MaxIrqGen, was_enabled : {TRUE}]

(* SectionsEndOnce for the state of one CPU and its endings. *)
Accounted(l, e) ==
  /\ l.enabled = ~l.outstanding
  /\ \A g \in 1..MaxIrqGen :
       e[g] = IF g < l.generation \/ (g = l.generation /\ ~l.outstanding) THEN 1 ELSE 0

IrqInv ==
  /\ DOMAIN locals \subseteq IrqCpus /\ \A c \in DOMAIN locals : locals[c] \in LocalIrqState
  /\ ended \in [IrqCpus -> Endings] /\ tokens \subseteq IrqStateToken
  /\ \A c \in DOMAIN locals : Accounted(locals[c], ended[c])

(* A CPU that was just added has had no section. *)
LEMMA AddedAccounted ==
  /\ [enabled |-> TRUE, generation |-> 0, outstanding |-> FALSE] \in LocalIrqState
  /\ NeverEnded \in Endings
  /\ Accounted([enabled |-> TRUE, generation |-> 0, outstanding |-> FALSE], NeverEnded)
<1> DEFINE new == [enabled |-> TRUE, generation |-> 0, outstanding |-> FALSE]
<1>1. 0 \in Nat /\ 0 \in 0..MaxIrqGen /\ \A g \in 1..MaxIrqGen : ~(g < 0) /\ g # 0
  BY SMT, IrqAssumption
<1>2. new.enabled = TRUE /\ new.generation = 0 /\ new.outstanding = FALSE /\ new \in LocalIrqState
  BY <1>1 DEF LocalIrqState
<1>3. NeverEnded \in Endings /\ \A g \in 1..MaxIrqGen : NeverEnded[g] = 0
  BY <1>1 DEF NeverEnded, Endings
<1> HIDE DEF new
<1>4. Accounted(new, NeverEnded) BY <1>1, <1>2, <1>3 DEF Accounted
<1>5. QED BY <1>2, <1>3, <1>4 DEF new

(* The section that save_disable opens has not ended. *)
LEMMA OpenedAccounted ==
  ASSUME NEW l \in LocalIrqState, NEW e \in Endings, Accounted(l, e),
         ~l.outstanding, l.generation < MaxIrqGen
  PROVE  /\ l.enabled = TRUE /\ l.generation + 1 \in 1..MaxIrqGen
         /\ [enabled |-> FALSE, generation |-> l.generation + 1, outstanding |-> TRUE]
              \in LocalIrqState
         /\ Accounted([enabled |-> FALSE, generation |-> l.generation + 1,
                       outstanding |-> TRUE], e)
<1>1. l.enabled = TRUE /\ l.generation \in 0..MaxIrqGen BY DEF LocalIrqState, Accounted
<1>2. l.generation + 1 \in 1..MaxIrqGen /\ l.generation + 1 \in 0..MaxIrqGen
      /\ \A g \in 1..MaxIrqGen : g < l.generation + 1 <=> g < l.generation \/ g = l.generation
  BY SMT, <1>1, IrqAssumption
<1> DEFINE open == [enabled |-> FALSE, generation |-> l.generation + 1, outstanding |-> TRUE]
<1>3. open.enabled = FALSE /\ open.generation = l.generation + 1 /\ open.outstanding = TRUE
  OBVIOUS
<1>4. open \in LocalIrqState BY <1>2 DEF LocalIrqState
<1> HIDE DEF open
<1>5. Accounted(open, e) BY <1>2, <1>3 DEF Accounted
<1>6. QED BY <1>1, <1>2, <1>4, <1>5 DEF open

(* The section that restore closes has ended once. *)
LEMMA ClosedAccounted ==
  ASSUME NEW l \in LocalIrqState, NEW e \in Endings, Accounted(l, e), l.outstanding,
         NEW g \in 1..MaxIrqGen, g = l.generation, NEW m, NEW f,
         m.enabled = TRUE, m.generation = g, m.outstanding = FALSE,
         f = [e EXCEPT ![g] = @ + 1]
  PROVE  f \in Endings /\ Accounted(m, f)
<1>1. e[g] = 0 /\ g \in Int
  <2>1. g \in Int /\ ~(g < g) BY SMT
  <2>2. QED BY <2>1 DEF Accounted
<1>2. f \in Endings /\ f[g] = 1 /\ \A h \in 1..MaxIrqGen : h # g => f[h] = e[h]
  <2>1. e[g] + 1 = 1 /\ 1 \in Nat BY SMT, <1>1
  <2>2. QED BY <2>1 DEF Endings
<1>3. ~(g < g) BY SMT, <1>1
<1>4. \A h \in 1..MaxIrqGen : f[h] = IF h < g \/ h = g THEN 1 ELSE 0
  <2>1. \A h \in 1..MaxIrqGen : h # g => f[h] = IF h < g THEN 1 ELSE 0
    BY <1>2 DEF Accounted
  <2>2. QED BY <1>2, <2>1
<1>5. QED BY <1>2, <1>4 DEF Accounted

(* No CPU has interrupts saved at first. *)
LEMMA IrqInvInit == IrqInit => IrqInv
  BY AddedAccounted DEF IrqInit, IrqInv

(* Every operation of IrqController keeps the account of the sections. *)
LEMMA IrqInvStep == IrqInv /\ [IrqNext]_irqVars => IrqInv'
  <1> SUFFICES ASSUME IrqInv, [IrqNext]_irqVars PROVE IrqInv'
    OBVIOUS
  <1>1. ASSUME NEW c \in IrqCpus, add_irq_cpu(c) PROVE IrqInv'
    <2> DEFINE new == [enabled |-> TRUE, generation |-> 0, outstanding |-> FALSE]
    <2>1. /\ locals' = [d \in DOMAIN locals \cup {c} |-> IF d = c THEN new ELSE locals[d]]
          /\ ended' = [ended EXCEPT ![c] = NeverEnded] /\ tokens' = tokens
      BY <1>1 DEF add_irq_cpu
    <2>2. new \in LocalIrqState /\ NeverEnded \in Endings /\ Accounted(new, NeverEnded)
      BY AddedAccounted
    <2> HIDE DEF new
    <2>3. DOMAIN locals' = DOMAIN locals \cup {c} /\ ended' \in [IrqCpus -> Endings]
      BY <2>1, <2>2 DEF IrqInv
    <2>4. \A d \in DOMAIN locals' : locals'[d] = IF d = c THEN new ELSE locals[d]
      BY <2>1
    <2>5. \A d \in IrqCpus : ended'[d] = IF d = c THEN NeverEnded ELSE ended[d]
      BY <2>1 DEF IrqInv
    <2> QED
      BY <2>1, <2>2, <2>3, <2>4, <2>5 DEF IrqInv
  <1>2. ASSUME NEW c \in IrqCpus, save_disable(c) PROVE IrqInv'
    <2> DEFINE g == locals[c].generation + 1
               closed == [enabled |-> FALSE, generation |-> g, outstanding |-> TRUE]
               made == [cpu |-> c, generation |-> g, was_enabled |-> locals[c].enabled]
    <2>1. /\ c \in DOMAIN locals /\ ~locals[c].outstanding /\ locals[c].generation < MaxIrqGen
          /\ locals' = [locals EXCEPT ![c] = closed] /\ tokens' = tokens \cup {made}
          /\ ended' = ended
      BY <1>2 DEF save_disable
    <2>2. /\ locals[c].enabled = TRUE /\ g \in 1..MaxIrqGen
          /\ closed \in LocalIrqState /\ Accounted(closed, ended[c])
      BY <2>1, OpenedAccounted DEF IrqInv
    <2>3. made \in IrqStateToken
      BY <2>2 DEF IrqStateToken
    <2> HIDE DEF closed, made
    <2>4. DOMAIN locals' = DOMAIN locals
      BY <2>1
    <2>5. \A d \in DOMAIN locals : locals'[d] = IF d = c THEN closed ELSE locals[d]
      BY <2>1
    <2> QED
      BY <2>1, <2>2, <2>3, <2>4, <2>5 DEF IrqInv
  <1>3. ASSUME NEW c \in IrqCpus, NEW t \in tokens, restore(c, t) PROVE IrqInv'
    <2> DEFINE l == locals[c]
               m == [l EXCEPT !.enabled = TRUE, !.outstanding = FALSE]
               f == [ended[c] EXCEPT ![t.generation] = @ + 1]
    <2>1. /\ c \in DOMAIN locals /\ l.outstanding /\ tokens' = tokens
          /\ t.cpu = c /\ t.generation = l.generation
          /\ locals' = [locals EXCEPT ![c].enabled = t.was_enabled, ![c].outstanding = FALSE]
          /\ ended' = [ended EXCEPT ![t.cpu][t.generation] = @ + 1]
      BY <1>3 DEF restore, NewestToken
    <2>2. t.was_enabled = TRUE /\ t.generation \in 1..MaxIrqGen /\ l \in LocalIrqState
      BY <2>1 DEF IrqInv, IrqStateToken
    <2>3. /\ m \in LocalIrqState
          /\ m.enabled = TRUE /\ m.generation = t.generation /\ m.outstanding = FALSE
      <3> DEFINE on == [l EXCEPT !.enabled = TRUE]
      <3>1. on \in LocalIrqState /\ on.enabled = TRUE /\ on.generation = l.generation
        BY <2>2 DEF LocalIrqState
      <3>2. m = [on EXCEPT !.outstanding = FALSE]
        OBVIOUS
      <3> HIDE DEF on, m
      <3> QED
        BY <2>1, <3>1, <3>2 DEF LocalIrqState
    <2>4. locals' = [locals EXCEPT ![c] = m]
      BY <2>1, <2>2
    <2>5. ended' = [ended EXCEPT ![c] = f]
      BY <2>1
    <2>6. f \in Endings /\ Accounted(m, f)
      <3> DEFINE e == ended[c]
                 g == t.generation
      <3>1. /\ e \in Endings /\ Accounted(l, e) /\ f = [e EXCEPT ![g] = @ + 1]
            /\ l \in LocalIrqState /\ l.outstanding /\ g \in 1..MaxIrqGen /\ g = l.generation
            /\ m.enabled = TRUE /\ m.generation = g /\ m.outstanding = FALSE
        BY <2>1, <2>2, <2>3 DEF IrqInv
      <3> HIDE DEF m, f, l, e, g
      <3> QED
        BY <3>1, ClosedAccounted
    <2> HIDE DEF m, f
    <2>7. DOMAIN locals' = DOMAIN locals /\ ended' \in [IrqCpus -> Endings]
      BY <2>3, <2>4, <2>5, <2>6 DEF IrqInv
    <2>8. \A d \in DOMAIN locals : locals'[d] = IF d = c THEN m ELSE locals[d]
      BY <2>4
    <2>9. \A d \in IrqCpus : ended'[d] = IF d = c THEN f ELSE ended[d]
      BY <2>5 DEF IrqInv
    <2> QED
      BY <2>1, <2>3, <2>6, <2>7, <2>8, <2>9 DEF IrqInv
  <1>4. ASSUME UNCHANGED <<locals, tokens, ended>> PROVE IrqInv'
    BY <1>4 DEF IrqInv
  <1> QED
    BY <1>1, <1>2, <1>3, <1>4
    DEF IrqNext, irqVars, route, end_of_interrupt, deliver, set_masked

(* Every critical section but the open one ended once, by its own token,   *)
(* for any number of CPUs and whichever tokens restore is given.           *)
THEOREM SectionsEndOnceHolds == IrqSpec => []SectionsEndOnce
  <1>1. IrqInv => SectionsEndOnce
    BY DEF IrqInv, SectionsEndOnce, Accounted, Over
  <1> QED
    BY <1>1, IrqInvInit, IrqInvStep, PTL DEF IrqSpec
-----------------------------------------------------------------------------
(* User contexts.  The current generation of a context, and those it has   *)
(* not reached, have not been resumed.                                     *)
ContextInv ==
  /\ contexts \in [Contexts -> [registers : Registers, generation : 0..MaxContextGen,
                                runnable : BOOLEAN]]
  /\ frames \subseteq TrapFrame
  /\ resumes \in [Contexts -> [0..MaxContextGen -> Nat]]
  /\ ResumesOnce
  /\ \A x \in Contexts, g \in 0..MaxContextGen :
       g >= contexts[x].generation => resumes[x][g] = 0

(* No trap frame has been given out at first. *)
LEMMA ContextInvInit == ContextInit => ContextInv
  BY SMT, ContextAssumption DEF ContextInit, ContextInv, ResumesOnce

(* Every operation on contexts leaves the generations not yet passed       *)
(* unresumed.                                                              *)
LEMMA ContextInvStep == ContextInv /\ [ContextNext]_contextVars => ContextInv'
  <1> SUFFICES ASSUME ContextInv, [ContextNext]_contextVars PROVE ContextInv'
    OBVIOUS
  <1> USE ContextAssumption
  <1>1. ASSUME NEW x \in Contexts, enter(x) PROVE ContextInv'
    <2>1. Frame(x, contexts[x].registers) \in TrapFrame
      BY DEF ContextInv, Frame, TrapFrame
    <2>2. /\ contexts' \in [Contexts -> [registers : Registers, generation : 0..MaxContextGen,
                                         runnable : BOOLEAN]]
          /\ \A y \in Contexts : contexts'[y].generation = contexts[y].generation
      BY <1>1 DEF ContextInv, enter
    <2> QED
      BY <1>1, <2>1, <2>2 DEF ContextInv, ResumesOnce, enter
  <1>2. ASSUME NEW x \in Contexts, terminate(x) PROVE ContextInv'
    BY <1>2 DEF ContextInv, ResumesOnce, terminate
  <1>3. ASSUME NEW x \in Contexts, NEW r \in Registers, trap(x, r) PROVE ContextInv'
    <2>1. Frame(x, r) \in TrapFrame
      BY DEF ContextInv, Frame, TrapFrame
    <2> QED
      BY <1>3, <2>1 DEF ContextInv, ResumesOnce, trap
  <1>4. ASSUME NEW x \in Contexts, NEW f \in frames, resume(x, f) PROVE ContextInv'
    <2>1. f \in TrapFrame /\ f.generation = contexts[x].generation
      BY <1>4 DEF ContextInv, resume, CurrentFrame
    <2>2. CASE contexts[x].generation < MaxContextGen
      <3> DEFINE g == f.generation
                 resumed == [registers |-> f.registers, generation |-> g + 1, runnable |-> TRUE]
      <3>1. /\ g \in 0..MaxContextGen /\ g + 1 \in 0..MaxContextGen
            /\ resumed \in [registers : Registers, generation : 0..MaxContextGen,
                            runnable : BOOLEAN]
        BY <2>1, <2>2, SMTT(30) DEF TrapFrame, ContextInv
      <3>2. contexts' = [contexts EXCEPT ![x] = resumed]
        BY <1>4, <2>1, <2>2 DEF resume, ContextInv
      <3>3. resumes' = [resumes EXCEPT ![x][g] = @ + 1] /\ frames' = frames
        BY <1>4, <2>1, <2>2 DEF resume
      <3>4. resumes[x][g] = 0
        BY SMT, <2>1, <3>1 DEF ContextInv
      <3>5. /\ resumes' \in [Contexts -> [0..MaxContextGen -> Nat]]
            /\ \A y \in Contexts, h \in 0..MaxContextGen :
                 resumes'[y][h] = IF y = x /\ h = g THEN 1 ELSE resumes[y][h]
        <4> DEFINE row == [resumes[x] EXCEPT ![g] = @ + 1]
        <4>0. resumes[x] \in [0..MaxContextGen -> Nat] /\ resumes[x][g] + 1 \in Nat
          BY SMT, <3>4 DEF ContextInv
        <4>1. row \in [0..MaxContextGen -> Nat] /\ resumes' = [resumes EXCEPT ![x] = row]
          BY <3>3, <4>0
        <4>2. \A h \in 0..MaxContextGen : row[h] = IF h = g THEN 1 ELSE resumes[x][h]
          BY <3>1, <3>4, SMTT(30) DEF ContextInv
        <4> HIDE DEF row
        <4> QED
          BY <4>1, <4>2 DEF ContextInv
      <3>6. /\ contexts' \in [Contexts -> [registers : Registers,
                                           generation : 0..MaxContextGen, runnable : BOOLEAN]]
            /\ \A y \in Contexts : contexts'[y].generation =
                                     IF y = x THEN g + 1 ELSE contexts[y].generation
        <4> resumed.generation = g + 1
          OBVIOUS
        <4> HIDE DEF resumed
        <4> QED
          BY <3>1, <3>2 DEF ContextInv
      <3>7. ResumesOnce'
        <4> SUFFICES ASSUME NEW y \in Contexts, NEW h \in 0..MaxContextGen
                     PROVE resumes'[y][h] <= 1
          BY DEF ResumesOnce
        <4>1. resumes[y][h] <= 1
          BY DEF ContextInv, ResumesOnce
        <4>2. resumes'[y][h] = IF y = x /\ h = g THEN 1 ELSE resumes[y][h]
          BY <3>5
        <4> HIDE DEF g
        <4> QED
          BY SMT, <4>1, <4>2
      <3>8. ASSUME NEW y \in Contexts, NEW h \in 0..MaxContextGen,
                   h >= contexts'[y].generation
            PROVE resumes'[y][h] = 0
        <4>1. CASE y = x
          <5>1. h >= g + 1 /\ h # g /\ h >= contexts[x].generation
            BY SMT, <2>1, <3>1, <3>6, <3>8, <4>1
          <5> QED
            BY <3>5, <4>1, <5>1, SMTT(30) DEF ContextInv
        <4>2. CASE y # x
          <5>1. h >= contexts[y].generation
            BY <3>6, <3>8, <4>2
          <5>2. resumes[y][h] = 0
            BY <5>1 DEF ContextInv
          <5> QED
            BY <3>5, <4>2, <5>2
        <4> QED
          BY <4>1, <4>2
      <3> QED
        BY <3>3, <3>5, <3>6, <3>7, <3>8 DEF ContextInv
    <2>3. CASE ~(contexts[x].generation < MaxContextGen)
      BY <1>4, <2>1, <2>3 DEF ContextInv, ResumesOnce, resume, TrapFrame
    <2> QED
      BY <2>2, <2>3
  <1>5. CASE UNCHANGED contextVars
    BY <1>5 DEF ContextInv, ResumesOnce, contextVars
  <1> QED
    BY <1>1, <1>2, <1>3, <1>4, <1>5 DEF ContextNext

(* No generation of a context is resumed twice, whatever frames are        *)
(* presented how often, up to and at the last generation.                  *)
THEOREM ResumesOnceHolds == ContextSpec => []ResumesOnce
  <1>1. ContextInv => ResumesOnce
    BY DEF ContextInv
  <1> QED
    BY <1>1, ContextInvInit, ContextInvStep, PTL DEF ContextSpec
=============================================================================
