------------------------------- MODULE UserMode -------------------------------
(***************************************************************************)
(* run_user_mode of post_firmware.rs on the BSP, instruction by            *)
(* instruction where it matters: thermite_enter_user, the ring-3 program   *)
(* setup_user_code lays down, the SYSCALL entry, the page-fault handler    *)
(* and the finish gate.  Timer and IPI interrupts may arrive before any    *)
(* instruction while IF is set.  From ring 3 the processor loads RSP from  *)
(* the TSS, so a frame always goes to the top of the ring-0 stack; from    *)
(* ring 0 it pushes on the stack in use.  SYSCALL switches no stack.       *)
(***************************************************************************)
EXTENDS Integers, Sequences

CONSTANT MaxInterrupts  \* bound: the interrupts of one run

ASSUME UserAssumption == MaxInterrupts \in Nat

VARIABLES
  rip,         \* the next instruction: <<"user", offset>> or <<label, 0>>
  cpl, flag,   \* privilege level and IF
  rsp,         \* the stack in use: "boot", "user" or "ring0"
  stacks,      \* the frames the kernel has on each of them
  link,        \* RCX and R11: where SYSCALL came from, with which IF
  rax,         \* the register the program and the handlers share
  counts,      \* USER_SYSCALLS, USER_FAULTS, USER_FINISHED
  values,      \* USER_SYSCALL_VALUE and USER_FINISH_VALUE
  interrupts   \* interrupts taken so far

userVars == <<rip, cpl, flag, rsp, stacks, link, rax, counts, values, interrupts>>

At(label) == <<label, 0>>
User(offset) == <<"user", offset>>

UserInit ==
  /\ rip = At("enter") /\ cpl = 0 /\ flag = TRUE /\ rsp = "boot"
  /\ stacks = [boot |-> <<>>, ring0 |-> <<>>, user |-> <<>>]
  /\ link = [rip |-> At("enter"), flag |-> TRUE]
  /\ rax = 0 /\ interrupts = 0
  /\ counts = [syscalls |-> 0, faults |-> 0, finished |-> 0]
  /\ values = [syscall |-> 0, finish |-> 0]

(* An exception or interrupt saves a frame, at the top of the ring-0 stack *)
(* if it came from ring 3, and clears IF: all gates are interrupt gates.   *)
Target == IF cpl = 3 THEN "ring0" ELSE rsp

Enters(handler, from) ==
  LET frame == [rip |-> from, cpl |-> cpl, flag |-> flag, rsp |-> rsp] IN
  /\ rip' = At(handler) /\ cpl' = 0 /\ flag' = FALSE /\ rsp' = Target
  /\ stacks' = [stacks EXCEPT ![Target] = IF cpl = 3 THEN <<frame>> ELSE Append(@, frame)]

Top == stacks[rsp][Len(stacks[rsp])]

iretq(to) ==
  /\ rip' = to /\ cpl' = Top.cpl /\ flag' = Top.flag /\ rsp' = Top.rsp
  /\ stacks' = [stacks EXCEPT ![rsp] = SubSeq(@, 1, Len(@) - 1)]
-----------------------------------------------------------------------------
(* KERNEL_RETURN_RSP is the boot stack as it is here; the frame it pushes  *)
(* is gone with the iretq.                                                 *)
thermite_enter_user ==
  /\ rip = At("enter")
  /\ rip' = User(0) /\ cpl' = 3 /\ flag' = TRUE /\ rsp' = "user"
  /\ UNCHANGED <<stacks, link, rax, counts, values, interrupts>>

(* The program: mov eax,0x1234; syscall; mov rax,[unmapped]; mov           *)
(* eax,0x5678; int 0x81, at offsets 0, 5, 7, 17 and 22.                    *)
user_move(offset, value) ==
  /\ rip = User(offset) /\ rip' = User(offset + 5) /\ rax' = value
  /\ UNCHANGED <<cpl, flag, rsp, stacks, link, counts, values, interrupts>>

(* SFMASK clears IF until the entry has left the user stack. *)
FlagKept == flag

FlagAtEntry == FALSE

user_syscall ==
  /\ rip = User(5)
  /\ rip' = At("save-rsp") /\ cpl' = 0 /\ flag' = FlagAtEntry
  /\ link' = [rip |-> User(7), flag |-> flag]
  /\ UNCHANGED <<rsp, stacks, rax, counts, values, interrupts>>

entry_save_rsp ==
  /\ rip = At("save-rsp") /\ rip' = At("load-rsp")
  /\ UNCHANGED <<cpl, flag, rsp, stacks, link, rax, counts, values, interrupts>>

(* KERNEL_SYSCALL_RSP is the top of the ring-0 stack, as in the TSS. *)
entry_load_rsp ==
  /\ rip = At("load-rsp") /\ rip' = At("count")
  /\ rsp' = "ring0" /\ stacks' = [stacks EXCEPT !.ring0 = <<>>]
  /\ UNCHANGED <<cpl, flag, link, rax, counts, values, interrupts>>

entry_count ==
  /\ rip = At("count") /\ rip' = At("restore-rsp")
  /\ values' = [values EXCEPT !.syscall = rax]
  /\ counts' = [counts EXCEPT !.syscalls = @ + 1]
  /\ UNCHANGED <<cpl, flag, rsp, stacks, link, rax, interrupts>>

entry_restore_rsp ==
  /\ rip = At("restore-rsp") /\ rip' = At("sysretq")
  /\ rsp' = "user"
  /\ UNCHANGED <<cpl, flag, stacks, link, rax, counts, values, interrupts>>

sysretq ==
  /\ rip = At("sysretq")
  /\ rip' = link.rip /\ flag' = link.flag /\ cpl' = 3
  /\ UNCHANGED <<rsp, stacks, link, rax, counts, values, interrupts>>

user_load ==
  /\ rip = User(7)
  /\ Enters("page-fault", rip)
  /\ UNCHANGED <<link, rax, counts, values, interrupts>>

(* The handler steps over the faulting instruction, 10 bytes long. *)
SkipTooFar == 15

FaultSkip == 10

thermite_page_fault_handler ==
  /\ rip = At("page-fault")
  /\ IF Top.cpl = 3
     THEN iretq(User(Top.rip[2] + FaultSkip)) /\ counts' = [counts EXCEPT !.faults = @ + 1]
     ELSE rip' = At("halted") /\ UNCHANGED <<cpl, flag, rsp, stacks, counts>>
  /\ UNCHANGED <<link, rax, values, interrupts>>

user_finish ==
  /\ rip = User(22)
  /\ Enters("finish", User(24))
  /\ UNCHANGED <<link, rax, counts, values, interrupts>>

thermite_user_finish_handler ==
  /\ rip = At("finish") /\ rip' = At("returned")
  /\ values' = [values EXCEPT !.finish = rax]
  /\ counts' = [counts EXCEPT !.finished = @ + 1]
  /\ rsp' = "boot"
  /\ UNCHANGED <<cpl, flag, stacks, link, rax, interrupts>>

(* The timer and IPI handlers keep every register they use. *)
take_interrupt ==
  /\ flag /\ interrupts < MaxInterrupts
  /\ Enters("handler", rip)
  /\ interrupts' = interrupts + 1
  /\ UNCHANGED <<link, rax, counts, values>>

handler_return ==
  /\ rip = At("handler")
  /\ iretq(Top.rip)
  /\ UNCHANGED <<link, rax, counts, values, interrupts>>

UserNext ==
  \/ thermite_enter_user \/ user_move(0, 4660) \/ user_syscall \/ entry_save_rsp
  \/ entry_load_rsp \/ entry_count \/ entry_restore_rsp \/ sysretq \/ user_load
  \/ thermite_page_fault_handler \/ user_move(17, 22136) \/ user_finish
  \/ thermite_user_finish_handler \/ take_interrupt \/ handler_return

UserSpec == UserInit /\ [][UserNext]_userVars
-----------------------------------------------------------------------------
(* The kernel's frames are its own: none is ever on the stack ring 3 can   *)
(* write, not even for an interrupt in the first instructions of the       *)
(* syscall entry, and the processor never enters ring 3 with a frame left  *)
(* on the ring-0 stack, which the next entry would overwrite.              *)
KernelStackPrivate ==
  /\ stacks.user = <<>>
  /\ cpl = 0 /\ rsp = "user" => ~flag
  /\ cpl = 3 => stacks.ring0 = <<>> /\ stacks.boot = <<>>

(* run_user_mode gets what it checks, wherever interrupts fall: when       *)
(* control is back on the boot stack, with the frame it left there, the    *)
(* program made one system call and one fault, both values arrived and no  *)
(* fault was taken for the kernel's.                                       *)
UserRunExact ==
  /\ rip # At("halted")
  /\ rip = At("returned") =>
       /\ counts = [syscalls |-> 1, faults |-> 1, finished |-> 1]
       /\ values = [syscall |-> 4660, finish |-> 22136]
       /\ rsp = "boot" /\ stacks.boot = <<>>
=============================================================================
