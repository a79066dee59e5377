------------------------------- MODULE Platform -------------------------------
(***************************************************************************)
(* The parts of the platform that never run at the same time, side by      *)
(* side: the boot, from the firmware to the end of efi_main, the DMA probe *)
(* and the user run in it, which share no state with it, the compiler's    *)
(* memmove, and the SMP bookkeeping of the kernel model.  A behaviour is   *)
(* one of the part subject names.                                          *)
(***************************************************************************)
EXTENDS FirmwareExit, VirtioBlock, UserMode, MemMove, Smp

VARIABLE subject

platformVars == <<handoffVars, virtioVars, userVars, moveVars, smpVars, subject>>

Init ==
  /\ HandoffInit /\ VirtioInit /\ UserInit /\ MoveInit /\ SmpInit
  /\ subject \in {"handoff", "virtio", "user", "memmove", "smp"}
  (* What only one part looks at is fixed for the others. *)
  /\ subject # "handoff" => topology = CHOOSE t \in Topologies : TRUE
  /\ subject # "memmove" => rcx = 0 /\ rdx = 0 /\ r8 = 0
  /\ subject # "virtio" => device.seen = Min(FirmwareSeen)

Handoff(A) ==
  subject = "handoff" /\ A /\ UNCHANGED <<virtioVars, userVars, moveVars, smpVars, subject>>

Bookkeeping(A) ==
  subject = "smp" /\ A /\ UNCHANGED <<handoffVars, virtioVars, userVars, moveVars, subject>>

Next ==
  \/ Handoff(HandoffNext)
  \/ /\ subject = "virtio" /\ VirtioNext
     /\ UNCHANGED <<handoffVars, userVars, moveVars, smpVars, subject>>
  \/ /\ subject = "user" /\ UserNext
     /\ UNCHANGED <<handoffVars, virtioVars, moveVars, smpVars, subject>>
  \/ /\ subject = "memmove" /\ MoveNext
     /\ UNCHANGED <<handoffVars, virtioVars, userVars, smpVars, subject>>
  \/ Bookkeeping(SmpNext)

(* Processors run, so efi_main, run and every AP callback take their next  *)
(* step when they have one.  The firmware's time limit is only sure to be  *)
(* reached when an AP left the callback early and others wait for it.      *)
BootFairness ==
  /\ WF_platformVars(Handoff(BspStep /\ UNCHANGED exitVars))
  /\ WF_platformVars(Handoff(RunStep))
  /\ \A p \in UNION {t.enabled : t \in Topologies} :
       WF_platformVars(Handoff(p \in topology.enabled /\ ApStep(p) /\ UNCHANGED exitVars))
  /\ WF_platformVars(Handoff(/\ topology.mute # {}
                             /\ \E stage \in Dispatches : dispatch_timeout(stage)
                             /\ UNCHANGED exitVars))

(* Every target answers the newest pending shootdown, again if need be,    *)
(* and the initiator, told by the last acknowledgement, completes it.      *)
SmpFairness ==
  \A e \in 1..MaxEpoch :
    /\ WF_platformVars(Bookkeeping(complete_shootdown(e)))
    /\ \A c \in CpuIds : WF_platformVars(Bookkeeping(acknowledge_shootdown(e, c)))

Spec == Init /\ [][Next]_platformVars /\ BootFairness /\ SmpFairness
-----------------------------------------------------------------------------
(* The boot comes to an end: the machine is reset or turned off, efi_main  *)
(* has returned or is in the spin loop after a failure.  The rendezvous of *)
(* ap_entry ends by itself when every AP can name itself; only when one    *)
(* cannot is the firmware's time limit needed.                             *)
BootEnds == subject = "handoff" => <>(bsp_pc \in {"Reboot", "PowerOff", "returned", "spin"})
=============================================================================
