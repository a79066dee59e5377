---------------------------- MODULE ActionExecutor ----------------------------
(***************************************************************************)
(* ActionExecutor::authorize of kernel/src/event.rs over the capability    *)
(* ledger.  authorize is the last check before an action reaches the       *)
(* platform layer, and its result is plain data: an AuthorizedAction may   *)
(* be kept while the ledger moves on underneath it.  authorized collects   *)
(* the results still held.                                                 *)
(*                                                                         *)
(* An action is its type, the operand that names its target (cpu, vector,  *)
(* address, port, slot or context) and its length (access width, mapped    *)
(* or invalidated bytes).                                                  *)
(***************************************************************************)
EXTENDS CapabilityLedger

CONSTANTS
  Actions,        \* the actions presented to the executor
  MaxAuthorized   \* bound on the results kept at the same time

KindOf ==
  [StartCpu |-> "Cpu", EnqueueTask |-> "Cpu",
   SendIpi |-> "CpuSet", TlbShootdown |-> "CpuSet",
   AckIrq |-> "Irq", MaskIrq |-> "Irq", UnmaskIrq |-> "Irq",
   Map |-> "AddressSpace", Unmap |-> "AddressSpace", Protect |-> "AddressSpace",
   MmioRead |-> "Mmio", MmioWrite |-> "Mmio",
   PioRead |-> "IoPort", PioWrite |-> "IoPort",
   SubmitDma |-> "Dma", ArmTimer |-> "Clock", CancelTimer |-> "Clock",
   EnterContext |-> "UserContext",
   Reboot |-> "Power", PowerOff |-> "Power", Halt |-> "Power"]

RightOf(type) ==
  CASE type \in {"Map", "Unmap", "Protect"} -> "MAP"
    [] type \in {"MmioRead", "PioRead"}     -> "READ"
    [] type \in {"MmioWrite", "PioWrite"}   -> "WRITE"
    [] OTHER                                -> "CONTROL"

ASSUME ActionsAssumption ==
  Actions \subseteq [type : DOMAIN KindOf, at : Nat, len : Nat]

(* The actions whose authority is not tied to a range of the capability. *)
Unranged == {"SendIpi", "TlbShootdown", "ArmTimer", "CancelTimer",
             "Reboot", "PowerOff", "Halt"}

(* The actions whose authority covers every byte they touch. *)
Sized == {"Map", "MmioRead", "MmioWrite", "PioRead", "PioWrite"}

validate_action(a) ==
  /\ a.type = "TlbShootdown" => a.len # 0 /\ a.at + a.len <= MaxAddr
  /\ a.type \in {"MmioRead", "MmioWrite"} => a.len \in {1, 2, 4, 8}
  /\ a.type \in {"PioRead", "PioWrite"} => a.len \in {1, 2, 4}

(* The multiplication of a mapping's page size and count is checked. *)
action_authority(a) ==
  [kind |-> KindOf[a.type], right |-> RightOf(a.type),
   base |-> IF a.type \in Unranged THEN 0 ELSE a.at,
   len  |-> CASE a.type \in Unranged -> 0
              [] a.type \in Sized    -> a.len
              [] OTHER               -> 1]

VARIABLE authorized   \* AuthorizedActions held; owner is the caller, a ghost

vars == <<records, issued, authorized>>

Init == LedgerInit /\ authorized = {}
-----------------------------------------------------------------------------
AnyKind(c, auth) == TRUE

RightKind(c, auth) == c.key[1] = auth.kind

authorize(owner, c, a) ==
  LET auth == action_authority(a)
  IN /\ Cardinality(authorized) < MaxAuthorized
     /\ validate_action(a)
     /\ a.type = "Map" => a.len <= MaxAddr
     /\ RightKind(c, auth)
     /\ Validate(c, owner, {auth.right}, auth.base, auth.len)
     /\ authorized' = authorized \cup
          {[action |-> a, capability_slot |-> c.key[2],
            capability_generation |-> c.generation, owner |-> owner]}
     /\ UNCHANGED ledgerVars

Next ==
  \/ LedgerNext /\ UNCHANGED authorized
  \/ \E o \in Owners, c \in issued, a \in Actions : authorize(o, c, a)

Spec == Init /\ [][Next]_vars
-----------------------------------------------------------------------------
(* The record the stamp of an authorization refers to: the stamp carries   *)
(* the slot, and the action determines the kind.                           *)
StampedRecord(x) == records[<<KindOf[x.action.type], x.capability_slot>>]

Fresh(x) == StampedRecord(x).generation = x.capability_generation

(* The stamp is enough to detect staleness: as long as the slot still has  *)
(* the stamped generation, the authorization is exactly as good as when it *)
(* was given -- same owner, live, with the right and the range the action  *)
(* needs -- whatever transfers and releases happened since.                *)
StampDetectsStaleness ==
  \A x \in authorized :
    LET r == StampedRecord(x)
        auth == action_authority(x.action)
    IN /\ r # NoRecord
       /\ Fresh(x) => /\ r.live
                      /\ r.owner = x.owner
                      /\ auth.right \in r.rights
                      /\ ContainsRange(r, auth.base, auth.len)
=============================================================================
