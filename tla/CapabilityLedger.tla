--------------------------- MODULE CapabilityLedger ---------------------------
(***************************************************************************)
(* The authority ledger of kernel/src/capability.rs.  A root capability is *)
(* minted once per (kind, slot); transfer and release consume the current  *)
(* generation of the slot and every other operation only compares a handle *)
(* with the slot's record.  Handles are Clone, so a holder may keep every  *)
(* handle it was ever given: issued collects them all, and any of them may *)
(* be presented again at any time.                                         *)
(*                                                                         *)
(* A call that returns an error leaves the ledger unchanged and is a       *)
(* stuttering step.                                                        *)
(***************************************************************************)
EXTENDS Naturals, FiniteSets

CONSTANTS
  Kinds,     \* CapabilityKind
  SlotIds,   \* slot numbers
  Owners,    \* OwnerId
  Rights,    \* the bits of Rights::ALL
  Ranges,    \* the [base, len] ranges roots are minted over
  MaxAddr,   \* u64::MAX for addresses
  MaxGen,    \* u64::MAX for generations
  NoRecord   \* the absence of an entry in the records map

ASSUME LedgerAssumption ==
  /\ MaxGen \in Nat
  /\ MaxAddr \in Nat
  /\ Ranges \subseteq [base : Nat, len : Nat]

Keys == Kinds \X SlotIds

Record ==
  [owner : Owners, rights : SUBSET Rights, generation : 0..MaxGen,
   base : Nat, len : Nat, live : BOOLEAN]

Capability ==
  [key : Keys, owner : Owners, rights : SUBSET Rights, generation : 0..MaxGen,
   base : Nat, len : Nat]

ASSUME NoRecordAssumption == NoRecord \notin Record

VARIABLES
  records,   \* CapabilityLedger::records
  issued     \* every handle an operation has returned so far

ledgerVars == <<records, issued>>

LedgerTypeOK ==
  /\ records \in [Keys -> Record \cup {NoRecord}]
  /\ issued \subseteq Capability

LedgerInit ==
  /\ records = [k \in Keys |-> NoRecord]
  /\ issued = {}
-----------------------------------------------------------------------------
(* The handle that stands for the current state of a record. *)
CapabilityOf(k, r) ==
  [key |-> k, owner |-> r.owner, rights |-> r.rights,
   generation |-> r.generation, base |-> r.base, len |-> r.len]

(* Both ends are computed with checked_add: an overflowing end refuses. *)
ContainsRange(c, base, len) ==
  /\ c.base + c.len <= MaxAddr
  /\ base + len <= MaxAddr
  /\ base >= c.base
  /\ base + len <= c.base + c.len

ValidateRecord(r, c) ==
  /\ r # NoRecord
  /\ r.live
  /\ r.owner = c.owner
  /\ r.generation = c.generation
  /\ r.rights = c.rights
  /\ r.base = c.base
  /\ r.len = c.len

(* validate: the record still matches the handle, the caller is its owner, *)
(* and the requested rights and range lie within it.                       *)
Validate(c, owner, required, base, len) ==
  /\ ValidateRecord(records[c.key], c)
  /\ c.owner = owner
  /\ required \subseteq c.rights
  /\ ContainsRange(c, base, len)

(* The handle is the one its slot currently honours. *)
Current(c) == ValidateRecord(records[c.key], c)

(* The checked_add(1) shared by transfer and release, the only step that   *)
(* consumes a handle: it refuses at u64::MAX.                              *)
CanBump(generation) == generation < MaxGen

NotBumped(generation) == generation

Bumped(generation) == generation + 1

(* Rights::contains, the bound on the rights a transfer may hand on. *)
MayGrant(r, rights) == rights \subseteq r.rights
-----------------------------------------------------------------------------
Mintable(k) == records[k] = NoRecord

mint_root(k, owner, rights, range) ==
  /\ range.base + range.len <= MaxAddr
  /\ Mintable(k)
  /\ LET r == [owner |-> owner, rights |-> rights, generation |-> 0,
               base |-> range.base, len |-> range.len, live |-> TRUE]
     IN /\ records' = [records EXCEPT ![k] = r]
        /\ issued' = issued \cup {CapabilityOf(k, r)}

(* transfer and release have found the record equal to the handle, so the  *)
(* fields they leave alone are written below from the handle.              *)
transfer(c, new_owner, new_rights) ==
  /\ ValidateRecord(records[c.key], c)
  /\ MayGrant(records[c.key], new_rights)
  /\ CanBump(records[c.key].generation)
  /\ LET r == [owner |-> new_owner, rights |-> new_rights,
               generation |-> Bumped(records[c.key].generation),
               base |-> c.base, len |-> c.len, live |-> TRUE]
     IN /\ records' = [records EXCEPT ![c.key] = r]
        /\ issued' = issued \cup {CapabilityOf(c.key, r)}

release(c) ==
  /\ ValidateRecord(records[c.key], c)
  /\ CanBump(records[c.key].generation)
  /\ records' = [records EXCEPT ![c.key] =
                   [owner |-> c.owner, rights |-> c.rights,
                    generation |-> Bumped(records[c.key].generation),
                    base |-> c.base, len |-> c.len, live |-> FALSE]]
  /\ UNCHANGED issued

LedgerNext ==
  \/ \E k \in Keys, o \in Owners, r \in SUBSET Rights, range \in Ranges :
       mint_root(k, o, r, range)
  \/ \E c \in issued, o \in Owners, r \in SUBSET Rights : transfer(c, o, r)
  \/ \E c \in issued : release(c)

LedgerSpec == LedgerInit /\ [][LedgerNext]_ledgerVars
-----------------------------------------------------------------------------
(* Dynamic uniqueness: however many handles to a slot are still held, at   *)
(* most one of them is honoured by validate_record.                        *)
UniqueAuthority ==
  \A c, d \in issued : c.key = d.key /\ Current(c) /\ Current(d) => c = d

(* No authority is lost: for every live record the current handle was      *)
(* handed out, so that some holder can still use, move or release it.      *)
LiveAuthorityIsHeld ==
  \A k \in Keys :
    records[k] # NoRecord /\ records[k].live => \E c \in issued : c.key = k /\ Current(c)

(* The reason the properties above and below hold: every handle ever given *)
(* out is an earlier (or the current) state of its slot's record.  Only a  *)
(* handle of the record's own generation can equal it, and it then equals  *)
(* it in every field.                                                      *)
HandlesTrackRecords ==
  \A c \in issued :
    LET r == records[c.key]
    IN /\ r # NoRecord
       /\ c.generation <= r.generation
       /\ c.generation = r.generation => r.live /\ c = CapabilityOf(c.key, r)
       /\ r.rights \subseteq c.rights
       /\ r.base = c.base /\ r.len = c.len

(* Along the whole history of a slot rights only narrow, and the range is  *)
(* the one the root was minted with.                                       *)
RightsOnlyNarrow ==
  \A c, d \in issued :
    c.key = d.key /\ c.generation <= d.generation =>
      /\ d.rights \subseteq c.rights
      /\ d.base = c.base /\ d.len = c.len

(* A handle that was refused once (transferred on, or released) is refused *)
(* for ever: no sequence of transfers brings back an old generation.       *)
StaleNeverRevives ==
  [][\A c \in issued : ~Current(c) => ~Current(c)']_ledgerVars

(* A released slot is never live again, and never minted again. *)
ReleaseIsFinal ==
  [][\A k \in Keys :
       records[k] # NoRecord /\ ~records[k].live => records'[k] = records[k]]_ledgerVars
=============================================================================
