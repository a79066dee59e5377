---------------------------- MODULE ObjectProofs ----------------------------
(***************************************************************************)
(* Proofs about the kernel objects: capabilities and the actions they      *)
(* authorize, and, sharing no state with them, DMA mappings, address       *)
(* spaces with the copies through them, and the heap, for every value of   *)
(* their constants.  Each part has its inductive invariant and the         *)
(* theorems that follow from it.                                           *)
(***************************************************************************)
EXTENDS ActionExecutor, UserMemory, Dma, KernelHeap, TLAPS

(* A leaf that names no prover is for Zenon, with time to spare. *)
USE ZenonT(30)

-----------------------------------------------------------------------------
(* Capabilities.  The inductive invariant is the type invariant together   *)
(* with HandlesTrackRecords: a handle is a past or present state of its    *)
(* slot's record.  An authorization is as good as the handle it was given  *)
(* for.                                                                    *)
LedgerInv == LedgerTypeOK /\ HandlesTrackRecords

(* Minting on an unused slot adds the only handle that slot has. *)
LEMMA MintPreserves ==
  ASSUME NEW k \in Keys, NEW o \in Owners, NEW rs \in SUBSET Rights,
         NEW range \in Ranges, LedgerInv, mint_root(k, o, rs, range)
  PROVE  LedgerInv'
<1> DEFINE r == [owner |-> o, rights |-> rs, generation |-> 0,
                 base |-> range.base, len |-> range.len, live |-> TRUE]
<1>1. range.base \in Nat /\ range.len \in Nat
  BY LedgerAssumption
<1>2. r \in Record /\ r # NoRecord
  <2>1. 0 \in 0..MaxGen
    BY SMT, LedgerAssumption
  <2>2. r \in Record
    BY <1>1, <2>1 DEF Record
  <2> QED
    BY <2>2, NoRecordAssumption
<1>3. CapabilityOf(k, r) \in Capability
  BY <1>2 DEF CapabilityOf, Capability, Record
<1>4. /\ records' = [records EXCEPT ![k] = r]
      /\ issued' = issued \cup {CapabilityOf(k, r)}
      /\ records[k] = NoRecord
  BY DEF mint_root, Mintable
<1>5. LedgerTypeOK'
  BY <1>2, <1>3, <1>4 DEF LedgerInv, LedgerTypeOK
<1>6. HandlesTrackRecords'
  <2> SUFFICES ASSUME NEW c \in issued'
               PROVE  LET q == records'[c.key]
                      IN /\ q # NoRecord
                         /\ c.generation <= q.generation
                         /\ c.generation = q.generation => q.live /\ c = CapabilityOf(c.key, q)
                         /\ q.rights \subseteq c.rights
                         /\ q.base = c.base /\ q.len = c.len
    BY DEF HandlesTrackRecords
  <2>1. CASE c \in issued
    <3>1. c.key # k
      BY <2>1, <1>4 DEF LedgerInv, HandlesTrackRecords
    <3>2. records'[c.key] = records[c.key]
      BY <2>1, <3>1, <1>4 DEF LedgerInv, LedgerTypeOK, Capability
    <3> QED
      BY <2>1, <3>2 DEF LedgerInv, HandlesTrackRecords
  <2>2. CASE c = CapabilityOf(k, r)
    <3>1. c.key = k /\ records'[k] = r
      BY <2>2, <1>4 DEF LedgerInv, LedgerTypeOK, CapabilityOf
    <3> QED
      BY SMT, <2>2, <3>1, <1>2 DEF CapabilityOf
  <2> QED
    BY <2>1, <2>2, <1>4
<1> QED
  BY <1>5, <1>6 DEF LedgerInv

(* A transfer consumes the one handle that matches its record: the record  *)
(* moves one generation past every handle already issued, and the handle   *)
(* it returns is the only one that has caught up with it.                  *)
LEMMA TransferPreserves ==
  ASSUME NEW c \in issued, NEW o \in Owners, NEW rs \in SUBSET Rights,
         LedgerInv, transfer(c, o, rs)
  PROVE  LedgerInv'
<1> DEFINE k == c.key
           r == records[k]
           q == [owner |-> o, rights |-> rs, generation |-> r.generation + 1,
                 base |-> c.base, len |-> c.len, live |-> TRUE]
<1>1. k \in Keys /\ r \in Record
  <2>1. k \in Keys
    BY DEF LedgerInv, LedgerTypeOK, Capability
  <2>2. r # NoRecord
    BY DEF transfer, ValidateRecord
  <2> QED
    BY <2>1, <2>2 DEF LedgerInv, LedgerTypeOK
<1>2. /\ r.generation < MaxGen
      /\ rs \subseteq r.rights
      /\ records' = [records EXCEPT ![k] = q]
      /\ issued' = issued \cup {CapabilityOf(k, q)}
      /\ c.base = r.base /\ c.len = r.len
  BY DEF transfer, MayGrant, ValidateRecord, CanBump, Bumped
<1>3. q \in Record /\ q # NoRecord /\ q.generation = r.generation + 1
      /\ q.rights = rs /\ q.base = r.base /\ q.len = r.len /\ q.live
  <2>1. r.generation + 1 \in 0..MaxGen
    BY SMT, <1>1, <1>2, LedgerAssumption DEF Record
  <2>2. q \in Record
    BY <1>1, <1>2, <2>1 DEF Record
  <2> QED
    BY <1>2, <2>2, NoRecordAssumption
<1>4. CapabilityOf(k, q) \in Capability
  BY <1>1, <1>3 DEF CapabilityOf, Capability, Record
<1>5. LedgerTypeOK'
  BY <1>1, <1>2, <1>3, <1>4 DEF LedgerInv, LedgerTypeOK
<1>6. HandlesTrackRecords'
  <2> SUFFICES ASSUME NEW d \in issued'
               PROVE  LET p == records'[d.key]
                      IN /\ p # NoRecord
                         /\ d.generation <= p.generation
                         /\ d.generation = p.generation => p.live /\ d = CapabilityOf(d.key, p)
                         /\ p.rights \subseteq d.rights
                         /\ p.base = d.base /\ p.len = d.len
    BY DEF HandlesTrackRecords
  <2>1. CASE d \in issued /\ d.key # k
    <3>1. records'[d.key] = records[d.key]
      BY <2>1, <1>2 DEF LedgerInv, LedgerTypeOK, Capability
    <3> QED
      BY SMT, <2>1, <3>1 DEF LedgerInv, HandlesTrackRecords
  <2>2. CASE d \in issued /\ d.key = k
    <3>1. records'[d.key] = q
      BY <2>2, <1>1, <1>2 DEF LedgerInv, LedgerTypeOK
    <3>2. d.generation <= r.generation /\ r.rights \subseteq d.rights
          /\ r.base = d.base /\ r.len = d.len
      BY <2>2 DEF LedgerInv, HandlesTrackRecords
    <3>3. d.generation \in Nat /\ r.generation \in Nat
      BY SMT, <2>2, <1>1, LedgerAssumption DEF LedgerInv, LedgerTypeOK, Capability, Record
    <3>4. q.generation = r.generation + 1
      BY <1>3
    <3> HIDE DEF q, r
    <3>5. d.generation < q.generation
      BY SMT, <3>2, <3>3, <3>4
    <3> QED
      BY SMT, <1>2, <1>3, <3>1, <3>2, <3>3, <3>5
  <2>3. CASE d = CapabilityOf(k, q)
    <3>1. d.key = k /\ records'[k] = q
      BY <2>3, <1>1, <1>2 DEF LedgerInv, LedgerTypeOK, CapabilityOf
    <3>2. q.generation \in Nat
      BY <1>3, LedgerAssumption, SMTT(30) DEF Record
    <3>3. d.generation = q.generation /\ d.rights = q.rights /\ d.base = q.base /\ d.len = q.len
      BY <2>3 DEF CapabilityOf
    <3> HIDE DEF q
    <3>4. d.generation <= q.generation
      BY SMT, <3>2, <3>3
    <3> QED
      BY SMT, <2>3, <3>1, <3>3, <3>4, <1>3
  <2> QED
    BY <2>1, <2>2, <2>3, <1>2
<1> QED
  BY <1>5, <1>6 DEF LedgerInv

(* A release moves the record past every handle and returns none. *)
LEMMA ReleasePreserves ==
  ASSUME NEW c \in issued, LedgerInv, release(c)
  PROVE  LedgerInv'
<1> DEFINE k == c.key
           r == records[k]
           q == [owner |-> c.owner, rights |-> c.rights, generation |-> r.generation + 1,
                 base |-> c.base, len |-> c.len, live |-> FALSE]
<1>1. k \in Keys /\ r \in Record
  <2>1. k \in Keys
    BY DEF LedgerInv, LedgerTypeOK, Capability
  <2>2. r # NoRecord
    BY DEF release, ValidateRecord
  <2> QED
    BY <2>1, <2>2 DEF LedgerInv, LedgerTypeOK
<1>2. /\ r.generation < MaxGen
      /\ records' = [records EXCEPT ![k] = q]
      /\ issued' = issued
      /\ c.rights = r.rights /\ c.base = r.base /\ c.len = r.len
  BY DEF release, ValidateRecord, CanBump, Bumped
<1>3. q \in Record /\ q # NoRecord /\ q.generation = r.generation + 1
      /\ q.rights = r.rights /\ q.base = r.base /\ q.len = r.len
  <2>1. r.generation + 1 \in 0..MaxGen
    BY SMT, <1>1, <1>2, LedgerAssumption DEF Record
  <2>2. q \in Record
    BY <1>1, <1>2, <2>1 DEF Record, LedgerInv, LedgerTypeOK, Capability
  <2> QED
    BY <1>2, <2>2, NoRecordAssumption
<1>4. LedgerTypeOK'
  BY <1>1, <1>2, <1>3 DEF LedgerInv, LedgerTypeOK
<1>5. HandlesTrackRecords'
  <2> SUFFICES ASSUME NEW d \in issued
               PROVE  LET p == records'[d.key]
                      IN /\ p # NoRecord
                         /\ d.generation <= p.generation
                         /\ d.generation = p.generation => p.live /\ d = CapabilityOf(d.key, p)
                         /\ p.rights \subseteq d.rights
                         /\ p.base = d.base /\ p.len = d.len
    BY <1>2 DEF HandlesTrackRecords
  <2>1. CASE d.key # k
    <3>1. records'[d.key] = records[d.key]
      BY <2>1, <1>2 DEF LedgerInv, LedgerTypeOK, Capability
    <3> QED
      BY SMT, <2>1, <3>1 DEF LedgerInv, HandlesTrackRecords
  <2>2. CASE d.key = k
    <3>1. records'[d.key] = q
      BY <2>2, <1>1, <1>2 DEF LedgerInv, LedgerTypeOK
    <3>2. d.generation <= r.generation /\ r.rights \subseteq d.rights
          /\ r.base = d.base /\ r.len = d.len
      BY <2>2 DEF LedgerInv, HandlesTrackRecords
    <3>3. d.generation \in Nat /\ r.generation \in Nat
      BY SMT, <2>2, <1>1, LedgerAssumption DEF LedgerInv, LedgerTypeOK, Capability, Record
    <3>4. q.generation = r.generation + 1
      BY <1>3
    <3> HIDE DEF q, r
    <3>5. d.generation < q.generation
      BY SMT, <3>2, <3>3, <3>4
    <3> QED
      BY SMT, <1>3, <3>1, <3>2, <3>3, <3>5
  <2> QED
    BY <2>1, <2>2
<1> QED
  BY <1>4, <1>5 DEF LedgerInv

(* An empty ledger has issued nothing. *)
LEMMA LedgerInvInit == LedgerInit => LedgerInv
  BY DEF LedgerInit, LedgerInv, LedgerTypeOK, HandlesTrackRecords

(* Every operation of the ledger preserves the inductive invariant. *)
LEMMA LedgerInvStep == LedgerInv /\ [LedgerNext]_ledgerVars => LedgerInv'
<1> SUFFICES ASSUME LedgerInv, [LedgerNext]_ledgerVars
             PROVE  LedgerInv'
  OBVIOUS
<1>1. CASE LedgerNext
  BY <1>1, MintPreserves, TransferPreserves, ReleasePreserves DEF LedgerNext
<1>2. CASE UNCHANGED ledgerVars
  BY <1>2 DEF ledgerVars, LedgerInv, LedgerTypeOK, HandlesTrackRecords
<1> QED
  BY <1>1, <1>2

(* Every reachable ledger satisfies the inductive invariant. *)
THEOREM LedgerInvariant == LedgerSpec => []LedgerInv
  BY LedgerInvInit, LedgerInvStep, PTL DEF LedgerSpec

(* Type correctness of the ledger's records and of every issued handle. *)
THEOREM LedgerTypeCorrect == LedgerSpec => []LedgerTypeOK
BY LedgerInvariant, PTL DEF LedgerInv

(* For every instance: a slot honours at most one of the handles it issued. *)
THEOREM UniqueAuthorityHolds == LedgerSpec => []UniqueAuthority
<1>1. LedgerInv => UniqueAuthority
  BY SMT DEF LedgerInv, HandlesTrackRecords, UniqueAuthority, Current, ValidateRecord
<1> QED
  BY <1>1, LedgerInvariant, PTL

(* A record only ever moves forward: a step leaves it alone, or finds it   *)
(* live and advances its generation by one.                                *)
LEMMA RecordsMoveForward ==
  ASSUME LedgerInv, [LedgerNext]_ledgerVars, NEW k \in Keys, records[k] # NoRecord
  PROVE  \/ records'[k] = records[k]
         \/ /\ records[k].live
            /\ records'[k] # NoRecord
            /\ records'[k].generation = records[k].generation + 1
<1> USE DEF LedgerInv
<1>1. LedgerInv'
  <2>1. CASE LedgerNext
    BY <2>1, MintPreserves, TransferPreserves, ReleasePreserves DEF LedgerNext
  <2>2. CASE UNCHANGED ledgerVars
    BY <2>2 DEF ledgerVars, LedgerTypeOK, HandlesTrackRecords
  <2> QED
    BY <2>1, <2>2
<1>2. ASSUME NEW j \in Keys, NEW o \in Owners, NEW rs \in SUBSET Rights,
             NEW range \in Ranges, mint_root(j, o, rs, range)
      PROVE  records'[k] = records[k]
  BY <1>2 DEF mint_root, Mintable, LedgerTypeOK
<1>3. ASSUME NEW c \in issued, NEW o \in Owners, NEW rs \in SUBSET Rights,
             transfer(c, o, rs), c.key = k
      PROVE  records[k].live /\ records'[k] # NoRecord
             /\ records'[k].generation = records[k].generation + 1
  <2> DEFINE q == [owner |-> o, rights |-> rs, generation |-> records[k].generation + 1,
                   base |-> c.base, len |-> c.len, live |-> TRUE]
  <2>1. records'[k] = q /\ CapabilityOf(k, q) \in issued' /\ records[k].live
    BY <1>3 DEF transfer, ValidateRecord, Bumped, LedgerTypeOK
  <2>2. records'[k] # NoRecord
    BY <2>1, <1>1 DEF HandlesTrackRecords, CapabilityOf
  <2> QED
    BY SMT, <2>1, <2>2
<1>4. ASSUME NEW c \in issued, release(c), c.key = k
      PROVE  records[k].live /\ records'[k] # NoRecord
             /\ records'[k].generation = records[k].generation + 1
  <2>1. records'[k].generation = records[k].generation + 1 /\ records[k].live
        /\ c \in issued'
    BY <1>4 DEF release, ValidateRecord, Bumped, LedgerTypeOK
  <2>2. records'[k] # NoRecord
    BY <2>1, <1>1, <1>4 DEF HandlesTrackRecords
  <2> QED
    BY <2>1, <2>2
<1>5. ASSUME NEW c \in issued, c.key # k,
             release(c) \/ \E o \in Owners, rs \in SUBSET Rights : transfer(c, o, rs)
      PROVE  records'[k] = records[k]
  BY <1>5 DEF release, transfer, LedgerTypeOK
<1>6. CASE UNCHANGED ledgerVars
  BY <1>6 DEF ledgerVars
<1> QED
  BY <1>2, <1>3, <1>4, <1>5, <1>6 DEF LedgerNext

(* A handle that stopped being honoured is refused for ever. *)
THEOREM StaleNeverRevivesHolds == LedgerSpec => StaleNeverRevives
<1>1. LedgerInv /\ LedgerInv' /\ [LedgerNext]_ledgerVars
        => [\A c \in issued : ~Current(c) => ~Current(c)']_ledgerVars
  <2> SUFFICES ASSUME LedgerInv, LedgerInv', [LedgerNext]_ledgerVars, NEW c \in issued,
                      ~Current(c)
               PROVE  ~Current(c)'
    OBVIOUS
  <2>1. c.key \in Keys /\ records[c.key] # NoRecord /\ records[c.key] \in Record
    BY DEF LedgerInv, LedgerTypeOK, HandlesTrackRecords, Capability
  <2>2. c.generation \in Nat /\ records[c.key].generation \in Nat
    BY SMT, <2>1, LedgerAssumption DEF LedgerInv, LedgerTypeOK, Capability, Record
  <2>3. c.generation < records[c.key].generation
    <3>1. c.generation <= records[c.key].generation
      BY DEF LedgerInv, HandlesTrackRecords
    <3>2. ASSUME c.generation = records[c.key].generation
          PROVE  FALSE
      <4>1. records[c.key].live /\ c = CapabilityOf(c.key, records[c.key])
        BY <3>2 DEF LedgerInv, HandlesTrackRecords
      <4>2. /\ c.owner = records[c.key].owner /\ c.rights = records[c.key].rights
            /\ c.base = records[c.key].base /\ c.len = records[c.key].len
        BY SMT, <4>1 DEF CapabilityOf
      <4> QED
        BY <2>1, <3>2, <4>1, <4>2 DEF Current, ValidateRecord
    <3> QED
      BY SMT, <2>2, <3>1, <3>2
  <2>4. CASE records'[c.key] = records[c.key]
    BY <2>4 DEF Current, ValidateRecord
  <2>5. CASE records'[c.key].generation = records[c.key].generation + 1
    BY SMT, <2>2, <2>3, <2>5 DEF Current, ValidateRecord
  <2> QED
    BY <2>1, <2>4, <2>5, RecordsMoveForward
<1> QED
  BY <1>1, LedgerInvariant, PTL DEF LedgerSpec, StaleNeverRevives

(* A released slot keeps its record for ever: never live, never reminted. *)
THEOREM ReleaseIsFinalHolds == LedgerSpec => ReleaseIsFinal
<1>1. LedgerInv /\ [LedgerNext]_ledgerVars
        => [\A k \in Keys : records[k] # NoRecord /\ ~records[k].live
                             => records'[k] = records[k]]_ledgerVars
  BY RecordsMoveForward
<1> QED
  BY <1>1, LedgerInvariant, PTL DEF LedgerSpec, ReleaseIsFinal

(* Along the history of a slot rights only narrow and the range is fixed.  *)
(* The handle a transfer adds is younger than every other handle of its    *)
(* slot, and its rights lie within the record's, hence within theirs.      *)
THEOREM RightsOnlyNarrowHolds == LedgerSpec => []RightsOnlyNarrow
<1>1. LedgerInit => RightsOnlyNarrow
  BY DEF LedgerInit, RightsOnlyNarrow
<1>2. LedgerInv /\ LedgerInv' /\ RightsOnlyNarrow /\ [LedgerNext]_ledgerVars => RightsOnlyNarrow'
  <2> SUFFICES ASSUME LedgerInv, LedgerInv', RightsOnlyNarrow, [LedgerNext]_ledgerVars,
                      NEW c \in issued', NEW d \in issued',
                      c.key = d.key, c.generation <= d.generation
               PROVE  d.rights \subseteq c.rights /\ d.base = c.base /\ d.len = c.len
    BY DEF RightsOnlyNarrow
  <2>1. c.key \in Keys /\ c.generation \in Nat /\ d.generation \in Nat
    BY SMT, LedgerAssumption DEF LedgerInv, LedgerTypeOK, Capability
  <2>2. CASE c \in issued /\ d \in issued
    BY <2>2 DEF RightsOnlyNarrow
  <2>3. CASE d.generation = records'[d.key].generation
    <3>1. d = CapabilityOf(d.key, records'[d.key])
      BY <2>3 DEF LedgerInv, HandlesTrackRecords
    <3>2. /\ d.rights = records'[d.key].rights /\ d.base = records'[d.key].base
          /\ d.len = records'[d.key].len
      BY SMT, <3>1 DEF CapabilityOf
    <3> QED
      BY SMT, <3>2 DEF LedgerInv, HandlesTrackRecords
  <2>4. ASSUME NEW e \in issued', e \notin issued
        PROVE  e.generation = records'[e.key].generation
    <3>1. ASSUME NEW k \in Keys, NEW o \in Owners, NEW rs \in SUBSET Rights,
                 NEW range \in Ranges, mint_root(k, o, rs, range)
          PROVE  e.generation = records'[e.key].generation
      <4> DEFINE r == [owner |-> o, rights |-> rs, generation |-> 0,
                       base |-> range.base, len |-> range.len, live |-> TRUE]
      <4>1. e = CapabilityOf(k, r)
        BY <2>4, <3>1 DEF mint_root
      <4>2. records'[k] = r
        BY <3>1 DEF mint_root, LedgerInv, LedgerTypeOK
      <4> HIDE DEF r
      <4> QED
        BY <4>1, <4>2 DEF CapabilityOf
    <3>2. ASSUME NEW f \in issued, NEW o \in Owners, NEW rs \in SUBSET Rights,
                 transfer(f, o, rs)
          PROVE  e.generation = records'[e.key].generation
      <4> DEFINE r == [owner |-> o, rights |-> rs,
                       generation |-> Bumped(records[f.key].generation),
                       base |-> f.base, len |-> f.len, live |-> TRUE]
      <4>1. e = CapabilityOf(f.key, r)
        BY <2>4, <3>2 DEF transfer
      <4>2. records'[f.key] = r
        BY <3>2 DEF transfer, LedgerInv, LedgerTypeOK, Capability
      <4> HIDE DEF r
      <4> QED
        BY <4>1, <4>2 DEF CapabilityOf
    <3>3. ASSUME NEW f \in issued, release(f)
          PROVE  FALSE
      BY <2>4, <3>3 DEF release
    <3> QED
      BY <2>4, <3>1, <3>2, <3>3 DEF LedgerNext, ledgerVars
  <2>5. CASE c \notin issued
    <3>1. c.generation = records'[d.key].generation
      BY <2>4, <2>5
    <3>2. d.generation <= records'[d.key].generation
      BY DEF LedgerInv, HandlesTrackRecords
    <3> QED
      BY SMT, <3>1, <3>2, <2>1, <2>3
  <2> QED
    BY <2>2, <2>3, <2>4, <2>5
<1> QED
  BY <1>1, <1>2, LedgerInvariant, PTL DEF LedgerSpec

(* No live record is without a holder of its current handle. *)
THEOREM LiveAuthorityIsHeldHolds == LedgerSpec => []LiveAuthorityIsHeld
<1> DEFINE Held == \A k \in Keys : records[k] # NoRecord /\ records[k].live
                                    => CapabilityOf(k, records[k]) \in issued
<1>1. LedgerInit => Held
  BY DEF LedgerInit
<1>2. LedgerInv /\ Held /\ [LedgerNext]_ledgerVars => Held'
  <2> SUFFICES ASSUME LedgerInv, Held, [LedgerNext]_ledgerVars, NEW k \in Keys,
                      records'[k] # NoRecord, records'[k].live
               PROVE  CapabilityOf(k, records'[k]) \in issued'
    OBVIOUS
  <2> USE DEF LedgerInv, LedgerTypeOK
  <2>1. ASSUME NEW j \in Keys, NEW o \in Owners, NEW rs \in SUBSET Rights,
               NEW range \in Ranges, mint_root(j, o, rs, range)
        PROVE  CapabilityOf(k, records'[k]) \in issued'
    BY <2>1 DEF mint_root
  <2>2. ASSUME NEW f \in issued, NEW o \in Owners, NEW rs \in SUBSET Rights,
               transfer(f, o, rs)
        PROVE  CapabilityOf(k, records'[k]) \in issued'
    BY <2>2 DEF transfer, Capability
  <2>3. ASSUME NEW f \in issued, release(f)
        PROVE  CapabilityOf(k, records'[k]) \in issued'
    BY <2>3 DEF release, Capability
  <2>4. CASE UNCHANGED ledgerVars
    BY <2>4 DEF ledgerVars
  <2> QED
    BY <2>1, <2>2, <2>3, <2>4 DEF LedgerNext
<1>3. Held => LiveAuthorityIsHeld
  BY DEF LiveAuthorityIsHeld, Current, ValidateRecord, CapabilityOf
<1> QED
  BY <1>1, <1>2, <1>3, LedgerInvariant, PTL DEF LedgerSpec
-----------------------------------------------------------------------------
(* A handle that was good for the action x carries, and that x stamps.     *)
Backs(c, x) ==
  /\ c.key = <<KindOf[x.action.type], x.capability_slot>>
  /\ c.generation = x.capability_generation
  /\ c.owner = x.owner
  /\ action_authority(x.action).right \in c.rights
  /\ ContainsRange(c, action_authority(x.action).base, action_authority(x.action).len)

(* Every authorization still held was given for some issued handle. *)
StampsBacked == \A x \in authorized : \E c \in issued : Backs(c, x)

ExecutorInv == LedgerInv /\ StampsBacked

(* A handle that is never taken back and a record that is its own past or  *)
(* present state say all that the stamp has to say.                        *)
LEMMA BackedStampIsFresh == ExecutorInv => StampDetectsStaleness
<1> SUFFICES ASSUME ExecutorInv, NEW x \in authorized
             PROVE  LET r == StampedRecord(x)
                        auth == action_authority(x.action)
                    IN /\ r # NoRecord
                       /\ Fresh(x) => /\ r.live
                                      /\ r.owner = x.owner
                                      /\ auth.right \in r.rights
                                      /\ ContainsRange(r, auth.base, auth.len)
  BY DEF StampDetectsStaleness
<1>1. PICK c \in issued : Backs(c, x)
  BY DEF ExecutorInv, StampsBacked
<1> DEFINE r == records[c.key]
           auth == action_authority(x.action)
<1>2. /\ r # NoRecord
      /\ c.generation = r.generation => r.live /\ c = CapabilityOf(c.key, r)
      /\ r.base = c.base /\ r.len = c.len
  BY DEF ExecutorInv, LedgerInv, HandlesTrackRecords
<1>3. StampedRecord(x) = r /\ (Fresh(x) => c.generation = r.generation)
  BY <1>1 DEF StampedRecord, Fresh, Backs
<1>4. auth.right \in c.rights /\ ContainsRange(c, auth.base, auth.len) /\ c.owner = x.owner
  BY <1>1 DEF Backs
<1> HIDE DEF r, auth
<1>5. c = CapabilityOf(c.key, r) => c.owner = r.owner /\ c.rights = r.rights
  BY SMT DEF CapabilityOf
<1>6. ContainsRange(r, auth.base, auth.len)
  BY <1>2, <1>4 DEF ContainsRange
<1>7. QED BY <1>2, <1>3, <1>4, <1>5, <1>6 DEF auth

(* authorize validates the very handle it stamps. *)
LEMMA AuthorizeBacks ==
  ASSUME ExecutorInv, NEW o \in Owners, NEW c \in issued, NEW a \in Actions, authorize(o, c, a)
  PROVE  ExecutorInv'
<1> DEFINE x == [action |-> a, capability_slot |-> c.key[2],
                 capability_generation |-> c.generation, owner |-> o]
           auth == action_authority(a)
<1>1. UNCHANGED <<records, issued>> /\ authorized' = authorized \cup {x}
  BY DEF authorize, ledgerVars
<1>2. c.key[1] = auth.kind /\ Validate(c, o, {auth.right}, auth.base, auth.len)
  BY DEF authorize, RightKind
<1>3. c.key = <<KindOf[a.type], c.key[2]>>
  <2>1. c.key \in Kinds \X SlotIds
    BY DEF ExecutorInv, LedgerInv, LedgerTypeOK, Capability, Keys
  <2>2. auth.kind = KindOf[a.type]
    BY DEF action_authority
  <2>3. QED BY SMT, <1>2, <2>1, <2>2
<1>4. x.action = a /\ x.capability_slot = c.key[2] /\ x.owner = o
      /\ x.capability_generation = c.generation
  OBVIOUS
<1> HIDE DEF x
<1>5. Backs(c, x)
  BY <1>2, <1>3, <1>4 DEF Backs, Validate
<1>6. StampsBacked'
  BY <1>1, <1>5 DEF ExecutorInv, StampsBacked
<1>7. QED BY <1>1, <1>6 DEF ExecutorInv, LedgerInv, LedgerTypeOK, HandlesTrackRecords

(* Operations of the ledger only add handles, so an authorization keeps    *)
(* the handle that backs it.                                               *)
LEMMA LedgerKeepsBacking ==
  ASSUME ExecutorInv, LedgerNext \/ UNCHANGED ledgerVars, UNCHANGED authorized
  PROVE  ExecutorInv'
<1>1. issued \subseteq issued'
  BY DEF LedgerNext, ledgerVars, mint_root, transfer, release
<1>2. LedgerInv'
  BY LedgerInvStep DEF ExecutorInv
<1>3. QED BY <1>1, <1>2 DEF ExecutorInv, StampsBacked

(* As long as the slot has the stamped generation an AuthorizedAction is   *)
(* as good as when authorize returned it, for any ledger and any actions.  *)
THEOREM StampDetectsStalenessHolds == Spec => []StampDetectsStaleness
<1>1. Init => ExecutorInv
  BY LedgerInvInit DEF Init, ExecutorInv, StampsBacked
<1>2. ExecutorInv /\ [Next]_vars => ExecutorInv'
  <2> SUFFICES ASSUME ExecutorInv, [Next]_vars PROVE ExecutorInv'
    OBVIOUS
  <2>1. CASE LedgerNext /\ UNCHANGED authorized
    BY <2>1, LedgerKeepsBacking
  <2>2. ASSUME NEW o \in Owners, NEW c \in issued, NEW a \in Actions, authorize(o, c, a)
        PROVE  ExecutorInv'
    BY <2>2, AuthorizeBacks
  <2>3. CASE UNCHANGED vars
    BY <2>3, LedgerKeepsBacking DEF vars, ledgerVars
  <2>4. QED BY <2>1, <2>2, <2>3 DEF Next
<1>3. QED BY <1>1, <1>2, BackedStampIsFresh, PTL DEF Spec
-----------------------------------------------------------------------------
(* DMA.  Every pinned mapping is a record; that is all the property needs. *)
DmaInv ==
  \A s \in DOMAIN pins :
    pins[s] \in [request : Requests, generation : Nat, ownership : {"Cpu", "Device"}]

DmaGenerations == dma_generations \in [DmaSlots -> Nat] /\ DOMAIN pins \subseteq DmaSlots

(* No buffer is pinned at first and every generation is zero. *)
LEMMA DmaInvInit == DmaInit => DmaInv /\ DmaGenerations
  BY SMT DEF DmaInit, DmaInv, DmaGenerations

(* Pinning, unpinning and the transfers of ownership keep every pinned     *)
(* mapping a record of its slot.                                           *)
LEMMA DmaInvStep == DmaInv /\ DmaGenerations /\ [DmaNext]_dmaVars => (DmaInv /\ DmaGenerations)'
  <1> SUFFICES ASSUME DmaInv, DmaGenerations, [DmaNext]_dmaVars
               PROVE (DmaInv /\ DmaGenerations)'
    OBVIOUS
  <1>1. ASSUME NEW s \in DmaSlots, NEW r \in Requests, pin(s, r)
        PROVE (DmaInv /\ DmaGenerations)'
    <2> DEFINE mapping == [request |-> r, generation |-> dma_generations[s], ownership |-> "Cpu"]
    <2>1. mapping \in [request : Requests, generation : Nat, ownership : {"Cpu", "Device"}]
      BY DEF DmaGenerations
    <2>2. pins' = Put(pins, s, mapping) /\ UNCHANGED dma_generations
      BY <1>1 DEF pin
    <2> HIDE DEF mapping
    <2> QED
      BY <2>1, <2>2 DEF DmaInv, DmaGenerations, Put
  <1>2. ASSUME NEW s \in DmaSlots, NEW h \in handles, unpin(s, h)
        PROVE (DmaInv /\ DmaGenerations)'
    BY <1>2, SMTT(30) DEF DmaInv, DmaGenerations, unpin, Drop, LivePin
  <1>3. ASSUME NEW s, NEW mapping, NEW expected, NEW next \in {"Cpu", "Device"},
               transition_ownership(s, mapping, expected, next)
        PROVE (DmaInv /\ DmaGenerations)'
    BY SMT, <1>3 DEF DmaInv, DmaGenerations, transition_ownership, LivePin
  <1>4. ASSUME UNCHANGED <<pins, dma_generations>> PROVE (DmaInv /\ DmaGenerations)'
    BY <1>4 DEF DmaInv, DmaGenerations
  <1> QED
    BY <1>1, <1>2, <1>3, <1>4 DEF DmaNext, dmaVars, register_domain, map_domain, unmap_domain,
       sync_for_device, sync_for_cpu

(* No call takes a pin or a segment from under the device that owns the    *)
(* buffer, whichever handles are presented, for any slots and domains.     *)
THEOREM DeviceOwnershipHoldsAlways == DmaSpec => DeviceOwnershipHolds
  <1> DEFINE Held(s) ==
        pins[s].ownership = "Device" =>
          /\ s \in DOMAIN pins'
          /\ pins'[s].generation = pins[s].generation
          /\ s \in DOMAIN segments => s \in DOMAIN segments' /\ segments'[s] = segments[s]
  <1>1. ASSUME DmaInv, [DmaNext]_dmaVars, NEW s \in DOMAIN pins PROVE Held(s)
    <2>1. ASSUME NEW t \in DmaSlots, NEW r \in Requests, pin(t, r) PROVE Held(s)
      BY <2>1 DEF pin, Put
    <2>2. ASSUME NEW t \in DmaSlots, NEW h \in handles, unpin(t, h) PROVE Held(s)
      BY <2>2 DEF unpin, Drop, CpuOwns
    <2>3. ASSUME NEW t \in DmaSlots, NEW h \in handles, NEW a \in DeviceAddresses,
                 map_domain(t, h, a)
          PROVE Held(s)
      BY <2>3 DEF map_domain, Put
    <2>4. ASSUME NEW t \in DmaSlots, NEW h \in handles, unmap_domain(t, h) PROVE Held(s)
      BY <2>4 DEF unmap_domain, Drop, CpuOwns
    <2>5. ASSUME NEW t, NEW mapping, NEW expected, NEW next,
                 transition_ownership(t, mapping, expected, next)
          PROVE Held(s)
      BY <1>1, <2>5 DEF DmaInv, transition_ownership, LivePin
    <2>6. ASSUME UNCHANGED <<pins, segments>> PROVE Held(s)
      BY <2>6
    <2> HIDE DEF Held
    <2> QED
      BY <1>1, <2>1, <2>2, <2>3, <2>4, <2>5, <2>6
      DEF DmaNext, dmaVars, register_domain, sync_for_device, sync_for_cpu
  <1>2. DmaInv /\ [DmaNext]_dmaVars => [\A s \in DOMAIN pins : Held(s)]_dmaVars
    BY <1>1
  <1> QED
    BY <1>2, DmaInvInit, DmaInvStep, PTL DEF DmaSpec, DeviceOwnershipHolds
-----------------------------------------------------------------------------
(* Address spaces.  Mappings made with different page sizes never overlap. *)
SpaceInv ==
  /\ DOMAIN mappings \subseteq Nat
  /\ \A w \in DOMAIN mappings :
       mappings[w] \in [physical_base : Nat, len : Nat, permissions : Permissions, epoch : Nat]
  /\ epoch \in 0..MaxMapEpoch
  /\ \A u, w \in DOMAIN mappings :
       u < w + mappings[w].len /\ w < u + mappings[u].len => u = w

(* A new address space has no mapping and epoch zero. *)
LEMMA SpaceInvInit == MemoryInit => SpaceInv
  BY SMT, AddressSpaceAssumption DEF MemoryInit, SpaceInv

(* Every operation keeps the mappings apart and the epoch within its       *)
(* bound.                                                                  *)
LEMMA SpaceInvStep == SpaceInv /\ [SpaceNext \/ WindowNext]_memoryVars => SpaceInv'
  <1> SUFFICES ASSUME SpaceInv, [SpaceNext \/ WindowNext]_memoryVars PROVE SpaceInv'
    OBVIOUS
  <1> USE AddressSpaceAssumption
  <1>1. ASSUME NEW f \in FrameCaps, NEW v \in 0..VirtualEnd, NEW size \in PageSizes,
               NEW n \in 1..VirtualEnd, NEW p \in Permissions, map(f, v, size, n, p)
        PROVE SpaceInv'
    <2> DEFINE len == size * n
               made == [physical_base |-> f.base, len |-> len, permissions |-> p,
                        epoch |-> epoch + 1]
    <2>1. len \in Nat /\ epoch + 1 \in 0..MaxMapEpoch /\ f.base \in Nat
      BY <1>1, SMTT(30) DEF SpaceInv, map
    <2>2. /\ made \in [physical_base : Nat, len : Nat, permissions : Permissions, epoch : Nat]
          /\ made.len = len
      BY SMT, <2>1
    <2>3. /\ mappings' = [w \in DOMAIN mappings \cup {v} |-> IF w = v THEN made ELSE mappings[w]]
          /\ epoch' = epoch + 1
      BY <1>1 DEF map
    <2>4. \A w \in DOMAIN mappings : ~(v < w + mappings[w].len /\ w < v + len)
      BY <1>1 DEF map, FreeRange
    <2> HIDE DEF len, made
    <2>5. /\ DOMAIN mappings' = DOMAIN mappings \cup {v}
          /\ mappings'[v] = made
          /\ \A w \in DOMAIN mappings : w # v => mappings'[w] = mappings[w]
      BY <2>3
    <2>6. ASSUME NEW u \in DOMAIN mappings', NEW w \in DOMAIN mappings',
                 u < w + mappings'[w].len, w < u + mappings'[u].len
          PROVE u = w
      BY <2>2, <2>4, <2>5, <2>6 DEF SpaceInv
    <2> QED
      BY SMTT(30), <2>1, <2>2, <2>3, <2>5, <2>6 DEF SpaceInv
  <1>2. ASSUME NEW v \in 0..VirtualEnd, unmap(v) PROVE SpaceInv'
    BY SMT, <1>2 DEF SpaceInv, unmap, NextEpoch
  <1>3. ASSUME NEW v \in 0..VirtualEnd, NEW p \in Permissions, protect(v, p) PROVE SpaceInv'
    <2> DEFINE Mapping == [physical_base : Nat, len : Nat, permissions : Permissions, epoch : Nat]
               changed(r) == [r EXCEPT !.permissions = p, !.epoch = epoch + 1]
    <2>0. epoch' = epoch + 1 /\ epoch < MaxMapEpoch
      BY <1>3 DEF protect
    <2>1. epoch' = epoch + 1 /\ epoch + 1 \in 0..MaxMapEpoch /\ epoch + 1 \in Nat
      BY SMT, <2>0 DEF SpaceInv
    <2>2. ASSUME NEW r \in Mapping PROVE changed(r) \in Mapping /\ changed(r).len = r.len
      <3> DEFINE middle == [r EXCEPT !.permissions = p]
      <3>1. middle \in Mapping /\ middle.len = r.len
        OBVIOUS
      <3>2. changed(r) = [middle EXCEPT !.epoch = epoch + 1]
        OBVIOUS
      <3> HIDE DEF middle, changed
      <3> QED
        BY <2>1, <3>1, <3>2
    <2>3. mappings' = [w \in DOMAIN mappings |-> IF w = v THEN changed(mappings[w]) ELSE mappings[w]]
      BY <1>3 DEF protect
    <2> HIDE DEF changed
    <2>4. DOMAIN mappings' = DOMAIN mappings
      BY <2>3
    <2>5. \A w \in DOMAIN mappings : mappings'[w] \in Mapping /\ mappings'[w].len = mappings[w].len
      BY <2>2, <2>3 DEF SpaceInv
    <2> QED
      BY <2>1, <2>4, <2>5 DEF SpaceInv
  <1>4. ASSUME UNCHANGED <<mappings, epoch>> PROVE SpaceInv'
    BY <1>4 DEF SpaceInv
  <1> QED
    BY <1>1, <1>2, <1>3, <1>4
    DEF SpaceNext, MappingNext, WindowNext, memoryVars, spaceVars, activate, deactivate, destroy,
        map_temporary, revoke

(* Mappings that do not overlap give an address one translation. *)
LEMMA SpaceUnique == SpaceInv => \A v \in 0..(VirtualEnd - 1) : \A t, u \in translate(v) : t = u
  <1> SUFFICES ASSUME SpaceInv, NEW v \in 0..(VirtualEnd - 1)
               PROVE \A t, u \in translate(v) : t = u
    OBVIOUS
  <1> DEFINE holders == {w \in DOMAIN mappings : v \in Canonical \cap Pages(w, mappings[w].len)}
             answer(w) == <<mappings[w].physical_base + (v - w), mappings[w].permissions>>
  <1>1. \A u, w \in holders : u = w
    BY SMT, AddressSpaceAssumption DEF SpaceInv, Pages
  <1>2. translate(v) = {answer(w) : w \in holders}
    BY DEF translate
  <1> HIDE DEF holders, answer
  <1> QED
    BY <1>1, <1>2

(* Every mapping is some capability's frames, below the last address. *)
Backed ==
  \A v \in DOMAIN mappings :
    /\ v + mappings[v].len < VirtualEnd
    /\ \E f \in FrameCaps : f.base = mappings[v].physical_base /\ mappings[v].len <= f.len

(* map checks both, and no other operation moves or stretches a mapping. *)
LEMMA BackedStep == SpaceInv /\ Backed /\ [SpaceNext \/ WindowNext]_memoryVars => Backed'
  <1> SUFFICES ASSUME SpaceInv, Backed, [SpaceNext \/ WindowNext]_memoryVars PROVE Backed'
    OBVIOUS
  <1>1. ASSUME NEW f \in FrameCaps, NEW v \in 0..VirtualEnd, NEW s \in PageSizes,
               NEW n \in 1..VirtualEnd, NEW p \in Permissions, map(f, v, s, n, p)
        PROVE  Backed'
    <2> DEFINE made == [physical_base |-> f.base, len |-> s * n, permissions |-> p,
                        epoch |-> epoch + 1]
    <2>1. /\ v + s * n < VirtualEnd /\ s * n <= f.len
          /\ mappings' = [w \in DOMAIN mappings \cup {v} |-> IF w = v THEN made ELSE mappings[w]]
      BY <1>1 DEF map
    <2>2. made.physical_base = f.base /\ made.len = s * n
      OBVIOUS
    <2> HIDE DEF made
    <2>3. /\ DOMAIN mappings' = DOMAIN mappings \cup {v} /\ mappings'[v] = made
          /\ \A w \in DOMAIN mappings : w # v => mappings'[w] = mappings[w]
      BY <2>1
    <2> QED
      BY <2>1, <2>2, <2>3 DEF Backed
  <1>2. ASSUME NEW v \in 0..VirtualEnd, unmap(v) PROVE Backed'
    BY <1>2 DEF Backed, unmap
  <1>3. ASSUME NEW v \in 0..VirtualEnd, NEW p \in Permissions, protect(v, p) PROVE Backed'
    <2>1. mappings' = [w \in DOMAIN mappings |->
                         IF w = v THEN [mappings[w] EXCEPT !.permissions = p, !.epoch = epoch + 1]
                         ELSE mappings[w]]
      BY <1>3 DEF protect
    <2>2. \A w \in DOMAIN mappings :
            LET r == [mappings[w] EXCEPT !.permissions = p, !.epoch = epoch + 1]
            IN r.len = mappings[w].len /\ r.physical_base = mappings[w].physical_base
      BY DEF SpaceInv
    <2>3. /\ DOMAIN mappings' = DOMAIN mappings
          /\ \A w \in DOMAIN mappings :
               /\ mappings'[w].len = mappings[w].len
               /\ mappings'[w].physical_base = mappings[w].physical_base
      BY <2>1, <2>2
    <2> QED
      BY <2>3 DEF Backed
  <1>4. ASSUME UNCHANGED mappings PROVE Backed'
    BY <1>4 DEF Backed
  <1> QED
    BY <1>1, <1>2, <1>3, <1>4
    DEF SpaceNext, MappingNext, WindowNext, memoryVars, spaceVars, activate, deactivate, destroy,
        map_temporary, revoke

(* translate is a function into the frames of the capabilities, whatever   *)
(* page sizes and permissions the mappings were made with and however      *)
(* large the address space is.                                             *)
THEOREM TranslationsSoundHolds == MemorySpec => []TranslationsSound
  <1>1. MemoryInit => Backed
    BY DEF MemoryInit, Backed
  <1>2. SpaceInv /\ Backed => TranslationsSound
    <2>1. SpaceInv /\ Backed => \A v \in DOMAIN mappings :
                                 Pages(v, mappings[v].len) \subseteq 0..(VirtualEnd - 1)
      BY SMT, AddressSpaceAssumption DEF SpaceInv, Backed, Pages
    <2> QED
      BY <2>1, SpaceUnique DEF Backed, TranslationsSound
  <1> QED
    BY <1>1, <1>2, BackedStep, SpaceInvInit, SpaceInvStep, PTL DEF MemorySpec

(* No translation changes in a step that leaves the epoch as it was, until *)
(* the epoch is exhausted.                                                 *)
THEOREM EpochMarksChangeHolds == MemorySpec => EpochMarksChange
  <1> DEFINE Marked == \A v \in 0..(VirtualEnd - 1) :
               translate(v)' # translate(v) => epoch' > epoch \/ epoch = MaxMapEpoch
  <1>1. ASSUME SpaceInv, [SpaceNext \/ WindowNext]_memoryVars PROVE Marked
    <2>1. ASSUME mappings' = mappings PROVE Marked
      BY <2>1 DEF translate
    <2>2. ASSUME epoch' = epoch + 1 \/ epoch' = NextEpoch(epoch) PROVE Marked
      BY SMT, <1>1, <2>2, AddressSpaceAssumption DEF SpaceInv, NextEpoch
    <2> HIDE DEF Marked
    <2>3. ASSUME NEW f \in FrameCaps, NEW v \in 0..VirtualEnd, NEW s \in PageSizes,
                 NEW n \in 1..VirtualEnd, NEW p \in Permissions, map(f, v, s, n, p)
          PROVE  Marked
      BY <2>2, <2>3 DEF map
    <2>4. ASSUME NEW v \in 0..VirtualEnd, NEW p \in Permissions, protect(v, p) PROVE Marked
      BY <2>2, <2>4 DEF protect
    <2>5. ASSUME NEW v \in 0..VirtualEnd, unmap(v) PROVE Marked
      BY <2>2, <2>5 DEF unmap
    <2>6. ASSUME NEW c \in MapCpus, activate(c) \/ deactivate(c) PROVE Marked
      BY <2>1, <2>6 DEF activate, deactivate
    <2>7. CASE destroy
      BY <2>1, <2>7 DEF destroy
    <2>8. CASE WindowNext \/ UNCHANGED memoryVars
      BY <2>1, <2>8 DEF WindowNext, map_temporary, revoke, memoryVars, spaceVars
    <2> QED
      BY <1>1, <2>3, <2>4, <2>5, <2>6, <2>7, <2>8 DEF SpaceNext, MappingNext
  <1>2. SpaceInv /\ [SpaceNext \/ WindowNext]_memoryVars => [Marked]_memoryVars
    BY <1>1
  <1> QED
    BY <1>2, SpaceInvInit, SpaceInvStep, PTL DEF MemorySpec, EpochMarksChange
-----------------------------------------------------------------------------
(* Copies.  What user memory holds after the first n bytes of a copy to    *)
(* it: each frame has the last byte that went there, or what it had        *)
(* before.                                                                 *)
Written(bytes, before, addresses, buffer, n) ==
  /\ DOMAIN bytes = DOMAIN before \cup {addresses[i] : i \in 1..n}
  /\ \A p \in DOMAIN bytes :
       \/ \E i \in 1..n : /\ addresses[i] = p /\ bytes[p] = buffer[i]
                          /\ \A j \in 1..n : j > i => addresses[j] # p
       \/ (\A i \in 1..n : addresses[i] # p) /\ bytes[p] = before[p]

(* write_byte takes the copy one byte further: the frame it writes has     *)
(* that byte, every other one is as it was.                                *)
LEMMA WriteOne ==
  ASSUME NEW bytes, NEW before, NEW addresses, NEW buffer, NEW n \in Nat,
         Written(bytes, before, addresses, buffer, n), NEW after,
         after = With(bytes, addresses[n + 1], buffer[n + 1])
  PROVE  Written(after, before, addresses, buffer, n + 1)
<1> DEFINE a == addresses[n + 1]
           v == buffer[n + 1]
<1>1. DOMAIN after = DOMAIN bytes \cup {a} /\ after[a] = v
      /\ \A p \in DOMAIN bytes : p # a => after[p] = bytes[p]
  BY DEF With
<1>2. 1..(n + 1) = 1..n \cup {n + 1} /\ \A i \in 1..n : i \in Nat /\ i < n + 1 /\ i # n + 1
  BY SMT
<1>3. DOMAIN after = DOMAIN before \cup {addresses[i] : i \in 1..(n + 1)}
  BY SMT, <1>1, <1>2 DEF Written
<1>4. ASSUME NEW p \in DOMAIN after
      PROVE  \/ \E i \in 1..(n + 1) : /\ addresses[i] = p /\ after[p] = buffer[i]
                                      /\ \A j \in 1..(n + 1) : j > i => addresses[j] # p
             \/ (\A i \in 1..(n + 1) : addresses[i] # p) /\ after[p] = before[p]
  <2>1. CASE p = a
    <3>1. n + 1 \in 1..(n + 1) /\ \A j \in 1..(n + 1) : ~(j > n + 1) BY SMT
    <3>2. QED BY <1>1, <2>1, <3>1
  <2>2. CASE p # a
    <3>1. p \in DOMAIN bytes /\ after[p] = bytes[p] BY <1>1, <2>2
    <3>2. CASE \E i \in 1..n : /\ addresses[i] = p /\ bytes[p] = buffer[i]
                               /\ \A j \in 1..n : j > i => addresses[j] # p
      BY <1>2, <2>2, <3>1, <3>2
    <3>3. CASE (\A i \in 1..n : addresses[i] # p) /\ bytes[p] = before[p]
      BY <1>2, <2>2, <3>1, <3>3
    <3>4. QED BY <3>1, <3>2, <3>3 DEF Written
  <2>3. QED BY <2>1, <2>2
<1>5. QED BY <1>3, <1>4 DEF Written

(* A call, field by field. *)
Called(pc, op, at, buffer, addresses, staged, bytes, out) ==
  [pc |-> pc, op |-> op, at |-> at, buffer |-> buffer, addresses |-> addresses,
   staged |-> staged, bytes |-> bytes, out |-> out]

IsCall ==
  /\ call = Called(call.pc, call.op, call.at, call.buffer, call.addresses, call.staged,
                   call.bytes, call.out)
  /\ call.pc \in {"idle", "Ok", "Err", "validate", "move"}

(* The frames that were found so far. *)
Found ==
  /\ call.op \in {"copy_to_user", "copy_from_user"} /\ call.at \in Nat
  /\ call.buffer \in Seq(Bytes) /\ call.addresses \in Seq(Int)
  /\ Len(call.addresses) <= Len(call.buffer)
  /\ \A i \in 1..Len(call.addresses) : UserFrame(call.at + i - 1) = {call.addresses[i]}

(* The bytes that were moved so far. *)
MovedSoFar ==
  /\ Len(call.addresses) = Len(call.buffer)
  /\ call.staged \in Seq(Bytes) /\ Moved <= Len(call.buffer)
  /\ IF call.op = "copy_to_user"
     THEN Written(user_bytes, call.bytes, call.addresses, call.buffer, Moved)
     ELSE /\ user_bytes = call.bytes
          /\ \A i \in 1..Moved : call.staged[i] = user_bytes[call.addresses[i]]

CopyInv ==
  /\ SpaceInv /\ IsCall
  /\ \A p \in DOMAIN user_bytes : user_bytes[p] \in Bytes
  /\ ~Between => Found /\ output = call.out
  /\ call.pc = "validate" => call.staged = <<>> /\ user_bytes = call.bytes
  /\ call.pc = "move" => MovedSoFar

(* No call is in progress at first. *)
LEMMA CopyInvInit == MemoryInit /\ CopyInit => CopyInv
BY SMT, SpaceInvInit DEF CopyInit, CopyInv, IsCall, Called, Idle, Between

(* A frame that a copy may access is the only one behind its address. *)
LEMMA FrameUnique ==
  ASSUME SpaceInv, NEW v \in 0..(VirtualEnd - 1), NEW p \in UserFrame(v)
  PROVE  UserFrame(v) = {p} /\ p \in Int
<1>1. \A t, u \in translate(v) : t = u BY SpaceUnique
<1>2. PICK t \in translate(v) : p = t[1] /\ Needed \subseteq t[2] BY DEF UserFrame
<1>3. UserFrame(v) = {p} BY <1>1, <1>2 DEF UserFrame
<1>4. p \in Int BY SMT, <1>2 DEF translate, SpaceInv
<1>5. QED BY <1>3, <1>4

(* The validation of a range collects exactly the frames a user may        *)
(* access, the move writes or stages their bytes in order, and nothing     *)
(* remaps them while a call is in progress.                                *)
LEMMA CopyInvStep == CopyInv /\ [CopyNext]_<<memoryVars, copyVars>> => CopyInv'
<1> SUFFICES ASSUME CopyInv, [CopyNext]_<<memoryVars, copyVars>> PROVE CopyInv'
  OBVIOUS
<1> DEFINE result(r) == [pc |-> r, op |-> "none", at |-> 0, buffer |-> <<>>, addresses |-> <<>>,
                         staged |-> <<>>, bytes |-> <<>>, out |-> <<>>]
<1>1. ASSUME NEW r \in {"Ok", "Err"}, Finish(r), SpaceInv',
             \A p \in DOMAIN user_bytes' : user_bytes'[p] \in Bytes
      PROVE  CopyInv'
  <2>1. call' = result(r) BY <1>1 DEF Finish, Idle
  <2>2. IsCall' /\ call'.pc = r BY <1>1, <2>1 DEF IsCall, Called
  <2>3. QED BY <1>1, <2>2 DEF CopyInv, Between
<1>2. ASSUME UNCHANGED memoryVars PROVE SpaceInv'
  BY <1>2 DEF CopyInv, SpaceInv, memoryVars, spaceVars
<1>3. ASSUME UNCHANGED memoryVars, call'.op = call.op, NEW v PROVE UserFrame(v)' = UserFrame(v)
  BY <1>3 DEF UserFrame, translate, Needed, Right, memoryVars, spaceVars
<1>4. ASSUME NEW b \in Buffers, NEW p \in 0..(PhysicalEnd - 1), initialize_bytes(p, b),
             UNCHANGED memoryVars
      PROVE  CopyInv'
  <2> DEFINE fits == {q \in p..(p + Len(b) - 1) : q < PhysicalEnd}
  <2>1. b \in Seq(Bytes) /\ p \in Nat BY SMT, UserMemoryAssumption
  <2>2. \A q \in fits : b[q - p + 1] \in Bytes BY SMT, <2>1
  <2>3. /\ Between /\ UNCHANGED <<output, call>>
        /\ user_bytes' = [q \in DOMAIN user_bytes \cup fits |->
                            IF q \in fits THEN b[q - p + 1] ELSE user_bytes[q]]
    BY <1>4 DEF initialize_bytes
  <2> HIDE DEF fits
  <2>4. \A q \in DOMAIN user_bytes' : user_bytes'[q] \in Bytes BY <2>2, <2>3 DEF CopyInv
  <2>5. QED BY <1>2, <1>4, <2>3, <2>4 DEF CopyInv, IsCall, Between
<1>5. ASSUME NEW op \in {"copy_to_user", "copy_from_user"}, NEW b \in Buffers,
             NEW v \in 0..(VirtualEnd - 1), begin_copy(op, v, b), UNCHANGED memoryVars
      PROVE  CopyInv'
  <2>1. /\ call' = Called("validate", op, v, b, <<>>, <<>>, user_bytes, output)
        /\ UNCHANGED <<user_bytes, output>>
    BY <1>5 DEF begin_copy, Called
  <2>2. b \in Seq(Bytes) /\ v \in Nat BY SMT, UserMemoryAssumption
  <2>3. IsCall' /\ Found' BY SMT, <2>1, <2>2 DEF IsCall, Found, Called
  <2>4. QED BY <1>2, <1>5, <2>1, <2>3 DEF CopyInv, Called
<1>6. ASSUME validate_user_range, UNCHANGED memoryVars PROVE CopyInv'
  <2> DEFINE n == Len(call.addresses)
             next == call.at + n
  <2>1. call.pc = "validate" /\ UNCHANGED <<user_bytes, output>> BY <1>6 DEF validate_user_range
  <2>2. Found /\ output = call.out /\ call.staged = <<>> /\ user_bytes = call.bytes /\ IsCall
    BY <2>1 DEF CopyInv, Between
  <2>3. CASE n = Len(call.buffer) /\ call' = [call EXCEPT !.pc = "move"]
    <3>1. call' = Called("move", call.op, call.at, call.buffer, call.addresses, call.staged,
                         call.bytes, call.out)
      BY <2>2, <2>3 DEF IsCall, Called
    <3>2. IsCall' BY <3>1 DEF IsCall, Called
    <3>3. Found' BY <1>3, <1>6, <2>2, <3>1 DEF Found, Called
    <3>4. Written(user_bytes, user_bytes, call.addresses, call.buffer, 0) BY SMT DEF Written
    <3>5. MovedSoFar'
      <4>1. /\ call'.op = call.op /\ call'.buffer = call.buffer /\ call'.addresses = call.addresses
            /\ call'.staged = <<>> /\ call'.bytes = user_bytes /\ user_bytes' = user_bytes
        BY <2>1, <2>2, <3>1 DEF Called
      <4>2. Moved' = 0 /\ <<>> \in Seq(Bytes) /\ 0 <= Len(call.buffer) BY SMT, <2>2, <4>1 DEF Moved, Found
      <4>3. Written(user_bytes', call'.bytes, call'.addresses, call'.buffer, Moved')
        BY <3>4, <4>1, <4>2
      <4>4. user_bytes' = call'.bytes /\ 1..Moved' = {} BY SMT, <4>1, <4>2
      <4>5. Len(call'.addresses) = Len(call'.buffer) BY <2>3, <4>1
      <4>6. QED BY <4>1, <4>2, <4>3, <4>4, <4>5 DEF MovedSoFar
    <3>6. QED BY <1>2, <1>6, <2>1, <2>2, <3>1, <3>2, <3>3, <3>5 DEF CopyInv, Called
  <2>4. CASE Finish("Err") BY <1>1, <1>2, <1>6, <2>1, <2>4 DEF CopyInv
  <2>5. CASE n < Len(call.buffer) /\ ~(next >= VirtualEnd)
             /\ \E p \in UserFrame(next) : call' = [call EXCEPT !.addresses = Append(@, p)]
    <3>1. PICK p \in UserFrame(next) : call' = [call EXCEPT !.addresses = Append(@, p)] BY <2>5
    <3>2. next \in 0..(VirtualEnd - 1) BY SMT, <2>2, <2>5, AddressSpaceAssumption DEF Found
    <3>3. UserFrame(next) = {p} /\ p \in Int BY <3>1, <3>2, FrameUnique DEF CopyInv
    <3> DEFINE a == Append(call.addresses, p)
    <3>4. call' = Called(call.pc, call.op, call.at, call.buffer, a, call.staged, call.bytes, call.out)
      BY <2>2, <3>1 DEF IsCall, Called
    <3>5. /\ a \in Seq(Int) /\ Len(a) = n + 1 /\ a[n + 1] = p
          /\ \A i \in 1..n : a[i] = call.addresses[i]
      BY SMT, <2>2, <3>3 DEF Found
    <3> HIDE DEF a
    <3>6. IsCall' /\ call'.pc = "validate" BY <2>1, <3>4 DEF IsCall, Called
    <3>7. \A i \in 1..(n + 1) : UserFrame(call.at + i - 1) = {a[i]}
      <4>1. n \in Nat /\ call.at \in Nat /\ call.at + (n + 1) - 1 = next BY SMT, <2>2 DEF Found
      <4>2. \A i \in 1..n : UserFrame(call.at + i - 1) = {a[i]} BY <2>2, <3>5 DEF Found
      <4>3. ASSUME NEW i \in 1..(n + 1) PROVE UserFrame(call.at + i - 1) = {a[i]}
        <5>1. CASE i = n + 1
          <6>1. call.at + i - 1 = next BY <4>1, <5>1
          <6>2. QED BY <3>3, <3>5, <5>1, <6>1
        <5>2. CASE i # n + 1
          <6>1. i \in 1..n BY SMT, <4>1, <5>2
          <6>2. QED BY <4>2, <6>1
        <5>3. QED BY <5>1, <5>2
      <4>4. QED BY <4>3
    <3>8. Found' BY SMTT(30), <1>3, <1>6, <2>2, <2>5, <3>4, <3>5, <3>7 DEF Found, Called
    <3>9. QED BY <1>2, <1>6, <2>1, <2>2, <3>4, <3>6, <3>8 DEF CopyInv, Called
  <2>6. QED BY <1>6, <2>3, <2>4, <2>5 DEF validate_user_range
<1>7. ASSUME write_byte, UNCHANGED memoryVars PROVE CopyInv'
  <2> DEFINE n == Len(call.staged)
             v == call.buffer[n + 1]
  <2>1. call.pc = "move" /\ call.op = "copy_to_user" /\ UNCHANGED output BY <1>7 DEF write_byte
  <2>2. Found /\ output = call.out /\ MovedSoFar /\ IsCall BY <2>1 DEF CopyInv, Between
  <2>3. CASE n = Len(call.buffer) BY <1>1, <1>2, <1>7, <2>3 DEF write_byte, Moved, CopyInv
  <2>4. CASE n # Len(call.buffer)
    <3>1. /\ user_bytes' = With(user_bytes, call.addresses[n + 1], v)
          /\ call' = [call EXCEPT !.staged = Append(@, v)]
      BY <1>7, <2>4 DEF write_byte, Moved, Target
    <3>2. n \in Nat /\ n + 1 \in 1..Len(call.buffer) /\ v \in Bytes
      BY SMTT(30), <2>2, <2>4 DEF MovedSoFar, Moved, Found
    <3> DEFINE s == Append(call.staged, v)
    <3>3. call' = Called(call.pc, call.op, call.at, call.buffer, call.addresses, s, call.bytes, call.out)
      BY <2>2, <3>1 DEF IsCall, Called
    <3>4. s \in Seq(Bytes) /\ Len(s) = n + 1 BY SMT, <2>2, <3>2 DEF MovedSoFar
    <3>5. Written(user_bytes, call.bytes, call.addresses, call.buffer, n)
      BY <2>1, <2>2 DEF MovedSoFar, Moved
    <3> HIDE DEF s
    <3>6. Written(user_bytes', call.bytes, call.addresses, call.buffer, n + 1)
      BY <3>1, <3>2, <3>5, WriteOne
    <3>7. \A p \in DOMAIN user_bytes' : user_bytes'[p] \in Bytes
      BY <3>1, <3>2 DEF With, CopyInv
    <3>8. IsCall' /\ call'.pc = "move" BY <2>1, <3>3 DEF IsCall, Called
    <3>9. Found' BY <1>3, <1>7, <2>2, <3>3 DEF Found, Called
    <3>10. MovedSoFar' BY SMT, <2>1, <2>2, <3>2, <3>3, <3>4, <3>6 DEF MovedSoFar, Moved, Called
    <3>11. QED BY <1>2, <1>7, <2>1, <2>2, <3>3, <3>7, <3>8, <3>9, <3>10 DEF CopyInv, Called
  <2>5. QED BY <2>3, <2>4
<1>8. ASSUME stage_byte, UNCHANGED memoryVars PROVE CopyInv'
  <2> DEFINE n == Len(call.staged)
             t == call.addresses[n + 1]
  <2>1. call.pc = "move" /\ call.op # "copy_to_user" /\ UNCHANGED user_bytes BY <1>8 DEF stage_byte
  <2>2. Found /\ output = call.out /\ MovedSoFar /\ IsCall BY <2>1 DEF CopyInv, Between
  <2>3. CASE Finish("Ok") \/ Finish("Err") BY <1>1, <1>2, <1>8, <2>1, <2>3 DEF CopyInv
  <2>4. CASE /\ n # Len(call.buffer) /\ t \in DOMAIN user_bytes /\ UNCHANGED output
             /\ call' = [call EXCEPT !.staged = Append(@, user_bytes[t])]
    <3> DEFINE s == Append(call.staged, user_bytes[t])
    <3>1. user_bytes[t] \in Bytes BY <2>4 DEF CopyInv
    <3>2. call' = Called(call.pc, call.op, call.at, call.buffer, call.addresses, s, call.bytes, call.out)
      BY <2>2, <2>4 DEF IsCall, Called
    <3>3. n \in Nat /\ n + 1 <= Len(call.buffer) BY SMT, <2>2, <2>4 DEF MovedSoFar, Moved, Found
    <3>4. /\ s \in Seq(Bytes) /\ Len(s) = n + 1 /\ s[n + 1] = user_bytes[t]
          /\ \A i \in 1..n : s[i] = call.staged[i]
      BY SMT, <2>2, <3>1 DEF MovedSoFar
    <3> HIDE DEF s
    <3>5. \A i \in 1..(n + 1) : s[i] = user_bytes[call.addresses[i]]
      <4>1. \A i \in 1..n : s[i] = user_bytes[call.addresses[i]]
        BY <2>1, <2>2, <3>4 DEF MovedSoFar, Moved
      <4>2. QED BY SMT, <3>3, <3>4, <4>1
    <3>6. IsCall' /\ call'.pc = "move" BY <2>1, <3>2 DEF IsCall, Called
    <3>7. Found' BY <1>3, <1>8, <2>2, <3>2 DEF Found, Called
    <3>8. MovedSoFar' BY <2>1, <2>2, <3>2, <3>3, <3>4, <3>5 DEF MovedSoFar, Moved, Called
    <3>9. QED BY <1>2, <1>8, <2>1, <2>2, <2>4, <3>2, <3>6, <3>7, <3>8 DEF CopyInv, Called
  <2>5. QED BY <1>8, <2>3, <2>4 DEF stage_byte, Moved, Target
<1>9. CASE Between /\ MappingNext /\ UNCHANGED copyVars
  <2>1. SpaceInv' BY <1>9, SpaceInvStep DEF SpaceNext, CopyInv
  <2>2. QED BY <1>9, <2>1 DEF CopyInv, IsCall, Between, copyVars
<1>10. CASE UNCHANGED <<memoryVars, copyVars>>
  <2>1. UNCHANGED <<user_bytes, output, call>> /\ \A v : UserFrame(v)' = UserFrame(v)
    BY <1>3, <1>10 DEF copyVars
  <2>2. QED BY <1>2, <1>10, <2>1 DEF CopyInv, IsCall, Found, MovedSoFar, Moved, Between
<1>11. QED
  BY <1>4, <1>5, <1>6, <1>7, <1>8, <1>9, <1>10 DEF CopyNext, copy_to_user, copy_from_user

(* What user memory holds at the end of a copy to it, in terms of the      *)
(* frames the property speaks of.                                          *)
LEMMA WrittenFrames ==
  ASSUME NEW bytes, NEW before, NEW a, NEW buffer, NEW n \in Nat,
         Written(bytes, before, a, buffer, n), NEW frames, DOMAIN frames = 1..n,
         \A i \in 1..n : frames[i] = {a[i]}
  PROVE  Landed(bytes, before, frames, buffer)
<1>1. UNION {frames[i] : i \in DOMAIN frames} = {a[i] : i \in 1..n} BY SMT
<1>2. \A p, q : {p} = {q} <=> p = q OBVIOUS
<1>3. ASSUME NEW p \in DOMAIN bytes, NEW i \in 1..n, a[i] = p, \A j \in 1..n : j > i => a[j] # p
      PROVE  frames[i] = {p} /\ LastInto(i, frames)
  BY SMT, <1>2, <1>3 DEF LastInto
<1>4. ASSUME NEW p \in DOMAIN bytes, \A i \in 1..n : a[i] # p
      PROVE  \A i \in DOMAIN frames : frames[i] # {p}
  BY SMT, <1>2, <1>4
<1>5. QED BY <1>1, <1>3, <1>4 DEF Written, Landed

(* A step that ends a copy leaves what the property says. *)
LEMMA CopyEnds ==
  ASSUME CopyInv, CopyNext, ~Between, Between'
  PROVE  Outcome(OpenFrames)
<1> DEFINE frames == OpenFrames
           n == Len(call.buffer)
<1>1. Found /\ output = call.out /\ IsCall BY DEF CopyInv
<1>2. n \in Nat /\ DOMAIN call.buffer = 1..n BY SMT, <1>1 DEF Found
<1>3. \A v : OpenFrame(v) = UserFrame(v) BY DEF OpenFrame, UserFrame, Needed
<1>4. validate_user_range \/ write_byte \/ stage_byte
  BY DEF CopyNext, initialize_bytes, copy_to_user, copy_from_user, begin_copy
<1>5. CASE validate_user_range
  <2>1. call.pc = "validate" /\ UNCHANGED <<user_bytes, output>> BY <1>5 DEF validate_user_range
  <2>2. call'.pc = "Err"
    BY <1>1, <1>5, <2>1 DEF validate_user_range, Finish, Idle, Between, IsCall, Called
  <2>3. QED BY <1>1, <2>1, <2>2 DEF CopyInv, Outcome
<1>6. ASSUME call.pc = "move", Moved = n
      PROVE  MovedSoFar /\ DOMAIN frames = 1..n /\ \A i \in 1..n : frames[i] = {call.addresses[i]}
  <2>1. MovedSoFar /\ Len(call.addresses) = n BY <1>6 DEF CopyInv, MovedSoFar
  <2>2. \A i \in 1..n : OpenFrame(call.at + i - 1) = {call.addresses[i]}
    BY <1>1, <1>3, <2>1 DEF Found
  <2>3. QED BY <1>2, <2>1, <2>2 DEF OpenFrames
<1> HIDE DEF frames
<1>7. CASE write_byte
  <2>1. call.pc = "move" /\ call.op = "copy_to_user" /\ output' = call.out BY <1>1, <1>7 DEF write_byte
  <2>2. Moved = n /\ Finish("Ok") /\ UNCHANGED user_bytes
    BY <1>1, <1>7, <2>1 DEF write_byte, Between, IsCall, Called
  <2>3. call'.pc = "Ok" BY <2>2 DEF Finish, Idle
  <2>4. Written(user_bytes, call.bytes, call.addresses, call.buffer, n)
    BY <1>6, <2>1, <2>2 DEF MovedSoFar
  <2>5. DOMAIN frames = 1..n /\ \A i \in 1..n : frames[i] = {call.addresses[i]}
    BY <1>6, <2>1, <2>2
  <2>6. Landed(user_bytes, call.bytes, frames, call.buffer)
    BY <1>2, <2>4, <2>5, WrittenFrames
  <2>7. \A i \in DOMAIN frames : frames[i] # {} BY <2>5
  <2>8. QED BY <2>1, <2>2, <2>3, <2>6, <2>7 DEF Outcome, frames
<1>8. CASE stage_byte
  <2>1. call.pc = "move" /\ call.op # "copy_to_user" /\ user_bytes' = user_bytes
    BY <1>8 DEF stage_byte
  <2>2. MovedSoFar /\ user_bytes = call.bytes BY <2>1 DEF CopyInv, MovedSoFar
  <2>3. \/ call'.pc = "Err" /\ UNCHANGED output
        \/ call'.pc = "Ok" /\ Moved = n /\ output' = call.staged
    BY <1>1, <1>8, <2>1 DEF stage_byte, Between, IsCall, Called, Finish, Idle
  <2>4. CASE call'.pc = "Err" /\ UNCHANGED output BY <1>1, <2>1, <2>2, <2>4 DEF Outcome
  <2>5. CASE call'.pc = "Ok" /\ Moved = n /\ output' = call.staged
    <3>1. /\ Len(output') = n
          /\ \A i \in 1..n : output'[i] = user_bytes[call.addresses[i]]
      BY <2>1, <2>2, <2>5 DEF MovedSoFar, Moved
    <3>2. DOMAIN frames = 1..n /\ \A i \in 1..n : frames[i] = {call.addresses[i]}
      BY <1>6, <2>1, <2>5
    <3>3. \A i \in DOMAIN frames : \A p \in frames[i] : output'[i] = user_bytes[p]
      BY SMT, <3>1, <3>2
    <3>4. QED BY <2>1, <2>2, <2>5, <3>1, <3>2, <3>3 DEF Outcome, frames
  <2>6. QED BY <2>3, <2>4, <2>5
<1>9. QED BY <1>4, <1>5, <1>7, <1>8

(* A copy to or from user memory happens entirely or not at all: one that  *)
(* fails leaves memory and buffer as they were, one that succeeds has      *)
(* moved every byte, through frames the user may access, for any mappings, *)
(* buffers and addresses.                                                  *)
THEOREM CopyAllOrNothingHolds == CopySpec => CopyAllOrNothing
<1>1. CopyInv /\ [CopyNext]_<<memoryVars, copyVars>> =>
        [~Between /\ Between' => Outcome(OpenFrames)]_copyVars
  BY CopyEnds
<1>2. QED BY <1>1, CopyInvInit, CopyInvStep, PTL DEF CopySpec, CopyAllOrNothing
-----------------------------------------------------------------------------
(* The heap.  A CPU in its search has passed no place that was free all    *)
(* along, and what it last saw of the bitmap did not cover such a place.   *)
SearchInv ==
  /\ first \in [HeapCpus -> Nat] /\ pages \in [HeapCpus -> Int]
  /\ heap_pc \in [HeapCpus -> {"idle", "load", "try", "null"}]
  /\ observed \in [HeapCpus -> SUBSET Int] /\ HEAP_BITMAP \subseteq Int
  /\ steady \in [HeapCpus -> SUBSET Int]
  /\ \A c \in HeapCpus : \A f \in steady[c] :
       /\ f \in Places(pages[c])
       /\ Mask(f, pages[c]) \cap HEAP_BITMAP = {}
       /\ heap_pc[c] \in {"load", "try"} /\ f >= first[c]
       /\ heap_pc[c] = "try" => Mask(f, pages[c]) \cap observed[c] = {}

(* Initially no block is held and no page marked. *)
LEMMA BlocksExclusiveInit == HeapInit => BlocksExclusive
  BY DEF HeapInit, BlocksExclusive

(* A successful exchange marks pages that were free, dealloc frees pages   *)
(* of one block alone, and nothing else changes bitmap or blocks.          *)
LEMMA BlocksExclusiveStep ==
  BlocksExclusive /\ [HeapNext]_heapVars => BlocksExclusive'
  <1> SUFFICES ASSUME BlocksExclusive, [HeapNext]_heapVars PROVE BlocksExclusive'
    OBVIOUS
  <1>1. ASSUME UNCHANGED <<HEAP_BITMAP, blocks>> PROVE BlocksExclusive'
    BY <1>1 DEF BlocksExclusive
  <1>2. ASSUME NEW c \in HeapCpus, HEAP_BITMAP = observed[c],
               Mask(first[c], pages[c]) \cap observed[c] = {},
               HEAP_BITMAP' = observed[c] \cup Mask(first[c], pages[c]),
               blocks' = blocks \cup {<<first[c], pages[c]>>}
        PROVE BlocksExclusive'
    <2> DEFINE new == <<first[c], pages[c]>>
    <2>1. new[1] = first[c] /\ new[2] = pages[c]
      OBVIOUS
    <2>2. \A b \in blocks : Mask(b[1], b[2]) \subseteq HEAP_BITMAP
      BY DEF BlocksExclusive
    <2>3. \A b \in blocks : Mask(b[1], b[2]) \cap Mask(new[1], new[2]) = {}
      BY <1>2, <2>1, <2>2
    <2>4. /\ HEAP_BITMAP' = HEAP_BITMAP \cup Mask(new[1], new[2])
          /\ HEAP_BITMAP = UNION {Mask(b[1], b[2]) : b \in blocks}
      BY <1>2, <2>1 DEF BlocksExclusive
    <2> HIDE DEF new
    <2>5. \A a, b \in blocks \cup {new} : a # b => Mask(a[1], a[2]) \cap Mask(b[1], b[2]) = {}
      BY <2>3 DEF BlocksExclusive
    <2>6. blocks' = blocks \cup {new}
      BY <1>2 DEF new
    <2>7. \A a, b \in blocks' : a # b => Mask(a[1], a[2]) \cap Mask(b[1], b[2]) = {}
      BY <2>5, <2>6
    <2>8. HEAP_BITMAP' = UNION {Mask(b[1], b[2]) : b \in blocks'}
      BY <2>4, <2>6
    <2> QED
      BY <2>7, <2>8 DEF BlocksExclusive
  <1>3. ASSUME NEW b \in blocks, dealloc(b) PROVE BlocksExclusive'
    <2>1. \A d, e \in blocks' : d # e => Mask(d[1], d[2]) \cap Mask(e[1], e[2]) = {}
      BY <1>3 DEF BlocksExclusive, dealloc
    <2>2. \A d \in blocks' : d \in blocks /\ Mask(d[1], d[2]) \cap Mask(b[1], b[2]) = {}
      BY <1>3 DEF BlocksExclusive, dealloc
    <2>3. ASSUME NEW page
          PROVE  page \in HEAP_BITMAP' <=> \E d \in blocks' : page \in Mask(d[1], d[2])
      <3>1. page \in HEAP_BITMAP' <=> page \in HEAP_BITMAP /\ page \notin Mask(b[1], b[2])
        BY <1>3 DEF dealloc
      <3>2. page \in HEAP_BITMAP <=> \E d \in blocks : page \in Mask(d[1], d[2])
        BY DEF BlocksExclusive
      <3>3. \A d \in blocks : d \in blocks' \/ d = b
        BY <1>3 DEF dealloc
      <3> QED
        BY <2>2, <3>1, <3>2, <3>3
    <2> QED
      BY SMT, <2>1, <2>3 DEF BlocksExclusive
  <1>4. ASSUME NEW c \in HeapCpus, compare_exchange(c) PROVE BlocksExclusive'
    BY <1>1, <1>2, <1>4 DEF compare_exchange, Exchanges
  <1> QED
    BY <1>1, <1>3, <1>4
    DEF HeapNext, heapVars, alloc, load_bitmap, advance, NextPlace, return_null

(* Blocks handed out by alloc never share a page, and HEAP_BITMAP marks    *)
(* exactly their pages, for any number of CPUs and pages.                  *)
THEOREM BlocksExclusiveHolds == HeapSpec => []BlocksExclusive
  <1> QED
    BY BlocksExclusiveInit, BlocksExclusiveStep, PTL DEF HeapSpec

(* What a search has established survives every step of every CPU. *)
LEMMA SearchInvInit == HeapInit => SearchInv
  BY SMT DEF HeapInit, SearchInv

(* Every load, compare-exchange and free of the heap's bitmap keeps the    *)
(* search invariant.                                                       *)
LEMMA SearchInvStep == SearchInv /\ [HeapNext]_heapVars => SearchInv'
  <1> SUFFICES ASSUME SearchInv, [HeapNext]_heapVars PROVE SearchInv'
    OBVIOUS
  <1> USE HeapAssumption
  <1>1. ASSUME NEW c \in HeapCpus, NEW n \in HeapSizes, alloc(c, n) PROVE SearchInv'
    BY SMT, <1>1 DEF SearchInv, alloc, Places
  <1>2. ASSUME NEW c \in HeapCpus, load_bitmap(c) PROVE SearchInv'
    BY <1>2 DEF SearchInv, load_bitmap
  <1>3. ASSUME NEW c \in HeapCpus, advance(c) PROVE SearchInv'
    <2>1. \A f \in steady[c] : f \in Places(pages[c]) /\ f >= first[c] + 1
      BY SMT, <1>3 DEF SearchInv, advance, Places
    <2>2. CASE first[c] + 1 \in Places(pages[c])
      BY SMT, <1>3, <2>1, <2>2 DEF SearchInv, advance, NextPlace
    <2>3. CASE first[c] + 1 \notin Places(pages[c])
      <3>1. first[c] \in Nat /\ pages[c] \in Int /\ HEAP_PAGES \in Nat /\ steady[c] \subseteq Int
        BY DEF SearchInv
      <3>2. steady[c] = {}
        BY SMT, <2>1, <2>3, <3>1 DEF Places
      <3> QED
        BY SMT, <1>3, <3>2, <2>3 DEF SearchInv, advance, NextPlace
    <2> QED
      BY <2>2, <2>3
  <1>4. ASSUME NEW c \in HeapCpus, compare_exchange(c) PROVE SearchInv'
    <2>1. CASE /\ HEAP_BITMAP' = observed[c] \cup Mask(first[c], pages[c])
               /\ steady' = [d \in HeapCpus |-> IF d = c THEN {}
                      ELSE {f \in steady[d] : Mask(f, pages[d]) \cap HEAP_BITMAP' = {}}]
               /\ Return(c)
      <3>1. HEAP_BITMAP' \subseteq Int
        BY SMT, <2>1 DEF SearchInv, Mask
      <3>2. /\ first' \in [HeapCpus -> Nat] /\ pages' \in [HeapCpus -> Int]
            /\ heap_pc' \in [HeapCpus -> {"idle", "load", "try", "null"}]
            /\ observed' \in [HeapCpus -> SUBSET Int]
            /\ steady' \in [HeapCpus -> SUBSET Int]
        BY SMT, <2>1 DEF SearchInv, Return
      <3>3. \A d \in HeapCpus : \A f \in steady'[d] :
              /\ d # c /\ f \in steady[d] /\ Mask(f, pages[d]) \cap HEAP_BITMAP' = {}
              /\ heap_pc'[d] = heap_pc[d] /\ pages'[d] = pages[d]
              /\ first'[d] = first[d] /\ observed'[d] = observed[d]
        BY <2>1 DEF SearchInv, Return
      <3> QED
        BY SMT, <3>1, <3>2, <3>3 DEF SearchInv
    <2>2. CASE /\ observed' = [observed EXCEPT ![c] = HEAP_BITMAP]
               /\ UNCHANGED <<heap_pc, first, pages, HEAP_BITMAP, steady>>
      BY <2>2 DEF SearchInv
    <2> QED
      BY <1>4, <2>1, <2>2 DEF compare_exchange, Retries
  <1>5. ASSUME NEW c \in HeapCpus, return_null(c) PROVE SearchInv'
    BY SMT, <1>5 DEF SearchInv, return_null, Return
  <1>6. ASSUME NEW b \in blocks, dealloc(b) PROVE SearchInv'
    BY <1>6 DEF SearchInv, dealloc
  <1>7. CASE UNCHANGED heapVars
    BY <1>7 DEF SearchInv, heapVars
  <1> QED
    BY <1>1, <1>2, <1>3, <1>4, <1>5, <1>6, <1>7 DEF HeapNext

(* alloc returns null only if no place was free from the call on, however  *)
(* its exchanges fail.                                                     *)
THEOREM NullMeansContentionHolds == HeapSpec => []NullMeansContention
  <1>1. SearchInv => NullMeansContention
    BY DEF SearchInv, NullMeansContention
  <1> QED
    BY <1>1, SearchInvInit, SearchInvStep, PTL DEF HeapSpec
=============================================================================
