----------------------------- MODULE AddressSpace -----------------------------
(***************************************************************************)
(* AddressSpace and TemporaryMapWindow of kernel/src/memory.rs.            *)
(*                                                                         *)
(* Addresses and lengths are counted in small pages.  The capabilities     *)
(* presented have the right kind and rights, and a window capability covers*)
(* the window (a call with another one fails without a write); what matters*)
(* of a frame capability is its range.                                     *)
(***************************************************************************)
EXTENDS Integers

CONSTANTS
  VirtualEnd,    \* the end of the virtual addresses (2^64 in the code)
  Canonical,     \* the addresses that are canonical
  PageSizes,     \* the lengths of a page of each size
  FrameCaps,     \* the [base, len] ranges of the frame capabilities
  Permissions,   \* the permission sets asked for, none of them empty
  MapCpus,       \* the CPUs that activate the address space
  MaxMapEpoch,   \* the last epoch and window generation (u64::MAX in the code)
  WindowLen,     \* the length of the temporary window
  NoMapping      \* no temporary mapping is active

ASSUME AddressSpaceAssumption ==
  /\ VirtualEnd \in Nat /\ Canonical \subseteq 0..(VirtualEnd - 1)
  /\ PageSizes \subseteq Nat \ {0} /\ FrameCaps \subseteq [base : Nat, len : Nat]
  /\ {} \notin Permissions
  /\ MaxMapEpoch \in Nat

VARIABLES
  mappings,     \* virtual_base -> Mapping
  epoch,
  active_cpus,
  destroyed,
  window,       \* TemporaryMapWindow::active
  next_generation

spaceVars == <<mappings, epoch, active_cpus, destroyed>>
windowVars == <<window, next_generation>>
memoryVars == <<spaceVars, windowVars>>

MemoryInit ==
  /\ mappings = [v \in {} |-> 0] /\ epoch = 0
  /\ active_cpus = {} /\ destroyed = FALSE
  /\ window = NoMapping /\ next_generation = 1
-----------------------------------------------------------------------------
Pages(v, len) == v..(v + len - 1)

FreeBase(v, len) == v \notin DOMAIN mappings

FreeRange(v, len) ==
  \A w \in DOMAIN mappings : ~(v < w + mappings[w].len /\ w < v + len)

(* map: only the first address has to be canonical.  The end has to be an  *)
(* address too, so the last page of all is never mapped.                   *)
map(f, v, size, n, perms) ==
  LET len == size * n
  IN /\ ~destroyed
     /\ v \in Canonical
     /\ v % size = 0 /\ f.base % size = 0
     /\ len <= f.len
     /\ v + len < VirtualEnd
     /\ FreeRange(v, len)
     /\ epoch < MaxMapEpoch
     /\ epoch' = epoch + 1
     /\ mappings' = [w \in DOMAIN mappings \cup {v} |->
                       IF w = v THEN [physical_base |-> f.base, len |-> len,
                                      permissions |-> perms, epoch |-> epoch + 1]
                       ELSE mappings[w]]
     /\ UNCHANGED <<active_cpus, destroyed, windowVars>>

(* unmap: the mapping is gone even if the epoch cannot move on. *)
SameEpoch(e) == e

NextEpoch(e) == IF e < MaxMapEpoch THEN e + 1 ELSE e

unmap(v) ==
  /\ ~destroyed
  /\ v \in DOMAIN mappings
  /\ mappings' = [w \in DOMAIN mappings \ {v} |-> mappings[w]]
  /\ epoch' = NextEpoch(epoch)
  /\ UNCHANGED <<active_cpus, destroyed, windowVars>>

(* protect: the epoch moves on even if nothing is mapped at v. *)
protect(v, perms) ==
  /\ ~destroyed
  /\ epoch < MaxMapEpoch
  /\ epoch' = epoch + 1
  /\ mappings' = [w \in DOMAIN mappings |->
                    IF w = v THEN [mappings[w] EXCEPT !.permissions = perms, !.epoch = epoch + 1]
                    ELSE mappings[w]]
  /\ UNCHANGED <<active_cpus, destroyed, windowVars>>

(* translate, on any address: a mapping that holds it, if it is canonical. *)
translate(v) ==
  {<<mappings[w].physical_base + (v - w), mappings[w].permissions>> :
     w \in {w \in DOMAIN mappings : v \in Canonical \cap Pages(w, mappings[w].len)}}

activate(c) ==
  /\ ~destroyed
  /\ active_cpus' = active_cpus \cup {c}
  /\ UNCHANGED <<mappings, epoch, destroyed, windowVars>>

deactivate(c) ==
  /\ c \in active_cpus
  /\ active_cpus' = active_cpus \ {c}
  /\ UNCHANGED <<mappings, epoch, destroyed, windowVars>>

destroy ==
  /\ active_cpus = {} /\ mappings = [v \in {} |-> 0]
  /\ destroyed' = TRUE
  /\ UNCHANGED <<mappings, epoch, active_cpus, windowVars>>

map_temporary(f) ==
  /\ window = NoMapping
  /\ f.len <= WindowLen
  /\ window' = [physical_base |-> f.base, len |-> f.len, generation |-> next_generation]
  /\ UNCHANGED <<spaceVars, next_generation>>

revoke ==
  /\ window # NoMapping
  /\ window' = NoMapping
  /\ next_generation' = NextEpoch(next_generation)
  /\ UNCHANGED spaceVars

MappingNext ==
  \/ \E f \in FrameCaps, v \in 0..VirtualEnd, s \in PageSizes, n \in 1..VirtualEnd,
        p \in Permissions : map(f, v, s, n, p)
  \/ \E v \in 0..VirtualEnd : unmap(v) \/ \E p \in Permissions : protect(v, p)

SpaceNext ==
  \/ MappingNext
  \/ \E c \in MapCpus : activate(c) \/ deactivate(c)
  \/ destroy

WindowNext == (\E f \in FrameCaps : map_temporary(f)) \/ revoke

MemorySpec == MemoryInit /\ [][SpaceNext \/ WindowNext]_memoryVars
-----------------------------------------------------------------------------
(* translate is a function into what the caller may map: no address has    *)
(* two translations, whatever page sizes the mappings were made with, no   *)
(* mapping goes on past the last address, and each stays inside the frames *)
(* of one capability.                                                      *)
TranslationsSound ==
  /\ \A v \in 0..(VirtualEnd - 1) : \A t, u \in translate(v) : t = u
  /\ \A v \in DOMAIN mappings :
       /\ Pages(v, mappings[v].len) \subseteq 0..(VirtualEnd - 1)
       /\ \E f \in FrameCaps : f.base = mappings[v].physical_base /\ mappings[v].len <= f.len

(* The epoch tells a reader whether a translation it remembers may be      *)
(* stale: no translation changes, appears or goes in a step that leaves    *)
(* the epoch as it was, until the epoch is exhausted.                      *)
EpochMarksChange ==
  [][\A v \in 0..(VirtualEnd - 1) :
       translate(v)' # translate(v) => epoch' > epoch \/ epoch = MaxMapEpoch]_memoryVars
=============================================================================
