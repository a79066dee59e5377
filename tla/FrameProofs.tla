----------------------------- MODULE FrameProofs -----------------------------
(***************************************************************************)
(* Proofs about FrameAllocator and FrameHandles.                           *)
(*                                                                         *)
(* What coalesce and a cut do to the free map is shown in DataProofs.  The *)
(* next layer is about sets only: free pages and the extents of the live   *)
(* runs stay a partition of the known pages under adding, granting,        *)
(* returning, splitting and joining.  Then comes the inductive invariant   *)
(* FrameInv, one lemma per call, from which follow the coalesced free      *)
(* list, the rights of a borrower and the refinement of FrameGrants;       *)
(* HandleInv adds what is needed about generations.                        *)
(***************************************************************************)
EXTENDS FrameHandles, DataProofs

(* A leaf that names no prover is for Zenon, with time to spare. *)
USE ZenonT(30)

-----------------------------------------------------------------------------
(* Free pages and extents. *)

(* Free pages F, extents e of the live runs, by base, and the pages K ever  *)
(* added: the extents lie in K, apart from F and from each other.          *)
Partition(F, e, K) ==
  /\ F \subseteq K
  /\ \A b \in DOMAIN e : /\ b \in e[b] /\ e[b] \subseteq K /\ e[b] \cap F = {}
                         /\ \A c \in DOMAIN e : c # b => e[b] \cap e[c] = {}

ExtentSet(e) == {e[b] : b \in DOMAIN e}

(* What becomes of the extents when pages are added. *)
LEMMA PartitionAdd ==
  ASSUME NEW F, NEW e, NEW K, Partition(F, e, K), NEW S, S \cap K = {}
  PROVE  Partition(F \cup S, e, K \cup S)
BY DEF Partition

(* A free run is granted: its base starts no live run. *)
LEMMA PartitionGrant ==
  ASSUME NEW F, NEW e, NEW K, Partition(F, e, K), NEW S, S \subseteq F, NEW at \in S
  PROVE  /\ at \notin DOMAIN e
         /\ Partition(F \ S, With(e, at, S), K)
         /\ ExtentSet(With(e, at, S)) = ExtentSet(e) \cup {S}
<1> DEFINE g == With(e, at, S)
<1>1. at \notin DOMAIN e
  BY DEF Partition
<1>2. DOMAIN g = DOMAIN e \cup {at} /\ g[at] = S /\ \A b \in DOMAIN e : g[b] = e[b]
  BY <1>1 DEF With
<1> HIDE DEF g
<1>3. Partition(F \ S, g, K)
  <2>1. F \ S \subseteq K
    BY DEF Partition
  <2>2. ASSUME NEW b \in DOMAIN g
        PROVE  /\ b \in g[b] /\ g[b] \subseteq K /\ g[b] \cap (F \ S) = {}
               /\ \A c \in DOMAIN g : c # b => g[b] \cap g[c] = {}
    <3>1. CASE b = at
      BY <1>2, <3>1 DEF Partition
    <3>2. CASE b \in DOMAIN e
      BY <1>2, <3>2 DEF Partition
    <3>3. QED BY <1>2, <3>1, <3>2
  <2>3. QED BY <2>1, <2>2 DEF Partition
<1>4. ExtentSet(g) = ExtentSet(e) \cup {S}
  BY SMT, <1>2 DEF ExtentSet
<1>5. QED BY <1>1, <1>3, <1>4 DEF g

(* A live run is given back, or lost. *)
LEMMA PartitionReturn ==
  ASSUME NEW F, NEW e, NEW K, Partition(F, e, K), NEW b \in DOMAIN e
  PROVE  /\ Partition(F, Without(e, b), K)
         /\ Partition(F \cup e[b], Without(e, b), K)
         /\ ExtentSet(Without(e, b)) = ExtentSet(e) \ {e[b]}
<1> DEFINE g == Without(e, b)
<1>1. DOMAIN g = DOMAIN e \ {b} /\ \A c \in DOMAIN g : g[c] = e[c]
  BY DEF Without
<1> HIDE DEF g
<1>2. Partition(F, g, K) /\ Partition(F \cup e[b], g, K)
  BY <1>1 DEF Partition
<1>3. \A c \in DOMAIN g : e[c] # e[b]
  BY <1>1 DEF Partition
<1>4. ExtentSet(g) = ExtentSet(e) \ {e[b]}
  BY <1>1, <1>3 DEF ExtentSet
<1>5. QED BY <1>2, <1>4 DEF g

(* A live run is split in two. *)
LEMMA PartitionSplit ==
  ASSUME NEW F, NEW e, NEW K, Partition(F, e, K), NEW b \in DOMAIN e,
         NEW S, NEW T, e[b] = S \cup T, S \cap T = {}, b \in S, NEW t \in T
  PROVE  /\ t \notin DOMAIN e
         /\ Partition(F, With(With(e, b, S), t, T), K)
         /\ ExtentSet(With(With(e, b, S), t, T)) = (ExtentSet(e) \ {e[b]}) \cup {S, T}
<1> DEFINE g == With(With(e, b, S), t, T)
<1>1. t \notin DOMAIN e
  BY SMT DEF Partition
<1>2. /\ DOMAIN g = DOMAIN e \cup {t} /\ g[t] = T /\ g[b] = S
      /\ \A c \in DOMAIN e : c # b => g[c] = e[c]
  BY <1>1 DEF With
<1> HIDE DEF g
<1>3. Partition(F, g, K)
  <2>1. F \subseteq K
    BY DEF Partition
  <2>2. ASSUME NEW c \in DOMAIN g
        PROVE  /\ c \in g[c] /\ g[c] \subseteq K /\ g[c] \cap F = {}
               /\ \A d \in DOMAIN g : d # c => g[c] \cap g[d] = {}
    <3>1. CASE c = t
      BY <1>2, <3>1 DEF Partition
    <3>2. CASE c = b
      BY <1>2, <3>2 DEF Partition
    <3>3. CASE c \in DOMAIN e /\ c # b
      BY SMT, <1>2, <3>3 DEF Partition
    <3>4. QED BY <1>2, <3>1, <3>2, <3>3
  <2>3. QED BY <2>1, <2>2 DEF Partition
<1>4. \A c \in DOMAIN e : c # b => e[c] # e[b]
  BY DEF Partition
<1>5. ExtentSet(g) = (ExtentSet(e) \ {e[b]}) \cup {S, T}
  BY SMT, <1>1, <1>2, <1>4 DEF ExtentSet
<1>6. QED BY <1>1, <1>3, <1>5 DEF g

(* Two live runs are joined. *)
LEMMA PartitionJoin ==
  ASSUME NEW F, NEW e, NEW K, Partition(F, e, K), NEW b \in DOMAIN e, NEW c \in DOMAIN e,
         b # c
  PROVE  /\ e[b] # e[c]
         /\ Partition(F, With(Without(Without(e, b), c), b, e[b] \cup e[c]), K)
         /\ ExtentSet(With(Without(Without(e, b), c), b, e[b] \cup e[c]))
              = (ExtentSet(e) \ {e[b], e[c]}) \cup {e[b] \cup e[c]}
<1> DEFINE g == With(Without(Without(e, b), c), b, e[b] \cup e[c])
<1>1. /\ DOMAIN g = DOMAIN e \ {c} /\ g[b] = e[b] \cup e[c]
      /\ \A d \in DOMAIN g : d # b => g[d] = e[d]
  BY DEF With, Without
<1> HIDE DEF g
<1>2. Partition(F, g, K)
  <2>1. F \subseteq K
    BY DEF Partition
  <2>2. ASSUME NEW d \in DOMAIN g
        PROVE  /\ d \in g[d] /\ g[d] \subseteq K /\ g[d] \cap F = {}
               /\ \A x \in DOMAIN g : x # d => g[d] \cap g[x] = {}
    <3>1. CASE d = b
      BY <1>1, <3>1 DEF Partition
    <3>2. CASE d # b
      BY <1>1, <3>2 DEF Partition
    <3>3. QED BY <3>1, <3>2
  <2>3. QED BY <2>1, <2>2 DEF Partition
<1>3. e[b] # e[c] /\ \A d \in DOMAIN g : d # b => e[d] # e[b] /\ e[d] # e[c]
  BY <1>1 DEF Partition
<1>4. ExtentSet(g) = (ExtentSet(e) \ {e[b], e[c]}) \cup {e[b] \cup e[c]}
  BY <1>1, <1>3 DEF ExtentSet
<1>5. QED BY <1>2, <1>3, <1>4 DEF g

-----------------------------------------------------------------------------
(* The inductive invariant, and every call. *)

Runs == [base : Nat, pages : Nat \ {0}, generation : Nat, zeroed : BOOLEAN]

(* The map of the live runs: each is filed under its base. *)
LiveMap(a) ==
  /\ DOMAIN a \subseteq Nat /\ a \in [DOMAIN a -> Runs]
  /\ \A b \in DOMAIN a : a[b].base = b

Extents(a) == [b \in DOMAIN a |-> Span(b, a[b].pages)]

GenerationMap(g) == DOMAIN g \subseteq Nat /\ g \in [DOMAIN g -> Nat]

Known == UNION {Span(r.base, r.pages) : r \in added}

FrameInv ==
  /\ RunMap(free) /\ Gaps(free) /\ LiveMap(allocated) /\ GenerationMap(generations)
  /\ Partition(PagesOf(free), Extents(allocated), Known)
  /\ DOMAIN loans \subseteq DOMAIN allocated
  /\ added \subseteq Regions

(* The map of the live runs with a run filed under its base. *)
LEMMA LiveWith ==
  ASSUME NEW a, LiveMap(a), NEW run \in Runs
  PROVE  /\ LiveMap(With(a, run.base, run))
         /\ Extents(With(a, run.base, run)) = With(Extents(a), run.base, Span(run.base, run.pages))
<1> DEFINE b == run.base
           g == With(a, b, run)
<1>1. b \in Nat
  BY DEF Runs
<1>2. /\ DOMAIN g = DOMAIN a \cup {b} /\ g[b] = run /\ \A x \in DOMAIN a : x # b => g[x] = a[x]
      /\ g = [x \in DOMAIN g |-> g[x]]
  BY DEF With
<1> HIDE DEF g, b
<1>3. LiveMap(g)
  <2>1. \A x \in DOMAIN g : x \in Nat /\ g[x] \in Runs /\ g[x].base = x
    BY <1>1, <1>2 DEF LiveMap, b
  <2>2. QED BY <1>2, <2>1 DEF LiveMap
<1>4. Extents(g) = With(Extents(a), b, Span(b, run.pages))
  BY <1>2 DEF Extents, With
<1>5. QED BY <1>3, <1>4 DEF g, b

(* The map of the live runs with one taken out. *)
LEMMA LiveWithout ==
  ASSUME NEW a, LiveMap(a), NEW b
  PROVE  LiveMap(Without(a, b)) /\ Extents(Without(a, b)) = Without(Extents(a), b)
<1>1. LiveMap(Without(a, b))
  BY DEF LiveMap, Without
<1>2. Extents(Without(a, b)) = Without(Extents(a), b)
  BY DEF Extents, Without
<1>3. QED BY <1>1, <1>2

(* The generations with one entry set. *)
LEMMA GenerationWith ==
  ASSUME NEW g, GenerationMap(g), NEW b \in Nat, NEW n \in Nat
  PROVE  GenerationMap(With(g, b, n))
BY DEF GenerationMap, With

(* The maps are empty at the start. *)
LEMMA FrameInvInit == Init => FrameInv
<1> SUFFICES ASSUME Init PROVE FrameInv
  OBVIOUS
<1>1. DOMAIN NoEntries = {} /\ NoEntries = [x \in {} |-> 0]
  BY DEF NoEntries
<1>2. /\ DOMAIN free = {} /\ DOMAIN allocated = {} /\ DOMAIN generations = {} /\ DOMAIN loans = {}
      /\ added = {} /\ free = [x \in {} |-> 0] /\ allocated = [x \in {} |-> 0]
      /\ generations = [x \in {} |-> 0]
  BY <1>1 DEF Init
<1>3. RunMap(free) /\ Gaps(free)
  <2>1. IsFiniteSet(DOMAIN free)
    BY <1>2, FS_EmptySet
  <2>2. free \in [DOMAIN free -> Nat \ {0}]
    BY <1>2
  <2>3. QED BY <1>2, <2>1, <2>2 DEF RunMap, Gaps
<1>4. LiveMap(allocated) /\ GenerationMap(generations)
  BY <1>2 DEF LiveMap, GenerationMap
<1>5. Partition(PagesOf(free), Extents(allocated), Known)
  <2>1. DOMAIN Extents(allocated) = {} /\ PagesOf(free) = {}
    BY <1>2 DEF Extents, PagesOf
  <2>2. QED BY <2>1 DEF Partition
<1>6. QED BY <1>2, <1>3, <1>4, <1>5 DEF FrameInv

(* add_region: no page of the region was known. *)
LEMMA AddStep ==
  ASSUME FrameInv, NEW r \in Regions, add_region(r)
  PROVE  /\ FrameInv'
         /\ Span(r.base, r.pages) \cap Known = {}
         /\ PagesOf(free)' = PagesOf(free) \cup Span(r.base, r.pages)
         /\ Known' = Known \cup Span(r.base, r.pages)
<1> DEFINE S == Span(r.base, r.pages)
<1>1. r.base \in Nat /\ r.pages \in Nat \ {0}
  BY FrameAssumption
<1>2. S \cap Known = {}
  <2>1. \A s \in added : s \in Regions /\ s # r
    BY DEF FrameInv, add_region
  <2>2. \A s \in added : S \cap Span(s.base, s.pages) = {}
    BY <2>1, FrameAssumption
  <2> HIDE DEF S
  <2>3. QED BY <2>2 DEF Known
<1>3. Known' = Known \cup S
  BY DEF add_region, Known
<1>4. S \cap PagesOf(free) = {}
  BY <1>2 DEF FrameInv, Partition
<1>5. /\ RunMap(free') /\ Gaps(free')
      /\ PagesOf(free') = PagesOf(free) \cup S
  <2>1. RunMap(free) /\ Gaps(free)
    BY DEF FrameInv
  <2>2. free' = coalesce(With(free, r.base, r.pages))
    BY DEF add_region
  <2>3. QED BY <1>1, <1>4, <2>1, <2>2, CoalesceInsert
<1> HIDE DEF S
<1>6. Partition(PagesOf(free) \cup S, Extents(allocated), Known \cup S)
  BY <1>2, PartitionAdd DEF FrameInv
<1>7. /\ allocated' = allocated /\ generations' = generations /\ loans' = loans
      /\ added' \subseteq Regions
  BY DEF add_region, FrameInv
<1>8. FrameInv'
  BY <1>3, <1>5, <1>6, <1>7 DEF FrameInv
<1>9. QED BY <1>2, <1>3, <1>5, <1>8 DEF S

(* allocate: a run of the requested size becomes live out of free pages,   *)
(* with the generation recorded for its base.                              *)
LEMMA AllocateStep ==
  ASSUME FrameInv, NEW n \in Sizes, NEW al \in Alignments, allocate(n, al)
  PROVE  \E at \in Nat :
           /\ FrameInv'
           /\ Span(at, n) \subseteq PagesOf(free)
           /\ PagesOf(free)' = PagesOf(free) \ Span(at, n)
           /\ at \notin DOMAIN allocated
           /\ at \in Span(at, n)
           /\ allocated' = With(allocated, at, [base |-> at, pages |-> n,
                                                generation |-> GenerationAt(at), zeroed |-> FALSE])
           /\ ExtentSet(Extents(allocated')) = ExtentSet(Extents(allocated)) \cup {Span(at, n)}
<1> DEFINE Prefix(b) == AlignUp(b, al) - b
           fits == {b \in DOMAIN free : Prefix(b) + n <= free[b]}
           base == Min(fits)
           prefix == Prefix(base)
           at == AlignUp(base, al)
           run == [base |-> at, pages |-> n, generation |-> GenerationAt(at), zeroed |-> FALSE]
<1>1. n \in Nat \ {0} /\ al \in Nat \ {0}
  BY FrameAssumption
<1>2. RunMap(free) /\ Gaps(free) /\ DOMAIN free \subseteq Nat
  BY DEF FrameInv, RunMap
<1>3. base \in fits
  <2>1. fits # {} /\ fits \in SUBSET Nat
    BY <1>2 DEF allocate
  <2> HIDE DEF fits
  <2>2. QED BY <2>1, MinIs
<1>4. /\ base \in DOMAIN free /\ prefix + n <= free[base]
  BY <1>3
<1>5. /\ free' = Cut(free, base, at - base, n)
      /\ allocated' = With(allocated, at, run)
      /\ UNCHANGED <<generations, loans, added>>
  <2>1. /\ allocated' = With(allocated, at, run)
        /\ UNCHANGED <<generations, loans, added>>
    BY DEF allocate
  <2>2. base \in Nat /\ at \in Nat
    <3>1. base \in Nat
      BY <1>2, <1>4
    <3> HIDE DEF base
    <3>2. QED BY <1>1, <3>1, AlignUpAbove
  <2>3. free' = LET suffix == Suffix(base, prefix, n)
                    rest == Without(free, base)
                    low == IF prefix # 0 THEN With(rest, base, prefix) ELSE rest
                IN IF suffix # 0 THEN With(low, at + n, suffix) ELSE low
    BY DEF allocate
  <2> HIDE DEF base, at
  <2>4. base + (at - base) + n = at + n
    BY SMT, <1>1, <2>2
  <2>5. prefix = at - base
    BY DEF at
  <2> HIDE DEF prefix
  <2>6. QED BY <2>1, <2>3, <2>4, <2>5 DEF Cut, Suffix
<1> HIDE DEF base, fits
<1>6. base \in Nat /\ at \in Nat /\ at >= base
  BY <1>1, <1>2, <1>4, AlignUpAbove
<1>7. prefix = at - base
  OBVIOUS
<1> HIDE DEF at, prefix, Prefix
<1>8. prefix \in Nat /\ base + prefix = at
  BY SMT, <1>6, <1>7
<1> DEFINE S == Span(at, n)
<1>9. /\ RunMap(free') /\ Gaps(free') /\ S \subseteq PagesOf(free)
      /\ PagesOf(free') = PagesOf(free) \ S
  <2>1. free' = Cut(free, base, prefix, n)
    BY <1>5, <1>7
  <2>2. /\ RunMap(free') /\ Gaps(free') /\ Span(base + prefix, n) \subseteq PagesOf(free)
        /\ PagesOf(free') = PagesOf(free) \ Span(base + prefix, n)
    BY SMT, <1>1, <1>2, <1>4, <1>8, <2>1, CutIs
  <2>3. QED BY <1>8, <2>2
<1>10. at \in S
  BY SMT, <1>1, <1>6 DEF Span
<1>11. run \in Runs /\ run.base = at /\ run.pages = n
  <2>1. GenerationAt(at) \in Nat
    BY DEF GenerationAt, FrameInv, GenerationMap
  <2>2. QED BY <1>1, <1>6, <2>1 DEF Runs
<1> HIDE DEF run
<1>12. LiveMap(allocated') /\ Extents(allocated') = With(Extents(allocated), at, S)
  <2>1. LiveMap(allocated)
    BY DEF FrameInv
  <2>2. /\ LiveMap(With(allocated, run.base, run))
        /\ Extents(With(allocated, run.base, run))
             = With(Extents(allocated), run.base, Span(run.base, run.pages))
    BY <1>11, <2>1, LiveWith
  <2>3. QED BY <1>5, <1>11, <2>2
<1> HIDE DEF S
<1>13. /\ at \notin DOMAIN Extents(allocated)
       /\ Partition(PagesOf(free) \ S, With(Extents(allocated), at, S), Known)
       /\ ExtentSet(With(Extents(allocated), at, S)) = ExtentSet(Extents(allocated)) \cup {S}
  BY SMT, <1>9, <1>10, PartitionGrant DEF FrameInv
<1>14. at \notin DOMAIN allocated
  BY <1>13 DEF Extents
<1>15. DOMAIN loans' \subseteq DOMAIN allocated'
  BY <1>5 DEF FrameInv, With
<1>16. Known' = Known /\ GenerationMap(generations') /\ added' \subseteq Regions
  BY <1>5 DEF FrameInv, Known
<1>17. FrameInv'
  BY <1>9, <1>12, <1>13, <1>15, <1>16 DEF FrameInv
<1>18. QED BY <1>5, <1>6, <1>9, <1>10, <1>12, <1>13, <1>14, <1>17 DEF S, run

(* A call that only marks a run or moves its generation leaves the extents *)
(* alone.                                                                  *)
LEMMA SameExtents ==
  ASSUME FrameInv, free' = free, added' = added, GenerationMap(generations'),
         DOMAIN allocated' = DOMAIN allocated, LiveMap(allocated'),
         \A c \in DOMAIN allocated : allocated'[c].pages = allocated[c].pages,
         DOMAIN loans' \subseteq DOMAIN allocated
  PROVE  /\ FrameInv' /\ PagesOf(free)' = PagesOf(free) /\ Known' = Known
         /\ Extents(allocated') = Extents(allocated)
<1>1. Extents(allocated') = Extents(allocated)
  BY DEF Extents
<1>2. Known' = Known /\ PagesOf(free') = PagesOf(free)
  BY DEF Known
<1>3. QED BY <1>1, <1>2 DEF FrameInv

(* mark_zeroed. *)
LEMMA MarkStep ==
  ASSUME FrameInv, NEW b \in DOMAIN allocated, mark_zeroed(b)
  PROVE  /\ FrameInv' /\ PagesOf(free)' = PagesOf(free) /\ Known' = Known
         /\ Extents(allocated') = Extents(allocated) /\ DOMAIN allocated' = DOMAIN allocated
         /\ \A c \in DOMAIN allocated : /\ allocated'[c].pages = allocated[c].pages
                                        /\ allocated'[c].generation = allocated[c].generation
<1>1. allocated' = [allocated EXCEPT ![b].zeroed = TRUE]
  BY DEF mark_zeroed
<1>2. LiveMap(allocated)
  BY DEF FrameInv
<1>3. LiveMap(allocated') /\ DOMAIN allocated' = DOMAIN allocated
  <2>1. DOMAIN allocated' = DOMAIN allocated
    BY <1>1
  <2>2. ASSUME NEW c \in DOMAIN allocated PROVE allocated'[c] \in Runs /\ allocated'[c].base = c
    BY <1>1, <1>2 DEF LiveMap, Runs
  <2>3. allocated' = [c \in DOMAIN allocated' |-> allocated'[c]]
    BY <1>1
  <2>4. QED BY <1>2, <2>1, <2>2, <2>3 DEF LiveMap
<1>4. \A c \in DOMAIN allocated : /\ allocated'[c].pages = allocated[c].pages
                                  /\ allocated'[c].generation = allocated[c].generation
  BY <1>1, <1>2 DEF LiveMap, Runs
<1>5. /\ free' = free /\ added' = added /\ GenerationMap(generations')
      /\ DOMAIN loans' \subseteq DOMAIN allocated
  BY DEF mark_zeroed, FrameInv
<1>6. QED BY <1>3, <1>4, <1>5, SameExtents

(* lend and reclaim. *)
LEMMA AdvanceStep ==
  ASSUME FrameInv, NEW b \in DOMAIN allocated, Advance(b), free' = free, added' = added,
         DOMAIN loans' \subseteq DOMAIN allocated
  PROVE  /\ FrameInv' /\ PagesOf(free)' = PagesOf(free) /\ Known' = Known
         /\ Extents(allocated') = Extents(allocated) /\ DOMAIN allocated' = DOMAIN allocated
         /\ \A c \in DOMAIN allocated : allocated'[c].pages = allocated[c].pages
         /\ \A c \in DOMAIN allocated \ {b} : allocated'[c].generation = allocated[c].generation
         /\ allocated'[b].generation = allocated[b].generation + 1
<1>1. allocated' = [allocated EXCEPT ![b].generation = @ + 1]
  BY DEF Advance
<1>2. LiveMap(allocated)
  BY DEF FrameInv
<1>3. LiveMap(allocated') /\ DOMAIN allocated' = DOMAIN allocated
  BY SMT, <1>1, <1>2 DEF LiveMap, Runs
<1>4. /\ \A c \in DOMAIN allocated : allocated'[c].pages = allocated[c].pages
      /\ \A c \in DOMAIN allocated \ {b} : allocated'[c].generation = allocated[c].generation
      /\ allocated'[b].generation = allocated[b].generation + 1
  BY SMT, <1>1, <1>2 DEF LiveMap, Runs
<1>5. GenerationMap(generations')
  <2>1. b \in Nat /\ allocated[b].generation + 1 \in Nat
    BY SMT, <1>2 DEF LiveMap, Runs
  <2>2. QED BY <2>1, GenerationWith DEF Advance, FrameInv
<1>6. QED BY <1>3, <1>4, <1>5, SameExtents

(* split_allocated: the extent of the run is cut in two. *)
LEMMA SplitStep ==
  ASSUME FrameInv, NEW b \in DOMAIN allocated, NEW n \in Sizes, split_allocated(b, n)
  PROVE  /\ FrameInv' /\ PagesOf(free)' = PagesOf(free) /\ Known' = Known
         /\ \A c \in DOMAIN loans : c \in DOMAIN allocated' /\ allocated'[c] = allocated[c]
         /\ \E S, T \in (SUBSET Nat) \ {{}} :
              /\ S \cap T = {} /\ S \cup T = Extents(allocated)[b]
              /\ ExtentSet(Extents(allocated'))
                   = (ExtentSet(Extents(allocated)) \ {S \cup T}) \cup {S, T}
<1> DEFINE run == allocated[b]
           left == split(run, n)[1]
           right == split(run, n)[2]
           m == run.pages - n
           t == b + n
           S == Span(b, n)
           T == Span(t, m)
           e == Extents(allocated)
<1>1. LiveMap(allocated) /\ b \in Nat /\ run \in Runs /\ run.base = b
  BY DEF FrameInv, LiveMap
<1>2. n \in Nat \ {0} /\ n < run.pages
  BY FrameAssumption DEF split_allocated
<1>3. m \in Nat \ {0} /\ t \in Nat /\ run.pages = n + m
  BY SMT, <1>1, <1>2 DEF Runs
<1>4. left = [run EXCEPT !.pages = n] /\ right = [run EXCEPT !.base = b + n, !.pages = m]
  BY <1>1 DEF split
<1>5. /\ left \in Runs /\ left.base = b /\ left.pages = n
      /\ right \in Runs /\ right.base = t /\ right.pages = m
      /\ right.generation = run.generation
  <2> HIDE DEF left, right, m, run
  <2>1. QED BY <1>1, <1>2, <1>3, <1>4 DEF Runs
<1>6. /\ allocated' = With(With(allocated, b, left), t, right)
      /\ generations' = IF t \in DOMAIN generations THEN generations
                        ELSE With(generations, t, run.generation)
      /\ free' = free /\ loans' = loans /\ added' = added /\ b \notin DOMAIN loans
  <2>1. /\ allocated' = With(With(allocated, b, left), right.base, right)
        /\ generations' = IF right.base \in DOMAIN generations THEN generations
                          ELSE With(generations, right.base, right.generation)
        /\ free' = free /\ loans' = loans /\ added' = added /\ b \notin DOMAIN loans
    BY DEF split_allocated, NotLent
  <2> HIDE DEF left, right, t
  <2>2. QED BY <1>5, <2>1
<1> HIDE DEF left, right
<1>7. /\ LiveMap(allocated')
      /\ Extents(allocated') = With(With(e, b, S), t, T)
  <2> DEFINE a == With(allocated, b, left)
  <2>1. LiveMap(a) /\ Extents(a) = With(e, b, S)
    <3>1. /\ LiveMap(With(allocated, left.base, left))
          /\ Extents(With(allocated, left.base, left))
               = With(Extents(allocated), left.base, Span(left.base, left.pages))
      BY <1>1, <1>5, LiveWith
    <3>2. QED BY <1>5, <3>1
  <2> HIDE DEF a
  <2>2. /\ LiveMap(With(a, right.base, right))
        /\ Extents(With(a, right.base, right))
             = With(Extents(a), right.base, Span(right.base, right.pages))
    BY <1>5, <2>1, LiveWith
  <2>3. allocated' = With(a, right.base, right)
    BY <1>5, <1>6 DEF a
  <2>4. QED BY <1>5, <2>1, <2>2, <2>3
<1>8. b \in DOMAIN e /\ e[b] = Span(b, run.pages)
  BY DEF Extents
<1>9. S \cup T = e[b] /\ S \cap T = {} /\ b \in S /\ t \in T /\ S \subseteq Nat /\ T \subseteq Nat
  <2> HIDE DEF m, run, e
  <2>1. QED BY SMTT(30), <1>1, <1>2, <1>3, <1>8 DEF Span
<1> HIDE DEF S, T, e, t, m, run
<1>10. Partition(PagesOf(free), e, Known)
  BY DEF FrameInv, e
<1>11. /\ t \notin DOMAIN e
       /\ Partition(PagesOf(free), With(With(e, b, S), t, T), Known)
       /\ ExtentSet(With(With(e, b, S), t, T)) = (ExtentSet(e) \ {e[b]}) \cup {S, T}
  BY SMT, <1>8, <1>9, <1>10, PartitionSplit
<1>12. t \notin DOMAIN allocated
  BY <1>11 DEF Extents, e
<1>13. GenerationMap(generations')
  <2>1. GenerationMap(generations) /\ run.generation \in Nat
    BY <1>1 DEF FrameInv, Runs
  <2>2. QED BY <1>3, <1>6, <2>1, GenerationWith
<1>14. DOMAIN allocated' = DOMAIN allocated \cup {b, t}
       /\ \A c \in DOMAIN allocated : c # b => allocated'[c] = allocated[c]
  BY <1>6, <1>12 DEF With
<1>15. DOMAIN loans \subseteq DOMAIN allocated
  BY DEF FrameInv
<1>16. Known' = Known
  BY <1>6 DEF Known
<1>17. FrameInv'
  BY <1>6, <1>7, <1>11, <1>13, <1>14, <1>15, <1>16 DEF FrameInv
<1>18. \A c \in DOMAIN loans : c \in DOMAIN allocated' /\ allocated'[c] = allocated[c]
  BY <1>6, <1>14, <1>15
<1>19. S \in (SUBSET Nat) \ {{}} /\ T \in (SUBSET Nat) \ {{}}
  BY <1>9
<1>20. ExtentSet(Extents(allocated')) = (ExtentSet(e) \ {S \cup T}) \cup {S, T}
  BY <1>7, <1>9, <1>11
<1>21. PagesOf(free)' = PagesOf(free)
  BY <1>6
<1>22. QED BY <1>9, <1>16, <1>17, <1>18, <1>19, <1>20, <1>21 DEF e

(* join_allocated: two extents become one. *)
LEMMA JoinStep ==
  ASSUME FrameInv, NEW b \in DOMAIN allocated, NEW c \in DOMAIN allocated, join_allocated(b, c)
  PROVE  /\ FrameInv' /\ PagesOf(free)' = PagesOf(free) /\ Known' = Known
         /\ \A d \in DOMAIN loans : d \in DOMAIN allocated' /\ allocated'[d] = allocated[d]
         /\ LET S == Extents(allocated)[b]
                T == Extents(allocated)[c]
            IN /\ S # T
               /\ ExtentSet(Extents(allocated'))
                    = (ExtentSet(Extents(allocated)) \ {S, T}) \cup {S \cup T}
<1> DEFINE left == allocated[b]
           right == allocated[c]
           run == join(left, right)
           e == Extents(allocated)
<1>1. /\ LiveMap(allocated) /\ b \in Nat /\ left \in Runs /\ left.base = b
      /\ c \in Nat /\ right \in Runs /\ right.base = c
  BY DEF FrameInv, LiveMap
<1>2. left.base + left.pages = right.base
  BY DEF join_allocated, Joinable
<1>3. /\ allocated' = With(Without(Without(allocated, b), c), b, run)
      /\ free' = free /\ generations' = generations /\ loans' = loans /\ added' = added
      /\ b \notin DOMAIN loans /\ c \notin DOMAIN loans
  BY DEF join_allocated, NotLent
<1>4. run = [left EXCEPT !.pages = left.pages + right.pages]
  BY DEF join
<1> HIDE DEF left, right, run
<1>5. run \in Runs /\ run.base = b /\ run.pages = left.pages + right.pages
  BY SMT, <1>1, <1>4 DEF Runs
<1>6. b # c /\ b + left.pages = c /\ left.pages \in Nat \ {0} /\ right.pages \in Nat \ {0}
  BY SMT, <1>1, <1>2 DEF Runs
<1>7. /\ b \in DOMAIN e /\ e[b] = Span(b, left.pages)
      /\ c \in DOMAIN e /\ e[c] = Span(c, right.pages)
  BY DEF Extents, left, right
<1>8. Span(b, run.pages) = e[b] \cup e[c]
  <2> HIDE DEF e
  <2>1. PICK l \in Nat : l = left.pages
    BY <1>6
  <2>2. PICK r \in Nat : r = right.pages
    BY <1>6
  <2>3. Span(b, l + r) = Span(b, l) \cup Span(b + l, r)
    BY SMT, <1>1 DEF Span
  <2>4. QED BY <1>5, <1>6, <1>7, <2>1, <2>2, <2>3
<1>9. LiveMap(allocated') /\ Extents(allocated') = With(Without(Without(e, b), c), b, e[b] \cup e[c])
  <2> DEFINE a == Without(Without(allocated, b), c)
  <2>1. LiveMap(a) /\ Extents(a) = Without(Without(e, b), c)
    BY SMT, <1>1, LiveWithout
  <2> HIDE DEF a
  <2>2. /\ LiveMap(With(a, run.base, run))
        /\ Extents(With(a, run.base, run))
             = With(Extents(a), run.base, Span(run.base, run.pages))
    BY <1>5, <2>1, LiveWith
  <2>3. allocated' = With(a, run.base, run)
    BY <1>3, <1>5 DEF a
  <2> HIDE DEF e
  <2>4. QED BY <1>5, <1>8, <2>1, <2>2, <2>3
<1>10. Partition(PagesOf(free), e, Known)
  BY DEF FrameInv
<1> HIDE DEF e
<1>11. /\ e[b] # e[c]
       /\ Partition(PagesOf(free), With(Without(Without(e, b), c), b, e[b] \cup e[c]), Known)
       /\ ExtentSet(With(Without(Without(e, b), c), b, e[b] \cup e[c]))
            = (ExtentSet(e) \ {e[b], e[c]}) \cup {e[b] \cup e[c]}
  BY SMT, <1>6, <1>7, <1>10, PartitionJoin
<1>12. /\ DOMAIN allocated' = (DOMAIN allocated \ {b, c}) \cup {b}
       /\ \A d \in DOMAIN allocated \ {b, c} : allocated'[d] = allocated[d]
  BY <1>3 DEF With, Without
<1>13. DOMAIN loans \subseteq DOMAIN allocated
  BY DEF FrameInv
<1>14. \A d \in DOMAIN loans : d \in DOMAIN allocated' /\ allocated'[d] = allocated[d]
  BY <1>3, <1>12, <1>13
<1>15. Known' = Known /\ PagesOf(free)' = PagesOf(free)
  BY <1>3 DEF Known
<1>16. FrameInv'
  BY <1>3, <1>9, <1>11, <1>14, <1>15 DEF FrameInv
<1>17. QED BY <1>9, <1>11, <1>14, <1>15, <1>16 DEF e

(* release: the extent goes back to the free pages, or is lost with its    *)
(* last generation.                                                        *)
LEMMA ReleaseStep ==
  ASSUME FrameInv, NEW b \in DOMAIN allocated, release(b)
  PROVE  /\ FrameInv' /\ Known' = Known
         /\ \/ /\ allocated[b].generation < MaxGen
               /\ PagesOf(free)' = PagesOf(free) \cup Extents(allocated)[b]
            \/ /\ ~(allocated[b].generation < MaxGen)
               /\ PagesOf(free)' = PagesOf(free)
         /\ DOMAIN allocated' = DOMAIN allocated \ {b} /\ b \notin DOMAIN loans
         /\ \A c \in DOMAIN allocated' : allocated'[c] = allocated[c]
         /\ ExtentSet(Extents(allocated'))
              = ExtentSet(Extents(allocated)) \ {Extents(allocated)[b]}
<1> DEFINE run == allocated[b]
           e == Extents(allocated)
<1>1. /\ LiveMap(allocated) /\ b \in Nat /\ run \in Runs /\ run.base = b
  BY DEF FrameInv, LiveMap
<1>2. /\ allocated' = Without(allocated, b) /\ b \notin DOMAIN loans
      /\ loans' = loans /\ added' = added
  BY DEF release, NotLent
<1>3. b \in DOMAIN e /\ e[b] = Span(b, run.pages) /\ Partition(PagesOf(free), e, Known)
  BY DEF Extents, FrameInv
<1>4. LiveMap(allocated') /\ Extents(allocated') = Without(e, b)
  BY <1>1, <1>2, LiveWithout
<1>5. /\ Partition(PagesOf(free), Without(e, b), Known)
      /\ Partition(PagesOf(free) \cup e[b], Without(e, b), Known)
      /\ ExtentSet(Without(e, b)) = ExtentSet(e) \ {e[b]}
  <2> HIDE DEF e
  <2>1. QED BY <1>3, PartitionReturn
<1>6. DOMAIN allocated' = DOMAIN allocated \ {b} /\ \A c \in DOMAIN allocated' : allocated'[c] = allocated[c]
  BY <1>2 DEF Without
<1>7. DOMAIN loans' \subseteq DOMAIN allocated'
  BY <1>2, <1>6 DEF FrameInv
<1>8. Known' = Known /\ added' \subseteq Regions
  BY <1>2 DEF Known, FrameInv
<1>9. CASE run.generation < MaxGen
  <2>1. free' = coalesce(With(free, b, run.pages)) /\ generations' = With(generations, b, run.generation + 1)
    BY <1>9 DEF release, NextGeneration
  <2>2. run.pages \in Nat \ {0} /\ run.generation + 1 \in Nat
    BY SMT, <1>1 DEF Runs
  <2>3. Span(b, run.pages) \cap PagesOf(free) = {}
    BY <1>3 DEF Partition
  <2>4. RunMap(free) /\ Gaps(free) /\ GenerationMap(generations)
    BY DEF FrameInv
  <2>5. RunMap(free') /\ Gaps(free') /\ PagesOf(free') = PagesOf(free) \cup Span(b, run.pages)
    <3> HIDE DEF run
    <3>1. QED BY <1>1, <2>1, <2>2, <2>3, <2>4, CoalesceInsert
  <2>6. GenerationMap(generations')
    BY <1>1, <2>1, <2>2, <2>4, GenerationWith
  <2>7. FrameInv'
    BY <1>3, <1>4, <1>5, <1>7, <1>8, <2>5, <2>6 DEF FrameInv
  <2>8. QED BY <1>2, <1>3, <1>4, <1>5, <1>6, <1>8, <1>9, <2>5, <2>7
<1>10. CASE ~(run.generation < MaxGen)
  <2>1. free' = free /\ generations' = generations
    BY <1>10 DEF release
  <2>2. FrameInv'
    BY <1>4, <1>5, <1>7, <1>8, <2>1 DEF FrameInv
  <2>3. QED BY <1>2, <1>4, <1>5, <1>6, <1>8, <1>10, <2>1, <2>2
<1>11. QED BY <1>9, <1>10

-----------------------------------------------------------------------------
(* Each call is a step of FrameGrants. *)

(* What the variables of FrameGrants stand for. *)
LEMMA GrantsAre ==
  /\ FreePages = PagesOf(free) /\ FreePages' = PagesOf(free)'
  /\ {Granted(b) : b \in DOMAIN allocated} = ExtentSet(Extents(allocated))
  /\ {Granted(b) : b \in DOMAIN allocated}' = ExtentSet(Extents(allocated'))
<1>1. FreePages = PagesOf(free) /\ FreePages' = PagesOf(free)'
  BY DEF FreePages, PagesOf
<1>2. ASSUME NEW a PROVE {Span(b, a[b].pages) : b \in DOMAIN a} = ExtentSet(Extents(a))
  BY DEF ExtentSet, Extents
<1>3. QED BY <1>1, <1>2 DEF Granted

(* The known pages and the extents are sets of frames. *)
LEMMA ExtentsAreFrames ==
  ASSUME FrameInv
  PROVE  /\ Known \subseteq Frames
         /\ \A S \in ExtentSet(Extents(allocated)) : S \in (SUBSET Frames) \ {{}}
<1>1. Known \subseteq Frames
  BY DEF FrameInv, Known, Frames
<1>2. QED BY SMT, <1>1 DEF FrameInv, Partition, ExtentSet

(* What a loan relies on. *)
LoansKept ==
  \A b \in DOMAIN loans :
    b \in DOMAIN loans' =>
      /\ b \in DOMAIN allocated'
      /\ allocated'[b].pages = allocated[b].pages
      /\ allocated'[b].generation = allocated[b].generation

StepHolds == FrameInv' /\ [Grants!Next]_Grants!vars /\ LoansKept

(* A step that leaves the pages, the extents and the runs on loan alone. *)
LEMMA QuietStep ==
  ASSUME FrameInv', PagesOf(free)' = PagesOf(free), Known' = Known,
         Extents(allocated') = Extents(allocated), LoansKept
  PROVE  StepHolds
<1>1. UNCHANGED Grants!vars
  BY GrantsAre DEF Grants!vars, Known
<1>2. QED BY <1>1 DEF StepHolds

(* add_region is an Add. *)
LEMMA AddHolds ==
  ASSUME FrameInv, NEW r \in Regions, add_region(r)
  PROVE  StepHolds
<1> DEFINE S == Span(r.base, r.pages)
<1>1. /\ FrameInv' /\ S \cap Known = {} /\ PagesOf(free)' = PagesOf(free) \cup S
      /\ Known' = Known \cup S
  BY AddStep
<1>2. allocated' = allocated /\ loans' = loans
  BY DEF add_region
<1>3. S \in (SUBSET Frames) \ {{}}
  <2>1. S \subseteq Frames
    BY DEF Frames
  <2>2. r.base \in S
    BY SMT, FrameAssumption DEF Span
  <2>3. QED BY <2>1, <2>2
<1> HIDE DEF S
<1>4. Grants!Add(S)
  BY <1>1, <1>2, GrantsAre DEF Grants!Add, Known
<1>5. Grants!Next
  BY <1>3, <1>4 DEF Grants!Next
<1>6. DOMAIN loans \subseteq DOMAIN allocated
  BY DEF FrameInv
<1>7. LoansKept
  BY <1>2, <1>6 DEF LoansKept
<1>8. QED BY <1>1, <1>5, <1>7 DEF StepHolds

(* allocate is a Grant. *)
LEMMA AllocateHolds ==
  ASSUME FrameInv, NEW n \in Sizes, NEW al \in Alignments, allocate(n, al)
  PROVE  StepHolds
<1>1. PICK at \in Nat :
        /\ FrameInv' /\ Span(at, n) \subseteq PagesOf(free)
        /\ PagesOf(free)' = PagesOf(free) \ Span(at, n)
        /\ at \notin DOMAIN allocated /\ at \in Span(at, n)
        /\ allocated' = With(allocated, at, [base |-> at, pages |-> n,
                                             generation |-> GenerationAt(at), zeroed |-> FALSE])
        /\ ExtentSet(Extents(allocated')) = ExtentSet(Extents(allocated)) \cup {Span(at, n)}
  BY AllocateStep
<1> DEFINE S == Span(at, n)
<1>2. loans' = loans /\ Known' = Known
  BY DEF allocate, Known
<1>3. S \in (SUBSET Frames) \ {{}}
  BY <1>1, ExtentsAreFrames DEF FrameInv, Partition
<1> HIDE DEF S
<1>4. Grants!Grant(S)
  BY <1>1, <1>2, GrantsAre DEF Grants!Grant, Known, S
<1>5. Grants!Next
  BY <1>3, <1>4 DEF Grants!Next
<1>6. \A b \in DOMAIN allocated : b \in DOMAIN allocated' /\ allocated'[b] = allocated[b]
  BY <1>1 DEF With
<1>7. DOMAIN loans \subseteq DOMAIN allocated
  BY DEF FrameInv
<1>8. LoansKept
  BY <1>6, <1>7 DEF LoansKept
<1>9. QED BY <1>1, <1>5, <1>8 DEF StepHolds

(* mark_zeroed, lend and reclaim change no grant. *)
LEMMA MarkHolds ==
  ASSUME FrameInv, NEW b \in DOMAIN allocated, mark_zeroed(b)
  PROVE  StepHolds
<1>1. /\ FrameInv' /\ PagesOf(free)' = PagesOf(free) /\ Known' = Known
      /\ Extents(allocated') = Extents(allocated) /\ DOMAIN allocated' = DOMAIN allocated
      /\ \A c \in DOMAIN allocated : /\ allocated'[c].pages = allocated[c].pages
                                     /\ allocated'[c].generation = allocated[c].generation
  BY MarkStep
<1>2. DOMAIN loans \subseteq DOMAIN allocated
  BY DEF FrameInv
<1>3. LoansKept
  BY <1>1, <1>2 DEF LoansKept
<1>4. QED BY <1>1, <1>3, QuietStep

(* A run that is lent or reclaimed keeps its extent. *)
LEMMA LoanHolds ==
  ASSUME FrameInv, NEW b \in DOMAIN allocated, NEW w, lend(b, w) \/ reclaim(b, w)
  PROVE  StepHolds
<1>1. /\ Advance(b) /\ free' = free /\ added' = added
  BY DEF lend, reclaim
<1>2. /\ DOMAIN loans \subseteq DOMAIN allocated /\ DOMAIN loans' \subseteq DOMAIN allocated
      /\ b \in DOMAIN loans => b \notin DOMAIN loans'
  <2>1. DOMAIN loans \subseteq DOMAIN allocated
    BY DEF FrameInv
  <2>2. CASE lend(b, w)
    <3>1. b \notin DOMAIN loans /\ DOMAIN loans' = DOMAIN loans \cup {b}
      BY <2>2 DEF lend, With
    <3>2. QED BY <2>1, <3>1
  <2>3. CASE reclaim(b, w)
    <3>1. DOMAIN loans' = DOMAIN loans \ {b}
      BY <2>3 DEF reclaim, Without
    <3>2. QED BY <2>1, <3>1
  <2>4. QED BY <2>2, <2>3
<1>3. /\ FrameInv' /\ PagesOf(free)' = PagesOf(free) /\ Known' = Known
      /\ Extents(allocated') = Extents(allocated) /\ DOMAIN allocated' = DOMAIN allocated
      /\ \A c \in DOMAIN allocated : allocated'[c].pages = allocated[c].pages
      /\ \A c \in DOMAIN allocated \ {b} : allocated'[c].generation = allocated[c].generation
  BY <1>1, <1>2, AdvanceStep
<1>4. LoansKept
  BY <1>2, <1>3 DEF LoansKept
<1>5. QED BY <1>3, <1>4, QuietStep

(* A run is worn exactly if its own generation is the last one: no other   *)
(* run has its extent.                                                     *)
LEMMA WornIs ==
  ASSUME FrameInv, NEW b \in DOMAIN allocated
  PROVE  Extents(allocated)[b] \in Worn <=> allocated[b].generation >= MaxGen
<1>1. \A c \in DOMAIN allocated : Granted(c) = Extents(allocated)[c]
  BY DEF Granted, Extents
<1>2. ASSUME NEW c \in DOMAIN allocated, Granted(c) = Granted(b) PROVE c = b
  <2> DEFINE e == Extents(allocated)
  <2>1. Partition(PagesOf(free), e, Known) /\ DOMAIN e = DOMAIN allocated BY DEF FrameInv, Extents
  <2> HIDE DEF e
  <2>2. b \in e[b] /\ (c # b => e[b] \cap e[c] = {}) BY <2>1 DEF Partition
  <2>3. e[c] = e[b] BY <1>1, <1>2 DEF e
  <2>4. QED BY <2>2, <2>3
<1>3. QED BY <1>1, <1>2 DEF Worn

(* release is a Return, or a Lose if the run is worn. *)
LEMMA ReleaseHolds ==
  ASSUME FrameInv, NEW b \in DOMAIN allocated, release(b)
  PROVE  StepHolds
<1> DEFINE S == Extents(allocated)[b]
<1>1. /\ FrameInv' /\ Known' = Known
      /\ \/ allocated[b].generation < MaxGen /\ PagesOf(free)' = PagesOf(free) \cup S
         \/ ~(allocated[b].generation < MaxGen) /\ PagesOf(free)' = PagesOf(free)
      /\ DOMAIN allocated' = DOMAIN allocated \ {b} /\ b \notin DOMAIN loans
      /\ \A c \in DOMAIN allocated' : allocated'[c] = allocated[c]
      /\ ExtentSet(Extents(allocated')) = ExtentSet(Extents(allocated)) \ {S}
  BY ReleaseStep
<1>2. S \in ExtentSet(Extents(allocated))
  BY DEF ExtentSet, Extents
<1>3. S \in (SUBSET Frames) \ {{}}
  BY <1>2, ExtentsAreFrames
<1> HIDE DEF S
<1>9. S \in Worn <=> ~(allocated[b].generation < MaxGen)
  <2>1. allocated[b].generation \in Nat BY DEF FrameInv, LiveMap, Runs
  <2>2. S \in Worn <=> allocated[b].generation >= MaxGen BY WornIs DEF S
  <2>3. QED BY SMT, <2>1, <2>2, FrameAssumption
<1>4. Grants!Return(S) \/ Grants!Lose(S)
  BY <1>1, <1>2, <1>9, GrantsAre DEF Grants!Return, Grants!Lose, Known
<1>5. Grants!Next
  BY <1>3, <1>4 DEF Grants!Next
<1>6. DOMAIN loans \subseteq DOMAIN allocated
  BY DEF FrameInv
<1>7. LoansKept
  BY <1>1, <1>6 DEF LoansKept
<1>8. QED BY <1>1, <1>5, <1>7 DEF StepHolds

(* split_allocated is a Split and join_allocated a Join. *)
LEMMA SplitHolds ==
  ASSUME FrameInv, NEW b \in DOMAIN allocated, NEW n \in Sizes, split_allocated(b, n)
  PROVE  StepHolds
<1> DEFINE e == Extents(allocated)
<1>1. /\ FrameInv' /\ PagesOf(free)' = PagesOf(free) /\ Known' = Known
      /\ \A c \in DOMAIN loans : c \in DOMAIN allocated' /\ allocated'[c] = allocated[c]
      /\ \E S, T \in (SUBSET Nat) \ {{}} :
           /\ S \cap T = {} /\ S \cup T = e[b]
           /\ ExtentSet(Extents(allocated')) = (ExtentSet(e) \ {S \cup T}) \cup {S, T}
  BY SplitStep
<1>2. PICK S, T \in (SUBSET Nat) \ {{}} :
        /\ S \cap T = {} /\ S \cup T = e[b]
        /\ ExtentSet(Extents(allocated')) = (ExtentSet(e) \ {S \cup T}) \cup {S, T}
  BY <1>1
<1>3. e[b] \in ExtentSet(e)
  BY DEF ExtentSet, Extents
<1>4. S \in (SUBSET Frames) \ {{}} /\ T \in (SUBSET Frames) \ {{}}
  BY <1>2, <1>3, ExtentsAreFrames
<1>5. Grants!Split(S, T)
  BY <1>1, <1>2, <1>3, GrantsAre DEF Grants!Split, Known
<1>6. Grants!Next
  BY <1>4, <1>5 DEF Grants!Next
<1>7. LoansKept
  BY <1>1 DEF LoansKept
<1>8. QED BY <1>1, <1>6, <1>7 DEF StepHolds

(* join_allocated is a Join of two grants. *)
LEMMA JoinHolds ==
  ASSUME FrameInv, NEW b \in DOMAIN allocated, NEW c \in DOMAIN allocated, join_allocated(b, c)
  PROVE  StepHolds
<1> DEFINE e == Extents(allocated)
           S == e[b]
           T == e[c]
<1>1. /\ FrameInv' /\ PagesOf(free)' = PagesOf(free) /\ Known' = Known
      /\ \A d \in DOMAIN loans : d \in DOMAIN allocated' /\ allocated'[d] = allocated[d]
      /\ S # T /\ ExtentSet(Extents(allocated')) = (ExtentSet(e) \ {S, T}) \cup {S \cup T}
  BY JoinStep
<1>2. S \in ExtentSet(e) /\ T \in ExtentSet(e)
  BY DEF ExtentSet, Extents
<1>3. S \in (SUBSET Frames) \ {{}} /\ T \in (SUBSET Frames) \ {{}}
  BY <1>2, ExtentsAreFrames
<1> HIDE DEF S, T
<1>4. Grants!Join(S, T)
  BY <1>1, <1>2, GrantsAre DEF Grants!Join, Known
<1>5. Grants!Next
  BY <1>3, <1>4 DEF Grants!Next
<1>6. LoansKept
  BY <1>1 DEF LoansKept
<1>7. QED BY <1>1, <1>5, <1>6 DEF StepHolds

(* Every call. *)
LEMMA NextHolds ==
  ASSUME FrameInv, Next
  PROVE  StepHolds
<1>1. ASSUME NEW r \in Regions, add_region(r) PROVE StepHolds
  BY <1>1, AddHolds
<1>2. ASSUME NEW n \in Sizes, NEW al \in Alignments, allocate(n, al) PROVE StepHolds
  BY <1>2, AllocateHolds
<1>3. ASSUME NEW b \in DOMAIN allocated, mark_zeroed(b) PROVE StepHolds
  BY <1>3, MarkHolds
<1>4. ASSUME NEW b \in DOMAIN allocated, NEW w \in Borrowers, lend(b, w) \/ reclaim(b, w)
      PROVE  StepHolds
  BY <1>4, LoanHolds
<1>5. ASSUME NEW b \in DOMAIN allocated, release(b) PROVE StepHolds
  BY <1>5, ReleaseHolds
<1>6. ASSUME NEW b \in DOMAIN allocated, NEW n \in Sizes, split_allocated(b, n) PROVE StepHolds
  BY <1>6, SplitHolds
<1>7. ASSUME NEW b \in DOMAIN allocated, NEW c \in DOMAIN allocated, join_allocated(b, c)
      PROVE  StepHolds
  BY <1>7, JoinHolds
<1>8. QED BY <1>1, <1>2, <1>3, <1>4, <1>5, <1>6, <1>7 DEF Next, Ordinary, Recut

(* FrameInv is inductive. *)
LEMMA FrameInvStep == FrameInv /\ [Next]_vars => FrameInv'
<1>1. FrameInv /\ Next => FrameInv'
  BY NextHolds DEF StepHolds
<1>2. FrameInv /\ UNCHANGED vars => FrameInv'
  BY DEF vars, FrameInv, Known
<1>3. QED BY <1>1, <1>2

(* FrameInv is an invariant of the allocator. *)
LEMMA FrameInvHolds == Spec => []FrameInv
BY FrameInvInit, FrameInvStep, PTL DEF Spec

(* No two free runs touch, whatever regions were added and whatever runs   *)
(* were allocated and released: coalesce merges all there is to merge.     *)
THEOREM FullyCoalescedHolds == Spec => []FullyCoalesced
<1>1. FrameInv => FullyCoalesced
  <2> SUFFICES ASSUME FrameInv, NEW b \in DOMAIN free, NEW c \in DOMAIN free
               PROVE  b + free[b] # c
    BY DEF FullyCoalesced
  <2>1. b \in Nat /\ c \in Nat /\ free[b] \in Nat \ {0} /\ Gaps(free)
    BY DEF FrameInv, RunMap
  <2>2. QED BY SMT, <2>1 DEF Gaps
<1>2. QED BY <1>1, FrameInvHolds, PTL

(* No call changes the extent or the generation of a run that is lent and  *)
(* stays lent: release, split_allocated and join_allocated refuse it.      *)
THEOREM LoanHoldsRunHolds == Spec => LoanHoldsRun
<1>1. FrameInv /\ [Next]_vars => [LoansKept]_vars
  BY NextHolds DEF StepHolds
<1>2. QED BY <1>1, FrameInvHolds, PTL DEF Spec, LoanHoldsRun, LoansKept

(* The allocator implements FrameGrants: every call adds, grants, returns, *)
(* loses, splits or joins sets of pages there, or changes nothing.         *)
THEOREM ImplementsGrantsHolds == Spec => ImplementsGrants
<1>1. Init => Grants!Init
  <2> SUFFICES ASSUME Init PROVE Grants!Init
    OBVIOUS
  <2>1. DOMAIN free = {} /\ DOMAIN allocated = {} /\ added = {}
    BY DEF Init, NoEntries
  <2>2. QED BY <2>1 DEF Grants!Init, FreePages
<1>2. FrameInv /\ [Next]_vars => [Grants!Next]_Grants!vars
  <2>1. FrameInv /\ Next => [Grants!Next]_Grants!vars
    BY NextHolds DEF StepHolds
  <2>2. UNCHANGED vars => UNCHANGED Grants!vars
    BY DEF vars, Grants!vars, FreePages, Granted
  <2>3. QED BY <2>1, <2>2
<1>3. QED BY <1>1, <1>2, FrameInvHolds, PTL DEF Spec, ImplementsGrants, Grants!Spec

-----------------------------------------------------------------------------
(* Handles. *)

(* As long as no run was split or joined, a live run has the generation    *)
(* recorded for its base, and a consumed handle an older one.              *)
Recorded == \A b \in DOMAIN allocated : allocated[b].generation = GenerationAt(b)

Outdated ==
  \A h \in retired : /\ h.base \in Nat /\ h.generation \in Nat
                     /\ h.generation < GenerationAt(h.base)

HandleInv == FrameInv /\ (~recut => Recorded /\ Outdated)

(* What a step of an ordinary call does to the generations: none goes back *)
(* and that of a consumed handle goes on.                                  *)
GenerationsGrow ==
  /\ \A x \in Nat : GenerationAt(x) <= GenerationAt(x)'
  /\ \A b \in DOMAIN allocated :
       Handle(allocated[b]) \in Consumed => GenerationAt(b) < GenerationAt(b)'

(* The recorded generations are naturals, before and after a step. *)
LEMMA GenerationsAreNat ==
  /\ FrameInv => \A x : GenerationAt(x) \in Nat
  /\ FrameInv' => \A x : GenerationAt(x)' \in Nat
BY DEF GenerationAt, FrameInv, GenerationMap

(* The base and the generation of a live handle. *)
LEMMA LiveHandle ==
  ASSUME FrameInv, NEW b \in DOMAIN allocated
  PROVE  /\ b \in Nat /\ Handle(allocated[b]).base = b
         /\ Handle(allocated[b]).generation = allocated[b].generation
         /\ allocated[b].generation \in Nat
BY DEF FrameInv, LiveMap, Runs, Handle

(* When the handle of a live run is consumed. *)
LEMMA ConsumedIs ==
  ASSUME FrameInv, NEW b \in DOMAIN allocated, Handle(allocated[b]) \in Consumed
  PROVE  \/ b \in PagesOf(free)'
         \/ b \in DOMAIN allocated' /\ allocated'[b].generation # allocated[b].generation
BY LiveHandle, GrantsAre DEF Consumed

(* The base of a live run is a known page that is not free. *)
LEMMA BaseIsTaken ==
  ASSUME FrameInv, NEW b \in DOMAIN allocated
  PROVE  /\ b \in Known /\ b \notin PagesOf(free)
         /\ \A c \in DOMAIN allocated : b \in Extents(allocated)[c] => b = c
<1>1. DOMAIN Extents(allocated) = DOMAIN allocated
  BY DEF Extents
<1>2. QED BY <1>1 DEF FrameInv, Partition

(* A step that consumes handles only as their generations grow. *)
LEMMA OrdinaryKeeps ==
  ASSUME FrameInv, FrameInv', Recorded, Outdated, retired' = retired \cup Consumed,
         GenerationsGrow
  PROVE  Outdated'
<1>1. \A x \in Nat : GenerationAt(x) \in Nat /\ GenerationAt(x)' \in Nat
  BY GenerationsAreNat
<1>2. ASSUME NEW h \in retired
      PROVE  h.base \in Nat /\ h.generation \in Nat /\ h.generation < GenerationAt(h.base)'
  BY SMT, <1>1 DEF Outdated, GenerationsGrow
<1>3. ASSUME NEW h \in Consumed
      PROVE  h.base \in Nat /\ h.generation \in Nat /\ h.generation < GenerationAt(h.base)'
  <2>1. PICK b \in DOMAIN allocated : h = Handle(allocated[b])
    BY DEF Consumed, Live
  <2>2. h.base = b /\ b \in Nat /\ h.generation = GenerationAt(b)
    BY <2>1, LiveHandle DEF Recorded
  <2>3. GenerationAt(b) < GenerationAt(b)'
    BY <1>3, <2>1 DEF GenerationsGrow
  <2>4. QED BY <1>1, <2>2, <2>3
<1>4. QED BY <1>2, <1>3 DEF Outdated

(* A step that leaves the generations and the live runs' bases alone. *)
LEMMA SameGenerations ==
  ASSUME FrameInv, generations' = generations,
         \A b \in DOMAIN allocated : Handle(allocated[b]) \notin Consumed
  PROVE  GenerationsGrow
<1>1. \A x \in Nat : GenerationAt(x) \in Nat /\ GenerationAt(x)' = GenerationAt(x)
  BY GenerationsAreNat DEF GenerationAt
<1>2. QED BY SMT, <1>1 DEF GenerationsGrow

(* A step that moves the generation of the run at b on. *)
LEMMA NextGenerations ==
  ASSUME FrameInv, Recorded, NEW b \in DOMAIN allocated,
         generations' = With(generations, b, allocated[b].generation + 1),
         \A c \in DOMAIN allocated : Handle(allocated[c]) \in Consumed => c = b
  PROVE  /\ GenerationsGrow
         /\ GenerationAt(b)' = allocated[b].generation + 1
         /\ \A x \in Nat : x # b => GenerationAt(x)' = GenerationAt(x)
<1>1. allocated[b].generation = GenerationAt(b) /\ b \in Nat
  BY LiveHandle DEF Recorded
<1>2. \A x \in Nat : GenerationAt(x) \in Nat
  BY GenerationsAreNat
<1>3. /\ GenerationAt(b)' = allocated[b].generation + 1
      /\ \A x \in Nat : x # b => GenerationAt(x)' = GenerationAt(x)
  <2>1. /\ DOMAIN generations' = DOMAIN generations \cup {b}
        /\ generations'[b] = allocated[b].generation + 1
        /\ \A x \in DOMAIN generations : x # b => generations'[x] = generations[x]
    BY DEF With
  <2>2. QED BY <2>1 DEF GenerationAt
<1>4. QED BY SMTT(30), <1>1, <1>2, <1>3 DEF GenerationsGrow

(* add_region and allocate consume nothing. *)
LEMMA AddGrows ==
  ASSUME FrameInv, Recorded, NEW r \in Regions, add_region(r)
  PROVE  GenerationsGrow /\ Recorded'
<1>1. /\ Span(r.base, r.pages) \cap Known = {}
      /\ PagesOf(free)' = PagesOf(free) \cup Span(r.base, r.pages)
  BY AddStep
<1>2. generations' = generations /\ allocated' = allocated
  BY DEF add_region
<1>3. \A b \in DOMAIN allocated : Handle(allocated[b]) \notin Consumed
  BY <1>1, <1>2, ConsumedIs, BaseIsTaken
<1>4. Recorded'
  BY <1>2 DEF Recorded, GenerationAt
<1>5. QED BY <1>2, <1>3, <1>4, SameGenerations

(* allocate consumes no handle: its base was not live. *)
LEMMA AllocateGrows ==
  ASSUME FrameInv, Recorded, NEW n \in Sizes, NEW al \in Alignments, allocate(n, al)
  PROVE  GenerationsGrow /\ Recorded'
<1>1. PICK at \in Nat :
        /\ PagesOf(free)' = PagesOf(free) \ Span(at, n)
        /\ at \notin DOMAIN allocated
        /\ allocated' = With(allocated, at, [base |-> at, pages |-> n,
                                             generation |-> GenerationAt(at), zeroed |-> FALSE])
  BY AllocateStep
<1>2. generations' = generations
  BY DEF allocate
<1>3. /\ DOMAIN allocated' = DOMAIN allocated \cup {at}
      /\ allocated'[at].generation = GenerationAt(at)
      /\ \A b \in DOMAIN allocated : allocated'[b] = allocated[b]
  BY <1>1 DEF With
<1>4. \A b \in DOMAIN allocated : Handle(allocated[b]) \notin Consumed
  BY <1>1, <1>3, ConsumedIs, BaseIsTaken
<1>5. \A x : GenerationAt(x)' = GenerationAt(x)
  BY <1>2 DEF GenerationAt
<1>6. Recorded'
  BY <1>3, <1>5 DEF Recorded
<1>7. QED BY <1>2, <1>4, <1>6, SameGenerations

(* mark_zeroed consumes no handle. *)
LEMMA MarkGrows ==
  ASSUME FrameInv, Recorded, NEW b \in DOMAIN allocated, mark_zeroed(b)
  PROVE  GenerationsGrow /\ Recorded'
<1>1. /\ PagesOf(free)' = PagesOf(free) /\ DOMAIN allocated' = DOMAIN allocated
      /\ \A c \in DOMAIN allocated : allocated'[c].generation = allocated[c].generation
  BY MarkStep
<1>2. generations' = generations
  BY DEF mark_zeroed
<1>3. \A c \in DOMAIN allocated : Handle(allocated[c]) \notin Consumed
  BY <1>1, ConsumedIs, BaseIsTaken
<1>4. \A x : GenerationAt(x)' = GenerationAt(x)
  BY <1>2 DEF GenerationAt
<1>5. Recorded'
  BY <1>1, <1>4 DEF Recorded
<1>6. QED BY <1>2, <1>3, <1>5, SameGenerations

(* lend and reclaim consume one handle and move its generation on. *)
LEMMA LoanGrows ==
  ASSUME FrameInv, Recorded, NEW b \in DOMAIN allocated, NEW w, lend(b, w) \/ reclaim(b, w)
  PROVE  GenerationsGrow /\ Recorded'
<1>1. Advance(b) /\ free' = free
  BY DEF lend, reclaim
<1>2. /\ DOMAIN allocated' = DOMAIN allocated
      /\ \A c \in DOMAIN allocated \ {b} : allocated'[c].generation = allocated[c].generation
      /\ allocated'[b].generation = allocated[b].generation + 1
  <2>1. LiveMap(allocated) /\ allocated' = [allocated EXCEPT ![b].generation = @ + 1]
    BY <1>1 DEF Advance, FrameInv
  <2>2. QED BY <2>1 DEF LiveMap, Runs
<1>3. generations' = With(generations, b, allocated[b].generation + 1)
  BY <1>1 DEF Advance
<1>4. \A c \in DOMAIN allocated : Handle(allocated[c]) \in Consumed => c = b
  BY <1>1, <1>2, ConsumedIs, BaseIsTaken
<1>5. /\ GenerationsGrow
      /\ GenerationAt(b)' = allocated[b].generation + 1
      /\ \A x \in Nat : x # b => GenerationAt(x)' = GenerationAt(x)
  BY <1>3, <1>4, NextGenerations
<1>6. \A c \in DOMAIN allocated : c \in Nat
  BY LiveHandle
<1>7. Recorded'
  BY <1>2, <1>5, <1>6 DEF Recorded
<1>8. QED BY <1>5, <1>7

(* release consumes the handle it is given, or loses the pages. *)
LEMMA ReleaseGrows ==
  ASSUME FrameInv, Recorded, NEW b \in DOMAIN allocated, release(b)
  PROVE  GenerationsGrow /\ Recorded'
<1>1. /\ \/ /\ allocated[b].generation < MaxGen
            /\ PagesOf(free)' = PagesOf(free) \cup Extents(allocated)[b]
         \/ /\ ~(allocated[b].generation < MaxGen)
            /\ PagesOf(free)' = PagesOf(free)
      /\ DOMAIN allocated' = DOMAIN allocated \ {b}
      /\ \A c \in DOMAIN allocated' : allocated'[c] = allocated[c]
  BY ReleaseStep
<1>2. \A c \in DOMAIN allocated : c \in Nat
  BY LiveHandle
<1>3. CASE allocated[b].generation < MaxGen
  <2>1. generations' = With(generations, b, allocated[b].generation + 1)
    BY <1>3 DEF release, NextGeneration
  <2>2. \A c \in DOMAIN allocated : Handle(allocated[c]) \in Consumed => c = b
    BY <1>1, <1>3, ConsumedIs, BaseIsTaken
  <2>3. GenerationsGrow /\ \A x \in Nat : x # b => GenerationAt(x)' = GenerationAt(x)
    BY <2>1, <2>2, NextGenerations
  <2>4. Recorded'
    BY <1>1, <1>2, <2>3 DEF Recorded
  <2>5. QED BY <2>3, <2>4
<1>4. CASE ~(allocated[b].generation < MaxGen)
  <2>1. generations' = generations
    BY <1>4 DEF release
  <2>2. \A c \in DOMAIN allocated : Handle(allocated[c]) \notin Consumed
    BY <1>1, <1>4, ConsumedIs, BaseIsTaken
  <2>3. \A x : GenerationAt(x)' = GenerationAt(x)
    BY <2>1 DEF GenerationAt
  <2>4. Recorded'
    BY <1>1, <2>3 DEF Recorded
  <2>5. QED BY <2>1, <2>2, <2>4, SameGenerations
<1>5. QED BY <1>3, <1>4

(* Every ordinary call. *)
LEMMA OrdinaryGrows ==
  ASSUME FrameInv, Recorded, Ordinary
  PROVE  GenerationsGrow /\ Recorded'
<1>1. ASSUME NEW r \in Regions, add_region(r) PROVE GenerationsGrow /\ Recorded'
  BY <1>1, AddGrows
<1>2. ASSUME NEW n \in Sizes, NEW al \in Alignments, allocate(n, al)
      PROVE  GenerationsGrow /\ Recorded'
  BY <1>2, AllocateGrows
<1>3. ASSUME NEW b \in DOMAIN allocated, mark_zeroed(b) PROVE GenerationsGrow /\ Recorded'
  BY <1>3, MarkGrows
<1>4. ASSUME NEW b \in DOMAIN allocated, NEW w \in Borrowers, lend(b, w) \/ reclaim(b, w)
      PROVE  GenerationsGrow /\ Recorded'
  BY <1>4, LoanGrows
<1>5. ASSUME NEW b \in DOMAIN allocated, release(b) PROVE GenerationsGrow /\ Recorded'
  BY <1>5, ReleaseGrows
<1>6. QED BY <1>1, <1>2, <1>3, <1>4, <1>5 DEF Ordinary

(* At the start there is neither a run nor a handle. *)
LEMMA HandleInvInit == HInit => HandleInv
<1>1. HInit => FrameInv
  BY FrameInvInit DEF HInit
<1>2. HInit => DOMAIN allocated = {} /\ retired = {}
  BY DEF HInit, Init, NoEntries
<1>3. HInit => Recorded /\ Outdated
  BY <1>2 DEF Recorded, Outdated
<1>4. QED BY <1>1, <1>3 DEF HandleInv

(* HandleInv is inductive. *)
LEMMA HandleInvStep == HandleInv /\ [HNext]_<<vars, retired, recut>> => HandleInv'
<1>1. ASSUME HandleInv, HNext PROVE HandleInv'
  <2>1. FrameInv'
    <3>1. Next
      BY <1>1 DEF HNext, Next
    <3>2. QED BY <1>1, <3>1, FrameInvStep DEF HandleInv
  <2>2. CASE recut' = TRUE
    BY <2>1, <2>2 DEF HandleInv
  <2>3. CASE Ordinary /\ recut' = recut /\ ~recut
    <3>1. FrameInv /\ Recorded /\ Outdated
      BY <1>1, <2>3 DEF HandleInv
    <3>2. GenerationsGrow /\ Recorded'
      BY <2>3, <3>1, OrdinaryGrows
    <3>3. retired' = retired \cup Consumed
      BY <1>1 DEF HNext
    <3>4. Outdated'
      BY <2>1, <3>1, <3>2, <3>3, OrdinaryKeeps
    <3>5. QED BY <2>1, <3>2, <3>4 DEF HandleInv
  <2>4. CASE Ordinary /\ recut' = recut /\ recut
    BY <2>1, <2>4 DEF HandleInv
  <2>5. QED BY <1>1, <2>2, <2>3, <2>4 DEF HNext
<1>2. ASSUME HandleInv, UNCHANGED <<vars, retired, recut>> PROVE HandleInv'
  <2>1. FrameInv'
    BY <1>2, FrameInvStep DEF HandleInv
  <2>2. (Recorded /\ Outdated)' = (Recorded /\ Outdated) /\ recut' = recut
    BY <1>2 DEF vars, Recorded, Outdated, GenerationAt
  <2>3. QED BY SMTT(30), <1>2, <2>1, <2>2 DEF HandleInv
<1>3. QED BY <1>1, <1>2

(* Without split and join, a handle that release, lend or reclaim consumed *)
(* is never live again, although its base and size may be.                 *)
THEOREM NoHandleRevivesHolds == HSpec => []NoHandleRevives
<1>1. HandleInv => NoHandleRevives
  <2> SUFFICES ASSUME HandleInv, ~recut, NEW h \in Live, h \in retired PROVE FALSE
    BY DEF NoHandleRevives
  <2>1. PICK b \in DOMAIN allocated : h = Handle(allocated[b])
    BY DEF Live
  <2>2. h.base = b /\ h.generation = GenerationAt(b)
    BY <2>1, LiveHandle DEF HandleInv, Recorded
  <2>3. h.generation \in Nat /\ h.generation < GenerationAt(b)
    BY <2>2 DEF HandleInv, Outdated
  <2>4. QED BY SMT, <2>2, <2>3
<1>2. QED BY <1>1, HandleInvInit, HandleInvStep, PTL DEF HSpec
=============================================================================
