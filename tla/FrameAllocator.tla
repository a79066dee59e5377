---------------------------- MODULE FrameAllocator ----------------------------
(***************************************************************************)
(* FrameAllocator of kernel/src/frame.rs: maps from base to free length,   *)
(* to the allocated run, to the generation and to the borrower.            *)
(*                                                                         *)
(* Addresses and sizes are counted in pages.  A handle is a FrameRun value *)
(* and every call that is given one starts with validate, which compares   *)
(* its base, size and generation with the live run; all other handles only *)
(* get an error.  A call is therefore modelled on the live run itself; what*)
(* becomes of old handles is the subject of FrameHandles.  The caller      *)
(* hands over each region of the memory map once: add_region itself only   *)
(* looks for an overlap with free runs.                                    *)
(***************************************************************************)
EXTENDS FrameRuns

CONSTANTS
  Regions,      \* the regions of the memory map, as [base, pages]
  Sizes,        \* the sizes callers ask for
  Alignments,   \* the alignments callers ask for, powers of two
  Borrowers,    \* those a run is lent to
  MaxGen        \* the last generation (u64::MAX in the code)

ASSUME FrameAssumption ==
  /\ Regions \subseteq [base : Nat, pages : Nat \ {0}]
  /\ \A r, s \in Regions : r # s => Span(r.base, r.pages) \cap Span(s.base, s.pages) = {}
  /\ Sizes \subseteq Nat \ {0} /\ Alignments \subseteq Nat \ {0}
  /\ MaxGen \in Nat

VARIABLES
  free,         \* base -> pages
  allocated,    \* base -> FrameRun
  generations,  \* base -> generation
  loans,        \* base -> borrower
  added         \* the regions handed over so far

vars == <<free, allocated, generations, loans, added>>

Frames == UNION {Span(r.base, r.pages) : r \in Regions}

Generations == 0..MaxGen

Init ==
  /\ free = NoEntries /\ allocated = NoEntries
  /\ generations = NoEntries /\ loans = NoEntries
  /\ added = {}
-----------------------------------------------------------------------------
Overlaps(base, pages) ==
  \E b \in DOMAIN free : base < b + free[b] /\ b < base + pages

add_region(r) ==
  /\ r \notin added
  /\ ~Overlaps(r.base, r.pages)
  /\ free' = coalesce(With(free, r.base, r.pages))
  /\ added' = added \cup {r}
  /\ UNCHANGED <<allocated, generations, loans>>

GenerationAt(b) == IF b \in DOMAIN generations THEN generations[b] ELSE 0

(* allocate: the lowest free run that holds the aligned request is cut     *)
(* into a free prefix, the allocation and a free suffix.                   *)
Suffix(b, prefix, pages) == free[b] - prefix - pages

allocate(pages, alignment) ==
  LET Prefix(b) == AlignUp(b, alignment) - b
      fits == {b \in DOMAIN free : Prefix(b) + pages <= free[b]}
      base == Min(fits)
      at == AlignUp(base, alignment)
      prefix == Prefix(base)
      suffix == Suffix(base, prefix, pages)
      rest == Without(free, base)
      low == IF prefix # 0 THEN With(rest, base, prefix) ELSE rest
  IN /\ fits # {}
     /\ free' = IF suffix # 0 THEN With(low, at + pages, suffix) ELSE low
     /\ allocated' = With(allocated, at,
                            [base |-> at, pages |-> pages,
                             generation |-> GenerationAt(at), zeroed |-> FALSE])
     /\ UNCHANGED <<generations, loans, added>>

mark_zeroed(b) ==
  /\ allocated' = [allocated EXCEPT ![b].zeroed = TRUE]
  /\ UNCHANGED <<free, generations, loans, added>>

(* lend and reclaim both consume the handle by moving the generation on. *)
Advance(b) ==
  /\ allocated[b].generation < MaxGen
  /\ allocated' = [allocated EXCEPT ![b].generation = @ + 1]
  /\ generations' = With(generations, b, allocated[b].generation + 1)

lend(b, borrower) ==
  /\ b \notin DOMAIN loans
  /\ Advance(b)
  /\ loans' = With(loans, b, borrower)
  /\ UNCHANGED <<free, added>>

reclaim(b, borrower) ==
  /\ b \in DOMAIN loans /\ loans[b] = borrower
  /\ Advance(b)
  /\ loans' = Without(loans, b)
  /\ UNCHANGED <<free, added>>

(* release, split_allocated and join_allocated refuse a run that is lent. *)
AnyRun(b) == TRUE

NotLent(b) == b \notin DOMAIN loans

(* split and join: both halves keep the generation and the zeroed mark. *)
split(run, left_pages) ==
  <<[run EXCEPT !.pages = left_pages],
    [run EXCEPT !.base = run.base + left_pages, !.pages = run.pages - left_pages]>>

Joinable(left, right) ==
  /\ left.generation = right.generation
  /\ left.zeroed = right.zeroed
  /\ left.base + left.pages = right.base

join(left, right) == [left EXCEPT !.pages = left.pages + right.pages]

(* split_allocated: an older entry of generations for the base of the right *)
(* half is left as it is.                                                   *)
split_allocated(b, left_pages) ==
  LET run == allocated[b]
      left == split(run, left_pages)[1]
      right == split(run, left_pages)[2]
  IN /\ NotLent(b)
     /\ left_pages > 0 /\ left_pages < run.pages
     /\ allocated' = With(With(allocated, b, left), right.base, right)
     /\ generations' = IF right.base \in DOMAIN generations THEN generations
                       ELSE With(generations, right.base, right.generation)
     /\ UNCHANGED <<free, loans, added>>

join_allocated(b, c) ==
  /\ NotLent(b) /\ NotLent(c)
  /\ Joinable(allocated[b], allocated[c])
  /\ allocated' = With(Without(Without(allocated, b), c), b, join(allocated[b], allocated[c]))
  /\ UNCHANGED <<free, generations, loans, added>>

(* release: the run is gone even if its generation cannot be moved on, in  *)
(* which case its pages are not free either.                               *)
SameGeneration(run) == run.generation

NextGeneration(run) == run.generation + 1

release(b) ==
  LET run == allocated[b]
  IN /\ NotLent(b)
     /\ allocated' = Without(allocated, b)
     /\ IF run.generation < MaxGen
          THEN /\ generations' = With(generations, b, NextGeneration(run))
               /\ free' = coalesce(With(free, b, run.pages))
          ELSE UNCHANGED <<generations, free>>
     /\ UNCHANGED <<loans, added>>

Ordinary ==
  \/ \E r \in Regions : add_region(r)
  \/ \E n \in Sizes, a \in Alignments : allocate(n, a)
  \/ \E b \in DOMAIN allocated :
       \/ mark_zeroed(b)
       \/ \E w \in Borrowers : lend(b, w) \/ reclaim(b, w)
       \/ release(b)

Recut ==
  \E b \in DOMAIN allocated :
    \/ \E n \in Sizes : split_allocated(b, n)
    \/ \E c \in DOMAIN allocated : join_allocated(b, c)

Next == Ordinary \/ Recut

Spec == Init /\ [][Next]_vars
-----------------------------------------------------------------------------
FreePages == UNION {Span(b, free[b]) : b \in DOMAIN free}

Granted(b) == Span(b, allocated[b].pages)

(* The free list is never fragmented artificially: no free run ends where  *)
(* another begins, so a request that fits adjacent free pages succeeds.    *)
FullyCoalesced == \A b, c \in DOMAIN free : b + free[b] # c

(* While a run is lent its borrower can rely on it: no call changes the    *)
(* extent or the generation of the run before the loan is reclaimed.       *)
LoanHoldsRun ==
  [][\A b \in DOMAIN loans :
       b \in DOMAIN loans' =>
         /\ b \in DOMAIN allocated'
         /\ allocated'[b].pages = allocated[b].pages
         /\ allocated'[b].generation = allocated[b].generation]_vars

(* The runs whose last generation is in use. *)
Worn == {Granted(b) : b \in {c \in DOMAIN allocated : allocated[c].generation >= MaxGen}}

(* The allocator implements the promise of FrameGrants: its maps from base *)
(* to run, cut, merged and coalesced, are a set of disjoint grants, and a  *)
(* release gives all of a run's pages back, except in its last generation. *)
Grants == INSTANCE FrameGrants WITH
            pool <- FreePages,
            grants <- {Granted(b) : b \in DOMAIN allocated},
            known <- UNION {Span(r.base, r.pages) : r \in added},
            worn <- Worn

ImplementsGrants == Grants!Spec
=============================================================================
