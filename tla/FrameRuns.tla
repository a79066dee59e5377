------------------------------ MODULE FrameRuns ------------------------------
(***************************************************************************)
(* The pure part of kernel/src/frame.rs: runs of pages, maps from the base *)
(* of a run to what is recorded of it, coalescing and alignment.           *)
(***************************************************************************)
EXTENDS Integers, FiniteSetsExt

Span(base, pages) == base..(base + pages - 1)

NoEntries == [b \in {} |-> 0]

With(f, b, v) == [x \in DOMAIN f \cup {b} |-> IF x = b THEN v ELSE f[x]]

Without(f, b) == [x \in DOMAIN f \ {b} |-> f[x]]

(* coalesce: in ascending order, an entry that starts where the last kept  *)
(* one ends extends it.  The fold takes the largest base away last.        *)
KeepEntry(f, kept, base) == With(kept, base, f[base])

MergeEntry(f, kept, base) ==
  LET last == Max(DOMAIN kept)
  IN IF DOMAIN kept # {} /\ last + kept[last] = base
       THEN With(kept, last, kept[last] + f[base])
       ELSE With(kept, base, f[base])

coalesce(f) ==
  MapThenFoldSet(LAMBDA base, kept : MergeEntry(f, kept, base), NoEntries,
                 LAMBDA base : base, Max, DOMAIN f)

AlignDown(b, alignment) == (b \div alignment) * alignment

AlignUp(b, alignment) == ((b + alignment - 1) \div alignment) * alignment
=============================================================================
