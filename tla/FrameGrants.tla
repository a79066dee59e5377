----------------------------- MODULE FrameGrants -----------------------------
(***************************************************************************)
(* What a frame allocator promises: every page it was ever given is free,  *)
(* in exactly one live grant, or lost for good; a grant is made of free    *)
(* pages, split in two and joined again, and given back whole, unless it   *)
(* is worn: only then, and always then, its pages are lost.                *)
(***************************************************************************)
EXTENDS Integers

CONSTANT Frames

VARIABLES
  pool,    \* the free pages
  grants,  \* the live grants, each a set of pages
  known,   \* every page ever added
  worn     \* the live grants that are worn, whatever made them so

vars == <<pool, grants, known>>

Init == pool = {} /\ grants = {} /\ known = {}

Add(S) ==
  /\ S \cap known = {}
  /\ pool' = pool \cup S
  /\ known' = known \cup S
  /\ UNCHANGED grants

Grant(S) ==
  /\ S \subseteq pool
  /\ pool' = pool \ S
  /\ grants' = grants \cup {S}
  /\ UNCHANGED known

Return(S) ==
  /\ S \in grants /\ S \notin worn
  /\ pool' = pool \cup S
  /\ grants' = grants \ {S}
  /\ UNCHANGED known

Lose(S) ==
  /\ S \in grants /\ S \in worn
  /\ grants' = grants \ {S}
  /\ UNCHANGED <<pool, known>>

Split(S, T) ==
  /\ S \cap T = {}
  /\ S \cup T \in grants
  /\ grants' = (grants \ {S \cup T}) \cup {S, T}
  /\ UNCHANGED <<pool, known>>

Join(S, T) ==
  /\ S \in grants /\ T \in grants /\ S # T
  /\ grants' = (grants \ {S, T}) \cup {S \cup T}
  /\ UNCHANGED <<pool, known>>

Next ==
  \E S \in (SUBSET Frames) \ {{}} :
    \/ Add(S) \/ Grant(S) \/ Return(S) \/ Lose(S)
    \/ \E T \in (SUBSET Frames) \ {{}} : Split(S, T) \/ Join(S, T)

Spec == Init /\ [][Next]_vars
=============================================================================
