----------------------------- MODULE FrameHandles -----------------------------
(***************************************************************************)
(* FrameAllocator with a history: the handles callers still hold after the *)
(* run they named was released or lent or reclaimed.  A handle that a      *)
(* split or join replaced is not among them: the opposite operation brings *)
(* it back by design.                                                      *)
(***************************************************************************)
EXTENDS FrameAllocator

VARIABLES
  retired,  \* the handles that were consumed
  recut     \* whether a run was ever split or joined

(* The part of a FrameRun that validate compares. *)
Handle(run) == [base |-> run.base, pages |-> run.pages, generation |-> run.generation]

Live == {Handle(allocated[b]) : b \in DOMAIN allocated}

(* The live handles whose pages a step frees or whose generation it moves. *)
Consumed ==
  {h \in Live : \/ h.base \in FreePages'
                \/ /\ h.base \in DOMAIN allocated'
                   /\ allocated'[h.base].generation # h.generation}

HInit == Init /\ retired = {} /\ recut = FALSE

HNext ==
  /\ \/ Ordinary /\ UNCHANGED recut
     \/ Recut /\ recut' = TRUE
  /\ retired' = retired \cup Consumed

HSpec == HInit /\ [][HNext]_<<vars, retired, recut>>

(* A handle that release, lend or reclaim has consumed is never accepted   *)
(* by validate again, as long as no run was split or joined.               *)
NoHandleRevives == ~recut => Live \cap retired = {}

(* The lifecycle is generation-safe: a consumed handle is never accepted   *)
(* again at all.  split_allocated gives its right half the generation of   *)
(* the whole run, which may be one that was used at that base before.      *)
GenerationSafe == Live \cap retired = {}
=============================================================================
