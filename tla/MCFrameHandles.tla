---------------------------- MODULE MCFrameHandles ----------------------------
(* Two adjacent regions, of two pages and of one, so that a free run can   *)
(* span them; the first starts at an odd page, so that an aligned request  *)
(* can leave both a prefix and a suffix.                                   *)
EXTENDS FrameHandles

MCRegions == {[base |-> 1, pages |-> 2], [base |-> 3, pages |-> 1]}
=============================================================================
