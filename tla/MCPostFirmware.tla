---------------------------- MODULE MCPostFirmware ----------------------------
(* The boot processor and two APs, or one.  The APs are interchangeable.   *)
EXTENDS PostFirmware, TLC

ApSymmetry == Permutations(Aps)
=============================================================================
