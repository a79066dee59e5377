--------------------------- MODULE MCActionExecutor ---------------------------
(* Two kinds that share a slot number; an access that fits the granted     *)
(* range, one that runs past it, one of a width the bus does not have, and *)
(* an interrupt acknowledgement, which needs a single unit.  The second    *)
(* range of a root would run past MaxAddr.                                 *)
EXTENDS ActionExecutor

MCRanges == {[base |-> 0, len |-> 2], [base |-> 3, len |-> 2]}

Op(t, at, len) == [type |-> t, at |-> at, len |-> len]

MCActions ==
  {Op("AckIrq", 1, 0), Op("MmioRead", 0, 2), Op("MmioRead", 1, 2), Op("MmioRead", 0, 3)}
=============================================================================
