CONSTANTS
  Regions <- MCRegions
  Sizes = {1, 2, 3}
  Alignments = {1, 2}
  Borrowers = {w1}
  MaxGen = 2
SPECIFICATION HSpec
INVARIANTS
  FullyCoalesced
  NoHandleRevives
PROPERTIES
  LoanHoldsRun
  ImplementsGrants
CHECK_DEADLOCK FALSE
