CONSTANTS
  Regions <- MCRegions
  Sizes = {1, 2, 3}
  Alignments = {1, 2}
  Borrowers = {w1}
  MaxGen = 2
SPECIFICATION HSpec
INVARIANT GenerationSafe
CHECK_DEADLOCK FALSE
