CONSTANTS
  Bsp = bsp
  Aps = {ap1, ap2}
  POST_TASKS = 4
  Timeouts = TRUE
  Speculates = {bsp, ap1, ap2}
  MayFail = {ap1, ap2}
SPECIFICATION Spec
SYMMETRY ApSymmetry
INVARIANTS
  MutualExclusion
  OldTranslationGone
  CountersExact
  NoTimerLost
CHECK_DEADLOCK FALSE
