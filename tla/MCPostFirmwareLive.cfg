CONSTANTS
  Bsp = bsp
  Aps = {ap1}
  POST_TASKS = 4
  Timeouts = TRUE
  Speculates = {bsp, ap1}
  MayFail = {ap1}
SPECIFICATION FairSpec
PROPERTY RunReturns
CHECK_DEADLOCK FALSE
