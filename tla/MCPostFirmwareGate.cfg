CONSTANTS
  Bsp = bsp
  Aps = {ap1, ap2}
  POST_TASKS = 4
  Timeouts = FALSE
  Speculates = {}
  MayFail = {}
SPECIFICATION Spec
INVARIANT GateWaitsForAll
CHECK_DEADLOCK FALSE
