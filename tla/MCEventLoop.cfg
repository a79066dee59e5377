CONSTANTS
  CpuIds = {c1, c2}
  Kinds = {"Timer", "ShutdownRequest", "Irq", "DmaComplete"}
  Actions = {"PowerOff", "SubmitDma"}
  Vectors = {32}
  NoCpu = NoCpu
  MaxEvent = 3
  MaxAction = 1
  MaxCount = 1
SPECIFICATION LoopSpec
INVARIANTS
  ActsAtMostOnce
  InOrderNeverStale
CHECK_DEADLOCK FALSE
