SPECIFICATION Spec
CONSTANTS
  MAX_CPUS = 3
  SCHED_TASKS = 4
  WORK_PER_CPU = 2
  ManyCpus = 3
  Topologies <- MCTopologies
  FwCfgs <- MCFwCfgs
  U32_MAX = 25
  EntriesMax = 3
  FileMax = 4
  DigitsMax = 2
  PowerMax = 3
  MaxTicks = 4
  QueueSizes = {2, 3, 256, 257}
  FirmwareSeen = {0, 1, 2}
  MaxInterrupts = 3
  MemoryEnd = 7
  Contents <- MCContents
  CpuIds = {c1, c2}
  MaxIpi = 1
  MaxEpoch = 2
INVARIANTS
  BootVerdict
  StartsWithOwnMachine
  RequestOwnedByOne
  KernelStackPrivate
  UserRunExact
  MoveIsCopy
PROPERTIES
  FirmwareOnlyWhileLive
  BootEnds
  ShootdownsDrain
CHECK_DEADLOCK FALSE
