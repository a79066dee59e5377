CONSTANTS
  VirtualEnd = 5
  Canonical = {0, 1, 3, 4}
  PageSizes = {1, 2}
  FrameCaps <- MCFrameCaps
  Permissions = {{"READ", "WRITE"}, {"READ", "USER"}, {"READ", "WRITE", "USER"}}
  MapCpus = {cpu1}
  MaxMapEpoch = 3
  WindowLen = 1
  NoMapping = NoMapping
  PhysicalEnd = 4
  Bytes = {0, 1}
  Buffers <- MCBuffers
  MaxCopies = 2
  MaxRemaps = 2
  Contexts = {x1, x2}
  Registers = {r1, r2}
  Created = r1
  MaxContextGen = 2
  IrqCpus = {cpu1, cpu2}
  IrqVectors = {32, 33}
  MaxIrqGen = 2
  DmaSlots = {s1, s2}
  Requests <- MCRequests
  Domains <- MCDomains
  DeviceAddresses = {"in", "out", "high"}
  Aperture = {"in"}
  MaxDmaGen = 1
  BusEnd = 4
  PortEnd = 4
  Widths = {1, 2, 4}
  WidestPort = 2
  ByteValues = 2
  BusCaps <- MCCaps
  BusValues = {1, 2, 7}
  MaxBarriers = 1
  HeapCpus = {cpu1, cpu2}
  HEAP_PAGES = 3
  HeapSizes = {1, 2}
  SyncCpus = {cpu1, cpu2, cpu3}
  Participants = {cpu1, cpu2, cpu3}
  Capacity = 2
  OnceValues = {r1, r2}
  Unset = Unset
  MaxTicket = 3
  MaxPushes = 2
  MaxBarrierGen = 2
  Cells = {k1, k2}
  Orderings = {"Relaxed", "Acquire", "Release", "SeqCst"}
  Initials = {0}
  Stored = {1}
  ValueLimit = 2
  MaxTrace = 3
  CellWidths <- MCCellWidths
  WordLimit = 8
  CellCaps <- MCCaps
  MaxOrder = 2
  StorageValues = {0, 1}
  StorageKeys = {1, 2, 3}
  StorageN = 3
  WORDS = 2
  WordBits = 2
SPECIFICATION Spec
INVARIANTS
  TranslationsSound
  ResumesOnce
  SectionsEndOnce
  BlocksExclusive
  NullMeansContention
  NothingLost
  NarrowAgrees
PROPERTIES
  EpochMarksChange
  CopyAllOrNothing
  AccessesWhole
  ImplementsContainers
  DeviceOwnershipHolds
  LoadsCoherent
CHECK_DEADLOCK FALSE
