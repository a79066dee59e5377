SPECIFICATION Spec
CONSTANTS
  Kinds = {"Irq", "Mmio"}
  SlotIds = {1}
  Owners = {o1, o2}
  Rights = {"CONTROL", "READ"}
  Ranges <- MCRanges
  MaxAddr = 4
  MaxGen = 2
  NoRecord = NoRecord
  Actions <- MCActions
  MaxAuthorized = 2
INVARIANT StampDetectsStaleness
PROPERTY StaleNeverRevives
CHECK_DEADLOCK FALSE
