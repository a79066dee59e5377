SPECIFICATION Spec
CONSTANTS
  Cpus = {0, 1}
  Tasks = {t1, t2}
  None = None
INVARIANT InvariantHolds
CHECK_DEADLOCK FALSE
