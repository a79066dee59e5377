SPECIFICATION FairSpec
CONSTANTS
  Cpus = {0, 1, 2}
  Tasks = {t1, t2, t3}
  None = None
INVARIANTS
  QueuesAgree
  LostOnlyByOverflow
  WorkConserving
PROPERTY RunnableRuns
CHECK_DEADLOCK FALSE
