SPECIFICATION Spec
CONSTANTS
  None = None
  MaxRecord = 3
  QueueLimit = 2
  MaxBoot = 2
  Troubles <- SinkBehind
INVARIANTS
  RestartKeepsRecords
CHECK_DEADLOCK FALSE
