SPECIFICATION Spec
CONSTANTS
  None = None
  MaxRecord = 3
  QueueLimit = 2
  MaxBoot = 2
  Troubles <- BadWal
INVARIANTS
  HeadNotTorn
CHECK_DEADLOCK FALSE
