SPECIFICATION MCSpec
CONSTANTS
  None = None
  MaxRecord = 3
  QueueLimit = 2
  MaxBoot = 2
  Troubles <- DisksOrDays
INVARIANTS
  
  NoFalseTampering
  UsageCountedOnce
  IndexFaithful
  StopKeepsRecords
  RotationFinished
  IdentityKept
PROPERTIES
  FinalAnchorComplete
  HeadsAreWitnessed
CHECK_DEADLOCK FALSE
