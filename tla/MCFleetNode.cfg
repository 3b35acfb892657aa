SPECIFICATION Spec
CONSTANTS
  MaxInt64 = 3
  NoBudget = NoBudget
  None = None
  Files = {f1}
  MaxKey = 2
  MaxWindow = 0
  WindowLength = 9
  Lease = 5
  MaxBoot = 2
  MaxRequest = 2
  MaxPermit = 2
  CompletedLimit = 1
  ReceiptLimit = 1
  ObsoleteLimit = 1
  Scenarios <- OneNode
INVARIANTS
  JournalSound
  LiabilityCovered
  SyncNeverWedges
  KnownCostsKept
CHECK_DEADLOCK FALSE
