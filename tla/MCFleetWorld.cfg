SPECIFICATION Spec
CONSTANTS
  MaxInt64 = 100
  NoBudget = NoBudget
  None = None
  Files = {f1, f2}
  MaxKey = 1
  MaxWindow = 1
  WindowLength = 2
  Lease = 3
  MaxBoot = 3
  MaxRequest = 2
  MaxPermit = 2
  CompletedLimit = 1
  ReceiptLimit = 1
  ObsoleteLimit = 1
  Scenarios <- ManyNodes
SYMMETRY FileSymmetry
INVARIANTS
  SpendWithinLimit
  
CHECK_DEADLOCK FALSE
