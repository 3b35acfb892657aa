SPECIFICATION FairSpec
CONSTANTS
  MaxInt64 = 100
  NoBudget = NoBudget
  None = None
  Files = {f1}
  MaxKey = 1
  MaxWindow = 0
  WindowLength = 9
  Lease = 1
  MaxBoot = 1
  MaxRequest = 1
  MaxPermit = 1
  CompletedLimit = 1
  ReceiptLimit = 1
  ObsoleteLimit = 1
  Scenarios <- Losses
PROPERTIES
  EscrowReturns
CHECK_DEADLOCK FALSE
