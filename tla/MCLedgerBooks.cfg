SPECIFICATION Spec
CONSTANTS
  Replicas = {r1}
  MaxInt64 = 5
  MaxKey = 1
  MaxWindow = 0
  MaxRequest = 2
  MaxBoot = 2
  BootOf <- EachBoots
  NodeOf <- OneNode
  Definitions <- HardAndSoft
  Wants = {1}
  Reports <- ManyReports
  Meters <- ManyMeters
  NoBudget = NoBudget
  NoRow = NoRow
  NoAccount = NoAccount
  NoDraft = NoDraft
INVARIANTS TypeOK LedgerExact ConsumedIsEncumbered
PROPERTIES IssuesWithinLimit RefundsOnce 
CHECK_DEADLOCK FALSE
CONSTRAINT GrantsOrMeters
