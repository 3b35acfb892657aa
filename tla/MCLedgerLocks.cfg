SPECIFICATION Spec
SYMMETRY Symmetry
CONSTANTS
  Replicas = {r1, r2}
  MaxInt64 = 5
  MaxKey = 1
  MaxWindow = 1
  MaxRequest = 2
  MaxBoot = 2
  BootOf <- EachBoots
  NodeOf <- TwoNodes
  Definitions <- LockDefinitions
  Wants = {1}
  Reports <- LockReports
  Meters = {}
  NoBudget = NoBudget
  NoRow = NoRow
  NoAccount = NoAccount
  NoDraft = NoDraft
INVARIANTS NoDeadlock
PROPERTIES IssuesWithinLimit
CHECK_DEADLOCK FALSE
