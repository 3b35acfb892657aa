SPECIFICATION MCSpec
CONSTANTS
  MaxInt64 = 999999
  MaxRules = 3
  Worlds <- LocalWorlds
  Bases <- LocalBases
  Leases <- LocalLeases
  Teams = {"t1", "t2"}
  Users = {"u1"}
INVARIANTS
  
  AppliedIsEnforced
  StoreHonoured
  
PROPERTIES
  TierMonotone
  Converges
CHECK_DEADLOCK FALSE
