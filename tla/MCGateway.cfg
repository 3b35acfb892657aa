SPECIFICATION MCSpec
CONSTANTS
    Requests = {r1, r2, r3}
    Worlds <- MCWorlds
    Lineage <- MCLineage
    Order <- MCOrder
    Threshold = 1
    BaseBackoff = 1
    MaxBackoff = 2
    MaxAffinityEntries = 1
    MaxPinCount = 3
SYMMETRY Symmetry
CONSTRAINT Focus
CHECK_DEADLOCK FALSE
INVARIANTS
    AttemptsPermitted
    PermitsFinishOnce
    
    ServedIsStored
PROPERTY
    StaleNeverOverwrites
