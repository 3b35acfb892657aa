SPECIFICATION MCSpec
CONSTANTS
    Worlds <- MCWorlds
    Attempts <- MCAttempts
    Scale = 2
    Window = 1
    MaxInt64 = 13
    NoBudget = NoBudget
    NoPermit = NoPermit
    NoGrant = NoGrant
    r1 = r1
    r2 = r2
SYMMETRY Symmetry
CHECK_DEADLOCK FALSE
INVARIANTS
    
    BooksExact
    LimitsBind
PROPERTIES
    CommitsWithinLimits
    BudgetPromise
