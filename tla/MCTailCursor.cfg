SPECIFICATION MCSpec
CONSTANTS
    Settle = 2
    Floor = 3
    HasIdColumn = TRUE
    Delay = 1
    Span = 0
    MaxTime = 4
    MaxId = 2
    MaxGen = 1
    MaxFaults = 1
INVARIANTS
    TypeOK
    Accounted
PROPERTIES
    ImplementsCounting
    RowReached
CHECK_DEADLOCK FALSE
