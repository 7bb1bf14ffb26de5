SPECIFICATION Spec
CONSTANTS
    Total = 5
    PoolSize = 2
    BatchSize = 2
INVARIANTS BatchesDisjoint LeftoversNamed
PROPERTY BatchesEnd
CHECK_DEADLOCK FALSE
