SPECIFICATION Safety
CONSTANTS
    MaxFaults = 0
    Timeout = 2
INVARIANT NoDanglingID
CHECK_DEADLOCK FALSE
