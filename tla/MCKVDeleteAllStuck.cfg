SPECIFICATION Spec
CONSTANTS
    Keys = {k1, k2, k3, k4, k5}
    Workers = {w1, w2}
    MaxErrors = 1
    QueueCap = 1
    PageSize = 2
PROPERTY Stops
CHECK_DEADLOCK FALSE
