SPECIFICATION Spec
CONSTANTS
    Keys = {k1, k2, k3, k4}
    Workers = {w1, w2}
    MaxErrors = 1
    QueueCap = 2
    PageSize = 2
INVARIANTS TypeOK NoKeyForgotten CompleteListingEmpties NoFailureHidden
PROPERTY StopsWithAWorker
CHECK_DEADLOCK FALSE
