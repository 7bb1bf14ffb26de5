SPECIFICATION Spec
CONSTANTS
    RequestIDs = {"ra", "rb"}
    SeqNums = {1, 2, 3, 4}
    SortBuffer = 1
    Horizon = 2
    MaxReceipts = 4
    Stream = "stdout"
    StreamOf <- MCStreamOf
    Batches <- MCBatches
    FromFlag = 2
    ToFlag = 1
    SearchPadding = 1
    Published <- MCPublished
    Live = 2
    Faults <- FaultKinds
    MaxFaults = 2
INVARIANTS NoBatchSkipped LogsConserved
PROPERTY TailEnds
CHECK_DEADLOCK FALSE
