SPECIFICATION OutputSpec
CONSTANTS
    RequestIDs = {"ra", "rb"}
    SeqNums = {1, 2, 3, 4}
    SortBuffer = 1
    Horizon = 3
    MaxReceipts = 3
    Stream = "stdout"
    Batches <- MCBatchSet
    StreamOf <- MCStreamOf
INVARIANTS OutputTypeOK OneTimerPerRequest NoLogStranded NoLogOverstays
PROPERTIES ImplementsSortBuffer EveryLogLeaves
CHECK_DEADLOCK FALSE
