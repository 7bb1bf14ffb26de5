SPECIFICATION UploadSpec
CONSTANTS
    Files = {f1, f2, f3, f4}
    Concurrency = 2
INVARIANTS EveryFileTold
PROPERTY UploadEnds
CHECK_DEADLOCK FALSE
