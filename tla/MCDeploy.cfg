SPECIFICATION Spec
CONSTANTS
    MaxFaults = 3
    Timeout = 2
INVARIANTS DeployTypeOK SuccessServesPackage FailureCleansUp 
PROPERTIES ExistingKept Ends
CHECK_DEADLOCK FALSE
