SPECIFICATION AbandonedSpec
CONSTANTS
    NoRequest = NoRequest
    Requests <- MCRequests
    MaxCrashes = 1
    MaxStalls = 0
INVARIANTS
    MutualExclusion
CHECK_DEADLOCK FALSE
