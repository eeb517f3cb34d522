SPECIFICATION FairAbandonedSpec
CONSTANTS
    NoRequest = NoRequest
    Requests <- MCRequests
    MaxCrashes = 2
    MaxStalls = 1
INVARIANTS
    TypeOK
    ExclusiveUnlessOverlooked
    ServedInOrder
PROPERTIES
    EveryWaiterIsServed
CHECK_DEADLOCK FALSE
