CONSTANTS
    t1 = t1
    t2 = t2
    d1 = d1
    d2 = d2
    d3 = d3
    web = web
    cli = cli
    NoTurn = NoTurn
    Turns <- OneTurn
    Dispatchers <- MCDispatchers
    Consumers <- MCConsumers
    ConsumerOf <- MCConsumerOf
    ReceiptLimit = 2
    BatchSize = 2
    MaxEvents = 2
    MaxFaults = 0
SPECIFICATION Spec
SYMMETRY Symmetry
INVARIANTS
    SentInOrder
    AttemptsAreKept
    RemovedTurnsAreSilent
CHECK_DEADLOCK FALSE
