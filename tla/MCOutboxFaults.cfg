CONSTANTS
    t1 = t1
    t2 = t2
    d1 = d1
    d2 = d2
    d3 = d3
    web = web
    cli = cli
    NoTurn = NoTurn
    Turns <- OneTurn
    Dispatchers <- OneDispatcher
    Consumers <- OneConsumer
    ConsumerOf <- SingleConsumer
    ReceiptLimit = 2
    BatchSize = 2
    MaxEvents = 3
    MaxFaults = 1
SPECIFICATION Spec
SYMMETRY Symmetry
INVARIANTS
    RemovedTurnsAreSilent
CHECK_DEADLOCK FALSE
