CONSTANTS
    t1 = t1
    t2 = t2
    d1 = d1
    d2 = d2
    d3 = d3
    web = web
    cli = cli
    NoTurn = NoTurn
    Turns <- MCTurns
    Dispatchers <- OneDispatcher
    Consumers <- OneConsumer
    ConsumerOf <- SingleConsumer
    ReceiptLimit = 1
    BatchSize = 2
    MaxEvents = 3
    MaxFaults = 2
SPECIFICATION Spec
SYMMETRY Symmetry
INVARIANTS
    JournalOK
    NothingIsLostOrReturns
    SequencesIncrease
CHECK_DEADLOCK FALSE
