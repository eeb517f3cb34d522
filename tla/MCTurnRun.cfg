CONSTANTS
    t1 = t1
    t2 = t2
    h1 = h1
    h2 = h2
    c1 = c1
    c2 = c2
    NoTurn = NoTurn
    NoRun = NoRun
    NoConn = NoConn
    Client = Client
    Turns <- MCTurns
    Resends <- MCResends
    Handlers <- MCHandlers
    Conns <- MCConns
    Commands <- MCCommands
    MaxMishaps = 1
SPECIFICATION FairSpec
INVARIANTS
    TypeOK
    RunsAreRegistered
    AgentsWorkOnOpenTurns
PROPERTIES
    EveryTurnSettles
    ConnectionsAreFreed
CHECK_DEADLOCK FALSE
