CONSTANTS
    t1 = t1
    t2 = t2
    h1 = h1
    h2 = h2
    c1 = c1
    c2 = c2
    NoTurn = NoTurn
    NoRun = NoRun
    NoConn = NoConn
    Client = Client
    Turns <- OneTurn
    Resends <- NoResends
    Handlers <- OneHandler
    Conns <- OneConn
    Commands <- OneCommand
    MaxMishaps = 0
SPECIFICATION UndisturbedSpec
INVARIANT
    StopIsHonoured
CHECK_DEADLOCK FALSE
