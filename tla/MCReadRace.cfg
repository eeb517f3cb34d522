CONSTANTS
    t1 = t1
    t2 = t2
    t3 = t3
    NoTurn = NoTurn
    Turns <- TwoTurns
    Operations <- Settle
    MaxSaves = 3
SPECIFICATION ReadsSpec
SYMMETRY Symmetry
INVARIANT
    UnavailableOnlyIfUnreadable
CHECK_DEADLOCK FALSE
