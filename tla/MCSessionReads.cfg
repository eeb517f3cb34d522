CONSTANTS
    t1 = t1
    t2 = t2
    t3 = t3
    NoTurn = NoTurn
    Turns <- MCTurns
    Operations <- AppendAndRemove
    MaxSaves = 4
SPECIFICATION ReadsSpec
INVARIANTS
    ReadsAreSnapshots
PROPERTIES
    SavesAreAtomic
CHECK_DEADLOCK FALSE
