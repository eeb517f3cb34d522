CONSTANTS
    t1 = t1
    t2 = t2
    t3 = t3
    NoTurn = NoTurn
    Turns <- MCTurns
    Operations <- AllOperations
    MaxSaves = 5
SPECIFICATION Spec
SYMMETRY Symmetry
INVARIANTS
    ManifestOK
    NoOrphans
PROPERTIES
    CommittedReads
    JournalIdentity
    SnapshotsAreImmutable
    OnlyRewriteBreaks
CHECK_DEADLOCK FALSE
