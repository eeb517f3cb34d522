SPECIFICATION FocusedSpec
CONSTANTS
    s1 = s1
    s2 = s2
    s3 = s3
    NoScope = NoScope
    Scopes <- MCScopes
    ReceiptLimit = 2
    MaxSequence = 10
    MaxMessages = 4
SYMMETRY Symmetry
INVARIANTS
    TypeOK
    OpenTurnIsActive
    RecordIntegrity
    ReplacedNeverMaterialized
    ReceiptsMatchTurns
    ActiveTurnCanSettle
    ContinuationRelation
PROPERTIES
    DeletedNeverRecreated
    StopIsFinal
    SettledIsImmutable
    UserMessagesMoveVersion
CHECK_DEADLOCK FALSE
