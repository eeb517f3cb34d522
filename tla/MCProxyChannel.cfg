SPECIFICATION FocusedFair
CONSTANTS
    s1 = s1
    s2 = s2
    NoSocket = NoSocket
    Sockets <- MCSockets
    MaxAttempts = 2
    MaxWindow = 3
    TerminalLimit = 1
    MaxTurns = 2
    MaxEvents = 4
    MaxRequests = 2
    MaxCommands = 2
    MaxFaults = 1
INVARIANTS
    SubscribersOK
    CompletedMeansCurrent
PROPERTIES
    SilenceHasReason
    NoFrameGoesBack
    QueriesLeaveRunsAlone
    NothingHangs
CHECK_DEADLOCK FALSE
