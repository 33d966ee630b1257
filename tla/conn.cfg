SPECIFICATION FairSpec
CONSTANTS
    Rid = {r1, r2}
    NullRid = NullRid
    MaxChunk = 2
    MaxPending = 2
INVARIANTS
    TypeOK
    TableOpen
    CallbackTarget
    AnsweredOnce
    PendingOwned
    RewindLosesNothing
    ClosingQuiet
    NoDoubleDestroy
PROPERTIES
    ImplementsLife
    CompletedIsReleased
    HangUpEnds
CHECK_DEADLOCK FALSE
