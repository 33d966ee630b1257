SPECIFICATION Spec
CONSTANTS
    Rid = {r1, r2}
    NullRid = NullRid
    MaxChunk = 2
    MaxPending = 1
PROPERTY
    OthersInputKept
CHECK_DEADLOCK FALSE
