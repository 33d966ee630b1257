SPECIFICATION Spec
CONSTANTS
    Rid = {r1, r2}
    NullRid = NullRid
    MaxChunk = 1
    MaxPending = 1
INVARIANT
    NoUseAfterDestroy
CHECK_DEADLOCK FALSE
