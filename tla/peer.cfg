SPECIFICATION PeerFairSpec
CONSTANTS
    Rid = {r1, r2}
    NullRid = NullRid
    MaxChunk = 2
    MaxPending = 1
    MaxFlight = 2
INVARIANTS
    PeerTypeOK
    NothingStale
    OneRequest
    NoInputLost
PROPERTIES
    ImplementsConn
    RequestAnswered
    GoneReleases
CHECK_DEADLOCK FALSE
