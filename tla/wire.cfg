SPECIFICATION FairSpec
CONSTANTS
    Wire <- AllRecords
    Stray = {0, 90}
    Payloads = {5, 32768, 65536}
    ValueLen = 1
    MaxSent = 3
    MaxOut = 1
INVARIANTS
    TypeOK
    InSync
    RefusedRightly
    Framed
PROPERTY
    RecordParsed
CHECK_DEADLOCK FALSE
