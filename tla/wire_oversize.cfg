SPECIFICATION Spec
CONSTANTS
    Wire <- RequestRecords
    Stray = {0}
    Payloads = {5, 32769}
    ValueLen = 1
    MaxSent = 1
    MaxOut = 1
INVARIANT
    OversizeDiscarded
CHECK_DEADLOCK FALSE
