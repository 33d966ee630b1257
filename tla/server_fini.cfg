SPECIFICATION Spec
CONSTANTS
    Conn = {c1, c2, c3}
    MaxHolders = 2
INVARIANT
    FiniAppRuns
CHECK_DEADLOCK FALSE
