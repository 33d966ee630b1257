SPECIFICATION FairSpec
CONSTANTS
    Conn = {c1, c2, c3}
    MaxHolders = 2
INVARIANTS
    TypeOK
    RefsCounted
    AppLifetime
    ThreadsCounted
    ListeningOwned
PROPERTY
    LastUserFrees
CHECK_DEADLOCK FALSE
