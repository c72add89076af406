CONSTANTS
    k1 = k1
    k2 = k2
    Itf <- MCItf
    N = 3
    Reports = 3
    Plugs = 1
    None = None
SPECIFICATION FairSpec
INVARIANTS TypeOK NoInDrop
PROPERTIES InOrder KeepsAsking Forwarded
CHECK_DEADLOCK FALSE
