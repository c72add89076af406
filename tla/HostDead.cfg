CONSTANTS
    Itfs = 1
    Addrs = 2
    Retries = 1
    Moves = 0
    Cuts = 1
    Faults = 0
    None = None
SPECIFICATION FairSpec
PROPERTIES ReEnumerates
CHECK_DEADLOCK FALSE
