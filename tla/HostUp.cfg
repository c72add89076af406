CONSTANTS
    Itfs = 2
    Addrs = 3
    Retries = 1
    Moves = 2
    Cuts = 1
    Faults = 2
    None = None
SPECIFICATION FairSpec
INVARIANTS BusyIsPending ControlMoves NothingStale
PROPERTIES RefinesApi Enumerates
CHECK_DEADLOCK FALSE
