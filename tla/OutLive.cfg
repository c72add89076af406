CONSTANTS
    Itf = {0, 1}
    N = 2
    OutEp = {1}
    Boot = {0}
    Sends <- MixedSends
    Block = 3
    Erase = 2
    Grace = 1
    EraseDev = 1
    XferMax = 1
    Budget = 2
    Plugs = 1
    MayCut = TRUE
    MayFail = TRUE
    MayWedge = TRUE
SPECIFICATION FairSpec
INVARIANTS HoldDiesWithKey
PROPERTIES Drains ThunkReturns
CHECK_DEADLOCK FALSE
