CONSTANTS
    Itf = {0, 1}
    N = 3
    OutEp = {}
    Boot = {0}
    Sends <- FlashSends
    Block = 8
    Erase = 6
    Grace = 1
    EraseDev = 5
    XferMax = 1
    Budget = 5
    Plugs = 0
    MayCut = FALSE
    MayFail = FALSE
    MayWedge = FALSE
SPECIFICATION Spec
INVARIANTS NoBlockLost QuietDuringErase InFlightIntact InFlightIsNew
CHECK_DEADLOCK FALSE
