CONSTANTS
    Limit = 3
    Setup = 1
    ColdOff = 3
    ColdBoot = 2
    ColdHold = 1
    DumpMax = 2
    Cmds = 1
    Boots = 2
    MayDump = TRUE
    MayWedge = TRUE
SPECIFICATION FairSpec
PROPERTIES EveryWedgeIsReset
CHECK_DEADLOCK FALSE
