CONSTANTS
    Limit = 4
    Setup = 1
    ColdOff = 4
    ColdBoot = 2
    ColdHold = 1
    DumpMax = 2
    Cmds = 3
    Boots = 2
    MayDump = TRUE
    MayWedge = TRUE
SPECIFICATION FairSpec
INVARIANTS OnlyWedgesReset WedgeFoundInTime
PROPERTIES WedgeIsReset
CHECK_DEADLOCK FALSE
