CONSTANTS
    AutoAfter = 3
    Grace = 5
    BackoffMax = 6
    ResetAfter = 2
    MaxResets = 3
    OffTime = 1
    TapTime = 1
    ColdTime <- ColdTimes
    Keys = {"p", "0", "1", "b", "B", "G", "g", "A", "R", "button"}
    Presses = 2
    Moves = 1
SPECIFICATION FairSpec
INVARIANTS ResetsBounded
PROPERTIES GraceGiven SilenceActedOn OffStaysOff ContactReleased PowerReturns
CHECK_DEADLOCK FALSE
