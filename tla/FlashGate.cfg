CONSTANTS
    Events = 5
    Resets = 1
    Blocks = 3
    Every = 2
    Slots = 1
    Faults = 2
    None = None
SPECIFICATION FairGateSpec
INVARIANTS DropStaysVisible KnownLanded NoFalseAlarm
PROPERTIES LossEndsIt
CHECK_DEADLOCK FALSE
