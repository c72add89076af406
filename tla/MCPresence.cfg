CONSTANTS
    app = app
    boot = boot
    wide = wide
    Key <- MCKey
    Width <- MCWidth
    None = None
    Slots = 3
    Swaps = 3
SPECIFICATION FairSpec
INVARIANTS MirrorsAtRest OneDevice NeverChangeUnderneath PartialIsCounted
PROPERTIES BecomesVisible
CHECK_DEADLOCK FALSE
