CONSTANTS
    m1 = m1
    m2 = m2
    Msg <- MCMsg
    Torn = Torn
    N = 4
SPECIFICATION Spec
INVARIANTS TypeOK NoSlotRace NeverTorn
PROPERTY RefinesFifo
