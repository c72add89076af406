CONSTANTS
    c1 = c1
    c2 = c2
    core1 = core1
    irq = irq
    Char <- MCChar
    Blank = Blank
    Producer <- MCProducer
    N = 4
    Budget = 6
SPECIFICATION Spec
INVARIANTS NothingVanishes
CHECK_DEADLOCK FALSE
