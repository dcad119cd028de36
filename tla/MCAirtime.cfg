SPECIFICATION Spec
CONSTANTS
    TICK_MOD = 13
    WORD = 16001
    WINDOW = 10
    FrameTimes <- MCFrameTimes
    LONGEST = 3
    BootClocks <- MCBootClocks
    MAX_CLOCK = 17
INVARIANTS
    TypeOK
    NeverUnderestimates
CHECK_DEADLOCK FALSE
