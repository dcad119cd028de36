SPECIFICATION Spec

CONSTANTS
    MAX_BLOCKS = 4
    BLOCK_SIZE = 2
    x = x
    y = y
    Byte <- MCByte
    Frames <- MCFrames

INVARIANTS
    TypeOK
    ExtentsDisjoint
    MapExact
    WithinCapacity

PROPERTIES
    StoredSpec
