SPECIFICATION Spec

CONSTANTS
    Address = {a1, a2, a3}
    FANET_MAX_NEIGHBORS = 2
    NEIGHBOR_MAX_TIMEOUT_MS = 2
    TICK_MOD = 8
    BootTicks <- MCBootTicks
    MAX_TIME = 6

INVARIANTS
    TypeOK
    EntriesAreCurrent
    CleanupIsExact

PROPERTIES
    EvictsLeastRecent
