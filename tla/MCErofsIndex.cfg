SPECIFICATION Spec
CONSTANTS
    Indexes <- MCIndexes
    Clusters = {0, 1, 2, 3, 5, 7, 16, 17, 18, 22, 23, 24, 34, 50}
    Bases = {8, 16, 24, 32}
    ADDR_BITS = 16
    MAX_BOOT_FILE_BYTES = 100
INVARIANTS FindsThePclusters RefusedForAReason
PROPERTIES WalkReturns
CHECK_DEADLOCK FALSE
