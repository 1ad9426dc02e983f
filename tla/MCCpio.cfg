SPECIFICATION Spec
CONSTANTS
    Images <- AllImages
    HEADER = 4
    MAX_BOOT_FILE_BYTES = 40
INVARIANTS SpansInBuffers BudgetExact IsATree LastFileWins TreeIsTheRecords
PROPERTIES Opens
