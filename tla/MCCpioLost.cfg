SPECIFICATION Spec
CONSTANTS
    Images <- ReplaceImages
    HEADER = 4
    MAX_BOOT_FILE_BYTES = 40
INVARIANTS EveryRecordInTree
