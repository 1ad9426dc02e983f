SPECIFICATION Spec
CONSTANTS
    Sizes = {0, 1, 2, 3, 4, 5, 7}
    NULL_BLKADDR = 99
    Volumes <- ShortVolumes
    Genuine <- ShortGenuine
    Calls <- MCCalls
    MaxCalls = 2
    MAX_BOOT_FILE_BYTES = 6
    MAX_DECOMPRESSED_BLOCK_BYTES = 2
INVARIANTS DecodesToOutlen
CHECK_DEADLOCK FALSE
