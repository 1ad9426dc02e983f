SPECIFICATION MCSpec
CONSTANTS
    Images <- TamperedImages
    Names <- AllNames
    Offsets = {0}
    Lengths = {1}
    MAX_BOOT_FILE_BYTES = 25
    MaxCalls = 3
    MaxCallsDamaged = 2
    MAX_BLOCK_SIZE = 3
    FRAGS_PER_BLOCK = 3
    NO_FRAGMENT = 99
    MAX_LINK_HOPS = 2
    MAX_ENTRIES = 12
    PAGE = 3
    ROOT_INODE_OFF = 1
    SECTOR = 6
    AVDP_SECTOR = 1
    MAX_VDS_SECTORS = 4
    ADDRESSES = 64
    FID_ALIGN = 2
    VD_REGION_OFFSET = 6
    VD_SIZE = 6
    MAX_VD_SCAN = 5
    MAX_CONTINUATIONS = 2
    MAX_EXTENTS = 2
    U32 = 64
    SUPER_OFFSET = 1
    NID_LIMIT = 64
INVARIANT SurfacedIsGenuine
