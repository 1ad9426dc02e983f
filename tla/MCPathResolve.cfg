SPECIFICATION Spec
CONSTANTS
    r = r
    d = d
    f = f
    x = x
    y = y
    NoTarget = NoTarget
    NotUtf8 = NotUtf8
    Trees <- AllTrees
    Paths <- AllPaths
    MAX_SYMLINKS = 2
    MAX_BOOT_FILE_BYTES = 4
INVARIANTS TypeOK NeverOnSymlink ResolveIsSubstitution ReadIsPrefix ReadIsWhole
PROPERTIES Terminates
