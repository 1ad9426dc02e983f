SPECIFICATION Spec
CONSTANTS
    Inputs <- AllInputs
    Codecs = {"gzip", "zstd", "xz", "lzma", "lz4", "bzip2"}
    MaxPieces = 3
    MaxOut = 5
    LZ4_LEGACY_BLOCK = 2
INVARIANTS WithinCap DecodesTheStream FailsForAReason
PROPERTIES Terminates
