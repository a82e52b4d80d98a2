CONSTANTS
    f1 = f1
    f2 = f2
    FD_MAX = 2
    FsKind = "EXT"
    IoFails = TRUE
    Files = {f1, f2}
    FileSize <- MCFileSize
    Values = {v1, v2}
    PseudoText = {version}
    TextLen = 1
    PseudoStream = {zero}
    PseudoUnknown = {nothing}
    Buffers = {b1, b2}
    NULL = NULL
    NoPath = NoPath
    SOCK_BUF = 1
    BRK_ARENA = 1
    OffModulus = 2
    MaxWant = 2
SYMMETRY DataSymmetry
SPECIFICATION FdSpec
INVARIANTS FdTypeOK HeapIsOwned OffsetsInBuffer FilesKeepTheirBytes
PROPERTY OnlyWritersFlush
