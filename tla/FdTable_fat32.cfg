CONSTANTS
    f1 = f1
    f2 = f2
    FD_MAX = 2
    FsKind = "FAT32"
    IoFails = FALSE
    Files = {f1, f2}
    FileSize <- MCFileSize
    Values = {v1, v2}
    PseudoText = {}
    TextLen = 1
    PseudoStream = {}
    PseudoUnknown = {}
    Buffers = {b1, b2}
    NULL = NULL
    NoPath = NoPath
    SOCK_BUF = 1
    BRK_ARENA = 0
    OffModulus = 2
    MaxWant = 1
SYMMETRY DataSymmetry
SPECIFICATION FdSpec
PROPERTY CloseFlushes
