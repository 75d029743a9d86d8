SPECIFICATION Spec
CONSTANTS
    Paths = {p1, p2}
    Handles = {h1, h2}
    MaxFd = 4
    IntMax = 7
    OffMax = 3
    FileSizes = {0, 1, 2}
    SeedSizes = {2}
    WriteSizes = {1}
    Offsets = {1}
    Lengths = {2}
    MaxBytes = 1
    MaxErrors = 0
    Sharing = "exclusive"
    Relocation = "never"
    CountedBeforeClose = TRUE
SYMMETRY Symmetry
INVARIANTS
    TypeOK
    SizeReadBack
    ReaderSizeCurrent
    FstatMatchesReads
    WriteFlagExact
PROPERTY ImplementsFileStore
