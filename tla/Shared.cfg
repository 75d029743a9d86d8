SPECIFICATION IsolationSpec
CONSTANTS
    Paths = {p1, p2}
    Handles = {h1, h2}
    MaxFd = 3
    IntMax = 2
    OffMax = 3
    FileSizes = {0, 1, 2, 3}
    SeedSizes = {2}
    WriteSizes = {1}
    Offsets <- MCOffsets
    Lengths = {1}
    MaxBytes = 1
    MaxErrors = 1
    Sharing = "any"
    Relocation = "always"
    CountedBeforeClose = TRUE
SYMMETRY Symmetry
INVARIANTS
    AckedBytesRecorded
    DamageContained
