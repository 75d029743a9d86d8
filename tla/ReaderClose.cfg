SPECIFICATION Spec
CONSTANTS
    Paths = {p1, p2}
    Handles = {h1, h2}
    MaxFd = 3
    IntMax = 7
    OffMax = 3
    FileSizes = {0, 1, 2, 3}
    SeedSizes = {}
    WriteSizes = {1}
    Offsets = {}
    Lengths = {}
    MaxBytes = 1
    MaxErrors = 0
    Sharing = "readers"
    Relocation = "never"
    CountedBeforeClose = TRUE
INVARIANT SizeReadBack
