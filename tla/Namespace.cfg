SPECIFICATION FairDirSpec
CONSTANTS
    Paths <- MCPaths
    FileSizes = {0}
    MaxFd = 4
    IntMax = 7
    OffMax = 0
    DirHandles = {d1}
    DirPaths <- MCDirPaths
    MapOrder <- MCMapOrder
    NameLen <- MCNameLen
    BufLens = {2}
INVARIANTS
    FSTypeOK
    NoAlias
    DirTypeOK
    NoPhantomEntries
    NothingDropped
PROPERTIES
    NoResurrection
    ListingEnds
