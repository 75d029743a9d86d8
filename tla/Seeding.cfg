SPECIFICATION ConfigSpec
CONSTANTS
    Paths <- MCPaths
    FileSizes <- MCFileSizes
    MaxFd = 12
    IntMax = 127
    OffMax = 127
    Word = 256
    Kilo = 2
    MaxLines = 4
    SpeedArgs <- MCSpeedArgs
    ReadtypeArgs = {"zeros", "random"}
    DefaultsArgs <- MCDefaultsArgs
    SeedArgs <- MCSeedArgs
INVARIANTS
    ConfigTypeOK
    SeedNamesAsDocumented
    SeedSizesAsDocumented
    CleanMeansComplete
CHECK_DEADLOCK FALSE
