SPECIFICATION Spec
CONSTANTS
    Threads = {t1}
    Speeds = {0, 1, 2}
    Mega = 4
    Micro = 3
    Lengths = {1, 3, 8}
    MaxTime = 8
    MaxWrites = 3
INVARIANT ReportedWithinSpeed
