SPECIFICATION Spec
CONSTANTS
    OpenFiles <- MCOpenFiles
    Segments <- MCSegments
    W = 256
    K = 77
    C = 15
    XorWord <- MCXor
    ByteOf <- TopBits
    MaxServed = 2
INVARIANT BytesStable
