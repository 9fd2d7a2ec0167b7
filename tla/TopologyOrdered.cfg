SPECIFICATION FairSpec
CONSTANTS
    NLines = 3
    MaxChunk = 2
    Malformed = {}
    Invalid = {}
    Copies <- MCCopies
    Shard <- MCShard
    b1 = b1  b2 = b2  b3 = b3  b4 = b4
    p1 = p1  p2 = p2
    Buffers = {b1, b2}
    NoBuffer = NoBuffer
    Procs = {p1}
    NOut = 2
    Sharded = FALSE
    InCap = 1
    OutCap = 2
    Daemon = FALSE
    UsesUpload = TRUE
    CanFail = TRUE
INVARIANTS
    StreamOrder
PROPERTIES
    ImplementsPipeline
    WaitReturns
