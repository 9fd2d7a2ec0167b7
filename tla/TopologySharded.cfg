SPECIFICATION Spec
CONSTANTS
    NLines = 5
    MaxChunk = 2
    Malformed = {1}
    Invalid = {1, 4}
    Copies <- MCCopies
    Shard <- MCShard
    b1 = b1  b2 = b2  b3 = b3  b4 = b4
    p1 = p1  p2 = p2
    Buffers = {b1, b2, b3, b4}
    NoBuffer = NoBuffer
    Procs = {p1, p2}
    NOut = 2
    Sharded = TRUE
    InCap = 1
    OutCap = 1
    Daemon = TRUE
    UsesUpload = FALSE
    CanFail = FALSE
SYMMETRY MCSymmetry
INVARIANTS
    TypeOK
    NoSendOnClosedChannel
    BufferHasOneHolder
    NothingLost
    ShardAffinity
