\* One of four unbounded inputs, stopped at any moment; safety and liveness.
SPECIFICATION FairSpec
CONSTANTS
    InCap = 1
    Queues = {"q1", "q2"}
    Messages = {"m1", "m2", "m3", "m4", "m5"}
    QueueOf <- MCQueueOf
    Kind <- MCKind
    Chunks <- MCChunks
    MaxReceives <- MCMaxReceives
    NoMessage = NoMessage
    Peers = {"p1", "p2"}
    MaxChunks = 2
    Shards = {"s1", "s2"}
    Ends <- MCEnds
    Closed = {"s1", "s2"}
    Processes = {"b1", "b2"}
    KclShards = {"s1"}
    Records <- MCKclRecords
    KclClosed = {"s1"}
    MaxBatch = 2
    MaxLeases = 2
    NoProcess = NoProcess
INVARIANTS
    TypeOK
    NothingSkipped
    NoneLeftBehind
PROPERTIES
    StopReturns
