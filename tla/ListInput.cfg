SPECIFICATION FairSpec
CONSTANTS
    f1 = f1  f2 = f2  f3 = f3  f4 = f4
    w1 = w1  w2 = w2
    Files = {f1, f2}
    Configs <- MCConfigs
    Chunks <- MCChunks
    Healths = {"ok", "nosize", "noopen", "notgzip", "corrupt"}
    Workers = {w1, w2}
    QueueCap = 2
    InCap = 1
    Producer = Producer
    User = User
    None = None
INVARIANTS
    TypeOK
    CleanStop
PROPERTIES
    ImplementsInput
    StopReturns
