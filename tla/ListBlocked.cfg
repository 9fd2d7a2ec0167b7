SPECIFICATION FairSpec
CONSTANTS
    f1 = f1  f2 = f2  f3 = f3  f4 = f4
    w1 = w1  w2 = w2
    Files = {f1, f2, f3, f4}
    Configs <- MCDirs
    Chunks <- MCChunks
    Healths = {"ok"}
    Workers = {w1}
    QueueCap = 1
    InCap = 1
    Producer = Producer
    User = User
    None = None
CHECK_DEADLOCK FALSE
PROPERTIES
    StopReturns
