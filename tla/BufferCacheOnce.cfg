\* Config.OnFlush: once per key with the whole buffer for that key.
SPECIFICATION Spec
CONSTANTS
    k1 = k1
    k2 = k2
    k3 = k3
    Keys <- ThreeKeys
    Lens = {1, 2, 3, 4}
    Prefix = 1
    Buckets <- CellSizes
    NumBits = 2
    Words = 1
    MaxBufLen = 4
    MaxCap = 6
    CellSpan = 4
    BucketSpan = 4
    MaxPuts = 6
    Free = Free
SYMMETRY KeySymmetry
CHECK_DEADLOCK FALSE
PROPERTIES
    OncePerKey
