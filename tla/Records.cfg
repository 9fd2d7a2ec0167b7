\* One of ten sequential or merely called parts; safety.  All of them may stop.
SPECIFICATION MCSpec
CONSTANTS
    MaxFile = 9
    ChunkBuffer = 5
    MaxLine = 2
    Keys <- MCKeys
    Lens <- MCLens
    Prefix = 1
    Buckets <- MCBuckets
    NumBits = 2
    Words = 1
    MaxBufLen = 4
    MaxCap = 6
    CellSpan = 4
    BucketSpan = 4
    MaxPuts = 7
    Free = Free
    NumFields = 3
    NumCustom = 1
    Slots = 4
    Sep = ","
    NL <- MCNL
    Texts <- MCTexts
    Filters <- MCFilters
    MaxFilters = 2
    Workers <- MCWorkers
    KeyOf <- MCKeyOf
    ValueOf <- MCValueOf
    UrlOf <- MCUrlOf
    Content <- MCContent
    NoUrl = "nil"
    MaxEntries = 2
    TomlFiles <- MCTomlFiles
    Usual <- MCUsual
    Known <- MCKnown
    Required <- MCRequired
    Shards <- MCShards
    NoSection <- MCNoSection
    IllTyped <- MCIllTyped
    MaxBytes = 7
    MaxWrite = 4
    MaxSize = 3
    BufSize = 2
    MaxBroken = 1
    FilterNames <- MCFilterNames
    OutputNames <- MCOutputNames
    ErrorNames <- MCErrorNames
    MaxRead = 2
    MaxUploads = 1
    MaxTicks = 1
    Samples <- MCSamples
    MaxSamples = 4
    NoValue = 0
    Malformed <- MCMalformed
    MaxUint32 = 9
    MaxInt64 = 9
    Clients <- MCClients
    Wants <- MCWants
    QueueCap = 2
    MaxSends = 3
    NoClient = "nobody"
CHECK_DEADLOCK FALSE
INVARIANTS
    TypeOK
    WholeLines
    NoByteLost
    PartsAreTheStream
    CacheWithinLimits
    HandedInRuns
    FieldsKeepTheirValues
    KeptAsDocumented
    TextRoundTrip
    ClauseMeansExpression
    SharedStateAgrees
    UsableOrRefused
    StatisticsAddUp
    KnownWhileConnected
    PeersInOrder
PROPERTIES
    ImplementsStore
    LoadsAreWhole
