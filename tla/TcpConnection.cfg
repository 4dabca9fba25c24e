SPECIFICATION FairSpec
CONSTANTS
    StreamLen = 5
    MaxRetry = 3
    Ends <- MCEnds
    CacheSize = 2
    RetrySize = 1
    CacheSizes <- MCCacheSizes
    RecvSize = 2
    RecvRetrySize = 1
    DefaultSize = 3
    MaxKept = 2
    MaxLen = 3
    MaxRoom = 2
    SizeMax = 15
    MaxCalls = 2
    StartErrnos <- AnyErrno
INVARIANTS
    TypeOK
    DeliveredOnce
    UntilIsTruthful
    ReadIsComplete
    WriteIsComplete
PROPERTIES
    CallsEnd
\* After the last call nothing more happens.
CHECK_DEADLOCK FALSE
