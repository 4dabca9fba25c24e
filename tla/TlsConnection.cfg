SPECIFICATION FairSpec
CONSTANTS
    StreamLen = 5
    MaxRetry = 4
    CacheSize = 2
    RetrySize = 1
    Delimiters <- MCDelimiters
    MaxLen = 1
    MaxCalls = 6
    StartErrnos <- NoErrno
INVARIANTS
    TypeOK
    SuccessIsTrue
    UntilDeliversAll
    AnsweredOnce
    ReleasedOnlyIfBroken
    FewLeaks
PROPERTIES
    CallsEnd
\* After the last call, a crash or the destruction nothing more happens.
CHECK_DEADLOCK FALSE
