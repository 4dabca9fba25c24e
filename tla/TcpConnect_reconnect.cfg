SPECIFICATION Spec
CONSTANTS
    v4 = v4
    v6 = v6
    V4 = v4
    V6 = v6
    Families <- MCFamilies
    Lists <- MCLists
    MaxRetry = 2
    MaxResolves = 3
    MaxCalls = 3
INVARIANTS
    UnavailableIsRefused
\* After the last answer nothing more happens.
CHECK_DEADLOCK FALSE
