SPECIFICATION Spec
CONSTANTS
    m = m
    other = other
    Callers <- MCCallers
    Main = m
    PoolSize = 2
    NoTask = NoTask
    Numbers <- MCNumbers
    Tails <- MCTails
    Urls <- MCUrls
    Menu <- MCMenu
INVARIANTS
    TypeOK
    AnsweredByEnd
    PoolOutlivesUse
    UrlsAreSplit
    CrashesAreTheCallers
    TemplateIsRead
\* The process ends.
CHECK_DEADLOCK FALSE
