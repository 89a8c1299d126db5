SPECIFICATION Spec
CONSTANTS
    Upstreams = 2
    NoQuery = NoQuery
    LogCap = 1
    NoConfig = NoConfig
    Configs <- MCConfigs
INVARIANTS
    TypeOK
    ExitClean
    ErrorReported
    NoCircularWait
PROPERTIES
    Terminates
    QueriesAnswered
CHECK_DEADLOCK FALSE
