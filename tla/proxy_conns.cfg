SPECIFICATION Spec
CONSTANTS
    Conns = {c1, c2}
    NoConn = NoConn
    PromptWatcher = TRUE
INVARIANTS
    TypeOK
    StoppedClean
PROPERTIES
    LegsOfOneTunnel
    DeadConnsDropped
    Terminates
CHECK_DEADLOCK FALSE
