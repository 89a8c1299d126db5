SPECIFICATION Spec
CONSTANTS
    Conns = {c1, c2}
    NoConn = NoConn
    PromptWatcher = FALSE
PROPERTY
    NoDialWhileDown
CHECK_DEADLOCK FALSE
