SPECIFICATION Spec
CONSTANTS
    LANs = {home, cafe}
    Loops = {l1, l2}
    Conns = {c1}
    NoLAN = NoLAN
    NoLoop = NoLoop
    NoConn = NoConn
INVARIANTS
    TypeOK
    NoLostWakeup
    JoinsEndingLoop
    StoppedClean
PROPERTIES
    ChangeConfirmed
    ServesOneLAN
    Rebinds
    Terminates
CHECK_DEADLOCK FALSE
