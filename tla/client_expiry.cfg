SPECIFICATION Spec
CONSTANTS
    IPs = {i1}
    Static = {}
    Conns = {c1, c2}
    NoIP = NoIP
    TTL = 4
    Refresh = 2
    ExpireInterval = 2
    MaxDelay = 1
INVARIANTS
    TypeOK
    ServedIsRegistered
PROPERTIES
    KeptAfterAccept
    Forgotten
CHECK_DEADLOCK FALSE
