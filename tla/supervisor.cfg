SPECIFICATION Spec
CONSTANTS
    PollInterval = 2
    MaxConnectDelay = 6
    ReconnectGrace = 3
    SlowAgent = TRUE
INVARIANTS
    TypeOK
    StatusNotContradicted
    PFMarkTruthful
PROPERTIES
    ShowsStatus
    KickOnlyStuck
    KeepsReconnecting
    PFReasserted
    Terminates
CHECK_DEADLOCK FALSE
