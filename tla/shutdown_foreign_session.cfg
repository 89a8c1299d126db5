SPECIFICATION Spec
CONSTANTS
    PollInterval = 2
    MaxConnectDelay = 6
    ReconnectGrace = 3
    SlowAgent = TRUE
PROPERTY
    ShutdownEndsOwnSession
CHECK_DEADLOCK FALSE
