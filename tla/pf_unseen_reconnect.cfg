SPECIFICATION Spec
CONSTANTS
    PollInterval = 2
    MaxConnectDelay = 6
    ReconnectGrace = 3
    SlowAgent = FALSE
PROPERTY
    PFReasserted
CHECK_DEADLOCK FALSE
