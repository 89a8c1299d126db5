SPECIFICATION Spec
CONSTANTS
    en0 = en0
    bridge = bridge
    utun = utun
    NoLAN = NoLAN
    MaxStrays = 2
    Order <- Interfaces
    kindOf <- Kinds
    Addresses <- MCAddresses
    Tables <- MCTables
INVARIANTS
    TypeOK
    LanIsPhysical
    NoDumpLeft
PROPERTIES
    KeepsInterface
    SniffsRoutedLAN
    Terminates
CHECK_DEADLOCK FALSE
