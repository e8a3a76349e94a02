SPECIFICATION FairUplinkSpec
CONSTANTS
    Present = TRUE
    Descriptors = {1, 2, 3}
    ConnectPeriod = 5
    PingPeriod = 15
INVARIANTS
    UplinkInv
PROPERTIES
    LossIsNoticed
    ComesOnline
    Reconnects
