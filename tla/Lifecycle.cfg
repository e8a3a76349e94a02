\* Four threads, a switch and signals at any time.
SPECIFICATION FairLifecycleSpec
CONSTANTS
    Patience = 2
    RebootPress = 1
    PowerOffPress = 2
INVARIANTS
    LifecycleInv
    RequestsHonoured
PROPERTIES
    ShutdownEnds
CHECK_DEADLOCK FALSE
