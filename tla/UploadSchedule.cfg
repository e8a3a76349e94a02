\* The delays of the program (30, 15, 15 and 5 seconds) scaled down; the periods are
\* longer and shorter than the default, and one is not positive.
SPECIFICATION FairSpec
CONSTANTS
    Settings = {0, 5, 12}
    DefaultPeriod = 9
    FirstUpload = 6
    OfflineRetry = 3
    FailureRetry = 3
    AlarmDelay = 2
    Longest = 12
INVARIANTS
    ScheduleInv
PROPERTIES
    UploadsGoOn
