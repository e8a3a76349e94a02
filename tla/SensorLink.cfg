SPECIFICATION FairSpec
CONSTANTS
    s1 = s1
    s2 = s2
    Sensor <- TwoSensors
    Rows <- BothRows
    Measure <- Values
    Min <- From4
    Max <- To6
    Samples = 2
    MaxEdits = 1
    MaxCrashes = 1
INVARIANTS
    TableInv
    AckedIsSaved
    RightSensor
    AlertsAreReal
    Undisturbed
PROPERTY
    PacketsAccepted
CHECK_DEADLOCK FALSE
