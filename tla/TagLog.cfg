SPECIFICATION Spec
CONSTANTS
    s1 = s1
    s2 = s2
    Sensor <- Sensors
    Calendar <- YearsEnd
    Zone <- West
    Season <- Spring
    MaxHour = 1
    MaxGroups <- OneEach
    MaxUploads = 1
    MaxFails = 1
    MaxLines = 1
    MaxEvents = 3
SYMMETRY SensorSymmetry
CHECK_DEADLOCK FALSE
INVARIANTS
    TagLogInv
    RightTime
