SPECIFICATION FairSpec
CONSTANTS
    r1 = r1
    r2 = r2
    Record <- TwoRecords
    Faults <- StayingUp
INVARIANTS
    SampleToUpload
PROPERTIES
    UploadEnds
    QuietRecordsDelivered
