SPECIFICATION Spec
CONSTANTS
    r1 = r1
    r2 = r2
    Record <- TwoRecords
    Faults <- AllFaults
SYMMETRY RecordSymmetry
INVARIANTS
    TypeOK
    QuietRecordsSurvive
    DeliveredOnce
PROPERTIES
    FailedUploadsLoseNothing
    ImplementsLog
