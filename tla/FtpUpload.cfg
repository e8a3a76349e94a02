\* Four of the replies may be long: each of them makes those after it one late.
\* Three may have several lines, CWD's one that is long as well.
SPECIFICATION Spec
CONSTANTS
    Blocks = 2
    HasDirectory = TRUE
    LongReplies = {"welcome", "PASS", "CWD", "RNFR"}
    MultiReplies = {"CWD", "STOR", "RNTO"}
CHECK_DEADLOCK FALSE
INVARIANTS
    UploadInv
    SocketsAccounted
PROPERTIES
    CallReturns
    ImplementsAtomicUpload
