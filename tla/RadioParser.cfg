\* Three byte values, the three of a head, and frames of seven bytes: the fields may
\* look like the head of another frame.
SPECIFICATION Spec
CONSTANTS
    Modulus = 3
    Colon = 0
    Gw <- GwBytes
    Fields = 3
INVARIANTS
    FrameInv
    BackInStep
    ChangedFrameRejected
