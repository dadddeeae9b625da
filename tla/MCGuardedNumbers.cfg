CONSTANTS
    LocalMax = 8
    LabelMax = 7
    EmailSpan = 20
    SsnMask <- Mask
    CardMin = 3
    CardMax = 4
    Chunks <- Numbers
    MaxText = 7
SPECIFICATION Spec
INVARIANTS
    StreamedAsWhole
    NothingUndecidedIsShown
CHECK_DEADLOCK FALSE
