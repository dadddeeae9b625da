CONSTANTS
    LocalMax = 8
    LabelMax = 7
    EmailSpan = 20
    SsnMask <- Mask
    CardMin = 3
    CardMax = 4
    Chunks <- Numbers
    MaxText = 8
SPECIFICATION Spec
INVARIANT SplitsDoNotMatter
CHECK_DEADLOCK FALSE
