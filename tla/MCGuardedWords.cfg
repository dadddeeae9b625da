CONSTANTS
    LocalMax = 1
    LabelMax = 2
    EmailSpan = 6
    SsnMask <- Mask
    CardMin = 2
    CardMax = 3
    Chunks <- Words
    MaxText = 6
SPECIFICATION FairSpec
INVARIANTS
    TypeOK
    StreamedAsWhole
    NothingUndecidedIsShown
    OverflowNeverCuts
PROPERTIES
    EveryStreamEnds
    ConnectionsAreReleased
CHECK_DEADLOCK FALSE
