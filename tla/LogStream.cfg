SPECIFICATION FairSpec
CHECK_DEADLOCK FALSE
CONSTANTS
    ReadSize = 2
    LineCap = 2
    Keywords = {0, 2}
    MaxLines = 2
    MaxLength = 3
    MaxRotations = 1
    MaxTruncations = 1
    UnnoticedSwaps = FALSE
INVARIANTS
    TypeOK
    GenuineInOrder
    NothingMissed
PROPERTY
    LinesArrive
