SPECIFICATION FairSpec
CHECK_DEADLOCK FALSE
CONSTANTS
    ReadSize = 3
    LineCap = 4
    Keywords = {0}
    MaxLines = 3
    MaxLength = 2
    MaxRotations = 1
    MaxTruncations = 0
    UnnoticedSwaps = TRUE
INVARIANT
    NoSplicedLine
