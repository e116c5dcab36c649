SPECIFICATION MCSpec
CONSTANTS
    MaxFrames = 3
    Frames <- AllFrames
    Mask = 2
    Swapped <- Doubled
    Lengths <- AroundLimits
    Small = 2
    Medium = 4
    Misplaced <- TimesFour
    MaxWrites = 2
INVARIANTS MessagesIntact CutOff ClientReads
PROPERTIES Answered
CHECK_DEADLOCK FALSE
