SPECIFICATION MCSpec
CONSTANTS
    Inodes = {1, 2}
    Sizes = {1, 2}
    PerSecond = 2
    MaxSecond = 1
    MaxChanges = 2
    MaxCopies = 2
    BufSize = 12
    LastYear = 2104
    MaxParts = 5
    MaxChars = 4
INVARIANTS DaysCounted   
CHECK_DEADLOCK FALSE
