SPECIFICATION FairSpec
CONSTANTS
    NumConns = 2
    Lengths = {0, 2, 3}
    MaxBody = 2
    BufSize = 2
    FirstInputSize = 1
    MaxRounds = 2
INVARIANTS InBounds BodyComplete
PROPERTIES BodyArrives
CHECK_DEADLOCK FALSE
