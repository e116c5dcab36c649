SPECIFICATION FairSpec
CONSTANTS
    MaxCommands = 2
    Scripts <- UpTo3
    PipeSize = 2
    Worlds <- TameAndWild
INVARIANTS ChildOwned KillsOwnCommand ErrorAlone
PROPERTIES OutputComplete Ends
CHECK_DEADLOCK FALSE
