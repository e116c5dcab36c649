SPECIFICATION Spec
CONSTANTS
    NumFds = 4
    Pipelines = FALSE
    InheritsNonBlock = TRUE
INVARIANTS PairsAgree ModesAgree Watched
PROPERTIES OnlyMatesReset MatesResetTogether ReadinessIsFresh
