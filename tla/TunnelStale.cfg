SPECIFICATION Spec
CONSTANTS
    NumFds = 4
    Pipelines = TRUE
    InheritsNonBlock = FALSE
PROPERTIES OnlyMatesReset
