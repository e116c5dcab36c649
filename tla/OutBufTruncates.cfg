SPECIFICATION FairSpec
CONSTANTS
    InitSize = 4
    Handlers <- ThreeBlocks
    MaxRequests = 1
INVARIANT ResponseComplete
