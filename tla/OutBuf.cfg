SPECIFICATION MCSpec
CONSTANTS
    InitSize = 4
    Handlers <- AllHandlers
    MaxRequests = 3
INVARIANTS InBounds StreamOrder OneWriteComplete
PROPERTIES StreamSpec OneWriteCloses OneWriteReturns
