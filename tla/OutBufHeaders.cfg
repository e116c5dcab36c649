SPECIFICATION FairSpec
CONSTANTS
    InitSize = 4
    Handlers <- SendFile
    MaxRequests = 1
PROPERTY HeadersKeepOpen
