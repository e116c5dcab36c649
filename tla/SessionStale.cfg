SPECIFICATION Spec
CONSTANTS
    Users = {"ann"}
    Known = {"ann"}
    NoUser = "nobody"
    Requests <- Several
    MaxConns = 1
    MaxRequests = 2
INVARIANT HeadersOfRequest
CHECK_DEADLOCK FALSE
