SPECIFICATION FairSpec
CONSTANTS
    Users = {"ann", "bob", "zed"}
    Known = {"ann", "bob"}
    NoUser = "nobody"
    Requests <- Several
    MaxConns = 2
    MaxRequests = 3
INVARIANTS UserSupplied PwIsUsers  
PROPERTY HandshakeEnds
CHECK_DEADLOCK FALSE
