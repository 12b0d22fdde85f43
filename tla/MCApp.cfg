SPECIFICATION FairSpec
CONSTANTS
    c1 = c1
    c2 = c2
    Conns <- MCConns
    Requests <- MCRequests
    NoRequest = NoRequest
    Cap = 1
    Describable = TRUE
    MaxQueries = 2
INVARIANTS TypeOK StoppedMeansClosed
PROPERTIES CameraIsServed GrantedAsAsked RegisteredAreRemoved RequestsAnswered StopReturns
CHECK_DEADLOCK FALSE
