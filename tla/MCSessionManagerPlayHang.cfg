SPECIFICATION FairSpec
CONSTANTS
    c1 = c1
    c2 = c2
    s1 = s1
    s2 = s2
    i1 = i1
    i2 = i2
    Conns <- MCConns
    Sessions <- MCOneSession
    Ids <- MCIds
    AllowCollision = FALSE
    ForeignPlay = TRUE
    MuxMayFail = FALSE
    NoConn = NoConn
    NoSession = NoSession
    NoId = NoId
CHECK_DEADLOCK FALSE
PROPERTY PlayAnswered
