SPECIFICATION Spec
CONSTANTS
    c1 = c1
    c2 = c2
    p1 = p1
    Conn <- MCConn
    Poster <- MCPoster
    Cap = 1
    MaxMessages = 3
INVARIANTS
    NoPanic
    NoGaps
    MissedOnlyAtJoin
PROPERTIES
    GoneClientsEnd
\* Every socket is opened once, and the messages are bounded.
CHECK_DEADLOCK FALSE
