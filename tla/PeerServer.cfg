\* Outgoing and incoming connections compete for one descriptor.
SPECIFICATION SpecServer
CONSTANTS
    Conn = {c1, c2, c3}
    Dialed = {c1}
    Sock = {s1}
    NoConn = NoConn
    NoSock = NoSock
    MaxItems = 1
    MaxOut = 1
    Relock = {"blocks", "throws", "passes"}
INVARIANTS
    NoClientLeaks
    DiesOf
    ServedByMistake
PROPERTY Reclaimed
CHECK_DEADLOCK FALSE
