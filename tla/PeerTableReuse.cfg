\* What the comment on the cleanup says, over a descriptor that is handed out
\* again.
SPECIFICATION Spec
CONSTANTS
    Conn = {c1, c2}
    Sock = {s1, s2}
    NoConn = NoConn
    NoSock = NoSock
    MaxItems = 2
    MaxOut = 1
PROPERTY CleanupClosesOwn
CHECK_DEADLOCK FALSE
