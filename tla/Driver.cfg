\* Two peers to try, each with a descriptor of its own or after another.
SPECIFICATION SpecDriver
CONSTANTS
    Conn = {c1, c2}
    Sock = {s1, s2}
    NoConn = NoConn
    NoSock = NoSock
    MaxItems = 1
    MaxOut = 0
    MaxChunks = 1
INVARIANTS
    DriverTypeOK
    HandlesClosed
    WinsockUp
    OnlyDetachedOutlive
    ExitCodeTells
PROPERTY MainReturns
CHECK_DEADLOCK FALSE
