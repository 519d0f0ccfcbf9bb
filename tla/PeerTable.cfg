\* Safety: two connections, two descriptors, two items in, two messages out.
SPECIFICATION Spec
CONSTANTS
    Conn = {c1, c2}
    Sock = {s1, s2}
    NoConn = NoConn
    NoSock = NoSock
    MaxItems = 2
    MaxOut = 2
SYMMETRY Symmetry
INVARIANTS
    TypeOK
    OwnDescriptor
    InputInOrder
    OutputInOrder
    NoLeak
CHECK_DEADLOCK FALSE
