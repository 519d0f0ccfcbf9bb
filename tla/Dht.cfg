SPECIFICATION Spec
CONSTANTS
    ByteBits = 2
    IdBytes = 2
    K = 3
    Nodes <- MCNodes
    NumBootstrap = 2
    MaxReply = 3
    InfoHashes = {good, short}
    WellFormed = {good}
    Peers = {p1, p2}
    MaxStored = 2
INVARIANTS
    TypeOK
    BucketsMatchDistance
    BucketsAreSets
    RecencyOrder
    ClosestAnswered
    AckedIsServed
PROPERTY BootstrapEnds
CHECK_DEADLOCK FALSE
