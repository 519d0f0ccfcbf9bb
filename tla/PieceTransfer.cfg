\* Everything a peer can send; the digest of one piece prints too short.
SPECIFICATION Spec
CONSTANTS
    NumPieces = 2
    PieceLength = 3
    MaxBlockSize = 2
    LastPieceLength = 3
    ShortHash <- MCShortHash
    TorrentZeros <- MCTorrentZeros
    Blocks <- MCBlocks
    Requests <- MCRequests
    Peers = {p1}
    MaxInt = 9
    MaxQueue = 1
INVARIANTS
    TypeOK
    VerifiedIntact
    LedgerConsistent
    BitmapDescribesData
    CompleteRightIsVerified
    OverrunConfined
PROPERTIES
    CompletedIsFinal
    ServesTorrentBytes
CHECK_DEADLOCK FALSE
