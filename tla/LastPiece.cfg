\* Block-grid blocks only: what remains is the block count of the last piece.
SPECIFICATION Spec
CONSTANTS
    NumPieces = 2
    PieceLength = 3
    MaxBlockSize = 2
    LastPieceLength = 3
    ShortHash <- MCNoShortHash
    TorrentZeros <- MCTorrentZeros
    Blocks <- MCWholeBlocks
    Requests <- MCRequests
    Peers = {p1}
    MaxInt = 9
    MaxQueue = 1
INVARIANT CompletedMeansFullyReceived
CHECK_DEADLOCK FALSE
