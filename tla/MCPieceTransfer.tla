-------------------------- MODULE MCPieceTransfer --------------------------
(***************************************************************************)
(* Instances of PieceTransfer for TLC: two pieces of three bytes in blocks *)
(* of two, so that a full-size piece has a whole block and a short one and *)
(* the last piece has a bitmap of one bit for data of two blocks.          *)
(***************************************************************************)
EXTENDS PieceTransfer

MCTorrentZeros == {<<0, 1>>}
\* The last piece's digest cannot be printed in full.
MCShortHash == {LastPiece}
MCNoShortHash == {}

\* Every index, offset and size around the limits, on and off the block grid.
MCBlocks ==
    [piece : -1 .. NumPieces, offset : -1 .. PieceLength, size : {0, 1, 2, 3},
     content : {"right", "wrong"}]

\* Only what a downloader that follows the block grid would be sent.
MCWholeBlocks ==
    {b \in [piece : Piece, offset : Offset, size : 1 .. MaxBlockSize,
            content : {"right", "wrong"}] : Whole(b)}

MCRequests ==
    [piece : {-1, 0, 1, 2}, offset : {-1, 0, 2, 3, MaxInt}, size : {0, 1, 2, 3}]
=============================================================================
