---------------------------- MODULE PieceManager ----------------------------
(***************************************************************************)
(* The piece store of the client (piece_manager.cpp): for every piece an   *)
(* entry with the bytes, a bitmap of the blocks received and a counter.    *)
(*                                                                         *)
(* The methods are operators on one entry or on the map; the callers in    *)
(* PeerWireProtocol run them under peerMutex, and PieceTransfer makes      *)
(* steps of them.  A byte is abstracted to where it came from: "zero" is   *)
(* what resize() wrote, "right" is the torrent's byte, "wrong" is not.     *)
(***************************************************************************)
EXTENDS Integers, FiniteSets

CONSTANTS
    NumPieces,      \* the constructor's numPieces
    PieceLength,    \* the constructor's pieceLength
    MaxBlockSize    \* MAX_BLOCK_SIZE

ASSUME SizesAssumption ==
    /\ NumPieces \in Nat \ {0}
    /\ PieceLength \in Nat \ {0}
    /\ MaxBlockSize \in Nat \ {0}

VARIABLES
    present,          \* the keys of the map `pieces`
    pieces,           \* its values; EmptyPiece where there is no entry yet
    completedPieces   \* pieces whose last missing block was stored

storeVars == <<present, pieces, completedPieces>>

Piece == 0 .. NumPieces - 1
LastPiece == NumPieces - 1
Offset == 0 .. PieceLength - 1
Byte == {"zero", "right", "wrong"}

(***************************************************************************)
(* Geometry.  The block count of the last piece is taken from              *)
(* pieceLength % MAX_BLOCK_SIZE, as the code does, whatever the length of  *)
(* the last piece is.                                                      *)
(***************************************************************************)
\* Mutant: forgets to round up.
GetBlockCountFloor(p) ==
    IF p = LastPiece THEN 1 ELSE PieceLength \div MaxBlockSize

GetBlockCount(p) ==
    LET lastPieceSize == IF p = LastPiece THEN PieceLength % MaxBlockSize
                                          ELSE PieceLength
    IN  (lastPieceSize + MaxBlockSize - 1) \div MaxBlockSize

BlocksOf(p) == 0 .. GetBlockCount(p) - 1

BlockIndex(offset) == offset \div MaxBlockSize

\* Is the bit that storePieceBlock reads inside the vector it sized?
InBitmap(p, offset) == BlockIndex(offset) \in BlocksOf(p)

\* The range check that getPieceBlock and storePieceBlock share.
InPiece(offset, size) == offset >= 0 /\ offset + size <= PieceLength

PieceData == [data : [Offset -> Byte],
              receivedBlocks : SUBSET Nat,
              receivedBlockCount : Nat]

\* The entry storePieceBlock creates for a piece it has not seen.
EmptyPiece == [data |-> [o \in Offset |-> "zero"],
               receivedBlocks |-> {},
               receivedBlockCount |-> 0]

\* Mutant: counts the missing blocks down instead of the received ones up.
StoreBlockCountsDown(pd, b) ==
    [data |-> [o \in Offset |-> IF o \in b.offset .. b.offset + b.size - 1
                                THEN b.content ELSE pd.data[o]],
     receivedBlocks |-> pd.receivedBlocks \cup {BlockIndex(b.offset)},
     receivedBlockCount |-> pd.receivedBlockCount - 1]

\* Mutant: forgets to set the bit of the block.
StoreBlockWithoutBit(pd, b) ==
    [data |-> [o \in Offset |-> IF o \in b.offset .. b.offset + b.size - 1
                                THEN b.content ELSE pd.data[o]],
     receivedBlocks |-> pd.receivedBlocks,
     receivedBlockCount |-> pd.receivedBlockCount + 1]

\* Mutant: copies one byte too few.
StoreBlockShort(pd, b) ==
    [data |-> [o \in Offset |-> IF o \in b.offset .. b.offset + b.size - 2
                                THEN b.content ELSE pd.data[o]],
     receivedBlocks |-> pd.receivedBlocks \cup {BlockIndex(b.offset)},
     receivedBlockCount |-> pd.receivedBlockCount + 1]

(***************************************************************************)
(* What storePieceBlock does to the entry once it accepts block b: the     *)
(* bytes, the bit and the counter.  The bit may lie beyond the vector.     *)
(***************************************************************************)
StoreBlock(pd, b) ==
    [data |-> [o \in Offset |-> IF o \in b.offset .. b.offset + b.size - 1
                                THEN b.content ELSE pd.data[o]],
     receivedBlocks |-> pd.receivedBlocks \cup {BlockIndex(b.offset)},
     receivedBlockCount |-> pd.receivedBlockCount + 1]

IsPieceComplete(p, pd) == pd.receivedBlockCount = GetBlockCount(p)

\* Mutant: releases the buffer of a piece once it is downloaded.
MarkFreesData(p, pd) ==
    [data |-> EmptyPiece.data, receivedBlocks |-> pd.receivedBlocks \cup BlocksOf(p),
     receivedBlockCount |-> GetBlockCount(p)]

MarkPieceAsDownloaded(p, pd) ==
    [data |-> pd.data, receivedBlocks |-> pd.receivedBlocks \cup BlocksOf(p),
     receivedBlockCount |-> GetBlockCount(p)]

StoreInit ==
    /\ present = {}
    /\ pieces = [p \in Piece |-> EmptyPiece]
    /\ completedPieces = {}
=============================================================================
