--------------------------- MODULE PieceTransfer ---------------------------
(***************************************************************************)
(* Receiving, verifying and serving blocks: PeerWireProtocol::handlePiece  *)
(* and handleRequest on top of the piece store.  Both hold peerMutex from  *)
(* their first line to their last, so each call is one step.  A refused    *)
(* call (bad index, bad range, duplicate block, missing piece) returns     *)
(* without a change and is no step at all.                                 *)
(*                                                                         *)
(* The program is taken with pieceStorage set, as its drivers do: the      *)
(* constructor's own make_unique is commented out.                         *)
(***************************************************************************)
EXTENDS PieceManager, Sequences

CONSTANTS
    LastPieceLength,  \* how long the torrent's last piece really is
    ShortHash,        \* pieces whose digest rawToHex prints too short (HashHex)
    TorrentZeros,     \* <<piece, offset>> where the torrent's byte is 0
    Blocks,           \* the arguments handlePiece is called with
    Requests,         \* the arguments handleRequest is called with
    Peers,            \* the registered peers
    MaxInt,           \* the largest int
    MaxQueue          \* bound on a message_queue, which nothing ever drains

ASSUME TransferAssumption ==
    /\ LastPieceLength \in 1 .. PieceLength
    /\ ShortHash \subseteq Piece
    /\ TorrentZeros \subseteq Piece \X Offset
    /\ Blocks \subseteq [piece : Int, offset : Int, size : Nat,
                         content : {"right", "wrong"}]
    /\ Requests \subseteq [piece : Int, offset : Int, size : Int]
    /\ MaxInt \in Nat /\ MaxInt >= PieceLength
    /\ MaxQueue \in Nat

VARIABLES
    message_queue,  \* per peer, the responses handleRequest queued
    alive,          \* FALSE once undefined behaviour killed the process
    verified,       \* history: pieces whose hash matched
    overrun,        \* history: pieces whose bitmap was accessed out of range
    ragged          \* history: pieces that accepted a block off the block grid

transferVars == <<message_queue, alive, verified, overrun, ragged>>
vars == <<storeVars, transferVars>>

\* The byte at offset o of an entry is the torrent's.
Genuine(p, pd, o) == \/ pd.data[o] = "right"
                     \/ pd.data[o] = "zero" /\ <<p, o>> \in TorrentZeros

Intact(p, pd) == \A o \in Offset : Genuine(p, pd, o)

\* The piece is as long as the buffer that is hashed.
FullLength(p) == p = LastPiece => LastPieceLength = PieceLength

\* Mutant: compares hex digits with the raw digest, as a commented-out line did.
HashMatchesRaw(p, pd) == FALSE

(***************************************************************************)
(* computedHash = expectedHash: SHA-1 of all PieceLength bytes against the *)
(* torrent's digest.  Hashing is taken to be collision-free; an expected   *)
(* text that lost digits equals no computed one (HashHex shows it).        *)
(***************************************************************************)
HashMatches(p, pd) == Intact(p, pd) /\ FullLength(p) /\ p \notin ShortHash

\* The block is one of those a downloader would ask for.
Whole(b) == /\ b.offset % MaxBlockSize = 0
            /\ b.size > 0
            /\ \/ b.size = MaxBlockSize
               \/ b.size < MaxBlockSize /\ b.offset + b.size = PieceLength

\* Mutant: empties the entry of a piece that fails its check, and nothing else.
AcceptBlockResets(b) ==
    LET p        == b.piece
        stored   == StoreBlock(pieces[p], b)
        complete == IsPieceComplete(p, stored)
        match    == complete /\ HashMatches(p, stored)
    IN  /\ present' = present \cup {p}
        /\ pieces' = [pieces EXCEPT ![p] =
                        IF match THEN MarkPieceAsDownloaded(p, stored)
                        ELSE IF complete THEN EmptyPiece ELSE stored]
        /\ completedPieces' = IF complete THEN completedPieces \cup {p}
                                          ELSE completedPieces
        /\ verified' = IF match THEN verified \cup {p} ELSE verified
        /\ ragged' = IF Whole(b) THEN ragged ELSE ragged \cup {p}

(***************************************************************************)
(* storePieceBlock accepts b; if that completes the piece handlePiece      *)
(* hashes it and, on a match, marks it as downloaded.  On a mismatch it    *)
(* returns: the entry stays as it is.                                      *)
(***************************************************************************)
AcceptBlock(b) ==
    LET p        == b.piece
        stored   == StoreBlock(pieces[p], b)
        complete == IsPieceComplete(p, stored)
        match    == complete /\ HashMatches(p, stored)
    IN  /\ present' = present \cup {p}
        /\ pieces' = [pieces EXCEPT ![p] = IF match
                                           THEN MarkPieceAsDownloaded(p, stored)
                                           ELSE stored]
        /\ completedPieces' = IF complete THEN completedPieces \cup {p}
                                          ELSE completedPieces
        /\ verified' = IF match THEN verified \cup {p} ELSE verified
        /\ ragged' = IF Whole(b) THEN ragged ELSE ragged \cup {p}

\* The index and range checks of handlePiece and storePieceBlock.
ValidBlock(b) == b.piece \in Piece /\ InPiece(b.offset, b.size)

\* Mutant: does not look at the bit.
StoreInRangeAgain(b) ==
    /\ alive
    /\ ValidBlock(b)
    /\ InBitmap(b.piece, b.offset)
    /\ AcceptBlock(b)
    /\ UNCHANGED <<message_queue, alive, overrun>>

\* A block whose bit is in the bitmap and not set.
StoreInRange(b) ==
    /\ alive
    /\ ValidBlock(b)
    /\ InBitmap(b.piece, b.offset)
    /\ BlockIndex(b.offset) \notin pieces[b.piece].receivedBlocks
    /\ AcceptBlock(b)
    /\ UNCHANGED <<message_queue, alive, overrun>>

(***************************************************************************)
(* A block whose bit lies beyond the bitmap: receivedBlocks[blockIndex] is *)
(* undefined behaviour.  An empty vector has no storage, so the access     *)
(* kills the process; otherwise it may also read a stray 0 (the block is   *)
(* stored) or a stray 1 (it is refused, the entry having been created).  A *)
(* stray bit that was set is taken to stay set.                            *)
(***************************************************************************)
OutOfBitmap(b) ==
    /\ alive
    /\ ValidBlock(b)
    /\ ~InBitmap(b.piece, b.offset)

OverrunCrash(b) ==
    /\ OutOfBitmap(b)
    /\ alive' = FALSE
    /\ overrun' = overrun \cup {b.piece}
    /\ UNCHANGED <<storeVars, message_queue, verified, ragged>>

OverrunReadsClear(b) ==
    /\ OutOfBitmap(b)
    /\ GetBlockCount(b.piece) > 0
    /\ BlockIndex(b.offset) \notin pieces[b.piece].receivedBlocks
    /\ AcceptBlock(b)
    /\ overrun' = overrun \cup {b.piece}
    /\ UNCHANGED <<message_queue, alive>>

OverrunReadsSet(b) ==
    /\ OutOfBitmap(b)
    /\ GetBlockCount(b.piece) > 0
    /\ present' = present \cup {b.piece}
    /\ overrun' = overrun \cup {b.piece}
    /\ UNCHANGED <<pieces, completedPieces, message_queue, alive, verified, ragged>>

HandlePiece(b) == \/ StoreInRange(b)
                  \/ OverrunCrash(b)
                  \/ OverrunReadsClear(b)
                  \/ OverrunReadsSet(b)

\* getPieceBlock succeeds: the range is inside the piece and there is an entry.
GetPieceBlock(r) == InPiece(r.offset, r.size) /\ r.piece \in present

\* The checks of handleRequest itself.
ValidRequest(r) == r.piece \in Piece /\ r.size > 0 /\ r.size <= MaxBlockSize

\* handleRequest's last line; how a Piece message looks.
Queue(peer, response) ==
    /\ Len(message_queue[peer]) < MaxQueue
    /\ message_queue' = [message_queue EXCEPT ![peer] = Append(@, response)]

Response(r, genuine) == [piece |-> r.piece, offset |-> r.offset,
                         size |-> r.size, genuine |-> genuine]

(***************************************************************************)
(* A valid request is answered from whatever the entry holds; the payload  *)
(* of the response is abstracted to whether it is the torrent's bytes.     *)
(***************************************************************************)
HandleRequest(peer, r) ==
    /\ alive
    /\ ValidRequest(r)
    /\ GetPieceBlock(r)
    /\ Queue(peer, Response(r, \A o \in r.offset .. r.offset + r.size - 1 :
                                  Genuine(r.piece, pieces[r.piece], o)))
    /\ UNCHANGED <<storeVars, alive, verified, overrun, ragged>>

(***************************************************************************)
(* blockOffset + blockSize is an int: when it overflows, the range check   *)
(* may pass and the bytes are copied from far outside the buffer.  (It may *)
(* also fail: then the request is refused, which is no step.)  The copy    *)
(* kills the process, or finds stray memory and handleRequest queues it as *)
(* its answer.                                                             *)
(***************************************************************************)
Overflows(r) ==
    /\ ValidRequest(r)
    /\ r.offset >= 0 /\ r.offset + r.size > MaxInt
    /\ r.piece \in present

RequestOverflowCrash(r) ==
    /\ alive
    /\ Overflows(r)
    /\ alive' = FALSE
    /\ UNCHANGED <<storeVars, message_queue, verified, overrun, ragged>>

RequestOverflowStray(peer, r) ==
    /\ alive
    /\ Overflows(r)
    /\ Queue(peer, Response(r, FALSE))
    /\ UNCHANGED <<storeVars, alive, verified, overrun, ragged>>

Init ==
    /\ StoreInit
    /\ message_queue = [peer \in Peers |-> <<>>]
    /\ alive = TRUE
    /\ verified = {}
    /\ overrun = {}
    /\ ragged = {}

Next == \/ \E b \in Blocks : HandlePiece(b)
        \/ \E peer \in Peers, r \in Requests : HandleRequest(peer, r)
        \/ \E r \in Requests : RequestOverflowCrash(r)
        \/ \E peer \in Peers, r \in Requests : RequestOverflowStray(peer, r)

Spec == Init /\ [][Next]_vars
-----------------------------------------------------------------------------
(***************************************************************************)
(* Properties.  A piece of which the bitmap was once accessed out of range *)
(* is beyond any promise: most of them speak of the pieces not in overrun. *)
(***************************************************************************)

\* The store, the queues and the history variables have their types.
TypeOK ==
    /\ present \subseteq Piece
    /\ pieces \in [Piece -> PieceData]
    /\ completedPieces \subseteq Piece
    /\ message_queue \in [Peers -> Seq([piece : Piece, offset : Int, size : Int,
                                        genuine : BOOLEAN])]
    /\ alive \in BOOLEAN
    /\ verified \subseteq Piece
    /\ overrun \subseteq Piece
    /\ ragged \subseteq Piece

\* A piece that handlePiece reported as verified still holds the torrent's
\* bytes, whatever blocks peers sent before and after the check: the store is
\* the only copy, and it is neither locked nor versioned after the check.
VerifiedIntact ==
    \A p \in verified \ overrun : Intact(p, pieces[p]) /\ p \in completedPieces

\* The three places that record progress agree: the counter counts the bits,
\* every bit is one of the piece's blocks, and the set of completed pieces is
\* the set of present pieces whose bits are all set.
LedgerConsistent ==
    \A p \in Piece \ overrun :
        LET pd == pieces[p] IN
        /\ pd.receivedBlocks \subseteq BlocksOf(p)
        /\ pd.receivedBlockCount = Cardinality(pd.receivedBlocks)
        /\ p \in completedPieces
              <=> p \in present /\ pd.receivedBlocks = BlocksOf(p)

\* On pieces that were only given blocks of the block grid, the bitmap
\* describes the bytes: a byte was written exactly when its block's bit is
\* set.  So a full-size piece that counts as complete has no hole in it.
BitmapDescribesData ==
    \A p \in Piece \ (overrun \cup ragged), o \in Offset :
        pieces[p].data[o] # "zero" <=> BlockIndex(o) \in pieces[p].receivedBlocks

\* No full-size piece is left complete, correct and unverified: verification
\* is attempted by the very call that completes the piece, and only a digest
\* that cannot be printed in full makes it fail on the right bytes.
CompleteRightIsVerified ==
    \A p \in completedPieces \ (overrun \cup verified) :
        FullLength(p) /\ Intact(p, pieces[p]) => p \in ShortHash

\* Out-of-range access to a bitmap is confined to the last piece, whose block
\* count is computed from the wrong length; other pieces meet it only through
\* an empty block at the very end of a piece made of whole blocks.
OverrunConfined ==
    PieceLength % MaxBlockSize # 0 \/ (\A b \in Blocks : b.size > 0)
        => overrun \subseteq {LastPiece}

\* Once a piece is complete its bytes and the outcome of its verification are
\* final: no later block changes them.  This protects verified pieces, and it
\* also means that a piece that failed its check can never be repaired.
CompletedIsFinal ==
    [][\A p \in completedPieces \ overrun' :
           /\ pieces'[p].data = pieces[p].data
           /\ p \in completedPieces'
           /\ p \in verified' <=> p \in verified]_vars

\* A response queued for a verified piece carries the torrent's bytes, unless
\* the end of the range that was asked for does not fit in an int.  That is
\* the one way past the checks: no sequence of blocks and requests makes the
\* client send anything else as a block of a piece it has verified.
ServesTorrentBytes ==
    [][\A peer \in Peers :
          message_queue'[peer] # message_queue[peer]
              => LET m == message_queue'[peer][Len(message_queue'[peer])]
                 IN  m.piece \in verified \ overrun
                        => m.genuine \/ m.offset + m.size > MaxInt]_vars

-----------------------------------------------------------------------------
(***************************************************************************)
(* What the source says of itself and the code does not do.                *)
(***************************************************************************)

\* "Check if piece is fully received" (storePieceBlock): a completed piece has
\* every byte the torrent has for it.
CompletedMeansFullyReceived ==
    \A p \in completedPieces, o \in Offset :
        (p = LastPiece => o < LastPieceLength) => pieces[p].data[o] # "zero"
=============================================================================
