------------------------ MODULE PieceTransferProofs ------------------------
(***************************************************************************)
(* Theorems about PieceTransfer, for every torrent geometry, every set of  *)
(* blocks and requests and every set of peers.                             *)
(***************************************************************************)
EXTENDS PieceTransfer, FiniteSetTheorems, TLAPS

-----------------------------------------------------------------------------
(* Integer division.                                                       *)

\* Quotient and remainder are what they should be.
LEMMA DivMod ==
    ASSUME NEW a \in Int, NEW b \in Nat \ {0}
    PROVE  /\ a \div b \in Int
           /\ a % b \in 0 .. b - 1
           /\ a = b * (a \div b) + (a % b)
  BY SMTT(10)

\* The quotient of a natural number is a natural number.
LEMMA DivNat ==
    ASSUME NEW a \in Nat, NEW b \in Nat \ {0}
    PROVE  a \div b \in Nat
  BY SMTT(10)

\* The quotient is the only number with a remainder below the divisor.
LEMMA DivUnique ==
    ASSUME NEW a \in Int, NEW b \in Nat \ {0}, NEW q \in Int,
           NEW r \in 0 .. b - 1, a = b * q + r
    PROVE  a \div b = q
  BY SMTT(10)

\* Of two multiples the larger one has the larger factor.
LEMMA FactorLess ==
    ASSUME NEW d \in Nat \ {0}, NEW a \in Int, NEW b \in Int, d * a < d * b
    PROVE  a < b
  BY SMTT(20)

\* An offset below a length lies in one of the blocks, counted rounding up.
LEMMA DivCeiling ==
    ASSUME NEW a \in Nat, NEW n \in Nat, NEW b \in Nat \ {0},
           a < n \/ (a = n /\ n % b # 0)
    PROVE  a \div b < (n + b - 1) \div b
<1> DEFINE q == a \div b
           c == (n + b - 1) \div b
<1>1. /\ q \in Int /\ a % b \in 0 .. b - 1 /\ a = b * q + (a % b)
  BY DivMod
<1>2. /\ c \in Int /\ (n + b - 1) % b \in 0 .. b - 1
      /\ n + b - 1 = b * c + ((n + b - 1) % b)
  <2>1. n + b - 1 \in Int
    OBVIOUS
  <2> QED BY <2>1, DivMod
<1>3. n <= b * c
  BY <1>2
<1>4. b * q < b * c
  <2>1. CASE a < n
    BY <2>1, <1>1, <1>3
  <2>2. CASE a = n /\ n % b # 0
    BY <2>2, <1>1, <1>3
  <2> QED BY <2>1, <2>2
<1> HIDE DEF q, c
<1>5. q < c
  BY <1>1, <1>2, <1>4, FactorLess
<1> QED BY <1>5 DEF q, c

-----------------------------------------------------------------------------
(* What the store gets from TorrentFileParser.                             *)

Torrent == INSTANCE Geometry WITH IntMax <- MaxInt

\* An integer type keeps the numbers it has values for, and gives every other
\* number one of its values.
LEMMA WrapsInRange ==
    ASSUME NEW n \in Int, NEW max \in Nat
    PROVE  /\ Torrent!Wrap(n, max) \in -max - 1 .. max
           /\ n \in -max - 1 .. max => Torrent!Wrap(n, max) = n
<1> DEFINE m == 2 * (max + 1)
           x == n + max + 1
<1>1. m \in Nat \ {0} /\ x \in Int
  OBVIOUS
<1>2. Torrent!Wrap(n, max) = (x % m) - (max + 1)
  BY DEF Torrent!Wrap
<1>3. x % m \in 0 .. m - 1 /\ x = m * (x \div m) + (x % m)
  <2> HIDE DEF m, x
  <2> QED BY <1>1, DivMod
<1>4. ASSUME n \in -max - 1 .. max
      PROVE  x % m = x
  <2>1. x \in 0 .. m - 1 /\ x = m * 0 + x
    BY <1>4
  <2>2. x \div m = 0
    <3> HIDE DEF m, x
    <3> QED BY <1>1, <2>1, DivUnique
  <2> HIDE DEF m, x
  <2> QED BY <1>1, <1>3, <2>1, <2>2
<1>5. Torrent!Wrap(n, max) \in -max - 1 .. max
  BY <1>2, <1>3
<1> QED BY <1>2, <1>4, <1>5

\* Multiples of a positive number are in the order of their factors.
LEMMA FactorsInOrder ==
    ASSUME NEW d \in Nat \ {0}, NEW a \in Int, NEW b \in Int, a <= b
    PROVE  a * d <= b * d
<1>1. SUFFICES ASSUME ~(a * d <= b * d) PROVE FALSE
  OBVIOUS
<1>2. d * b < d * a
  BY <1>1, SMTT(20)
<1> QED BY <1>2, FactorLess

\* How many pieces it takes, before the number is stored in an int.
LEMMA PiecesNeeded ==
    ASSUME NEW total \in Nat, NEW pieceLength \in Nat \ {0}
    PROVE  \E needed \in Nat :
              /\ Torrent!NumPieces(total, pieceLength) = Torrent!Wrap(needed, MaxInt)
              /\ (needed - 1) * pieceLength < total
              /\ total <= needed * pieceLength
<1> DEFINE q == total \div pieceLength
           r == total % pieceLength
           needed == q + IF r > 0 THEN 1 ELSE 0
<1>1. q \in Nat
  BY DivNat
<1>2. r \in 0 .. pieceLength - 1 /\ total = pieceLength * q + r
  BY DivMod
<1>3. Torrent!Quotient(total, pieceLength) = q
  BY DEF Torrent!Quotient, Torrent!Magnitude
<1> HIDE DEF q, r
<1>4. Torrent!Remainder(total, pieceLength) = r
  <2>1. pieceLength * q \in Int
    BY <1>1
  <2> QED BY <1>2, <1>3, <2>1 DEF Torrent!Remainder
<1>5. Torrent!NumPieces(total, pieceLength) = Torrent!Wrap(needed, MaxInt)
  BY <1>3, <1>4 DEF Torrent!NumPieces
<1>6. needed \in Nat
  BY <1>1, <1>2
<1>7. /\ (needed - 1) * pieceLength
            = pieceLength * q - IF r > 0 THEN 0 ELSE pieceLength
      /\ needed * pieceLength
            = pieceLength * q + IF r > 0 THEN pieceLength ELSE 0
  <2>1. CASE r > 0
    BY <1>1, <2>1
  <2>2. CASE ~(r > 0)
    BY <1>1, <2>2
  <2> QED BY <2>1, <2>2
<1>8. pieceLength * q \in Nat
  BY <1>1
<1> HIDE DEF needed
<1>9. (needed - 1) * pieceLength < total /\ total <= needed * pieceLength
  BY <1>2, <1>7, <1>8
<1> QED BY <1>5, <1>6, <1>9

(***************************************************************************)
(* The numPieces of a parsed torrent is the number of pieces its bytes     *)
(* need, and no more, exactly if no length is negative and that number     *)
(* fits in an int, for every total size and every piece length by which    *)
(* parse() may divide.  Then a torrent that is not empty has a last piece  *)
(* of 1 to pieceLength bytes, which is all that PieceTransfer assumes of   *)
(* LastPieceLength.  This is the part of GeometryRight of TorrentFile that *)
(* follows the parser.                                                     *)
(***************************************************************************)
THEOREM GeometryFits ==
    ASSUME NEW total \in Int, NEW pieceLength \in Int \ {0}
    PROVE  LET count == Torrent!NumPieces(total, pieceLength)
               before == (count - 1) * pieceLength
               fits == 0 <= total /\ before < total /\ total <= count * pieceLength
           IN  /\ fits <=> /\ pieceLength > 0
                           /\ total \in 0 .. MaxInt * pieceLength
               /\ fits /\ total > 0 => /\ count > 0
                                       /\ total - before \in 1 .. pieceLength
<1> DEFINE count == Torrent!NumPieces(total, pieceLength)
           before == (count - 1) * pieceLength
           fits == 0 <= total /\ before < total /\ total <= count * pieceLength
           some == Torrent!Quotient(total, pieceLength)
                       + IF Torrent!Remainder(total, pieceLength) > 0 THEN 1 ELSE 0
<1>1. MaxInt \in Nat
  BY TransferAssumption
<1>2. count \in Int
  <2>1. /\ Torrent!Magnitude(total) \in Nat
        /\ Torrent!Magnitude(pieceLength) \in Nat \ {0}
    BY DEF Torrent!Magnitude
  <2>2. Torrent!Quotient(total, pieceLength) \in Int
    BY <2>1, DivNat DEF Torrent!Quotient
  <2>3. some \in Int
    BY <2>2
  <2>4. count = Torrent!Wrap(some, MaxInt)
    BY DEF Torrent!NumPieces
  <2> HIDE DEF some, count
  <2> QED BY <1>1, <2>3, <2>4, WrapsInRange
<1> HIDE DEF count
<1>3. before \in Int /\ count * pieceLength = before + pieceLength
  <2>1. count * pieceLength \in Int /\ before = count * pieceLength - pieceLength
    BY <1>2
  <2> HIDE DEF before
  <2> QED BY <2>1
<1> HIDE DEF before
<1>4. fits => pieceLength > 0
  BY <1>3
<1>5. ASSUME pieceLength > 0, 0 <= total
      PROVE  /\ fits <=> total <= MaxInt * pieceLength
             /\ fits /\ total > 0 => count > 0
  <2>1. pieceLength \in Nat \ {0} /\ total \in Nat
    BY <1>5
  <2>2. PICK needed \in Nat :
           /\ count = Torrent!Wrap(needed, MaxInt)
           /\ (needed - 1) * pieceLength < total
           /\ total <= needed * pieceLength
    BY <2>1, PiecesNeeded DEF count
  <2>3. CASE needed <= MaxInt
    <3>1. count = needed
      BY <1>1, <2>2, <2>3, WrapsInRange
    <3>2. needed * pieceLength <= MaxInt * pieceLength
      BY <1>1, <2>1, <2>3, FactorsInOrder
    <3>3. needed * pieceLength \in Int /\ MaxInt * pieceLength \in Int
      BY <1>1, <2>1
    <3>4. fits /\ total <= MaxInt * pieceLength
      BY <1>5, <2>1, <2>2, <3>1, <3>2, <3>3 DEF before
    <3>5. total > 0 => needed > 0
      <4>1. SUFFICES ASSUME needed = 0 PROVE total <= 0
        BY <2>1
      <4> QED BY <2>1, <2>2, <4>1
    <3> QED BY <3>1, <3>4, <3>5
  <2>4. CASE ~(needed <= MaxInt)
    <3>1. count <= needed - 1
      BY <1>1, <1>2, <2>2, <2>4, WrapsInRange
    <3>2. count * pieceLength <= (needed - 1) * pieceLength
      BY <1>2, <2>1, <3>1, FactorsInOrder
    <3>3. MaxInt * pieceLength <= (needed - 1) * pieceLength
      BY <1>1, <2>1, <2>4, FactorsInOrder
    <3>4. /\ count * pieceLength \in Int /\ MaxInt * pieceLength \in Int
          /\ (needed - 1) * pieceLength \in Int
      BY <1>1, <1>2, <2>1
    <3> QED BY <2>1, <2>2, <3>2, <3>3, <3>4
  <2> QED BY <2>3, <2>4
<1>6. MaxInt * pieceLength \in Int
  BY <1>1
<1>7. fits => total - before \in 1 .. pieceLength
  BY <1>3
<1> QED BY <1>4, <1>5, <1>6, <1>7 DEF count, before

(***************************************************************************)
(* extractPieces cuts one digest for every multiple of the digest's length *)
(* that "pieces" reaches, and leaves out what is behind the last one,      *)
(* whatever the lengths.                                                   *)
(***************************************************************************)
THEOREM DigestsAreWhole ==
    ASSUME NEW length \in Nat, NEW digestLength \in Nat \ {0}
    PROVE  LET ends == {n \in 1 .. length : n % digestLength = 0}
           IN  /\ IsFiniteSet(ends)
               /\ Cardinality(ends) = Torrent!NumDigests(length, digestLength)
<1> DEFINE count == length \div digestLength
           ends == {n \in 1 .. length : n % digestLength = 0}
           end == [k \in 1 .. count |-> k * digestLength]
<1>1. /\ count \in Nat /\ length % digestLength \in 0 .. digestLength - 1
      /\ length = digestLength * count + (length % digestLength)
  <2>1. count \in Nat
    BY DivNat
  <2>2. /\ length % digestLength \in 0 .. digestLength - 1
        /\ length = digestLength * count + (length % digestLength)
    <3>1. length \in Int
      OBVIOUS
    <3> QED BY <3>1, DivMod
  <2> QED BY <2>1, <2>2
<1> HIDE DEF count, end
<1>2. \A k \in 1 .. count : k * digestLength \in 1 .. length /\ end[k] = k * digestLength
  <2>1. ASSUME NEW k \in 1 .. count PROVE k * digestLength <= count * digestLength
    BY <1>1, <2>1, SMTT(20)
  <2> QED BY <1>1, <2>1 DEF end
<1>3. ASSUME NEW k \in 1 .. count PROVE end[k] \in ends
  <2> DEFINE n == k * digestLength
  <2>1. n \in 1 .. length /\ end[k] = n
    BY <1>2
  <2>2. n = digestLength * k + 0
    BY <1>1
  <2> HIDE DEF n
  <2>3. n \div digestLength = k
    BY <1>1, <2>1, <2>2, DivUnique
  <2>4. n = digestLength * k + (n % digestLength) /\ n % digestLength \in Int
    <3>1. n \in Int
      BY <2>1
    <3>2. n = digestLength * (n \div digestLength) + (n % digestLength)
      BY <3>1, DivMod
    <3>3. n % digestLength \in 0 .. digestLength - 1
      BY <3>1, DivMod
    <3> QED BY <2>3, <3>2, <3>3
  <2>5. digestLength * k \in Int
    BY <1>1
  <2>6. n % digestLength = 0
    BY <2>2, <2>4, <2>5
  <2> QED BY <2>1, <2>6
<1>4. ASSUME NEW n \in ends PROVE \E k \in 1 .. count : end[k] = n
  <2> DEFINE k == n \div digestLength
  <2>1. n \in Nat /\ n >= 1 /\ n <= length /\ n % digestLength = 0
    OBVIOUS
  <2>2. k \in Nat /\ n = digestLength * k
    <3>1. k \in Nat
      BY <2>1, DivNat
    <3>2. n = digestLength * k + (n % digestLength)
      BY <2>1, DivMod
    <3> QED BY <2>1, <3>1, <3>2
  <2> HIDE DEF k
  <2>3. k >= 1
    BY <2>1, <2>2
  <2>4. k <= count
    <3>1. digestLength * k < digestLength * (count + 1)
      BY <1>1, <2>1, <2>2
    <3>2. k \in Int /\ count + 1 \in Int
      BY <1>1, <2>2
    <3>3. k < count + 1
      BY <3>1, <3>2, FactorLess
    <3> QED BY <3>2, <3>3, <1>1
  <2>5. k \in 1 .. count /\ k * digestLength = n
    BY <1>1, <2>2, <2>3, <2>4
  <2>6. end[k] = n
    BY <1>2, <2>5
  <2> QED BY <2>5, <2>6
<1>5. ExistsBijection(1 .. count, ends)
  <2>1. ASSUME NEW k \in 1 .. count, NEW l \in 1 .. count, end[k] = end[l]
        PROVE  k = l
    <3>1. k * digestLength = l * digestLength
      BY <1>2, <2>1
    <3> QED BY <1>1, <3>1, SMTT(20)
  <2>2. end \in [1 .. count -> ends]
    BY <1>3 DEF end
  <2>3. end \in Bijection(1 .. count, ends)
    BY <1>4, <2>1, <2>2 DEF Bijection, Injection, Surjection, IsInjective
  <2> QED BY <2>3 DEF ExistsBijection
<1>6. count = Torrent!NumDigests(length, digestLength)
  BY DEF count, Torrent!NumDigests
<1>7. IsFiniteSet(ends) /\ Cardinality(ends) = count
  BY <1>1, <1>5, FS_NatBijection, FS_CountingElements
<1> QED BY <1>6, <1>7

-----------------------------------------------------------------------------
(* The geometry of pieces and the operators on entries.                    *)

\* A piece has a natural number of blocks, and BlocksOf counts them.
LEMMA BlockCount ==
    ASSUME NEW p \in Piece
    PROVE  /\ GetBlockCount(p) \in Nat
           /\ IsFiniteSet(BlocksOf(p))
           /\ Cardinality(BlocksOf(p)) = GetBlockCount(p)
<1> DEFINE size == IF p = LastPiece THEN PieceLength % MaxBlockSize ELSE PieceLength
<1>1. size \in Nat
  BY SizesAssumption, DivMod
<1>2. size + MaxBlockSize - 1 \in Nat
  BY <1>1, SizesAssumption
<1> HIDE DEF size
<1>3. (size + MaxBlockSize - 1) \div MaxBlockSize \in Nat
  BY <1>2, DivNat, SizesAssumption
<1>4. GetBlockCount(p) \in Nat
  BY <1>3 DEF GetBlockCount, size
<1>5. /\ IsFiniteSet(0 .. GetBlockCount(p) - 1)
      /\ Cardinality(0 .. GetBlockCount(p) - 1) = GetBlockCount(p)
  <2> DEFINE n == GetBlockCount(p)
  <2>1. n \in Nat
    BY <1>4
  <2> HIDE DEF n
  <2>2. 0 \in Int /\ n - 1 \in Int
    BY <2>1
  <2>3. /\ IsFiniteSet(0 .. n - 1)
        /\ Cardinality(0 .. n - 1) = IF 0 > n - 1 THEN 0 ELSE (n - 1) - 0 + 1
    BY <2>2, FS_Interval
  <2>4. (IF 0 > n - 1 THEN 0 ELSE (n - 1) - 0 + 1) = n
    BY <2>1
  <2>5. Cardinality(0 .. n - 1) = n
    BY <2>3, <2>4
  <2> QED BY <2>3, <2>5 DEF n
<1> QED BY <1>4, <1>5 DEF BlocksOf

\* A valid block has an index in the bitmap's range or beyond it.
LEMMA ValidIndex ==
    ASSUME NEW b \in Blocks, ValidBlock(b)
    PROVE  /\ b.piece \in Piece
           /\ b.offset \in Nat /\ b.size \in Nat
           /\ b.content \in {"right", "wrong"}
           /\ b.offset + b.size <= PieceLength
           /\ BlockIndex(b.offset) \in Nat
<1>1. b \in [piece : Int, offset : Int, size : Nat, content : {"right", "wrong"}]
  BY TransferAssumption
<1>2. b.offset \in Nat /\ b.size \in Nat /\ b.offset + b.size <= PieceLength
  BY <1>1, SizesAssumption DEF ValidBlock, InPiece
<1>3. b.offset \div MaxBlockSize \in Nat
  BY <1>2, DivNat, SizesAssumption
<1> QED BY <1>1, <1>2, <1>3 DEF ValidBlock, BlockIndex

\* An entry is still an entry after storing a block or after being marked.
LEMMA EntryTyped ==
    /\ EmptyPiece \in PieceData
    /\ \A b \in Blocks, pd \in PieceData :
          ValidBlock(b) => StoreBlock(pd, b) \in PieceData
    /\ \A p \in Piece, pd \in PieceData : MarkPieceAsDownloaded(p, pd) \in PieceData
<1>1. EmptyPiece \in PieceData
  BY DEF EmptyPiece, PieceData, Byte
<1>2. ASSUME NEW b \in Blocks, NEW pd \in PieceData, ValidBlock(b)
      PROVE  StoreBlock(pd, b) \in PieceData
  BY <1>2, ValidIndex DEF StoreBlock, PieceData, Byte
<1>3. ASSUME NEW p \in Piece, NEW pd \in PieceData
      PROVE  MarkPieceAsDownloaded(p, pd) \in PieceData
  <2>1. GetBlockCount(p) \in Nat /\ BlocksOf(p) \subseteq Nat
    BY BlockCount DEF BlocksOf
  <2> QED BY <2>1 DEF MarkPieceAsDownloaded, PieceData
<1> QED BY <1>1, <1>2, <1>3

-----------------------------------------------------------------------------
(* Type correctness.                                                       *)

\* Accepting a block leaves the store and its histories typed.
LEMMA AcceptTyped ==
    ASSUME TypeOK, NEW b \in Blocks, ValidBlock(b), AcceptBlock(b)
    PROVE  /\ present' \subseteq Piece
           /\ pieces' \in [Piece -> PieceData]
           /\ completedPieces' \subseteq Piece
           /\ verified' \subseteq Piece
           /\ ragged' \subseteq Piece
<1> DEFINE p == b.piece
           stored == StoreBlock(pieces[p], b)
<1>1. p \in Piece
  BY ValidIndex
<1>2. stored \in PieceData
  BY <1>1, EntryTyped DEF TypeOK
<1>3. MarkPieceAsDownloaded(p, stored) \in PieceData
  BY <1>1, <1>2, EntryTyped
<1> HIDE DEF stored
<1>4. pieces' \in [Piece -> PieceData]
  BY <1>1, <1>2, <1>3 DEF TypeOK, AcceptBlock, stored
<1> QED BY <1>1, <1>4 DEF TypeOK, AcceptBlock

Answer == [piece : Piece, offset : Int, size : Int, genuine : BOOLEAN]

\* What handleRequest queues is a response.
LEMMA QueueTyped ==
    ASSUME TypeOK, NEW peer \in Peers, NEW r \in Requests, ValidRequest(r),
           NEW genuine \in BOOLEAN, Queue(peer, Response(r, genuine))
    PROVE  message_queue' \in [Peers -> Seq(Answer)]
<1>1. Response(r, genuine) \in Answer
  BY TransferAssumption DEF ValidRequest, Response, Answer
<1>2. message_queue \in [Peers -> Seq(Answer)]
  BY DEF TypeOK, Answer
<1>3. message_queue'
         = [message_queue EXCEPT ![peer] = Append(@, Response(r, genuine))]
  BY DEF Queue
<1>4. Append(message_queue[peer], Response(r, genuine)) \in Seq(Answer)
  BY <1>1, <1>2
<1> QED BY <1>2, <1>3, <1>4

\* Every step keeps the types.
LEMMA TypeStep ==
    ASSUME TypeOK, [Next]_vars
    PROVE  TypeOK'
<1>1. ASSUME NEW b \in Blocks, StoreInRange(b)
      PROVE  TypeOK'
  BY <1>1, AcceptTyped DEF StoreInRange, TypeOK
<1>2. ASSUME NEW b \in Blocks, OverrunCrash(b)
      PROVE  TypeOK'
  BY <1>2 DEF OverrunCrash, OutOfBitmap, ValidBlock, TypeOK, storeVars
<1>3. ASSUME NEW b \in Blocks, OverrunReadsClear(b)
      PROVE  TypeOK'
  BY <1>3, AcceptTyped DEF OverrunReadsClear, OutOfBitmap, ValidBlock, TypeOK
<1>4. ASSUME NEW b \in Blocks, OverrunReadsSet(b)
      PROVE  TypeOK'
  BY <1>4 DEF OverrunReadsSet, OutOfBitmap, ValidBlock, TypeOK
<1>5. ASSUME NEW peer \in Peers, NEW r \in Requests, HandleRequest(peer, r)
      PROVE  TypeOK'
  <2>1. message_queue' \in [Peers -> Seq(Answer)]
    <3> DEFINE genuine == \A o \in r.offset .. r.offset + r.size - 1 :
                             Genuine(r.piece, pieces[r.piece], o)
    <3>1. genuine \in BOOLEAN
      BY Zenon
    <3>2. Queue(peer, Response(r, genuine)) /\ ValidRequest(r)
      BY <1>5 DEF HandleRequest
    <3> HIDE DEF genuine
    <3> QED BY <3>1, <3>2, QueueTyped
  <2> QED BY <1>5, <2>1 DEF HandleRequest, TypeOK, Answer, storeVars
<1>6. ASSUME NEW r \in Requests, RequestOverflowCrash(r)
      PROVE  TypeOK'
  BY <1>6 DEF RequestOverflowCrash, TypeOK, storeVars
<1>8. ASSUME NEW peer \in Peers, NEW r \in Requests, RequestOverflowStray(peer, r)
      PROVE  TypeOK'
  <2>1. message_queue' \in [Peers -> Seq(Answer)]
    BY <1>8, QueueTyped DEF RequestOverflowStray, Overflows
  <2> QED BY <1>8, <2>1 DEF RequestOverflowStray, TypeOK, Answer, storeVars
<1>7. CASE UNCHANGED vars
  BY <1>7 DEF vars, storeVars, transferVars, TypeOK
<1> QED BY <1>1, <1>2, <1>3, <1>4, <1>5, <1>6, <1>7, <1>8 DEF Next, HandlePiece

\* The type invariant holds in every reachable state.
THEOREM TypeCorrect == Spec => []TypeOK
<1>1. Init => TypeOK
  BY EntryTyped DEF Init, StoreInit, TypeOK
<1>2. TypeOK /\ [Next]_vars => TypeOK'
  BY TypeStep
<1> QED BY <1>1, <1>2, PTL DEF Spec

-----------------------------------------------------------------------------
(* What a step does to a piece whose bitmap was only accessed in range.    *)

Untouched(p) == /\ pieces'[p] = pieces[p]
                /\ p \in present' <=> p \in present
                /\ p \in completedPieces' <=> p \in completedPieces
                /\ p \in verified' <=> p \in verified
                /\ p \in ragged' <=> p \in ragged

\* A block for one piece leaves the others alone.
LEMMA AcceptOnlyOwnPiece ==
    ASSUME TypeOK, NEW b \in Blocks, ValidBlock(b), AcceptBlock(b),
           NEW p \in Piece, p # b.piece
    PROVE  Untouched(p)
  BY ValidIndex DEF AcceptBlock, Untouched, TypeOK

\* Every step leaves p alone or stores a block of p in range.
LEMMA StepOfPiece ==
    ASSUME TypeOK, [Next]_vars, NEW p \in Piece, p \notin overrun'
    PROVE  /\ p \notin overrun
           /\ Untouched(p) \/ \E b \in Blocks : b.piece = p /\ StoreInRange(b)
<1>1. ASSUME NEW b \in Blocks, StoreInRange(b)
      PROVE  p \notin overrun /\ (Untouched(p) \/ (b.piece = p /\ StoreInRange(b)))
  BY <1>1, AcceptOnlyOwnPiece DEF StoreInRange
<1>2. ASSUME NEW b \in Blocks, OverrunCrash(b)
      PROVE  p \notin overrun /\ Untouched(p)
  BY <1>2 DEF OverrunCrash, Untouched, storeVars
<1>3. ASSUME NEW b \in Blocks, OverrunReadsClear(b)
      PROVE  p \notin overrun /\ Untouched(p)
  BY <1>3, AcceptOnlyOwnPiece DEF OverrunReadsClear, OutOfBitmap
<1>4. ASSUME NEW b \in Blocks, OverrunReadsSet(b)
      PROVE  p \notin overrun /\ Untouched(p)
  BY <1>4 DEF OverrunReadsSet, Untouched
<1>5. ASSUME NEW peer \in Peers, NEW r \in Requests, HandleRequest(peer, r)
      PROVE  p \notin overrun /\ Untouched(p)
  BY <1>5 DEF HandleRequest, Untouched, storeVars
<1>6. ASSUME NEW r \in Requests, RequestOverflowCrash(r)
      PROVE  p \notin overrun /\ Untouched(p)
  BY <1>6 DEF RequestOverflowCrash, Untouched, storeVars
<1>8. ASSUME NEW peer \in Peers, NEW r \in Requests, RequestOverflowStray(peer, r)
      PROVE  p \notin overrun /\ Untouched(p)
  BY <1>8 DEF RequestOverflowStray, Untouched, storeVars
<1>7. CASE UNCHANGED vars
  BY <1>7 DEF vars, storeVars, transferVars, Untouched
<1> QED BY <1>1, <1>2, <1>3, <1>4, <1>5, <1>6, <1>7, <1>8 DEF Next, HandlePiece

\* Storing a block in range: the piece was not complete, exactly one bit and
\* the counter move, and it is complete when that was the last bit.
LEMMA StoreEffect ==
    ASSUME TypeOK, LedgerConsistent, NEW b \in Blocks, StoreInRange(b),
           b.piece \notin overrun
    PROVE  LET p == b.piece
               i == BlockIndex(b.offset)
           IN  /\ p \in Piece /\ p \notin completedPieces /\ p \in present'
               /\ i \in BlocksOf(p) /\ i \notin pieces[p].receivedBlocks
               /\ pieces'[p].data = StoreBlock(pieces[p], b).data
               /\ pieces'[p].receivedBlocks = pieces[p].receivedBlocks \cup {i}
               /\ pieces'[p].receivedBlocks \subseteq BlocksOf(p)
               /\ pieces'[p].receivedBlockCount = Cardinality(pieces'[p].receivedBlocks)
               /\ p \in completedPieces' <=> pieces'[p].receivedBlocks = BlocksOf(p)
               /\ p \in verified' <=> \/ p \in verified
                                      \/ /\ p \in completedPieces'
                                         /\ HashMatches(p, pieces'[p])
               /\ p \in ragged' <=> p \in ragged \/ ~Whole(b)
<1> DEFINE p == b.piece
           i == BlockIndex(b.offset)
           pd == pieces[p]
           stored == StoreBlock(pd, b)
           bits == pd.receivedBlocks \cup {i}
<1>1. /\ p \in Piece /\ i \in BlocksOf(p) /\ i \notin pd.receivedBlocks
      /\ AcceptBlock(b)
  BY ValidIndex DEF StoreInRange, InBitmap
<1>2. /\ pd.receivedBlocks \subseteq BlocksOf(p)
      /\ pd.receivedBlockCount = Cardinality(pd.receivedBlocks)
      /\ p \in completedPieces => pd.receivedBlocks = BlocksOf(p)
  BY <1>1 DEF LedgerConsistent
<1>3. IsFiniteSet(pd.receivedBlocks) /\ IsFiniteSet(bits) /\ bits \subseteq BlocksOf(p)
  BY <1>1, <1>2, BlockCount, FS_Subset, FS_AddElement
<1>4. Cardinality(bits) = pd.receivedBlockCount + 1
  BY <1>1, <1>2, <1>3, FS_AddElement
<1>5. Cardinality(bits) = GetBlockCount(p) <=> bits = BlocksOf(p)
  BY <1>1, <1>3, BlockCount, FS_Subset
<1>6. /\ stored.data = StoreBlock(pd, b).data
      /\ stored.receivedBlocks = bits
      /\ stored.receivedBlockCount = Cardinality(bits)
  BY <1>4 DEF StoreBlock
<1>7. IsPieceComplete(p, stored) <=> bits = BlocksOf(p)
  BY <1>5, <1>6 DEF IsPieceComplete
<1> DEFINE marked == MarkPieceAsDownloaded(p, stored)
<1>8. bits = BlocksOf(p) => /\ marked.data = stored.data
                            /\ marked.receivedBlocks = bits
                            /\ marked.receivedBlockCount = Cardinality(bits)
  BY <1>5, <1>6 DEF MarkPieceAsDownloaded
<1> HIDE DEF stored, marked, pd
<1>9. pieces'[p] = IF bits = BlocksOf(p) /\ HashMatches(p, stored)
                   THEN marked ELSE stored
  BY <1>1, <1>7 DEF AcceptBlock, TypeOK, stored, marked, pd
<1>10. /\ pieces'[p].data = stored.data
       /\ pieces'[p].receivedBlocks = bits
       /\ pieces'[p].receivedBlockCount = Cardinality(bits)
  BY <1>6, <1>8, <1>9
<1>11. HashMatches(p, pieces'[p]) <=> HashMatches(p, stored)
  BY <1>10 DEF HashMatches, Intact, Genuine
<1>12. p \notin completedPieces
  BY <1>1, <1>2
<1>13. /\ p \in present'
       /\ p \in completedPieces' <=> bits = BlocksOf(p)
       /\ p \in verified' <=> \/ p \in verified
                              \/ bits = BlocksOf(p) /\ HashMatches(p, stored)
       /\ p \in ragged' <=> p \in ragged \/ ~Whole(b)
  BY <1>1, <1>7, <1>12 DEF AcceptBlock, stored, pd
<1> QED BY <1>1, <1>3, <1>6, <1>10, <1>11, <1>12, <1>13 DEF stored, pd

-----------------------------------------------------------------------------
(* The invariants.                                                         *)

\* Every step keeps the counter, the bitmap and completedPieces in agreement.
LEMMA LedgerStep ==
    ASSUME TypeOK, LedgerConsistent, [Next]_vars
    PROVE  LedgerConsistent'
<1> SUFFICES ASSUME NEW p \in Piece, p \notin overrun'
             PROVE  /\ pieces'[p].receivedBlocks \subseteq BlocksOf(p)
                    /\ pieces'[p].receivedBlockCount = Cardinality(pieces'[p].receivedBlocks)
                    /\ p \in completedPieces'
                         <=> p \in present' /\ pieces'[p].receivedBlocks = BlocksOf(p)
  BY DEF LedgerConsistent, BlocksOf, GetBlockCount, LastPiece, Piece
<1>1. p \notin overrun
  BY StepOfPiece
<1>2. CASE Untouched(p)
  BY <1>1, <1>2 DEF LedgerConsistent, Untouched
<1>3. ASSUME NEW b \in Blocks, b.piece = p, StoreInRange(b)
      PROVE  /\ pieces'[p].receivedBlocks \subseteq BlocksOf(p)
             /\ pieces'[p].receivedBlockCount = Cardinality(pieces'[p].receivedBlocks)
             /\ p \in completedPieces'
                  <=> p \in present' /\ pieces'[p].receivedBlocks = BlocksOf(p)
  BY <1>1, <1>3, StoreEffect
<1> QED BY <1>2, <1>3, StepOfPiece

\* The bookkeeping of storePieceBlock and markPieceAsDownloaded agrees with
\* itself, in every reachable state.
THEOREM LedgerIsConsistent == Spec => []LedgerConsistent
<1>1. Init => LedgerConsistent
  <2>1. Cardinality({}) = 0
    BY FS_EmptySet
  <2>2. Init => /\ present = {} /\ completedPieces = {}
                /\ \A p \in Piece : /\ pieces[p].receivedBlocks = {}
                                    /\ pieces[p].receivedBlockCount = 0
    BY DEF Init, StoreInit, EmptyPiece
  <2> QED BY <2>1, <2>2 DEF LedgerConsistent
<1>2. TypeOK /\ LedgerConsistent /\ [Next]_vars => LedgerConsistent'
  BY LedgerStep
<1> QED BY <1>1, <1>2, TypeCorrect, PTL DEF Spec

\* What was verified stays intact: with the ledger, no block of a verified
\* piece finds a clear bit.
LEMMA VerifiedStep ==
    ASSUME TypeOK, LedgerConsistent, VerifiedIntact, [Next]_vars
    PROVE  VerifiedIntact'
<1> SUFFICES ASSUME NEW p \in Piece, p \in verified', p \notin overrun'
             PROVE  Intact(p, pieces'[p]) /\ p \in completedPieces'
  <2>1. verified' \subseteq Piece
    <3>1. TypeOK'
      BY TypeStep
    <3> QED BY <3>1 DEF TypeOK
  <2> QED BY <2>1 DEF VerifiedIntact, Intact, Genuine
<1>1. p \notin overrun
  BY StepOfPiece
<1>2. CASE Untouched(p)
  BY <1>1, <1>2 DEF VerifiedIntact, Untouched
<1>3. ASSUME NEW b \in Blocks, b.piece = p, StoreInRange(b)
      PROVE  Intact(p, pieces'[p]) /\ p \in completedPieces'
  <2>1. p \notin completedPieces /\ (\/ p \in verified
                                     \/ /\ p \in completedPieces'
                                        /\ HashMatches(p, pieces'[p]))
    BY <1>1, <1>3, StoreEffect
  <2>2. p \notin verified
    BY <1>1, <2>1 DEF VerifiedIntact
  <2> QED BY <2>1, <2>2 DEF HashMatches
<1> QED BY <1>2, <1>3, StepOfPiece

\* A verified piece holds the torrent's bytes for as long as the program runs.
THEOREM VerifiedStaysIntact == Spec => []VerifiedIntact
<1>1. Init => VerifiedIntact
  BY DEF Init, VerifiedIntact
<1>2. TypeOK /\ LedgerConsistent /\ VerifiedIntact /\ [Next]_vars => VerifiedIntact'
  BY VerifiedStep
<1> QED BY <1>1, <1>2, TypeCorrect, LedgerIsConsistent, PTL DEF Spec

\* A complete piece never changes again, nor does the outcome of its check.
THEOREM CompletionIsFinal == Spec => CompletedIsFinal
<1>1. ASSUME TypeOK, LedgerConsistent, [Next]_vars, NEW p \in completedPieces \ overrun'
      PROVE  /\ pieces'[p].data = pieces[p].data
             /\ p \in completedPieces'
             /\ p \in verified' <=> p \in verified
  <2>1. p \in Piece /\ p \notin overrun
    BY <1>1, StepOfPiece DEF TypeOK
  <2>2. ASSUME NEW b \in Blocks, b.piece = p, StoreInRange(b)
        PROVE  FALSE
    BY <1>1, <2>1, <2>2, StoreEffect
  <2>3. Untouched(p)
    BY <1>1, <2>1, <2>2, StepOfPiece
  <2> QED BY <1>1, <2>3 DEF Untouched
<1>2. TypeOK /\ LedgerConsistent /\ [Next]_vars
        => [\A p \in completedPieces \ overrun' :
               /\ pieces'[p].data = pieces[p].data
               /\ p \in completedPieces'
               /\ p \in verified' <=> p \in verified]_vars
  BY <1>1
<1> QED BY <1>2, TypeCorrect, LedgerIsConsistent, PTL DEF Spec, CompletedIsFinal

\* The queue that changed ends with the response.
LEMMA LastInQueue ==
    ASSUME TypeOK, NEW peer \in Peers, NEW response, Queue(peer, response),
           NEW q \in Peers, message_queue'[q] # message_queue[q]
    PROVE  message_queue'[q][Len(message_queue'[q])] = response
<1>1. q = peer /\ message_queue'[q] = Append(message_queue[q], response)
  BY DEF Queue, TypeOK
<1>2. message_queue[q] \in Seq(Answer)
  BY DEF TypeOK, Answer
<1> QED BY <1>1, <1>2

\* Every response queued for a verified piece carries the torrent's bytes,
\* unless the end of the range asked for is not an int: the checks let that
\* range pass, wherever it lies, and no other range outside the piece.
THEOREM ResponsesAreGenuine == Spec => ServesTorrentBytes
<1> DEFINE Sound == \A peer \in Peers :
          message_queue'[peer] # message_queue[peer]
              => LET m == message_queue'[peer][Len(message_queue'[peer])]
                 IN  m.piece \in verified \ overrun
                        => m.genuine \/ m.offset + m.size > MaxInt
<1>1. ASSUME TypeOK, VerifiedIntact, [Next]_vars
      PROVE  Sound
  <2>1. ASSUME NEW peer \in Peers, NEW r \in Requests, HandleRequest(peer, r)
        PROVE  Sound
    <3> DEFINE genuine == \A o \in r.offset .. r.offset + r.size - 1 :
                             Genuine(r.piece, pieces[r.piece], o)
               response == Response(r, genuine)
    <3>1. Queue(peer, response)
      BY <2>1 DEF HandleRequest
    <3>2. r.piece \in verified \ overrun => genuine
      <4>1. r.offset .. r.offset + r.size - 1 \subseteq Offset
        <5>1. r \in [piece : Int, offset : Int, size : Int]
          BY TransferAssumption
        <5> QED BY <2>1, <5>1, SizesAssumption
                DEF HandleRequest, GetPieceBlock, InPiece, Offset
      <4> QED BY <1>1, <4>1 DEF VerifiedIntact, Intact
    <3>3. response.piece = r.piece /\ response.genuine = genuine
      BY DEF Response
    <3> HIDE DEF genuine, response
    <3>4. ASSUME NEW q \in Peers, message_queue'[q] # message_queue[q]
          PROVE  message_queue'[q][Len(message_queue'[q])] = response
      BY <1>1, <3>1, <3>4, LastInQueue
    <3> QED BY <3>2, <3>3, <3>4
  <2>2. ASSUME NEW peer \in Peers, NEW r \in Requests, RequestOverflowStray(peer, r)
        PROVE  Sound
    <3> DEFINE response == Response(r, FALSE)
    <3>1. Queue(peer, response) /\ r.offset + r.size > MaxInt
      BY <2>2 DEF RequestOverflowStray, Overflows
    <3>2. response.offset = r.offset /\ response.size = r.size
      BY DEF Response
    <3> HIDE DEF response
    <3>3. ASSUME NEW q \in Peers, message_queue'[q] # message_queue[q]
          PROVE  message_queue'[q][Len(message_queue'[q])] = response
      BY <1>1, <3>1, <3>3, LastInQueue
    <3> QED BY <3>1, <3>2, <3>3
  <2>3. CASE UNCHANGED message_queue
    BY <2>3
  <2> QED BY <1>1, <2>1, <2>2, <2>3
          DEF Next, HandlePiece, StoreInRange, OverrunCrash, OverrunReadsClear,
              OverrunReadsSet, RequestOverflowCrash, vars, transferVars
<1>2. TypeOK /\ VerifiedIntact /\ [Next]_vars => [Sound]_vars
  BY <1>1
<1> QED BY <1>2, TypeCorrect, VerifiedStaysIntact, PTL DEF Spec, ServesTorrentBytes

\* A full-size piece that is complete and right passed its check unless its
\* digest cannot be printed: it was checked in the step that completed it.
LEMMA CompleteRightStep ==
    ASSUME TypeOK, LedgerConsistent, CompleteRightIsVerified, [Next]_vars
    PROVE  CompleteRightIsVerified'
<1> SUFFICES ASSUME NEW p \in Piece, p \in completedPieces', p \notin overrun',
                    p \notin verified', FullLength(p), Intact(p, pieces'[p])
             PROVE  p \in ShortHash
  <2>1. completedPieces' \subseteq Piece
    <3>1. TypeOK'
      BY TypeStep
    <3> QED BY <3>1 DEF TypeOK
  <2> QED BY <2>1 DEF CompleteRightIsVerified, Intact, Genuine, FullLength
<1>1. p \notin overrun
  BY StepOfPiece
<1>2. CASE Untouched(p)
  BY <1>1, <1>2 DEF CompleteRightIsVerified, Untouched
<1>3. ASSUME NEW b \in Blocks, b.piece = p, StoreInRange(b)
      PROVE  p \in ShortHash
  <2>1. ~ HashMatches(p, pieces'[p])
    BY <1>1, <1>3, StoreEffect
  <2> QED BY <2>1 DEF HashMatches
<1> QED BY <1>2, <1>3, StepOfPiece

\* handlePiece leaves no full-size piece complete, right and unverified, unless
\* rawToHex prints its digest too short.
THEOREM RightPiecesAreVerified == Spec => []CompleteRightIsVerified
<1>1. Init => CompleteRightIsVerified
  BY DEF Init, StoreInit, CompleteRightIsVerified
<1>2. TypeOK /\ LedgerConsistent /\ CompleteRightIsVerified /\ [Next]_vars
        => CompleteRightIsVerified'
  BY CompleteRightStep
<1> QED BY <1>1, <1>2, TypeCorrect, LedgerIsConsistent, PTL DEF Spec

-----------------------------------------------------------------------------
(* Out-of-range access to the bitmap.                                      *)

\* A valid block of a piece other than the last has its bit in the bitmap,
\* but for an empty block at the end of a piece made of whole blocks.
LEMMA InBitmapUnlessLast ==
    ASSUME NEW b \in Blocks, ValidBlock(b), b.piece # LastPiece,
           PieceLength % MaxBlockSize # 0 \/ b.size > 0
    PROVE  InBitmap(b.piece, b.offset)
<1>1. /\ b.offset \in Nat /\ b.size \in Nat /\ b.offset + b.size <= PieceLength
      /\ BlockIndex(b.offset) \in Nat /\ b.piece \in Piece
  BY ValidIndex
<1>2. \/ b.offset < PieceLength
      \/ b.offset = PieceLength /\ PieceLength % MaxBlockSize # 0
  BY <1>1, SizesAssumption
<1>3. b.offset \div MaxBlockSize < (PieceLength + MaxBlockSize - 1) \div MaxBlockSize
  BY <1>1, <1>2, SizesAssumption, DivCeiling
<1>4. BlockIndex(b.offset) < GetBlockCount(b.piece)
  BY <1>3 DEF GetBlockCount, BlockIndex
<1>5. GetBlockCount(b.piece) \in Nat
  BY <1>1, BlockCount
<1> QED BY <1>1, <1>4, <1>5 DEF InBitmap, BlocksOf

\* Only the last piece's bitmap is ever accessed out of range.
THEOREM OverrunIsConfined == Spec => []OverrunConfined
<1>1. Init => OverrunConfined
  BY DEF Init, OverrunConfined
<1>2. OverrunConfined /\ [Next]_vars => OverrunConfined'
  <2> SUFFICES ASSUME OverrunConfined, [Next]_vars,
                      PieceLength % MaxBlockSize # 0 \/ \A b \in Blocks : b.size > 0
               PROVE  overrun' \subseteq {LastPiece}
    BY DEF OverrunConfined
  <2>1. overrun \subseteq {LastPiece}
    BY DEF OverrunConfined
  <2>2. ASSUME NEW b \in Blocks, OutOfBitmap(b)
        PROVE  b.piece = LastPiece
    BY <2>2, InBitmapUnlessLast DEF OutOfBitmap
  <2>3. ASSUME NEW b \in Blocks, HandlePiece(b)
        PROVE  overrun' \subseteq {LastPiece}
    BY <2>1, <2>2, <2>3 DEF HandlePiece, StoreInRange, OverrunCrash,
                            OverrunReadsClear, OverrunReadsSet
  <2>4. CASE UNCHANGED overrun
    BY <2>1, <2>4
  <2> QED BY <2>3, <2>4 DEF Next, HandleRequest, RequestOverflowCrash,
                           RequestOverflowStray, vars, transferVars
<1> QED BY <1>1, <1>2, PTL DEF Spec

-----------------------------------------------------------------------------
(* The bitmap describes the bytes.                                         *)

\* A block of the block grid writes exactly the offsets of its block.
LEMMA WholeBlockCovers ==
    ASSUME NEW b \in Blocks, ValidBlock(b), Whole(b), NEW o \in Offset
    PROVE  o \in b.offset .. b.offset + b.size - 1
              <=> BlockIndex(o) = BlockIndex(b.offset)
<1> DEFINE q == BlockIndex(b.offset)
           k == BlockIndex(o)
<1>1. b.offset \in Nat /\ b.size \in Nat /\ b.offset + b.size <= PieceLength
  BY ValidIndex
<1>2. o \in Nat /\ o < PieceLength
  BY SizesAssumption DEF Offset
<1>3. q \in Int /\ b.offset = MaxBlockSize * q
  <2>1. /\ b.offset \div MaxBlockSize \in Int
        /\ b.offset = MaxBlockSize * (b.offset \div MaxBlockSize) + (b.offset % MaxBlockSize)
    <3>1. b.offset \in Int /\ MaxBlockSize \in Nat \ {0}
      BY <1>1, SizesAssumption
    <3> QED BY <3>1, DivMod, Zenon
  <2>2. b.offset % MaxBlockSize = 0
    BY DEF Whole
  <2>3. MaxBlockSize * (b.offset \div MaxBlockSize) \in Int
    BY <2>1, SizesAssumption
  <2> QED BY <2>1, <2>2, <2>3 DEF BlockIndex
<1>4. /\ k \in Int /\ o % MaxBlockSize \in 0 .. MaxBlockSize - 1
      /\ o = MaxBlockSize * k + (o % MaxBlockSize)
  BY <1>2, DivMod, SizesAssumption DEF BlockIndex
<1>5. MaxBlockSize \in Nat \ {0}
  BY SizesAssumption
<1>6. ASSUME o \in b.offset .. b.offset + b.size - 1
      PROVE  k = q
  <2>1. b.size <= MaxBlockSize
    BY <1>1, <1>5 DEF Whole
  <2>2. o - b.offset \in 0 .. MaxBlockSize - 1 /\ o = b.offset + (o - b.offset)
    BY <1>1, <1>2, <1>5, <1>6, <2>1
  <2>3. o = MaxBlockSize * q + (o - b.offset)
    BY <1>3, <2>2
  <2> HIDE DEF q
  <2>4. o \div MaxBlockSize = q
    BY <1>2, <1>3, <1>5, <2>2, <2>3, DivUnique
  <2> QED BY <2>4 DEF BlockIndex
<1>7. ASSUME k = q
      PROVE  o \in b.offset .. b.offset + b.size - 1
  <2>1. b.offset <= o /\ o < b.offset + MaxBlockSize
    BY <1>1, <1>2, <1>3, <1>4, <1>5, <1>7
  <2>2. o < b.offset + b.size
    BY <1>1, <1>2, <2>1 DEF Whole
  <2> QED BY <1>1, <1>2, <2>1, <2>2
<1> QED BY <1>6, <1>7

\* Every step keeps bits and bytes of a piece in agreement as long as only
\* blocks of the block grid were stored in it.
LEMMA BitmapStep ==
    ASSUME TypeOK, LedgerConsistent, BitmapDescribesData, [Next]_vars
    PROVE  BitmapDescribesData'
<1> SUFFICES ASSUME NEW p \in Piece, p \notin overrun', p \notin ragged',
                    NEW o \in Offset
             PROVE  pieces'[p].data[o] # "zero"
                      <=> BlockIndex(o) \in pieces'[p].receivedBlocks
  BY DEF BitmapDescribesData, BlockIndex, Piece, Offset
<1>1. p \notin overrun
  BY StepOfPiece
<1>2. CASE Untouched(p)
  BY <1>1, <1>2 DEF BitmapDescribesData, Untouched
<1>3. ASSUME NEW b \in Blocks, b.piece = p, StoreInRange(b)
      PROVE  pieces'[p].data[o] # "zero"
               <=> BlockIndex(o) \in pieces'[p].receivedBlocks
  <2>1. /\ pieces'[p].data = StoreBlock(pieces[p], b).data
        /\ pieces'[p].receivedBlocks = pieces[p].receivedBlocks \cup {BlockIndex(b.offset)}
        /\ p \notin ragged /\ Whole(b)
    BY <1>1, <1>3, StoreEffect
  <2>2. ValidBlock(b) /\ b.content # "zero"
    BY <1>3, ValidIndex DEF StoreInRange
  <2>3. pieces'[p].data[o] = IF o \in b.offset .. b.offset + b.size - 1
                             THEN b.content ELSE pieces[p].data[o]
    BY <2>1 DEF StoreBlock
  <2>4. pieces[p].data[o] # "zero" <=> BlockIndex(o) \in pieces[p].receivedBlocks
    BY <1>1, <2>1 DEF BitmapDescribesData
  <2>5. o \in b.offset .. b.offset + b.size - 1 <=> BlockIndex(o) = BlockIndex(b.offset)
    BY <2>1, <2>2, WholeBlockCovers
  <2> QED BY <2>1, <2>2, <2>3, <2>4, <2>5
<1> QED BY <1>2, <1>3, StepOfPiece

\* Of pieces that were only given blocks of the block grid, the bytes written
\* are those of the blocks whose bits are set.
THEOREM BitmapIsFaithful == Spec => []BitmapDescribesData
<1>1. Init => BitmapDescribesData
  BY DEF Init, StoreInit, BitmapDescribesData, EmptyPiece
<1>2. TypeOK /\ LedgerConsistent /\ BitmapDescribesData /\ [Next]_vars
        => BitmapDescribesData'
  BY BitmapStep
<1> QED BY <1>1, <1>2, TypeCorrect, LedgerIsConsistent, PTL DEF Spec
=============================================================================
