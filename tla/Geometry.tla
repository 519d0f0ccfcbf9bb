------------------------------ MODULE Geometry ------------------------------
(***************************************************************************)
(* How parse() of TorrentFileParser divides a torrent: all files one after *)
(* the other, cut into pieces, and the string "pieces" cut into digests.   *)
(* Nothing keeps the lengths in the file from being negative.              *)
(***************************************************************************)
EXTENDS Integers

CONSTANT IntMax     \* the largest int

ASSUME IntAssumption == IntMax \in Nat

\* The value an integer type of the largest value max gives n.
Wrap(n, max) == ((n + max + 1) % (2 * (max + 1))) - (max + 1)

\* a / b and a % b, which round towards 0.
Magnitude(n) == IF n < 0 THEN -n ELSE n
Quotient(a, b) == LET q == Magnitude(a) \div Magnitude(b)
                  IN  IF (a < 0) = (b < 0) THEN q ELSE -q
Remainder(a, b) == a - (b * Quotient(a, b))

\* Mutant: rounds down.
NumPiecesFloor(total, pieceLength) == Wrap(Quotient(total, pieceLength), IntMax)

\* The count is computed in 64 bits and stored in an int.
NumPieces(total, pieceLength) ==
    Wrap(Quotient(total, pieceLength)
            + IF Remainder(total, pieceLength) > 0 THEN 1 ELSE 0, IntMax)

\* How many digests extractPieces cuts from a string; it leaves out the rest.
NumDigests(length, digestLength) == length \div digestLength
=============================================================================
