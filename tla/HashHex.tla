------------------------------ MODULE HashHex ------------------------------
(***************************************************************************)
(* How handlePiece compares digests.  computeSHA1 prints the digest of the *)
(* bytes received, rawToHex the digest the torrent gives, each through an  *)
(* ostringstream, and the two texts are compared.  A stream forgets its    *)
(* width after every value it prints; that is the whole story.             *)
(*                                                                         *)
(* A digest is a sequence of DigestLength bytes of two digits in base      *)
(* Radix (20 and 16 in the program); a text is the sequence of its digits. *)
(***************************************************************************)
EXTENDS Integers, Sequences

CONSTANTS Radix, DigestLength

ASSUME HashAssumption == Radix \in Nat \ {0, 1} /\ DigestLength \in Nat \ {0}

VARIABLES
    computed,   \* the SHA-1 of the bytes received
    expected,   \* the piece's digest in the torrent
    result      \* "pending", then what the comparison said

vars == <<computed, expected, result>>

ByteValue == 0 .. Radix * Radix - 1
Digest == [1 .. DigestLength -> ByteValue]

\* A fresh ostringstream, setw(2), and printing an integer with setfill('0').
EmptyStream == [text |-> <<>>, width |-> 0]

SetW(s) == [s EXCEPT !.width = 2]

\* Mutant: the width stays in force.
PutKeepsWidth(s, n) ==
    [text |-> s.text \o IF n < Radix /\ s.width < 2 THEN <<n>>
                        ELSE <<n \div Radix, n % Radix>>,
     width |-> s.width]

Put(s, n) ==
    [text |-> s.text \o IF n < Radix /\ s.width < 2 THEN <<n>>
                        ELSE <<n \div Radix, n % Radix>>,
     width |-> 0]

\* rawToHex sets the width once, before the loop.  after[i] is the stream after
\* i bytes.
RawToHex(raw) ==
    LET after[i \in 0 .. DigestLength] ==
            IF i = 0 THEN SetW(EmptyStream) ELSE Put(after[i - 1], raw[i])
    IN  after[DigestLength].text

\* computeSHA1 sets the width for every byte.
ComputeSHA1(hash) ==
    LET after[i \in 0 .. DigestLength] ==
            IF i = 0 THEN EmptyStream ELSE Put(SetW(after[i - 1]), hash[i])
    IN  after[DigestLength].text

Init ==
    /\ computed \in Digest
    /\ expected \in Digest
    /\ result = "pending"

Compare ==
    /\ result = "pending"
    /\ result' = IF ComputeSHA1(computed) = RawToHex(expected)
                 THEN "match" ELSE "mismatch"
    /\ UNCHANGED <<computed, expected>>

Next == Compare

Spec == Init /\ [][Next]_vars
-----------------------------------------------------------------------------
\* The torrent's digest loses a digit when it is printed.
LosesDigits(d) == \E i \in 2 .. DigestLength : d[i] < Radix

\* Exactly when a digest is accepted: when it is the right one and no byte after
\* its first is below the radix.  So a wrong digest never is, though the text
\* of rawToHex does not determine the digest it was made from, and a right one
\* not always.  PieceTransfer takes this as its constant ShortHash.
MismatchCharacterised ==
    result # "pending" =>
        (result = "match" <=> computed = expected /\ ~LosesDigits(expected))
=============================================================================
