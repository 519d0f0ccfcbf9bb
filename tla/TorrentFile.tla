---------------------------- MODULE TorrentFile ----------------------------
(***************************************************************************)
(* TorrentFileParser: from the text of a .torrent file to what the rest of *)
(* the client knows of the torrent.                                        *)
(*                                                                         *)
(* The info dictionary of the file is a sequence of fields as they are     *)
(* written there, in any order and more than once.  The names of keys are  *)
(* cut to one letter: "info" i; "files" f, "length" l, "name" n, "piece    *)
(* length" p, "pieces" q; in a file's entry "length" l and "path" p.  The  *)
(* announce, comment and creation date entries are left out.               *)
(***************************************************************************)
EXTENDS Bencode, Geometry, FiniteSetsExt

CONSTANTS
    Fields,         \* [key, text, plain, size]: its text, whether the
                    \* encoder would write it so, and the number, the length
                    \* of the string or the bytes of the files it holds
    MaxFields,      \* bound: fields of an info dictionary
    DigestLength    \* characters of a digest (20)

ASSUME TorrentAssumption == MaxFields \in Nat /\ DigestLength \in Nat \ {0}

VARIABLES
    fields,     \* the info dictionary in the file
    outcome,    \* of parse(): "pending", "read", "throws", "dies", "parsed"
    parsedData, \* what BencodeParser made of the file
    torrent     \* the TorrentFile it returns

vars == <<fields, outcome, parsedData, torrent>>

InfoText == <<"d">> \o FlattenSeq([i \in DOMAIN fields |-> fields[i].text]) \o <<"e">>
FileText == <<"d", "1", ":", "i">> \o InfoText \o <<"e">>

-----------------------------------------------------------------------------
(* The extract functions, on the pairs of a dictionary                     *)

Has(pairs, key) == \E i \in DOMAIN pairs : pairs[i][1] = <<key>>
At(pairs, key) == LET i == CHOOSE i \in DOMAIN pairs : pairs[i][1] = <<key>>
                  IN  pairs[i][2]

\* The entry is missing or of another kind.
Lacks(pairs, key, kind) == ~Has(pairs, key) \/ At(pairs, key)[1] # kind
Spoils(pairs, key, kind) == Has(pairs, key) /\ At(pairs, key)[1] # kind

\* extractInt: 0 if there is none.
ExtractInt(pairs, key) == IF Has(pairs, key) THEN At(pairs, key)[2] ELSE 0

\* extractPieces: how many digests it cuts from the string.
ExtractPieces(pairs) == NumDigests(Len(At(pairs, "q")[2]), DigestLength)

\* extractFiles throws for an entry that is no dictionary, has a length that is
\* no integer, or no path that is a list of strings.
BadFiles(pairs) ==
    \/ Lacks(pairs, "f", "list")
    \/ \E entry \in ToSet(At(pairs, "f")[2]) :
          \/ entry[1] # "dict"
          \/ Spoils(entry[2], "l", "int")
          \/ Lacks(entry[2], "p", "list")
          \/ \E part \in ToSet(At(entry[2], "p")[2]) : part[1] # "str"

\* The lengths of its files.
ExtractFiles(pairs) ==
    LET entries == At(pairs, "f")[2]
    IN  [i \in DOMAIN entries |-> ExtractInt(entries[i][2], "l")]

FileLengths(pairs) ==
    IF Has(pairs, "l") THEN <<ExtractInt(pairs, "l")>> ELSE ExtractFiles(pairs)

\* The sum is an int64_t; where it overflows it is taken to wrap.
Total(lengths) == FoldLeft(LAMBDA m, n : Wrap(m + n, LongMax), 0, lengths)

\* parse() finds something of the wrong kind on its way.
Malformed(pairs) ==
    \/ Spoils(pairs, "n", "str")
    \/ Spoils(pairs, "p", "int")
    \/ Lacks(pairs, "q", "str")
    \/ IF Has(pairs, "l") THEN Spoils(pairs, "l", "int") ELSE BadFiles(pairs)

\* computeSHA1 tells all texts apart: the hash of a text is the text.
InfoHash(info) == Encode(info)

NoTorrent == [pieceLength |-> 0, numPieces |-> 0, pieces |-> 0, files |-> <<>>,
              infoHash |-> <<>>]

Describe(info) ==
    LET pairs == info[2]
        pieceLength == ExtractInt(pairs, "p")
        lengths == FileLengths(pairs)
    IN  [pieceLength |-> pieceLength,
         numPieces |-> NumPieces(Total(lengths), pieceLength),
         pieces |-> ExtractPieces(pairs),
         files |-> lengths,
         infoHash |-> InfoHash(info)]

-----------------------------------------------------------------------------
Stop(how) == outcome' = how /\ UNCHANGED <<fields, parsedData, torrent>>

\* The file cannot be opened.
OpenFails == outcome = "pending" /\ Stop("throws")

ReadFile ==
    /\ outcome = "pending"
    /\ parsedData' = Parse(FileText)
    /\ outcome' = IF parsedData'.fails THEN "throws" ELSE "read"
    /\ UNCHANGED <<fields, torrent>>

Root == parsedData.value[2]
Info == At(Root, "i")

\* The info dictionary and each of its fields are of the right kind.
WellFormed == ~Lacks(Root, "i", "dict") /\ ~Malformed(Info[2])

\* The processor refuses the division: by 0, or with a quotient of 2^63.
CannotDivide(pairs) ==
    LET pieceLength == ExtractInt(pairs, "p")
    IN  \/ pieceLength = 0
        \/ pieceLength = -1 /\ Total(FileLengths(pairs)) = -LongMax - 1

ParseThrows == outcome = "read" /\ ~WellFormed /\ Stop("throws")

ParseDivides ==
    /\ outcome = "read" /\ WellFormed
    /\ CannotDivide(Info[2])
    /\ Stop("dies")

ParseReturns ==
    /\ outcome = "read" /\ WellFormed
    /\ ~CannotDivide(Info[2])
    /\ torrent' = Describe(Info)
    /\ outcome' = "parsed"
    /\ UNCHANGED <<fields, parsedData>>

Init == /\ fields \in BoundedSeq(Fields, MaxFields)
        /\ outcome = "pending" /\ parsedData = Throws /\ torrent = NoTorrent

Next == OpenFails \/ ReadFile \/ ParseThrows \/ ParseDivides \/ ParseReturns

Spec == Init /\ [][Next]_vars
-----------------------------------------------------------------------------
\* The keys of the info dictionary stand in the file in their order, each once.
KeysInOrder ==
    \A i \in 2 .. Len(fields) : Less(fields[i - 1].key, fields[i].key)

(***************************************************************************)
(* The info hash is computed from an encoding of what was parsed, not from *)
(* the bytes of the file.  It is the hash other clients know the torrent   *)
(* by exactly when the info dictionary was written as the encoder would:   *)
(* keys in order and once, numbers and lengths without leading zeros.      *)
(* Keys that parse() does not know, and nested values, are kept.           *)
(***************************************************************************)
InfoHashFaithful ==
    outcome = "parsed" =>
        (torrent.infoHash = InfoText
            <=> KeysInOrder /\ \A i \in DOMAIN fields : fields[i].plain)

\* The last field of the dictionary with this key: the one the map keeps.
Fielded(key) == \E i \in DOMAIN fields : fields[i].key = <<key>>
Kept(key) ==
    fields[CHOOSE i \in DOMAIN fields :
              /\ fields[i].key = <<key>>
              /\ \A j \in i + 1 .. Len(fields) : fields[j].key # <<key>>]

\* How many bytes the torrent has, in numbers that do not end.
TorrentBytes == IF Fielded("l") THEN Kept("l").size ELSE Kept("f").size

(***************************************************************************)
(* What parse() returns to the piece manager: the digests are the whole    *)
(* ones among the characters of "pieces", and the pieces are as many as    *)
(* are needed to hold all files and no more - exactly if that number fits  *)
(* in an int, the bytes fit in 64 bits and no length has the wrong sign:   *)
(* for every other torrent parse() silently returns another number.  It    *)
(* dies only of a division that has no result.                             *)
(***************************************************************************)
GeometryRight ==
    /\ outcome = "parsed" =>
          LET pieceLength == torrent.pieceLength
              bytes == torrent.numPieces * pieceLength
          IN  /\ pieceLength = Kept("p").size /\ pieceLength # 0
              /\ 0 <= TorrentBytes /\ bytes - pieceLength < TorrentBytes
                                   /\ TorrentBytes <= bytes
                    <=> /\ pieceLength > 0
                        /\ TorrentBytes \in 0 .. LongMax
                        /\ TorrentBytes <= IntMax * pieceLength
              /\ torrent.pieces = Cardinality({n \in 1 .. Kept("q").size :
                                                   n % DigestLength = 0})
    /\ outcome = "dies" =>
          \/ Fielded("p") => Kept("p").size = 0
          \/ Kept("p").size = -1 /\ Wrap(TorrentBytes, LongMax) = -LongMax - 1
=============================================================================
