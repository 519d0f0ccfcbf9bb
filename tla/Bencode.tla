------------------------------ MODULE Bencode ------------------------------
(***************************************************************************)
(* BencodeParser and BencodeEncoder, as operators.                         *)
(*                                                                         *)
(* A text is a sequence of characters.  A value is a pair of its kind and  *)
(* its contents: an "int" the number, a "str" its characters, a "list" the *)
(* sequence of its values, a "dict" the sequence of its <<key, value>>     *)
(* pairs in the order of std::map.  What a parse function returns is a     *)
(* record of the value and the position after it; Throws stands for any    *)
(* exception.                                                              *)
(***************************************************************************)
EXTENDS Integers, Sequences, SequencesExt

CONSTANT LongMax    \* the largest int64_t

ASSUME LongAssumption == LongMax \in Nat

Long == -LongMax - 1 .. LongMax

\* The characters in the order of their codes.
Alphabet == <<" ", "+", "-", "0", "1", "2", "3", "4", "5", "6", "7", "8", "9", ":", "a", "d", "e",
              "f", "i", "l", "n", "p", "q">>

Code == [ch \in ToSet(Alphabet) |-> CHOOSE i \in DOMAIN Alphabet : Alphabet[i] = ch]
DigitValue(ch) == Code[ch] - Code["0"]
IsDigit(ch) == DigitValue(ch) \in 0 .. 9
IsBlank(ch) == ch = " "

Throws == [fails |-> TRUE]
Parsed(value, next) == [fails |-> FALSE, value |-> value, next |-> next]

\* std::string's operator<.
Less(s, t) ==
    \/ IsStrictPrefix(s, t)
    \/ \E i \in DOMAIN s \cap DOMAIN t :
          /\ Code[s[i]] < Code[t[i]]
          /\ SubSeq(s, 1, i - 1) = SubSeq(t, 1, i - 1)

-----------------------------------------------------------------------------
(* Numbers                                                                 *)

\* data.find(ch, pos), or 0.
Find(data, ch, pos) ==
    LET at == {i \in pos .. Len(data) : data[i] = ch}
    IN  IF at = {} THEN 0 ELSE CHOOSE i \in at : \A j \in at : i <= j

\* The longest prefix whose characters all pass the test.
Leading(s, Test(_)) ==
    SubSeq(s, 1, CHOOSE k \in 0 .. Len(s) :
                    /\ \A i \in 1 .. k : Test(s[i])
                    /\ k = Len(s) \/ ~Test(s[k + 1]))

Signed(text) == text # <<>> /\ text[1] \in {"+", "-"}
Digits(text) == Leading(IF Signed(text) THEN Tail(text) ELSE text, IsDigit)
Number(digits) == FoldLeft(LAMBDA n, ch : 10 * n + DigitValue(ch), 0, digits)

LongOf(number, digits) ==
    [fails |-> digits = <<>> \/ number \notin Long, value |-> number]

WithSign(text, digits) ==
    LongOf(IF text # digits /\ text[1] = "-" THEN -Number(digits) ELSE Number(digits), digits)

AfterBlanks(s) == SubSeq(s, Len(Leading(s, IsBlank)) + 1, Len(s))

\* stoll: blanks, a sign, and digits as far as they go, whatever follows.  It
\* throws if there are none, or if the number is no int64_t.
Stoll(s) == LET text == AfterBlanks(s) IN WithSign(text, Digits(text))

\* std::to_string.
RECURSIVE Decimal(_)
Decimal(n) == IF n < 0 THEN <<"-">> \o Decimal(-n)
              ELSE IF n < 10 THEN <<Alphabet[Code["0"] + n]>>
              ELSE Append(Decimal(n \div 10), Alphabet[Code["0"] + (n % 10)])

-----------------------------------------------------------------------------
(* The parser                                                              *)

ParseInt(data, pos) ==
    LET end == Find(data, "e", pos + 1)
        number == Stoll(SubSeq(data, pos + 1, end - 1))
    IN  IF end = 0 \/ number.fails THEN Throws
        ELSE Parsed(<<"int", number.value>>, end + 1)

\* The string after the colon.  A negative length (of a key: other strings
\* begin with a digit) takes all that follows and goes back for what is next.
StringAt(data, colon, length) ==
    IF colon = 0 \/ length.fails \/ colon + length.value \notin 0 .. Len(data) THEN Throws
    ELSE Parsed(<<"str", SubSeq(data, colon + 1, IF length.value < 0 THEN Len(data)
                                                 ELSE colon + length.value)>>,
                colon + length.value + 1)

ParseString(data, pos) ==
    LET colon == Find(data, ":", pos)
    IN  StringAt(data, colon, Stoll(SubSeq(data, pos, colon - 1)))

\* Mutant: a map that keeps the order of insertion.
InsertUnordered(pairs, key, value) ==
    Append(SelectSeq(pairs, LAMBDA p : p[1] # key), <<key, value>>)

\* result[key] = value, in a map: the last value of a key stays.
Insert(pairs, key, value) ==
    LET before == SelectSeq(pairs, LAMBDA p : Less(p[1], key))
        after == SelectSeq(pairs, LAMBDA p : Less(key, p[1]))
    IN  Append(before, <<key, value>>) \o after

RECURSIVE ParseValue(_, _), ParseList(_, _, _), ParseDict(_, _, _)

ParseList(data, pos, items) ==
    IF pos > Len(data) THEN Throws
    ELSE IF data[pos] = "e" THEN Parsed(<<"list", items>>, pos + 1)
    ELSE LET item == ParseValue(data, pos)
         IN  IF item.fails THEN Throws
             ELSE ParseList(data, item.next, Append(items, item.value))

ParseDict(data, pos, pairs) ==
    IF pos > Len(data) THEN Throws
    ELSE IF data[pos] = "e" THEN Parsed(<<"dict", pairs>>, pos + 1)
    ELSE LET key == ParseString(data, pos)
             value == ParseValue(data, key.next)
         IN  IF key.fails \/ value.fails THEN Throws
             ELSE ParseDict(data, value.next, Insert(pairs, key.value[2], value.value))

ParseValue(data, pos) ==
    IF pos > Len(data) THEN Throws
    ELSE CASE data[pos] = "i" -> ParseInt(data, pos)
           [] data[pos] = "l" -> ParseList(data, pos + 1, <<>>)
           [] data[pos] = "d" -> ParseDict(data, pos + 1, <<>>)
           [] IsDigit(data[pos]) -> ParseString(data, pos)
           [] OTHER -> Throws

\* What follows the value is ignored.
Parse(data) == ParseValue(data, 1)

-----------------------------------------------------------------------------
(* The encoder                                                             *)

EncodeString(s) == Decimal(Len(s)) \o <<":">> \o s

RECURSIVE Encode(_)
Encode(value) ==
    CASE value[1] = "int" -> <<"i">> \o Decimal(value[2]) \o <<"e">>
      [] value[1] = "str" -> EncodeString(value[2])
      [] value[1] = "list" ->
            <<"l">> \o FlattenSeq([i \in DOMAIN value[2] |-> Encode(value[2][i])]) \o <<"e">>
      [] value[1] = "dict" ->
            <<"d">> \o FlattenSeq([i \in DOMAIN value[2] |->
                EncodeString(value[2][i][1]) \o Encode(value[2][i][2])]) \o <<"e">>
=============================================================================
