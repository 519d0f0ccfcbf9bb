---------------------------- MODULE FramingProofs ----------------------------
(***************************************************************************)
(* Theorems about Framing, for every set of scripts, every size of reads   *)
(* and headers and every modulus of lengths.                               *)
(***************************************************************************)
EXTENDS Framing, SequenceTheorems, NaturalsInduction, WellFoundedInduction, TLAPS

-----------------------------------------------------------------------------
(* Offsets.  They are defined by recursion, and facts about them are       *)
(* proved by looking at the least number for which they fail.              *)

\* A set of numbers that is not empty has a least one.
LEMMA LeastNumber ==
    ASSUME NEW T \in SUBSET Nat, T # {}
    PROVE  \E x \in T : \A y \in T : x <= y
<1> DEFINE R == OpToRel(<, Nat)
<1>1. IsWellFoundedOn(R, Nat)
  BY NatLessThanWellFounded
<1>2. \A x, y \in Nat : x < y => <<x, y>> \in R
  BY DEF OpToRel
<1> HIDE DEF R
<1>3. PICK x \in T : \A y \in T : ~ (<<y, x>> \in R)
  BY <1>1, WFMin
<1>4. \A y \in T : y \in Nat /\ x \in Nat /\ ~ (y < x)
  BY <1>2, <1>3
<1> QED BY <1>3, <1>4

\* A message that starts at a number ends at one.
LEMMA EndIsNumber ==
    ASSUME NEW a \in Nat, NEW b \in Nat, NEW c \in Nat
    PROVE  a + b + c \in Nat
  OBVIOUS

\* The messages of a script have lengths.
LEMMA ScriptFacts ==
    ASSUME NEW s \in Seq(Channel!Message)
    PROVE  Len(s) \in Nat /\ DOMAIN s = 1 .. Len(s) /\ \A i \in 1 .. Len(s) : s[i].len \in Nat
<1>1. Len(s) \in Nat /\ DOMAIN s = 1 .. Len(s)
  BY LenProperties
<1>2. \A m \in Channel!Message : m.len \in Nat
  BY DEF Channel!Message
<1>3. \A i \in 1 .. Len(s) : s[i] \in Channel!Message
  BY ElementOfSeq
<1> QED BY <1>1, <1>2, <1>3

\* What start is defined to be, for the first n messages of a script.
StartsUpTo(f, n, s, j) ==
    \A i \in 1 .. n : f[i] = IF i = 1 THEN j ELSE f[i - 1] + HeaderSize + s[i - 1].len

\* There are offsets with these equations.
LEMMA OffsetsExist ==
    ASSUME NEW s \in Seq(Channel!Message), NEW j \in Nat
    PROVE  \E f \in [1 .. Len(s) + 1 -> Nat] : StartsUpTo(f, Len(s) + 1, s, j)
<1> DEFINE T == {n \in 0 .. Len(s) + 1 : ~ \E f \in [1 .. n -> Nat] : StartsUpTo(f, n, s, j)}
<1>1. Len(s) \in Nat /\ \A i \in 1 .. Len(s) : s[i].len \in Nat
  <2> HIDE DEF T
  <2> QED BY ScriptFacts
<1>2. SUFFICES ASSUME T # {}
               PROVE  FALSE
  <2>1. Len(s) + 1 \in 0 .. Len(s) + 1
    BY ONLY <1>1
  <2> QED BY <2>1, Zenon
<1>3. PICK n \in T : \A m \in T : n <= m
  <2>1. T \in SUBSET Nat
    BY <1>1
  <2> HIDE DEF T
  <2> QED BY <1>2, <2>1, LeastNumber
<1>4. n # 0
  <2>1. [i \in 1 .. 0 |-> 0] \in [1 .. 0 -> Nat] /\ StartsUpTo([i \in 1 .. 0 |-> 0], 0, s, j)
    BY DEF StartsUpTo
  <2> QED BY <2>1
<1>5. n - 1 \in 0 .. Len(s) + 1 /\ n - 1 \notin T /\ n \in 1 .. Len(s) + 1
  <2>1. n \in 0 .. Len(s) + 1
    OBVIOUS
  <2> HIDE DEF T
  <2> QED BY <1>1, <1>3, <1>4, <2>1
<1>6. PICK f \in [1 .. n - 1 -> Nat] : StartsUpTo(f, n - 1, s, j)
  BY <1>5
<1> DEFINE last == IF n = 1 THEN j ELSE f[n - 1] + HeaderSize + s[n - 1].len
           g == [i \in 1 .. n |-> IF i < n THEN f[i] ELSE last]
<1>7. last \in Nat
  <2>1. CASE n # 1
    <3>1. n - 1 \in 1 .. n - 1 /\ n - 1 \in 1 .. Len(s)
      BY <1>1, <1>5, <2>1
    <3>2. f[n - 1] \in Nat /\ s[n - 1].len \in Nat /\ HeaderSize \in Nat
      <4> HIDE DEF T
      <4>1. HeaderSize \in Nat
        BY FramingAssumption
      <4>2. s[n - 1].len \in Nat
        BY <1>1, <3>1
      <4>3. f[n - 1] \in Nat
        BY <3>1
      <4> QED BY <4>1, <4>2, <4>3
    <3>3. f[n - 1] + HeaderSize + s[n - 1].len \in Nat
      BY <3>2, EndIsNumber
    <3> QED BY <2>1, <3>3
  <2> QED BY <2>1
<1>8. g \in [1 .. n -> Nat]
  <2> HIDE DEF last
  <2> QED BY <1>5, <1>6, <1>7
<1>9. StartsUpTo(g, n, s, j)
  <2>1. ASSUME NEW i \in 1 .. n
        PROVE  g[i] = IF i = 1 THEN j ELSE g[i - 1] + HeaderSize + s[i - 1].len
    <3>1. CASE i < n
      <4>1. i \in 1 .. n - 1 /\ g[i] = f[i] /\ (i # 1 => i - 1 \in 1 .. n /\ g[i - 1] = f[i - 1])
        BY <1>5, <3>1
      <4> HIDE DEF g
      <4> QED BY <1>6, <4>1 DEF StartsUpTo
    <3>2. CASE i = n
      <4>1. g[i] = last /\ (i # 1 => i - 1 \in 1 .. n /\ g[i - 1] = f[i - 1])
        BY <1>5, <3>2
      <4> HIDE DEF g
      <4> QED BY <3>2, <4>1
    <3> QED BY <1>5, <3>1, <3>2
  <2> HIDE DEF g
  <2> QED BY <2>1 DEF StartsUpTo
<1> QED BY <1>3, <1>8, <1>9

\* So start has them.
LEMMA StartFacts ==
    ASSUME script \in Seq(Channel!Message), junk \in Nat
    PROVE  /\ Len(script) \in Nat /\ start \in [1 .. Len(script) + 1 -> Nat]
           /\ start[1] = junk
           /\ \A i \in 1 .. Len(script) :
                 script[i].len \in Nat /\ start[i + 1] = start[i] + HeaderSize + script[i].len
<1>1. Len(script) \in Nat /\ \A i \in 1 .. Len(script) : script[i].len \in Nat
  BY ScriptFacts
<1>2. PICK f \in [1 .. Len(script) + 1 -> Nat] : StartsUpTo(f, Len(script) + 1, script, junk)
  BY OffsetsExist
<1>3. f = [i \in 1 .. Len(script) + 1 |->
              IF i = 1 THEN junk ELSE f[i - 1] + HeaderSize + script[i - 1].len]
  BY <1>2 DEF StartsUpTo
<1>4. start = [i \in 1 .. Len(script) + 1 |->
                  IF i = 1 THEN junk ELSE start[i - 1] + HeaderSize + script[i - 1].len]
  BY <1>3 DEF start
<1> DEFINE N == Len(script) + 1
           T == {i \in 1 .. N : start[i] \notin Nat}
<1>5. N \in Nat /\ start[1] = junk
      /\ \A i \in 2 .. N : start[i] = start[i - 1] + HeaderSize + script[i - 1].len
  <2>1. N \in Nat /\ 1 \in 1 .. N /\ \A i \in 2 .. N : i \in 1 .. N /\ i # 1
    BY <1>1
  <2> HIDE DEF N, T
  <2>2. \A i \in 1 .. N : start[i] = IF i = 1 THEN junk
                                    ELSE start[i - 1] + HeaderSize + script[i - 1].len
    BY <1>4, Zenon DEF N
  <2> QED BY <2>1, <2>2
<1>6. T = {}
  <2>1. SUFFICES ASSUME T # {}
                 PROVE  FALSE
    OBVIOUS
  <2>2. T \in SUBSET Nat
    BY <1>5
  <2>3. PICK i \in T : \A k \in T : i <= k
    <3> HIDE DEF T
    <3> QED BY <2>1, <2>2, LeastNumber
  <2>4. i \in 1 .. N /\ start[i] \notin Nat
    OBVIOUS
  <2>5. i \in 2 .. N /\ i - 1 \in 1 .. N /\ i - 1 \in 1 .. Len(script) /\ ~ (i <= i - 1)
    BY <1>1, <1>5, <2>4
  <2>6. start[i - 1] \in Nat /\ script[i - 1].len \in Nat
    BY <1>1, <2>3, <2>5
  <2>7. start[i] = start[i - 1] + HeaderSize + script[i - 1].len
    BY <1>5, <2>5
  <2> HIDE DEF T
  <2> QED BY <2>4, <2>6, <2>7, FramingAssumption
<1>7. start \in [1 .. N -> Nat]
  BY <1>4, <1>6
<1>8. ASSUME NEW i \in 1 .. Len(script)
      PROVE  start[i + 1] = start[i] + HeaderSize + script[i].len
  <2>1. i + 1 \in 2 .. N /\ (i + 1) - 1 = i
    BY <1>1, <1>5
  <2> QED BY <1>5, <2>1
<1> QED BY <1>1, <1>5, <1>7, <1>8

\* Each message ends before a later one starts.
LEMMA StartsGrow ==
    ASSUME script \in Seq(Channel!Message), junk \in Nat,
           NEW i \in 1 .. Len(script), NEW j \in i + 1 .. Len(script) + 1
    PROVE  start[i] + HeaderSize + script[i].len <= start[j]
<1> DEFINE T == {k \in i + 1 .. Len(script) + 1 :
                    ~ (start[i] + HeaderSize + script[i].len <= start[k])}
<1>1. /\ Len(script) \in Nat /\ start \in [1 .. Len(script) + 1 -> Nat]
      /\ \A k \in 1 .. Len(script) :
            script[k].len \in Nat /\ start[k + 1] = start[k] + HeaderSize + script[k].len
  BY StartFacts
<1>2. SUFFICES ASSUME T # {}
               PROVE  FALSE
  OBVIOUS
<1>3. T \in SUBSET Nat
  BY <1>1
<1>4. PICK k \in T : \A l \in T : k <= l
  <2> HIDE DEF T
  <2> QED BY <1>2, <1>3, LeastNumber
<1>5. k \in i + 1 .. Len(script) + 1 /\ ~ (start[i] + HeaderSize + script[i].len <= start[k])
  OBVIOUS
<1>6. /\ start[i] \in Nat /\ start[k] \in Nat /\ script[i].len \in Nat
      /\ start[k] = start[k - 1] + HeaderSize + script[k - 1].len
      /\ start[k - 1] \in Nat /\ script[k - 1].len \in Nat
  <2>1. k - 1 \in 1 .. Len(script) /\ (k - 1) + 1 = k /\ k - 1 \in 1 .. Len(script) + 1
        /\ k \in 1 .. Len(script) + 1 /\ i \in 1 .. Len(script) + 1
    BY <1>1, <1>5
  <2> QED BY <1>1, <2>1
<1>7. CASE k = i + 1
  <2>1. k - 1 = i
    BY <1>1, <1>7
  <2> QED BY <1>5, <1>6, <2>1, FramingAssumption
<1>8. CASE k # i + 1
  <2>1. k - 1 \in i + 1 .. Len(script) + 1 /\ ~ (k <= k - 1)
    BY <1>1, <1>5, <1>8
  <2>2. start[i] + HeaderSize + script[i].len <= start[k - 1]
    BY <1>4, <2>1
  <2>3. HeaderSize \in Nat
    BY FramingAssumption
  <2>4. start[i] + HeaderSize + script[i].len \in Nat
    <3>1. start[i] \in Nat /\ script[i].len \in Nat
      BY <1>6
    <3> HIDE DEF T
    <3> QED BY <2>3, <3>1, EndIsNumber
  <2> HIDE DEF T
  <2>5. script[k - 1].len \in Nat /\ start[k - 1] \in Nat
        /\ start[k] = start[k - 1] + HeaderSize + script[k - 1].len
    BY <1>6
  <2>6. start[i] + HeaderSize + script[i].len <= start[k]
    BY <2>2, <2>3, <2>4, <2>5
  <2> QED BY <1>5, <2>6
<1> HIDE DEF T
<1> QED BY <1>7, <1>8

\* All of them lie in the stream, and no two messages start at the same place.
LEMMA StartsInStream ==
    ASSUME script \in Seq(Channel!Message), junk \in Nat
    PROVE  /\ Total \in Nat
           /\ \A i \in 1 .. Len(script) + 1 : start[i] \in 0 .. Total
           /\ \A i, j \in 1 .. Len(script) + 1 : start[i] = start[j] => i = j
<1>1. /\ Len(script) \in Nat /\ start \in [1 .. Len(script) + 1 -> Nat]
      /\ \A k \in 1 .. Len(script) : script[k].len \in Nat
      /\ HeaderSize \in Nat \ {0}
  BY StartFacts, FramingAssumption
<1>2. ASSUME NEW i \in 1 .. Len(script) + 1, NEW j \in 1 .. Len(script) + 1, i < j
      PROVE  start[i] < start[j]
  <2>1. i \in 1 .. Len(script) /\ j \in i + 1 .. Len(script) + 1
    BY <1>1, <1>2
  <2>2. start[i] + HeaderSize + script[i].len <= start[j]
    BY <2>1, StartsGrow
  <2>3. start[i] \in Nat /\ start[j] \in Nat /\ script[i].len \in Nat
    BY <1>1, <2>1
  <2> QED BY <1>1, <2>2, <2>3
<1>3. Total \in Nat
  BY <1>1 DEF Total
<1>4. ASSUME NEW i \in 1 .. Len(script) + 1
      PROVE  start[i] \in 0 .. Total
  <2>1. Len(script) + 1 \in 1 .. Len(script) + 1 /\ start[i] \in Nat
    BY <1>1
  <2>2. i < Len(script) + 1 \/ i = Len(script) + 1
    BY <1>1
  <2>3. start[i] < Total \/ start[i] = Total
    BY <1>2, <2>1, <2>2 DEF Total
  <2> QED BY <1>3, <2>1, <2>3
<1>5. ASSUME NEW i \in 1 .. Len(script) + 1, NEW j \in 1 .. Len(script) + 1,
             start[i] = start[j]
      PROVE  i = j
  <2>1. start[i] \in Nat /\ ~ (start[i] < start[j]) /\ ~ (start[j] < start[i])
    BY <1>1, <1>5
  <2>2. ~ (i < j) /\ ~ (j < i)
    BY <1>2, <2>1
  <2> QED BY <1>1, <2>2
<1> QED BY <1>3, <1>4, <1>5

\* The messages that start at or after the offset q, if one starts there.
Rest(q) ==
    IF \E i \in 1 .. Len(script) : start[i] = q
    THEN SubSeq(script, CHOOSE i \in 1 .. Len(script) : start[i] = q, Len(script))
    ELSE <<>>

\* At the start of message i these are the i-th and all that follow; at the
\* end of the stream there are none.
LEMMA RestFrom ==
    ASSUME script \in Seq(Channel!Message), junk \in Nat,
           NEW i \in 1 .. Len(script) + 1
    PROVE  Rest(start[i]) = SubSeq(script, i, Len(script))
<1>1. Len(script) \in Nat
  BY StartFacts
<1>2. \A k \in 1 .. Len(script) + 1 : start[k] = start[i] => k = i
  BY StartsInStream
<1>3. CASE i \in 1 .. Len(script)
  <2>1. (CHOOSE k \in 1 .. Len(script) : start[k] = start[i]) = i
    BY <1>1, <1>2, <1>3
  <2> QED BY <1>3, <2>1 DEF Rest
<1>4. CASE i = Len(script) + 1
  <2>1. ~ \E k \in 1 .. Len(script) : start[k] = start[i]
    BY <1>1, <1>2, <1>4
  <2>2. SubSeq(script, i, Len(script)) = <<>>
    BY <1>1, <1>4, EmptySeq
  <2> QED BY <2>1, <2>2 DEF Rest
<1> QED BY <1>1, <1>3, <1>4

-----------------------------------------------------------------------------
(* The inductive invariant                                                 *)

\* The opening keeps what it reads; and from a right start the parser is
\* always at the start of a message or at the end of the stream.
FramingInv ==
    /\ TypeOK
    /\ Opening => parsed = 0 /\ synced = FALSE
    /\ pc \in {"first", "extra", "dispatch"} => junk = 0
    /\ pc \in {"handshake", "first"} => arrived = 0
    /\ synced => \E i \in 1 .. Len(script) + 1 : start[i] = parsed
    /\ NothingHeldBack

\* The stream stays what it is.
LEMMA StreamStays ==
    ASSUME [Next]_vars
    PROVE  script' = script /\ junk' = junk /\ start' = start /\ Total' = Total
<1>1. script' = script /\ junk' = junk
  BY DEF Next, vars, HandshakeEnds, ReadFirst, ReadNothing, ReadExtra, ExtraThrows, Dispatch,
         Receive, ParseStop, ParseMessage, ParseGarbage
<1> QED BY <1>1 DEF start, Total

\* A length that its sum with the header does not carry over the modulus is
\* compared as it is.
LEMMA NoWrap ==
    ASSUME NEW len \in Nat, len + HeaderSize < LengthModulus
    PROVE  (len + HeaderSize) % LengthModulus = len + HeaderSize
<1>1. ASSUME NEW x \in Nat, NEW m \in Nat, x < m
      PROVE  x % m = x
  BY <1>1
<1> QED BY <1>1, FramingAssumption

\* Where a message starts there is one, with a length that does not wrap.
LEMMA CurrentFacts ==
    ASSUME script \in Scripts, Aligned
    PROVE  /\ Current \in 1 .. Len(script) /\ start[Current] = parsed
           /\ script[Current].len \in Nat
           /\ (script[Current].len + HeaderSize) % LengthModulus
                 = script[Current].len + HeaderSize
<1>1. Current \in 1 .. Len(script) /\ start[Current] = parsed
  BY DEF Aligned, Current
<1>2. script \in Seq(Channel!Message)
  BY ScriptsAssumption
<1>3. DOMAIN script = 1 .. Len(script) /\ script[Current].len \in Nat
  BY <1>1, <1>2, ScriptFacts
<1>4. script[Current].len + HeaderSize < LengthModulus
  BY <1>1, <1>3, FramingAssumption
<1> QED BY <1>1, <1>3, <1>4, NoWrap

\* The types of what a step works with.
LEMMA StreamTyped ==
    ASSUME TypeOK
    PROVE  /\ script \in Scripts /\ script \in Seq(Channel!Message) /\ junk \in Nat
           /\ Total \in Nat /\ Len(script) \in Nat
           /\ arrived \in Nat /\ parsed \in Nat /\ parsed <= arrived /\ arrived <= Total
           /\ HeaderSize \in Nat \ {0}
<1>1. script \in Scripts /\ script \in Seq(Channel!Message) /\ junk \in Nat
  BY ScriptsAssumption, FramingAssumption DEF TypeOK
<1>2. Total \in Nat /\ Len(script) \in Nat
  BY <1>1, StartsInStream, StartFacts
<1> QED BY <1>1, <1>2, FramingAssumption DEF TypeOK

-----------------------------------------------------------------------------
(* The steps                                                               *)

\* In an empty buffer there is no message.
LEMMA EmptyBuffer ==
    ASSUME script' \in Seq(Channel!Message), arrived' \in Nat, parsed' = arrived'
    PROVE  NothingHeldBack'
<1>1. ASSUME Aligned'
      PROVE  (Available < HeaderSize + script[Current].len)'
  <2>1. Current' \in 1 .. Len(script')
    BY <1>1 DEF Aligned, Current
  <2>2. script'[Current'].len \in Nat /\ HeaderSize \in Nat \ {0}
    BY <2>1, ScriptFacts, FramingAssumption
  <2>3. \A x, y \in Nat : x = y => x - y = 0
    OBVIOUS
  <2>4. Available' = 0
    BY <2>3 DEF Available
  <2> QED BY <2>2, <2>4
<1> QED BY <1>1 DEF NothingHeldBack

\* The opening: until it is over nothing is taken out, and at its end the
\* parser stands where the stream has come to.
LEMMA OpeningStep ==
    ASSUME FramingInv, [Next]_vars,
           HandshakeEnds \/ ReadFirst \/ ReadNothing \/ ReadExtra \/ ExtraThrows \/ Dispatch
    PROVE  FramingInv'
<1>1. /\ script' = script /\ junk' = junk /\ start' = start /\ Total' = Total
  BY StreamStays
<1>2. TypeOK /\ parsed = 0 /\ synced = FALSE
  BY DEF FramingInv, Opening, HandshakeEnds, ReadFirst, ReadNothing, ReadExtra, ExtraThrows, Dispatch
<1>3. /\ script \in Scripts /\ script \in Seq(Channel!Message) /\ junk \in Nat
      /\ Total \in Nat /\ Len(script) \in Nat
      /\ arrived \in Nat /\ arrived <= Total /\ HeaderSize \in Nat \ {0}
  BY <1>2, StreamTyped
<1>4. DOMAIN start = 1 .. Len(script) + 1 /\ start[1] = junk /\ Total = start[Len(script) + 1]
  BY <1>3, StartFacts DEF Total
<1>5. CASE HandshakeEnds
  <2>1. TypeOK'
    BY <1>1, <1>2, <1>5 DEF TypeOK, HandshakeEnds
  <2> QED BY <1>1, <1>2, <1>5, <2>1
          DEF FramingInv, HandshakeEnds, Opening, NothingHeldBack
<1>6. CASE ReadFirst
  <2>1. TypeOK'
    BY <1>1, <1>2, <1>3, <1>6, FramingAssumption DEF TypeOK, ReadFirst, Arrives
  <2> QED BY <1>1, <1>2, <1>6, <2>1
          DEF FramingInv, ReadFirst, Opening, NothingHeldBack
<1>7. CASE ReadNothing
  <2>1. TypeOK'
    BY <1>1, <1>2, <1>7 DEF TypeOK, ReadNothing
  <2>2. pc' = "recv" /\ parsed' = 0 /\ arrived' = 0 /\ junk = 0 /\ start'[1] = 0
    BY <1>1, <1>2, <1>4, <1>7 DEF FramingInv, ReadNothing
  <2>3. NothingHeldBack'
    BY <1>1, <1>3, <2>2, EmptyBuffer
  <2>4. 1 \in 1 .. Len(script') + 1
    BY <1>1, <1>3
  <2> QED BY <2>1, <2>2, <2>3, <2>4 DEF FramingInv, Opening
<1>8. CASE ReadExtra
  <2>1. TypeOK'
    <3>1. PICK n \in 1 .. Remaining : arrived + n <= Total /\ arrived' = arrived + n
      BY <1>8 DEF ReadExtra, Arrives
    <3>2. n \in Nat /\ arrived' \in 0 .. Total
      BY <1>3, <3>1
    <3> QED BY <1>1, <1>2, <1>8, <3>2 DEF TypeOK, ReadExtra
  <2> QED BY <1>1, <1>2, <1>8, <2>1
          DEF FramingInv, ReadExtra, Opening, NothingHeldBack
<1>9. CASE Dispatch
  <2>1. CASE pc' = pc
    <3>1. TypeOK'
      BY <1>1, <1>2, <1>9, <2>1 DEF TypeOK, Dispatch
    <3> QED BY <1>1, <1>2, <1>9, <2>1, <3>1
            DEF FramingInv, Dispatch, Opening, NothingHeldBack
  <2>2. CASE pc' = "recv" /\ parsed' = arrived /\ arrived' = arrived
             /\ synced' = \E i \in DOMAIN start : start[i] = arrived
    <3>1. TypeOK'
      <4>1. synced' \in BOOLEAN
        BY <2>2, Zenon
      <4>2. pc' # pc
        BY <1>9, <2>2 DEF Dispatch
      <4>3. alive' = alive /\ alive \in BOOLEAN
        BY <1>2, <1>9, <4>2 DEF Dispatch, TypeOK
      <4>4. arrived \in 0 .. Total /\ arrived \in 0 .. arrived
        BY <1>3
      <4> QED BY <1>1, <1>2, <2>2, <4>1, <4>3, <4>4 DEF TypeOK
    <3>2. NothingHeldBack'
      BY <1>1, <1>3, <2>2, EmptyBuffer
    <3>3. synced' => \E i \in 1 .. Len(script') + 1 : start'[i] = parsed'
      BY <1>1, <1>4, <2>2
    <3> QED BY <2>2, <3>1, <3>2, <3>3 DEF FramingInv, Opening
  <2> QED BY <1>9, <2>1, <2>2 DEF Dispatch
<1>10. CASE ExtraThrows
  <2>1. TypeOK'
    BY <1>1, <1>2, <1>10 DEF TypeOK, ExtraThrows
  <2> QED BY <1>1, <1>2, <1>10, <2>1
          DEF FramingInv, ExtraThrows, Opening, NothingHeldBack
<1> QED BY <1>5, <1>6, <1>7, <1>8, <1>9, <1>10

\* recv() adds bytes to the buffer; the parser is at the start of a message.
LEMMA ReceiveStep ==
    ASSUME FramingInv, [Next]_vars, Receive
    PROVE  FramingInv'
<1>1. /\ script' = script /\ junk' = junk /\ start' = start /\ Total' = Total
  BY StreamStays
<1>2. /\ arrived \in Nat /\ parsed \in Nat /\ parsed <= arrived /\ Total \in Nat
  BY StreamTyped DEF FramingInv
<1>3. PICK n \in 1 .. ReadSize : arrived + n <= Total /\ arrived' = arrived + n
  BY DEF Receive, Arrives
<1>4. n \in Nat /\ arrived' \in 0 .. Total /\ parsed \in 0 .. arrived'
  BY <1>2, <1>3, FramingAssumption
<1> QED BY <1>1, <1>4 DEF FramingInv, TypeOK, Receive, Opening, NothingHeldBack

\* The parser goes back to recv() when the front of the buffer is no complete
\* message.
LEMMA ParseStopStep ==
    ASSUME FramingInv, [Next]_vars, ParseStop
    PROVE  FramingInv'
<1>1. /\ script' = script /\ junk' = junk /\ start' = start /\ Total' = Total
  BY StreamStays
<1>2. /\ arrived \in Nat /\ parsed \in Nat /\ HeaderSize \in Nat /\ script \in Scripts
  BY StreamTyped DEF FramingInv
<1>3. NothingHeldBack'
  <2>1. ASSUME Aligned
        PROVE  Available < HeaderSize + script[Current].len
    <3>1. /\ script[Current].len \in Nat
          /\ (script[Current].len + HeaderSize) % LengthModulus
                = script[Current].len + HeaderSize
      BY <1>2, <2>1, CurrentFacts
    <3>2. Available \in Int /\ HeaderSize \in Nat
      BY <1>2 DEF Available
    <3>3. Available < HeaderSize \/ ~ (Available >= script[Current].len + HeaderSize)
      BY <2>1, <3>1 DEF ParseStop, Complete, Length
    <3> QED BY <3>1, <3>2, <3>3
  <2>2. Aligned' = Aligned /\ Available' = Available /\ (Aligned => Current' = Current)
    BY <1>1 DEF ParseStop, Aligned, Available, Current
  <2> QED BY <1>1, <2>1, <2>2 DEF NothingHeldBack
<1> QED BY <1>1, <1>3 DEF FramingInv, TypeOK, ParseStop, Opening

\* A message is taken out as a whole: the parser is at the next.
LEMMA ParseMessageStep ==
    ASSUME FramingInv, [Next]_vars, ParseMessage
    PROVE  FramingInv' /\ parsed' = start[Current + 1]
<1>1. /\ script' = script /\ junk' = junk /\ start' = start /\ Total' = Total
  BY StreamStays
<1>2. /\ script \in Scripts /\ script \in Seq(Channel!Message) /\ junk \in Nat
      /\ arrived \in Nat /\ parsed \in Nat /\ HeaderSize \in Nat /\ Len(script) \in Nat
  BY StreamTyped DEF FramingInv
<1>3. /\ Current \in 1 .. Len(script) /\ start[Current] = parsed
      /\ script[Current].len \in Nat
      /\ Available >= script[Current].len + HeaderSize
  BY <1>2, CurrentFacts DEF ParseMessage, Complete
<1>4. parsed' = start[Current + 1]
  <2>1. start[Current + 1] = start[Current] + HeaderSize + script[Current].len
    BY <1>2, <1>3, StartFacts
  <2> QED BY <1>3, <2>1 DEF ParseMessage
<1>5. parsed' \in 0 .. arrived
  BY <1>2, <1>3 DEF ParseMessage, Available
<1>6. Current + 1 \in 1 .. Len(script) + 1
  BY <1>2, <1>3
<1>7. pc = "parse" /\ pc' = "parse"
  BY DEF ParseMessage
<1>8. TypeOK'
  BY <1>1, <1>5 DEF FramingInv, TypeOK, ParseMessage
<1> QED BY <1>1, <1>4, <1>6, <1>7, <1>8 DEF FramingInv, Opening, NothingHeldBack

\* Bytes are taken for what they are not only after a wrong start.
LEMMA ParseGarbageStep ==
    ASSUME FramingInv, [Next]_vars, ParseGarbage
    PROVE  FramingInv' /\ synced = FALSE
<1>1. /\ script' = script /\ junk' = junk /\ start' = start /\ Total' = Total
  BY StreamStays
<1>2. /\ script \in Seq(Channel!Message) /\ Len(script) \in Nat
      /\ arrived \in Nat /\ parsed \in Nat /\ arrived <= Total /\ Total \in Nat
      /\ HeaderSize \in Nat \ {0}
  BY StreamTyped DEF FramingInv
<1>3. synced = FALSE
  <2>1. SUFFICES ASSUME synced
                 PROVE  FALSE
    BY DEF FramingInv, TypeOK
  <2>2. PICK i \in 1 .. Len(script) + 1 : start[i] = parsed
    BY <2>1 DEF FramingInv
  <2>3. i \notin 1 .. Len(script)
    BY <2>2 DEF ParseGarbage, Aligned
  <2>4. i = Len(script) + 1
    BY <1>2, <2>3
  <2>5. parsed = Total
    BY <2>2, <2>4 DEF Total
  <2> QED BY <1>2, <2>5 DEF ParseGarbage, Available
<1>4. parsed' \in 0 .. arrived
  <2>1. CASE parsed' = parsed
    BY <2>1 DEF FramingInv, TypeOK
  <2>2. CASE parsed' # parsed
    <3>1. PICK len \in 0 .. LengthModulus - 1 :
             Complete(len) /\ len + HeaderSize < LengthModulus
             /\ parsed' = parsed + HeaderSize + len
      BY <2>2 DEF ParseGarbage, Length
    <3>2. len \in Nat /\ Available >= len + HeaderSize
      BY <3>1, NoWrap, FramingAssumption DEF Complete
    <3> QED BY <1>2, <3>1, <3>2 DEF Available
  <2> QED BY <2>1, <2>2
<1>5. alive' \in BOOLEAN
  BY Zenon DEF FramingInv, TypeOK, ParseGarbage
<1>6. pc = "parse" /\ pc' = "parse" /\ arrived' = arrived /\ synced' = synced
  BY DEF ParseGarbage
<1>7. TypeOK'
  BY <1>1, <1>4, <1>5, <1>6 DEF FramingInv, TypeOK
<1> QED BY <1>3, <1>6, <1>7 DEF FramingInv, Opening, NothingHeldBack

-----------------------------------------------------------------------------
(* The invariants                                                          *)

\* The invariant holds at the start.
LEMMA FramingInitially == Init => FramingInv
<1> SUFFICES ASSUME Init
             PROVE  FramingInv
  OBVIOUS
<1>1. script \in Seq(Channel!Message) /\ junk \in Nat
  BY ScriptsAssumption, FramingAssumption DEF Init
<1>2. Total \in Nat
  BY <1>1, StartsInStream
<1>3. synced \in BOOLEAN /\ alive \in BOOLEAN
  BY Zenon DEF Init
<1>4. TypeOK
  BY <1>2, <1>3 DEF Init, TypeOK
<1> QED BY <1>4 DEF Init, FramingInv, Opening, NothingHeldBack

\* Every step keeps it.
LEMMA FramingInductive == FramingInv /\ [Next]_vars => FramingInv'
<1> SUFFICES ASSUME FramingInv, [Next]_vars
             PROVE  FramingInv'
  OBVIOUS
<1>1. CASE UNCHANGED vars
  <2>1. script' = script /\ junk' = junk /\ start' = start /\ Total' = Total
    BY StreamStays
  <2> QED BY <1>1, <2>1 DEF vars, FramingInv, TypeOK, Opening, NothingHeldBack,
                            Aligned, Available, Current
<1>2. CASE HandshakeEnds \/ ReadFirst \/ ReadNothing \/ ReadExtra \/ ExtraThrows \/ Dispatch
  BY <1>2, OpeningStep
<1>3. CASE Receive
  BY <1>3, ReceiveStep
<1>4. CASE ParseStop
  BY <1>4, ParseStopStep
<1>5. CASE ParseMessage
  BY <1>5, ParseMessageStep
<1>6. CASE ParseGarbage
  BY <1>6, ParseGarbageStep
<1> QED BY <1>1, <1>2, <1>3, <1>4, <1>5, <1>6 DEF Next

\* The inductive invariant holds in every state of every run of the input side.
THEOREM FramingInvariance == Spec => []FramingInv
  BY FramingInitially, FramingInductive, PTL DEF Spec

\* TypeOK: the parser stays within what has arrived, and that within the
\* stream, also when it takes bytes for lengths that they are not.
THEOREM FramingTypeCorrect == Spec => []TypeOK
<1>1. FramingInv => TypeOK
  BY DEF FramingInv
<1> QED BY <1>1, FramingInvariance, PTL

\* NothingHeldBack: no complete message waits in the buffer for bytes that may
\* never come.
THEOREM NothingHeldBackHolds == Spec => []NothingHeldBack
<1>1. FramingInv => NothingHeldBack
  BY DEF FramingInv
<1> QED BY <1>1, FramingInvariance, PTL

-----------------------------------------------------------------------------
(* The refinement of MessageChannel                                        *)

\* The channel's state, as Framing substitutes it.
Phase == IF Opening THEN "opening" ELSE "open"
Pending == IF Opening THEN script ELSE Rest(parsed)

\* The channel's initial condition and actions in terms of it.
LEMMA Substitution ==
    /\ Channel!Init <=> /\ Phase = "opening" /\ synced = FALSE /\ Pending \in Scripts
                        /\ flags = Channel!InitialFlags
    /\ Channel!Open <=> /\ Phase = "opening" /\ Phase' = "open" /\ synced' \in BOOLEAN
                        /\ synced' => \E lost \in 0 .. Len(Pending) :
                                Pending' = SubSeq(Pending, lost + 1, Len(Pending))
                        /\ flags' = flags
    /\ Channel!Deliver <=> /\ Phase = "open" /\ synced /\ Pending # <<>>
                           /\ flags' = Channel!Handle(flags, Head(Pending))
                           /\ Pending' = Tail(Pending) /\ Phase' = Phase /\ synced' = synced
    /\ Channel!Desynchronised <=> /\ Phase = "open" /\ ~synced
                                  /\ Phase' = Phase /\ synced' = synced
    /\ (UNCHANGED Channel!vars) <=> /\ Phase' = Phase /\ synced' = synced
                                    /\ Pending' = Pending /\ flags' = flags
  BY DEF Channel!Init, Channel!Open, Channel!Deliver, Channel!Desynchronised,
         Channel!vars, Phase, Pending, Rest, Aligned, Current

\* After a step the channel holds what starts where the parser then stands.
LEMMA PendingNext ==
    ASSUME TypeOK, [Next]_vars, ~Opening'
    PROVE  /\ Pending' = Rest(parsed')
           /\ \A i \in 1 .. Len(script) + 1 :
                 parsed' = start[i] => Pending' = SubSeq(script, i, Len(script))
<1>1. script' = script /\ start' = start
  BY StreamStays
<1>2. Pending' = Rest(parsed')
  BY <1>1 DEF Pending, Rest
<1>3. script \in Seq(Channel!Message) /\ junk \in Nat
  BY StreamTyped
<1> QED BY <1>2, <1>3, RestFrom

\* The steps of the opening are none of the channel's but the last, which opens
\* it: at the start of some message, or out of step.
LEMMA OpeningRefines ==
    ASSUME FramingInv, [Next]_vars,
           HandshakeEnds \/ ReadFirst \/ ReadNothing \/ ReadExtra \/ ExtraThrows \/ Dispatch
    PROVE  Channel!Open \/ UNCHANGED Channel!vars
<1>1. script' = script /\ start' = start /\ flags' = flags
  BY StreamStays DEF HandshakeEnds, ReadFirst, ReadNothing, ReadExtra, ExtraThrows, Dispatch
<1>2. Opening /\ Phase = "opening" /\ Pending = script /\ parsed = 0 /\ synced = FALSE
  BY DEF FramingInv, HandshakeEnds, ReadFirst, ReadNothing, ReadExtra, ExtraThrows, Dispatch,
         Opening, Phase, Pending
<1>3. /\ script \in Seq(Channel!Message) /\ junk \in Nat /\ Len(script) \in Nat
      /\ arrived \in Nat /\ arrived <= Total
  BY StreamTyped DEF FramingInv
<1>4. DOMAIN start = 1 .. Len(script) + 1 /\ start[1] = junk
  BY <1>3, StartFacts
<1>5. CASE Opening'
  <2>1. Phase' = Phase /\ Pending' = Pending
    BY <1>1, <1>2, <1>5 DEF Phase, Pending
  <2>2. synced' = synced
    BY <1>5 DEF HandshakeEnds, ReadFirst, ReadNothing, ReadExtra, ExtraThrows, Dispatch, Opening
  <2> QED BY <1>1, <2>1, <2>2, Substitution
<1>6. CASE ~Opening'
  <2>1. Phase' = "open"
    BY <1>6 DEF Phase
  <2>2. CASE HandshakeEnds
    <3>1. synced' = FALSE
      BY <1>2, <2>2 DEF HandshakeEnds
    <3> QED BY <1>1, <1>2, <2>1, <3>1, Substitution
  <2>3. CASE ReadNothing \/ Dispatch
    <3>1. synced' \in BOOLEAN
      BY <1>2, <2>3, Zenon DEF ReadNothing, Dispatch
    <3>2. synced' => \E i \in 1 .. Len(script) + 1 : parsed' = start[i]
      <4>1. CASE ReadNothing
        <5>1. parsed' = start[1]
          BY <1>2, <1>4, <4>1 DEF FramingInv, ReadNothing
        <5> QED BY <1>3, <5>1
      <4>2. CASE Dispatch
        BY <1>2, <1>4, <4>2 DEF Dispatch
      <4> QED BY <2>3, <4>1, <4>2
    <3>3. ASSUME NEW i \in 1 .. Len(script) + 1, parsed' = start[i]
          PROVE  \E lost \in 0 .. Len(script) :
                    Pending' = SubSeq(script, lost + 1, Len(script))
      <4>1. Pending' = SubSeq(script, i, Len(script))
        BY <1>6, <3>3, PendingNext DEF FramingInv
      <4>2. i - 1 \in 0 .. Len(script) /\ (i - 1) + 1 = i
        BY <1>3
      <4> QED BY <4>1, <4>2
    <3> QED BY <1>1, <1>2, <2>1, <3>1, <3>2, <3>3, Substitution
  <2>4. ~ReadFirst /\ ~ReadExtra /\ ~ExtraThrows
    BY <1>6 DEF ReadFirst, ReadExtra, ExtraThrows, Opening
  <2> QED BY <2>2, <2>3, <2>4
<1> QED BY <1>5, <1>6

\* Reads and stops of the parser leave the channel as it is.
LEMMA BufferRefines ==
    ASSUME FramingInv, [Next]_vars, Receive \/ ParseStop \/ UNCHANGED vars
    PROVE  UNCHANGED Channel!vars
<1>1. script' = script /\ start' = start
  BY StreamStays
<1>2. Opening' = Opening /\ parsed' = parsed /\ synced' = synced /\ flags' = flags
  BY DEF Receive, ParseStop, vars, Opening
<1>3. Phase' = Phase /\ Pending' = Pending
  BY <1>1, <1>2 DEF Phase, Pending, Rest
<1> QED BY <1>2, <1>3, Substitution

\* The parser, in step with the peer, delivers the first pending message; out of
\* step the channel promises nothing.
LEMMA ParserRefines ==
    ASSUME FramingInv, [Next]_vars, ParseMessage \/ ParseGarbage
    PROVE  Channel!Deliver \/ Channel!Desynchronised
<1>1. script' = script /\ start' = start
  BY StreamStays
<1>2. ~Opening /\ ~Opening' /\ Phase = "open" /\ Phase' = "open" /\ synced' = synced
  BY DEF ParseMessage, ParseGarbage, Opening, Phase
<1>3. /\ script \in Scripts /\ script \in Seq(Channel!Message) /\ junk \in Nat
      /\ Len(script) \in Nat /\ synced \in BOOLEAN
  BY StreamTyped DEF FramingInv, TypeOK
<1>4. CASE synced = FALSE
  BY <1>2, <1>4, Substitution
<1>5. CASE synced = TRUE /\ ParseMessage
  <2> DEFINE i == Current
             n == Len(script)
  <2>1. i \in 1 .. n /\ start[i] = parsed /\ parsed' = start[i + 1]
    BY <1>3, <1>5, CurrentFacts, ParseMessageStep DEF ParseMessage
  <2>2. flags' = Channel!Handle(flags, script[i])
    BY <1>5 DEF ParseMessage
  <2> HIDE DEF i
  <2>3. i \in 1 .. n + 1 /\ i + 1 \in 1 .. n + 1
    BY <1>3, <2>1
  <2>4. Pending = SubSeq(script, i, n)
    BY <1>2, <1>3, <2>1, <2>3, RestFrom DEF Pending
  <2>5. Pending' = SubSeq(script, i + 1, n)
    BY <1>2, <2>1, <2>3, PendingNext DEF FramingInv
  <2>6. /\ SubSeq(script, i, n) # <<>> /\ Head(SubSeq(script, i, n)) = script[i]
        /\ Tail(SubSeq(script, i, n)) = SubSeq(script, i + 1, n)
    <3>1. n \in i .. n /\ i \in Int /\ n \in Int /\ n - i + 1 # 0
      BY <1>3, <2>1
    <3>2. \A k \in i .. n : script[k] \in Channel!Message
      BY <1>3, <2>1, ElementOfSeq
    <3>3. Len(SubSeq(script, i, n)) = n - i + 1
      BY <2>1, <3>1, <3>2, SubSeqProperties
    <3>4. SubSeq(script, i, n) # <<>>
      BY <3>1, <3>3, EmptySeq
    <3> QED BY <1>3, <2>1, <3>1, <3>4, HeadTailOfSubSeq
  <2> QED BY <1>2, <1>5, <2>2, <2>4, <2>5, <2>6, Substitution
<1>6. ParseGarbage => synced = FALSE
  BY ParseGarbageStep
<1> QED BY <1>3, <1>4, <1>5, <1>6

\* ImplementsChannel: whatever pieces the bytes come in, messages are handled
\* once and in order, but for those that the opening drops and for a connection
\* whose opening left the parser inside a message.
THEOREM ImplementsChannelHolds == Spec => ImplementsChannel
<1>1. Init => Channel!Init
  BY Substitution DEF Init, Phase, Pending, Opening
<1>2. FramingInv /\ [Next]_vars => [Channel!Next]_(Channel!vars)
  <2> SUFFICES ASSUME FramingInv, [Next]_vars
               PROVE  [Channel!Next]_(Channel!vars)
    OBVIOUS
  <2>1. CASE HandshakeEnds \/ ReadFirst \/ ReadNothing \/ ReadExtra \/ ExtraThrows \/ Dispatch
    BY <2>1, OpeningRefines DEF Channel!Next
  <2>2. CASE Receive \/ ParseStop \/ UNCHANGED vars
    BY <2>2, BufferRefines
  <2>3. CASE ParseMessage \/ ParseGarbage
    BY <2>3, ParserRefines DEF Channel!Next
  <2> QED BY <2>1, <2>2, <2>3 DEF Next
<1> QED BY <1>1, <1>2, FramingInvariance, PTL DEF Spec, ImplementsChannel, Channel!Spec

-----------------------------------------------------------------------------
(* Reading ends.                                                           *)

\* How far the reading side is from its end: the bytes to come, those to parse, the
\* steps of the opening that are left, and its life.
Rank(at) == [handshake |-> 5, first |-> 4, extra |-> 3, dispatch |-> 2,
             parse |-> 1, recv |-> 0, thrown |-> 0][at]
StepsLeft == 2 * (Total - arrived) + (Total - parsed) + Rank(pc)
                + (IF alive THEN 1 ELSE 0)

\* Ranks are numbers.
LEMMA RankType ==
    \A at \in {"handshake", "first", "extra", "thrown", "dispatch", "recv", "parse"} :
        Rank(at) \in 0 .. 5
  BY DEF Rank

\* There are never fewer than none.
LEMMA StepsLeftIsNumber == TypeOK => StepsLeft \in Nat
<1> SUFFICES ASSUME TypeOK
             PROVE  StepsLeft \in Nat
  OBVIOUS
<1>1. Rank(pc) \in 0 .. 5
  BY RankType DEF TypeOK
<1>2. Total \in Nat /\ arrived \in 0 .. Total /\ parsed \in 0 .. arrived
  BY StreamTyped
<1> QED BY <1>1, <1>2 DEF StepsLeft

\* What a step does to them: bytes come, the reading side goes on towards recv(),
\* bytes are taken out, or it dies.
LEMMA StepProgress ==
    ASSUME FramingInv, Next
    PROVE  \/ /\ arrived' > arrived /\ parsed' = parsed /\ alive' = alive
              /\ Rank(pc') <= Rank(pc) + 1
           \/ /\ arrived' = arrived /\ parsed' >= parsed /\ alive' = alive
              /\ Rank(pc') < Rank(pc)
           \/ /\ arrived' = arrived /\ parsed' > parsed /\ alive' = alive /\ pc' = pc
           \/ /\ arrived' = arrived /\ parsed' = parsed /\ alive /\ ~alive' /\ pc' = pc
<1>1. /\ arrived \in Nat /\ parsed \in Nat /\ parsed <= arrived
      /\ script \in Scripts /\ HeaderSize \in Nat \ {0}
  BY StreamTyped DEF FramingInv
<1>2. ASSUME NEW size \in Int, Arrives(size)
      PROVE  arrived' > arrived
  BY <1>1, <1>2 DEF Arrives
<1>3. CASE HandshakeEnds \/ ReadNothing \/ ExtraThrows
  BY <1>1, <1>3 DEF HandshakeEnds, ReadNothing, ExtraThrows, Rank
<1>4. CASE ReadFirst
  <2>1. arrived' > arrived
    BY <1>2, <1>4, FramingAssumption DEF ReadFirst
  <2> QED BY <1>4, <2>1 DEF ReadFirst, Rank
<1>5. CASE ReadExtra
  <2>1. arrived' > arrived
    BY <1>1, <1>5 DEF ReadExtra, Arrives
  <2> QED BY <1>5, <2>1 DEF ReadExtra, Rank
<1>6. CASE Dispatch
  <2>1. parsed = 0
    BY <1>6 DEF Dispatch, FramingInv, Opening
  <2>2. pc = "dispatch" /\ alive /\ arrived' = arrived
    BY <1>6 DEF Dispatch
  <2>3. \/ ~alive' /\ pc' = pc /\ parsed' = parsed
        \/ pc' = "recv" /\ parsed' = arrived /\ alive' = alive
    BY <1>6 DEF Dispatch
  <2>4. Rank("recv") < Rank("dispatch")
    BY DEF Rank
  <2> QED BY <1>1, <2>1, <2>2, <2>3, <2>4
<1>7. CASE Receive
  <2>1. arrived' > arrived
    BY <1>2, <1>7, FramingAssumption DEF Receive
  <2> QED BY <1>7, <2>1 DEF Receive, Rank
<1>8. CASE ParseStop
  BY <1>1, <1>8 DEF ParseStop, Rank
<1>9. CASE ParseMessage
  <2>1. script[Current].len \in Nat
    BY <1>1, <1>9, CurrentFacts DEF ParseMessage
  <2> QED BY <1>1, <1>9, <2>1 DEF ParseMessage
<1>10. CASE ParseGarbage
  <2>1. alive /\ pc' = pc /\ arrived' = arrived
    BY <1>10 DEF ParseGarbage
  <2>2. \/ ~alive' /\ parsed' = parsed
        \/ /\ alive' = alive
           /\ \E len \in 0 .. LengthModulus - 1 : parsed' = parsed + HeaderSize + len
    BY <1>10 DEF ParseGarbage, Length
  <2>3. \A len \in 0 .. LengthModulus - 1 : parsed + HeaderSize + len > parsed
    BY <1>1, FramingAssumption
  <2> QED BY <2>1, <2>2, <2>3
<1> QED BY <1>3, <1>4, <1>5, <1>6, <1>7, <1>8, <1>9, <1>10 DEF Next

\* Whatever the peer sends, in whatever pieces, each step of the reading side
\* brings it nearer to its end: process_input_buffer never goes round without
\* taking bytes out, also where the length it reads is no length.
THEOREM ReadingEnds == Spec => [](StepsLeft \in Nat) /\ [][StepsLeft' < StepsLeft]_vars
<1>1. ASSUME FramingInv, FramingInv', Next
      PROVE  StepsLeft' < StepsLeft
  <2>1. Total' = Total
    BY <1>1, StreamStays
  <2>2. Total \in Nat /\ arrived \in Nat /\ parsed \in Nat
    BY <1>1, StreamTyped DEF FramingInv
  <2>3. arrived' \in Nat /\ parsed' \in Nat
    BY <1>1, <2>1, <2>2 DEF FramingInv, TypeOK
  <2>4. pc \in {"handshake", "first", "extra", "thrown", "dispatch", "recv", "parse"}
        /\ pc' \in {"handshake", "first", "extra", "thrown", "dispatch", "recv", "parse"}
    BY <1>1 DEF FramingInv, TypeOK
  <2>5. Rank(pc) \in 0 .. 5 /\ Rank(pc') \in 0 .. 5
    BY <2>4, RankType
  <2>6. StepsLeft' = 2 * (Total - arrived') + (Total - parsed') + Rank(pc')
                        + (IF alive' THEN 1 ELSE 0)
    BY <2>1 DEF StepsLeft
  <2> QED BY <1>1, <2>2, <2>3, <2>5, <2>6, StepProgress DEF StepsLeft
<1>2. FramingInv /\ FramingInv' /\ [Next]_vars => [StepsLeft' < StepsLeft]_vars
  BY <1>1
<1>3. FramingInv => StepsLeft \in Nat
  BY StepsLeftIsNumber DEF FramingInv
<1> QED BY <1>2, <1>3, FramingInvariance, PTL DEF Spec

\* Where it ends: when all bytes have come and the parser waits for more, a stream
\* that was parsed from the start of a message has been handled to its last byte.
ReadIsHandled == pc = "recv" /\ synced /\ arrived = Total => parsed = Total

\* With ReadingEnds, all of AllHandled but that the reading side runs.
THEOREM ReadIsHandledHolds == Spec => []ReadIsHandled
<1>1. FramingInv => ReadIsHandled
  <2> SUFFICES ASSUME FramingInv, pc = "recv", synced, arrived = Total
               PROVE  parsed = Total
    BY DEF ReadIsHandled
  <2>1. /\ script \in Scripts /\ script \in Seq(Channel!Message) /\ junk \in Nat
        /\ Len(script) \in Nat /\ parsed \in Nat /\ Total \in Nat
        /\ HeaderSize \in Nat
    BY StreamTyped DEF FramingInv
  <2>2. PICK i \in 1 .. Len(script) + 1 : start[i] = parsed
    BY DEF FramingInv
  <2>3. CASE i \in 1 .. Len(script)
    <3>1. Aligned
      BY <2>2, <2>3 DEF Aligned
    <3> DEFINE c == Current
    <3>2. c \in 1 .. Len(script) /\ start[c] = parsed /\ script[c].len \in Nat
      BY <2>1, <3>1, CurrentFacts
    <3>3. Total - parsed < HeaderSize + script[c].len
      BY <3>1 DEF FramingInv, NothingHeldBack, Available
    <3> HIDE DEF c
    <3>4. start[c + 1] = start[c] + HeaderSize + script[c].len
      BY <2>1, <3>2, StartFacts
    <3>5. c + 1 \in 1 .. Len(script) + 1 /\ start[c + 1] \in 0 .. Total
      <4>1. c + 1 \in 1 .. Len(script) + 1
        BY <2>1, <3>2
      <4> QED BY <2>1, <4>1, StartsInStream
    <3> QED BY <2>1, <3>2, <3>3, <3>4, <3>5
  <2>4. CASE i = Len(script) + 1
    BY <2>2, <2>4 DEF Total
  <2> QED BY <2>1, <2>2, <2>3, <2>4
<1> QED BY <1>1, FramingInvariance, PTL
=============================================================================
