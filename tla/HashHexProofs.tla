---------------------------- MODULE HashHexProofs ----------------------------
(***************************************************************************)
(* The theorem about HashHex, for digests of every length and every radix. *)
(* What the two loops print is defined by recursion; facts about it are    *)
(* proved by looking at the first byte after which they fail.              *)
(***************************************************************************)
EXTENDS HashHex, SequenceTheorems, NaturalsInduction, WellFoundedInduction, TLAPS

-----------------------------------------------------------------------------
(* Numbers                                                                 *)

\* A set of numbers that is not empty has a least one.
LEMMA LeastNumber ==
    ASSUME NEW T \in SUBSET Nat, T # {}
    PROVE  \E x \in T : \A y \in T : x <= y
<1> DEFINE R == OpToRel(<, Nat)
<1>1. IsWellFoundedOn(R, Nat)
  BY NatLessThanWellFounded
<1>2. \A x, y \in Nat : x < y => <<x, y>> \in R
  BY DEF OpToRel
<1> HIDE DEF R
<1>3. PICK x \in T : \A y \in T : ~ (<<y, x>> \in R)
  BY <1>1, WFMin
<1>4. \A y \in T : y \in Nat /\ x \in Nat /\ ~ (y < x)
  BY <1>2, <1>3
<1> QED BY <1>3, <1>4

\* The two digits of a byte determine it.
LEMMA DigitsOfByte ==
    ASSUME NEW n \in ByteValue
    PROVE  /\ n \div Radix \in Nat /\ n % Radix \in Nat
           /\ n = Radix * (n \div Radix) + (n % Radix)
<1>1. n \in Nat /\ Radix \in Nat \ {0}
  BY HashAssumption DEF ByteValue
<1>2. ASSUME NEW a \in Nat, NEW b \in Nat \ {0}
      PROVE  a \div b \in Nat /\ a % b \in Nat /\ a = b * (a \div b) + (a % b)
  <2>1. a \div b \in Int /\ a % b \in 0 .. b - 1 /\ a = b * (a \div b) + (a % b)
    BY SMTT(10)
  <2>2. a \div b \in Nat
    BY SMTT(10)
  <2> QED BY <2>1, <2>2
<1> QED BY <1>1, <1>2

-----------------------------------------------------------------------------
(* One byte                                                                *)

Stream == [text : Seq(Nat), width : Nat]

\* The two digits of each of the first i bytes of a digest.
Digits(d, i) ==
    [k \in 1 .. 2 * i |-> IF k % 2 = 1 THEN d[(k + 1) \div 2] \div Radix
                                       ELSE d[k \div 2] % Radix]

\* Printing a byte resets the width and adds one digit or two.
LEMMA PutFacts ==
    ASSUME NEW s \in Stream, NEW n \in ByteValue
    PROVE  /\ Put(s, n) \in Stream /\ Put(s, n).width = 0
           /\ IF n < Radix /\ s.width < 2
              THEN Len(Put(s, n).text) = Len(s.text) + 1
              ELSE /\ Put(s, n).text = s.text \o <<n \div Radix, n % Radix>>
                   /\ Len(Put(s, n).text) = Len(s.text) + 2
<1>1. n \in Nat /\ n \div Radix \in Nat /\ n % Radix \in Nat
  BY DigitsOfByte DEF ByteValue
<1>2. <<n>> \in Seq(Nat) /\ <<n \div Radix, n % Radix>> \in Seq(Nat) /\ Len(<<n>>) = 1
      /\ Len(<<n \div Radix, n % Radix>>) = 2
  BY <1>1
<1>3. s.text \in Seq(Nat)
  BY DEF Stream
<1> DEFINE printed == IF n < Radix /\ s.width < 2 THEN <<n>> ELSE <<n \div Radix, n % Radix>>
<1>4. printed \in Seq(Nat)
  BY <1>2
<1>5. s.text \o printed \in Seq(Nat) /\ Len(s.text \o printed) = Len(s.text) + Len(printed)
  BY <1>3, <1>4, ConcatProperties
<1>6. Put(s, n) = [text |-> s.text \o printed, width |-> 0]
  BY DEF Put
<1>7. Put(s, n) \in Stream /\ Put(s, n).width = 0 /\ Put(s, n).text = s.text \o printed
  <2> HIDE DEF printed
  <2> QED BY <1>5, <1>6 DEF Stream
<1>8. CASE n < Radix /\ s.width < 2
  <2>1. Len(printed) = 1
    BY <1>2, <1>8
  <2> HIDE DEF printed
  <2> QED BY <1>5, <1>7, <1>8, <2>1
<1>9. CASE ~ (n < Radix /\ s.width < 2)
  <2>1. printed = <<n \div Radix, n % Radix>> /\ Len(printed) = 2
    BY <1>2, <1>9
  <2> HIDE DEF printed
  <2> QED BY <1>5, <1>7, <1>9, <2>1
<1> QED BY <1>8, <1>9

\* There are two digits for each byte.
LEMMA DigitsTyped ==
    ASSUME NEW d \in Digest, NEW i \in 0 .. DigestLength
    PROVE  /\ Digits(d, i) \in Seq(Nat) /\ Len(Digits(d, i)) = 2 * i
           /\ \A k \in 1 .. 2 * i :
                 Digits(d, i)[k] = IF k % 2 = 1 THEN d[(k + 1) \div 2] \div Radix
                                                ELSE d[k \div 2] % Radix
<1>1. i \in Nat /\ DigestLength \in Nat /\ 2 * i \in Nat
  BY HashAssumption
<1>2. \A k \in 1 .. DigestLength : d[k] \div Radix \in Nat /\ d[k] % Radix \in Nat
  BY DigitsOfByte DEF Digest
<1>3. ASSUME NEW k \in 1 .. 2 * i
      PROVE  (IF k % 2 = 1 THEN d[(k + 1) \div 2] \div Radix ELSE d[k \div 2] % Radix) \in Nat
  <2>1. CASE k % 2 = 1
    <3>1. (k + 1) \div 2 \in 1 .. DigestLength
      BY <1>1, <2>1
    <3> QED BY <1>2, <2>1, <3>1
  <2>2. CASE k % 2 # 1
    <3>1. k \div 2 \in 1 .. DigestLength
      BY <1>1, <2>2
    <3> QED BY <1>2, <2>2, <3>1
  <2> QED BY <2>1, <2>2
<1>4. Digits(d, i) \in [1 .. 2 * i -> Nat]
  BY <1>3 DEF Digits
<1>5. Digits(d, i) \in Seq(Nat) /\ DOMAIN Digits(d, i) = 1 .. 2 * i
  BY <1>1, <1>4, IsASeq
<1>6. Len(Digits(d, i)) = 2 * i
  BY <1>1, <1>5, LenProperties
<1> QED BY <1>5, <1>6 DEF Digits

\* The digits of i bytes are those of i - 1 and two more.
LEMMA DigitsFacts ==
    ASSUME NEW d \in Digest, NEW i \in 1 .. DigestLength
    PROVE  Digits(d, i) = Digits(d, i - 1) \o <<d[i] \div Radix, d[i] % Radix>>
<1> DEFINE two == <<d[i] \div Radix, d[i] % Radix>>
           s == Digits(d, i - 1)
           t == Digits(d, i)
<1>1. i \in Nat /\ DigestLength \in Nat /\ i - 1 \in 0 .. DigestLength /\ i \in 0 .. DigestLength
  BY HashAssumption
<1>2. d[i] \div Radix \in Nat /\ d[i] % Radix \in Nat
  BY DigitsOfByte DEF Digest
<1>3. two \in Seq(Nat) /\ Len(two) = 2 /\ two[1] = d[i] \div Radix /\ two[2] = d[i] % Radix
  BY <1>2
<1>4. /\ s \in Seq(Nat) /\ Len(s) = 2 * (i - 1) /\ t \in Seq(Nat) /\ Len(t) = 2 * i
      /\ \A k \in 1 .. 2 * (i - 1) :
            s[k] = IF k % 2 = 1 THEN d[(k + 1) \div 2] \div Radix ELSE d[k \div 2] % Radix
      /\ \A k \in 1 .. 2 * i :
            t[k] = IF k % 2 = 1 THEN d[(k + 1) \div 2] \div Radix ELSE d[k \div 2] % Radix
  BY <1>1, DigitsTyped
<1> HIDE DEF two, s, t
<1>5. /\ s \o two \in Seq(Nat) /\ Len(s \o two) = Len(s) + Len(two)
      /\ \A k \in 1 .. Len(s) + Len(two) :
            (s \o two)[k] = IF k <= Len(s) THEN s[k] ELSE two[k - Len(s)]
  BY <1>3, <1>4, ConcatProperties
<1>6. ASSUME NEW k \in 1 .. 2 * i
      PROVE  (s \o two)[k] = t[k]
  <2>1. (s \o two)[k] = IF k <= 2 * (i - 1) THEN s[k] ELSE two[k - 2 * (i - 1)]
    <3>1. Len(s) + Len(two) = 2 * i /\ Len(s) = 2 * (i - 1)
      BY <1>1, <1>3, <1>4
    <3> QED BY <1>5, <3>1
  <2>2. CASE k <= 2 * (i - 1)
    <3>1. k \in 1 .. 2 * (i - 1)
      BY <1>1, <2>2
    <3> QED BY <1>4, <2>1, <2>2, <3>1
  <2>3. CASE k = 2 * i - 1
    <3>1. k - 2 * (i - 1) = 1 /\ ~ (k <= 2 * (i - 1)) /\ k % 2 = 1 /\ (k + 1) \div 2 = i
      BY <1>1, <2>3
    <3> QED BY <1>3, <1>4, <2>1, <3>1
  <2>4. CASE k = 2 * i
    <3>1. k - 2 * (i - 1) = 2 /\ ~ (k <= 2 * (i - 1)) /\ k % 2 # 1 /\ k \div 2 = i
      BY <1>1, <2>4
    <3> QED BY <1>3, <1>4, <2>1, <3>1
  <2>5. k <= 2 * (i - 1) \/ k = 2 * i - 1 \/ k = 2 * i
    BY <1>1
  <2> QED BY <2>2, <2>3, <2>4, <2>5
<1>7. Len(s \o two) = 2 * i
  BY <1>1, <1>3, <1>4, <1>5
<1>8. s \o two = t
  BY <1>4, <1>5, <1>6, <1>7, SeqEqual
<1> QED BY <1>8 DEF two, s, t

\* They determine the digest.
LEMMA DigitsTellApart ==
    ASSUME NEW d \in Digest, NEW e \in Digest,
           Digits(d, DigestLength) = Digits(e, DigestLength)
    PROVE  d = e
<1> DEFINE N == DigestLength
<1>1. N \in Nat /\ N \in 0 .. N
  BY HashAssumption
<1>2. ASSUME NEW k \in 1 .. N
      PROVE  d[k] = e[k]
  <2>1. /\ 2 * k \in 1 .. 2 * N /\ (2 * k) % 2 # 1 /\ (2 * k) \div 2 = k
        /\ 2 * k - 1 \in 1 .. 2 * N /\ (2 * k - 1) % 2 = 1 /\ ((2 * k - 1) + 1) \div 2 = k
    BY <1>1
  <2>2. \A f \in Digest : Digits(f, N)[2 * k] = f[k] % Radix
                          /\ Digits(f, N)[2 * k - 1] = f[k] \div Radix
    <3>1. ASSUME NEW f \in Digest
          PROVE  \A j \in 1 .. 2 * N :
                    Digits(f, N)[j] = IF j % 2 = 1 THEN f[(j + 1) \div 2] \div Radix
                                                   ELSE f[j \div 2] % Radix
      BY <1>1, DigitsTyped
    <3> QED BY ONLY <2>1, <3>1
  <2>3. d[k] % Radix = e[k] % Radix /\ d[k] \div Radix = e[k] \div Radix
    BY <2>2
  <2>4. /\ d[k] = Radix * (d[k] \div Radix) + (d[k] % Radix)
        /\ e[k] = Radix * (e[k] \div Radix) + (e[k] % Radix)
    BY DigitsOfByte DEF Digest
  <2> QED BY <2>3, <2>4
<1>3. d = [k \in 1 .. N |-> d[k]] /\ e = [k \in 1 .. N |-> e[k]]
  BY DEF Digest
<1> QED BY <1>2, <1>3

-----------------------------------------------------------------------------
(* The two loops                                                           *)

\* f is the stream after each of the first n bytes of d, as g prints them.
Loop(f, n, g, empty, d) ==
    \A i \in 0 .. n : f[i] = IF i = 0 THEN empty ELSE g[<<f[i - 1], d[i]>>]

\* Every loop over the bytes of a digest comes to its end.
LEMMA LoopEnds ==
    ASSUME NEW g \in [Stream \X ByteValue -> Stream], NEW empty \in Stream,
           NEW d \in Digest
    PROVE  \E f \in [0 .. DigestLength -> Stream] : Loop(f, DigestLength, g, empty, d)
<1> DEFINE N == DigestLength
           T == {n \in 0 .. N : ~ \E f \in [0 .. n -> Stream] : Loop(f, n, g, empty, d)}
<1>1. N \in Nat /\ T \in SUBSET Nat
  BY HashAssumption
<1>2. SUFFICES ASSUME T # {}
               PROVE  FALSE
  BY <1>1
<1>3. PICK n \in T : \A m \in T : n <= m
  <2> HIDE DEF T
  <2> QED BY <1>1, <1>2, LeastNumber
<1>4. n # 0
  <2> DEFINE f == [i \in 0 .. 0 |-> empty]
  <2>1. f \in [0 .. 0 -> Stream] /\ f[0] = empty
    OBVIOUS
  <2>2. \A i \in 0 .. 0 : i = 0
    OBVIOUS
  <2> HIDE DEF f, T
  <2>3. Loop(f, 0, g, empty, d)
    BY <2>1, <2>2 DEF Loop
  <2> QED BY <2>1, <2>3 DEF T
<1>5. n \in 1 .. N /\ n - 1 \in 0 .. N /\ n - 1 \notin T
  <2>1. n \in 0 .. N
    OBVIOUS
  <2> HIDE DEF T
  <2> QED BY <1>1, <1>3, <1>4, <2>1
<1>6. PICK f \in [0 .. n - 1 -> Stream] : Loop(f, n - 1, g, empty, d)
  BY <1>5
<1> DEFINE last == g[<<f[n - 1], d[n]>>]
           h == [i \in 0 .. n |-> IF i < n THEN f[i] ELSE last]
<1>7. last \in Stream
  <2>1. f[n - 1] \in Stream /\ d[n] \in ByteValue
    BY <1>1, <1>5, <1>6 DEF Digest
  <2> QED BY <2>1
<1>8. h \in [0 .. n -> Stream]
  <2> HIDE DEF last
  <2> QED BY <1>1, <1>5, <1>6, <1>7
<1>9. Loop(h, n, g, empty, d)
  <2>1. ASSUME NEW i \in 0 .. n
        PROVE  h[i] = IF i = 0 THEN empty ELSE g[<<h[i - 1], d[i]>>]
    <3>1. CASE i < n
      <4>1. i \in 0 .. n - 1 /\ (i # 0 => i - 1 \in 0 .. n /\ i - 1 < n)
        BY <1>1, <1>5, <3>1
      <4> HIDE DEF last, T
      <4>2. h[i] = f[i] /\ (i # 0 => h[i - 1] = f[i - 1])
        BY <3>1, <4>1
      <4> HIDE DEF h
      <4> QED BY <1>6, <4>1, <4>2 DEF Loop
    <3>2. CASE i = n
      <4>1. ~ (i < n) /\ i # 0 /\ i - 1 \in 0 .. n /\ i - 1 < n
        BY <1>1, <1>5, <3>2
      <4>2. last = g[<<f[i - 1], d[i]>>]
        BY <3>2
      <4> HIDE DEF last, T
      <4>3. h[i] = last /\ h[i - 1] = f[i - 1]
        BY <4>1
      <4> HIDE DEF h
      <4> QED BY <4>1, <4>2, <4>3
    <3>3. i < n \/ i = n
      BY <1>1, <1>5
    <3> QED BY <3>1, <3>2, <3>3
  <2> HIDE DEF h
  <2> QED BY <2>1 DEF Loop
<1> QED BY <1>3, <1>8, <1>9

\* The stream before the first byte.
LEMMA EmptyFacts ==
    /\ EmptyStream \in Stream /\ SetW(EmptyStream) \in Stream
    /\ EmptyStream.text = <<>> /\ SetW(EmptyStream).text = <<>> /\ SetW(EmptyStream).width = 2
<1>1. <<>> \in Seq(Nat)
  BY EmptySeq
<1> QED BY <1>1 DEF EmptyStream, SetW, Stream

\* computeSHA1 prints both digits of every byte.
LEMMA ComputedText ==
    ASSUME NEW d \in Digest
    PROVE  ComputeSHA1(d) = Digits(d, DigestLength)
<1> DEFINE N == DigestLength
           g == [p \in Stream \X ByteValue |-> Put(SetW(p[1]), p[2])]
           after == CHOOSE f : f = [i \in 0 .. N |-> IF i = 0 THEN EmptyStream
                                                     ELSE Put(SetW(f[i - 1]), d[i])]
           T == {i \in 0 .. N : ~ (after[i] \in Stream /\ after[i].text = Digits(d, i))}
<1>1. N \in Nat /\ T \in SUBSET Nat
  BY HashAssumption
<1>2. ASSUME NEW s \in Stream
      PROVE  SetW(s) \in Stream /\ SetW(s).text = s.text /\ SetW(s).width = 2
  BY DEF SetW, Stream
<1>3. g \in [Stream \X ByteValue -> Stream]
  BY <1>2, PutFacts
<1>4. PICK f \in [0 .. N -> Stream] : Loop(f, N, g, EmptyStream, d)
  <2> HIDE DEF g
  <2> QED BY <1>3, EmptyFacts, LoopEnds
<1>5. f = [i \in 0 .. N |-> IF i = 0 THEN EmptyStream ELSE Put(SetW(f[i - 1]), d[i])]
  <2>1. ASSUME NEW i \in 0 .. N
        PROVE  f[i] = IF i = 0 THEN EmptyStream ELSE Put(SetW(f[i - 1]), d[i])
    <3>1. CASE i # 0
      <4>1. f[i - 1] \in Stream /\ d[i] \in ByteValue
        BY <1>1, <1>4, <3>1 DEF Digest
      <4> QED BY <1>4, <3>1, <4>1 DEF Loop
    <3> QED BY <1>4, <3>1 DEF Loop
  <2> QED BY <1>4, <2>1
<1>6. after = [i \in 0 .. N |-> IF i = 0 THEN EmptyStream ELSE Put(SetW(after[i - 1]), d[i])]
  BY <1>5
<1>7. ComputeSHA1(d) = after[N].text
  BY DEF ComputeSHA1
<1> HIDE DEF after
<1>8. T = {}
  <2>1. SUFFICES ASSUME T # {}
                 PROVE  FALSE
    OBVIOUS
  <2>2. PICK i \in T : \A k \in T : i <= k
    <3> HIDE DEF T
    <3> QED BY <1>1, <2>1, LeastNumber
  <2>3. i \in 0 .. N /\ ~ (after[i] \in Stream /\ after[i].text = Digits(d, i))
    OBVIOUS
  <2>4. CASE i = 0
    <3>1. after[i] = EmptyStream
      BY <1>1, <1>6, <2>4
    <3>2. Digits(d, 0) = <<>>
      <4>1. Digits(d, 0) \in Seq(Nat) /\ Len(Digits(d, 0)) = 0
        BY <1>1, DigitsTyped
      <4> QED BY <4>1, EmptySeq
    <3> QED BY <2>3, <2>4, <3>1, <3>2, EmptyFacts
  <2>5. CASE i # 0
    <3>1. i \in 1 .. N /\ i - 1 \in 0 .. N /\ ~ (i <= i - 1) /\ d[i] \in ByteValue
      BY <1>1, <2>3, <2>5 DEF Digest
    <3>2. after[i - 1] \in Stream /\ after[i - 1].text = Digits(d, i - 1)
      BY <2>2, <3>1
    <3>3. after[i] = Put(SetW(after[i - 1]), d[i])
      BY <1>6, <2>3, <2>5
    <3>4. /\ SetW(after[i - 1]) \in Stream /\ SetW(after[i - 1]).text = Digits(d, i - 1)
          /\ ~ (SetW(after[i - 1]).width < 2)
      BY <1>2, <3>2
    <3> HIDE DEF T
    <3>5. /\ after[i] \in Stream
          /\ after[i].text = Digits(d, i - 1) \o <<d[i] \div Radix, d[i] % Radix>>
      <4> DEFINE s == SetW(after[i - 1])
      <4> HIDE DEF s
      <4>1. s \in Stream /\ ~ (d[i] < Radix /\ s.width < 2) /\ s.text = Digits(d, i - 1)
        BY <3>4 DEF s
      <4>2. /\ Put(s, d[i]) \in Stream
            /\ Put(s, d[i]).text = s.text \o <<d[i] \div Radix, d[i] % Radix>>
        BY <3>1, <4>1, PutFacts
      <4> QED BY <3>3, <4>1, <4>2 DEF s
    <3>6. after[i].text = Digits(d, i)
      BY <3>1, <3>5, DigitsFacts
    <3> QED BY <2>3, <3>5, <3>6
  <2> QED BY <2>4, <2>5
<1> QED BY <1>1, <1>7, <1>8

\* rawToHex prints both digits of the first byte; of each later one below the
\* radix it loses the first.
LEMMA ExpectedText ==
    ASSUME NEW d \in Digest
    PROVE  IF LosesDigits(d) THEN Len(RawToHex(d)) < 2 * DigestLength
                             ELSE RawToHex(d) = Digits(d, DigestLength)
<1> DEFINE N == DigestLength
           g == [p \in Stream \X ByteValue |-> Put(p[1], p[2])]
           after == CHOOSE f : f = [i \in 0 .. N |-> IF i = 0 THEN SetW(EmptyStream)
                                                     ELSE Put(f[i - 1], d[i])]
           Lost(i) == \E k \in 2 .. i : d[k] < Radix
           Right(i) == /\ after[i] \in Stream
                       /\ after[i].width = IF i = 0 THEN 2 ELSE 0
                       /\ Len(after[i].text) <= 2 * i
                       /\ IF Lost(i) THEN Len(after[i].text) < 2 * i
                                     ELSE after[i].text = Digits(d, i)
           T == {i \in 0 .. N : ~Right(i)}
<1>1. N \in Nat /\ T \in SUBSET Nat
  BY HashAssumption
<1>2. g \in [Stream \X ByteValue -> Stream]
  BY PutFacts
<1>3. PICK f \in [0 .. N -> Stream] : Loop(f, N, g, SetW(EmptyStream), d)
  <2> HIDE DEF g
  <2> QED BY <1>2, EmptyFacts, LoopEnds
<1>4. f = [i \in 0 .. N |-> IF i = 0 THEN SetW(EmptyStream) ELSE Put(f[i - 1], d[i])]
  <2>1. ASSUME NEW i \in 0 .. N
        PROVE  f[i] = IF i = 0 THEN SetW(EmptyStream) ELSE Put(f[i - 1], d[i])
    <3>1. CASE i # 0
      <4>1. f[i - 1] \in Stream /\ d[i] \in ByteValue
        BY <1>1, <1>3, <3>1 DEF Digest
      <4> QED BY <1>3, <3>1, <4>1 DEF Loop
    <3> QED BY <1>3, <3>1 DEF Loop
  <2> QED BY <1>3, <2>1
<1>5. after = [i \in 0 .. N |-> IF i = 0 THEN SetW(EmptyStream) ELSE Put(after[i - 1], d[i])]
  BY <1>4
<1>6. RawToHex(d) = after[N].text
  BY DEF RawToHex
<1> HIDE DEF after
<1>7. Right(0)
  <2>1. after[0] = SetW(EmptyStream)
    BY <1>1, <1>5
  <2>2. Digits(d, 0) \in Seq(Nat) /\ Len(Digits(d, 0)) = 0
    BY <1>1, DigitsTyped
  <2>3. Digits(d, 0) = <<>> /\ Len(<<>>) = 0 /\ ~Lost(0)
    BY <2>2, EmptySeq
  <2> QED BY <2>1, <2>3, EmptyFacts
<1>8. ASSUME NEW i \in 1 .. N, Right(i - 1)
      PROVE  Right(i)
  <2> DEFINE s == after[i - 1]
             t == after[i]
  <2>1. i - 1 \in Nat /\ i \in 0 .. N /\ i # 0 /\ d[i] \in ByteValue
    BY <1>1 DEF Digest
  <2>2. t = Put(s, d[i])
    BY <1>5, <2>1
  <2>3. /\ s \in Stream /\ Len(s.text) \in Nat /\ Len(s.text) <= 2 * (i - 1)
        /\ s.width = IF i = 1 THEN 2 ELSE 0
    BY <1>8, <2>1 DEF Stream
  <2>4. d[i] \in Nat /\ Radix \in Nat
    BY <2>1, HashAssumption DEF ByteValue
  <2>5. ~Lost(i - 1) => s.text = Digits(d, i - 1)
    BY <1>8
  <2>6. Lost(i - 1) => Len(s.text) < 2 * (i - 1)
    BY <1>8
  <2>7. Lost(i) <=> Lost(i - 1) \/ (i > 1 /\ d[i] < Radix)
    <3>1. 2 .. i = 2 .. i - 1 \cup {k \in {i} : k > 1}
      BY <2>1
    <3> QED BY <3>1
  <2> HIDE DEF s, t, Lost
  <2>8. t \in Stream /\ t.width = 0
    BY <2>1, <2>2, <2>3, PutFacts
  <2>9. CASE d[i] < Radix /\ i > 1
    <3>1. s.width < 2 /\ d[i] < Radix
      BY <2>1, <2>3, <2>9
    <3>2. Len(t.text) = Len(s.text) + 1
      BY <2>1, <2>2, <2>3, <3>1, PutFacts
    <3>3. Len(t.text) < 2 * i
      BY <2>1, <2>3, <3>2
    <3> QED BY <2>1, <2>7, <2>8, <2>9, <3>2, <3>3 DEF t
  <2>10. CASE ~ (d[i] < Radix /\ i > 1)
    <3>1. ~ (d[i] < Radix /\ s.width < 2)
      BY <2>1, <2>3, <2>10
    <3>2. /\ Len(t.text) = Len(s.text) + 2
          /\ t.text = s.text \o <<d[i] \div Radix, d[i] % Radix>>
      BY <2>1, <2>2, <2>3, <3>1, PutFacts
    <3>3. Len(t.text) <= 2 * i
      BY <2>1, <2>3, <3>2
    <3>4. Lost(i) => Len(t.text) < 2 * i
      BY <2>1, <2>3, <2>6, <2>7, <2>10, <3>2
    <3>5. ~Lost(i) => t.text = Digits(d, i)
      BY <2>5, <2>7, <3>2, DigitsFacts
    <3> QED BY <2>1, <2>8, <3>3, <3>4, <3>5 DEF t
  <2> QED BY <2>9, <2>10
<1>9. T = {}
  <2>1. SUFFICES ASSUME T # {}
                 PROVE  FALSE
    OBVIOUS
  <2>2. PICK i \in T : \A k \in T : i <= k
    <3> HIDE DEF T
    <3> QED BY <1>1, <2>1, LeastNumber
  <2>3. i \in 0 .. N /\ ~Right(i)
    OBVIOUS
  <2> HIDE DEF Right
  <2>4. i \in 1 .. N /\ i - 1 \in 0 .. N /\ ~ (i <= i - 1)
    BY <1>1, <1>7, <2>3
  <2>5. Right(i - 1)
    BY <2>2, <2>4
  <2> QED BY <1>8, <2>3, <2>4, <2>5
<1>10. Right(N)
  <2> HIDE DEF Right
  <2> QED BY <1>1, <1>9
<1>11. LosesDigits(d) <=> Lost(N)
  BY DEF LosesDigits
<1> HIDE DEF Lost
<1> QED BY <1>6, <1>10, <1>11

-----------------------------------------------------------------------------
(* The theorem                                                             *)

\* The texts are equal exactly when the digests are and no digit is lost.
LEMMA TextsEqual ==
    ASSUME NEW d \in Digest, NEW e \in Digest
    PROVE  ComputeSHA1(d) = RawToHex(e) <=> d = e /\ ~LosesDigits(e)
<1>1. ComputeSHA1(d) = Digits(d, DigestLength)
  BY ComputedText
<1>2. Len(Digits(d, DigestLength)) = 2 * DigestLength /\ 2 * DigestLength \in Nat
  BY HashAssumption, DigitsTyped
<1>3. CASE LosesDigits(e)
  <2>1. Len(RawToHex(e)) < 2 * DigestLength
    BY <1>3, ExpectedText
  <2>2. Len(ComputeSHA1(d)) = 2 * DigestLength /\ ~ (2 * DigestLength < 2 * DigestLength)
    BY <1>1, <1>2
  <2>3. ComputeSHA1(d) # RawToHex(e)
    BY <2>1, <2>2
  <2> QED BY <1>3, <2>3
<1>4. CASE ~LosesDigits(e)
  <2>1. RawToHex(e) = Digits(e, DigestLength)
    BY <1>4, ExpectedText
  <2> QED BY <1>1, <1>4, <2>1, DigitsTellApart
<1> QED BY <1>3, <1>4

\* The digests do not change, and the result is that of comparing their texts.
HashInv ==
    /\ computed \in Digest /\ expected \in Digest
    /\ result # "pending" =>
          (result = "match" <=> ComputeSHA1(computed) = RawToHex(expected))

\* It holds before and after the comparison.
THEOREM HashInvariance == Spec => []HashInv
<1>1. Init => HashInv
  BY DEF Init, HashInv
<1>2. HashInv /\ [Next]_vars => HashInv'
  BY DEF HashInv, Next, Compare, vars
<1> QED BY <1>1, <1>2, PTL DEF Spec

\* MismatchCharacterised: handlePiece accepts a digest exactly if it is the one
\* of the torrent and that one loses no digit in print.
THEOREM MismatchCharacterisedHolds == Spec => []MismatchCharacterised
<1>1. HashInv => MismatchCharacterised
  BY TextsEqual DEF HashInv, MismatchCharacterised
<1> QED BY <1>1, HashInvariance, PTL
=============================================================================
