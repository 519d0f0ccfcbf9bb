------------------------------ MODULE DhtProofs ------------------------------
(***************************************************************************)
(* Theorems about Dht, for every length of IDs and replies, every K and    *)
(* every set of nodes: what the routing table's buckets hold, in which     *)
(* order, that an acknowledged announcement is served, who is answered to  *)
(* a query, and that bootstrapping ends.                                   *)
(***************************************************************************)
EXTENDS Dht, SequenceTheorems, FiniteSetTheorems, NaturalsInduction,
        WellFoundedInduction, TLAPS

-----------------------------------------------------------------------------
(* The inductive invariant                                                 *)

\* Nobody is in b twice, and all but its front are in the order of their last
\* sign of life.
GoodBucket(b, order) ==
    /\ b \in Seq(Nodes) /\ Len(b) <= K /\ IsInjective(b)
    /\ \A k, l \in 2 .. Len(b) : k < l => <<b[k], b[l]>> \in order

\* What is known of the order when n has given a sign of life.
Told(order, n) == {pair \in order : pair[1] # n} \cup (Nodes \ {n}) \X {n}

\* Where a node can be: up to this bucket every bit of its distance is 1.
Belongs(n, i) == {bit \in Bit : bit < i - 1} \subseteq n.id

Tabled ==
    /\ routing_table_ \in Seq(Seq(Nodes)) /\ routing_table_ # <<>>
    /\ seen \in Seq(SUBSET (Nodes \X Nodes)) /\ Len(seen) = Len(routing_table_)
    /\ \A i \in 1 .. Len(routing_table_) :
          /\ GoodBucket(routing_table_[i], seen[i])
          /\ \A k \in 1 .. Len(routing_table_[i]) : Belongs(routing_table_[i][k], i)
          /\ i > 1 => routing_table_[i] # <<>>

\* Whoever got a response is in the store.
Kept ==
    /\ peer_store_ \in [InfoHashes -> Seq(Peers)] /\ acked \subseteq InfoHashes \X Peers
    /\ \A entry \in acked : entry[2] \in ToSet(peer_store_[entry[1]])

DhtInv ==
    /\ Tabled /\ Kept
    /\ asked \in 0 .. NumBootstrap /\ left \in 0 .. MaxReply /\ serving \in BOOLEAN

-----------------------------------------------------------------------------
(* Buckets                                                                 *)

\* std::rotate moves a known node, or the front that answered, to the back.
LEMMA MovedBucket ==
    ASSUME NEW b, NEW o \in SUBSET (Nodes \X Nodes), GoodBucket(b, o),
           NEW k \in 1 .. Len(b)
    PROVE  LET c == MoveToBack(b, k)
           IN  /\ GoodBucket(c, Told(o, b[k])) /\ Len(c) = Len(b)
               /\ \A p \in 1 .. Len(c) : \E q \in 1 .. Len(b) : c[p] = b[q]
<1> USE DEF GoodBucket
<1> DEFINE c == MoveToBack(b, k)
           n == Len(b)
           from(p) == IF p < k THEN p ELSE IF p < n THEN p + 1 ELSE k
<1>1. n \in Nat /\ DOMAIN b = 1 .. n /\ b \in [1 .. n -> Nodes]
  BY LenProperties
<1>2. \A p \in 1 .. n : from(p) \in 1 .. n
  BY <1>1
<1>3. c = [p \in 1 .. n |-> b[from(p)]]
  <2>1. \A p \in 1 .. n : b[from(p)] = IF p < k THEN b[p] ELSE IF p < n THEN b[p + 1] ELSE b[k]
    OBVIOUS
  <2> QED BY <1>1, <2>1 DEF MoveToBack
<1>4. c \in Seq(Nodes) /\ Len(c) = n /\ DOMAIN c = 1 .. n
  <2>1. \A p \in 1 .. n : b[from(p)] \in Nodes
    BY <1>1, <1>2
  <2>2. c \in [1 .. n -> Nodes]
    BY <1>3, <2>1
  <2> HIDE DEF c
  <2> QED BY <1>1, <2>2, IsASeq, LenProperties
<1>5. \A p \in 1 .. n : c[p] = b[from(p)]
  BY <1>3
<1>6. IsInjective(c)
  <2>1. \A p, q \in 1 .. n : from(p) = from(q) => p = q
    BY <1>1
  <2> HIDE DEF c, from
  <2> QED BY <1>1, <1>2, <1>4, <1>5, <2>1 DEF IsInjective
<1>7. ASSUME NEW p \in 2 .. n, NEW q \in 2 .. n, p < q
      PROVE  <<c[p], c[q]>> \in Told(o, b[k])
  <2>1. from(p) # k /\ from(p) \in 2 .. n /\ from(q) \in 1 .. n
        /\ (q < n => from(p) < from(q) /\ from(q) \in 2 .. n)
        /\ (q = n => from(q) = k)
    BY <1>1, <1>7
  <2>2. p \in 1 .. n /\ q \in 1 .. n /\ (q < n \/ q = n)
    BY <1>1
  <2> HIDE DEF c, from
  <2>3. b[from(p)] # b[k] /\ b[from(p)] \in Nodes /\ b[k] \in Nodes
    <3>1. from(p) \in DOMAIN b /\ k \in DOMAIN b /\ from(p) # k
      BY <1>1, <2>1
    <3>2. IsInjective(b)
      OBVIOUS
    <3> QED BY <1>1, <3>1, <3>2 DEF IsInjective
  <2>4. CASE q < n
    <3>1. <<b[from(p)], b[from(q)]>> \in o
      BY <2>1, <2>4
    <3> QED BY <1>5, <2>2, <2>3, <3>1 DEF Told
  <2>5. CASE q = n
    BY <1>5, <2>1, <2>2, <2>3, <2>5 DEF Told
  <2> QED BY <2>2, <2>4, <2>5
<1> HIDE DEF c, from
<1> QED BY <1>1, <1>2, <1>4, <1>5, <1>6, <1>7 DEF c

\* push_back adds a new node.
LEMMA LongerBucket ==
    ASSUME NEW b, NEW o \in SUBSET (Nodes \X Nodes), GoodBucket(b, o), Len(b) < K,
           NEW n \in Nodes, \A k \in 1 .. Len(b) : b[k] # n
    PROVE  GoodBucket(Append(b, n), Told(o, n)) /\ Len(Append(b, n)) = Len(b) + 1
<1> USE DEF GoodBucket
<1> DEFINE c == Append(b, n)
<1>1. /\ c \in Seq(Nodes) /\ Len(c) = Len(b) + 1 /\ DOMAIN c = 1 .. Len(b) + 1
      /\ \A k \in 1 .. Len(b) : c[k] = b[k]
      /\ c[Len(b) + 1] = n
      /\ Len(b) \in Nat /\ DOMAIN b = 1 .. Len(b) /\ b \in [1 .. Len(b) -> Nodes]
  BY AppendProperties, LenProperties
<1> HIDE DEF c
<1>2. Len(c) <= K
  BY <1>1, DhtAssumption
<1>3. IsInjective(c)
  BY <1>1 DEF IsInjective
<1>4. ASSUME NEW k \in 2 .. Len(c), NEW l \in 2 .. Len(c), k < l
      PROVE  <<c[k], c[l]>> \in Told(o, n)
  <2>1. k \in 2 .. Len(b) /\ k \in 1 .. Len(b) /\ c[k] = b[k] /\ b[k] # n /\ b[k] \in Nodes
    BY <1>1, <1>4
  <2>2. CASE l = Len(b) + 1
    BY <1>1, <2>1, <2>2 DEF Told
  <2>3. CASE l \in 2 .. Len(b)
    <3>1. c[l] = b[l] /\ <<b[k], b[l]>> \in o
      BY <1>1, <1>4, <2>1, <2>3
    <3> QED BY <2>1, <3>1 DEF Told
  <2> QED BY <1>1, <2>2, <2>3
<1> QED BY <1>1, <1>2, <1>3, <1>4 DEF c

\* A dead front is replaced by a new node.
LEMMA ReplacedFront ==
    ASSUME NEW b, NEW o \in SUBSET (Nodes \X Nodes), GoodBucket(b, o), Len(b) >= K,
           NEW n \in Nodes, \A k \in 1 .. Len(b) : b[k] # n
    PROVE  LET c == [b EXCEPT ![1] = n]
           IN  /\ GoodBucket(c, Told(o, n)) /\ Len(c) = Len(b)
               /\ \A k \in 1 .. Len(c) : c[k] = n \/ c[k] = b[k]
<1> USE DEF GoodBucket
<1> DEFINE c == [b EXCEPT ![1] = n]
<1>1. /\ Len(b) \in Nat /\ 1 \in 1 .. Len(b) /\ DOMAIN b = 1 .. Len(b)
      /\ b \in [1 .. Len(b) -> Nodes]
  BY LenProperties, DhtAssumption
<1>2. /\ c \in Seq(Nodes) /\ Len(c) = Len(b) /\ DOMAIN c = 1 .. Len(b)
      /\ c[1] = n /\ \A k \in 2 .. Len(b) : c[k] = b[k]
  <2>1. c \in Seq(Nodes) /\ Len(c) = Len(b)
    BY <1>1, ExceptSeq
  <2> QED BY <1>1, <2>1
<1> HIDE DEF c
<1>3. IsInjective(c)
  BY <1>1, <1>2 DEF IsInjective
<1>4. ASSUME NEW k \in 2 .. Len(c), NEW l \in 2 .. Len(c), k < l
      PROVE  <<c[k], c[l]>> \in Told(o, n)
  <2>1. c[k] = b[k] /\ c[l] = b[l] /\ b[k] # n /\ <<b[k], b[l]>> \in o
    BY <1>1, <1>2, <1>4
  <2> QED BY <2>1 DEF Told
<1>5. \A k \in 1 .. Len(c) : c[k] = n \/ c[k] = b[k]
  BY <1>1, <1>2
<1> QED BY <1>2, <1>3, <1>4, <1>5 DEF c

-----------------------------------------------------------------------------
(* add_to_routing_table                                                    *)

\* The bucket that add_to_routing_table finds, or makes, is a good one, and the
\* node belongs there.
LEMMA BucketFound ==
    ASSUME Tabled, NEW n \in Nodes, NEW i \in BucketIndices(n)
    PROVE  /\ i \in 1 .. Len(routing_table_) + 1
           /\ WithBucket(i) \in Seq(Seq(Nodes)) /\ i \in 1 .. Len(WithBucket(i))
           /\ Len(WithBucket(i)) \in {Len(routing_table_), Len(routing_table_) + 1}
           /\ \A j \in 1 .. Len(WithBucket(i)) :
                 j # i => j \in 1 .. Len(routing_table_)
                          /\ WithBucket(i)[j] = routing_table_[j]
           /\ GoodBucket(WithBucket(i)[i], SeenIn(i))
           /\ SeenIn(i) \in SUBSET (Nodes \X Nodes)
           /\ Belongs(n, i)
           /\ \A k \in 1 .. Len(WithBucket(i)[i]) : Belongs(WithBucket(i)[i][k], i)
<1> DEFINE t == routing_table_
           w == WithBucket(i)
<1>1. i \in 1 .. Len(t) + 1 /\ Len(t) \in Nat /\ t \in Seq(Seq(Nodes))
  BY LenProperties DEF BucketIndices, Tabled
<1>2. Belongs(n, i)
  <2>1. \A j \in 1 .. i - 1 : j - 1 \in n.id \cup (Nat \ Bit)
    BY DEF BucketIndices
  <2>2. IdBits \in Nat
    BY DhtAssumption DEF IdBits
  <2>3. ASSUME NEW bit \in Bit, bit < i - 1
        PROVE  bit \in n.id
    <3>1. bit + 1 \in 1 .. i - 1 /\ (bit + 1) - 1 = bit /\ bit \notin Nat \ Bit
      BY <1>1, <2>2, <2>3 DEF Bit
    <3>2. (bit + 1) - 1 \in n.id \cup (Nat \ Bit)
      BY <2>1, <3>1
    <3> QED BY <3>1, <3>2
  <2> QED BY <2>3 DEF Belongs
<1>3. CASE i \in 1 .. Len(t)
  <2>1. w = t
    BY <1>1, <1>3 DEF WithBucket
  <2>2. i \in DOMAIN seen /\ seen[i] \in SUBSET (Nodes \X Nodes)
    BY <1>3, LenProperties, ElementOfSeq DEF Tabled
  <2>3. SeenIn(i) = seen[i]
    BY <2>2 DEF SeenIn
  <2> QED BY <1>1, <1>2, <1>3, <2>1, <2>2, <2>3 DEF Tabled
<1>4. CASE i = Len(t) + 1
  <2>1. <<>> \in Seq(Nodes) /\ Len(<<>>) = 0
    BY EmptySeq
  <2>2. w = Append(t, <<>>)
    BY <1>1, <1>4 DEF WithBucket
  <2>3. /\ w \in Seq(Seq(Nodes)) /\ Len(w) = Len(t) + 1
        /\ \A j \in 1 .. Len(t) : w[j] = t[j]
        /\ w[Len(t) + 1] = <<>>
    BY <1>1, <2>1, <2>2, AppendProperties
  <2>4. SeenIn(i) = {}
    <3>1. DOMAIN seen = 1 .. Len(t)
      BY LenProperties DEF Tabled
    <3> QED BY <1>1, <1>4, <3>1 DEF SeenIn
  <2>5. GoodBucket(<<>>, {})
    BY <2>1, DhtAssumption DEF GoodBucket, IsInjective
  <2>6. i \in 1 .. Len(w) /\ w[i] = <<>> /\ SeenIn(i) \in SUBSET (Nodes \X Nodes)
    BY <1>1, <1>4, <2>3, <2>4
  <2>7. \A j \in 1 .. Len(w) : j # i => j \in 1 .. Len(t) /\ w[j] = t[j]
    <3>1. Len(w) = Len(t) + 1 /\ \A j \in 1 .. Len(t) : w[j] = t[j]
      BY <2>3
    <3> HIDE DEF w, t
    <3>2. ASSUME NEW j \in 1 .. Len(w), j # i
          PROVE  j \in 1 .. Len(t)
      <4>1. Len(t) \in Nat /\ j \in 1 .. Len(t) + 1 /\ j # Len(t) + 1
        BY <1>1, <1>4, <3>1, <3>2
      <4> QED BY <4>1
    <3> QED BY <3>1, <3>2
  <2>8. GoodBucket(w[i], SeenIn(i)) /\ \A k \in 1 .. Len(w[i]) : Belongs(w[i][k], i)
    BY <2>1, <2>4, <2>5, <2>6
  <2> HIDE DEF w, t
  <2> QED BY <1>1, <1>2, <2>3, <2>6, <2>7, <2>8 DEF w, t
<1> QED BY <1>1, <1>3, <1>4

\* What it makes of that bucket is a good one, too, with n at most added.
LEMMA BucketChanged ==
    ASSUME Tabled, NEW n \in Nodes, NEW i \in BucketIndices(n),
           Refresh(n, i) \/ Insert(n, i) \/ PingFront(n, i)
    PROVE  \E c \in Seq(Nodes), m \in Nodes :
              /\ Buckets(i, c) /\ Sighted(i, m)
              /\ GoodBucket(c, Told(SeenIn(i), m)) /\ c # <<>>
              /\ \A k \in 1 .. Len(c) : Belongs(c[k], i)
<1> DEFINE b == WithBucket(i)[i]
           o == SeenIn(i)
<1>1. /\ GoodBucket(b, o) /\ o \in SUBSET (Nodes \X Nodes) /\ Belongs(n, i)
      /\ \A k \in 1 .. Len(b) : Belongs(b[k], i)
  BY BucketFound
<1>2. b \in Seq(Nodes) /\ Len(b) \in Nat /\ DOMAIN b = 1 .. Len(b)
      /\ \A k \in 1 .. Len(b) : b[k] \in Nodes
  BY <1>1, LenProperties, ElementOfSeq DEF GoodBucket
<1>3. CASE Refresh(n, i)
  <2>1. PICK k \in 1 .. Len(b) : b[k] = n /\ Buckets(i, MoveToBack(b, k)) /\ Sighted(i, n)
    BY <1>2, <1>3 DEF Refresh
  <2> DEFINE c == MoveToBack(b, k)
  <2> HIDE DEF b, o
  <2>2. k \in 1 .. Len(b)
    OBVIOUS
  <2>3. /\ GoodBucket(c, Told(o, n)) /\ Len(c) = Len(b)
        /\ \A p \in 1 .. Len(c) : \E q \in 1 .. Len(b) : c[p] = b[q]
    <3>1. b[k] = n
      BY <2>1
    <3>2. GoodBucket(b, o) /\ o \in SUBSET (Nodes \X Nodes)
      BY <1>1
    <3>3. /\ GoodBucket(c, Told(o, b[k])) /\ Len(c) = Len(b)
          /\ \A p \in 1 .. Len(c) : \E q \in 1 .. Len(b) : c[p] = b[q]
      BY <2>2, <3>2, MovedBucket
    <3> QED BY <3>1, <3>3
  <2> HIDE DEF c
  <2>4. c \in Seq(Nodes) /\ c # <<>> /\ \A p \in 1 .. Len(c) : Belongs(c[p], i)
    BY <1>1, <1>2, <2>2, <2>3, EmptySeq DEF GoodBucket
  <2> QED BY <2>1, <2>3, <2>4 DEF c, o
<1>4. CASE Insert(n, i)
  <2>1. /\ Buckets(i, Append(b, n)) /\ Sighted(i, n) /\ Len(b) < K
        /\ \A k \in 1 .. Len(b) : b[k] # n
    BY <1>4 DEF Insert, Contains
  <2> DEFINE c == Append(b, n)
  <2> HIDE DEF b, o
  <2>2. GoodBucket(c, Told(o, n)) /\ Len(c) = Len(b) + 1
    BY <1>1, <2>1, LongerBucket
  <2>3. \A k \in 1 .. Len(c) : c[k] = n \/ \E q \in 1 .. Len(b) : c[k] = b[q]
    BY <1>2, AppendProperties
  <2> HIDE DEF c
  <2>4. c \in Seq(Nodes) /\ c # <<>> /\ \A p \in 1 .. Len(c) : Belongs(c[p], i)
    BY <1>1, <1>2, <2>2, <2>3, EmptySeq DEF GoodBucket
  <2> QED BY <2>1, <2>2, <2>4 DEF c, o
<1>5. CASE PingFront(n, i)
  <2>1. /\ Len(b) >= K /\ \A k \in 1 .. Len(b) : b[k] # n
        /\ \/ Buckets(i, MoveToBack(b, 1)) /\ Sighted(i, b[1])
           \/ Buckets(i, [b EXCEPT ![1] = n]) /\ Sighted(i, n)
    BY <1>5, <1>2 DEF PingFront, Contains
  <2> HIDE DEF b, o
  <2>2. 1 \in 1 .. Len(b)
    BY <1>2, <2>1, DhtAssumption
  <2>3. CASE Buckets(i, MoveToBack(b, 1)) /\ Sighted(i, b[1])
    <3> DEFINE c == MoveToBack(b, 1)
    <3>1. /\ GoodBucket(c, Told(o, b[1])) /\ Len(c) = Len(b)
          /\ \A p \in 1 .. Len(c) : \E q \in 1 .. Len(b) : c[p] = b[q]
      BY <1>1, <2>2, MovedBucket
    <3>2. Buckets(i, c) /\ Sighted(i, b[1]) /\ b[1] \in Nodes
      BY <1>2, <2>2, <2>3
    <3> HIDE DEF c
    <3>3. c \in Seq(Nodes) /\ c # <<>> /\ \A p \in 1 .. Len(c) : Belongs(c[p], i)
      BY <1>1, <1>2, <2>2, <3>1, EmptySeq DEF GoodBucket
    <3> QED BY <3>1, <3>2, <3>3 DEF o
  <2>4. CASE Buckets(i, [b EXCEPT ![1] = n]) /\ Sighted(i, n)
    <3> DEFINE c == [b EXCEPT ![1] = n]
    <3>1. /\ GoodBucket(c, Told(o, n)) /\ Len(c) = Len(b)
          /\ \A k \in 1 .. Len(c) : c[k] = n \/ c[k] = b[k]
      BY <1>1, <2>1, ReplacedFront
    <3>2. Buckets(i, c) /\ Sighted(i, n)
      BY <2>4
    <3> HIDE DEF c
    <3>3. c \in Seq(Nodes) /\ c # <<>> /\ \A p \in 1 .. Len(c) : Belongs(c[p], i)
      BY <1>1, <1>2, <2>2, <3>1, EmptySeq DEF GoodBucket
    <3> QED BY <3>1, <3>2, <3>3 DEF o
  <2> QED BY <2>1, <2>3, <2>4
<1> QED BY <1>3, <1>4, <1>5

\* add_to_routing_table keeps the table in order.
LEMMA AddStep ==
    ASSUME Tabled, NEW n \in Nodes, AddToRoutingTable(n)
    PROVE  Tabled'
<1>1. PICK i \in BucketIndices(n) : Refresh(n, i) \/ Insert(n, i) \/ PingFront(n, i)
  BY DEF AddToRoutingTable
<1> DEFINE w == WithBucket(i)
           o == SeenIn(i)
<1>2. PICK c \in Seq(Nodes), m \in Nodes :
         /\ Buckets(i, c) /\ Sighted(i, m)
         /\ GoodBucket(c, Told(o, m)) /\ c # <<>>
         /\ \A k \in 1 .. Len(c) : Belongs(c[k], i)
  BY <1>1, BucketChanged
<1>3. /\ w \in Seq(Seq(Nodes)) /\ i \in 1 .. Len(w)
      /\ \A j \in 1 .. Len(w) : j # i => j \in 1 .. Len(routing_table_)
                                         /\ w[j] = routing_table_[j]
      /\ o \in SUBSET (Nodes \X Nodes)
  BY BucketFound
<1>4. routing_table_' = [w EXCEPT ![i] = c]
      /\ seen' = [j \in DOMAIN w |-> IF j # i THEN seen[j] ELSE Told(o, m)]
  BY <1>2 DEF Buckets, Sighted, Told
<1> HIDE DEF w, o
<1>5. Len(w) \in Nat /\ DOMAIN w = 1 .. Len(w)
  BY <1>3, LenProperties
<1>6. /\ routing_table_' \in Seq(Seq(Nodes)) /\ Len(routing_table_') = Len(w)
      /\ routing_table_'[i] = c
      /\ \A j \in 1 .. Len(w) : j # i => routing_table_'[j] = routing_table_[j]
  <2>1. routing_table_' \in Seq(Seq(Nodes)) /\ Len(routing_table_') = Len(w)
    BY <1>3, <1>4, <1>5, ExceptSeq
  <2> QED BY <1>3, <1>4, <1>5, <2>1
<1>7. /\ seen' \in Seq(SUBSET (Nodes \X Nodes)) /\ Len(seen') = Len(w)
      /\ seen'[i] = Told(o, m)
      /\ \A j \in 1 .. Len(w) : j # i => seen'[j] = seen[j]
  <2>1. Told(o, m) \in SUBSET (Nodes \X Nodes)
    BY <1>3 DEF Told
  <2>2. \A j \in 1 .. Len(w) : j # i => seen[j] \in SUBSET (Nodes \X Nodes)
    BY <1>3, ElementOfSeq DEF Tabled
  <2>3. seen' \in [1 .. Len(w) -> SUBSET (Nodes \X Nodes)]
    BY <1>4, <1>5, <2>1, <2>2
  <2>4. seen' \in Seq(SUBSET (Nodes \X Nodes)) /\ DOMAIN seen' = 1 .. Len(w)
    BY <1>5, <2>3, IsASeq
  <2>5. Len(seen') = Len(w)
    BY <1>5, <2>4, LenProperties
  <2> QED BY <1>3, <1>4, <1>5, <2>4, <2>5
<1>8. routing_table_' # <<>>
  BY <1>3, <1>5, <1>6, EmptySeq
<1>9. ASSUME NEW j \in 1 .. Len(w)
      PROVE  /\ GoodBucket(routing_table_'[j], seen'[j])
             /\ \A k \in 1 .. Len(routing_table_'[j]) : Belongs(routing_table_'[j][k], j)
             /\ j > 1 => routing_table_'[j] # <<>>
  <2>1. CASE j = i
    BY <1>2, <1>6, <1>7, <2>1
  <2>2. CASE j # i
    <3>1. j \in 1 .. Len(routing_table_)
      BY <1>3, <2>2
    <3> QED BY <1>6, <1>7, <2>2, <3>1 DEF Tabled
  <2> QED BY <2>1, <2>2
<1> QED BY <1>6, <1>7, <1>8, <1>9 DEF Tabled, GoodBucket, Belongs

-----------------------------------------------------------------------------
(* announce_peer                                                           *)

\* A peer is stored before it gets a response, and what is stored stays.
LEMMA AnnounceStep ==
    ASSUME Kept, NEW hash \in InfoHashes, NEW peer \in Peers, NEW transaction \in BOOLEAN,
           HandleAnnouncePeer(hash, peer, transaction)
    PROVE  Kept'
<1> DEFINE s == peer_store_[hash]
<1>1. /\ peer_store_' = [peer_store_ EXCEPT ![hash] = Append(s, peer)]
      /\ acked' \subseteq acked \cup {<<hash, peer>>}
  BY DEF HandleAnnouncePeer, Stored
<1>2. s \in Seq(Peers)
  BY DEF Kept
<1>3. /\ Append(s, peer) \in Seq(Peers) /\ ToSet(s) \subseteq ToSet(Append(s, peer))
      /\ peer \in ToSet(Append(s, peer))
  <2>1. /\ Append(s, peer) \in Seq(Peers) /\ Len(Append(s, peer)) = Len(s) + 1
        /\ \A k \in 1 .. Len(s) : Append(s, peer)[k] = s[k]
        /\ Append(s, peer)[Len(s) + 1] = peer
    BY <1>2, AppendProperties
  <2>2. /\ DOMAIN s = 1 .. Len(s) /\ Len(s) \in Nat
        /\ DOMAIN Append(s, peer) = 1 .. Len(s) + 1
    BY <1>2, <2>1, LenProperties
  <2> QED BY <2>1, <2>2 DEF ToSet
<1> HIDE DEF s
<1>4. /\ peer_store_' \in [InfoHashes -> Seq(Peers)]
      /\ peer_store_'[hash] = Append(s, peer)
      /\ \A h \in InfoHashes \ {hash} : peer_store_'[h] = peer_store_[h]
  BY <1>1, <1>3 DEF Kept
<1>5. acked' \subseteq InfoHashes \X Peers
  BY <1>1 DEF Kept
<1>6. ASSUME NEW entry \in acked'
      PROVE  entry[2] \in ToSet(peer_store_'[entry[1]])
  <2>1. CASE entry = <<hash, peer>>
    BY <1>3, <1>4, <2>1
  <2>2. CASE entry \in acked
    <3>1. entry[1] \in InfoHashes /\ entry[2] \in ToSet(peer_store_[entry[1]])
      BY <2>2 DEF Kept
    <3>2. CASE entry[1] = hash
      BY <1>3, <1>4, <3>1, <3>2 DEF s
    <3>3. CASE entry[1] # hash
      BY <1>4, <3>1, <3>3
    <3> QED BY <3>2, <3>3
  <2> QED BY <1>1, <2>1, <2>2
<1> QED BY <1>4, <1>5, <1>6 DEF Kept

-----------------------------------------------------------------------------
(* Distances                                                               *)

\* A set of numbers that is not empty has a least one.
LEMMA LeastNumber ==
    ASSUME NEW T \in SUBSET Nat, T # {}
    PROVE  \E x \in T : \A y \in T : x <= y
<1> DEFINE R == OpToRel(<, Nat)
<1>1. IsWellFoundedOn(R, Nat)
  BY NatLessThanWellFounded
<1>2. \A x, y \in Nat : x < y => <<x, y>> \in R
  BY DEF OpToRel
<1> HIDE DEF R
<1>3. PICK x \in T : \A y \in T : ~ (<<y, x>> \in R)
  BY <1>1, WFMin
<1>4. \A y \in T : y \in Nat /\ x \in Nat /\ ~ (y < x)
  BY <1>2, <1>3
<1> QED BY <1>3, <1>4

\* And, if they are all below a bound, a greatest one.
LEMMA GreatestBit ==
    ASSUME NEW T \in SUBSET Bit, T # {}
    PROVE  \E x \in T : \A y \in T : y <= x
<1> DEFINE B == {b \in Nat : \A y \in T : y <= b}
<1>1. IdBits \in Nat
  BY DhtAssumption DEF IdBits
<1>2. T \in SUBSET Nat /\ \A y \in T : y <= IdBits - 1
  BY <1>1 DEF Bit
<1>3. B # {} /\ B \in SUBSET Nat
  <2>1. IdBits \in B
    BY <1>1, <1>2
  <2> QED BY <2>1
<1>4. PICK x \in B : \A b \in B : x <= b
  <2> HIDE DEF B
  <2> QED BY <1>3, LeastNumber
<1>5. x \in Nat /\ \A y \in T : y <= x
  OBVIOUS
<1>6. x \in T
  <2>1. SUFFICES ASSUME x \notin T
                 PROVE  FALSE
    OBVIOUS
  <2>2. PICK z \in T : TRUE
    OBVIOUS
  <2>3. z \in Nat /\ z < x
    BY <1>2, <1>5, <2>1
  <2>4. x - 1 \in Nat /\ \A y \in T : y <= x - 1
    BY <1>2, <1>5, <2>1, <2>3
  <2>5. x - 1 \in B
    BY <2>4
  <2> HIDE DEF B
  <2> QED BY <1>4, <1>5, <2>5
<1> QED BY <1>5, <1>6

\* A quotient and a remainder.
LEMMA DivMod ==
    ASSUME NEW a \in Nat, NEW b \in Nat \ {0}
    PROVE  /\ a \div b \in Nat
           /\ a % b \in 0 .. b - 1
           /\ a = b * (a \div b) + (a % b)
  BY SMTT(10)

\* What is below a multiple has its quotient below the factor.
LEMMA QuotientBelow ==
    ASSUME NEW b \in Nat \ {0}, NEW n \in Nat \ {0}, NEW q \in Nat, NEW r \in 0 .. b - 1,
           b * q + r < b * n
    PROVE  q <= n - 1
<1>1. SUFFICES ASSUME n <= q
               PROVE  FALSE
  OBVIOUS
<1>2. q - n \in Nat /\ b * (q - n) \in Nat /\ b * q \in Nat /\ b * n \in Nat
  BY <1>1
<1>3. b * q = b * n + b * (q - n)
  BY <1>1
<1> QED BY <1>2, <1>3

\* The significance of a bit is the number of a bit, counted another way.
LEMMA SignificanceIsBit ==
    ASSUME NEW bit \in Bit
    PROVE  Significance(bit) \in Bit
<1> DEFINE q == bit \div ByteBits
           r == bit % ByteBits
           m == IdBytes - 1 - q
<1>1. /\ ByteBits \in Nat \ {0} /\ IdBytes \in Nat \ {0}
      /\ bit \in Nat /\ bit < ByteBits * IdBytes /\ ByteBits * IdBytes \in Nat
  BY DhtAssumption DEF Bit, IdBits
<1>2. q \in Nat /\ r \in 0 .. ByteBits - 1 /\ bit = ByteBits * q + r
  BY <1>1, DivMod
<1> HIDE DEF q, r
<1>3. q <= IdBytes - 1
  BY <1>1, <1>2, QuotientBelow
<1>4. m \in Nat /\ m + q = IdBytes - 1
  BY <1>1, <1>2, <1>3
<1> HIDE DEF m
<1>5. m * ByteBits \in Nat /\ q * ByteBits \in Nat
      /\ ByteBits * IdBytes = m * ByteBits + q * ByteBits + ByteBits
  <2>1. IdBytes = m + q + 1
    BY <1>1, <1>2, <1>4
  <2>2. ByteBits * (m + q + 1) = m * ByteBits + q * ByteBits + ByteBits
    BY <1>1, <1>2, <1>4
  <2> QED BY <1>1, <1>2, <1>4, <2>1, <2>2
<1>6. m * ByteBits + r \in Nat /\ m * ByteBits + r < ByteBits * IdBytes
  BY <1>1, <1>2, <1>5
<1>7. Significance(bit) = m * ByteBits + r
  BY DEF Significance, m, q, r
<1> QED BY <1>1, <1>6, <1>7 DEF Bit, IdBits

\* So a distance is a set of such numbers.
LEMMA DistanceType ==
    ASSUME NEW id \in NodeID, NEW target \in NodeID
    PROVE  Distance(id, target) \in SUBSET Bit
  BY SignificanceIsBit DEF Distance, XorDistance, NodeID

\* std::array's < is a strict total order of the distances.
LEMMA LessIsTotal ==
    ASSUME NEW d \in SUBSET Bit, NEW e \in SUBSET Bit
    PROVE  Less(d, e) \/ Less(e, d) \/ d = e
<1> SUFFICES ASSUME d # e
             PROVE  Less(d, e) \/ Less(e, d)
  OBVIOUS
<1> DEFINE T == (d \ e) \cup (e \ d)
<1>1. T \in SUBSET Bit /\ T # {}
  OBVIOUS
<1>2. PICK x \in T : \A y \in T : y <= x
  <2> HIDE DEF T
  <2> QED BY <1>1, GreatestBit
<1>3. \A y \in T : y \in Int /\ x \in Int
  BY <1>1 DEF Bit
<1>4. CASE x \in e
  BY <1>2, <1>3, <1>4 DEF Less
<1>5. CASE x \in d
  BY <1>2, <1>3, <1>5 DEF Less
<1> QED BY <1>4, <1>5

LEMMA LessIsTransitive ==
    ASSUME NEW d \in SUBSET Bit, NEW e \in SUBSET Bit, NEW f \in SUBSET Bit,
           Less(d, e), Less(e, f)
    PROVE  Less(d, f)
<1>1. PICK x \in e \ d : \A z \in d \ e : z < x
  BY DEF Less
<1>2. PICK y \in f \ e : \A z \in e \ f : z < y
  BY DEF Less
<1>3. \A z \in d \cup e \cup f : z \in Int
  BY DEF Bit
<1>4. x \in Int /\ y \in Int /\ x # y
  BY <1>1, <1>2, <1>3
<1>5. CASE x < y
  <2>1. y \in f \ d
    BY <1>1, <1>2, <1>4, <1>5
  <2>2. \A z \in d \ f : z < y
    BY <1>1, <1>2, <1>3, <1>4, <1>5
  <2> QED BY <2>1, <2>2 DEF Less
<1>6. CASE y < x
  <2>1. x \in f \ d
    BY <1>1, <1>2, <1>4, <1>6
  <2>2. \A z \in d \ f : z < x
    BY <1>1, <1>2, <1>3, <1>4, <1>6
  <2> QED BY <2>1, <2>2 DEF Less
<1> QED BY <1>4, <1>5, <1>6

LEMMA LessIsIrreflexive == \A d : ~Less(d, d)
  BY DEF Less

\* No two IDs are equally far from a target: bits have different significances.
LEMMA SignificanceTells ==
    ASSUME NEW bit \in Bit, NEW other \in Bit, Significance(bit) = Significance(other)
    PROVE  bit = other
<1> DEFINE q == bit \div ByteBits
           r == bit % ByteBits
           p == other \div ByteBits
           o == other % ByteBits
           m == IdBytes - 1 - q
           n == IdBytes - 1 - p
<1>1. ByteBits \in Nat \ {0} /\ IdBytes \in Nat \ {0} /\ bit \in Nat /\ other \in Nat
  BY DhtAssumption DEF Bit, IdBits
<1>2. q \in Nat /\ r \in 0 .. ByteBits - 1 /\ bit = ByteBits * q + r
  BY <1>1, DivMod
<1>3. p \in Nat /\ o \in 0 .. ByteBits - 1 /\ other = ByteBits * p + o
  BY <1>1, DivMod
<1>4. m * ByteBits + r = n * ByteBits + o
  BY DEF Significance
<1> HIDE DEF q, r, p, o
<1>5. m \in Int /\ n \in Int /\ (m = n => q = p)
  BY <1>1, <1>2, <1>3
<1> HIDE DEF m, n
<1>6. ASSUME NEW x \in Int, NEW y \in Int, NEW a \in 0 .. ByteBits - 1,
             NEW b \in 0 .. ByteBits - 1, x * ByteBits + a = y * ByteBits + b
      PROVE  ~ (x < y)
  <2>1. SUFFICES ASSUME x < y
                 PROVE  FALSE
    OBVIOUS
  <2>2. y - x - 1 \in Nat /\ (y - x - 1) * ByteBits \in Nat
    BY <1>1, <2>1
  <2>3. y * ByteBits = x * ByteBits + (y - x - 1) * ByteBits + ByteBits
    BY <1>1
  <2>4. x * ByteBits \in Int /\ y * ByteBits \in Int
    BY <1>1
  <2> QED BY <1>1, <1>6, <2>2, <2>3, <2>4
<1>7. ~ (m < n) /\ ~ (n < m)
  BY <1>2, <1>3, <1>4, <1>5, <1>6
<1>8. m = n
  BY <1>5, <1>7
<1>9. r = o
  BY <1>1, <1>2, <1>3, <1>4, <1>5, <1>8
<1> QED BY <1>2, <1>3, <1>5, <1>8, <1>9

LEMMA DistanceTells ==
    ASSUME NEW a \in NodeID, NEW b \in NodeID, NEW target \in NodeID,
           Distance(a, target) = Distance(b, target)
    PROVE  a = b
<1>1. \A id \in NodeID : XorDistance(id, target) \in SUBSET Bit
  BY DEF XorDistance, NodeID
<1>2. ASSUME NEW x \in NodeID, NEW y \in NodeID, Distance(x, target) = Distance(y, target),
             NEW bit \in XorDistance(x, target)
      PROVE  bit \in XorDistance(y, target)
  <2>1. Significance(bit) \in Distance(y, target)
    BY <1>2 DEF Distance
  <2>2. PICK other \in XorDistance(y, target) : Significance(bit) = Significance(other)
    BY <2>1 DEF Distance
  <2> QED BY <1>1, <2>2, SignificanceTells
<1>3. XorDistance(a, target) = XorDistance(b, target)
  BY <1>2
<1> QED BY <1>3 DEF XorDistance, NodeID

-----------------------------------------------------------------------------
(* Sorting                                                                 *)

Entry == [distance : SUBSET Bit, place : Nat]

\* Before is a strict total order of the entries.
LEMMA BeforeIsOrder ==
    /\ \A d \in Entry : ~Before(d, d)
    /\ \A d, e \in Entry : Before(d, e) \/ Before(e, d) \/ d = e
    /\ \A d, e, f \in Entry : Before(d, e) /\ Before(e, f) => Before(d, f)
<1>1. ASSUME NEW d \in Entry
      PROVE  ~Before(d, d)
  BY LessIsIrreflexive DEF Before, Entry
<1>2. ASSUME NEW d \in Entry, NEW e \in Entry
      PROVE  Before(d, e) \/ Before(e, d) \/ d = e
  <2>1. /\ d.distance \in SUBSET Bit /\ e.distance \in SUBSET Bit
        /\ d.place \in Nat /\ e.place \in Nat
    BY DEF Entry
  <2>2. CASE d.distance # e.distance
    BY <2>1, <2>2, LessIsTotal DEF Before
  <2>3. CASE d.distance = e.distance
    <3>1. d.place < e.place \/ e.place < d.place \/ d.place = e.place
      BY <2>1
    <3>2. d.place = e.place => d = e
      BY <2>3 DEF Entry
    <3> QED BY <2>3, <3>1, <3>2 DEF Before
  <2> QED BY <2>2, <2>3
<1>3. ASSUME NEW d \in Entry, NEW e \in Entry, NEW f \in Entry, Before(d, e), Before(e, f)
      PROVE  Before(d, f)
  <2>1. /\ d.distance \in SUBSET Bit /\ e.distance \in SUBSET Bit /\ f.distance \in SUBSET Bit
        /\ d.place \in Nat /\ e.place \in Nat /\ f.place \in Nat
    BY DEF Entry
  <2>2. CASE Less(d.distance, e.distance) /\ Less(e.distance, f.distance)
    BY <2>1, <2>2, LessIsTransitive DEF Before
  <2>3. CASE d.distance = e.distance \/ e.distance = f.distance
    <3>1. d.place < e.place /\ e.place < f.place => d.place < f.place
      BY <2>1
    <3> QED BY <1>3, <2>3, <3>1 DEF Before
  <2> QED BY <1>3, <2>2, <2>3 DEF Before
<1> QED BY <1>1, <1>2, <1>3

\* The place of an entry in that order.
Rank(entries, e) == 1 + Cardinality({d \in entries : Before(d, e)})

\* Ranks follow the order, and every number up to that of the entries is one.
LEMMA RanksFollow ==
    ASSUME NEW entries \in SUBSET Entry, IsFiniteSet(entries)
    PROVE  /\ \A e \in entries : Rank(entries, e) \in 1 .. Cardinality(entries)
           /\ \A d, e \in entries : Before(d, e) => Rank(entries, d) < Rank(entries, e)
           /\ \A r \in 1 .. Cardinality(entries) : \E e \in entries : Rank(entries, e) = r
<1> DEFINE n == Cardinality(entries)
           earlier(e) == {d \in entries : Before(d, e)}
<1>1. n \in Nat
  BY FS_CardinalityType
<1>2. ASSUME NEW e \in entries
      PROVE  IsFiniteSet(earlier(e)) /\ Cardinality(earlier(e)) \in Nat
             /\ Rank(entries, e) = 1 + Cardinality(earlier(e))
  <2>1. IsFiniteSet(earlier(e))
    BY FS_Subset
  <2>2. Cardinality(earlier(e)) \in Nat
    BY <2>1, FS_CardinalityType
  <2> QED BY <2>1, <2>2 DEF Rank
<1>3. ASSUME NEW e \in entries
      PROVE  Rank(entries, e) \in 1 .. n
  <2>1. earlier(e) \in SUBSET (entries \ {e})
    BY BeforeIsOrder
  <2>2. IsFiniteSet(entries \ {e}) /\ Cardinality(entries \ {e}) = n - 1
    BY FS_RemoveElement
  <2>3. Cardinality(earlier(e)) <= n - 1
    <3> HIDE DEF earlier
    <3> QED BY <2>1, <2>2, FS_Subset
  <2> HIDE DEF n, earlier
  <2> QED BY <1>1, <1>2, <2>3
<1>4. ASSUME NEW d \in entries, NEW e \in entries, Before(d, e)
      PROVE  Rank(entries, d) < Rank(entries, e)
  <2>1. d \notin earlier(d)
    BY BeforeIsOrder
  <2>2. earlier(d) \cup {d} \in SUBSET earlier(e)
    BY <1>4, BeforeIsOrder
  <2>3. Cardinality(earlier(d) \cup {d}) = Cardinality(earlier(d)) + 1
    <3>1. IsFiniteSet(earlier(d))
      BY <1>2
    <3> HIDE DEF earlier
    <3> QED BY <2>1, <3>1, FS_AddElement
  <2>4. Cardinality(earlier(d) \cup {d}) <= Cardinality(earlier(e))
    <3>1. IsFiniteSet(earlier(e))
      BY <1>2
    <3> HIDE DEF earlier
    <3> QED BY <2>2, <3>1, FS_Subset
  <2> HIDE DEF earlier
  <2> QED BY <1>2, <2>3, <2>4
<1> DEFINE f == [e \in entries |-> Rank(entries, e)]
<1>5. f \in Injection(entries, 1 .. n)
  <2>1. f \in [entries -> 1 .. n]
    BY <1>3
  <2>2. ASSUME NEW d \in entries, NEW e \in entries, f[d] = f[e]
        PROVE  d = e
    <3>1. Rank(entries, d) = Rank(entries, e) /\ Rank(entries, d) \in 1 .. n
      BY <1>3, <2>2
    <3>2. ~Before(d, e) /\ ~Before(e, d)
      <4>1. ~ (Rank(entries, d) < Rank(entries, e)) /\ ~ (Rank(entries, e) < Rank(entries, d))
        BY <1>1, <3>1
      <4> QED BY <1>4, <4>1
    <3> QED BY <3>2, BeforeIsOrder
  <2> HIDE DEF f, n
  <2> QED BY <2>1, <2>2 DEF Injection, IsInjective
<1>6. f \in Surjection(entries, 1 .. n)
  <2>1. IsFiniteSet(1 .. n) /\ Cardinality(1 .. n) = n
    <3> HIDE DEF n
    <3> QED BY <1>1, FS_Interval
  <2>2. Cardinality(entries) = Cardinality(1 .. n)
    BY <2>1
  <2> HIDE DEF f, n
  <2> QED BY <1>5, <2>1, <2>2, FS_Injection
<1>7. ASSUME NEW r \in 1 .. n
      PROVE  \E e \in entries : Rank(entries, e) = r
  <2>1. PICK e \in entries : f[e] = r
    <3> HIDE DEF f, n
    <3> QED BY <1>6 DEF Surjection
  <2> QED BY <2>1
<1> QED BY <1>3, <1>4, <1>7

\* The entries of a sequence are as many as it has places.
LEMMA EntriesFacts ==
    ASSUME NEW s \in Seq(Nodes), NEW target \in NodeID
    PROVE  /\ Entries(s, target) \in SUBSET Entry /\ IsFiniteSet(Entries(s, target))
           /\ Cardinality(Entries(s, target)) = Len(s)
           /\ \A e \in Entries(s, target) :
                 /\ e.place \in 1 .. Len(s)
                 /\ e.distance = Distance(s[e.place].id, target)
           /\ \A i \in 1 .. Len(s) : \E e \in Entries(s, target) : e.place = i
<1> DEFINE entry(i) == [distance |-> Distance(s[i].id, target), place |-> i]
           f == [i \in 1 .. Len(s) |-> entry(i)]
           es == Entries(s, target)
<1>1. Len(s) \in Nat /\ DOMAIN s = 1 .. Len(s)
      /\ \A i \in 1 .. Len(s) : s[i] \in Nodes /\ s[i].id \in NodeID
  BY LenProperties, ElementOfSeq, DhtAssumption
<1>2. es = {entry(i) : i \in 1 .. Len(s)}
  BY <1>1 DEF Entries
<1>3. \A i \in 1 .. Len(s) : entry(i) \in Entry
  BY <1>1, DistanceType DEF Entry
<1>4. f \in Surjection(1 .. Len(s), es) /\ f \in Injection(1 .. Len(s), es)
  <2>1. f \in [1 .. Len(s) -> es]
    BY <1>2
  <2>2. \A e \in es : \E i \in 1 .. Len(s) : f[i] = e
    BY <1>2
  <2>3. \A i, j \in 1 .. Len(s) : f[i] = f[j] => i = j
    BY Zenon
  <2> HIDE DEF f, es
  <2> QED BY <2>1, <2>2, <2>3 DEF Surjection, Injection, IsInjective
<1>5. IsFiniteSet(1 .. Len(s)) /\ Cardinality(1 .. Len(s)) = Len(s)
  <2> HIDE DEF f, es, entry
  <2>1. Len(s) \in Int /\ 1 \in Int /\ (IF 1 > Len(s) THEN 0 ELSE Len(s) - 1 + 1) = Len(s)
    BY <1>1
  <2> QED BY <2>1, FS_Interval
<1>6. IsFiniteSet(es) /\ Cardinality(es) = Len(s)
  <2> HIDE DEF f, es
  <2> QED BY <1>4, <1>5, FS_Surjection
<1>7. \A i \in 1 .. Len(s) : entry(i) \in es /\ entry(i).place = i
  BY <1>2
<1>8. \A e \in es : /\ e.place \in 1 .. Len(s)
                    /\ e.distance = Distance(s[e.place].id, target)
  BY <1>2
<1> QED BY <1>2, <1>3, <1>6, <1>7, <1>8

\* std::sort moves each element to a place of its own, in the order of distances.
LEMMA SortedFacts ==
    ASSUME NEW s \in Seq(Nodes), NEW target \in NodeID
    PROVE  \E p \in [1 .. Len(s) -> 1 .. Len(s)] :
              /\ Sorted(s, target) = [r \in 1 .. Len(s) |-> s[p[r]]]
              /\ \A i \in 1 .. Len(s) : \E r \in 1 .. Len(s) : p[r] = i
              /\ \A q, r \in 1 .. Len(s) : p[q] = p[r] => q = r
              /\ \A q, r \in 1 .. Len(s) : q < r => ~Closer(s[p[r]], s[p[q]], target)
<1> DEFINE es == Entries(s, target)
           ranked == Ranked(es)
           place(r) == (CHOOSE e \in ranked : e.rank = r).place
           p == [r \in 1 .. Len(s) |-> place(r)]
<1>1. Len(s) \in Nat /\ DOMAIN s = 1 .. Len(s)
  BY LenProperties
<1>2. /\ es \in SUBSET Entry /\ IsFiniteSet(es) /\ Cardinality(es) = Len(s)
      /\ \A e \in es : e.place \in 1 .. Len(s) /\ e.distance = Distance(s[e.place].id, target)
      /\ \A i \in 1 .. Len(s) : \E e \in es : e.place = i
  BY EntriesFacts
<1>3. /\ \A e \in es : Rank(es, e) \in 1 .. Len(s)
      /\ \A d, e \in es : Before(d, e) => Rank(es, d) < Rank(es, e)
      /\ \A r \in 1 .. Len(s) : \E e \in es : Rank(es, e) = r
  <2> HIDE DEF es
  <2> QED BY <1>2, RanksFollow
<1>4. ranked = {[rank |-> Rank(es, e), place |-> e.place] : e \in es}
  BY DEF Ranked, Rank
<1>5. ASSUME NEW r \in 1 .. Len(s)
      PROVE  \E e \in es : Rank(es, e) = r /\ e.place = place(r)
  <2> HIDE DEF es
  <2>1. PICK e \in es : Rank(es, e) = r
    BY <1>3
  <2>2. [rank |-> Rank(es, e), place |-> e.place] \in ranked
    BY <1>4
  <2>3. \E x \in ranked : x.rank = r
    BY <2>1, <2>2
  <2> DEFINE x == CHOOSE x \in ranked : x.rank = r
  <2>4. x \in ranked /\ x.rank = r
    <3> HIDE DEF ranked
    <3> QED BY <2>3
  <2> HIDE DEF x
  <2>5. PICK y \in es : x = [rank |-> Rank(es, y), place |-> y.place]
    BY <1>4, <2>4
  <2>6. Rank(es, y) = r /\ y.place = x.place
    BY <2>4, <2>5
  <2> QED BY <2>6 DEF x
<1> HIDE DEF es, ranked, place
<1>6. p \in [1 .. Len(s) -> 1 .. Len(s)] /\ \A r \in 1 .. Len(s) : p[r] = place(r)
  BY <1>2, <1>5
<1>7. Sorted(s, target) = [r \in 1 .. Len(s) |-> s[p[r]]]
  <2>1. Sorted(s, target) = [r \in 1 .. Len(s) |-> s[place(r)]]
    BY <1>1 DEF Sorted, ranked, es, place
  <2> QED BY <1>6, <2>1
<1>8. ASSUME NEW i \in 1 .. Len(s)
      PROVE  \E r \in 1 .. Len(s) : p[r] = i
  <2>1. PICK e \in es : e.place = i
    BY <1>2
  <2>2. Rank(es, e) \in 1 .. Len(s)
    BY <1>3
  <2>3. PICK d \in es : Rank(es, d) = Rank(es, e) /\ d.place = place(Rank(es, e))
    BY <1>5, <2>2
  <2>4. ~Before(d, e) /\ ~Before(e, d)
    BY <1>3, <2>2, <2>3
  <2>5. d = e
    BY <1>2, <2>4, BeforeIsOrder
  <2> QED BY <1>6, <2>1, <2>2, <2>3, <2>5
<1>9. ASSUME NEW q \in 1 .. Len(s), NEW r \in 1 .. Len(s), q < r
      PROVE  ~Closer(s[p[r]], s[p[q]], target)
  <2>1. PICK d \in es : Rank(es, d) = q /\ d.place = p[q]
    BY <1>5, <1>6
  <2>2. PICK e \in es : Rank(es, e) = r /\ e.place = p[r]
    BY <1>5, <1>6
  <2>3. ~ (r < q)
    BY <1>1, <1>9
  <2>4. ~Before(e, d)
    BY <1>3, <2>1, <2>2, <2>3
  <2>5. ~Less(e.distance, d.distance)
    BY <2>4 DEF Before
  <2>6. e.distance = Distance(s[p[r]].id, target) /\ d.distance = Distance(s[p[q]].id, target)
    BY <1>2, <2>1, <2>2
  <2> QED BY <2>5, <2>6 DEF Closer
<1>10. ASSUME NEW q \in 1 .. Len(s), NEW r \in 1 .. Len(s), p[q] = p[r]
       PROVE  q = r
  <2>1. PICK d \in es : Rank(es, d) = q /\ d.place = p[q]
    BY <1>5, <1>6
  <2>2. PICK e \in es : Rank(es, e) = r /\ e.place = p[r]
    BY <1>5, <1>6
  <2>3. d.place = e.place /\ d.distance = e.distance /\ d.place \in Nat
    BY <1>2, <1>10, <2>1, <2>2
  <2>4. ~Before(d, e) /\ ~Before(e, d)
    BY <2>3, LessIsIrreflexive DEF Before
  <2>5. d = e
    BY <1>2, <2>4, BeforeIsOrder
  <2> QED BY <2>1, <2>2, <2>5
<1> HIDE DEF p
<1> QED BY <1>6, <1>7, <1>8, <1>9, <1>10

-----------------------------------------------------------------------------
(* All nodes of the table                                                  *)

\* The equations of FlattenSeq for the first n sequences.
FlatUpTo(f, n, t) == \A i \in 1 .. n : f[i] = IF i = 1 THEN t[i] ELSE f[i - 1] \o t[i]

\* Sequences with these equations exist.
LEMMA FlatExists ==
    ASSUME NEW t \in Seq(Seq(Nodes))
    PROVE  \E f \in [1 .. Len(t) -> Seq(Nodes)] : FlatUpTo(f, Len(t), t)
<1> DEFINE T == {n \in 0 .. Len(t) : ~ \E f \in [1 .. n -> Seq(Nodes)] : FlatUpTo(f, n, t)}
<1>1. Len(t) \in Nat /\ \A i \in 1 .. Len(t) : t[i] \in Seq(Nodes)
  <2> HIDE DEF T
  <2> QED BY LenProperties, ElementOfSeq
<1>2. SUFFICES ASSUME T # {}
               PROVE  FALSE
  <2>1. Len(t) \in 0 .. Len(t)
    BY ONLY <1>1
  <2> QED BY <2>1, Zenon
<1>3. PICK n \in T : \A m \in T : n <= m
  <2>1. T \in SUBSET Nat
    BY <1>1
  <2> HIDE DEF T
  <2> QED BY <1>2, <2>1, LeastNumber
<1>4. n # 0
  <2>1. [i \in 1 .. 0 |-> <<>>] \in [1 .. 0 -> Seq(Nodes)]
        /\ FlatUpTo([i \in 1 .. 0 |-> <<>>], 0, t)
    BY DEF FlatUpTo
  <2> QED BY <2>1
<1>5. n - 1 \in 0 .. Len(t) /\ n - 1 \notin T /\ n \in 1 .. Len(t)
  <2>1. n \in 0 .. Len(t)
    OBVIOUS
  <2> HIDE DEF T
  <2> QED BY <1>1, <1>3, <1>4, <2>1
<1>6. PICK f \in [1 .. n - 1 -> Seq(Nodes)] : FlatUpTo(f, n - 1, t)
  BY <1>5
<1> DEFINE last == IF n = 1 THEN t[n] ELSE f[n - 1] \o t[n]
           g == [i \in 1 .. n |-> IF i < n THEN f[i] ELSE last]
<1>7. last \in Seq(Nodes)
  <2>1. t[n] \in Seq(Nodes)
    <3> HIDE DEF T
    <3> QED BY <1>1, <1>5
  <2>2. CASE n # 1
    <3>1. n - 1 \in 1 .. n - 1
      BY <1>5, <2>2
    <3>2. f[n - 1] \in Seq(Nodes)
      BY <3>1
    <3>3. f[n - 1] \o t[n] \in Seq(Nodes)
      BY <2>1, <3>2, ConcatProperties
    <3> QED BY <2>2, <3>3
  <2> QED BY <2>1, <2>2
<1>8. g \in [1 .. n -> Seq(Nodes)]
  <2> HIDE DEF last
  <2> QED BY <1>5, <1>6, <1>7
<1>9. FlatUpTo(g, n, t)
  <2>1. ASSUME NEW i \in 1 .. n
        PROVE  g[i] = IF i = 1 THEN t[i] ELSE g[i - 1] \o t[i]
    <3>1. CASE i < n
      <4>1. i \in 1 .. n - 1 /\ g[i] = f[i] /\ (i # 1 => i - 1 \in 1 .. n /\ g[i - 1] = f[i - 1])
        BY <1>5, <3>1
      <4> HIDE DEF g
      <4> QED BY <1>6, <4>1 DEF FlatUpTo
    <3>2. CASE i = n
      <4>1. g[i] = last /\ (i # 1 => i - 1 \in 1 .. n /\ g[i - 1] = f[i - 1])
        BY <1>5, <3>2
      <4> HIDE DEF g
      <4> QED BY <3>2, <4>1
    <3> QED BY <1>5, <3>1, <3>2
  <2> HIDE DEF g
  <2> QED BY <2>1 DEF FlatUpTo
<1> QED BY <1>3, <1>8, <1>9

\* What the first n sequences hold.
Held(t, n) == UNION {ToSet(t[j]) : j \in 1 .. n}

\* A concatenation holds what its parts hold.
LEMMA ConcatHolds ==
    ASSUME NEW a \in Seq(Nodes), NEW b \in Seq(Nodes)
    PROVE  ToSet(a \o b) = ToSet(a) \cup ToSet(b)
<1> DEFINE c == a \o b
<1>1. /\ Len(a) \in Nat /\ DOMAIN a = 1 .. Len(a) /\ Len(b) \in Nat /\ DOMAIN b = 1 .. Len(b)
      /\ c \in Seq(Nodes) /\ Len(c) = Len(a) + Len(b)
      /\ \A i \in 1 .. Len(a) + Len(b) : c[i] = IF i <= Len(a) THEN a[i] ELSE b[i - Len(a)]
  BY ConcatProperties, LenProperties
<1> HIDE DEF c
<1>2. DOMAIN c = 1 .. Len(a) + Len(b)
  BY <1>1, LenProperties
<1>3. \A i \in 1 .. Len(a) : i \in DOMAIN c /\ c[i] = a[i]
  BY <1>1, <1>2
<1>4. ASSUME NEW i \in 1 .. Len(b)
      PROVE  i + Len(a) \in DOMAIN c /\ c[i + Len(a)] = b[i]
  <2>1. /\ i + Len(a) \in 1 .. Len(a) + Len(b)
        /\ ~ (i + Len(a) <= Len(a)) /\ (i + Len(a)) - Len(a) = i
    BY <1>1
  <2> QED BY <1>1, <1>2, <2>1
<1>5. \A i \in DOMAIN c : \/ i \in DOMAIN a /\ c[i] = a[i]
                          \/ i - Len(a) \in DOMAIN b /\ c[i] = b[i - Len(a)]
  BY <1>1, <1>2
<1>6. ToSet(a) \subseteq ToSet(c)
  BY <1>1, <1>3 DEF ToSet
<1>7. ToSet(b) \subseteq ToSet(c)
  <2>1. \A i \in 1 .. Len(b) : b[i] \in ToSet(c)
    BY <1>4 DEF ToSet
  <2> QED BY <1>1, <2>1 DEF ToSet
<1>8. ToSet(c) \subseteq ToSet(a) \cup ToSet(b)
  BY <1>5 DEF ToSet
<1> QED BY <1>6, <1>7, <1>8 DEF c

\* The node is in two of the first n sequences.
InTwo(t, n, x) == \E i, j \in 1 .. n : i # j /\ x \in ToSet(t[i]) /\ x \in ToSet(t[j])

\* What a sequence repeats is in two of the first n sequences.
RepeatsInTwo(s, t, n) == \A k, l \in DOMAIN s : k # l /\ s[k] = s[l] => InTwo(t, n, s[k])

\* One more sequence: what it repeats is in the one before.
LEMMA ConcatRepeats ==
    ASSUME NEW a \in Seq(Nodes), NEW b \in Seq(Nodes), IsInjective(b),
           NEW k \in DOMAIN (a \o b), NEW l \in DOMAIN (a \o b),
           k # l, (a \o b)[k] = (a \o b)[l]
    PROVE  \/ k \in DOMAIN a /\ l \in DOMAIN a /\ a[k] = a[l] /\ a[k] = (a \o b)[k]
           \/ (a \o b)[k] \in ToSet(a) /\ (a \o b)[k] \in ToSet(b)
<1> DEFINE c == a \o b
<1>1. /\ Len(a) \in Nat /\ DOMAIN a = 1 .. Len(a) /\ Len(b) \in Nat /\ DOMAIN b = 1 .. Len(b)
      /\ c \in Seq(Nodes) /\ Len(c) = Len(a) + Len(b)
      /\ \A i \in 1 .. Len(a) + Len(b) : c[i] = IF i <= Len(a) THEN a[i] ELSE b[i - Len(a)]
  BY ConcatProperties, LenProperties
<1> HIDE DEF c
<1>2. DOMAIN c = 1 .. Len(a) + Len(b)
  BY <1>1, LenProperties
<1>3. \A i \in DOMAIN c : \/ i \in DOMAIN a /\ c[i] = a[i]
                          \/ i - Len(a) \in DOMAIN b /\ c[i] = b[i - Len(a)]
  BY <1>1, <1>2
<1>4. k \in DOMAIN c /\ l \in DOMAIN c /\ k \in Int /\ l \in Int
  BY <1>2 DEF c
<1>5. CASE k \in DOMAIN a /\ c[k] = a[k]
  <2>1. CASE l \in DOMAIN a /\ c[l] = a[l]
    BY <1>5, <2>1 DEF c
  <2>2. CASE l - Len(a) \in DOMAIN b /\ c[l] = b[l - Len(a)]
    BY <1>5, <2>2 DEF c, ToSet
  <2> QED BY <1>3, <1>4, <2>1, <2>2
<1>6. CASE k - Len(a) \in DOMAIN b /\ c[k] = b[k - Len(a)]
  <2>1. CASE l \in DOMAIN a /\ c[l] = a[l]
    BY <1>6, <2>1 DEF c, ToSet
  <2>2. CASE l - Len(a) \in DOMAIN b /\ c[l] = b[l - Len(a)]
    <3>1. k - Len(a) = l - Len(a)
      BY <1>6, <2>2 DEF c, IsInjective
    <3> QED BY <1>1, <1>4, <3>1
  <2> QED BY <1>3, <1>4, <2>1, <2>2
<1> QED BY <1>3, <1>4, <1>5, <1>6

\* find_closest_nodes gathers a sequence of nodes, those of all buckets.
LEMMA FlattenSeqFacts ==
    ASSUME NEW t \in Seq(Seq(Nodes)), t # <<>>, \A i \in 1 .. Len(t) : IsInjective(t[i])
    PROVE  /\ FlattenSeq(t) \in Seq(Nodes) /\ ToSet(FlattenSeq(t)) = Held(t, Len(t))
           /\ RepeatsInTwo(FlattenSeq(t), t, Len(t))
<1> DEFINE body(h) == [i \in 1 .. Len(t) |-> IF i = 1 THEN t[i] ELSE h[i - 1] \o t[i]]
           flatten == CHOOSE h : h = body(h)
           good(i) == /\ flatten[i] \in Seq(Nodes) /\ ToSet(flatten[i]) = Held(t, i)
                      /\ RepeatsInTwo(flatten[i], t, i)
           T == {i \in 1 .. Len(t) : ~good(i)}
<1>1. Len(t) \in Nat \ {0} /\ \A i \in 1 .. Len(t) : t[i] \in Seq(Nodes)
  <2> HIDE DEF T
  <2> QED BY LenProperties, ElementOfSeq, EmptySeq
<1>2. FlattenSeq(t) = flatten[Len(t)]
  <2>1. Len(t) # 0
    BY <1>1
  <2> QED BY <2>1 DEF FlattenSeq
<1>3. flatten = body(flatten)
  <2>1. PICK f \in [1 .. Len(t) -> Seq(Nodes)] : FlatUpTo(f, Len(t), t)
    BY FlatExists
  <2>2. f = body(f)
    BY <2>1 DEF FlatUpTo
  <2> HIDE DEF body
  <2> QED BY <2>2
<1> HIDE DEF flatten
<1>4. \A i \in 1 .. Len(t) : flatten[i] = IF i = 1 THEN t[i] ELSE flatten[i - 1] \o t[i]
  BY <1>3
<1>5. T = {}
  <2>1. SUFFICES ASSUME T # {}
                 PROVE  FALSE
    OBVIOUS
  <2>2. T \in SUBSET Nat
    BY <1>1
  <2>3. PICK n \in T : \A k \in T : n <= k
    <3> HIDE DEF T
    <3> QED BY <2>1, <2>2, LeastNumber
  <2>4. n \in 1 .. Len(t) /\ ~good(n)
    OBVIOUS
  <2>5. t[n] \in Seq(Nodes) /\ IsInjective(t[n])
    BY <1>1, <2>4
  <2>6. CASE n = 1
    <3>1. flatten[n] = t[n]
      BY <1>4, <2>4, <2>6
    <3>2. Held(t, n) = ToSet(t[n])
      BY <2>6 DEF Held
    <3>3. RepeatsInTwo(flatten[n], t, n)
      <4> HIDE DEF T, good
      <4> QED BY <2>5, <3>1 DEF RepeatsInTwo, IsInjective
    <3> QED BY <2>4, <2>5, <3>1, <3>2, <3>3
  <2>7. CASE n # 1
    <3>1. n - 1 \in 1 .. Len(t) /\ ~ (n <= n - 1)
      BY <1>1, <2>4, <2>7
    <3>2. good(n - 1)
      BY <2>3, <3>1
    <3>3. flatten[n] = flatten[n - 1] \o t[n]
      BY <1>4, <2>4, <2>7
    <3>4. flatten[n] \in Seq(Nodes)
      BY <2>5, <3>2, <3>3, ConcatProperties
    <3>5. ToSet(flatten[n]) = Held(t, n - 1) \cup ToSet(t[n])
      BY <2>5, <3>2, <3>3, ConcatHolds
    <3>6. Held(t, n) = Held(t, n - 1) \cup ToSet(t[n])
      <4>1. \A j : j \in 1 .. n <=> j \in 1 .. n - 1 \/ j = n
        BY <1>1, <2>4
      <4> HIDE DEF T, good
      <4> QED BY <4>1 DEF Held
    <3>7. ASSUME NEW k \in DOMAIN flatten[n], NEW l \in DOMAIN flatten[n],
                 k # l, flatten[n][k] = flatten[n][l]
          PROVE  InTwo(t, n, flatten[n][k])
      <4>1. n \in Nat /\ n - 1 \in 1 .. n
        BY <1>1, <2>4, <3>1
      <4>2. flatten[n - 1] \in Seq(Nodes) /\ ToSet(flatten[n - 1]) = Held(t, n - 1)
            /\ RepeatsInTwo(flatten[n - 1], t, n - 1)
        BY <3>2
      <4> DEFINE x == flatten[n][k]
                 before == flatten[n - 1]
      <4>3. CASE k \in DOMAIN before /\ l \in DOMAIN before /\ before[k] = before[l]
                 /\ before[k] = x
        <5>1. InTwo(t, n - 1, x)
          BY <3>7, <4>2, <4>3 DEF RepeatsInTwo
        <5> HIDE DEF T, good, x
        <5>2. \A j \in 1 .. n - 1 : j \in 1 .. n
          BY <4>1
        <5> QED BY <5>1, <5>2 DEF InTwo, x
      <4>4. CASE x \in ToSet(before) /\ x \in ToSet(t[n])
        <5> HIDE DEF T, good, x
        <5>1. PICK j \in 1 .. n - 1 : x \in ToSet(t[j])
          BY <4>2, <4>4 DEF Held
        <5>2. j \in 1 .. n /\ n \in 1 .. n /\ j # n
          BY <4>1
        <5> QED BY <4>4, <5>1, <5>2 DEF InTwo, x
      <4>5. \/ k \in DOMAIN before /\ l \in DOMAIN before /\ before[k] = before[l]
              /\ before[k] = x
            \/ x \in ToSet(before) /\ x \in ToSet(t[n])
        <5> HIDE DEF T, good
        <5> QED BY <2>5, <3>3, <3>7, <4>2, ConcatRepeats
      <4> QED BY <4>3, <4>4, <4>5
    <3>8. RepeatsInTwo(flatten[n], t, n)
      <4> HIDE DEF T, good
      <4> QED BY <3>7 DEF RepeatsInTwo
    <3> QED BY <2>4, <3>4, <3>5, <3>6, <3>8
  <2> QED BY <2>6, <2>7
<1>6. good(Len(t))
  <2>1. Len(t) \in 1 .. Len(t)
    BY <1>1
  <2> HIDE DEF good
  <2> QED BY <1>5, <2>1
<1> QED BY <1>2, <1>6

-----------------------------------------------------------------------------
(* find_closest_nodes                                                      *)

\* The answer is a beginning of the sorted nodes, as long as it can be, and who
\* is behind it is not closer than who is in it.
LEMMA ClosestFound ==
    ASSUME routing_table_ \in Seq(Seq(Nodes)), routing_table_ # <<>>,
           \A i \in 1 .. Len(routing_table_) : IsInjective(routing_table_[i]),
           NEW target \in NodeID
    PROVE  LET answer  == FindClosest(target)
               known   == ToSet(FlattenSeq(routing_table_))
               missing == known \ ToSet(answer)
           IN  /\ ToSet(answer) \subseteq known /\ Len(answer) <= K
               /\ missing # {} => Len(answer) = K
               /\ \A k, l \in DOMAIN answer :
                     k # l /\ answer[k] = answer[l] => Scattered(answer[k])
               /\ \A n \in missing, m \in ToSet(answer) : ~Closer(n, m, target)
<1> DEFINE known == FlattenSeq(routing_table_)
           n == Len(known)
           size == AnswerSize(known)
           answer == FindClosest(target)
<1>1. /\ known \in Seq(Nodes) /\ n \in Nat /\ DOMAIN known = 1 .. n
      /\ RepeatsInTwo(known, routing_table_, Len(routing_table_))
  BY FlattenSeqFacts, LenProperties
<1>2. size \in 0 .. n /\ size = IF n < K THEN n ELSE K
  <2> HIDE DEF known
  <2> QED BY <1>1, DhtAssumption DEF AnswerSize
<1>3. PICK p \in [1 .. n -> 1 .. n] :
         /\ Sorted(known, target) = [r \in 1 .. n |-> known[p[r]]]
         /\ \A i \in 1 .. n : \E r \in 1 .. n : p[r] = i
         /\ \A q, r \in 1 .. n : p[q] = p[r] => q = r
         /\ \A q, r \in 1 .. n : q < r => ~Closer(known[p[r]], known[p[q]], target)
  <2> HIDE DEF known
  <2> QED BY <1>1, SortedFacts
<1>4. answer = SubSeq(Sorted(known, target), 1, size)
  BY DEF FindClosest
<1> HIDE DEF known, size, answer
<1>5. Len(answer) = size /\ DOMAIN answer = 1 .. size
      /\ \A r \in 1 .. size : answer[r] = known[p[r]]
  <2> DEFINE sorted == Sorted(known, target)
  <2>1. \A r \in 1 .. size : r \in 1 .. n
    <3> n \in Nat /\ size \in 0 .. n
      BY <1>1, <1>2
    <3> HIDE DEF n
    <3> QED OBVIOUS
  <2>2. \A r \in 1 .. size : sorted[r] = known[p[r]] /\ sorted[r] \in Nodes
    <3>1. \A r \in 1 .. n : known[p[r]] \in Nodes
      BY <1>1, ElementOfSeq
    <3> QED BY <1>3, <2>1, <3>1
  <2> HIDE DEF sorted
  <2>3. /\ answer \in Seq(Nodes) /\ Len(answer) = IF 1 <= size THEN size - 1 + 1 ELSE 0
        /\ \A r \in 1 .. size - 1 + 1 : answer[r] = sorted[1 + r - 1]
    <3>1. size \in Int /\ 1 \in Int
      BY <1>2
    <3> QED BY <1>4, <2>2, <3>1, SubSeqProperties DEF sorted
  <2>4. Len(answer) = size /\ \A r \in 1 .. size : answer[r] = sorted[r]
    BY <1>2, <2>3
  <2> QED BY <2>2, <2>3, <2>4, LenProperties
<1>6. ToSet(answer) \subseteq ToSet(known)
  <2>1. ASSUME NEW r \in 1 .. size
        PROVE  p[r] \in DOMAIN known
    <3>1. r \in 1 .. n
      <4> n \in Nat /\ size \in 0 .. n
        BY <1>1, <1>2
      <4> HIDE DEF n
      <4> QED OBVIOUS
    <3> QED BY <1>1, <3>1
  <2> QED BY <1>5, <2>1 DEF ToSet
<1>7. ASSUME NEW a \in ToSet(known) \ ToSet(answer), NEW b \in ToSet(answer)
      PROVE  ~Closer(a, b, target)
  <2>1. PICK i \in 1 .. n : known[i] = a
    BY <1>1 DEF ToSet
  <2>2. PICK r \in 1 .. n : p[r] = i
    BY <1>3
  <2>3. PICK q \in 1 .. size : known[p[q]] = b
    BY <1>5 DEF ToSet
  <2>4. r \notin 1 .. size
    BY <1>5, <2>1, <2>2 DEF ToSet
  <2>5. q \in 1 .. n /\ q < r
    <3>1. n \in Nat /\ size \in 0 .. n /\ q \in 1 .. size /\ r \in 1 .. n
      BY <1>1, <1>2
    <3> HIDE DEF n
    <3> QED BY <2>4, <3>1
  <2> QED BY <1>3, <2>1, <2>2, <2>3, <2>5
<1>8. ASSUME NEW a \in ToSet(known) \ ToSet(answer)
      PROVE  size = K
  <2>1. SUFFICES ASSUME size = n
                 PROVE  a \in ToSet(answer)
    BY <1>2
  <2>2. PICK r \in 1 .. n : known[p[r]] = a
    BY <1>1, <1>3 DEF ToSet
  <2> QED BY <1>5, <2>1, <2>2 DEF ToSet
<1>9. size <= K
  <2>1. K \in Nat
    BY DhtAssumption
  <2> HIDE DEF n
  <2> QED BY <1>1, <1>2, <2>1
<1>10. ASSUME NEW k \in DOMAIN answer, NEW l \in DOMAIN answer,
              k # l, answer[k] = answer[l]
       PROVE  Scattered(answer[k])
  <2>1. /\ k \in 1 .. size /\ l \in 1 .. size
        /\ answer[k] = known[p[k]] /\ answer[l] = known[p[l]]
    BY <1>5
  <2>2. k \in 1 .. n /\ l \in 1 .. n
    <3>1. n \in Nat /\ size \in 0 .. n
      BY <1>1, <1>2
    <3>2. k \in 1 .. size /\ l \in 1 .. size
      BY <2>1
    <3> HIDE DEF n
    <3>3. \A r \in 1 .. size : r \in 1 .. n
      BY <3>1
    <3> QED BY <3>2, <3>3, Zenon
  <2>3. p[k] \in DOMAIN known /\ p[l] \in DOMAIN known /\ p[k] # p[l]
    <3>1. p[k] \in 1 .. n /\ p[l] \in 1 .. n
      BY <1>3, <2>2, Zenon
    <3>2. p[k] # p[l]
      BY <1>3, <1>10, <2>2, Zenon
    <3> HIDE DEF n
    <3> QED BY <1>1, <3>1, <3>2
  <2>4. InTwo(routing_table_, Len(routing_table_), answer[k])
    BY <1>1, <1>10, <2>1, <2>3 DEF RepeatsInTwo
  <2>5. DOMAIN routing_table_ = 1 .. Len(routing_table_)
    BY LenProperties
  <2> QED BY <2>4, <2>5 DEF InTwo, Scattered
<1> QED BY <1>5, <1>6, <1>7, <1>8, <1>9, <1>10 DEF known, size, answer

-----------------------------------------------------------------------------
(* The theorems                                                            *)

\* The invariant holds at the start.
LEMMA DhtInitially == Init => DhtInv
<1> SUFFICES ASSUME Init
             PROVE  DhtInv
  OBVIOUS
<1> USE DEF Init
<1>1. <<>> \in Seq(Nodes) /\ Len(<<>>) = 0 /\ <<>> \in Seq(Peers)
  BY EmptySeq
<1>2. GoodBucket(<<>>, {})
  BY <1>1, DhtAssumption DEF GoodBucket, IsInjective
<1>3. routing_table_ \in Seq(Seq(Nodes)) /\ Len(routing_table_) = 1
      /\ routing_table_[1] = <<>> /\ routing_table_ # <<>>
  BY <1>1
<1>4. seen \in Seq(SUBSET (Nodes \X Nodes)) /\ Len(seen) = 1 /\ seen[1] = {}
  OBVIOUS
<1>5. Tabled
  <2> HIDE DEF Init
  <2>1. ASSUME NEW i \in 1 .. Len(routing_table_)
        PROVE  i = 1 /\ routing_table_[i] = <<>> /\ seen[i] = {}
    <3>1. i = 1
      BY <1>3
    <3> QED BY <1>3, <1>4, <3>1
  <2>2. ASSUME NEW i \in 1 .. Len(routing_table_)
        PROVE  GoodBucket(routing_table_[i], seen[i])
    BY <1>2, <2>1
  <2>3. ASSUME NEW i \in 1 .. Len(routing_table_)
        PROVE  \A k \in 1 .. Len(routing_table_[i]) : Belongs(routing_table_[i][k], i)
    <3>1. Len(routing_table_[i]) = 0
      BY <1>1, <2>1
    <3> QED BY <3>1
  <2>4. \A i \in 1 .. Len(routing_table_) : ~ (i > 1)
    BY <1>3
  <2> QED BY <1>3, <1>4, <2>2, <2>3, <2>4 DEF Tabled
<1>6. Kept
  BY <1>1 DEF Kept
<1>7. asked \in 0 .. NumBootstrap /\ left \in 0 .. MaxReply
  BY DhtAssumption
<1>8. serving \in BOOLEAN
  BY Zenon
<1> HIDE DEF Init
<1> QED BY <1>5, <1>6, <1>7, <1>8 DEF DhtInv

\* Every step keeps it.
LEMMA DhtInductive == DhtInv /\ [Next]_vars => DhtInv'
<1> SUFFICES ASSUME DhtInv, [Next]_vars
             PROVE  DhtInv'
  OBVIOUS
<1> USE DhtAssumption DEF DhtInv
<1>1. CASE Answer \/ NoAnswer \/ Run
  <2>1. UNCHANGED <<routing_table_, peer_store_, acked, seen>>
    BY <1>1 DEF Answer, NoAnswer, Run
  <2>2. Tabled' /\ Kept'
    BY <2>1 DEF Tabled, Kept, GoodBucket, Belongs
  <2>3. asked' \in 0 .. NumBootstrap
    BY <1>1 DEF Answer, NoAnswer, Run
  <2>4. left' \in 0 .. MaxReply
    BY <1>1 DEF Answer, NoAnswer, Run
  <2>5. serving' \in BOOLEAN
    BY <1>1, Zenon DEF Answer, NoAnswer, Run
  <2> QED BY <2>2, <2>3, <2>4, <2>5
<1>2. CASE AddNext
  <2>1. Tabled'
    BY <1>2, AddStep DEF AddNext
  <2> QED BY <1>2, <2>1 DEF AddNext, Kept
<1>3. ASSUME NEW hash \in InfoHashes, NEW peer \in Peers, NEW transaction \in BOOLEAN,
             HandleAnnouncePeer(hash, peer, transaction)
      PROVE  DhtInv'
  <2>1. Kept'
    BY <1>3, AnnounceStep
  <2> QED BY <1>3, <2>1 DEF HandleAnnouncePeer, Tabled, GoodBucket, Belongs
<1>4. CASE UNCHANGED vars
  BY <1>4 DEF vars, Tabled, Kept, GoodBucket, Belongs
<1> QED BY <1>1, <1>2, <1>3, <1>4 DEF Next, Bootstrap

\* The inductive invariant holds in every state of every run of the node.
THEOREM DhtInvariance == Spec => []DhtInv
  BY DhtInitially, DhtInductive, PTL DEF Spec

\* TypeOK: the table, the store and the history have their types, and no bucket
\* ever has more than K nodes.
THEOREM DhtTypeCorrect == Spec => []TypeOK
<1>1. DhtInv => TypeOK
  <2> SUFFICES ASSUME DhtInv
               PROVE  TypeOK
    OBVIOUS
  <2>1. DOMAIN routing_table_ = 1 .. Len(routing_table_)
    BY LenProperties DEF DhtInv, Tabled
  <2> QED BY <2>1 DEF DhtInv, Tabled, Kept, GoodBucket, TypeOK
<1> QED BY <1>1, DhtInvariance, PTL

\* BucketsMatchDistance: add_to_routing_table puts a node only into a bucket up
\* to which every bit of its distance is 1, and rotating and evicting move none
\* into another.
THEOREM BucketsMatchDistanceHolds == Spec => []BucketsMatchDistance
<1>1. DhtInv => BucketsMatchDistance
  <2> SUFFICES ASSUME DhtInv, NEW i \in DOMAIN routing_table_,
                      NEW n \in ToSet(routing_table_[i])
               PROVE  Belongs(n, i)
    BY DEF BucketsMatchDistance, Belongs
  <2>1. i \in 1 .. Len(routing_table_) /\ routing_table_[i] \in Seq(Nodes)
    BY LenProperties, ElementOfSeq DEF DhtInv, Tabled
  <2>2. DOMAIN routing_table_[i] = 1 .. Len(routing_table_[i])
    BY <2>1, LenProperties
  <2> QED BY <2>1, <2>2 DEF DhtInv, Tabled, ToSet
<1> QED BY <1>1, DhtInvariance, PTL

\* BucketsAreSets: no bucket holds a node twice, and only the first, which the
\* constructor makes, can be empty.
THEOREM BucketsAreSetsHolds == Spec => []BucketsAreSets
<1>1. DhtInv => BucketsAreSets
  BY LenProperties DEF DhtInv, Tabled, GoodBucket, BucketsAreSets
<1> QED BY <1>1, DhtInvariance, PTL

\* RecencyOrder: behind its front, a bucket is in the order in which its nodes
\* last gave a sign of life, through rotations, insertions and evictions.
THEOREM RecencyOrderHolds == Spec => []RecencyOrder
<1>1. DhtInv => RecencyOrder
  BY LenProperties DEF DhtInv, Tabled, GoodBucket, RecencyOrder
<1> QED BY <1>1, DhtInvariance, PTL

\* AckedIsServed: handle_announce_peer stores a peer before it answers, nothing
\* removes one, and handle_get_peers answers with all of them.
THEOREM AckedIsServedHolds == Spec => []AckedIsServed
<1>1. DhtInv => AckedIsServed
  <2> SUFFICES ASSUME DhtInv, NEW entry \in acked, NEW answer \in GetPeersAnswers(entry[1])
               PROVE  entry[2] \in ToSet(answer)
    BY DEF AckedIsServed
  <2>1. entry[2] \in ToSet(peer_store_[entry[1]])
    BY DEF DhtInv, Kept
  <2>2. peer_store_[entry[1]] # <<>>
    BY <2>1, EmptySeq DEF ToSet
  <2> QED BY <2>1, <2>2 DEF GetPeersAnswers
<1> QED BY <1>1, DhtInvariance, PTL

\* ClosestAnswered: find_closest_nodes gathers all buckets, sorts by the distance
\* to the target and keeps the first K, so nobody it leaves out is closer; and it
\* repeats a node only where the table does, in different buckets.
THEOREM ClosestAnsweredHolds == Spec => []ClosestAnswered
<1>1. DhtInv /\ BucketsAreSets => ClosestAnswered
  <2> SUFFICES ASSUME DhtInv, BucketsAreSets
               PROVE  ClosestAnswered
    OBVIOUS
  <2>1. routing_table_ \in Seq(Seq(Nodes)) /\ routing_table_ # <<>>
    BY DEF DhtInv, Tabled
  <2>2. DOMAIN routing_table_ = 1 .. Len(routing_table_)
    BY <2>1, LenProperties
  <2>3. \A i \in 1 .. Len(routing_table_) : IsInjective(routing_table_[i])
    BY <2>2 DEF BucketsAreSets
  <2>4. ToSet(FlattenSeq(routing_table_))
           = UNION {ToSet(routing_table_[i]) : i \in DOMAIN routing_table_}
    BY <2>1, <2>2, <2>3, FlattenSeqFacts DEF Held
  <2> QED BY <2>1, <2>3, <2>4, ClosestFound DEF ClosestAnswered
<1> QED BY <1>1, DhtInvariance, BucketsAreSetsHolds, PTL

\* The comparison of find_closest_nodes tells any two IDs apart, whatever the
\* target: of two nodes with different IDs just one is the closer one.
THEOREM CloserTells ==
    ASSUME NEW a \in Nodes, NEW b \in Nodes, a.id # b.id, NEW target \in NodeID
    PROVE  Closer(a, b, target) <=> ~Closer(b, a, target)
<1> DEFINE d == Distance(a.id, target)
           e == Distance(b.id, target)
<1>1. a.id \in NodeID /\ b.id \in NodeID
  BY DhtAssumption
<1>2. d \in SUBSET Bit /\ e \in SUBSET Bit /\ d # e
  BY <1>1, DistanceType, DistanceTells
<1> HIDE DEF d, e
<1>3. Less(d, e) \/ Less(e, d)
  BY <1>2, LessIsTotal
<1>4. ~ (Less(d, e) /\ Less(e, d))
  BY <1>2, LessIsTransitive, LessIsIrreflexive
<1> QED BY <1>3, <1>4 DEF Closer, d, e

-----------------------------------------------------------------------------
(* Bootstrapping ends, whatever replies come.                              *)

\* The loop of add_to_routing_table has one end.
OneBucket ==
    \A n \in Nodes :
        /\ BucketIndices(n) # {}
        /\ Len(routing_table_) <= IdBits => \A i, j \in BucketIndices(n) : i = j

\* Every node has a bucket, found or made, so that adding it cannot fail; and it
\* has one only, until the table has more buckets than an ID has bits and the loop
\* reads beyond the distance.
THEOREM OneBucketHolds == Spec => []OneBucket
<1>1. ASSUME DhtInv, NEW n \in Nodes
      PROVE  BucketIndices(n) # {}
  <2> DEFINE l == Len(routing_table_)
             T == {i \in 1 .. l + 1 : i <= l => i - 1 \notin n.id}
  <2>1. l \in Nat
    BY <1>1, LenProperties DEF DhtInv, Tabled
  <2> HIDE DEF l
  <2>2. l + 1 \in T /\ T \in SUBSET Nat
    BY <2>1
  <2> HIDE DEF T
  <2>3. PICK i \in T : \A j \in T : i <= j
    BY <2>2, LeastNumber
  <2>4. i \in 1 .. l + 1 /\ (i <= l => i - 1 \notin n.id)
    BY DEF T
  <2>5. ASSUME NEW j \in 1 .. i - 1
        PROVE  j - 1 \in n.id
    <3>1. j \in 1 .. l + 1 /\ j < i
      BY <2>1, <2>4
    <3>2. j \notin T
      BY <2>2, <2>3, <3>1
    <3> QED BY <3>1, <3>2 DEF T
  <2> QED BY <2>4, <2>5 DEF BucketIndices, l
<1>2. ASSUME DhtInv, NEW n \in Nodes, Len(routing_table_) <= IdBits,
             NEW i \in BucketIndices(n), NEW j \in BucketIndices(n), i < j
      PROVE  FALSE
  <2>1. Len(routing_table_) \in Nat /\ IdBits \in Nat
    BY <1>2, LenProperties, DhtAssumption DEF DhtInv, Tabled, IdBits
  <2>2. /\ i \in 1 .. Len(routing_table_) + 1 /\ j \in 1 .. Len(routing_table_) + 1
        /\ i <= Len(routing_table_) => i - 1 \notin n.id
        /\ \A k \in 1 .. j - 1 : k - 1 \in n.id \cup (Nat \ Bit)
    BY DEF BucketIndices
  <2>3. i <= Len(routing_table_) /\ i \in 1 .. j - 1 /\ i - 1 \in Bit
    BY <1>2, <2>1, <2>2 DEF Bit
  <2> QED BY <2>2, <2>3
<1>3. ASSUME DhtInv, NEW n \in Nodes, Len(routing_table_) <= IdBits,
             NEW i \in BucketIndices(n), NEW j \in BucketIndices(n)
      PROVE  i = j
  <2>1. i \in Nat /\ j \in Nat
    BY <1>3, LenProperties DEF BucketIndices, DhtInv, Tabled
  <2> QED BY <1>2, <1>3, <2>1
<1>4. DhtInv => OneBucket
  BY <1>1, <1>3 DEF OneBucket
<1> QED BY <1>4, DhtInvariance, PTL

\* How far bootstrap() is from run(): the nodes of the latest reply, those of the
\* replies that can still come, and run() itself.
StepsLeft == (NumBootstrap - asked) * (MaxReply + 1) + left + (IF serving THEN 0 ELSE 1)

\* What can still come after one bootstrap node more, and from nobody.
LEMMA RepliesLeft ==
    ASSUME NEW d \in Nat \ {0}, NEW m \in Nat
    PROVE  /\ d * (m + 1) = (d - 1) * (m + 1) + m + 1
           /\ d * (m + 1) \in Nat /\ (d - 1) * (m + 1) \in Nat
  OBVIOUS

\* Each step of bootstrap() brings it nearer to run(), whichever requests, replies
\* and pings are lost: a node is asked once, and no reply is waited for twice.  Of
\* BootstrapEnds only that the thread runs is left to assume.
THEOREM BootstrapIsBounded ==
    Spec => [](StepsLeft \in Nat) /\ [][Bootstrap => StepsLeft' < StepsLeft]_vars
<1>1. ASSUME DhtInv
      PROVE  /\ NumBootstrap \in Nat /\ MaxReply \in Nat /\ asked \in 0 .. NumBootstrap
             /\ left \in 0 .. MaxReply /\ serving \in BOOLEAN
             /\ (NumBootstrap - asked) * (MaxReply + 1) \in Nat
  <2>1. /\ NumBootstrap \in Nat /\ MaxReply \in Nat /\ asked \in 0 .. NumBootstrap
        /\ left \in 0 .. MaxReply /\ serving \in BOOLEAN
    BY <1>1, DhtAssumption DEF DhtInv
  <2>2. \A d, m \in Nat : d * (m + 1) \in Nat
    OBVIOUS
  <2> QED BY <2>1, <2>2
<1>2. ASSUME DhtInv
      PROVE  StepsLeft \in Nat
  <2> DEFINE r == (NumBootstrap - asked) * (MaxReply + 1)
  <2>1. r \in Nat /\ left \in Nat
    BY <1>1, <1>2
  <2> HIDE DEF r
  <2> QED BY <2>1 DEF StepsLeft, r
<1>3. ASSUME DhtInv, Bootstrap
      PROVE  StepsLeft' < StepsLeft
  <2> DEFINE r == (NumBootstrap - asked) * (MaxReply + 1)
  <2>1. /\ r \in Nat /\ left \in 0 .. MaxReply /\ MaxReply \in Nat
        /\ NumBootstrap \in Nat /\ asked \in 0 .. NumBootstrap
    BY <1>1, <1>3
  <2>2. CASE Answer \/ NoAnswer
    <3>1. /\ asked' = asked + 1 /\ asked < NumBootstrap /\ serving' = serving
          /\ left = 0 /\ left' \in 0 .. MaxReply
      BY <2>1, <2>2 DEF Answer, NoAnswer
    <3>2. NumBootstrap - asked \in Nat \ {0} /\ NumBootstrap - asked' = NumBootstrap - asked - 1
      BY <2>1, <3>1
    <3> DEFINE d == NumBootstrap - asked
    <3>3. r = r' + MaxReply + 1 /\ r' \in Nat
      <4>1. /\ d * (MaxReply + 1) = (d - 1) * (MaxReply + 1) + MaxReply + 1
            /\ (d - 1) * (MaxReply + 1) \in Nat
        <5>1. d \in Nat \ {0} /\ MaxReply \in Nat
          BY <2>1, <3>2
        <5> HIDE DEF d
        <5> QED BY <5>1, RepliesLeft
      <4>2. d - 1 = NumBootstrap - asked'
        BY <3>2
      <4>3. r' = (d - 1) * (MaxReply + 1) /\ r = d * (MaxReply + 1)
        BY <4>2
      <4> QED BY <4>1, <4>3
    <3> DEFINE z == IF serving THEN 0 ELSE 1
    <3>4. StepsLeft = r + left + z /\ StepsLeft' = r' + left' + z'
      BY DEF StepsLeft
    <3>5. z' = z /\ z \in Int
      BY <3>1
    <3> HIDE DEF r, z
    <3>6. \A a, b, m, l \in Nat : a = b + m + 1 /\ l <= m => b + l + z < a + 0 + z
      BY <3>5
    <3>7. r' + left' + z < r + 0 + z
      <4>1. left' \in Nat /\ left' <= MaxReply
        BY <2>1, <3>1
      <4> QED BY <2>1, <3>3, <3>6, <4>1
    <3> QED BY <3>1, <3>4, <3>5, <3>7
  <2>3. CASE AddNext
    <3>1. r' = r /\ serving' = serving /\ left' < left /\ left' \in Int
      BY <2>1, <2>3 DEF AddNext
    <3> HIDE DEF r
    <3> QED BY <2>1, <3>1 DEF StepsLeft, r
  <2>4. CASE Run
    <3>1. r' = r /\ ~serving /\ serving' /\ left' = left
      BY <2>4 DEF Run
    <3> HIDE DEF r
    <3> QED BY <2>1, <3>1 DEF StepsLeft, r
  <2> QED BY <1>3, <2>2, <2>3, <2>4 DEF Bootstrap
<1>4. DhtInv /\ [Next]_vars => [Bootstrap => StepsLeft' < StepsLeft]_vars
  BY <1>3
<1>5. DhtInv => StepsLeft \in Nat
  BY <1>2
<1> QED BY <1>4, <1>5, DhtInvariance, PTL DEF Spec
=============================================================================
