-------------------------------- MODULE Dht --------------------------------
(***************************************************************************)
(* The DHT node (dht_bootstrap.cpp): bootstrap() asks the known nodes for  *)
(* others and adds those to the routing table; run() then answers queries. *)
(* One thread does both, one after the other.                              *)
(*                                                                         *)
(* An ID is the set of its bits that are 1; since only XOR distances       *)
(* matter our own is {}, and so a node's ID is its distance.  Bits are     *)
(* numbered as add_to_routing_table tests them: bytes from the first, and  *)
(* in a byte from the lowest bit.                                          *)
(***************************************************************************)
EXTENDS Integers, Sequences, SequencesExt, FiniteSets, TLC

CONSTANTS
    ByteBits, IdBytes,    \* 8, NODE_ID_SIZE
    K,                    \* the size of a bucket and of an answer
    Nodes,                \* nodes there are: records [id, addr]
    NumBootstrap,         \* how many bootstrap nodes were added
    MaxReply,             \* nodes that fit into a reply (1024 bytes)
    InfoHashes,           \* what a query may carry as info_hash
    WellFormed,           \* those of them that are NODE_ID_SIZE bytes long
    Peers,                \* senders of announce_peer
    MaxStored             \* bound on peer_store, which nothing ever prunes

IdBits == ByteBits * IdBytes
Bit == 0 .. IdBits - 1
NodeID == SUBSET Bit

ASSUME DhtAssumption ==
    /\ ByteBits \in Nat \ {0} /\ IdBytes \in Nat \ {0} /\ K \in Nat \ {0}
    /\ \A n \in Nodes : n.id \in NodeID
    /\ NumBootstrap \in Nat /\ MaxReply \in Nat /\ MaxStored \in Nat
    /\ WellFormed \subseteq InfoHashes

VARIABLES
    routing_table_,   \* the buckets
    asked,            \* bootstrap nodes asked so far
    left,             \* nodes of the latest reply that are not added yet
    serving,          \* bootstrap() has returned and run() was called
    peer_store_,      \* per info_hash, the peers that announced it
    acked,            \* history: <<info_hash, peer>> that got a response
    seen              \* history: per bucket, the <<a, b>> of which b gave the
                      \* later sign of life (or the only one)

vars == <<routing_table_, asked, left, serving, peer_store_, acked, seen>>

-----------------------------------------------------------------------------
(* add_to_routing_table                                                    *)

\* Mutant: stops one bit late.
BucketIndicesLate(n) ==
    {i \in 1 .. Len(routing_table_) + 1 :
        /\ \A j \in 1 .. i - 2 : j - 1 \in n.id \cup (Nat \ Bit)
        /\ i <= Len(routing_table_) => i - 1 \notin n.id}

(***************************************************************************)
(* The first bucket whose bit is 0 in the distance, or a new one.  A bit   *)
(* beyond the ID is read from outside the array: it may be 0 or 1.         *)
(***************************************************************************)
BucketIndices(n) ==
    {i \in 1 .. Len(routing_table_) + 1 :
        /\ \A j \in 1 .. i - 1 : j - 1 \in n.id \cup (Nat \ Bit)
        /\ i <= Len(routing_table_) => i - 1 \notin n.id}

WithBucket(i) == IF i > Len(routing_table_) THEN Append(routing_table_, <<>>)
                                            ELSE routing_table_

\* std::rotate(s + k, s + k + 1, end): the k-th goes to the back.
MoveToBack(s, k) == [j \in DOMAIN s |-> IF j < k THEN s[j]
                                        ELSE IF j < Len(s) THEN s[j + 1] ELSE s[k]]

Buckets(i, bucket) == routing_table_' = [WithBucket(i) EXCEPT ![i] = bucket]

SeenIn(i) == IF i \in DOMAIN seen THEN seen[i] ELSE {}

\* n gave a sign of life, as bucket i was told: all others gave theirs before.
Sighted(i, n) ==
    seen' = [j \in DOMAIN WithBucket(i) |->
                IF j # i THEN seen[j]
                ELSE {pair \in SeenIn(i) : pair[1] # n} \cup (Nodes \ {n}) \X {n}]

\* Mutant: leaves a known node where it is.
RefreshInPlace(n, i) ==
    /\ Contains(WithBucket(i)[i], n)
    /\ Buckets(i, WithBucket(i)[i])
    /\ Sighted(i, n)

\* "Move node to the back (most recently seen)"
Refresh(n, i) ==
    LET bucket == WithBucket(i)[i]
    IN  \E k \in DOMAIN bucket :
           /\ bucket[k] = n /\ \A j \in 1 .. k - 1 : bucket[j] # n
           /\ Buckets(i, MoveToBack(bucket, k))
           /\ Sighted(i, n)

\* Mutant: lets a bucket grow one node too far.
InsertOneMore(n, i) ==
    /\ ~Contains(WithBucket(i)[i], n)
    /\ Len(WithBucket(i)[i]) <= K
    /\ Buckets(i, Append(WithBucket(i)[i], n))
    /\ Sighted(i, n)

\* Mutant: does not look whether the node is there.
InsertAgain(n, i) ==
    /\ Len(WithBucket(i)[i]) < K
    /\ Buckets(i, Append(WithBucket(i)[i], n))
    /\ Sighted(i, n)

Insert(n, i) ==
    /\ ~Contains(WithBucket(i)[i], n)
    /\ Len(WithBucket(i)[i]) < K
    /\ Buckets(i, Append(WithBucket(i)[i], n))
    /\ Sighted(i, n)

\* Whether a ping is answered in two seconds: any datagram counts, and either
\* it or the ping may be lost.
Ping(node) == BOOLEAN

\* The bucket is full: its front node is moved back if it answers; otherwise n
\* takes its place, at the front.
PingFront(n, i) ==
    LET bucket == WithBucket(i)[i]
        front  == Head(bucket)
    IN  /\ ~Contains(bucket, n)
        /\ Len(bucket) >= K
        /\ \E answered \in Ping(front) :
              IF answered
              THEN Buckets(i, MoveToBack(bucket, 1)) /\ Sighted(i, front)
              ELSE Buckets(i, [bucket EXCEPT ![1] = n]) /\ Sighted(i, n)

AddToRoutingTable(n) ==
    \E i \in BucketIndices(n) :
        Refresh(n, i) \/ Insert(n, i) \/ PingFront(n, i)

-----------------------------------------------------------------------------
(* bootstrap()                                                             *)

\* A reply with nodes, from whoever sent it: neither its sender nor its
\* transaction ID is looked at.
Answer ==
    /\ ~serving /\ left = 0 /\ asked < NumBootstrap
    /\ asked' = asked + 1
    /\ left' \in 1 .. MaxReply
    /\ UNCHANGED <<routing_table_, serving, peer_store_, acked, seen>>

\* Mutant: sets no timeout and keeps waiting.
NoAnswerWaits ==
    /\ ~serving /\ left = 0 /\ asked < NumBootstrap
    /\ UNCHANGED vars

\* Nothing came for two seconds, or nothing that could be used.
NoAnswer ==
    /\ ~serving /\ left = 0 /\ asked < NumBootstrap
    /\ asked' = asked + 1
    /\ UNCHANGED <<routing_table_, left, serving, peer_store_, acked, seen>>

AddNext ==
    /\ ~serving /\ left > 0
    /\ left' = left - 1
    /\ \E n \in Nodes : AddToRoutingTable(n)
    /\ UNCHANGED <<asked, serving, peer_store_, acked>>

Run ==
    /\ ~serving /\ left = 0 /\ asked = NumBootstrap
    /\ serving' = TRUE
    /\ UNCHANGED <<routing_table_, asked, left, peer_store_, acked, seen>>

Bootstrap == Answer \/ NoAnswer \/ AddNext \/ Run

-----------------------------------------------------------------------------
(* run().  Ping, find_node and get_peers change nothing and are no steps.  *)

XorDistance(a, b) == (a \ b) \cup (b \ a)

\* What two distances are compared by: the significances of a distance's bits.
Significance(bit) ==
    (IdBytes - 1 - bit \div ByteBits) * ByteBits + (bit % ByteBits)

Distance(id, target) == {Significance(bit) : bit \in XorDistance(id, target)}

\* The most significant bit in which they differ decides.
Less(d, e) == \E bit \in e \ d : \A other \in d \ e : other < bit

Closer(a, b, target) == Less(Distance(a.id, target), Distance(b.id, target))

(***************************************************************************)
(* std::sort: every node goes where as many are before it as have a        *)
(* smaller distance.  Nodes of equal distance, one ID at two addresses,    *)
(* may come in any order; here they stay in the one they have.             *)
(***************************************************************************)
Before(d, e) == \/ Less(d.distance, e.distance)
                \/ d.distance = e.distance /\ d.place < e.place

Entries(s, target) ==
    {[distance |-> Distance(s[i].id, target), place |-> i] : i \in DOMAIN s}

Ranked(entries) ==
    {[rank |-> 1 + Cardinality({d \in entries : Before(d, e)}), place |-> e.place] :
        e \in entries}

Sorted(s, target) ==
    LET ranked == Ranked(Entries(s, target))
    IN  [r \in DOMAIN s |-> s[(CHOOSE e \in ranked : e.rank = r).place]]

AnswerSize(all) == IF Len(all) > K THEN K ELSE Len(all)

\* Mutant: takes the first K nodes and then sorts them.
FindClosestResizesFirst(target) ==
    LET all == FlattenSeq(routing_table_)
    IN  Sorted(SubSeq(all, 1, AnswerSize(all)), target)

FindClosest(target) ==
    LET all == FlattenSeq(routing_table_)
    IN  SubSeq(Sorted(all, target), 1, AnswerSize(all))

\* The peers if there are any, else nodes.  Where the hash is shorter than an
\* ID the target is read from beyond its end and may be anything.
GetPeersAnswers(hash) ==
    IF peer_store_[hash] # <<>> THEN {peer_store_[hash]}
                                ELSE {FindClosest(target) : target \in NodeID}

\* Mutant: keeps only the latest peer.
StoredOnly(hash, peer) == [peer_store_ EXCEPT ![hash] = <<peer>>]

Stored(hash, peer) == [peer_store_ EXCEPT ![hash] = Append(@, peer)]

(***************************************************************************)
(* The peer is stored first.  Then node_id_to_hex(string_to_node_id(...))  *)
(* of a log line throws on a hash of another length, and a query without a *)
(* transaction ID cannot be answered: either way no response is sent.      *)
(***************************************************************************)
HandleAnnouncePeer(hash, peer, transaction) ==
    /\ serving
    /\ Len(peer_store_[hash]) < MaxStored
    /\ peer_store_' = Stored(hash, peer)
    /\ acked' = IF transaction /\ hash \in WellFormed
                THEN acked \cup {<<hash, peer>>} ELSE acked
    /\ UNCHANGED <<routing_table_, asked, left, serving, seen>>

Init ==
    /\ routing_table_ = << <<>> >>
    /\ asked = 0
    /\ left = 0
    /\ serving = FALSE
    /\ peer_store_ = [hash \in InfoHashes |-> <<>>]
    /\ acked = {}
    /\ seen = << {} >>

Next == \/ Bootstrap
        \/ \E hash \in InfoHashes, peer \in Peers, transaction \in BOOLEAN :
              HandleAnnouncePeer(hash, peer, transaction)

\* The timeouts run out and the thread runs; nobody has to answer.
Spec == Init /\ [][Next]_vars /\ WF_vars(NoAnswer \/ AddNext \/ Run)
-----------------------------------------------------------------------------
(* Properties.                                                             *)

\* The table, the store and the history have their types; no bucket is larger
\* than K.
TypeOK ==
    /\ routing_table_ \in Seq(Seq(Nodes)) /\ routing_table_ # <<>>
    /\ \A i \in DOMAIN routing_table_ : Len(routing_table_[i]) <= K
    /\ asked \in 0 .. NumBootstrap /\ left \in 0 .. MaxReply
    /\ serving \in BOOLEAN
    /\ peer_store_ \in [InfoHashes -> Seq(Peers)]
    /\ acked \subseteq InfoHashes \X Peers

\* A node is only found in a bucket up to which every bit of its distance is 1,
\* whatever the size of the table was when it came, and also when the table has
\* more buckets than an ID has bits.
BucketsMatchDistance ==
    \A i \in DOMAIN routing_table_ : \A n \in ToSet(routing_table_[i]) :
        {bit \in Bit : bit < i - 1} \subseteq n.id

\* No bucket holds a node twice, and only the first, which the constructor
\* makes, can be empty: a bucket is made for the node that goes into it, and
\* eviction replaces.
BucketsAreSets ==
    \A i \in DOMAIN routing_table_ :
        /\ IsInjective(routing_table_[i])
        /\ i > 1 => routing_table_[i] # <<>>

\* All of a bucket but its front is in the order of the last sign of life: so
\* what is pinged is the oldest node or the one that last replaced another.
RecencyOrder ==
    \A i \in DOMAIN routing_table_ :
        LET bucket == routing_table_[i]
        IN  \A k, l \in 2 .. Len(bucket) : k < l => <<bucket[k], bucket[l]>> \in seen[i]

\* The node has an entry in more than one bucket.
Scattered(n) ==
    \E i, j \in DOMAIN routing_table_ :
        /\ i # j
        /\ n \in ToSet(routing_table_[i]) /\ n \in ToSet(routing_table_[j])

\* An answer is made of nodes of the table, K of them unless there are fewer, and
\* no node of any bucket that is missing from it is closer to the target than one
\* that is in it.  Its nodes are different ones, but for those the table itself
\* has in several buckets: each of these may take as many places of the answer,
\* and then it names fewer than K nodes while others are missing.
ClosestAnswered ==
    LET known == UNION {ToSet(routing_table_[i]) : i \in DOMAIN routing_table_}
    IN  \A target \in NodeID :
           LET answer  == FindClosest(target)
               missing == known \ ToSet(answer)
           IN  /\ ToSet(answer) \subseteq known /\ Len(answer) <= K
               /\ missing # {} => Len(answer) = K
               /\ \A k, l \in DOMAIN answer :
                     k # l /\ answer[k] = answer[l] => Scattered(answer[k])
               /\ \A n \in missing, m \in ToSet(answer) : ~Closer(n, m, target)

\* A peer whose announcement was acknowledged is in every later answer to
\* get_peers, whoever else announces the same torrent.
AckedIsServed ==
    \A entry \in acked : \A answer \in GetPeersAnswers(entry[1]) :
        entry[2] \in ToSet(answer)

\* Bootstrapping ends, whichever requests, replies and pings are lost.
BootstrapEnds == <>serving
=============================================================================
