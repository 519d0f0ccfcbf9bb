-------------------------- MODULE PeerTableProofs --------------------------
(***************************************************************************)
(* Theorems about PeerTable, for all connections, descriptors and streams: *)
(* a connection that never shared its number with another one keeps its    *)
(* descriptor and its entry to the end, gives both back, and its stream    *)
(* and its queue stay in order.                                            *)
(*                                                                         *)
(* The lemmas on the descriptors speak of kinds of steps (quiet, opening,  *)
(* closing, entering), whatever the code is that takes them: the proofs    *)
(* about PeerServer and Driver cite them for the steps of their own.       *)
(***************************************************************************)
EXTENDS PeerTable, SequenceTheorems, TLAPS

-----------------------------------------------------------------------------
(* The inductive invariant                                                 *)

\* c's connection has no descriptor: not yet, or not any more.
Over(c) == \/ caller[c] \in {"start", "failed", "catch", "gone", "stale"}
           \/ reader[c].pc = "done" \/ writer[c].pc = "done"

\* c was entered in the map, and none of its own has erased that.
HasEntry(c) == /\ caller[c] \in {"handshake", "message", "extra", "thrown", "spawn", "up",
                                  "serving", "unwind", "stale"}
               /\ reader[c].pc # "done" /\ writer[c].pc # "done"

\* Descriptors come with the call, threads with its end.
Control == \A c \in Conn :
    /\ (caller[c] = "start") <=> (fd[c] = NoSock)
    /\ (reader[c].pc = "none") <=> (caller[c] \notin {"up", "serving"})
    /\ (writer[c].pc = "none") <=> (caller[c] # "up")

\* Whoever has a descriptor, or an entry, has it under the number it was given,
\* and did not give it back.
Owned == \A c \in Conn, s \in Sock :
    /\ owner[s] = c => fd[c] = s /\ ~Over(c)
    /\ peers[s] = c => fd[c] = s /\ HasEntry(c)

\* The number c was given still means something: to its call and its threads, to
\* the operating system, or in the map.
Bound(c) == Using(c) \/ (fd[c] # NoSock /\ owner[fd[c]] = c) \/ Registered(c)

\* If the same number means something to two, both are known to share.
InHand == \A c, d \in Conn :
    c # d /\ fd[c] = fd[d] /\ Bound(c) /\ Bound(d) => c \in shared /\ d \in shared

\* Who shares with nobody has its descriptor, and its entry, until it is over.
Held == \A c \in Sole :
    ~Over(c) => /\ owner[fd[c]] = c
                /\ HasEntry(c) => peers[fd[c]] = c

Descriptors == TypeOK /\ Control /\ Owned /\ InHand /\ Held

\* Nobody cleans up before the remote has closed.
Torn == \A c \in Sole :
    stream[c].open => /\ reader[c].pc \notin {"cleanup", "done"}
                      /\ writer[c].pc \notin {"cleanup", "done"}

\* In PeerTable and Driver all connections are made by connectToPeer.
Dialing == \A c \in Conn :
    caller[c] \in {"start", "connect", "register", "handshake", "message",
                   "extra", "thrown", "spawn", "up", "failed"}

\* Threads carry something only between taking it and putting it down.
Hands == \A c \in Conn :
    /\ reader[c].pc # "append" => reader[c].hand = <<>>
    /\ writer[c].pc # "send" => writer[c].hand = <<>>

\* What was appended for c and what is about to be.
Incoming(c) == conn[c].input \o reader[c].hand

\* The items are a part of c's stream and end with the last-th.
UpTo(c, items, last) ==
    \A i \in 1 .. Len(items) : items[i] = <<c, last - Len(items) + i>>

\* It is the part of the stream that ends with the last item received.
InOrder(c) == UpTo(c, Incoming(c), stream[c].taken)

\* This is so, and before its threads start a connection has no input.
InputOrder == \A c \in Sole :
    /\ caller[c] \notin {"up", "serving"} => conn[c].input = <<>>
    /\ HasEntry(c) /\ ~Over(c) => InOrder(c)

\* The first n messages queued for c.
QueueOf(c, n) == [i \in 1 .. n |-> <<c, i>>]

\* What c was sent, what is on the way and what is in the buffer.
Whole(c) == (stream[c].wire \o writer[c].hand) \o conn[c].output

\* It is all that was queued, and c was sent the first of it.
OutputOrder == \A c \in Sole :
    /\ Len(stream[c].wire) <= conn[c].queued
    /\ \A i \in 1 .. Len(stream[c].wire) : stream[c].wire[i] = <<c, i>>
    /\ writer[c].pc \in {"none", "poll", "send"} => Whole(c) = QueueOf(c, conn[c].queued)

TableInv == Descriptors /\ Dialing /\ Torn /\ Hands /\ InputOrder /\ OutputOrder

\* Parts of TypeOK.
Readers == [pc : {"none", "recv", "append", "cleanup", "done"}, hand : Seq(Item)]
Writers == [pc : {"none", "poll", "send", "cleanup", "done"}, hand : Seq(Message)]
Conns == [input : Seq(Item), output : Seq(Message), queued : 0 .. MaxOut]
CallerPc == {"start", "connect", "register", "handshake", "message", "extra", "thrown",
             "spawn", "up", "failed", "accepted", "valid", "invalid", "catch", "known",
             "serving", "unwind", "gone", "stale"}
StreamOK == /\ stream \in [Conn -> [sent : 0 .. MaxItems, taken : 0 .. MaxItems,
                                    wire : Seq(Message), open : BOOLEAN]]
            /\ \A c \in Conn : stream[c].taken <= stream[c].sent

\* A step that leaves d's descriptor as it is.
Unchanged(d) == /\ Over(d)' <=> Over(d)
                /\ HasEntry(d)' <=> HasEntry(d)
                /\ Using(d)' => Using(d)

\* A step that opens, closes and enters nothing.
Quiet == UNCHANGED <<owner, peers, fd, shared>> /\ \A d \in Conn : Unchanged(d)

\* A step that closes c's descriptor, erases its entry if it may have one, and
\* ends nobody's connection but c's.
Closing(c) ==
    /\ Using(c) /\ caller[c] # "start"
    /\ owner' = [owner EXCEPT ![fd[c]] = NoConn]
    /\ \/ peers' = peers /\ (HasEntry(c) => HasEntry(c)')
       \/ peers' = [peers EXCEPT ![fd[c]] = NoConn]
    /\ UNCHANGED <<fd, shared>>
    /\ Over(c)' /\ \A d \in Conn \ {c} : Unchanged(d)

-----------------------------------------------------------------------------
(* Descriptors, by kinds of steps                                          *)

\* A connection that is not over was given its number.
LEMMA Given ==
    ASSUME TypeOK, Control, NEW c \in Conn, ~Over(c)
    PROVE  caller[c] # "start" /\ fd[c] \in Sock
  BY DEF TypeOK, Control, Over

\* To one that shares with nobody, the number still means something.
LEMMA OpenIsBound ==
    ASSUME TypeOK, Control, Held, NEW c \in Sole, ~Over(c)
    PROVE  Bound(c) /\ fd[c] \in Sock
<1>1. c \in Conn /\ owner[fd[c]] = c
  BY DEF Held, Sole
<1> QED BY <1>1, Given, TableAssumption DEF Bound

\* Who is found under a number, that number means something to.
LEMMA FoundIsBound ==
    ASSUME Owned, NEW c \in Conn, NEW s \in Sock, owner[s] = c \/ peers[s] = c
    PROVE  Bound(c) /\ fd[c] = s
<1>1. fd[c] = s
  BY DEF Owned
<1> QED BY <1>1, TableAssumption DEF Bound, Registered

\* A connection that shares with nobody is alone with its descriptor.
LEMMA Exclusive ==
    ASSUME InHand, NEW c \in Sole, NEW d \in Conn,
           Bound(c), Bound(d), fd[c] = fd[d]
    PROVE  d = c
  BY DEF InHand, Sole

\* A quiet step keeps the descriptors in order.
LEMMA QuietStep ==
    ASSUME Descriptors, Quiet
    PROVE  Owned' /\ InHand' /\ Held'
<1> USE DEF Quiet, Unchanged
<1>1. Owned'
  BY DEF Descriptors, Owned
<1>2. InHand'
  <2>1. \A d \in Conn : Bound(d)' => Bound(d)
    BY DEF Bound, Registered
  <2> QED BY <2>1 DEF Descriptors, InHand
<1>3. Held'
  BY DEF Descriptors, Held, Sole
<1> QED BY <1>1, <1>2, <1>3

\* So does a step that closes: rejected connections and both cleanups.
LEMMA ClosingStep ==
    ASSUME Descriptors, NEW c \in Conn, Closing(c)
    PROVE  Owned' /\ InHand' /\ Held'
<1>1. TypeOK /\ Control /\ Owned /\ InHand /\ Held
  BY DEF Descriptors
<1>2. /\ Using(c) /\ caller[c] # "start" /\ Over(c)'
      /\ owner' = [owner EXCEPT ![fd[c]] = NoConn]
      /\ \/ peers' = peers /\ (HasEntry(c) => HasEntry(c)')
         \/ peers' = [peers EXCEPT ![fd[c]] = NoConn]
      /\ fd' = fd /\ shared' = shared
  BY DEF Closing
<1>3. \A d \in Conn \ {c} : Unchanged(d)
  BY DEF Closing
<1>4. fd[c] \in Sock
  BY <1>1, <1>2 DEF Control, TypeOK
<1>5. Owned'
  <2>1. ASSUME NEW d \in Conn, NEW s \in Sock, owner'[s] = d
        PROVE  fd'[d] = s /\ ~Over(d)'
    <3>1. s # fd[c] /\ owner[s] = d
      BY <1>1, <1>2, <1>4, <2>1, TableAssumption DEF TypeOK
    <3>2. fd[d] = s /\ ~Over(d)
      BY <1>1, <3>1 DEF Owned
    <3>3. d # c
      BY <3>1, <3>2
    <3> QED BY <1>2, <1>3, <3>2, <3>3 DEF Unchanged
  <2>2. ASSUME NEW d \in Conn, NEW s \in Sock, peers'[s] = d
        PROVE  fd'[d] = s /\ HasEntry(d)'
    <3>1. /\ peers[s] = d
          /\ s # fd[c] \/ (HasEntry(c) => HasEntry(c)')
      BY <1>1, <1>2, <1>4, <2>2, TableAssumption DEF TypeOK
    <3>2. fd[d] = s /\ HasEntry(d)
      BY <1>1, <3>1 DEF Owned
    <3>3. CASE d = c
      BY <1>2, <3>1, <3>2, <3>3
    <3>4. CASE d # c
      BY <1>2, <1>3, <3>2, <3>4 DEF Unchanged
    <3> QED BY <3>3, <3>4
  <2> QED BY <2>1, <2>2 DEF Owned
<1>6. InHand'
  <2>1. \A d \in Conn : Using(d)' => Using(d)
    BY <1>2, <1>3 DEF Unchanged
  <2>2. \A s \in Sock : /\ owner'[s] \in {owner[s], NoConn}
                       /\ peers'[s] \in {peers[s], NoConn}
    BY <1>1, <1>2, <1>4 DEF TypeOK
  <2>3. ASSUME NEW d \in Conn, Bound(d)'
        PROVE  Bound(d)
    <3>1. CASE Using(d)'
      BY <2>1, <3>1 DEF Bound
    <3>2. CASE ~Using(d)'
      <4>1. fd[d] \in Sock /\ (owner'[fd[d]] = d \/ peers'[fd[d]] = d)
        BY <1>1, <1>2, <2>3, <3>2 DEF Bound, Registered, TypeOK
      <4>2. owner[fd[d]] = d \/ peers[fd[d]] = d
        BY <2>2, <4>1, TableAssumption
      <4> QED BY <1>1, <4>1, <4>2, FoundIsBound
    <3> QED BY <3>1, <3>2
  <2> QED BY <1>1, <1>2, <2>3 DEF InHand
<1>7. ASSUME NEW d \in Sole, ~Over(d)'
      PROVE  owner'[fd'[d]] = d /\ (HasEntry(d)' => peers'[fd'[d]] = d)
  <2>1. d \in Conn /\ d # c
    BY <1>2, <1>7 DEF Sole
  <2>2. ~Over(d) /\ (HasEntry(d)' => HasEntry(d))
    BY <1>3, <1>7, <2>1 DEF Unchanged
  <2>3. Bound(d) /\ fd[d] \in Sock
    BY <1>1, <2>2, OpenIsBound
  <2>4. fd[d] # fd[c]
    BY <1>1, <1>2, <2>1, <2>3, Exclusive DEF Bound
  <2>5. owner'[fd[d]] = owner[fd[d]] /\ peers'[fd[d]] = peers[fd[d]]
    BY <1>1, <1>2, <1>4, <2>3, <2>4 DEF TypeOK
  <2> QED BY <1>1, <1>2, <2>2, <2>5 DEF Held
<1>8. Held'
  BY <1>2, <1>7 DEF Held, Sole
<1> QED BY <1>5, <1>6, <1>8

\* A step in which the operating system hands out a free descriptor.  Whoever
\* else the number means something to is in `shared` from then on.
LEMMA OpeningStep ==
    ASSUME Descriptors, NEW c \in Conn, NEW s \in Sock,
           caller[c] = "start", owner[s] = NoConn,
           owner' = [owner EXCEPT ![s] = c], fd' = [fd EXCEPT ![c] = s],
           Share(c, s),
           peers' = peers,
           ~Over(c)', ~HasEntry(c)',
           \A d \in Conn \ {c} : Unchanged(d)
    PROVE  Owned' /\ InHand' /\ Held'
<1>1. TypeOK /\ Control /\ Owned /\ InHand /\ Held
  BY DEF Descriptors
<1>2. fd[c] = NoSock /\ Over(c)
  BY <1>1 DEF Control, Over
<1>3. fd'[c] = s /\ owner'[s] = c /\ \A d \in Conn \ {c} : fd'[d] = fd[d]
  BY <1>1 DEF TypeOK
<1>4. Owned'
  <2>1. ASSUME NEW d \in Conn, NEW t \in Sock, owner'[t] = d
        PROVE  fd'[d] = t /\ ~Over(d)'
    <3>1. CASE t = s
      BY <1>3, <2>1, <3>1
    <3>2. CASE t # s
      <4>1. owner[t] = d
        BY <1>1, <2>1, <3>2 DEF TypeOK
      <4>2. fd[d] = t /\ ~Over(d)
        BY <1>1, <4>1 DEF Owned
      <4>3. d # c
        BY <1>2, <4>2
      <4> QED BY <1>3, <4>2, <4>3 DEF Unchanged
    <3> QED BY <3>1, <3>2
  <2>2. ASSUME NEW d \in Conn, NEW t \in Sock, peers'[t] = d
        PROVE  fd'[d] = t /\ HasEntry(d)'
    <3>1. fd[d] = t /\ HasEntry(d)
      BY <1>1, <2>2 DEF Owned
    <3>2. d # c
      BY <1>2, <3>1, TableAssumption
    <3> QED BY <1>3, <3>1, <3>2 DEF Unchanged
  <2> QED BY <2>1, <2>2 DEF Owned
<1>5. shared \subseteq shared'
  BY DEF Share
<1>6. ASSUME NEW d \in Conn, d # c, Bound(d)', fd'[d] = s
      PROVE  c \in shared' /\ d \in shared'
  <2>1. Using(d) \/ Registered(d)
    BY <1>1, <1>3, <1>6, TableAssumption DEF Unchanged, Bound, Registered
  <2> QED BY <1>3, <1>6, <2>1 DEF Share, Rivals
<1>7. InHand'
  <2>1. \A d \in Conn \ {c} : fd[d] # NoSock => fd[d] \in Sock
    BY <1>1 DEF TypeOK
  <2>2. \A d \in Conn \ {c} : Bound(d)' => Bound(d)
    BY <1>1, <1>3, <2>1 DEF Unchanged, Bound, Registered, TypeOK
  <2> QED BY <1>1, <1>3, <1>5, <1>6, <2>2 DEF InHand
<1>8. ASSUME NEW d \in Sole', ~Over(d)'
      PROVE  owner'[fd'[d]] = d /\ (HasEntry(d)' => peers'[fd'[d]] = d)
  <2>1. CASE d = c
    BY <1>3, <2>1
  <2>2. CASE d # c
    <3>1. d \in Conn /\ d \in Sole
      BY <1>5, <1>8 DEF Sole
    <3>2. ~Over(d) /\ (HasEntry(d)' => HasEntry(d))
      BY <1>8, <2>2, <3>1 DEF Unchanged
    <3>3. fd[d] \in Sock /\ owner[fd[d]] = d
      BY <1>1, <3>1, <3>2, Given DEF Held
    <3>4. fd[d] # s
      BY <3>1, <3>3, TableAssumption
    <3>5. fd'[d] = fd[d] /\ owner'[fd[d]] = owner[fd[d]]
      BY <1>1, <1>3, <2>2, <3>1, <3>3, <3>4 DEF TypeOK
    <3> QED BY <1>1, <3>1, <3>2, <3>3, <3>5 DEF Held
  <2> QED BY <2>1, <2>2
<1>9. Held'
  BY <1>8 DEF Held
<1> QED BY <1>4, <1>7, <1>9

\* A step that writes c's entry into the map.
LEMMA EnteringStep ==
    ASSUME Descriptors, NEW c \in Conn, ~Over(c), Using(c),
           peers' = [peers EXCEPT ![fd[c]] = c],
           UNCHANGED <<owner, fd, shared>>,
           ~Over(c)', HasEntry(c)', Using(c)',
           \A d \in Conn \ {c} : Unchanged(d)
    PROVE  Owned' /\ InHand' /\ Held'
<1>1. TypeOK /\ Control /\ Owned /\ InHand /\ Held
  BY DEF Descriptors
<1>2. fd[c] \in Sock /\ c \in Conn
  BY <1>1, Given
<1>3. /\ peers'[fd[c]] = c
      /\ \A s \in Sock : s # fd[c] => peers'[s] = peers[s]
  BY <1>1, <1>2 DEF TypeOK
<1>4. Owned'
  <2>1. ASSUME NEW d \in Conn, NEW s \in Sock, owner'[s] = d
        PROVE  fd'[d] = s /\ ~Over(d)'
    <3>1. fd[d] = s /\ ~Over(d)
      BY <1>1, <2>1 DEF Owned
    <3>2. CASE d = c
      BY <3>1, <3>2
    <3>3. CASE d # c
      BY <3>1, <3>3 DEF Unchanged
    <3> QED BY <3>2, <3>3
  <2>2. ASSUME NEW d \in Conn, NEW s \in Sock, peers'[s] = d
        PROVE  fd'[d] = s /\ HasEntry(d)'
    <3>1. CASE d = c
      <4>1. CASE s # fd[c]
        BY <1>1, <1>3, <2>2, <3>1, <4>1 DEF Owned
      <4> QED BY <3>1, <4>1
    <3>2. CASE d # c
      <4>1. peers[s] = d
        BY <1>3, <2>2, <3>2
      <4>2. fd[d] = s /\ HasEntry(d)
        BY <1>1, <4>1 DEF Owned
      <4> QED BY <3>2, <4>2 DEF Unchanged
    <3> QED BY <3>1, <3>2
  <2> QED BY <2>1, <2>2 DEF Owned
<1>5. InHand'
  <2>1. \A d \in Conn \ {c} : Bound(d)' => Bound(d)
    BY <1>1, <1>3 DEF Unchanged, Bound, Registered, TypeOK
  <2>2. Bound(c)
    BY DEF Bound
  <2> QED BY <1>1, <2>1, <2>2 DEF InHand
<1>6. ASSUME NEW d \in Sole, ~Over(d)'
      PROVE  owner'[fd'[d]] = d /\ (HasEntry(d)' => peers'[fd'[d]] = d)
  <2>1. CASE d = c
    BY <1>1, <1>3, <2>1 DEF Held
  <2>2. CASE d # c
    <3>1. d \in Conn
      BY DEF Sole
    <3>2. ~Over(d) /\ (HasEntry(d)' => HasEntry(d))
      BY <1>6, <2>2, <3>1 DEF Unchanged
    <3>3. Bound(d) /\ fd[d] \in Sock
      BY <1>1, <3>2, OpenIsBound
    <3>4. fd[d] # fd[c]
      BY <1>1, <2>2, <3>3, Exclusive DEF Bound
    <3> QED BY <1>1, <1>3, <3>2, <3>3, <3>4 DEF Held
  <2> QED BY <2>1, <2>2
<1>7. Held'
  BY <1>6 DEF Held, Sole
<1> QED BY <1>4, <1>5, <1>7

-----------------------------------------------------------------------------
(* Descriptors, by actions                                                 *)

\* recv() takes no more from a socket than is waiting there.
LEMMA ReceivesTyped ==
    ASSUME TypeOK, NEW s \in Sock, NEW n, Receives(s, n)
    PROVE  StreamOK' /\ owner[s] \in Conn /\ n \in 1 .. MaxItems
           /\ stream[owner[s]].taken + n <= MaxItems
<1> DEFINE o == owner[s]
<1>1. /\ o \in Conn /\ n \in 1 .. stream[o].sent - stream[o].taken
      /\ stream' = [stream EXCEPT ![o].taken = @ + n]
  BY DEF Receives, Waiting, TypeOK
<1>2. /\ stream[o] \in [sent : 0 .. MaxItems, taken : 0 .. MaxItems,
                        wire : Seq(Message), open : BOOLEAN]
  BY <1>1 DEF TypeOK
<1> HIDE DEF o
<1>3. n \in 1 .. MaxItems /\ stream[o].taken + n \in 0 .. stream[o].sent
      /\ stream[o].taken + n \in 0 .. MaxItems
  BY <1>1, <1>2, TableAssumption
<1>4. stream' = [stream EXCEPT ![o] = [stream[o] EXCEPT !.taken = stream[o].taken + n]]
  BY <1>1, <1>2 DEF TypeOK
<1>5. [stream[o] EXCEPT !.taken = stream[o].taken + n]
        \in {r \in [sent : 0 .. MaxItems, taken : 0 .. MaxItems,
                    wire : Seq(Message), open : BOOLEAN] : r.taken <= r.sent}
  BY <1>2, <1>3
<1>6. StreamOK'
  <2> DEFINE R == {r \in [sent : 0 .. MaxItems, taken : 0 .. MaxItems,
                          wire : Seq(Message), open : BOOLEAN] : r.taken <= r.sent}
             new == [stream[o] EXCEPT !.taken = stream[o].taken + n]
  <2>1. \A d \in Conn : stream[d] \in R
    BY DEF TypeOK
  <2>2. stream \in [Conn -> R]
    BY <2>1 DEF TypeOK
  <2>3. new \in R /\ stream' = [stream EXCEPT ![o] = new]
    BY <1>4, <1>5
  <2> HIDE DEF R, new
  <2>4. stream' \in [Conn -> R]
    BY <1>1, <2>2, <2>3
  <2> QED BY <2>4 DEF StreamOK, R
<1> QED BY <1>1, <1>3, <1>6 DEF o

\* The streams keep their types, whatever was received.
LEMMA ReadsTyped ==
    ASSUME TypeOK, NEW s \in Sock,
           (\E n : Receives(s, n)) \/ UNCHANGED stream
    PROVE  StreamOK'
<1>1. CASE \E n : Receives(s, n)
  BY <1>1, ReceivesTyped
<1>2. CASE UNCHANGED stream
  BY <1>2 DEF StreamOK, TypeOK
<1> QED BY <1>1, <1>2

\* A call that moves on leaves the other connections as they are.
LEMMA CallerGoes ==
    ASSUME TypeOK, NEW c \in Conn, NEW pc \in CallerPc,
           caller' = [caller EXCEPT ![c] = pc], UNCHANGED <<reader, writer>>
    PROVE  /\ caller' \in [Conn -> CallerPc] /\ caller'[c] = pc
           /\ \A d \in Conn \ {c} : caller'[d] = caller[d] /\ Unchanged(d)
<1>1. /\ caller' \in [Conn -> CallerPc] /\ caller'[c] = pc
      /\ \A d \in Conn \ {c} : caller'[d] = caller[d]
  BY DEF TypeOK, CallerPc
<1>2. reader' = reader /\ writer' = writer
  OBVIOUS
<1>3. \A d \in Conn \ {c} : Unchanged(d)
  BY <1>1, <1>2 DEF Unchanged, Over, HasEntry, Using
<1> QED BY <1>1, <1>3

\* An input thread that moves on keeps what it has in hand.
LEMMA ReaderGoes ==
    ASSUME TypeOK, NEW c \in Conn,
           NEW pc \in {"none", "recv", "append", "cleanup", "done"},
           reader' = Goto(reader, c, pc)
    PROVE  /\ reader' \in [Conn -> Readers]
           /\ reader'[c].pc = pc /\ reader'[c].hand = reader[c].hand
           /\ \A d \in Conn \ {c} : reader'[d] = reader[d]
<1>1. reader \in [Conn -> Readers]
  BY DEF TypeOK, Readers
<1>2. [reader[c] EXCEPT !.pc = pc] \in Readers
      /\ [reader[c] EXCEPT !.pc = pc].pc = pc
      /\ [reader[c] EXCEPT !.pc = pc].hand = reader[c].hand
  BY <1>1 DEF Readers
<1>3. reader' = [reader EXCEPT ![c] = [reader[c] EXCEPT !.pc = pc]]
  BY DEF Goto
<1> QED BY <1>1, <1>2, <1>3

\* An output thread that moves on keeps what it has in hand.
LEMMA WriterGoes ==
    ASSUME TypeOK, NEW c \in Conn,
           NEW pc \in {"none", "poll", "send", "cleanup", "done"},
           writer' = Goto(writer, c, pc)
    PROVE  /\ writer' \in [Conn -> Writers]
           /\ writer'[c].pc = pc /\ writer'[c].hand = writer[c].hand
           /\ \A d \in Conn \ {c} : writer'[d] = writer[d]
<1>1. writer \in [Conn -> Writers]
  BY DEF TypeOK, Writers
<1>2. [writer[c] EXCEPT !.pc = pc] \in Writers
      /\ [writer[c] EXCEPT !.pc = pc].pc = pc
      /\ [writer[c] EXCEPT !.pc = pc].hand = writer[c].hand
  BY <1>1 DEF Writers
<1>3. writer' = [writer EXCEPT ![c] = [writer[c] EXCEPT !.pc = pc]]
  BY DEF Goto
<1> QED BY <1>1, <1>2, <1>3

\* A function on 1 .. n is a sequence of length n.
LEMMA SeqFromFunction ==
    ASSUME NEW S, NEW n \in Nat, NEW f \in [1 .. n -> S]
    PROVE  f \in Seq(S) /\ Len(f) = n
<1>1. f \in Seq(S)
  BY SeqDef
<1>2. DOMAIN f = 1 .. Len(f) /\ Len(f) \in Nat
  BY <1>1, LenProperties
<1> QED BY <1>1, <1>2

\* connectToPeer keeps the descriptors in order.
LEMMA ConnectStep ==
    ASSUME Descriptors, NEW c \in Conn, ConnectToPeer(c)
    PROVE  Descriptors'
<1> USE TableAssumption DEF Descriptors
<1>1. CASE OpenSocket(c)
  <2>1. PICK s \in Sock : /\ owner[s] = NoConn
                         /\ owner' = [owner EXCEPT ![s] = c]
                         /\ fd' = [fd EXCEPT ![c] = s]
                         /\ Share(c, s)
    BY <1>1 DEF OpenSocket
  <2>2. TypeOK'
    BY <1>1, <2>1 DEF OpenSocket, TypeOK, Share, Rivals
  <2>3. Control'
    BY <1>1, <2>1 DEF OpenSocket, TypeOK, Control
  <2>4. /\ caller[c] = "start" /\ "connect" \in CallerPc
        /\ caller' = [caller EXCEPT ![c] = "connect"] /\ UNCHANGED <<reader, writer>>
    BY <1>1 DEF OpenSocket, CallerPc
  <2>5. caller'[c] = "connect" /\ \A d \in Conn \ {c} : Unchanged(d)
    BY <2>4, CallerGoes
  <2>6. ~Over(c)' /\ ~HasEntry(c)'
    BY <2>4, <2>5 DEF Control, Over, HasEntry
  <2> QED BY <1>1, <2>1, <2>2, <2>3, <2>5, <2>6, OpeningStep DEF OpenSocket
<1>2. CASE ConnectFails(c)
  <2>1. TypeOK' /\ Control'
    BY <1>2 DEF ConnectFails, CloseSocket, TypeOK, Control, world
  <2>2. /\ Using(c) /\ Over(c)' /\ ~HasEntry(c) 
        /\ \A d \in Conn \ {c} : Unchanged(d)
    BY <1>2 DEF ConnectFails, TypeOK, Over, HasEntry, Using, Idle, Unchanged
  <2> QED BY <1>2, <2>1, <2>2, ClosingStep DEF ConnectFails, CloseSocket, Closing, world
<1>3. CASE ConnectSucceeds(c)
  <2>1. TypeOK' /\ Control'
    BY <1>3 DEF ConnectSucceeds, TypeOK, Control, world
  <2>2. \A d \in Conn : Unchanged(d)
    BY <1>3 DEF ConnectSucceeds, TypeOK, Over, HasEntry, Using, Idle, Unchanged
  <2> QED BY <1>3, <2>1, <2>2, QuietStep DEF ConnectSucceeds, Quiet, world
<1>4. CASE Register(c)
  <2>1. TypeOK' /\ Control'
    BY <1>4 DEF Register, TypeOK, Control, world
  <2>2. ~Over(c) /\ Using(c) /\ ~Over(c)' /\ HasEntry(c)' /\ Using(c)'
    BY <1>4 DEF Register, TypeOK, Control, Over, HasEntry, Using, Idle
  <2>3. \A d \in Conn \ {c} : Unchanged(d)
    BY <1>4 DEF Register, TypeOK, Over, HasEntry, Using, Unchanged
  <2> QED BY <1>4, <2>1, <2>2, <2>3, EnteringStep DEF Register, world
<1>5. CASE Handshake(c)
  <2>1. fd[c] \in Sock
    BY <1>5 DEF Handshake, Control, TypeOK
  <2>2. StreamOK'
    BY <1>5, <2>1, ReadsTyped DEF Handshake
  <2>3. PICK pc \in {"message", "spawn"} :
          caller[c] = "handshake" /\ caller' = [caller EXCEPT ![c] = pc]
    BY <1>5 DEF Handshake
  <2>4. UNCHANGED <<owner, peers, fd, reader, writer, conn, seeders, shared, alive>>
    BY <1>5 DEF Handshake, world
  <2>5. /\ caller' \in [Conn -> CallerPc] /\ caller'[c] = pc
        /\ \A d \in Conn \ {c} : caller'[d] = caller[d] /\ Unchanged(d)
    BY <2>3, <2>4, CallerGoes DEF CallerPc
  <2>6. TypeOK'
    BY <2>2, <2>4, <2>5 DEF StreamOK, CallerPc, TypeOK
  <2>7. Control' /\ Unchanged(c)
    BY <2>3, <2>4, <2>5 DEF Control, Over, HasEntry, Using, Idle, Unchanged
  <2> QED BY <2>4, <2>5, <2>6, <2>7, QuietStep DEF Quiet
<1>6. CASE FirstMessage(c)
  <2>1. fd[c] \in Sock
    BY <1>6 DEF FirstMessage, Control, TypeOK
  <2>2. StreamOK'
    BY <1>6, <2>1, ReadsTyped DEF FirstMessage
  <2>3. /\ alive' \in BOOLEAN
        /\ \/ caller' = caller
           \/ \E pc \in {"extra", "spawn"} : caller' = [caller EXCEPT ![c] = pc]
    BY <1>6 DEF FirstMessage, DispatchFirstMessage, TypeOK
  <2>4. /\ caller[c] = "message"
        /\ UNCHANGED <<owner, peers, fd, reader, writer, conn, seeders, shared>>
    BY <1>6 DEF FirstMessage
  <2>5. /\ caller' \in [Conn -> CallerPc] /\ caller'[c] \in {"message", "extra", "spawn"}
        /\ \A d \in Conn \ {c} : caller'[d] = caller[d] /\ Unchanged(d)
    <3>1. CASE caller' = caller
      BY <2>4, <3>1 DEF TypeOK, CallerPc, Unchanged, Over, HasEntry, Using
    <3>2. ASSUME NEW pc \in {"extra", "spawn"}, caller' = [caller EXCEPT ![c] = pc]
          PROVE  /\ caller' \in [Conn -> CallerPc] /\ caller'[c] \in {"extra", "spawn"}
                 /\ \A d \in Conn \ {c} : caller'[d] = caller[d] /\ Unchanged(d)
      BY <2>4, <3>2, CallerGoes DEF CallerPc
    <3>3. PICK pc \in {"extra", "spawn"} :
            caller' = caller \/ caller' = [caller EXCEPT ![c] = pc]
      BY <2>3
    <3> QED BY <3>1, <3>2, <3>3
  <2>6. TypeOK'
    BY <2>2, <2>3, <2>4, <2>5 DEF StreamOK, CallerPc, TypeOK
  <2>7. Control' /\ Unchanged(c)
    BY <2>4, <2>5 DEF Control, Over, HasEntry, Using, Idle, Unchanged
  <2> QED BY <2>4, <2>5, <2>6, <2>7, QuietStep DEF Quiet
<1>7. CASE RestOfFirstMessage(c)
  <2>1. fd[c] \in Sock
    BY <1>7 DEF RestOfFirstMessage, Control, TypeOK
  <2>2. StreamOK'
    BY <1>7, <2>1, ReadsTyped DEF RestOfFirstMessage
  <2>3. /\ alive' \in BOOLEAN
        /\ \/ caller' = caller
           \/ \E pc \in {"extra", "spawn"} : caller' = [caller EXCEPT ![c] = pc]
    BY <1>7 DEF RestOfFirstMessage, DispatchFirstMessage, TypeOK
  <2>4. /\ caller[c] = "extra"
        /\ UNCHANGED <<owner, peers, fd, reader, writer, conn, seeders, shared>>
    BY <1>7 DEF RestOfFirstMessage
  <2>5. /\ caller' \in [Conn -> CallerPc] /\ caller'[c] \in {"message", "extra", "spawn"}
        /\ \A d \in Conn \ {c} : caller'[d] = caller[d] /\ Unchanged(d)
    <3>1. CASE caller' = caller
      BY <2>4, <3>1 DEF TypeOK, CallerPc, Unchanged, Over, HasEntry, Using
    <3>2. ASSUME NEW pc \in {"extra", "spawn"}, caller' = [caller EXCEPT ![c] = pc]
          PROVE  /\ caller' \in [Conn -> CallerPc] /\ caller'[c] \in {"extra", "spawn"}
                 /\ \A d \in Conn \ {c} : caller'[d] = caller[d] /\ Unchanged(d)
      BY <2>4, <3>2, CallerGoes DEF CallerPc
    <3>3. PICK pc \in {"extra", "spawn"} :
            caller' = caller \/ caller' = [caller EXCEPT ![c] = pc]
      BY <2>3
    <3> QED BY <3>1, <3>2, <3>3
  <2>6. TypeOK'
    BY <2>2, <2>3, <2>4, <2>5 DEF StreamOK, CallerPc, TypeOK
  <2>7. Control' /\ Unchanged(c)
    BY <2>4, <2>5 DEF Control, Over, HasEntry, Using, Idle, Unchanged
  <2> QED BY <2>4, <2>5, <2>6, <2>7, QuietStep DEF Quiet
<1>8. CASE StartThreads(c)
  <2>1. reader' \in [Conn -> Readers] /\ writer' \in [Conn -> Writers]
    BY <1>8, ReaderGoes, WriterGoes DEF StartThreads
  <2>2. TypeOK'
    BY <1>8, <2>1 DEF StartThreads, TypeOK, world, Readers, Writers
  <2>3. Control'
    BY <1>8 DEF StartThreads, Goto, TypeOK, Control, world
  <2>4. \A d \in Conn : Unchanged(d)
    BY <1>8 DEF StartThreads, Goto, TypeOK, Over, HasEntry, Using, Idle, Unchanged, Control
  <2> QED BY <1>8, <2>2, <2>3, <2>4, QuietStep DEF StartThreads, Quiet, world
<1>9. CASE HandshakeThrows(c)
  <2>1. caller' = [caller EXCEPT ![c] = "thrown"] /\ "thrown" \in CallerPc
    BY <1>9 DEF HandshakeThrows, CallerPc
  <2>2. /\ caller' \in [Conn -> CallerPc] /\ caller'[c] = "thrown"
        /\ \A d \in Conn \ {c} : caller'[d] = caller[d] /\ Unchanged(d)
    BY <1>9, <2>1, CallerGoes DEF HandshakeThrows
  <2>3. TypeOK' /\ Control'
    <3>1. UNCHANGED <<owner, peers, fd, reader, writer, conn, stream, seeders, shared, alive>>
          /\ caller[c] = "extra"
      BY <1>9 DEF HandshakeThrows, world
    <3>2. TypeOK'
      BY <2>2, <3>1 DEF TypeOK, CallerPc
    <3>3. Control'
      BY <2>2, <3>1 DEF Control
    <3> QED BY <3>2, <3>3
  <2>4. Unchanged(c)
    BY <1>9, <2>2 DEF HandshakeThrows, Control, Over, HasEntry, Using, Idle, Unchanged
  <2> QED BY <1>9, <2>2, <2>3, <2>4, QuietStep DEF HandshakeThrows, Quiet, world
<1> QED BY <1>1, <1>2, <1>3, <1>4, <1>5, <1>6, <1>7, <1>8, <1>9 DEF ConnectToPeer

\* handlePeerInput is quiet until it cleans up.
LEMMA InputSteps ==
    ASSUME TypeOK, Control, NEW c \in Conn, InputThread(c)
    PROVE  TypeOK' /\ Control' /\ (Quiet \/ Closing(c))
<1> USE TableAssumption
<1>1. fd[c] \in Sock /\ caller[c] \in {"up", "serving"}
  <2>1. reader[c].pc # "none"
    BY DEF InputThread, InputReceives, InputEnds, InputAppends, InputDies, InputCleanup
  <2>2. caller[c] \in {"up", "serving"}
    BY <2>1 DEF Control
  <2> QED BY <2>2 DEF Control, TypeOK
<1>2. CASE InputReceives(c)
  <2> DEFINE o == owner[fd[c]]
  <2>1. PICK n \in 1 .. MaxItems :
            /\ Receives(fd[c], n)
            /\ reader' = [reader EXCEPT ![c] =
                    [pc |-> "append",
                     hand |-> [i \in 1 .. n |-> <<o, stream[o].taken + i>>]]]
    BY <1>2 DEF InputReceives
  <2>2. StreamOK' /\ o \in Conn /\ stream[o].taken + n <= MaxItems
        /\ stream[o].taken \in Nat
    <3>1. StreamOK' /\ o \in Conn /\ stream[o].taken + n <= MaxItems
      BY <1>1, <2>1, ReceivesTyped
    <3>2. stream[o].taken \in Nat
      BY <3>1 DEF TypeOK
    <3> QED BY <3>1, <3>2
  <2> DEFINE hand == [i \in 1 .. n |-> <<o, stream[o].taken + i>>]
  <2>3. hand \in Seq(Item)
    <3>1. \A i \in 1 .. n : stream[o].taken + i \in 1 .. MaxItems
      BY <2>2
    <3>2. hand \in [1 .. n -> Item]
      BY <2>2, <3>1 DEF Item
    <3> HIDE DEF hand
    <3> QED BY <3>2, SeqFromFunction
  <2> HIDE DEF o, hand
  <2>4. reader' = [reader EXCEPT ![c] = [pc |-> "append", hand |-> hand]]
    BY <2>1 DEF hand, o
  <2>5. TypeOK'
    BY <1>2, <2>2, <2>3, <2>4 DEF InputReceives, StreamOK, TypeOK, world
  <2>6. Control'
    BY <1>1, <1>2, <2>4 DEF InputReceives, TypeOK, Control, world
  <2>7. \A d \in Conn : Unchanged(d)
    BY <1>1, <1>2, <2>4 DEF InputReceives, TypeOK, Over, HasEntry, Using, Idle, Unchanged
  <2> QED BY <1>2, <2>5, <2>6, <2>7 DEF InputReceives, Quiet, world
<1>3. CASE InputEnds(c)
  <2>1. reader' = Goto(reader, c, "cleanup")
    BY <1>3 DEF InputEnds
  <2>2. reader' \in [Conn -> Readers] /\ reader'[c].pc = "cleanup"
        /\ \A d \in Conn \ {c} : reader'[d] = reader[d]
    BY <2>1, ReaderGoes
  <2>3. TypeOK'
    BY <1>3, <2>2 DEF InputEnds, TypeOK, Readers, world
  <2>4. Control'
    BY <1>1, <1>3, <2>2 DEF InputEnds, Control
  <2>5. \A d \in Conn : Unchanged(d)
    BY <1>1, <1>3, <2>2 DEF InputEnds, TypeOK, Over, HasEntry, Using, Idle, Unchanged
  <2> QED BY <1>3, <2>3, <2>4, <2>5 DEF InputEnds, Quiet, world
<1>4. CASE InputAppends(c)
  <2>1. conn' \in [Conn -> [input : Seq(Item), output : Seq(Message), queued : 0 .. MaxOut]]
    <3>1. CASE peers[fd[c]] = NoConn
      BY <1>4, <3>1 DEF InputAppends, TypeOK
    <3>2. CASE peers[fd[c]] # NoConn
      <4> DEFINE o == peers[fd[c]]
      <4>1. o \in Conn /\ conn' = [conn EXCEPT ![o].input = @ \o reader[c].hand]
        BY <1>1, <1>4, <3>2 DEF InputAppends, TypeOK
      <4>2. conn[o] \in Conns /\ reader[c].hand \in Seq(Item)
        BY <4>1 DEF TypeOK, Conns
      <4> DEFINE all == conn[o].input \o reader[c].hand
      <4>3. all \in Seq(Item)
        BY <4>2, ConcatProperties DEF Conns
      <4>4. conn' = [conn EXCEPT ![o] = [conn[o] EXCEPT !.input = all]]
        BY <4>1
      <4> HIDE DEF o, all
      <4>5. [conn[o] EXCEPT !.input = all] \in Conns
        BY <4>2, <4>3 DEF Conns
      <4>6. conn \in [Conn -> Conns] /\ o \in Conn
        BY <4>1 DEF TypeOK, Conns
      <4>7. conn' \in [Conn -> Conns]
        BY <4>4, <4>5, <4>6
      <4> QED BY <4>7 DEF Conns
    <3> QED BY <3>1, <3>2
  <2>2. reader' = [reader EXCEPT ![c] = [pc |-> "recv", hand |-> <<>>]]
        /\ <<>> \in Seq(Item)
    BY <1>4 DEF InputAppends
  <2>3. reader' \in [Conn -> Readers]
    BY <2>2 DEF TypeOK, Readers
  <2>4. TypeOK'
    BY <1>4, <2>1, <2>3 DEF InputAppends, TypeOK, Readers, world
  <2>5. /\ reader[c].pc = "append" /\ reader'[c].pc = "recv"
        /\ \A d \in Conn \ {c} : reader'[d] = reader[d]
        /\ UNCHANGED <<owner, peers, fd, caller, writer, shared>>
    BY <1>4, <2>2 DEF InputAppends, TypeOK, world
  <2>6. Control' /\ \A d \in Conn : Unchanged(d)
    BY <2>5 DEF Control, Over, HasEntry, Using, Idle, Unchanged
  <2> QED BY <2>4, <2>5, <2>6 DEF Quiet
<1>5. CASE InputCleanup(c)
  <2>1. reader' = Goto(reader, c, "done")
    BY <1>5 DEF InputCleanup
  <2>2. reader' \in [Conn -> Readers] /\ reader'[c].pc = "done"
        /\ \A d \in Conn \ {c} : reader'[d] = reader[d]
    BY <2>1, ReaderGoes
  <2>3. TypeOK'
    BY <1>5, <2>2 DEF InputCleanup, CloseSocket, TypeOK, Readers, world
  <2>4. Control'
    BY <1>1, <1>5, <2>2 DEF InputCleanup, Control
  <2>5. Using(c) /\ Over(c)' /\ \A d \in Conn \ {c} : Unchanged(d)
    BY <1>1, <1>5, <2>2 DEF InputCleanup, TypeOK, Over, HasEntry, Using, Idle, Unchanged
  <2> QED BY <1>1, <1>5, <2>3, <2>4, <2>5 DEF InputCleanup, CloseSocket, Closing, world
<1>6. CASE InputDies(c)
  <2>1. TypeOK' /\ Control'
    BY <1>6 DEF InputDies, TypeOK, Control
  <2>2. \A d \in Conn : Unchanged(d)
    BY <1>6 DEF InputDies, Over, HasEntry, Using, Unchanged
  <2> QED BY <1>6, <2>1, <2>2 DEF InputDies, Quiet
<1> QED BY <1>2, <1>3, <1>4, <1>5, <1>6 DEF InputThread

\* handlePeerOutput is quiet until it cleans up.
LEMMA OutputSteps ==
    ASSUME TypeOK, Control, NEW c \in Conn, OutputThread(c)
    PROVE  TypeOK' /\ Control' /\ (Quiet \/ Closing(c))
<1> USE TableAssumption
<1>1. fd[c] \in Sock /\ caller[c] = "up"
  <2>1. writer[c].pc # "none"
    BY DEF OutputThread, OutputTakes, OutputEnds, OutputSends, OutputCleanup
  <2>2. caller[c] = "up"
    BY <2>1 DEF Control
  <2> QED BY <2>2 DEF Control, TypeOK
<1>2. CASE OutputTakes(c)
  <2> DEFINE o == peers[fd[c]]
  <2>1. /\ o \in Conn
        /\ writer' = [writer EXCEPT ![c] = [pc |-> "send", hand |-> conn[o].output]]
        /\ conn' = [conn EXCEPT ![o].output = <<>>]
    BY <1>1, <1>2 DEF OutputTakes, TypeOK
  <2>2. conn[o].output \in Seq(Message) /\ <<>> \in Seq(Message)
    <3>1. conn[o] \in [input : Seq(Item), output : Seq(Message), queued : 0 .. MaxOut]
      BY <2>1 DEF TypeOK
    <3> QED BY <3>1, EmptySeq
  <2> HIDE DEF o
  <2>3. writer' \in [Conn -> Writers] /\ writer'[c].pc = "send"
        /\ \A d \in Conn \ {c} : writer'[d] = writer[d]
    BY <2>1, <2>2 DEF TypeOK, Writers
  <2>4. conn[o] \in Conns
    BY <2>1 DEF TypeOK, Conns
  <2>5. [conn[o] EXCEPT !.output = <<>>] \in Conns
    BY <2>2, <2>4 DEF Conns
  <2>6. conn' = [conn EXCEPT ![o] = [conn[o] EXCEPT !.output = <<>>]]
    BY <2>1
  <2>7. conn' \in [Conn -> [input : Seq(Item), output : Seq(Message),
                               queued : 0 .. MaxOut]]
    <3>1. conn \in [Conn -> Conns] /\ o \in Conn
      BY <2>1 DEF TypeOK, Conns
    <3>2. conn' \in [Conn -> Conns]
      BY <2>5, <2>6, <3>1
    <3> QED BY <3>2 DEF Conns
  <2>8. TypeOK'
    BY <1>2, <2>3, <2>7 DEF OutputTakes, TypeOK, Writers, world
  <2>9. Control'
    BY <1>1, <1>2, <2>3 DEF OutputTakes, Control
  <2>10. \A d \in Conn : Unchanged(d)
    BY <1>1, <1>2, <2>3 DEF OutputTakes, Over, HasEntry, Using, Idle, Unchanged
  <2> QED BY <1>2, <2>8, <2>9, <2>10 DEF OutputTakes, Quiet, world
<1>3. CASE OutputEnds(c)
  <2>1. writer' = Goto(writer, c, "cleanup")
    BY <1>3 DEF OutputEnds
  <2>2. writer' \in [Conn -> Writers] /\ writer'[c].pc = "cleanup"
        /\ \A d \in Conn \ {c} : writer'[d] = writer[d]
    BY <2>1, WriterGoes
  <2>3. TypeOK'
    BY <1>3, <2>2 DEF OutputEnds, TypeOK, Writers, world
  <2>4. Control'
    BY <1>1, <1>3, <2>2 DEF OutputEnds, Control
  <2>5. \A d \in Conn : Unchanged(d)
    BY <1>1, <1>3, <2>2 DEF OutputEnds, TypeOK, Over, HasEntry, Using, Idle, Unchanged
  <2> QED BY <1>3, <2>3, <2>4, <2>5 DEF OutputEnds, Quiet, world
<1>4. CASE OutputSends(c)
  <2> DEFINE o == owner[fd[c]]
  <2>1. \/ /\ o \in Conn /\ stream' = [stream EXCEPT ![o].wire = @ \o writer[c].hand]
           /\ writer' = [writer EXCEPT ![c] = [pc |-> "poll", hand |-> <<>>]]
        \/ /\ stream' = stream
           /\ writer' = [writer EXCEPT ![c] = [pc |-> "cleanup", hand |-> <<>>]]
    BY <1>1, <1>4 DEF OutputSends, TypeOK
  <2>2. StreamOK'
    <3>1. CASE o \in Conn /\ stream' = [stream EXCEPT ![o].wire = @ \o writer[c].hand]
      <4>1. stream[o].wire \o writer[c].hand \in Seq(Message)
        BY <3>1, ConcatProperties DEF TypeOK
      <4>2. stream[o] \in [sent : 0 .. MaxItems, taken : 0 .. MaxItems,
                           wire : Seq(Message), open : BOOLEAN]
        BY <3>1 DEF TypeOK
      <4> HIDE DEF o
      <4>3. stream' = [stream EXCEPT ![o] = [stream[o] EXCEPT
                                    !.wire = stream[o].wire \o writer[c].hand]]
        BY <3>1
      <4>4. [stream[o] EXCEPT !.wire = stream[o].wire \o writer[c].hand] \in
            {r \in [sent : 0 .. MaxItems, taken : 0 .. MaxItems,
                    wire : Seq(Message), open : BOOLEAN] : r.taken <= r.sent}
        BY <3>1, <4>1, <4>2 DEF TypeOK
      <4>5. o \in Conn
        BY <3>1
      <4> QED BY <4>3, <4>4, <4>5 DEF StreamOK, TypeOK
    <3>2. CASE stream' = stream
      BY <3>2 DEF StreamOK, TypeOK
    <3> QED BY <2>1, <3>1, <3>2
  <2> HIDE DEF o
  <2>3. \E pc \in {"poll", "cleanup"} :
            writer' = [writer EXCEPT ![c] = [pc |-> pc, hand |-> <<>>]]
    BY <2>1
  <2>4. writer' \in [Conn -> Writers] /\ writer'[c].pc \in {"poll", "cleanup"}
        /\ \A d \in Conn \ {c} : writer'[d] = writer[d]
    BY <2>3 DEF TypeOK, Writers
  <2>5. TypeOK'
    BY <1>4, <2>2, <2>4 DEF OutputSends, TypeOK, StreamOK, Writers, world
  <2>6. Control'
    BY <1>1, <1>4, <2>4 DEF OutputSends, Control
  <2>7. \A d \in Conn : Unchanged(d)
    BY <1>1, <1>4, <2>4 DEF OutputSends, TypeOK, Over, HasEntry, Using, Idle, Unchanged
  <2> QED BY <1>4, <2>5, <2>6, <2>7 DEF OutputSends, Quiet, world
<1>5. CASE OutputCleanup(c)
  <2>1. writer' = Goto(writer, c, "done")
    BY <1>5 DEF OutputCleanup
  <2>2. writer' \in [Conn -> Writers] /\ writer'[c].pc = "done"
        /\ \A d \in Conn \ {c} : writer'[d] = writer[d]
    BY <2>1, WriterGoes
  <2>3. TypeOK'
    BY <1>5, <2>2 DEF OutputCleanup, CloseSocket, TypeOK, Writers, world
  <2>4. Control'
    BY <1>1, <1>5, <2>2 DEF OutputCleanup, Control
  <2>5. Using(c) /\ Over(c)' /\ \A d \in Conn \ {c} : Unchanged(d)
    BY <1>1, <1>5, <2>2 DEF OutputCleanup, TypeOK, Over, HasEntry, Using, Idle, Unchanged
  <2> QED BY <1>1, <1>5, <2>3, <2>4, <2>5 DEF OutputCleanup, CloseSocket, Closing, world
<1> QED BY <1>2, <1>3, <1>4, <1>5 DEF OutputThread

\* So the I/O threads keep the descriptors in order.
LEMMA ThreadStep ==
    ASSUME Descriptors, NEW c \in Conn, InputThread(c) \/ OutputThread(c)
    PROVE  Descriptors'
<1>1. TypeOK' /\ Control' /\ (Quiet \/ Closing(c))
  BY InputSteps, OutputSteps DEF Descriptors
<1> QED BY <1>1, QuietStep, ClosingStep DEF Descriptors

\* Who queues a message keeps the descriptors in order.
LEMMA QueueingStep ==
    ASSUME Descriptors, NEW o \in Conn, conn[o].queued < MaxOut,
           conn' = [conn EXCEPT ![o].output = Append(@, <<o, conn[o].queued + 1>>),
                                ![o].queued = @ + 1],
           UNCHANGED <<owner, peers, fd, caller, reader, writer, stream, world>>
    PROVE  Descriptors'
<1> USE TableAssumption DEF Descriptors
<1>1. conn[o] \in [input : Seq(Item), output : Seq(Message), queued : 0 .. MaxOut]
  BY DEF TypeOK
<1>2. conn[o].queued + 1 \in 1 .. MaxOut
  BY <1>1
<1>3. Append(conn[o].output, <<o, conn[o].queued + 1>>) \in Seq(Message)
  BY <1>1, <1>2, AppendProperties DEF Message
<1> DEFINE out == Append(conn[o].output, <<o, conn[o].queued + 1>>)
           entry == [input |-> conn[o].input, output |-> out,
                     queued |-> conn[o].queued + 1]
<1>4. conn' = [conn EXCEPT ![o].output = out, ![o].queued = @ + 1]
  OBVIOUS
<1> HIDE DEF out
<1>5. conn' = [conn EXCEPT ![o] = entry]
  BY <1>1, <1>4 DEF TypeOK
<1>6. entry \in Conns
  BY <1>1, <1>2, <1>3 DEF Conns, out
<1> HIDE DEF entry
<1>7. conn' \in [Conn -> Conns]
  <2>1. conn \in [Conn -> Conns]
    BY DEF TypeOK, Conns
  <2> QED BY <1>5, <1>6, <2>1
<1>8. TypeOK' /\ Control'
  BY <1>7 DEF Conns, TypeOK, Control, world
<1>9. \A d \in Conn : Unchanged(d)
  BY DEF Over, HasEntry, Using, Unchanged
<1> QED BY <1>8, <1>9, QuietStep DEF Quiet, world

\* So do sendRequest and sendPiece.
LEMMA SendStep ==
    ASSUME Descriptors, NEW c \in Conn, SendMessage(c)
    PROVE  Descriptors'
<1> DEFINE o == peers[fd[c]]
<1>1. /\ o \in Conn /\ conn[o].queued < MaxOut
      /\ conn' = [conn EXCEPT ![o].output = Append(@, <<o, conn[o].queued + 1>>),
                              ![o].queued = @ + 1]
      /\ UNCHANGED <<owner, peers, fd, caller, reader, writer, stream, world>>
  BY DEF SendMessage, Descriptors, Control, TypeOK
<1> HIDE DEF o
<1> QED BY <1>1, QueueingStep

\* The remote ends touch nothing but their streams.
LEMMA RemoteSteps ==
    ASSUME TypeOK, Control, NEW c \in Conn, RemoteSends(c) \/ RemoteCloses(c)
    PROVE  TypeOK' /\ Control' /\ Quiet
<1> USE TableAssumption
<1>1. StreamOK'
  <2>1. stream[c] \in [sent : 0 .. MaxItems, taken : 0 .. MaxItems,
                       wire : Seq(Message), open : BOOLEAN]
        /\ stream[c].taken <= stream[c].sent
    BY DEF TypeOK
  <2>2. CASE RemoteSends(c)
    <3>1. stream[c].sent + 1 \in 0 .. MaxItems /\ stream[c].taken <= stream[c].sent + 1
      BY <2>1, <2>2 DEF RemoteSends
    <3>2. stream' = [stream EXCEPT ![c].sent = stream[c].sent + 1]
      BY <2>2 DEF RemoteSends
    <3> QED BY <2>1, <3>1, <3>2 DEF StreamOK, TypeOK
  <2>3. CASE RemoteCloses(c)
    BY <2>1, <2>3 DEF RemoteCloses, StreamOK, TypeOK
  <2> QED BY <2>2, <2>3
<1>2. UNCHANGED <<owner, peers, fd, caller, reader, writer, conn, world>>
  BY DEF RemoteSends, RemoteCloses
<1>3. TypeOK' /\ Control'
  BY <1>1, <1>2 DEF TypeOK, StreamOK, Control, world
<1>4. \A d \in Conn : Unchanged(d)
  BY <1>2 DEF Over, HasEntry, Using, Unchanged
<1> QED BY <1>2, <1>3, <1>4 DEF Quiet, world

\* So they keep the descriptors in order, too.
LEMMA RemoteStep ==
    ASSUME Descriptors, NEW c \in Conn, RemoteSends(c) \/ RemoteCloses(c)
    PROVE  Descriptors'
  BY RemoteSteps, QuietStep DEF Descriptors

-----------------------------------------------------------------------------
(* What a connection finds under its descriptor                            *)

\* Who can take a step of a call or of a thread has the descriptor in hand.
LEMMA ThreadsUse ==
    ASSUME Control, TypeOK, NEW c \in Conn,
           ConnectToPeer(c) \/ InputThread(c) \/ OutputThread(c), caller[c] # "start"
    PROVE  Using(c) /\ fd[c] \in Sock
<1>1. fd[c] \in Sock
  BY DEF Control, TypeOK
<1>2. CASE ConnectToPeer(c)
  BY <1>1, <1>2 DEF ConnectToPeer, OpenSocket, ConnectFails, ConnectSucceeds, Register,
              Handshake, FirstMessage, RestOfFirstMessage, HandshakeThrows, StartThreads, Using, Idle
<1>3. CASE InputThread(c)
  BY <1>1, <1>3 DEF InputThread, InputReceives, InputEnds, InputAppends, InputDies, InputCleanup, Using
<1>4. CASE OutputThread(c)
  BY <1>1, <1>4 DEF OutputThread, OutputTakes, OutputEnds, OutputSends, OutputCleanup, Using
<1> QED BY <1>1, <1>2, <1>3, <1>4

\* Under the descriptor a connection has in hand, it does not find one that
\* shares with nobody, unless that is itself.
LEMMA NotOthers ==
    ASSUME Descriptors, NEW c \in Conn, Using(c), fd[c] \in Sock, NEW d \in Sole, d # c
    PROVE  owner[fd[c]] # d /\ peers[fd[c]] # d
<1>1. ASSUME owner[fd[c]] = d \/ peers[fd[c]] = d
      PROVE  FALSE
  <2>1. Bound(d) /\ fd[d] = fd[c]
    BY <1>1, FoundIsBound DEF Descriptors, Sole
  <2>2. Bound(c)
    BY DEF Bound
  <2> QED BY <2>1, <2>2, Exclusive DEF Descriptors
<1> QED BY <1>1

\* Who once shared a descriptor stays marked.
LEMMA SharedGrows ==
    ASSUME NEW c \in Conn,
           \/ ConnectToPeer(c) \/ InputThread(c) \/ OutputThread(c)
           \/ SendMessage(c) \/ RemoteSends(c) \/ RemoteCloses(c)
    PROVE  shared \subseteq shared'
  BY DEF world, Share, ConnectToPeer, OpenSocket, ConnectFails, ConnectSucceeds, Register,
         Handshake, FirstMessage, RestOfFirstMessage, HandshakeThrows, StartThreads,
         InputThread, InputReceives, InputEnds, InputAppends, InputDies, InputCleanup,
         OutputThread, OutputTakes, OutputEnds, OutputSends, OutputCleanup,
         SendMessage, RemoteSends, RemoteCloses

\* No step of c changes anything of a connection that shares with nobody.
LEMMA Frame ==
    ASSUME Descriptors, NEW c \in Conn,
           \/ ConnectToPeer(c) \/ InputThread(c) \/ OutputThread(c)
           \/ RemoteSends(c) \/ RemoteCloses(c),
           NEW d \in Sole', d # c
    PROVE  /\ d \in Sole
           /\ conn'[d] = conn[d] /\ stream'[d] = stream[d]
           /\ reader'[d] = reader[d] /\ writer'[d] = writer[d]
           /\ caller'[d] = caller[d]
<1> USE DEF Descriptors
<1>1. CASE RemoteSends(c) \/ RemoteCloses(c)
  BY <1>1 DEF RemoteSends, RemoteCloses, TypeOK, Sole, world
<1>2. CASE OpenSocket(c)
  BY <1>2 DEF OpenSocket, Share, TypeOK, Sole
<1>3. CASE ~OpenSocket(c) /\ (ConnectToPeer(c) \/ InputThread(c) \/ OutputThread(c))
  <2>1. caller[c] # "start"
    <3>1. CASE ConnectToPeer(c)
      BY <1>3, <3>1 DEF ConnectToPeer, ConnectFails, ConnectSucceeds, Register,
                 Handshake, FirstMessage, RestOfFirstMessage, HandshakeThrows, StartThreads
    <3>2. CASE InputThread(c)
      BY <3>2 DEF InputThread, InputReceives, InputEnds, InputAppends, InputDies, InputCleanup, Control
    <3>3. CASE OutputThread(c)
      BY <3>3 DEF OutputThread, OutputTakes, OutputEnds, OutputSends, OutputCleanup, Control
    <3> QED BY <1>3, <3>1, <3>2, <3>3
  <2>2. d \in Sole
    BY <1>3 DEF Sole, world, ConnectToPeer, ConnectFails, ConnectSucceeds, Register,
                 Handshake, FirstMessage, RestOfFirstMessage, HandshakeThrows, StartThreads,
                 InputThread, InputReceives, InputEnds, InputAppends, InputDies, InputCleanup,
                 OutputThread, OutputTakes, OutputEnds, OutputSends, OutputCleanup
  <2>3. owner[fd[c]] # d /\ peers[fd[c]] # d
    BY <1>3, <2>1, <2>2, ThreadsUse, NotOthers
  <2>4. d \in Conn
    BY <2>2 DEF Sole
  <2>5. CASE ConnectToPeer(c)
    BY <1>3, <2>2, <2>3, <2>4, <2>5
       DEF ConnectToPeer, ConnectFails, ConnectSucceeds, Register,
                 Handshake, FirstMessage, RestOfFirstMessage, HandshakeThrows, StartThreads,
                 DispatchFirstMessage, Receives, Goto, TypeOK
  <2>6. CASE InputThread(c)
    BY <2>2, <2>3, <2>4, <2>6
       DEF InputThread, InputReceives, InputEnds, InputAppends, InputDies, InputCleanup,
               Receives, Goto, TypeOK
  <2>7. CASE OutputThread(c)
    BY <2>2, <2>3, <2>4, <2>7
       DEF OutputThread, OutputTakes, OutputEnds, OutputSends, OutputCleanup,
               Goto, TypeOK
  <2> QED BY <1>3, <2>5, <2>6, <2>7
<1> QED BY <1>1, <1>2, <1>3 DEF ConnectToPeer

\* A running connection that shares with nobody finds itself under its
\* descriptor, in the operating system and in the map.
LEMMA FindsItself ==
    ASSUME Descriptors, NEW c \in Sole, ~Over(c), caller[c] \in {"up", "serving"}
    PROVE  c \in Conn /\ fd[c] \in Sock /\ owner[fd[c]] = c /\ peers[fd[c]] = c
  BY Given DEF Descriptors, Held, HasEntry, Over, Sole

\* At any time in its life, it finds itself or nothing.
LEMMA FindsNobodyElse ==
    ASSUME Descriptors, NEW c \in Sole, Using(c), fd[c] \in Sock
    PROVE  owner[fd[c]] \in {c, NoConn} /\ peers[fd[c]] \in {c, NoConn}
<1>1. ASSUME NEW d \in Conn, owner[fd[c]] = d \/ peers[fd[c]] = d
      PROVE  d = c
  <2>1. Bound(d) /\ fd[d] = fd[c]
    BY <1>1, FoundIsBound DEF Descriptors
  <2>2. Bound(c)
    BY DEF Bound
  <2> QED BY <2>1, <2>2, Exclusive DEF Descriptors
<1> QED BY <1>1 DEF Descriptors, TypeOK

-----------------------------------------------------------------------------
(* Who cleans up                                                           *)

\* The threads of this side do not close the remote's.
LEMMA OpenStays ==
    ASSUME TypeOK, NEW c \in Conn, fd[c] \in Sock, InputThread(c) \/ OutputThread(c)
    PROVE  \A d \in Conn : stream'[d].open = stream[d].open
<1>1. CASE InputReceives(c)
  BY <1>1 DEF InputReceives, Receives, TypeOK
<1>2. CASE OutputSends(c)
  <2> DEFINE o == owner[fd[c]]
             sent == stream[o].wire \o writer[c].hand
  <2>1. stream' = stream \/ stream' = [stream EXCEPT ![o].wire = sent]
    BY <1>2 DEF OutputSends
  <2> HIDE DEF o, sent
  <2>2. ASSUME NEW d \in Conn
        PROVE  stream'[d].open = stream[d].open
    <3>1. stream[d] \in [sent : 0 .. MaxItems, taken : 0 .. MaxItems,
                         wire : Seq(Message), open : BOOLEAN]
      BY DEF TypeOK
    <3>2. stream'[d] = stream[d] \/ stream'[d] = [stream[d] EXCEPT !.wire = sent]
      BY <2>1 DEF TypeOK
    <3> QED BY <3>1, <3>2
  <2> QED BY <2>2
<1>3. CASE UNCHANGED stream
  BY <1>3
<1> QED BY <1>1, <1>2, <1>3 DEF InputThread, InputEnds, InputAppends, InputDies, InputCleanup,
                OutputThread, OutputTakes, OutputEnds, OutputCleanup

\* Torn is kept by every step but SendMessage.
LEMMA TornStep ==
    ASSUME Descriptors, Torn, NEW c \in Conn,
           \/ ConnectToPeer(c) \/ InputThread(c) \/ OutputThread(c)
           \/ RemoteSends(c) \/ RemoteCloses(c)
    PROVE  Torn'
<1> USE DEF Descriptors
<1>1. ASSUME NEW d \in Sole', d # c, stream'[d].open
      PROVE  /\ reader'[d].pc \notin {"cleanup", "done"}
             /\ writer'[d].pc \notin {"cleanup", "done"}
  BY <1>1, Frame DEF Torn
<1>2. ASSUME c \in Sole', stream'[c].open
      PROVE  /\ reader'[c].pc \notin {"cleanup", "done"}
             /\ writer'[c].pc \notin {"cleanup", "done"}
  <2>1. c \in Sole
    BY <1>2, SharedGrows DEF Sole
  <2>2. CASE RemoteSends(c) \/ RemoteCloses(c)
    BY <1>2, <2>1, <2>2 DEF RemoteSends, RemoteCloses, Torn, TypeOK
  <2>3. CASE ConnectToPeer(c)
    <3>1. /\ reader[c].pc = "none" /\ writer[c].pc = "none"
      BY <2>3 DEF ConnectToPeer, OpenSocket, ConnectFails, ConnectSucceeds, Register,
                 Handshake, FirstMessage, RestOfFirstMessage, HandshakeThrows, StartThreads, Control
    <3>2. CASE StartThreads(c)
      BY <3>2, ReaderGoes, WriterGoes DEF StartThreads
    <3>3. CASE ~StartThreads(c)
      BY <2>3, <3>1, <3>3
         DEF ConnectToPeer, OpenSocket, ConnectFails, ConnectSucceeds, Register,
                 Handshake, FirstMessage, RestOfFirstMessage, HandshakeThrows
    <3> QED BY <3>2, <3>3
  <2>4. CASE (InputThread(c) \/ OutputThread(c)) /\ Over(c)
    <3>1. caller[c] # "start"
      BY <2>4 DEF InputThread, InputReceives, InputEnds, InputAppends, InputDies, InputCleanup,
                  OutputThread, OutputTakes, OutputEnds, OutputSends, OutputCleanup,
                  Control
    <3>2. reader[c].pc = "done" \/ writer[c].pc = "done"
      BY <2>4 DEF InputThread, InputReceives, InputEnds, InputAppends, InputDies, InputCleanup,
                  OutputThread, OutputTakes, OutputEnds, OutputSends, OutputCleanup,
                  Over, Control
    <3>3. ~stream[c].open
      BY <2>1, <3>2 DEF Torn
    <3>4. \A o \in Conn : stream'[o].open = stream[o].open
      BY <2>4, ThreadsUse, OpenStays, <3>1
    <3> QED BY <1>2, <3>3, <3>4
  <2>5. CASE InputThread(c) /\ ~Over(c)
    <3>1. fd[c] \in Sock /\ owner[fd[c]] = c /\ peers[fd[c]] = c
      BY <2>1, <2>5, FindsItself
         DEF InputThread, InputReceives, InputEnds, InputAppends, InputDies, InputCleanup, Control
    <3>2. stream[c].open
      BY <1>2, <2>5, <3>1, OpenStays
    <3>3. /\ reader[c].pc \notin {"cleanup", "done"}
          /\ writer[c].pc \notin {"cleanup", "done"}
      BY <2>1, <3>2 DEF Torn
    <3>4. ~ReceivesNothing(fd[c])
      BY <3>1, <3>2, TableAssumption DEF ReceivesNothing
    <3>5. CASE InputDies(c)
      BY <3>3, <3>5 DEF InputDies
    <3>6. CASE InputReceives(c)
      <4>1. PICK n \in 1 .. MaxItems :
              reader' = [reader EXCEPT ![c] =
                           [pc |-> "append",
                            hand |-> [i \in 1 .. n |->
                                        <<owner[fd[c]], stream[owner[fd[c]]].taken + i>>]]]
        BY <3>6 DEF InputReceives
      <4>2. writer' = writer
        BY <3>6 DEF InputReceives
      <4> QED BY <2>5, <3>3, <4>1, <4>2 DEF TypeOK
    <3>7. CASE InputAppends(c)
      <4>1. reader' = [reader EXCEPT ![c] = [pc |-> "recv", hand |-> <<>>]]
        BY <3>7 DEF InputAppends
      <4>2. writer' = writer
        BY <3>7 DEF InputAppends
      <4> QED BY <2>5, <3>3, <4>1, <4>2 DEF TypeOK
    <3>8. ~InputEnds(c) /\ ~InputCleanup(c)
      BY <3>3, <3>4 DEF InputEnds, InputCleanup
    <3> QED BY <2>5, <3>5, <3>6, <3>7, <3>8 DEF InputThread
  <2>6. CASE OutputThread(c) /\ ~Over(c)
    <3>1. fd[c] \in Sock /\ owner[fd[c]] = c /\ peers[fd[c]] = c
      BY <2>1, <2>6, FindsItself
         DEF OutputThread, OutputTakes, OutputEnds, OutputSends, OutputCleanup, Control
    <3>2. stream[c].open
      BY <1>2, <2>6, <3>1, OpenStays
    <3>3. /\ reader[c].pc \notin {"cleanup", "done"}
          /\ writer[c].pc \notin {"cleanup", "done"}
      BY <2>1, <3>2 DEF Torn
    <3>4. CASE OutputTakes(c)
      BY <3>3, <3>4 DEF OutputTakes, TypeOK
    <3>5. CASE OutputEnds(c)
      BY <3>1, <3>5, TableAssumption DEF OutputEnds
    <3>6. CASE OutputSends(c)
      <4>1. writer' = [writer EXCEPT ![c] = [pc |-> "poll", hand |-> <<>>]] /\ reader' = reader
        BY <3>1, <3>2, <3>6, TableAssumption DEF OutputSends
      <4> QED BY <3>3, <4>1 DEF TypeOK
    <3>7. CASE OutputCleanup(c)
      BY <3>3, <3>7 DEF OutputCleanup
    <3> QED BY <2>6, <3>4, <3>5, <3>6, <3>7 DEF OutputThread
  <2> QED BY <2>2, <2>3, <2>4, <2>5, <2>6
<1> QED BY <1>1, <1>2 DEF Torn, Sole

-----------------------------------------------------------------------------
(* Input                                                                   *)

\* Hands is kept by every step of a call or of a thread.
LEMMA HandsStep ==
    ASSUME TypeOK, Control, Hands, NEW c \in Conn,
           ConnectToPeer(c) \/ InputThread(c) \/ OutputThread(c)
    PROVE  Hands'
<1>1. /\ \A d \in Conn \ {c} : reader'[d] = reader[d] /\ writer'[d] = writer[d]
      /\ reader'[c].pc # "append" => reader'[c].hand = <<>>
      /\ writer'[c].pc # "send" => writer'[c].hand = <<>>
  <2>1. CASE InputReceives(c) \/ InputAppends(c)
    <3>1. PICK pc, hand : reader' = [reader EXCEPT ![c] = [pc |-> pc, hand |-> hand]]
                          /\ (pc # "append" => hand = <<>>)
      BY <2>1 DEF InputReceives, InputAppends
    <3>2. writer' = writer
      BY <2>1 DEF InputReceives, InputAppends
    <3> QED BY <3>1, <3>2 DEF TypeOK, Hands
  <2>2. CASE InputEnds(c) \/ InputCleanup(c)
    BY <2>2, ReaderGoes DEF InputEnds, InputDies, InputCleanup, Hands
  <2>3. CASE OutputTakes(c) \/ OutputSends(c)
    <3>1. PICK pc, hand : writer' = [writer EXCEPT ![c] = [pc |-> pc, hand |-> hand]]
                          /\ (pc # "send" => hand = <<>>)
      BY <2>3 DEF OutputTakes, OutputSends
    <3>2. reader' = reader
      BY <2>3 DEF OutputTakes, OutputSends
    <3> QED BY <3>1, <3>2 DEF TypeOK, Hands
  <2>4. CASE OutputEnds(c) \/ OutputCleanup(c)
    BY <2>4, WriterGoes DEF OutputEnds, OutputCleanup, Hands
  <2>5. CASE StartThreads(c)
    <3>1. reader[c].pc = "none" /\ writer[c].pc = "none"
      BY <2>5 DEF StartThreads, Control
    <3> QED BY <2>5, <3>1, ReaderGoes, WriterGoes DEF StartThreads, Hands
  <2>6. CASE UNCHANGED <<reader, writer>>
    BY <2>6 DEF Hands
  <2> QED BY <2>1, <2>2, <2>3, <2>4, <2>5, <2>6
      DEF ConnectToPeer, OpenSocket, ConnectFails, ConnectSucceeds, Register, Handshake,
          FirstMessage, RestOfFirstMessage, HandshakeThrows, InputThread, InputDies,
          OutputThread
<1> QED BY <1>1 DEF Hands

\* Nothing appended to nothing is nothing.
LEMMA EmptyConcat == <<>> \o <<>> = <<>> /\ Len(<<>>) = 0
  BY ConcatEmptySeq, EmptySeq

\* Items received next are appended next: the part of the stream in the
\* buffer stays unbroken.
LEMMA MoreIncoming ==
    ASSUME NEW c \in Conn, NEW t \in Nat, NEW input \in Seq(Item), NEW n \in Nat,
           UpTo(c, input, t),
           NEW hand \in Seq(Item), Len(hand) = n,
           \A i \in 1 .. n : hand[i] = <<c, t + i>>
    PROVE  UpTo(c, input \o hand, t + n)
<1>1. /\ Len(input \o hand) = Len(input) + n /\ Len(input) \in Nat
      /\ \A i \in 1 .. Len(input) + n :
            (input \o hand)[i] = IF i <= Len(input) THEN input[i] ELSE hand[i - Len(input)]
  BY ConcatProperties, LenProperties
<1>2. ASSUME NEW i \in 1 .. Len(input) + n
      PROVE  (input \o hand)[i] = <<c, (t + n) - (Len(input) + n) + i>>
  <2>1. CASE i <= Len(input)
    <3>1. i \in 1 .. Len(input) /\ (t + n) - (Len(input) + n) + i = t - Len(input) + i
      BY <1>1, <2>1
    <3> QED BY <1>1, <2>1, <3>1 DEF UpTo
  <2>2. CASE ~(i <= Len(input))
    <3>1. i - Len(input) \in 1 .. n
          /\ t + (i - Len(input)) = (t + n) - (Len(input) + n) + i
      BY <1>1, <2>2
    <3> QED BY <1>1, <2>2, <3>1
  <2> QED BY <2>1, <2>2
<1> QED BY <1>1, <1>2 DEF UpTo

\* InputOrder is kept by every step but SendMessage.
LEMMA InputOrderStep ==
    ASSUME Descriptors, Hands, InputOrder, NEW c \in Conn,
           \/ ConnectToPeer(c) \/ InputThread(c) \/ OutputThread(c)
           \/ RemoteSends(c) \/ RemoteCloses(c)
    PROVE  InputOrder'
<1> USE DEF Descriptors
<1>1. ASSUME NEW d \in Sole', d # c
      PROVE  /\ caller'[d] \notin {"up", "serving"} => conn'[d].input = <<>>
             /\ HasEntry(d)' /\ ~Over(d)' => InOrder(d)'
  <2>1. /\ d \in Sole /\ conn'[d] = conn[d] /\ stream'[d] = stream[d]
        /\ reader'[d] = reader[d] /\ writer'[d] = writer[d] /\ caller'[d] = caller[d]
    BY <1>1, Frame
  <2> QED BY <2>1 DEF InputOrder, InOrder, UpTo, Incoming, HasEntry, Over
<1>2. ASSUME c \in Sole'
      PROVE  /\ caller'[c] \notin {"up", "serving"} => conn'[c].input = <<>>
             /\ HasEntry(c)' /\ ~Over(c)' => InOrder(c)'
  <2>1. c \in Sole
    BY <1>2, SharedGrows DEF Sole
  <2>2. CASE RemoteSends(c) \/ RemoteCloses(c)
    <3>1. stream'[c].taken = stream[c].taken
          /\ UNCHANGED <<conn, reader, writer, caller>>
      BY <2>2 DEF RemoteSends, RemoteCloses, TypeOK
    <3> QED BY <2>1, <3>1 DEF InputOrder, InOrder, UpTo, Incoming, HasEntry, Over
  <2>3. CASE ConnectToPeer(c)
    <3>1. /\ caller[c] \notin {"up", "serving"} /\ conn' = conn
          /\ reader[c].pc = "none"
          /\ reader' = reader \/ reader' = Goto(reader, c, "recv")
      BY <2>3 DEF ConnectToPeer, OpenSocket, ConnectFails, ConnectSucceeds, Register,
                 Handshake, FirstMessage, RestOfFirstMessage, HandshakeThrows, StartThreads, Control
    <3>2. conn'[c].input = <<>> /\ reader'[c].hand = <<>>
      BY <2>1, <3>1, ReaderGoes DEF InputOrder, Hands
    <3>3. InOrder(c)'
      BY <3>2, EmptyConcat DEF InOrder, UpTo, Incoming
    <3> QED BY <3>2, <3>3
  <2>4. CASE (InputThread(c) \/ OutputThread(c)) /\ Over(c)
    <3>1. caller' = caller /\ caller[c] \in {"up", "serving"}
      BY <2>4 DEF InputThread, InputReceives, InputEnds, InputAppends, InputDies, InputCleanup,
                  OutputThread, OutputTakes, OutputEnds, OutputSends, OutputCleanup, Control
    <3>2. reader[c].pc = "done" \/ writer[c].pc = "done"
      BY <2>4, <3>1 DEF Over
    <3>3. Over(c)'
      <4>1. CASE InputThread(c)
        <5>1. reader[c].pc # "done" /\ writer' = writer
          BY <4>1 DEF InputThread, InputReceives, InputEnds, InputAppends, InputDies, InputCleanup
        <5> QED BY <3>2, <5>1 DEF Over
      <4>2. CASE OutputThread(c)
        <5>1. writer[c].pc # "done" /\ reader' = reader
          BY <4>2 DEF OutputThread, OutputTakes, OutputEnds, OutputSends, OutputCleanup
        <5> QED BY <3>2, <5>1 DEF Over
      <4> QED BY <2>4, <4>1, <4>2
    <3> QED BY <3>1, <3>3
  <2>5. CASE InputThread(c) /\ ~Over(c)
    <3>1. caller' = caller /\ caller[c] \in {"up", "serving"} /\ HasEntry(c)
      BY <2>5 DEF InputThread, InputReceives, InputEnds, InputAppends, InputDies, InputCleanup,
                  Control, HasEntry, Over
    <3>2. fd[c] \in Sock /\ owner[fd[c]] = c /\ peers[fd[c]] = c
      BY <2>1, <2>5, <3>1, FindsItself
    <3>3. InOrder(c)
      BY <2>1, <2>5, <3>1 DEF InputOrder
    <3>4. CASE InputReceives(c)
      <4>1. reader[c].hand = <<>> /\ conn' = conn /\ conn[c].input \in Seq(Item)
        BY <3>4 DEF InputReceives, Hands, TypeOK
      <4>2. PICK n \in 1 .. MaxItems :
              /\ Receives(fd[c], n)
              /\ reader' = [reader EXCEPT ![c] =
                    [pc |-> "append",
                     hand |-> [i \in 1 .. n |-> <<c, stream[c].taken + i>>]]]
        BY <3>2, <3>4 DEF InputReceives
      <4> DEFINE hand == [i \in 1 .. n |-> <<c, stream[c].taken + i>>]
                 t == stream[c].taken
      <4>3. t \in Nat /\ t + n <= MaxItems /\ stream'[c].taken = t + n
        <5>1. t \in Nat /\ stream[c] \in [sent : 0 .. MaxItems, taken : 0 .. MaxItems,
                                        wire : Seq(Message), open : BOOLEAN]
          BY DEF TypeOK
        <5>2. stream' = [stream EXCEPT ![c].taken = @ + n]
          BY <3>2, <4>2 DEF Receives
        <5>3. stream'[c].taken = t + n
          BY <5>1, <5>2 DEF TypeOK
        <5>4. t + n <= MaxItems
          BY <3>2, <4>2, ReceivesTyped
        <5> QED BY <5>1, <5>3, <5>4
      <4>4. hand \in Seq(Item) /\ Len(hand) = n /\ \A i \in 1 .. n : hand[i] = <<c, t + i>>
        <5>1. \A i \in 1 .. n : t + i \in 1 .. MaxItems
          BY <4>3, TableAssumption
        <5>2. hand \in [1 .. n -> Item] /\ \A i \in 1 .. n : hand[i] = <<c, t + i>>
          BY <5>1 DEF Item
        <5> HIDE DEF hand
        <5> QED BY <5>2, SeqFromFunction
      <4>5. reader'[c].hand = hand
        BY <4>2 DEF TypeOK
      <4>6. UpTo(c, conn[c].input, t)
        <5>1. Incoming(c) = conn[c].input
          BY <4>1, ConcatEmptySeq DEF Incoming
        <5> QED BY <3>3, <5>1 DEF InOrder
      <4> HIDE DEF hand, t
      <4> DEFINE input == conn[c].input
      <4>7. UpTo(c, input \o hand, t + n)
        <5>1. n \in Nat /\ input \in Seq(Item) /\ UpTo(c, input, t)
          BY <4>1, <4>6, TableAssumption
        <5>2. hand \in Seq(Item) /\ t \in Nat
          BY <4>3, <4>4
        <5>3. Len(hand) = n
          BY <4>4
        <5>4. \A i \in 1 .. n : hand[i] = <<c, t + i>>
          BY <4>4
        <5> HIDE DEF input
        <5>5. c \in Conn
          OBVIOUS
        <5> QED BY ONLY <5>1, <5>2, <5>3, <5>4, <5>5, MoreIncoming
      <4> QED BY <3>1, <4>1, <4>3, <4>5, <4>7 DEF InOrder, UpTo, Incoming
    <3>5. CASE InputEnds(c) \/ InputCleanup(c) \/ InputDies(c)
      <4>1. reader'[c].hand = reader[c].hand /\ conn' = conn /\ stream' = stream
        BY <3>5, ReaderGoes DEF InputEnds, InputDies, InputCleanup
      <4> QED BY <3>1, <3>3, <4>1 DEF InOrder, UpTo, Incoming
    <3>6. CASE InputAppends(c)
      <4>1. /\ conn' = [conn EXCEPT ![c].input = Incoming(c)]
            /\ reader' = [reader EXCEPT ![c] = [pc |-> "recv", hand |-> <<>>]]
            /\ stream' = stream
        BY <3>2, <3>6, TableAssumption DEF InputAppends, Incoming
      <4>2. conn'[c].input = Incoming(c) /\ reader'[c].hand = <<>>
        <5>1. conn \in [Conn -> Conns]
          BY DEF TypeOK, Conns
        <5>2. conn'[c] = [conn[c] EXCEPT !.input = Incoming(c)]
          BY <4>1, <5>1
        <5>3. conn'[c].input = Incoming(c)
          BY <5>1, <5>2 DEF Conns
        <5> QED BY <4>1, <5>3 DEF TypeOK
      <4>3. Incoming(c) \in Seq(Item)
        <5>1. conn[c] \in [input : Seq(Item), output : Seq(Message), queued : 0 .. MaxOut]
              /\ reader[c].hand \in Seq(Item)
          BY DEF TypeOK
        <5> QED BY <5>1, ConcatProperties DEF Incoming
      <4>4. Incoming(c)' = Incoming(c)
        BY <4>2, <4>3, ConcatEmptySeq DEF Incoming
      <4> QED BY <3>1, <3>3, <4>1, <4>4 DEF InOrder, UpTo
    <3> QED BY <2>5, <3>4, <3>5, <3>6 DEF InputThread
  <2>6. CASE OutputThread(c) /\ ~Over(c)
    <3>1. /\ caller' = caller /\ caller[c] = "up" /\ reader' = reader
      BY <2>6 DEF OutputThread, OutputTakes, OutputEnds, OutputSends, OutputCleanup, Control
    <3>2. fd[c] \in Sock /\ owner[fd[c]] = c /\ peers[fd[c]] = c
      BY <2>1, <2>6, <3>1, FindsItself
    <3>3. conn'[c].input = conn[c].input /\ stream'[c].taken = stream[c].taken
      <4>1. CASE OutputTakes(c)
        BY <3>2, <4>1 DEF OutputTakes, TypeOK
      <4>2. CASE OutputSends(c)
        <5> DEFINE sent == stream[c].wire \o writer[c].hand
        <5>1. conn' = conn /\ (stream' = stream \/ stream' = [stream EXCEPT ![c].wire = sent])
          BY <3>2, <4>2 DEF OutputSends
        <5> HIDE DEF sent
        <5> QED BY <5>1 DEF TypeOK
      <4> QED BY <2>6, <4>1, <4>2 DEF OutputThread, OutputEnds, OutputCleanup
    <3>4. InOrder(c)
      BY <2>1, <2>6, <3>1 DEF InputOrder, HasEntry, Over
    <3> QED BY <3>1, <3>3, <3>4 DEF InOrder, UpTo, Incoming
  <2> QED BY <2>2, <2>3, <2>4, <2>5, <2>6
<1> QED BY <1>1, <1>2 DEF InputOrder, Sole

-----------------------------------------------------------------------------
(* Output                                                                  *)

\* The first n messages queued for c are a sequence of n messages.
LEMMA QueueTyped ==
    ASSUME NEW c \in Conn, NEW n \in 0 .. MaxOut
    PROVE  /\ QueueOf(c, n) \in Seq(Message) /\ Len(QueueOf(c, n)) = n
           /\ \A i \in 1 .. n : QueueOf(c, n)[i] = <<c, i>>
<1>1. \A i \in 1 .. n : i \in 1 .. MaxOut
  BY TableAssumption
<1>2. QueueOf(c, n) \in [1 .. n -> Message]
      /\ \A i \in 1 .. n : QueueOf(c, n)[i] = <<c, i>>
  BY <1>1 DEF QueueOf, Message
<1>3. n \in Nat
  BY TableAssumption
<1> QED BY <1>2, <1>3, SeqFromFunction

\* What such a sequence begins with is the first messages queued.
LEMMA StartOfQueue ==
    ASSUME NEW c \in Conn, NEW n \in 0 .. MaxOut,
           NEW s \in Seq(Message), NEW t \in Seq(Message), s \o t = QueueOf(c, n)
    PROVE  Len(s) <= n /\ \A i \in 1 .. Len(s) : s[i] = <<c, i>>
<1>1. /\ Len(s \o t) = Len(s) + Len(t) /\ Len(s) \in Nat /\ Len(t) \in Nat
      /\ \A i \in 1 .. Len(s) + Len(t) :
            (s \o t)[i] = IF i <= Len(s) THEN s[i] ELSE t[i - Len(s)]
  BY ConcatProperties, LenProperties
<1>2. Len(s) + Len(t) = n /\ \A i \in 1 .. n : (s \o t)[i] = <<c, i>>
  BY <1>1, QueueTyped
<1> QED BY <1>1, <1>2

\* Appending to the second of two sequences appends to both together.
LEMMA ConcatAppend ==
    ASSUME NEW S, NEW s \in Seq(S), NEW t \in Seq(S), NEW e \in S
    PROVE  s \o Append(t, e) = Append(s \o t, e)
<1>1. <<e>> \in Seq(S) /\ s \o t \in Seq(S)
  BY ConcatProperties
<1>2. (s \o t) \o <<e>> = s \o (t \o <<e>>)
  BY <1>1, ConcatAssociative
<1> QED BY <1>1, <1>2, AppendIsConcat

\* One more message appended continues the queue.
LEMMA LongerQueue ==
    ASSUME NEW c \in Conn, NEW n \in 0 .. MaxOut, n + 1 \in 0 .. MaxOut,
           NEW s \in Seq(Message), NEW t \in Seq(Message), s \o t = QueueOf(c, n)
    PROVE  s \o Append(t, <<c, n + 1>>) = QueueOf(c, n + 1)
<1> DEFINE m == <<c, n + 1>>
<1>1. m \in Message
  BY TableAssumption DEF Message
<1> HIDE DEF m
<1>2. s \o Append(t, m) = Append(s \o t, m)
  BY <1>1, ConcatAppend
<1>3. Append(QueueOf(c, n), m) = QueueOf(c, n + 1)
  <2>1. /\ QueueOf(c, n) \in Seq(Message) /\ Len(QueueOf(c, n)) = n
        /\ \A i \in 1 .. n : QueueOf(c, n)[i] = <<c, i>>
    BY QueueTyped
  <2>2. /\ QueueOf(c, n + 1) \in Seq(Message) /\ Len(QueueOf(c, n + 1)) = n + 1
        /\ \A i \in 1 .. n + 1 : QueueOf(c, n + 1)[i] = <<c, i>>
    BY QueueTyped
  <2>3. /\ Append(QueueOf(c, n), m) \in Seq(Message)
        /\ Len(Append(QueueOf(c, n), m)) = n + 1
        /\ \A i \in 1 .. n : Append(QueueOf(c, n), m)[i] = <<c, i>>
        /\ Append(QueueOf(c, n), m)[n + 1] = m
    BY <1>1, <2>1, AppendProperties
  <2>4. \A i \in 1 .. n + 1 : Append(QueueOf(c, n), m)[i] = QueueOf(c, n + 1)[i]
    <3>1. ASSUME NEW i \in 1 .. n + 1
          PROVE  Append(QueueOf(c, n), m)[i] = QueueOf(c, n + 1)[i]
      <4>1. CASE i \in 1 .. n
        BY <2>2, <2>3, <4>1
      <4>2. CASE i = n + 1
        BY <2>2, <2>3, <4>2 DEF m
      <4>3. i \in 1 .. n \/ i = n + 1
        BY TableAssumption
      <4> QED BY <4>1, <4>2, <4>3
    <3> QED BY <3>1
  <2> QED BY <2>2, <2>3, <2>4, SeqEqual
<1> QED BY <1>2, <1>3 DEF m

\* OutputOrder is kept by every step but SendMessage.
LEMMA OutputOrderStep ==
    ASSUME Descriptors, Hands, OutputOrder, NEW c \in Conn,
           \/ ConnectToPeer(c) \/ InputThread(c) \/ OutputThread(c)
           \/ RemoteSends(c) \/ RemoteCloses(c)
    PROVE  OutputOrder'
<1> USE DEF Descriptors
<1> DEFINE Ordered(d) ==
        /\ Len(stream[d].wire) <= conn[d].queued
        /\ \A i \in 1 .. Len(stream[d].wire) : stream[d].wire[i] = <<d, i>>
        /\ writer[d].pc \in {"none", "poll", "send"} => Whole(d) = QueueOf(d, conn[d].queued)
<1>1. ASSUME NEW d \in Sole', d # c
      PROVE  Ordered(d)'
  <2>1. d \in Sole /\ conn'[d] = conn[d] /\ stream'[d] = stream[d] /\ writer'[d] = writer[d]
    BY <1>1, Frame
  <2> QED BY <2>1 DEF OutputOrder, Whole
<1>2. ASSUME c \in Sole'
      PROVE  Ordered(c)'
  <2>1. c \in Sole /\ Ordered(c)
    BY <1>2, SharedGrows DEF OutputOrder, Sole
  <2>2. /\ stream[c].wire \in Seq(Message) /\ writer[c].hand \in Seq(Message)
        /\ conn[c].output \in Seq(Message) /\ conn[c].queued \in 0 .. MaxOut
    BY DEF TypeOK
  <2>3. CASE OutputTakes(c)
    <3>1. peers[fd[c]] = c
      <4>1. Using(c) /\ fd[c] \in Sock
        BY <2>3, ThreadsUse DEF OutputTakes, OutputThread, Control
      <4> QED BY <2>1, <2>3, <4>1, FindsNobodyElse DEF OutputTakes
    <3>2. /\ writer[c].hand = <<>> /\ writer[c].pc = "poll" /\ stream' = stream
          /\ writer' = [writer EXCEPT ![c] = [pc |-> "send", hand |-> conn[c].output]]
          /\ conn' = [conn EXCEPT ![c].output = <<>>]
      BY <2>3, <3>1 DEF OutputTakes, Hands
    <3>3. /\ writer'[c].hand = conn[c].output
          /\ conn'[c].output = <<>> /\ conn'[c].queued = conn[c].queued
      BY <3>2 DEF TypeOK
    <3>4. Whole(c)' = Whole(c)
      <4>1. stream[c].wire \o conn[c].output \in Seq(Message)
        BY <2>2, ConcatProperties
      <4> QED BY <2>2, <3>2, <3>3, <4>1, ConcatEmptySeq DEF Whole
    <3> QED BY <2>1, <3>2, <3>3, <3>4
  <2>4. CASE OutputSends(c)
    <3>1. owner[fd[c]] \in {c, NoConn}
      <4>1. Using(c) /\ fd[c] \in Sock
        BY <2>4, ThreadsUse DEF OutputSends, OutputThread, Control
      <4> QED BY <2>1, <4>1, FindsNobodyElse
    <3> DEFINE sent == stream[c].wire \o writer[c].hand
    <3>2. /\ conn' = conn /\ writer[c].pc = "send"
          /\ \/ /\ stream' = [stream EXCEPT ![c].wire = sent]
                /\ writer' = [writer EXCEPT ![c] = [pc |-> "poll", hand |-> <<>>]]
             \/ /\ stream' = stream
                /\ writer' = [writer EXCEPT ![c] = [pc |-> "cleanup", hand |-> <<>>]]
      BY <2>4, <3>1 DEF OutputSends
    <3>3. sent \in Seq(Message) /\ sent \o conn[c].output = QueueOf(c, conn[c].queued)
      BY <2>1, <2>2, <3>2, ConcatProperties DEF Whole
    <3> HIDE DEF sent
    <3>4. Len(sent) <= conn[c].queued /\ \A i \in 1 .. Len(sent) : sent[i] = <<c, i>>
      BY <2>2, <3>3, StartOfQueue
    <3>5. CASE /\ stream' = [stream EXCEPT ![c].wire = sent]
               /\ writer' = [writer EXCEPT ![c] = [pc |-> "poll", hand |-> <<>>]]
      <4>1. stream'[c].wire = sent /\ writer'[c].hand = <<>>
        BY <3>5 DEF TypeOK
      <4>2. Whole(c)' = sent \o conn[c].output
        BY <3>2, <3>3, <4>1, ConcatEmptySeq DEF Whole
      <4> QED BY <3>2, <3>3, <3>4, <4>1, <4>2
    <3>6. CASE /\ stream' = stream
               /\ writer' = [writer EXCEPT ![c] = [pc |-> "cleanup", hand |-> <<>>]]
      <4>1. writer'[c].pc = "cleanup"
        BY <3>6 DEF TypeOK
      <4> QED BY <2>1, <3>2, <3>6, <4>1
    <3> QED BY <3>2, <3>5, <3>6
  <2>5. CASE InputAppends(c)
    <3> DEFINE o == peers[fd[c]]
               all == conn[o].input \o reader[c].hand
    <3>1. /\ conn' = conn \/ conn' = [conn EXCEPT ![o].input = all]
          /\ UNCHANGED <<stream, writer>>
      BY <2>5 DEF InputAppends
    <3> HIDE DEF o, all
    <3>2. conn[c] \in Conns
      BY DEF TypeOK, Conns
    <3>3. conn'[c] = conn[c] \/ conn'[c] = [conn[c] EXCEPT !.input = all]
      BY <3>1 DEF TypeOK
    <3>4. conn'[c].output = conn[c].output /\ conn'[c].queued = conn[c].queued
      BY <3>2, <3>3 DEF Conns
    <3> QED BY <2>1, <3>1, <3>4 DEF Whole
  <2>6. CASE /\ UNCHANGED conn /\ stream'[c].wire = stream[c].wire
             /\ writer'[c].hand = writer[c].hand
             /\ writer'[c].pc \in {"none", "poll", "send"}
                    => writer[c].pc \in {"none", "poll", "send"}
    BY <2>1, <2>6 DEF Whole
  <2>7. CASE /\ ~OutputTakes(c) /\ ~OutputSends(c) /\ ~InputAppends(c)
    <3>1. conn' = conn
      BY <2>7 DEF ConnectToPeer, OpenSocket, ConnectFails, ConnectSucceeds, Register,
                 Handshake, FirstMessage, RestOfFirstMessage, HandshakeThrows, StartThreads,
                 InputThread, InputReceives, InputEnds, InputDies, InputCleanup,
                 OutputThread, OutputEnds, OutputCleanup, RemoteSends, RemoteCloses
    <3>2. stream'[c].wire = stream[c].wire
      <4>1. \/ stream' = stream
            \/ \E s, n : Receives(s, n)
            \/ RemoteSends(c) \/ RemoteCloses(c)
        BY <2>7 DEF ConnectToPeer, OpenSocket, ConnectFails, ConnectSucceeds, Register,
                 Handshake, FirstMessage, RestOfFirstMessage, HandshakeThrows, StartThreads,
                 InputThread, InputReceives, InputEnds, InputDies, InputCleanup,
                 OutputThread, OutputEnds, OutputCleanup
      <4>2. ASSUME NEW s, NEW n, Receives(s, n)
            PROVE  stream'[c].wire = stream[c].wire
        <5> DEFINE o == owner[s]
        <5>1. stream' = [stream EXCEPT ![o].taken = @ + n]
          BY <4>2 DEF Receives
        <5> HIDE DEF o
        <5>2. stream'[c] = stream[c] \/ stream'[c] = [stream[c] EXCEPT !.taken = @ + n]
          BY <5>1 DEF TypeOK
        <5> QED BY <5>2 DEF TypeOK
      <4>3. CASE RemoteSends(c) \/ RemoteCloses(c)
        BY <4>3 DEF RemoteSends, RemoteCloses, TypeOK
      <4> QED BY <4>1, <4>2, <4>3
    <3>3. /\ writer'[c].hand = writer[c].hand
          /\ writer'[c].pc \in {"none", "poll", "send"}
                    => writer[c].pc \in {"none", "poll", "send"}
      <4>1. \/ writer' = writer
            \/ writer[c].pc = "none" /\ writer' = Goto(writer, c, "poll")
            \/ writer' = Goto(writer, c, "cleanup") \/ writer' = Goto(writer, c, "done")
        BY <2>7 DEF ConnectToPeer, OpenSocket, ConnectFails, ConnectSucceeds, Register,
                 Handshake, FirstMessage, RestOfFirstMessage, HandshakeThrows, StartThreads,
                 InputThread, InputReceives, InputEnds, InputDies, InputCleanup,
                 OutputThread, OutputEnds, OutputCleanup, RemoteSends, RemoteCloses, Control
      <4> QED BY <4>1, WriterGoes
    <3> QED BY <2>6, <3>1, <3>2, <3>3
  <2> QED BY <2>3, <2>4, <2>5, <2>7
<1> HIDE DEF Ordered
<1>3. \A d \in Sole' : Ordered(d)'
  BY <1>1, <1>2
<1> QED BY <1>3 DEF OutputOrder, Ordered

\* sendRequest and sendPiece put a message at the end of its queue.
LEMMA SendKeepsOrder ==
    ASSUME Descriptors, InputOrder, OutputOrder, NEW c \in Conn, SendMessage(c)
    PROVE  InputOrder' /\ OutputOrder'
<1> USE TableAssumption DEF Descriptors
<1>1. PICK o \in Conn :
         /\ conn[o].queued < MaxOut
         /\ conn' = [conn EXCEPT ![o].output = Append(@, <<o, conn[o].queued + 1>>),
                                 ![o].queued = @ + 1]
  <2>1. fd[c] \in Sock
    BY DEF SendMessage, Control, TypeOK
  <2>2. peers[fd[c]] \in Conn
    BY <2>1 DEF SendMessage, TypeOK
  <2> QED BY <2>2 DEF SendMessage
<1> DEFINE out == Append(conn[o].output, <<o, conn[o].queued + 1>>)
<1>2. /\ conn' = [conn EXCEPT ![o].output = out, ![o].queued = @ + 1]
      /\ UNCHANGED <<fd, caller, reader, writer, stream, shared>>
  BY <1>1 DEF SendMessage, world
<1> HIDE DEF out
<1>3. \A d \in Conn : conn[d] \in Conns
  BY DEF TypeOK, Conns
<1>4. \A d \in Conn \ {o} : conn'[d] = conn[d]
  BY <1>2 DEF TypeOK
<1>5. conn'[o] = [conn[o] EXCEPT !.output = out, !.queued = @ + 1]
  BY <1>2 DEF TypeOK
<1>6. conn'[o].input = conn[o].input /\ conn'[o].output = out
      /\ conn'[o].queued = conn[o].queued + 1
  BY <1>2, <1>3, <1>5 DEF Conns
<1>7. \A d \in Conn : conn'[d].input = conn[d].input
  BY <1>4, <1>6
<1>8. InputOrder'
  <2>1. ASSUME NEW d \in Sole'
        PROVE  /\ caller'[d] \notin {"up", "serving"} => conn'[d].input = <<>>
               /\ HasEntry(d)' /\ ~Over(d)' => InOrder(d)'
    <3>1. d \in Sole /\ conn'[d].input = conn[d].input
      BY <1>2, <1>7 DEF Sole
    <3> QED BY <1>2, <3>1 DEF InputOrder, InOrder, UpTo, Incoming, HasEntry, Over
  <2> QED BY <2>1 DEF InputOrder
<1>9. ASSUME NEW d \in Sole', d # o
      PROVE  /\ Len(stream'[d].wire) <= conn'[d].queued
             /\ \A i \in 1 .. Len(stream'[d].wire) : stream'[d].wire[i] = <<d, i>>
             /\ writer'[d].pc \in {"none", "poll", "send"}
                    => Whole(d)' = QueueOf(d, conn'[d].queued)
  <2>1. d \in Sole /\ conn'[d] = conn[d]
    BY <1>2, <1>4, <1>9 DEF Sole
  <2> QED BY <1>2, <2>1 DEF OutputOrder, Whole
<1>10. ASSUME o \in Sole'
      PROVE  /\ Len(stream'[o].wire) <= conn'[o].queued
             /\ \A i \in 1 .. Len(stream'[o].wire) : stream'[o].wire[i] = <<o, i>>
             /\ writer'[o].pc \in {"none", "poll", "send"}
                    => Whole(o)' = QueueOf(o, conn'[o].queued)
  <2>1. o \in Sole
    BY <1>2, <1>10 DEF Sole
  <2>2. /\ conn[o].queued \in 0 .. MaxOut /\ conn[o].queued + 1 \in 0 .. MaxOut
        /\ stream[o].wire \in Seq(Message) /\ writer[o].hand \in Seq(Message)
        /\ conn[o].output \in Seq(Message)
    <3>1. conn[o].queued \in 0 .. MaxOut
      BY DEF TypeOK
    <3>2. conn[o].queued + 1 \in 0 .. MaxOut
      BY <1>1, <3>1
    <3> QED BY <3>1, <3>2 DEF TypeOK
  <2>3. Len(stream[o].wire) \in Nat
    BY <2>2, LenProperties
  <2>4. /\ Len(stream'[o].wire) <= conn'[o].queued
        /\ \A i \in 1 .. Len(stream'[o].wire) : stream'[o].wire[i] = <<o, i>>
    BY <1>2, <1>6, <2>1, <2>2, <2>3 DEF OutputOrder
  <2>5. ASSUME writer[o].pc \in {"none", "poll", "send"}
        PROVE  Whole(o)' = QueueOf(o, conn[o].queued + 1)
    <3> DEFINE before == stream[o].wire \o writer[o].hand
    <3>1. before \in Seq(Message)
      BY <2>2, ConcatProperties
    <3>2. before \o conn[o].output = QueueOf(o, conn[o].queued)
      BY <2>1, <2>5 DEF OutputOrder, Whole
    <3>3. Whole(o)' = before \o out
      BY <1>2, <1>6 DEF Whole
    <3> HIDE DEF before
    <3>4. before \o out = QueueOf(o, conn[o].queued + 1)
      BY <1>2, <2>2, <3>1, <3>2, LongerQueue DEF out
    <3> QED BY <3>3, <3>4
  <2> QED BY <1>2, <1>6, <2>4, <2>5
<1>11. OutputOrder'
  BY <1>9, <1>10 DEF OutputOrder
<1> QED BY <1>8, <1>11

-----------------------------------------------------------------------------
(* The invariant                                                           *)

\* connectToPeer stays where it can be.
LEMMA DialingStep ==
    ASSUME TypeOK, Dialing, NEW c \in Conn,
           \/ ConnectToPeer(c) \/ InputThread(c) \/ OutputThread(c)
           \/ SendMessage(c) \/ RemoteSends(c) \/ RemoteCloses(c)
    PROVE  Dialing'
<1>1. \/ caller' = caller
      \/ \E pc \in {"connect", "register", "handshake", "message", "extra", "thrown",
                    "spawn", "up", "failed"} : caller' = [caller EXCEPT ![c] = pc]
  BY DEF ConnectToPeer, OpenSocket, ConnectFails, ConnectSucceeds, Register,
         Handshake, FirstMessage, RestOfFirstMessage, HandshakeThrows, StartThreads, DispatchFirstMessage,
         InputThread, InputReceives, InputEnds, InputAppends, InputDies, InputCleanup,
         OutputThread, OutputTakes, OutputEnds, OutputSends, OutputCleanup,
         SendMessage, RemoteSends, RemoteCloses
<1> QED BY <1>1 DEF TypeOK, Dialing

\* The invariant holds at the start.
LEMMA TableInitially == Init => TableInv
<1> SUFFICES ASSUME Init
             PROVE  TableInv
  OBVIOUS
<1> USE TableAssumption DEF Init
<1>1. <<>> \in Seq(Item) /\ <<>> \in Seq(Message) /\ Len(<<>>) = 0
  OBVIOUS
<1>2. TypeOK
  BY <1>1 DEF TypeOK
<1>3. Control /\ Owned /\ InHand /\ Dialing /\ Torn /\ Hands
  BY DEF Control, Owned, InHand, Bound, Registered, Using, Idle, Dialing, Torn, Hands, Sole
<1>4. Held
  BY DEF Held, Over, Sole
<1>5. InputOrder
  BY DEF InputOrder, HasEntry, Sole
<1>6. \A c \in Conn : Whole(c) = <<>>
  BY EmptyConcat DEF Whole
<1>7. \A c \in Conn : QueueOf(c, 0) = <<>>
  <2>1. ASSUME NEW c \in Conn
        PROVE  QueueOf(c, 0) = <<>>
    <3>1. QueueOf(c, 0) \in Seq(Message) /\ Len(QueueOf(c, 0)) = 0
      BY QueueTyped
    <3> QED BY <3>1, EmptySeq
  <2> QED BY <2>1
<1>8. OutputOrder
  BY <1>1, <1>6, <1>7 DEF OutputOrder, Sole
<1> QED BY <1>2, <1>3, <1>4, <1>5, <1>8 DEF TableInv, Descriptors

\* Every step keeps the invariant.
LEMMA TableInductive == TableInv /\ [Next]_vars => TableInv'
<1> SUFFICES ASSUME TableInv, [Next]_vars
             PROVE  TableInv'
  OBVIOUS
<1> USE DEF TableInv
<1>1. ASSUME NEW c \in Conn,
             \/ ConnectToPeer(c) \/ InputThread(c) \/ OutputThread(c)
             \/ RemoteSends(c) \/ RemoteCloses(c)
      PROVE  TableInv'
  <2>1. Descriptors'
    BY <1>1, ConnectStep, ThreadStep, RemoteStep
  <2>2. Dialing'
    BY <1>1, DialingStep DEF Descriptors
  <2>3. Torn'
    BY <1>1, TornStep
  <2>4. Hands'
    <3>1. CASE RemoteSends(c) \/ RemoteCloses(c)
      BY <3>1 DEF RemoteSends, RemoteCloses, Hands
    <3> QED BY <1>1, <3>1, HandsStep DEF Descriptors
  <2>5. InputOrder'
    BY <1>1, InputOrderStep
  <2>6. OutputOrder'
    BY <1>1, OutputOrderStep
  <2> QED BY <2>1, <2>2, <2>3, <2>4, <2>5, <2>6
<1>2. ASSUME NEW c \in Conn, SendMessage(c)
      PROVE  TableInv'
  <2>1. Descriptors' /\ Dialing' /\ InputOrder' /\ OutputOrder'
    BY <1>2, SendStep, DialingStep, SendKeepsOrder DEF Descriptors
  <2>2. Torn' /\ Hands'
    BY <1>2 DEF SendMessage, Torn, Hands, Sole, world
  <2> QED BY <2>1, <2>2
<1>3. CASE UNCHANGED vars
  <2>1. TypeOK' /\ Control' /\ Dialing' /\ Torn' /\ Hands'
    BY <1>3 DEF vars, Descriptors, TypeOK, Control, Dialing, Torn, Hands, Sole
  <2>2. Owned' /\ InHand' /\ Held'
    BY <1>3 DEF vars, Descriptors, Owned, InHand, Held, Over, HasEntry, Bound, Registered,
                Using, Sole
  <2>3. InputOrder'
    BY <1>3 DEF vars, InputOrder, InOrder, UpTo, Incoming, Over, HasEntry, Sole
  <2>4. OutputOrder'
    BY <1>3 DEF vars, OutputOrder, Whole, Sole
  <2> QED BY <2>1, <2>2, <2>3, <2>4 DEF Descriptors
<1> QED BY <1>1, <1>2, <1>3 DEF Next

\* The inductive invariant holds in every state of every run.
THEOREM TableInvariance == Spec => []TableInv
  BY TableInitially, TableInductive, PTL DEF Spec

-----------------------------------------------------------------------------
(* What follows                                                            *)

\* TypeOK: the descriptors, the map, the threads and the streams have their
\* types, and no thread receives more than its remote has sent.
THEOREM TableTypeCorrect == Spec => []TypeOK
<1>1. TableInv => TypeOK
  BY DEF TableInv, Descriptors
<1> QED BY <1>1, TableInvariance, PTL

\* OwnDescriptor: for connections that share their number with nobody, the map
\* names open descriptors only (handlePeerInput and handlePeerOutput close and
\* erase in one critical section), and nobody else's cleanup closes a descriptor
\* while its own remote is open.
THEOREM OwnDescriptorHolds == Spec => []OwnDescriptor
<1>1. TableInv => OwnDescriptor
  <2> SUFFICES ASSUME TableInv
               PROVE  OwnDescriptor
    OBVIOUS
  <2>1. RegisteredIsOpen
    BY DEF TableInv, Descriptors, RegisteredIsOpen, Owned, Held, HasEntry, Over, Sole
  <2>2. ClosedOnlyOnDisconnect
    BY DEF TableInv, Descriptors, ClosedOnlyOnDisconnect, Held, Torn, Dialing, Over, Sole
  <2> QED BY <2>1, <2>2 DEF OwnDescriptor
<1> QED BY <1>1, TableInvariance, PTL

\* What it takes of the invariant that nothing leaks but what sendHandshake
\* throws with.
LEMMA DescriptorsLeakNothing == Descriptors => NoLeak
<1> SUFFICES ASSUME Descriptors, NEW c \in Conn
             PROVE  /\ \/ caller[c] = "failed"
                       \/ reader[c].pc = "done" \/ writer[c].pc = "done"
                       => \A s \in Sock : owner[s] # c /\ peers[s] # c
                    /\ caller[c] = "thrown" /\ c \in Sole
                       => owner[fd[c]] = c /\ peers[fd[c]] = c
  BY DEF NoLeak
<1>1. Control /\ Owned /\ Held
  BY DEF Descriptors
<1>2. caller[c] = "failed" \/ reader[c].pc = "done" \/ writer[c].pc = "done"
         => Over(c) /\ ~HasEntry(c)
  BY DEF Over, HasEntry
<1>3. caller[c] = "thrown" => ~Over(c) /\ HasEntry(c)
  BY <1>1 DEF Control, Over, HasEntry
<1> QED BY <1>1, <1>2, <1>3 DEF Owned, Held

\* NoLeak: a connection that connectToPeer gave up, or one of whose threads has
\* cleaned up, has no descriptor and no entry left, even one that shared its
\* number.  One whose sendHandshake threw keeps both for good, if it has the
\* number to itself.
THEOREM NoLeakHolds == Spec => []NoLeak
<1>1. TableInv => NoLeak
  BY DescriptorsLeakNothing DEF TableInv
<1> QED BY <1>1, TableInvariance, PTL

\* InputInOrder: handlePeerInput brings a remote's stream to its entry
\* unbroken and in order.
THEOREM InputInOrderHolds == Spec => []InputInOrder
<1>1. TableInv => InputInOrder
  <2> SUFFICES ASSUME TableInv, NEW c \in Sole,
                      Registered(c), reader[c].pc \in {"recv", "append"}
               PROVE  Incoming(c) = [i \in 1 .. Len(Incoming(c)) |->
                                       <<c, stream[c].taken - Len(Incoming(c)) + i>>]
    BY DEF InputInOrder, Incoming
  <2>1. c \in Conn
    BY DEF Sole
  <2>2. fd[c] \in Sock
    BY <2>1 DEF Registered, TableInv, Descriptors, TypeOK
  <2>3. InOrder(c)
    <3>1. HasEntry(c)
      BY <2>1, <2>2 DEF TableInv, Descriptors, Owned, Registered
    <3>2. caller[c] \in {"up", "serving"}
      BY <2>1 DEF TableInv, Descriptors, Control
    <3>3. ~Over(c)
      BY <3>1, <3>2 DEF HasEntry, Over
    <3> QED BY <3>1, <3>3 DEF TableInv, InputOrder
  <2>4. Incoming(c) \in Seq(Item)
    BY <2>1, ConcatProperties DEF Incoming, TableInv, Descriptors, TypeOK
  <2>5. Incoming(c) \in [1 .. Len(Incoming(c)) -> Item]
    BY <2>4, LenProperties
  <2> QED BY <2>3, <2>5 DEF InOrder, UpTo
<1> QED BY <1>1, TableInvariance, PTL

\* OutputInOrder: handlePeerOutput sends the messages queued for a connection
\* in the order they were queued, none lost, repeated or overtaken.
THEOREM OutputInOrderHolds == Spec => []OutputInOrder
<1>1. TableInv => OutputInOrder
  <2> SUFFICES ASSUME TableInv, NEW c \in Sole
               PROVE  /\ IsPrefix(stream[c].wire, QueueOf(c, conn[c].queued))
                      /\ writer[c].pc \in {"poll", "send"} =>
                            Whole(c) = QueueOf(c, conn[c].queued)
    BY DEF OutputInOrder, QueueOf, Whole
  <2> DEFINE wire == stream[c].wire
             n == conn[c].queued
             q == QueueOf(c, n)
  <2>1. c \in Conn /\ wire \in Seq(Message) /\ n \in 0 .. MaxOut
    BY DEF Sole, TableInv, Descriptors, TypeOK
  <2>2. Len(wire) <= n /\ \A i \in 1 .. Len(wire) : wire[i] = <<c, i>>
    BY DEF TableInv, OutputOrder
  <2>3. q \in Seq(Message) /\ Len(q) = n /\ \A i \in 1 .. n : q[i] = <<c, i>>
    BY <2>1, QueueTyped
  <2> HIDE DEF wire, n, q
  <2>4. Len(wire) \in Nat
    BY <2>1, LenProperties
  <2>5. SubSeq(wire, 1, Len(wire)) = SubSeq(q, 1, Len(wire))
    <3>1. \A i \in 1 .. Len(wire) : wire[i] \in Message /\ q[i] \in Message /\ wire[i] = q[i]
      <4>1. ASSUME NEW i \in 1 .. Len(wire)
            PROVE  wire[i] \in Message /\ q[i] \in Message /\ wire[i] = q[i]
        <5>1. i \in 1 .. n /\ i \in 1 .. Len(q)
          BY <2>1, <2>2, <2>3, <2>4, TableAssumption
        <5>2. wire[i] \in Message /\ q[i] \in Message
          BY <2>1, <2>3, <5>1, ElementOfSeq
        <5> QED BY <2>2, <2>3, <5>1, <5>2
      <4> QED BY <4>1
    <3> QED BY <2>4, <3>1, SubSeqProperties, SeqEqual
  <2>6. IsPrefix(wire, q)
    BY <2>2, <2>3, <2>5 DEF IsPrefix
  <2> QED BY <2>6 DEF TableInv, OutputOrder, wire, q, n
<1> QED BY <1>1, TableInvariance, PTL

-----------------------------------------------------------------------------
(* The end of a connection                                                 *)

\* Whichever thread cleans up first, the other one finds the connection gone when
\* it next looks: handlePeerOutput finds no entry, or recv() fails in
\* handlePeerInput.  Nothing else would ever end it.
OneEndsTheOther ==
    \A c \in Sole :
        /\ reader[c].pc = "done" /\ writer[c].pc = "poll" => peers[fd[c]] = NoConn
        /\ writer[c].pc = "done" /\ reader[c].pc = "recv" => owner[fd[c]] = NoConn

\* It holds because a number that somebody else has meanwhile got, and entered, is
\* still in the hand of the other thread, and so is shared.
THEOREM OneEndsTheOtherHolds == Spec => []OneEndsTheOther
<1>1. TableInv => OneEndsTheOther
  <2> SUFFICES ASSUME TableInv, NEW c \in Sole,
                      reader[c].pc = "done" \/ writer[c].pc = "done",
                      reader[c].pc = "recv" \/ writer[c].pc = "poll"
               PROVE  owner[fd[c]] = NoConn /\ peers[fd[c]] = NoConn
    BY DEF OneEndsTheOther
  <2>1. c \in Conn /\ Using(c) /\ Over(c) /\ Descriptors
    BY DEF TableInv, Using, Over, Sole
  <2>2. caller[c] # "start"
    BY <2>1 DEF Descriptors, Control
  <2>3. fd[c] \in Sock
    BY <2>1, <2>2 DEF Descriptors, Control, TypeOK
  <2>4. owner[fd[c]] # c /\ peers[fd[c]] # c
    BY <2>1, <2>3 DEF Descriptors, Owned, Over, HasEntry
  <2> QED BY <2>1, <2>3, <2>4, FindsNobodyElse
<1> QED BY <1>1, TableInvariance, PTL

\* How much a connection still has to do after its remote has closed: what it can
\* still receive, take from its buffer or have queued, and where its threads are.
Rank(pc) == IF pc \in {"append", "send"} THEN 3
            ELSE IF pc \in {"recv", "poll"} THEN 2
            ELSE IF pc = "cleanup" THEN 1 ELSE 0
InputLeft(c) == 2 * Waiting(c) + Rank(reader[c].pc)
OutputLeft(c) ==
    3 * (MaxOut - conn[c].queued) + 2 * Len(conn[c].output) + Rank(writer[c].pc)
WorkLeft(c) == InputLeft(c) + OutputLeft(c)

\* Sums of that kind.
LEMMA Sums ==
    ASSUME NEW a \in Nat, NEW b \in Nat, NEW r \in Nat, NEW t \in Nat
    PROVE  /\ 3 * a + 2 * b + r \in Nat
           /\ t < r => 3 * a + 2 * b + t < 3 * a + 2 * b + r
           /\ b > 0 => 3 * a + 3 < 3 * a + 2 * b + 2
           /\ 3 * a + 3 \in Nat
           /\ 3 * (a - 1) + 2 * (b + 1) + r < 3 * a + 2 * b + r
           /\ 3 * (a - 1) + 2 * (b + 1) + r \in Int
  OBVIOUS

\* It is a number.
LEMMA WorkTyped ==
    ASSUME TypeOK, NEW c \in Conn
    PROVE  /\ Waiting(c) \in Nat /\ Len(conn[c].output) \in Nat
           /\ conn[c].queued \in 0 .. MaxOut /\ MaxOut \in Nat
           /\ InputLeft(c) \in Nat /\ OutputLeft(c) \in Nat
<1>1. /\ stream[c].sent \in Nat /\ stream[c].taken \in Nat
      /\ stream[c].taken <= stream[c].sent
  BY TableAssumption DEF TypeOK
<1>2. Waiting(c) \in Nat
  BY <1>1 DEF Waiting
<1>3. conn[c].output \in Seq(Message) /\ conn[c].queued \in 0 .. MaxOut /\ MaxOut \in Nat
  BY TableAssumption DEF TypeOK
<1>4. Len(conn[c].output) \in Nat
  BY <1>3, LenProperties
<1>5. \A pc : Rank(pc) \in 0 .. 3
  BY DEF Rank
<1>6. InputLeft(c) \in Nat
  BY <1>2, <1>5 DEF InputLeft
<1>7. OutputLeft(c) \in Nat
  <2>1. Rank(writer[c].pc) \in Nat /\ MaxOut - conn[c].queued \in Nat
    BY <1>3, <1>5
  <2> QED BY <1>4, <2>1, Sums DEF OutputLeft
<1> QED BY <1>2, <1>3, <1>4, <1>6, <1>7

\* The input thread receives some of what waits for it, or goes on, unless the
\* process dies of what it parses.
LEMMA InputLowers ==
    ASSUME Descriptors, NEW c \in Sole, InputThread(c), ~InputDies(c)
    PROVE  /\ InputLeft(c)' < InputLeft(c) /\ InputLeft(c)' \in Int
           /\ OutputLeft(c)' = OutputLeft(c)
<1>1. c \in Conn /\ caller[c] # "start" /\ TypeOK
  BY DEF Descriptors, Sole, Control, InputThread, InputReceives, InputEnds,
         InputAppends, InputDies, InputCleanup
<1>2. fd[c] \in Sock /\ owner[fd[c]] \in {c, NoConn} /\ peers[fd[c]] \in {c, NoConn}
  BY <1>1, ThreadsUse, FindsNobodyElse DEF Descriptors
<1>3. Waiting(c) \in Nat
  BY <1>1, WorkTyped
<1>4. conn'[c].output = conn[c].output /\ conn'[c].queued = conn[c].queued /\ writer' = writer
  <2>1. CASE InputAppends(c)
    <3>1. conn' = conn \/ conn' = [conn EXCEPT ![c].input = @ \o reader[c].hand]
      BY <1>2, <2>1 DEF InputAppends
    <3>2. conn[c] \in Conns
      BY <1>1 DEF TypeOK, Conns
    <3>3. conn'[c] = conn[c] \/ conn'[c] = [conn[c] EXCEPT !.input = @ \o reader[c].hand]
      BY <1>1, <3>1 DEF TypeOK
    <3> QED BY <2>1, <3>2, <3>3 DEF InputAppends, Conns
  <2> QED BY <2>1 DEF InputThread, InputReceives, InputEnds, InputCleanup
<1>5. OutputLeft(c)' = OutputLeft(c)
  BY <1>4 DEF OutputLeft
<1>6. CASE InputReceives(c)
  <2>1. PICK n \in 1 .. MaxItems :
           /\ Receives(fd[c], n)
           /\ reader' = [reader EXCEPT ![c] =
                 [pc |-> "append",
                  hand |-> [i \in 1 .. n |->
                              <<owner[fd[c]], stream[owner[fd[c]]].taken + i>>]]]
    BY <1>6 DEF InputReceives
  <2>2. owner[fd[c]] = c /\ stream' = [stream EXCEPT ![c].taken = @ + n]
    BY <1>2, <2>1 DEF Receives
  <2>3. /\ stream[c] \in [sent : 0 .. MaxItems, taken : 0 .. MaxItems,
                          wire : Seq(Message), open : BOOLEAN]
        /\ stream'[c] = [stream[c] EXCEPT !.taken = @ + n]
    BY <1>1, <2>2 DEF TypeOK
  <2>4. stream'[c].sent = stream[c].sent /\ stream'[c].taken = stream[c].taken + n
        /\ stream[c].sent \in Nat /\ stream[c].taken \in Nat /\ n \in Nat \ {0}
    BY <2>1, <2>3, TableAssumption
  <2>5. Waiting(c)' = Waiting(c) - n
    BY <2>4 DEF Waiting
  <2>6. reader[c].pc = "recv" /\ reader'[c].pc = "append"
    BY <1>1, <1>6, <2>1 DEF InputReceives, TypeOK
  <2>7. InputLeft(c) = 2 * Waiting(c) + 2 /\ InputLeft(c)' = 2 * Waiting(c)' + 3
    BY <2>6 DEF InputLeft, Rank
  <2> QED BY <1>3, <1>5, <2>4, <2>5, <2>7
<1>7. CASE ~InputReceives(c)
  <2>1. stream' = stream
    BY <1>7 DEF InputThread, InputEnds, InputAppends, InputCleanup
  <2>2. \/ reader[c].pc = "recv" /\ reader'[c].pc = "cleanup"
        \/ reader[c].pc = "append" /\ reader'[c].pc = "recv"
        \/ reader[c].pc = "cleanup" /\ reader'[c].pc = "done"
    <3>1. CASE InputAppends(c)
      BY <1>1, <3>1 DEF InputAppends, TypeOK
    <3>2. CASE InputEnds(c)
      BY <1>1, <3>2, ReaderGoes DEF InputEnds
    <3>3. CASE InputCleanup(c)
      BY <1>1, <3>3, ReaderGoes DEF InputCleanup
    <3> QED BY <1>7, <3>1, <3>2, <3>3 DEF InputThread
  <2>3. Rank(reader[c].pc) \in Nat /\ Rank(reader'[c].pc) \in Nat
        /\ Rank(reader'[c].pc) < Rank(reader[c].pc)
    BY <2>2 DEF Rank
  <2>4. InputLeft(c)' = 2 * Waiting(c) + Rank(reader'[c].pc)
    BY <2>1 DEF InputLeft, Waiting
  <2> QED BY <1>3, <1>5, <2>3, <2>4 DEF InputLeft
<1> QED BY <1>6, <1>7

\* The output thread takes messages from the buffer, or goes on.
LEMMA OutputLowers ==
    ASSUME Descriptors, NEW c \in Sole, OutputThread(c)
    PROVE  /\ OutputLeft(c)' < OutputLeft(c) /\ OutputLeft(c)' \in Int
           /\ InputLeft(c)' = InputLeft(c)
<1>1. c \in Conn /\ caller[c] # "start" /\ TypeOK
  BY DEF Descriptors, Sole, Control, OutputThread, OutputTakes, OutputEnds,
         OutputSends, OutputCleanup
<1>2. fd[c] \in Sock /\ owner[fd[c]] \in {c, NoConn} /\ peers[fd[c]] \in {c, NoConn}
  BY <1>1, ThreadsUse, FindsNobodyElse DEF Descriptors
<1>3. /\ Len(conn[c].output) \in Nat /\ conn[c].queued \in 0 .. MaxOut /\ MaxOut \in Nat
  BY <1>1, WorkTyped
<1>4. stream'[c].sent = stream[c].sent /\ stream'[c].taken = stream[c].taken
      /\ reader' = reader
  <2>1. CASE OutputSends(c)
    <3>1. stream' = stream \/ stream' = [stream EXCEPT ![c].wire = @ \o writer[c].hand]
      BY <1>2, <2>1 DEF OutputSends
    <3>2. stream[c] \in [sent : 0 .. MaxItems, taken : 0 .. MaxItems,
                         wire : Seq(Message), open : BOOLEAN]
      BY <1>1 DEF TypeOK
    <3>3. stream'[c] = stream[c] \/ stream'[c] = [stream[c] EXCEPT !.wire = @ \o writer[c].hand]
      BY <1>1, <3>1 DEF TypeOK
    <3> QED BY <2>1, <3>2, <3>3 DEF OutputSends
  <2> QED BY <2>1 DEF OutputThread, OutputTakes, OutputEnds, OutputCleanup
<1>5. InputLeft(c)' = InputLeft(c)
  BY <1>4 DEF InputLeft, Waiting
<1>6. CASE OutputTakes(c)
  <2>1. /\ peers[fd[c]] = c /\ conn[c].output # <<>>
        /\ writer' = [writer EXCEPT ![c] = [pc |-> "send", hand |-> conn[c].output]]
        /\ conn' = [conn EXCEPT ![c].output = <<>>]
    BY <1>2, <1>6 DEF OutputTakes
  <2>2. conn[c] \in Conns /\ conn'[c] = [conn[c] EXCEPT !.output = <<>>]
    BY <1>1, <2>1 DEF TypeOK, Conns
  <2>3. conn'[c].queued = conn[c].queued /\ Len(conn'[c].output) = 0
    BY <2>2, EmptySeq DEF Conns
  <2>4. Len(conn[c].output) > 0
    BY <1>3, <2>1, <2>2, EmptySeq DEF Conns
  <2>5. writer[c].pc = "poll" /\ writer'[c].pc = "send"
    BY <1>1, <1>6, <2>1 DEF OutputTakes, TypeOK
  <2>6. OutputLeft(c)' = 3 * (MaxOut - conn[c].queued) + 3
    BY <1>3, <2>3, <2>5 DEF OutputLeft, Rank
  <2>7. OutputLeft(c) = 3 * (MaxOut - conn[c].queued) + 2 * Len(conn[c].output) + 2
    BY <2>5 DEF OutputLeft, Rank
  <2> DEFINE a == MaxOut - conn[c].queued
             b == Len(conn[c].output)
  <2>8. a \in Nat /\ b \in Nat /\ b > 0 /\ 0 \in Nat
    BY <1>3, <2>4
  <2>9. OutputLeft(c)' = 3 * a + 3 /\ OutputLeft(c) = 3 * a + 2 * b + 2
    BY <2>6, <2>7
  <2> HIDE DEF a, b
  <2>10. OutputLeft(c)' < OutputLeft(c) /\ OutputLeft(c)' \in Int
    BY <2>8, <2>9, Sums
  <2> QED BY <1>5, <2>10
<1>7. CASE ~OutputTakes(c)
  <2>1. conn' = conn
    BY <1>7 DEF OutputThread, OutputEnds, OutputSends, OutputCleanup
  <2>2. \/ writer[c].pc = "poll" /\ writer'[c].pc = "cleanup"
        \/ writer[c].pc = "send" /\ writer'[c].pc \in {"poll", "cleanup"}
        \/ writer[c].pc = "cleanup" /\ writer'[c].pc = "done"
    <3>1. CASE OutputSends(c)
      BY <1>1, <3>1 DEF OutputSends, TypeOK
    <3>2. CASE OutputEnds(c)
      BY <1>1, <3>2, WriterGoes DEF OutputEnds
    <3>3. CASE OutputCleanup(c)
      BY <1>1, <3>3, WriterGoes DEF OutputCleanup
    <3> QED BY <1>7, <3>1, <3>2, <3>3 DEF OutputThread
  <2>3. Rank(writer[c].pc) \in Nat /\ Rank(writer'[c].pc) \in Nat
        /\ Rank(writer'[c].pc) < Rank(writer[c].pc)
    BY <2>2 DEF Rank
  <2>4. OutputLeft(c)' = 3 * (MaxOut - conn[c].queued) + 2 * Len(conn[c].output)
                            + Rank(writer'[c].pc)
    BY <2>1 DEF OutputLeft
  <2>5. MaxOut - conn[c].queued \in Nat
    BY <1>3
  <2> DEFINE a == MaxOut - conn[c].queued
             b == Len(conn[c].output)
             r == Rank(writer[c].pc)
             t == Rank(writer'[c].pc)
  <2>6. OutputLeft(c) = 3 * a + 2 * b + r /\ OutputLeft(c)' = 3 * a + 2 * b + t
    BY <2>4 DEF OutputLeft
  <2>7. a \in Nat /\ b \in Nat /\ r \in Nat /\ t \in Nat /\ t < r
    BY <1>3, <2>3, <2>5
  <2> HIDE DEF a, b, r, t
  <2>8. OutputLeft(c)' < OutputLeft(c) /\ OutputLeft(c)' \in Int
    BY <2>6, <2>7, Sums
  <2> QED BY <1>5, <2>8
<1> QED BY <1>6, <1>7

\* Each message that is queued is one less that can be.
LEMMA QueueingLowers ==
    ASSUME TypeOK, Control, NEW d \in Conn, SendMessage(d), NEW c \in Conn
    PROVE  /\ OutputLeft(c)' <= OutputLeft(c) /\ OutputLeft(c)' \in Int
           /\ InputLeft(c)' = InputLeft(c)
<1> DEFINE o == peers[fd[d]]
<1>1. /\ o \in Conn /\ conn[o].queued < MaxOut
      /\ conn' = [conn EXCEPT ![o].output = Append(@, <<o, conn[o].queued + 1>>),
                              ![o].queued = @ + 1]
  <2>1. fd[d] \in Sock
    BY DEF SendMessage, Control, TypeOK
  <2> QED BY <2>1 DEF SendMessage, TypeOK
<1>2. reader' = reader /\ writer' = writer /\ stream' = stream
  BY DEF SendMessage
<1>3. InputLeft(c)' = InputLeft(c)
  BY <1>2 DEF InputLeft, Waiting
<1>4. conn[c] \in Conns /\ conn \in [Conn -> Conns]
  BY DEF TypeOK, Conns
<1>5. /\ Len(conn[c].output) \in Nat /\ conn[c].queued \in 0 .. MaxOut /\ MaxOut \in Nat
      /\ OutputLeft(c) \in Nat
  BY WorkTyped
<1> HIDE DEF o
<1>6. CASE c = o
  <2>1. conn'[c] = [conn[c] EXCEPT !.output = Append(@, <<o, conn[o].queued + 1>>),
                                   !.queued = @ + 1]
    BY <1>1, <1>4, <1>6
  <2>2. /\ conn'[c].output = Append(conn[c].output, <<o, conn[o].queued + 1>>)
        /\ conn'[c].queued = conn[c].queued + 1
    BY <1>4, <2>1 DEF Conns
  <2>3. Len(conn'[c].output) = Len(conn[c].output) + 1
    <3>1. conn[c].output \in Seq(Message) /\ <<o, conn[o].queued + 1>> \in Message
      BY <1>1, <1>4, <1>5, <1>6 DEF Conns, Message
    <3> QED BY <2>2, <3>1, AppendProperties
  <2>4. Rank(writer[c].pc) \in Nat
    BY DEF Rank
  <2>5. /\ MaxOut - conn[c].queued \in Nat
        /\ MaxOut - (conn[c].queued + 1) = (MaxOut - conn[c].queued) - 1
    BY <1>5
  <2>6. OutputLeft(c)' = 3 * ((MaxOut - conn[c].queued) - 1)
                            + 2 * (Len(conn[c].output) + 1) + Rank(writer[c].pc)
    BY <1>2, <2>2, <2>3, <2>5 DEF OutputLeft
  <2>7. OutputLeft(c)' < OutputLeft(c) /\ OutputLeft(c)' \in Int
    BY <1>5, <2>4, <2>5, <2>6, Sums DEF OutputLeft
  <2> QED BY <1>3, <1>5, <2>7
<1>7. CASE c # o
  <2>1. conn'[c] = conn[c]
    BY <1>1, <1>4, <1>7
  <2>2. OutputLeft(c)' = OutputLeft(c)
    BY <1>2, <2>1 DEF OutputLeft
  <2> QED BY <1>3, <1>5, <2>2
<1> QED BY <1>6, <1>7

\* The end of c's connection comes nearer with each step of its two threads that
\* the process survives, and nobody puts it off: not the threads of other
\* connections, nor the messages that are still queued for it.
NearerToItsEnd(c) ==
    /\ WorkLeft(c)' <= WorkLeft(c)
    /\ alive' /\ (InputThread(c) \/ OutputThread(c)) => WorkLeft(c)' < WorkLeft(c)

\* Once its remote has closed, a connection that shares its number with nobody is
\* taken down in a bounded number of steps of handlePeerInput and
\* handlePeerOutput.  That they run is what PeerServer's Reclaimed assumes.
THEOREM TearDownIsBounded ==
    Spec => /\ [](\A c \in Conn : WorkLeft(c) \in Nat)
            /\ [][\A c \in Sole' : caller[c] = "up" /\ ~stream[c].open
                                       => NearerToItsEnd(c)]_vars
<1>1. ASSUME TableInv, Next, NEW c \in Sole', caller[c] = "up", ~stream[c].open
      PROVE  NearerToItsEnd(c)
  <2>1. PICK d \in Conn : \/ ConnectToPeer(d) \/ InputThread(d) \/ OutputThread(d)
                          \/ SendMessage(d) \/ RemoteSends(d) \/ RemoteCloses(d)
    BY <1>1 DEF Next
  <2>2. c \in Sole /\ c \in Conn
    BY <2>1, SharedGrows DEF Sole
  <2>3. Descriptors /\ TypeOK /\ Control
    BY <1>1 DEF TableInv, Descriptors
  <2>4. InputLeft(c) \in Nat /\ OutputLeft(c) \in Nat
    BY <2>2, <2>3, WorkTyped
  <2>5. InputThread(c) /\ ~InputDies(c)
           => /\ InputLeft(c)' < InputLeft(c) /\ InputLeft(c)' \in Int
              /\ OutputLeft(c)' = OutputLeft(c)
    BY <2>2, <2>3, InputLowers
  <2>6. OutputThread(c) => /\ OutputLeft(c)' < OutputLeft(c) /\ OutputLeft(c)' \in Int
                           /\ InputLeft(c)' = InputLeft(c)
    BY <2>2, <2>3, OutputLowers
  <2>7. /\ InputLeft(c)' <= InputLeft(c) /\ OutputLeft(c)' <= OutputLeft(c)
        /\ InputLeft(c)' \in Int /\ OutputLeft(c)' \in Int
    <3>1. CASE d # c /\ ~SendMessage(d)
      <4>1. /\ conn'[c] = conn[c] /\ stream'[c] = stream[c]
            /\ reader'[c] = reader[c] /\ writer'[c] = writer[c]
        BY <2>1, <2>3, <3>1, Frame
      <4>2. InputLeft(c)' = InputLeft(c) /\ OutputLeft(c)' = OutputLeft(c)
        BY <4>1 DEF InputLeft, OutputLeft, Waiting
      <4> QED BY <2>4, <4>2
    <3>2. CASE SendMessage(d)
      BY <2>2, <2>3, <2>4, <3>2, QueueingLowers
    <3>3. CASE d = c /\ (ConnectToPeer(c) \/ RemoteSends(c) \/ RemoteCloses(c))
      BY <1>1, <3>3 DEF ConnectToPeer, OpenSocket, ConnectFails, ConnectSucceeds,
             Register, Handshake, FirstMessage, RestOfFirstMessage, HandshakeThrows, StartThreads,
             RemoteSends, RemoteCloses
    <3>4. CASE InputDies(c)
      <4>1. InputLeft(c)' = InputLeft(c) /\ OutputLeft(c)' = OutputLeft(c)
        BY <3>4 DEF InputDies, InputLeft, OutputLeft, Waiting
      <4> QED BY <2>4, <4>1
    <3> QED BY <2>1, <2>4, <2>5, <2>6, <3>1, <3>2, <3>3, <3>4
  <2>8. InputDies(c) => ~alive'
    BY DEF InputDies
  <2> QED BY <2>4, <2>5, <2>6, <2>7, <2>8 DEF NearerToItsEnd, WorkLeft
<1>2. TableInv /\ [Next]_vars
         => [\A c \in Sole' : caller[c] = "up" /\ ~stream[c].open => NearerToItsEnd(c)]_vars
  BY <1>1
<1>3. TableInv => \A c \in Conn : WorkLeft(c) \in Nat
  BY WorkTyped DEF TableInv, Descriptors, WorkLeft
<1> QED BY <1>2, <1>3, TableInvariance, PTL DEF Spec
=============================================================================
