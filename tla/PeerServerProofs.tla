-------------------------- MODULE PeerServerProofs --------------------------
(***************************************************************************)
(* Theorems about PeerServer: incoming clients give back what they were    *)
(* given, the process dies of four things only, and no client is served    *)
(* but by mistake.                                                         *)
(***************************************************************************)
EXTENDS PeerServer, PeerTableProofs

\* The invariant of the descriptors, and of who dies and who is served.
ServerInv == Descriptors /\ DiesOf /\ ServedByMistake

\* A step for one connection.
Step(c) == \/ ConnectToPeer(c) \/ SendMessage(c) \/ OutputThread(c)
           \/ Accept(c) \/ Client(c) \/ InputThrows(c)
           \/ InputThread(c) \/ RemoteSends(c) \/ RemoteCloses(c)

-----------------------------------------------------------------------------
(* Descriptors                                                             *)

\* accept() keeps the descriptors in order.
LEMMA AcceptStep ==
    ASSUME Descriptors, NEW c \in Conn, Accept(c)
    PROVE  Descriptors'
<1> USE TableAssumption DEF Descriptors
<1>1. PICK s \in Sock : /\ owner[s] = NoConn
                       /\ owner' = [owner EXCEPT ![s] = c]
                       /\ fd' = [fd EXCEPT ![c] = s]
                       /\ Share(c, s)
  BY DEF Accept
<1>2. TypeOK'
  <2>1. shared' \subseteq Conn
    BY <1>1 DEF Share, Rivals, TypeOK
  <2> QED BY <1>1, <2>1 DEF Accept, TypeOK
<1>3. Control'
  BY <1>1 DEF Accept, TypeOK, Control
<1>4. /\ caller[c] = "start" /\ "accepted" \in CallerPc
      /\ caller' = [caller EXCEPT ![c] = "accepted"] /\ UNCHANGED <<reader, writer>>
  BY DEF Accept, CallerPc
<1>5. caller'[c] = "accepted" /\ \A d \in Conn \ {c} : Unchanged(d)
  BY <1>4, CallerGoes
<1>6. ~Over(c)' /\ ~HasEntry(c)'
  BY <1>4, <1>5 DEF Control, Over, HasEntry
<1> QED BY <1>1, <1>2, <1>3, <1>5, <1>6, OpeningStep DEF Accept

\* A client's thread keeps them in order, until run() serves the client.
LEMMA ClientStep ==
    ASSUME Descriptors, NEW c \in Conn, Client(c)
    PROVE  Descriptors'
<1> USE TableAssumption DEF Descriptors
<1>1. caller[c] # "start" /\ fd[c] \in Sock
  BY DEF Client, ValidHandshake, InvalidHandshake, CloseAndThrow, CatchCloses,
         StoreIds, Serve, Control, TypeOK
<1>2. CASE ValidHandshake(c) \/ InvalidHandshake(c)
  <2>1. StreamOK'
    BY <1>1, <1>2, ReadsTyped DEF ValidHandshake, InvalidHandshake
  <2>2. /\ caller[c] = "accepted"
        /\ \E pc \in {"valid", "invalid"} : caller' = [caller EXCEPT ![c] = pc]
        /\ UNCHANGED <<owner, peers, fd, reader, writer, conn, seeders, alive, shared>>
    BY <1>2 DEF ValidHandshake, InvalidHandshake, world
  <2>3. caller' \in [Conn -> CallerPc] /\ Control'
    <3>1. PICK pc \in {"valid", "invalid"} : caller' = [caller EXCEPT ![c] = pc]
      BY <2>2
    <3>2. caller' \in [Conn -> CallerPc]
      BY <3>1 DEF CallerPc, TypeOK
    <3>3. Control'
      BY <1>1, <2>2, <3>1 DEF TypeOK, Control
    <3> QED BY <3>2, <3>3
  <2>4. TypeOK'
    BY <2>1, <2>2, <2>3 DEF StreamOK, TypeOK, CallerPc
  <2>5. \A d \in Conn : Unchanged(d)
    BY <2>2 DEF TypeOK, Over, HasEntry, Using, Idle, Unchanged
  <2> QED BY <2>2, <2>3, <2>4, <2>5, QuietStep DEF Quiet
<1>3. CASE CloseAndThrow(c) \/ CatchCloses(c)
  <2>1. /\ owner' = [owner EXCEPT ![fd[c]] = NoConn]
        /\ UNCHANGED <<peers, fd, reader, writer, conn, stream, seeders, alive, shared>>
    BY <1>3 DEF CloseAndThrow, CatchCloses, CloseSocket, world
  <2>2. PICK pc \in {"catch", "gone", "stale"} :
          /\ caller' = [caller EXCEPT ![c] = pc]
          /\ caller[c] \in {"invalid", "catch"} \/ (caller[c] = "unwind" /\ pc = "stale")
    BY <1>3 DEF CloseAndThrow, CatchCloses
  <2>3. /\ caller' \in [Conn -> CallerPc] /\ caller'[c] = pc
        /\ \A d \in Conn \ {c} : caller'[d] = caller[d] /\ Unchanged(d)
    BY <2>1, <2>2, CallerGoes DEF CallerPc
  <2>4. TypeOK'
    BY <2>1, <2>3 DEF TypeOK, CallerPc
  <2>5. Control'
    BY <2>1, <2>2, <2>3 DEF Control
  <2>6. Using(c) /\ Over(c)' /\ (HasEntry(c) => HasEntry(c)')
    BY <2>1, <2>2, <2>3 DEF Over, HasEntry, Using, Idle
  <2> QED BY <1>1, <2>1, <2>3, <2>4, <2>5, <2>6, ClosingStep DEF Closing
<1>4. CASE StoreIds(c)
  <2>1. /\ caller[c] = "valid" /\ alive' \in BOOLEAN
        /\ caller' = caller \/ caller' = [caller EXCEPT ![c] = "known"]
        /\ UNCHANGED <<owner, peers, fd, reader, writer, conn, stream, seeders, shared>>
    BY <1>4 DEF StoreIds, TypeOK
  <2>2. /\ caller' \in [Conn -> CallerPc] /\ caller'[c] \in {"valid", "known"}
        /\ \A d \in Conn \ {c} : caller'[d] = caller[d] /\ Unchanged(d)
    <3>1. CASE caller' = caller
      BY <2>1, <3>1 DEF TypeOK, CallerPc, Unchanged, Over, HasEntry, Using
    <3>2. CASE caller' = [caller EXCEPT ![c] = "known"]
      BY <2>1, <3>2, CallerGoes DEF CallerPc
    <3> QED BY <2>1, <3>1, <3>2
  <2>3. TypeOK'
    BY <2>1, <2>2 DEF TypeOK, CallerPc
  <2>4. Control' /\ Unchanged(c)
    BY <2>1, <2>2 DEF Control, Over, HasEntry, Using, Idle, Unchanged
  <2> QED BY <2>1, <2>2, <2>3, <2>4, QuietStep DEF Quiet
<1>5. CASE Serve(c)
  <2>1. /\ reader' \in [Conn -> Readers] /\ reader'[c].pc = "recv"
        /\ \A d \in Conn \ {c} : reader'[d] = reader[d]
    BY <1>5, ReaderGoes DEF Serve
  <2>2. TypeOK'
    BY <1>1, <1>5, <2>1 DEF Serve, TypeOK, Readers, world
  <2>3. Control'
    <3>1. /\ caller[c] = "known" /\ caller'[c] = "serving"
          /\ \A d \in Conn \ {c} : caller'[d] = caller[d]
          /\ fd' = fd /\ writer' = writer
      BY <1>5 DEF Serve, TypeOK
    <3> QED BY <2>1, <3>1 DEF Control
  <2>4. ~Over(c) /\ Using(c) /\ ~Over(c)' /\ HasEntry(c)' /\ Using(c)'
    BY <1>5, <2>1 DEF Serve, TypeOK, Control, Over, HasEntry, Using, Idle
  <2>5. \A d \in Conn \ {c} : Unchanged(d)
    BY <1>5, <2>1 DEF Serve, TypeOK, Over, HasEntry, Using, Unchanged
  <2> QED BY <1>5, <2>2, <2>3, <2>4, <2>5, EnteringStep DEF Serve, world
<1> QED BY <1>2, <1>3, <1>4, <1>5 DEF Client

\* An exception from the parser leaves the client's descriptor in the hand of its
\* thread, and its entry where it is.
LEMMA ThrowStep ==
    ASSUME Descriptors, NEW c \in Conn, InputThrows(c)
    PROVE  Descriptors'
<1> USE TableAssumption DEF Descriptors
<1> DEFINE o == peers[fd[c]]
           all == conn[o].input \o reader[c].hand
<1>1. /\ caller[c] = "serving" /\ reader[c].pc = "append" /\ o \in Conn
      /\ conn' = [conn EXCEPT ![o].input = all]
      /\ reader' = [reader EXCEPT ![c] = [pc |-> "none", hand |-> <<>>]]
      /\ caller' = [caller EXCEPT ![c] = "unwind"]
      /\ UNCHANGED <<owner, peers, fd, writer, stream, seeders, alive, shared>>
  BY DEF InputThrows, Control, TypeOK, world
<1>2. all \in Seq(Item)
  <2>1. conn[o].input \in Seq(Item) /\ reader[c].hand \in Seq(Item)
    BY <1>1 DEF TypeOK
  <2> QED BY <2>1, ConcatProperties
<1> HIDE DEF o, all
<1>3. conn' \in [Conn -> Conns]
  <2>1. conn \in [Conn -> Conns]
    BY DEF TypeOK, Conns
  <2>2. [conn[o] EXCEPT !.input = all] \in Conns
    BY <1>1, <1>2, <2>1 DEF Conns
  <2>3. conn' = [conn EXCEPT ![o] = [conn[o] EXCEPT !.input = all]]
    BY <1>1, <2>1
  <2> QED BY <1>1, <2>1, <2>2, <2>3
<1>4. /\ reader' \in [Conn -> Readers] /\ reader'[c].pc = "none"
      /\ \A d \in Conn \ {c} : reader'[d] = reader[d]
  <2>1. reader \in [Conn -> Readers] /\ <<>> \in Seq(Item)
    BY EmptySeq DEF TypeOK, Readers
  <2>2. [pc |-> "none", hand |-> <<>>] \in Readers
    BY <2>1 DEF Readers
  <2> QED BY <1>1, <2>1, <2>2
<1>5. /\ caller' \in [Conn -> CallerPc] /\ caller'[c] = "unwind"
      /\ \A d \in Conn \ {c} : caller'[d] = caller[d]
  BY <1>1 DEF TypeOK, CallerPc
<1>6. TypeOK'
  BY <1>1, <1>3, <1>4, <1>5 DEF TypeOK, CallerPc, Conns, Readers
<1>7. Control'
  BY <1>1, <1>4, <1>5 DEF Control
<1>8. writer[c].pc = "none"
  BY <1>1 DEF Control
<1>9. \A d \in Conn : Unchanged(d)
  BY <1>1, <1>4, <1>5, <1>8 DEF Over, HasEntry, Using, Idle, Unchanged
<1> QED BY <1>1, <1>6, <1>7, <1>9, QuietStep DEF Quiet

\* So the descriptors are in order after every step for a connection ...
LEMMA ServerDescriptors ==
    ASSUME Descriptors, NEW c \in Conn, Step(c)
    PROVE  Descriptors'
  BY ConnectStep, SendStep, AcceptStep, ClientStep, ThrowStep, ThreadStep, RemoteStep
     DEF Step

\* ... and after those that change neither them nor who has them in hand.
LEMMA IdleStep ==
    ASSUME Descriptors, alive' \in BOOLEAN,
           UNCHANGED <<owner, peers, fd, caller, reader, writer, conn, stream, seeders,
                       shared>>
    PROVE  Descriptors'
<1>1. TypeOK' /\ Control'
  BY DEF Descriptors, TypeOK, Control
<1>2. \A d \in Conn : Unchanged(d)
  BY DEF Over, HasEntry, Using, Unchanged
<1> QED BY <1>1, <1>2, QuietStep DEF Quiet, Descriptors

\* optimisticUnchoke queues one message, or nothing.
LEMMA OptimisticStep ==
    ASSUME Descriptors, NEW c \in Conn, OptimisticUnchoke(c)
    PROVE  Descriptors'
<1>1. alive \in BOOLEAN
  BY DEF Descriptors, TypeOK
<1>2. CASE alive' \in BOOLEAN
           /\ UNCHANGED <<owner, peers, fd, caller, reader, writer, conn, stream, seeders,
                         shared>>
  BY <1>2, IdleStep
<1>3. CASE /\ conn[c].queued < MaxOut
           /\ conn' = [conn EXCEPT ![c].output = Append(@, <<c, conn[c].queued + 1>>),
                                   ![c].queued = @ + 1]
           /\ UNCHANGED <<owner, peers, fd, caller, reader, writer, stream, world>>
  BY <1>3, QueueingStep
<1> QED BY <1>1, <1>2, <1>3 DEF OptimisticUnchoke, vars

-----------------------------------------------------------------------------
(* Who dies, and who is served                                             *)

\* A dead process takes no step, and what a step for a connection kills it with is
\* a first message, the IDs of a client without an entry, or what a thread appends
\* to an entry that is there.
LEMMA DyingStep ==
    ASSUME NEW c \in Conn, Step(c)
    PROVE  /\ alive
           /\ ~alive' => /\ UNCHANGED <<caller, reader, peers, fd, seeders>>
                         /\ \/ caller[c] \in {"message", "extra"} /\ c \in seeders
                            \/ caller[c] = "valid" /\ peers[fd[c]] = NoConn
                            \/ reader[c].pc = "append" /\ peers[fd[c]] # NoConn
<1>1. CASE FirstMessage(c) \/ RestOfFirstMessage(c)
  BY <1>1 DEF FirstMessage, RestOfFirstMessage, DispatchFirstMessage
<1>2. CASE StoreIds(c)
  BY <1>2 DEF StoreIds
<1>3. CASE InputDies(c)
  BY <1>3 DEF InputDies
<1>4. CASE ConnectToPeer(c) /\ ~FirstMessage(c) /\ ~RestOfFirstMessage(c)
  <2>1. alive /\ alive' = alive
    BY <1>4 DEF ConnectToPeer, OpenSocket, ConnectFails, ConnectSucceeds, Register,
                Handshake, HandshakeThrows, StartThreads, world
  <2> QED BY <2>1
<1>5. CASE (InputThread(c) /\ ~InputDies(c)) \/ OutputThread(c)
  <2>1. alive /\ alive' = alive
    BY <1>5 DEF InputThread, InputReceives, InputEnds, InputAppends, InputCleanup,
                OutputThread, OutputTakes, OutputEnds, OutputSends, OutputCleanup, world
  <2> QED BY <2>1
<1>6. CASE SendMessage(c) \/ RemoteSends(c) \/ RemoteCloses(c) \/ InputThrows(c)
  <2>1. alive /\ alive' = alive
    BY <1>6 DEF SendMessage, RemoteSends, RemoteCloses, InputThrows, world
  <2> QED BY <2>1
<1>7. CASE Accept(c) \/ (Client(c) /\ ~StoreIds(c))
  BY <1>7 DEF Accept, Client, ValidHandshake, InvalidHandshake, CloseAndThrow,
              CatchCloses, Serve, world
<1> QED BY <1>1, <1>2, <1>3, <1>4, <1>5, <1>6, <1>7 DEF Step

\* When the IDs of a client find an entry, it is somebody else's, to whom the
\* same number means something.
LEMMA FoundAnother ==
    ASSUME Descriptors, NEW c \in Conn, caller[c] = "valid", peers[fd[c]] # NoConn
    PROVE  c \in shared
<1> USE DEF Descriptors
<1>1. fd[c] \in Sock
  BY DEF Control, TypeOK
<1>2. PICK o \in Conn : peers[fd[c]] = o
  BY <1>1 DEF TypeOK
<1>3. fd[o] = fd[c] /\ HasEntry(o) /\ Bound(o)
  BY <1>1, <1>2, FoundIsBound DEF Owned
<1>4. o # c
  BY <1>3 DEF HasEntry
<1>5. Bound(c)
  BY DEF Bound, Using, Idle
<1> QED BY <1>3, <1>4, <1>5 DEF InHand

\* Nobody gets known or served in another way, and who shared stays marked.
LEMMA ServingStep ==
    ASSUME Descriptors, ServedByMistake, NEW c \in Conn, Step(c)
    PROVE  ServedByMistake'
<1> USE DEF Descriptors
<1>1. shared \subseteq shared'
  <2>1. CASE Accept(c) \/ Client(c) \/ InputThrows(c)
    BY <2>1 DEF Accept, Share, Client, ValidHandshake, InvalidHandshake, CloseAndThrow,
                CatchCloses, StoreIds, Serve, InputThrows, world
  <2> QED BY <2>1, SharedGrows DEF Step
<1>2. CASE StoreIds(c) \/ Serve(c)
  <2>1. \/ caller' = caller
        \/ c \in shared /\ \E pc \in CallerPc : caller' = [caller EXCEPT ![c] = pc]
    BY <1>2, FoundAnother DEF StoreIds, Serve, ServedByMistake, CallerPc
  <2> QED BY <1>1, <2>1 DEF ServedByMistake, TypeOK
<1>3. CASE ~StoreIds(c) /\ ~Serve(c)
  <2>1. \/ caller' = caller
        \/ \E pc \in CallerPc \ {"known", "serving"} : caller' = [caller EXCEPT ![c] = pc]
    <3>1. CASE ConnectToPeer(c)
      BY <3>1 DEF ConnectToPeer, OpenSocket, ConnectFails, ConnectSucceeds, Register,
                  Handshake, FirstMessage, RestOfFirstMessage, DispatchFirstMessage,
                  HandshakeThrows, StartThreads, CallerPc
    <3>2. CASE InputThread(c) \/ OutputThread(c)
      BY <3>2 DEF InputThread, InputReceives, InputEnds, InputAppends, InputDies, InputCleanup,
                  OutputThread, OutputTakes, OutputEnds, OutputSends, OutputCleanup
    <3>3. CASE SendMessage(c) \/ RemoteSends(c) \/ RemoteCloses(c)
      BY <3>3 DEF SendMessage, RemoteSends, RemoteCloses
    <3>4. CASE Accept(c) \/ Client(c) \/ InputThrows(c)
      BY <1>3, <3>4 DEF Accept, Client, ValidHandshake, InvalidHandshake,
                  CloseAndThrow, CatchCloses, InputThrows, CallerPc
    <3> QED BY <3>1, <3>2, <3>3, <3>4 DEF Step
  <2> QED BY <1>1, <2>1 DEF ServedByMistake, TypeOK
<1> QED BY <1>2, <1>3

-----------------------------------------------------------------------------
(* The theorems                                                            *)

\* The invariant holds at the start.
LEMMA ServerInitially == InitServer => ServerInv
<1>1. Init => Descriptors
  BY TableInitially DEF TableInv
<1>2. Init => DiesOf /\ ServedByMistake
  BY DEF Init, DiesOf, ServedByMistake
<1> QED BY <1>1, <1>2 DEF InitServer, ServerInv

\* Every step keeps it.
LEMMA ServerInductive == ServerInv /\ [NextServer]_serverVars => ServerInv'
<1> SUFFICES ASSUME ServerInv, [NextServer]_serverVars
             PROVE  ServerInv'
  OBVIOUS
<1> USE DEF ServerInv
<1>1. ASSUME NEW c \in Conn, Step(c), UNCHANGED optimist
      PROVE  ServerInv'
  <2>1. Descriptors' /\ ServedByMistake'
    BY <1>1, ServerDescriptors, ServingStep
  <2>2. DiesOf'
    BY <1>1, DyingStep DEF DiesOf
  <2> QED BY <2>1, <2>2
<1>2. ASSUME NEW c \in Conn, OptimisticUnchoke(c)
      PROVE  ServerInv'
  <2>1. Descriptors'
    BY <1>2, OptimisticStep
  <2>2. ServedByMistake'
    BY <1>2 DEF OptimisticUnchoke, ServedByMistake, vars, world
  <2>3. alive /\ (alive' = alive \/ optimist' = "threw")
    BY <1>2 DEF OptimisticUnchoke, vars, world
  <2>4. DiesOf'
    BY <2>3 DEF DiesOf
  <2> QED BY <2>1, <2>2, <2>4
<1>3. CASE UNCHANGED serverVars
  <2>1. Descriptors'
    BY <1>3, IdleStep DEF serverVars, vars, Descriptors, TypeOK
  <2>2. DiesOf' /\ ServedByMistake'
    BY <1>3 DEF serverVars, vars, DiesOf, ServedByMistake
  <2> QED BY <2>1, <2>2
<1>4. CASE NextServer
  <2>1. CASE \E c \in Conn : OptimisticUnchoke(c)
    BY <1>2, <2>1
  <2>2. CASE ~\E c \in Conn : OptimisticUnchoke(c)
    <3>1. UNCHANGED optimist
      BY <1>4, <2>2 DEF NextServer
    <3>2. \E c \in Conn : Step(c)
      BY <1>4, <2>2, ServerAssumption
         DEF NextServer, Step, Dial, Input, Output, ClientThread
    <3> QED BY <1>1, <3>1, <3>2
  <2> QED BY <2>1, <2>2
<1> QED BY <1>3, <1>4

\* The inductive invariant holds in every state of every run of the server.
THEOREM ServerInvariance == SpecServer => []ServerInv
  BY ServerInitially, ServerInductive, PTL DEF SpecServer

\* What PeerTable promises of descriptors and of the map holds with incoming
\* clients and optimisticUnchoke next to its connections, too.
THEOREM ServerKeepsTable == SpecServer => [](TypeOK /\ RegisteredIsOpen /\ NoLeak)
<1>1. ServerInv => TypeOK /\ RegisteredIsOpen /\ NoLeak
  <2>1. Descriptors => RegisteredIsOpen
    BY DEF Descriptors, RegisteredIsOpen, Owned, Held, HasEntry, Over, Sole
  <2>2. Descriptors => TypeOK /\ NoLeak
    BY DescriptorsLeakNothing DEF Descriptors
  <2> QED BY <2>1, <2>2 DEF ServerInv
<1> QED BY <1>1, ServerInvariance, PTL

\* NoClientLeaks: a client that handleHandshake or the catch clause of run()
\* turned away, or whose input thread has cleaned up, has no descriptor and no
\* entry left, and one whose input threw no descriptor.
THEOREM NoClientLeaksHolds == SpecServer => []NoClientLeaks
<1>1. ServerInv => NoClientLeaks
  BY DEF ServerInv, Descriptors, NoClientLeaks, Owned, Over, HasEntry
<1> QED BY <1>1, ServerInvariance, PTL

\* DiesOf: the first bitfield that connectToPeer dispatches, handleHandshake's
\* write to an entry that is not there, what process_input_buffer does with a
\* wrapped length, and a lock that optimisticUnchoke takes twice are all that
\* ends the process.  The I/O threads look an entry up before they use it.
THEOREM DiesOfHolds == SpecServer => []DiesOf
<1>1. ServerInv => DiesOf
  BY DEF ServerInv
<1> QED BY <1>1, ServerInvariance, PTL

\* ServedByMistake: run() gets to serve a client only if handleHandshake found
\* the entry of another connection under the client's number.
THEOREM ServedByMistakeHolds == SpecServer => []ServedByMistake
<1>1. ServerInv => ServedByMistake
  BY DEF ServerInv
<1> QED BY <1>1, ServerInvariance, PTL
=============================================================================
