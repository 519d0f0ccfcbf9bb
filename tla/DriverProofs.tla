---------------------------- MODULE DriverProofs ----------------------------
(***************************************************************************)
(* Theorems about Driver, for any number of peers: what main() promises of *)
(* Winsock, of WinHTTP's handles, of the threads it joins and of the code  *)
(* it returns.                                                             *)
(***************************************************************************)
EXTENDS Driver, PeerTableProofs

-----------------------------------------------------------------------------
(* The inductive invariant                                                 *)

\* The calls of WinHTTP that opened the handles that are open.
HandleState ==
    handles = CASE call = "WinHttpConnect" -> {Trk!Session}
                [] call = "WinHttpOpenRequest" -> {Trk!Session, Trk!Connection}
                [] call \in {"WinHttpSendRequest", "WinHttpReceiveResponse", "read", "close"}
                     -> {Trk!Session, Trk!Connection, Trk!Request}
                [] OTHER -> {}

\* Before the connect threads are started.
Early == {"node", "bootstrap", "parse", "startup", "tracker", "find"}

\* How far main is, Winsock's count, the threads, the flag and the exit code go
\* together.
Program ==
    /\ driver \in {"bootstrap", "tracker", "find", "launch", "join", "cleanup"} => winsock = 1
    /\ driver \in {"node", "parse", "startup", "close", "return"} => winsock = 0
    /\ driver \in Early => \A c \in Conn : task[c] = "none"
    /\ \A c \in Conn : task[c] \in {"check", "call"} => driver \in {"launch", "join"}
    /\ \A c \in Conn : task[c] \in {"none", "check"} => caller[c] = "start"
    /\ connected <=> \E c \in Conn : task[c] = "done" /\ caller[c] = "up"
    /\ driver \in {"cleanup", "close", "return", "exit"} => (exitCode = 0 <=> connected)

\* The descriptors are in order until ~PeerWireProtocol takes them away; where
\* the calls and the threads are is right to the end.
Table ==
    /\ TypeOK /\ Control /\ Dialing
    /\ driver \notin {"close", "return", "exit"} => Descriptors /\ Torn

\* What the process died of.
Deaths ==
    ~alive => \E c \in Conn :
        \/ caller[c] \in {"message", "extra"} /\ c \in seeders
        \/ caller[c] = "up" /\ reader[c].pc = "append" /\ peers[fd[c]] # NoConn
        \/ destroyed /\ caller[c] = "up" /\ AtTable(c)

DriverInv == DriverTypeOK /\ HandleState /\ Program /\ Table /\ Deaths

-----------------------------------------------------------------------------
(* The tracker exchange                                                    *)

\* Every return of queryTracker closes what is open, and the reply's peers are
\* peers.
LEMMA TrackerStep ==
    ASSUME Trk!TrackerTypeOK, HandleState, Trk!QueryTracker
    PROVE  Trk!TrackerTypeOK' /\ HandleState'
<1> USE DEF Trk!TrackerTypeOK, HandleState, Trk!Session, Trk!Connection, Trk!Request
<1>1. CASE Trk!CrackUrl
  BY <1>1 DEF Trk!CrackUrl
<1>2. CASE Trk!WinHttpOpen \/ Trk!WinHttpConnect
  BY <1>2 DEF Trk!WinHttpOpen, Trk!WinHttpConnect, Trk!LibraryCall
<1>3. CASE Trk!WinHttpOpenRequest
  BY <1>3 DEF Trk!WinHttpOpenRequest, Trk!LibraryCall
<1>4. CASE Trk!WinHttpSendRequest \/ Trk!WinHttpReceiveResponse
  BY <1>4 DEF Trk!WinHttpSendRequest, Trk!WinHttpReceiveResponse, Trk!LibraryCall
<1>5. CASE Trk!ReadChunk
  BY <1>5, DriverAssumption DEF Trk!ReadChunk
<1>6. CASE Trk!CloseHandles
  BY <1>6 DEF Trk!CloseHandles
<1>7. CASE Trk!ParseReply
  <2>1. PICK reply \in Trk!Reply :
           trackerPeers' = IF unread = 0 THEN Trk!ParseTrackerPeers(reply) ELSE {}
    BY <1>7 DEF Trk!ParseReply
  <2>2. Trk!ParseTrackerPeers(reply) \subseteq Conn
    BY DEF Trk!ParseTrackerPeers
  <2>3. trackerPeers' \subseteq Conn
    BY <2>1, <2>2
  <2>4. /\ call = "parse" /\ call' = "returned" /\ unread' = 0 /\ handles' = handles
    BY <1>7 DEF Trk!ParseReply
  <2>5. Trk!TrackerTypeOK'
    BY <2>3, <2>4, DriverAssumption
  <2> QED BY <2>4, <2>5
<1> QED BY <1>1, <1>2, <1>3, <1>4, <1>5, <1>6, <1>7 DEF Trk!QueryTracker

-----------------------------------------------------------------------------
(* The steps of main                                                       *)

\* Before the connect threads are started, no descriptor belongs to anybody.
LEMMA NothingOpen ==
    ASSUME DriverInv, driver \in Early
    PROVE  owner = [s \in Sock |-> NoConn]
<1>1. \A c \in Conn : Over(c)
  BY DEF DriverInv, Program, Over
<1>2. TypeOK /\ Owned
  BY DEF DriverInv, Table, Descriptors, Early
<1>3. \A s \in Sock : owner[s] = NoConn
  BY <1>1, <1>2 DEF TypeOK, Owned
<1> QED BY <1>2, <1>3 DEF TypeOK

\* What main does besides asking the tracker and destroying what it has made
\* leaves the connections alone.
LEMMA MainLeavesTable ==
    ASSUME DriverInv, Main, ~CleanUp, ~ClosePeers
    PROVE  UNCHANGED <<owner, peers, fd, caller, reader, writer, conn, stream,
                       seeders, alive, shared>>
<1>1. CASE Bootstrap
  <2>1. owner = [s \in Sock |-> NoConn]
    BY <1>1, NothingOpen DEF Bootstrap, MainAt, Early
  <2> QED BY <1>1, <2>1 DEF Bootstrap, WSACleanup, world
<1>2. CASE UNCHANGED vars
  BY <1>2 DEF vars
<1> QED BY <1>1, <1>2 DEF Main, ConstructNode, ParseTorrent, StartUp, AskTracker,
           UseTrackerPeers, FindPeers, Launch, EndLaunch, Join, ReturnFromMain

\* main keeps the types of its own variables.
LEMMA MainTyped ==
    ASSUME DriverInv, Main
    PROVE  DriverTypeOK' /\ HandleState'
<1> USE DEF DriverInv, DriverTypeOK, MainAt
<1>1. CASE AskTracker
  BY <1>1, TrackerStep DEF AskTracker, network
<1>2. CASE ~AskTracker
  <2>1. UNCHANGED <<call, handles>>
        /\ (UNCHANGED <<unread, trackerPeers>> \/ UseTrackerPeers)
    BY <1>2 DEF Main, ConstructNode, Bootstrap, ParseTorrent, StartUp, UseTrackerPeers,
           FindPeers, Launch, EndLaunch, Join, CleanUp, ClosePeers, ReturnFromMain, tracker
  <2>2. Trk!TrackerTypeOK' /\ HandleState'
    BY <2>1, DriverAssumption DEF UseTrackerPeers, Trk!Forget, Trk!TrackerTypeOK, HandleState
  <2>3. CASE ConstructNode \/ ParseTorrent \/ StartUp
    BY <2>2, <2>3 DEF ConstructNode, ParseTorrent, StartUp, WSAStartup, Continue, Exit,
           Program, NoExit, Aborted, network, tracker
  <2>4. CASE Bootstrap \/ CleanUp
    BY <2>2, <2>4 DEF Bootstrap, CleanUp, WSACleanup, Continue, Program, tracker
  <2>5. CASE UseTrackerPeers \/ FindPeers
    BY <2>2, <2>5 DEF UseTrackerPeers, FindPeers, Continue, network, Trk!TrackerTypeOK
  <2>6. CASE (\E c \in Conn : Launch(c)) \/ EndLaunch \/ Join
    BY <2>2, <2>6 DEF Launch, EndLaunch, Join, Continue, network
  <2>7. CASE ClosePeers \/ ReturnFromMain
    BY <2>2, <2>7 DEF ClosePeers, ReturnFromMain, Continue, Exit, network
  <2> QED BY <1>2, <2>3, <2>4, <2>5, <2>6, <2>7 DEF Main
<1> QED BY <1>1, <1>2

\* main's steps keep count, flag and exit code together.
LEMMA MainProgram ==
    ASSUME DriverInv, Main
    PROVE  Program'
<1> USE DEF DriverInv, Program, MainAt, Early
<1>1. caller' = caller
  BY DEF Main, ConstructNode, Bootstrap, ParseTorrent, StartUp, AskTracker,
         UseTrackerPeers, FindPeers, Launch, EndLaunch, Join, CleanUp, ClosePeers,
         ReturnFromMain, vars
<1>2. CASE ConstructNode \/ ParseTorrent \/ StartUp
  BY <1>1, <1>2 DEF ConstructNode, ParseTorrent, StartUp, WSAStartup, Continue, Exit,
                    Aborted, network
<1>3. CASE Bootstrap \/ CleanUp
  BY <1>1, <1>3 DEF Bootstrap, CleanUp, WSACleanup, Continue
<1>4. CASE AskTracker \/ UseTrackerPeers \/ FindPeers
  BY <1>1, <1>4 DEF AskTracker, UseTrackerPeers, FindPeers, Continue, network
<1>5. ASSUME NEW c \in Conn, Launch(c)
      PROVE  Program'
  BY <1>1, <1>5 DEF Launch, network, DriverTypeOK
<1>6. CASE EndLaunch \/ Join
  BY <1>1, <1>6 DEF EndLaunch, Join, Continue, network
<1>7. CASE ClosePeers \/ ReturnFromMain
  BY <1>1, <1>7 DEF ClosePeers, ReturnFromMain, Continue, Exit, network
<1> QED BY <1>2, <1>3, <1>4, <1>5, <1>6, <1>7 DEF Main

\* main's steps keep the connections in order, as long as it promises that.
LEMMA MainTable ==
    ASSUME DriverInv, Main
    PROVE  Table'
<1> USE TableAssumption DEF DriverInv, Table
<1>1. CASE ~CleanUp /\ ~ClosePeers
  <2>1. UNCHANGED <<owner, peers, fd, caller, reader, writer, conn, stream,
                    seeders, alive, shared>>
    BY <1>1, MainLeavesTable
  <2>2. TypeOK' /\ Control' /\ Dialing'
    BY <2>1 DEF TypeOK, Control, Dialing
  <2>3. driver' \notin {"close", "return", "exit"} =>
            driver \notin {"close", "return", "exit"}
    BY <1>1 DEF Main, ConstructNode, Bootstrap, ParseTorrent, StartUp, AskTracker,
           UseTrackerPeers, FindPeers, Launch, EndLaunch, Join, ReturnFromMain,
           MainAt, Continue, Exit
  <2>4. ASSUME Descriptors, Torn
        PROVE  Owned' /\ InHand' /\ Held' /\ Torn'
    BY <2>1, <2>4 DEF Descriptors, Owned, InHand, Held, Torn, Over, HasEntry, Bound,
                    Registered, Using, Sole
  <2> QED BY <2>2, <2>3, <2>4 DEF Descriptors
<1>2. CASE CleanUp
  <2>1. TypeOK'
    BY <1>2 DEF CleanUp, WSACleanup, TypeOK, world
  <2> QED BY <1>2, <2>1 DEF CleanUp, Continue, Control, Dialing
<1>3. CASE ClosePeers
  <2>1. TypeOK'
    BY <1>3 DEF ClosePeers, TypeOK, world
  <2> QED BY <1>3, <2>1 DEF ClosePeers, Continue, Control, Dialing
<1> QED BY <1>1, <1>2, <1>3

-----------------------------------------------------------------------------
(* The steps of the threads                                                *)

\* Only c's call moves c's call.
LEMMA CallerMoves ==
    ASSUME NEW c \in Conn, ConnectToPeer(c)
    PROVE  caller' = caller \/ \E pc \in CallerPc : caller' = [caller EXCEPT ![c] = pc]
  BY DEF ConnectToPeer, OpenSocket, ConnectFails, ConnectSucceeds, Register,
         Handshake, FirstMessage, RestOfFirstMessage, HandshakeThrows, StartThreads, DispatchFirstMessage,
         CallerPc

\* Whatever a thread does, the count and the code stay as main has them.
LEMMA ThreadProgram ==
    ASSUME DriverInv, NEW c \in Conn, ConnectThread(c) \/ IOThread(c) \/ Remote(c)
    PROVE  Program' /\ DriverTypeOK' /\ HandleState'
<1> USE DEF DriverInv, Program
<1>1. CASE Check(c)
  BY <1>1 DEF Check, DriverTypeOK, Trk!TrackerTypeOK, HandleState, vars, network, tracker
<1>2. CASE Finish(c)
  <2>1. DriverTypeOK' /\ HandleState'
    BY <1>2 DEF Finish, DriverTypeOK, Trk!TrackerTypeOK, HandleState, network, tracker
  <2>2. /\ task[c] = "call" /\ task' = [task EXCEPT ![c] = "done"]
        /\ connected' = (connected \/ caller[c] = "up")
        /\ UNCHANGED <<driver, winsock, exitCode, caller>>
    BY <1>2 DEF Finish, vars, network
  <2>3. connected' <=> \E d \in Conn : task'[d] = "done" /\ caller'[d] = "up"
    BY <2>2 DEF DriverTypeOK
  <2>4. driver \in {"launch", "join"}
    BY <2>2
  <2> QED BY <2>1, <2>2, <2>3, <2>4 DEF DriverTypeOK, Early
<1>3. CASE Connect(c)
  <2>1. UNCHANGED main /\ task[c] = "call"
    BY <1>3 DEF Connect
  <2>2. \A d \in Conn \ {c} : caller'[d] = caller[d]
    BY <1>3, CallerMoves DEF Connect, Table, TypeOK
  <2>3. Program'
    BY <2>1, <2>2 DEF main, network
  <2> QED BY <2>1, <2>3 DEF main, network, tracker, DriverTypeOK, Trk!TrackerTypeOK,
             HandleState
<1>4. CASE IOThread(c) \/ Remote(c)
  <2>1. UNCHANGED main /\ caller' = caller
    BY <1>4 DEF IOThread, Remote, RemoteSends, RemoteCloses,
           InputThread, InputReceives, InputEnds, InputAppends, InputDies, InputCleanup,
           OutputThread, OutputTakes, OutputEnds, OutputSends, OutputCleanup
  <2> QED BY <2>1 DEF main, network, tracker, DriverTypeOK, Trk!TrackerTypeOK, HandleState
<1> QED BY <1>1, <1>2, <1>3, <1>4 DEF ConnectThread

\* The threads keep the connections in order, and after the destructor they
\* still are where their pc says.
LEMMA ThreadTable ==
    ASSUME DriverInv, NEW c \in Conn, ConnectThread(c) \/ IOThread(c) \/ Remote(c)
    PROVE  Table'
<1> USE DEF DriverInv, Table
<1>1. CASE UNCHANGED vars /\ UNCHANGED driver
  <2>1. TypeOK' /\ Control' /\ Dialing'
    BY <1>1 DEF vars, TypeOK, Control, Dialing
  <2>2. ASSUME Descriptors, Torn
        PROVE  Owned' /\ InHand' /\ Held' /\ Torn'
    BY <1>1, <2>2 DEF vars, Descriptors, Owned, InHand, Held, Torn, Over, HasEntry,
                      Bound, Registered, Using, Sole
  <2> QED BY <1>1, <2>1, <2>2 DEF Descriptors
<1>2. CASE Connect(c)
  <2>1. ConnectToPeer(c) /\ driver' = driver /\ driver \in {"launch", "join"}
    BY <1>2 DEF Connect, main, Program
  <2>2. Descriptors' /\ Torn' /\ Dialing'
    BY <2>1, ConnectStep, TornStep, DialingStep
  <2> QED BY <2>1, <2>2 DEF Descriptors
<1>3. CASE InputThread(c) \/ OutputThread(c) \/ RemoteSends(c) \/ RemoteCloses(c)
  <2>1. TypeOK' /\ Control' /\ Dialing'
    BY <1>3, InputSteps, OutputSteps, RemoteSteps, DialingStep
  <2>2. driver' = driver
    BY <1>3 DEF ConnectThread, Check, Connect, Finish, IOThread, Remote, main
  <2>3. ASSUME Descriptors, Torn
        PROVE  Descriptors' /\ Torn'
    BY <1>3, <2>3, ThreadStep, RemoteStep, TornStep
  <2> QED BY <2>1, <2>2, <2>3
<1>4. CASE /\ alive' = FALSE
           /\ UNCHANGED <<owner, peers, fd, caller, reader, writer, conn, stream,
                          seeders, shared>>
           /\ UNCHANGED main
  <2>1. TypeOK' /\ Control' /\ Dialing'
    BY <1>4 DEF TypeOK, Control, Dialing
  <2>2. ASSUME Descriptors, Torn
        PROVE  Owned' /\ InHand' /\ Held' /\ Torn'
    BY <1>4, <2>2 DEF Descriptors, Owned, InHand, Held, Torn, Over, HasEntry,
                      Bound, Registered, Using, Sole
  <2> QED BY <1>4, <2>1, <2>2 DEF Descriptors, main
<1> QED BY <1>1, <1>2, <1>3, <1>4 DEF ConnectThread, Check, Finish, IOThread, Remote

-----------------------------------------------------------------------------
(* Who dies                                                                *)

\* A dead process takes no step, and it dies of a first bitfield, of what an input
\* thread appends to an entry, or of a thread at the table after the destructor.
LEMMA DriverDies ==
    ASSUME DriverInv, NextDriver
    PROVE  Deaths'
<1>1. ASSUME Main
      PROVE  alive /\ alive' = alive
  BY <1>1 DEF Main, ConstructNode, Bootstrap, ParseTorrent, StartUp, AskTracker,
         UseTrackerPeers, FindPeers, Launch, EndLaunch, Join, CleanUp, ClosePeers,
         ReturnFromMain, MainAt, vars, world
<1>2. ASSUME NEW c \in Conn, ConnectThread(c) \/ IOThread(c) \/ Remote(c), ~alive'
      PROVE  Deaths'
  <2>1. CASE Connect(c)
    <3>1. alive
      BY <2>1 DEF Connect, ConnectToPeer, OpenSocket, ConnectFails, ConnectSucceeds,
             Register, Handshake, FirstMessage, RestOfFirstMessage, HandshakeThrows, StartThreads
    <3>2. CASE FirstMessage(c) \/ RestOfFirstMessage(c)
      <4>1. caller[c] \in {"message", "extra"} /\ c \in seeders
            /\ UNCHANGED <<caller, seeders>>
        BY <1>2, <3>1, <3>2 DEF FirstMessage, RestOfFirstMessage, DispatchFirstMessage
      <4> QED BY <4>1 DEF Deaths
    <3>3. CASE ~FirstMessage(c) /\ ~RestOfFirstMessage(c)
      <4>1. alive' = alive
        BY <2>1, <3>3 DEF Connect, ConnectToPeer, OpenSocket, ConnectFails,
               ConnectSucceeds, Register, Handshake, HandshakeThrows, StartThreads, world
      <4> QED BY <1>2, <3>1, <4>1
    <3> QED BY <3>2, <3>3
  <2>2. CASE InputThread(c) \/ OutputThread(c) \/ RemoteSends(c) \/ RemoteCloses(c)
    <3>1. CASE InputDies(c)
      <4>1. caller[c] = "up"
        BY <3>1 DEF InputDies, DriverInv, Table, Control, Dialing
      <4> QED BY <3>1, <4>1 DEF InputDies, Deaths
    <3>2. CASE ~InputDies(c)
      <4>1. alive /\ alive' = alive
        BY <2>2, <3>2 DEF RemoteSends, RemoteCloses, world,
               InputThread, InputReceives, InputEnds, InputAppends, InputCleanup,
               OutputThread, OutputTakes, OutputEnds, OutputSends, OutputCleanup
      <4> QED BY <1>2, <4>1
    <3> QED BY <3>1, <3>2
  <2>3. CASE /\ destroyed /\ AtTable(c)
             /\ UNCHANGED <<owner, peers, fd, caller, reader, writer, conn, stream,
                            seeders, shared>>
             /\ UNCHANGED main
    <3>1. caller[c] = "up"
      BY <2>3 DEF DriverInv, Table, AtTable, Control, Dialing
    <3> QED BY <2>3, <3>1 DEF Deaths, AtTable, main
  <2>4. CASE Check(c) \/ Finish(c)
    <3>1. alive /\ alive' = alive
      BY <2>4 DEF Check, Finish, vars
    <3> QED BY <1>2, <3>1
  <2> QED BY <1>2, <2>1, <2>2, <2>3, <2>4 DEF ConnectThread, IOThread, Remote
<1> QED BY <1>1, <1>2 DEF NextDriver, Deaths

-----------------------------------------------------------------------------
(* The theorems                                                            *)

\* The invariant holds at the start.
LEMMA DriverInitially == InitDriver => DriverInv
<1> SUFFICES ASSUME InitDriver
             PROVE  DriverInv
  OBVIOUS
<1>1. Descriptors /\ Torn /\ Dialing
  BY TableInitially DEF InitDriver, TableInv
<1>2. DriverTypeOK /\ HandleState
  <2>1. Trk!TrackerTypeOK /\ HandleState
    BY DriverAssumption DEF InitDriver, Trk!InitTracker, Trk!TrackerTypeOK, HandleState
  <2>2. driver = "node" /\ winsock \in 0 .. 1 /\ nodeSocket = "none"
    BY DEF InitDriver
  <2>3. connected \in BOOLEAN /\ destroyed \in BOOLEAN
    BY Zenon DEF InitDriver
  <2>4. /\ peersToTry \subseteq Conn /\ exitCode = NoExit
        /\ task \in [Conn -> {"none", "check", "call", "done"}]
    BY DEF InitDriver
  <2> QED BY <2>1, <2>2, <2>3, <2>4 DEF DriverTypeOK
<1>3. Program /\ Deaths
  BY DEF InitDriver, Init, Program, Deaths, Early
<1> QED BY <1>1, <1>2, <1>3 DEF DriverInv, Table, Descriptors

\* Every step keeps it.
LEMMA DriverInductive == DriverInv /\ [NextDriver]_allVars => DriverInv'
<1> SUFFICES ASSUME DriverInv, [NextDriver]_allVars
             PROVE  DriverInv'
  OBVIOUS
<1>1. CASE Main
  BY <1>1, MainTyped, MainProgram, MainTable, DriverDies DEF DriverInv, NextDriver
<1>2. ASSUME NEW c \in Conn, ConnectThread(c) \/ IOThread(c) \/ Remote(c)
      PROVE  DriverInv'
  BY <1>2, ThreadProgram, ThreadTable, DriverDies DEF DriverInv, NextDriver
<1>3. CASE UNCHANGED allVars
  <2>1. DriverTypeOK' /\ HandleState' /\ Program' /\ Deaths'
    BY <1>3 DEF DriverInv, allVars, vars, main, network, tracker, DriverTypeOK,
           Trk!TrackerTypeOK, HandleState, Program, Deaths, AtTable
  <2>2. TypeOK' /\ Control' /\ Dialing'
    BY <1>3 DEF DriverInv, Table, allVars, vars, TypeOK, Control, Dialing
  <2>3. ASSUME Descriptors, Torn
        PROVE  Owned' /\ InHand' /\ Held' /\ Torn'
    BY <1>3, <2>3 DEF allVars, vars, Descriptors, Owned, InHand, Held, Torn, Over,
                      HasEntry, Bound, Registered, Using, Sole
  <2> QED BY <1>3, <2>1, <2>2, <2>3 DEF DriverInv, Table, Descriptors, allVars, main
<1> QED BY <1>1, <1>2, <1>3 DEF NextDriver

\* The inductive invariant holds in every state of every run of the program.
THEOREM DriverInvariance == SpecDriver => []DriverInv
  BY DriverInitially, DriverInductive, PTL DEF SpecDriver

\* DriverTypeOK: the program's counters, flags and program counters have their
\* types; WSAStartup is at most once ahead of WSACleanup.
THEOREM DriverTypeCorrect == SpecDriver => []DriverTypeOK
<1>1. DriverInv => DriverTypeOK
  BY DEF DriverInv
<1> QED BY <1>1, DriverInvariance, PTL

\* HandlesClosed: each of queryTracker's returns closes every handle that the
\* calls before it opened.
THEOREM HandlesClosedHolds == SpecDriver => []HandlesClosed
<1>1. DriverInv => HandlesClosed
  BY DEF DriverInv, HandleState, HandlesClosed, Trk!HandlesClosed
<1> QED BY <1>1, DriverInvariance, PTL

\* WinsockUp: bootstrap() takes Winsock's count to 0, and still every socket
\* call of main and of its connect threads finds it up, and an established
\* connection keeps its socket until the destructor.
THEOREM WinsockUpHolds == SpecDriver => []WinsockUp
<1>1. DriverInv => WinsockUp
  <2> SUFFICES ASSUME DriverInv
               PROVE  WinsockUp
    OBVIOUS
  <2>1. ASSUME driver \in {"launch", "join", "cleanup"}
        PROVE  ClosedOnlyOnDisconnect
    <3>1. Held /\ Torn /\ Dialing
      BY <2>1 DEF DriverInv, Table, Descriptors
    <3> QED BY <3>1 DEF ClosedOnlyOnDisconnect, Held, Torn, Dialing, Over, Sole
  <2> QED BY <2>1 DEF DriverInv, Program, WinsockUp
<1> QED BY <1>1, DriverInvariance, PTL

\* OnlyDetachedOutlive: main joins every connect thread before it destroys the
\* object they use, so that only detached threads of an established connection
\* can still be at it, and the process dies of these, of a first bitfield or of a
\* wrapped length in the buffer of an entry that is there.
THEOREM OnlyDetachedOutliveHolds == SpecDriver => []OnlyDetachedOutlive
<1>1. DriverInv => OnlyDetachedOutlive
  BY DEF DriverInv, Program, Deaths, OnlyDetachedOutlive, DriverTypeOK
<1> QED BY <1>1, DriverInvariance, PTL

\* ExitCodeTells: main returns 0 exactly if connectToPeer returned a descriptor
\* to one of its threads.
THEOREM ExitCodeTellsHolds == SpecDriver => []ExitCodeTells
<1>1. DriverInv => ExitCodeTells
  <2> SUFFICES ASSUME DriverInv, driver = "exit"
               PROVE  exitCode = 0 <=> \E c \in Conn : caller[c] = "up"
    BY DEF ExitCodeTells
  <2>1. \A c \in Conn : caller[c] = "up" => task[c] = "done"
    BY DEF DriverInv, Program, DriverTypeOK
  <2> QED BY <2>1 DEF DriverInv, Program
<1> QED BY <1>1, DriverInvariance, PTL
=============================================================================
