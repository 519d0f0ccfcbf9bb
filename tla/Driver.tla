------------------------------- MODULE Driver -------------------------------
(***************************************************************************)
(* The program: main(), the constructors and destructors it runs, and the  *)
(* threads it starts, over the connections of PeerTable and the tracker    *)
(* exchange of Tracker.                                                    *)
(*                                                                         *)
(* peer_wire_protocol.cpp is for Windows only (it needs winhttp.h), where  *)
(* sockets exist between WSAStartup and the WSACleanup that takes the      *)
(* reference count to 0.  A connection is one entry of peersToTry.  main() *)
(* sends no requests, so the only traffic is what connectToPeer causes.    *)
(***************************************************************************)
EXTENDS PeerTable

CONSTANT MaxChunks      \* bound: pieces in which the tracker's reply is read

ASSUME DriverAssumption == MaxChunks \in Nat

VARIABLES
    driver,         \* where main is, in its constructors and destructors too
    winsock,        \* how often WSAStartup is ahead of WSACleanup
    nodeSocket,     \* the UDP socket the DHT node was constructed with
    call, handles, unread, trackerPeers,        \* of queryTracker
    peersToTry,
    task,           \* the connect thread for an entry of peersToTry
    connected,
    destroyed,      \* `pwp` is gone: its map, its mutex
    exitCode

tracker == <<call, handles, unread, trackerPeers>>
network == <<winsock, nodeSocket>>
main == <<driver, network, tracker, peersToTry, task, connected, destroyed, exitCode>>
allVars == <<vars, main>>

Trk == INSTANCE Tracker WITH Peer <- Conn

NoExit == -1
Aborted == 3        \* an exception that nobody catches

\* main goes on, as long as the process lives.
MainAt(here) == alive /\ driver = here
Continue(next) == driver' = next /\ UNCHANGED exitCode
Exit(code) == driver' = "exit" /\ exitCode' = code

WSAStartup == winsock' = winsock + 1

\* The last WSACleanup takes all sockets of the process with it.
WSACleanup ==
    /\ winsock' = winsock - 1
    /\ IF winsock = 1 THEN /\ owner' = [s \in Sock |-> NoConn]
                           /\ nodeSocket' = "closed"
                      ELSE UNCHANGED <<owner, nodeSocket>>

-----------------------------------------------------------------------------
(* Construction                                                            *)

\* DHTBootstrap's constructor: the port may be taken.
ConstructNode ==
    /\ MainAt("node")
    /\ WSAStartup
    /\ \/ nodeSocket' = "open" /\ Continue("bootstrap")
       \/ UNCHANGED nodeSocket /\ Exit(1)
    /\ UNCHANGED <<vars, tracker, peersToTry, task, connected, destroyed>>

\* Mutant: forgets cleanup_winsock.
BootstrapKeepsWinsock ==
    /\ MainAt("bootstrap")
    /\ Continue("parse")
    /\ UNCHANGED <<vars, network, tracker, peersToTry, task, connected, destroyed>>

\* Its requests have sockets of their own; it ends with cleanup_winsock.
Bootstrap ==
    /\ MainAt("bootstrap")
    /\ WSACleanup
    /\ Continue("parse")
    /\ UNCHANGED <<peers, fd, caller, reader, writer, conn, stream, world,
                   tracker, peersToTry, task, connected, destroyed>>

\* An exception is rethrown by the constructor and not caught by main.
ParseTorrent ==
    /\ MainAt("parse")
    /\ Continue("startup") \/ Exit(Aborted)
    /\ UNCHANGED <<vars, network, tracker, peersToTry, task, connected, destroyed>>

\* Mutant: relies on the node for Winsock.
StartUpWithoutWinsock ==
    /\ MainAt("startup")
    /\ Continue("tracker")
    /\ UNCHANGED <<vars, network, tracker, peersToTry, task, connected, destroyed>>

StartUp ==
    /\ MainAt("startup")
    /\ \/ WSAStartup /\ Continue("tracker")
       \/ UNCHANGED winsock /\ Exit(Aborted)
    /\ UNCHANGED <<vars, nodeSocket, tracker, peersToTry, task, connected, destroyed>>

-----------------------------------------------------------------------------
(* Finding peers                                                           *)

AskTracker ==
    /\ MainAt("tracker")
    /\ Trk!QueryTracker
    /\ UNCHANGED <<vars, driver, network, peersToTry, task, connected, destroyed,
                   exitCode>>

UseTrackerPeers ==
    /\ MainAt("tracker") /\ call = "returned"
    /\ \/ trackerPeers # {} /\ Continue("launch")
       \/ trackerPeers = {} /\ Continue("find")
    /\ peersToTry' = trackerPeers
    /\ Trk!Forget
    /\ UNCHANGED <<vars, network, call, handles, task, connected, destroyed>>

\* findPeers: whatever nodes the bootstrap node names, which may be none.
FindPeers ==
    /\ MainAt("find")
    /\ peersToTry' \in SUBSET Conn
    /\ IF peersToTry' = {} THEN driver' = "cleanup" /\ exitCode' = 1
                           ELSE Continue("launch")
    /\ UNCHANGED <<vars, network, tracker, task, connected, destroyed>>

-----------------------------------------------------------------------------
(* Connecting                                                              *)

Launch(c) ==
    /\ MainAt("launch") /\ ~connected
    /\ c \in peersToTry /\ task[c] = "none"
    /\ task' = [task EXCEPT ![c] = "check"]
    /\ UNCHANGED <<vars, driver, network, tracker, peersToTry, connected, destroyed,
                   exitCode>>

EndLaunch ==
    /\ MainAt("launch")
    /\ connected \/ \A c \in peersToTry : task[c] # "none"
    /\ Continue("join")
    /\ UNCHANGED <<vars, network, tracker, peersToTry, task, connected, destroyed>>

Running == driver # "exit"

Check(c) ==
    /\ alive /\ Running /\ task[c] = "check"
    /\ task' = [task EXCEPT ![c] = IF connected THEN "done" ELSE "call"]
    /\ UNCHANGED <<vars, driver, network, tracker, peersToTry, connected, destroyed,
                   exitCode>>

Connect(c) ==
    /\ Running /\ task[c] = "call"
    /\ ConnectToPeer(c)
    /\ UNCHANGED main

\* Mutant: stores the flag after an exception, too.
FinishAlways(c) ==
    /\ alive /\ Running /\ task[c] = "call"
    /\ caller[c] \in {"up", "failed", "thrown"}
    /\ connected' = TRUE
    /\ task' = [task EXCEPT ![c] = "done"]
    /\ UNCHANGED <<vars, driver, network, tracker, peersToTry, destroyed, exitCode>>

\* connectToPeer returned a descriptor, or its exception was caught, whether it
\* is its own or sendHandshake's.
Finish(c) ==
    /\ alive /\ Running /\ task[c] = "call"
    /\ caller[c] \in {"up", "failed", "thrown"}
    /\ connected' = (connected \/ caller[c] = "up")
    /\ task' = [task EXCEPT ![c] = "done"]
    /\ UNCHANGED <<vars, driver, network, tracker, peersToTry, destroyed, exitCode>>

ConnectThread(c) == Check(c) \/ Connect(c) \/ Finish(c)

\* Mutant: detaches the threads instead.
JoinNobody ==
    /\ MainAt("join")
    /\ driver' = "cleanup"
    /\ exitCode' = IF connected THEN 0 ELSE 1
    /\ UNCHANGED <<vars, network, tracker, peersToTry, task, connected, destroyed>>

\* Mutant: waits for a thread for every peer.
JoinAll ==
    /\ MainAt("join")
    /\ \A c \in peersToTry : task[c] = "done"
    /\ driver' = "cleanup"
    /\ exitCode' = IF connected THEN 0 ELSE 1
    /\ UNCHANGED <<vars, network, tracker, peersToTry, task, connected, destroyed>>

Join ==
    /\ MainAt("join")
    /\ \A c \in Conn : task[c] \in {"none", "done"}
    /\ driver' = "cleanup"
    /\ exitCode' = IF connected THEN 0 ELSE 1
    /\ UNCHANGED <<vars, network, tracker, peersToTry, task, connected, destroyed>>

-----------------------------------------------------------------------------
(* Destruction                                                             *)

\* ~PeerWireProtocol: WSACleanup comes first, before the lock ...
CleanUp ==
    /\ MainAt("cleanup")
    /\ WSACleanup
    /\ Continue("close")
    /\ UNCHANGED <<peers, fd, caller, reader, writer, conn, stream, world,
                   tracker, peersToTry, task, connected, destroyed>>

\* ... then the sockets in the map are closed, and the members destroyed.
ClosePeers ==
    /\ MainAt("close")
    /\ owner' = [s \in Sock |-> IF peers[s] = NoConn THEN owner[s] ELSE NoConn]
    /\ peers' = [s \in Sock |-> NoConn]
    /\ destroyed' = TRUE
    /\ Continue("return")
    /\ UNCHANGED <<fd, caller, reader, writer, conn, stream, world, network,
                   tracker, peersToTry, task, connected>>

\* main returns, and the detached threads end with the process.
ReturnFromMain ==
    /\ MainAt("return")
    /\ Exit(exitCode)
    /\ UNCHANGED <<vars, network, tracker, peersToTry, task, connected, destroyed>>

\* c's I/O threads are at a step that locks peerMutex and uses the map.
AtTable(c) == reader[c].pc \in {"append", "cleanup"} \/ writer[c].pc \in {"poll", "cleanup"}

\* The detached threads hold `this`: after the destructor, what they find in
\* its place is an empty map or the end of the process.
IOThread(c) ==
    /\ Running
    /\ \/ InputThread(c) \/ OutputThread(c)
       \/ /\ alive /\ destroyed /\ AtTable(c)
          /\ alive' = FALSE
          /\ UNCHANGED <<owner, peers, fd, caller, reader, writer, conn, stream,
                         seeders, shared>>
    /\ UNCHANGED main

Remote(c) == Running /\ (RemoteSends(c) \/ RemoteCloses(c)) /\ UNCHANGED main

-----------------------------------------------------------------------------
InitDriver ==
    /\ Init
    /\ driver = "node" /\ winsock = 0 /\ nodeSocket = "none"
    /\ Trk!InitTracker
    /\ peersToTry = {} /\ task = [c \in Conn |-> "none"] /\ connected = FALSE
    /\ destroyed = FALSE /\ exitCode = NoExit

Main == \/ ConstructNode \/ Bootstrap \/ ParseTorrent \/ StartUp
        \/ AskTracker \/ UseTrackerPeers \/ FindPeers
        \/ (\E c \in Conn : Launch(c)) \/ EndLaunch \/ Join
        \/ CleanUp \/ ClosePeers \/ ReturnFromMain

NextDriver == \/ Main
              \/ \E c \in Conn : ConnectThread(c) \/ IOThread(c) \/ Remote(c)

\* The operating system runs every thread that can run, connect() returns, and
\* requests to the tracker and the DHT end (WinHTTP and recvfrom time out).
SpecDriver == /\ InitDriver /\ [][NextDriver]_allVars
              /\ WF_allVars(Main)
              /\ \A c \in Conn : WF_allVars(ConnectThread(c)) /\ WF_allVars(IOThread(c))
-----------------------------------------------------------------------------
\* The program's counters, flags and program counters have their types.
DriverTypeOK ==
    /\ driver \in {"node", "bootstrap", "parse", "startup", "tracker", "find",
                   "launch", "join", "cleanup", "close", "return", "exit"}
    /\ winsock \in 0 .. 1 /\ nodeSocket \in {"none", "open", "closed"}
    /\ Trk!TrackerTypeOK
    /\ peersToTry \subseteq Conn
    /\ task \in [Conn -> {"none", "check", "call", "done"}]
    /\ connected \in BOOLEAN /\ destroyed \in BOOLEAN
    /\ exitCode \in {NoExit, 0, 1, Aborted}

\* Whichever call of WinHTTP failed, queryTracker leaves no handle open.
HandlesClosed == Trk!HandlesClosed

\* bootstrap() takes the count to 0 and the node's socket with it; still, whoever
\* makes a socket call before the destructor runs finds Winsock started, and an
\* established connection keeps its socket until then.
WinsockUp ==
    /\ \/ driver \in {"bootstrap", "find", "launch", "join"}
       \/ \E c \in Conn : task[c] \in {"check", "call"}
       => winsock > 0
    /\ driver \in {"launch", "join", "cleanup"} => ClosedOnlyOnDisconnect

\* Nobody but the detached threads of an established connection outlives the
\* object they all use; if the process dies of more than a first bitfield and a
\* wrapped length in the buffer of an entry that is there, it is one of those
\* threads, between the destructor and the end of main.
OnlyDetachedOutlive ==
    /\ driver \in {"cleanup", "close", "return"} =>
          \A c \in Conn : task[c] \in {"none", "done"}
    /\ ~alive => \E c \in Conn :
          \/ caller[c] \in {"message", "extra"} /\ c \in seeders
          \/ caller[c] = "up" /\ reader[c].pc = "append" /\ peers[fd[c]] # NoConn
          \/ destroyed /\ caller[c] = "up" /\ AtTable(c)

\* The program says 0 exactly if some connectToPeer of it succeeded, however the
\* threads raced for the flag.
ExitCodeTells ==
    driver = "exit" => (exitCode = 0 <=> \E c \in Conn : caller[c] = "up")

\* The connect thread waits in recv() for a remote that says nothing.
Silent(c) ==
    /\ caller[c] \in {"handshake", "message", "extra"}
    /\ ~ReceivesNothing(fd[c]) /\ ~Readable(fd[c])

\* main returns, unless some remote keeps silent for ever: recv() has no timeout,
\* and main joins every thread, also when another one has long connected.
MainReturns ==
    \/ <>(driver = "exit" \/ ~alive)
    \/ \E c \in Conn : <>[]Silent(c)
=============================================================================
