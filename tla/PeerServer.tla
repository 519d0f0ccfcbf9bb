----------------------------- MODULE PeerServer -----------------------------
(***************************************************************************)
(* Incoming connections: the accept loop of run() and the threads it       *)
(* starts, one for each client and optimisticUnchoke, next to the outgoing *)
(* connections of PeerTable, with which they share descriptors, the map    *)
(* `peers` and peerMutex.                                                  *)
(*                                                                         *)
(* A connection comes into being by connectToPeer or by accept().  Its     *)
(* thread is at caller[c]: "accepted" (in handleHandshake), then "valid"   *)
(* and "known", or "invalid" and "catch", and "serving" or "gone" in the   *)
(* end.  A client that is served has an input thread, reader[c], and no    *)
(* output thread; if that throws, it is at "unwind", then "stale".         *)
(*                                                                         *)
(* Of the choking threads (Choking), what matters here is what the second  *)
(* lock in send_unchoke does to everybody else.  Left out is manageChoking, *)
(* which never gets there, and choked_by_us: any entry may be picked.      *)
(***************************************************************************)
EXTENDS PeerTable

CONSTANTS
    Dialed,     \* the connections made by connectToPeer; the rest come in
    Relock      \* outcomes of a second lock: "blocks", "throws", "passes"

ASSUME ServerAssumption ==
    /\ Dialed \subseteq Conn
    /\ Relock \subseteq {"blocks", "throws", "passes"}

VARIABLE optimist   \* optimisticUnchoke "runs", is "stuck" with peerMutex, or "threw"

serverVars == <<vars, optimist>>

\* accept(): any number that is free; a thread is started for it.
Accept(c) ==
    /\ alive /\ caller[c] = "start"
    /\ \E s \in Sock : /\ owner[s] = NoConn
                       /\ owner' = [owner EXCEPT ![s] = c]
                       /\ fd' = [fd EXCEPT ![c] = s]
                       /\ Share(c, s)
    /\ caller' = [caller EXCEPT ![c] = "accepted"]
    /\ UNCHANGED <<peers, reader, writer, conn, stream, seeders, alive>>

\* The one recv() of handleHandshake brings all 68 bytes, and they are right.
ValidHandshake(c) ==
    /\ alive /\ caller[c] = "accepted"
    /\ Receives(fd[c], 1)
    /\ caller' = [caller EXCEPT ![c] = "valid"]
    /\ UNCHANGED <<owner, peers, fd, reader, writer, conn, world>>

\* Mutant: the thread ends without closing what it was given.
InvalidHandshakeReturns(c) ==
    /\ alive /\ caller[c] = "accepted"
    /\ Receives(fd[c], 1) \/ (ReceivesNothing(fd[c]) /\ UNCHANGED stream)
    /\ caller' = [caller EXCEPT ![c] = "gone"]
    /\ UNCHANGED <<owner, peers, fd, reader, writer, conn, world>>

\* It brings something else, a part of it, or nothing.
InvalidHandshake(c) ==
    /\ alive /\ caller[c] = "accepted"
    /\ Receives(fd[c], 1) \/ (ReceivesNothing(fd[c]) /\ UNCHANGED stream)
    /\ caller' = [caller EXCEPT ![c] = "invalid"]
    /\ UNCHANGED <<owner, peers, fd, reader, writer, conn, world>>

\* handleHandshake closes the socket and throws ...
CloseAndThrow(c) ==
    /\ alive /\ caller[c] = "invalid"
    /\ CloseSocket(fd[c])
    /\ caller' = [caller EXCEPT ![c] = "catch"]
    /\ UNCHANGED <<peers, fd, reader, writer, conn, stream, world>>

\* ... and the catch clause of run() closes the number once more.  For a client
\* that was served it is the first time, and the entry stays.
CatchCloses(c) ==
    /\ alive /\ caller[c] \in {"catch", "unwind"}
    /\ CloseSocket(fd[c])
    /\ caller' = [caller EXCEPT ![c] = IF @ = "catch" THEN "gone" ELSE "stale"]
    /\ UNCHANGED <<peers, fd, reader, writer, conn, stream, world>>

\* Mutant: writes the IDs only if there is an entry to write them to.
StoreIdsIfKnown(c) ==
    /\ alive /\ caller[c] = "valid"
    /\ caller' = [caller EXCEPT ![c] = "known"]
    /\ UNCHANGED <<owner, peers, fd, reader, writer, conn, stream, world>>

(***************************************************************************)
(* info_hash and peer_id go into peers[peerSocket], before run() registers *)
(* the client: operator[] makes a null entry, and writing through it is    *)
(* the end, unless the number still finds an entry of somebody else.       *)
(***************************************************************************)
StoreIds(c) ==
    /\ alive /\ caller[c] = "valid"
    /\ \/ /\ peers[fd[c]] = NoConn
          /\ alive' = FALSE /\ UNCHANGED caller
       \/ /\ peers[fd[c]] # NoConn
          /\ caller' = [caller EXCEPT ![c] = "known"] /\ UNCHANGED alive
    /\ UNCHANGED <<owner, peers, fd, reader, writer, conn, stream, seeders, shared>>

\* run() registers a new PeerConnection, and the thread goes on as the
\* connection's input thread.
Serve(c) ==
    /\ alive /\ caller[c] = "known"
    /\ peers' = [peers EXCEPT ![fd[c]] = c]
    /\ reader' = Goto(reader, c, "recv")
    /\ caller' = [caller EXCEPT ![c] = "serving"]
    /\ UNCHANGED <<owner, fd, writer, conn, stream, world>>

Client(c) == \/ ValidHandshake(c) \/ InvalidHandshake(c) \/ CloseAndThrow(c)
             \/ CatchCloses(c) \/ StoreIds(c) \/ Serve(c)

\* What InputDies says of a wrapped length, when it throws in a client's thread:
\* the same catch clause takes the exception, without the thread's cleanup.
InputThrows(c) ==
    /\ alive /\ caller[c] = "serving" /\ reader[c].pc = "append"
    /\ peers[fd[c]] # NoConn
    /\ conn' = [conn EXCEPT ![peers[fd[c]]].input = @ \o reader[c].hand]
    /\ reader' = [reader EXCEPT ![c] = [pc |-> "none", hand |-> <<>>]]
    /\ caller' = [caller EXCEPT ![c] = "unwind"]
    /\ UNCHANGED <<owner, peers, fd, writer, stream, world>>

(***************************************************************************)
(* optimisticUnchoke, under peerMutex: one of the choked entries is sent   *)
(* an unchoke, if locking its buffer_mutex twice allows.                   *)
(***************************************************************************)
OptimisticUnchoke(c) ==
    /\ alive /\ optimist = "runs"
    /\ Registered(c) /\ conn[c].queued < MaxOut
    /\ \/ /\ "blocks" \in Relock
          /\ optimist' = "stuck" /\ UNCHANGED vars
       \/ /\ "throws" \in Relock
          /\ optimist' = "threw" /\ alive' = FALSE
          /\ UNCHANGED <<owner, peers, fd, caller, reader, writer, conn, stream, seeders,
                         shared>>
       \/ /\ "passes" \in Relock
          /\ conn' = [conn EXCEPT ![c].output = Append(@, <<c, conn[c].queued + 1>>),
                                  ![c].queued = @ + 1]
          /\ UNCHANGED <<owner, peers, fd, caller, reader, writer, stream, world,
                         optimist>>

-----------------------------------------------------------------------------
(* Under peerMutex                                                         *)

\* While optimisticUnchoke is stuck with it, nobody else gets peerMutex.
Lockable == optimist # "stuck"

Dial(c) == ConnectToPeer(c) /\ (caller[c] = "register" => Lockable)

Input(c) == /\ InputThread(c) \/ InputThrows(c)
            /\ reader[c].pc # "recv" => Lockable

Output(c) == OutputThread(c) /\ (writer[c].pc # "send" => Lockable)

ClientThread(c) == Client(c) /\ (caller[c] \in {"valid", "known"} => Lockable)

\* Only on connections we make is the first message treated apart.
InitServer == Init /\ seeders \subseteq Dialed /\ optimist = "runs"

NextServer ==
    \/ /\ \/ \E c \in Dialed : Dial(c) \/ Output(c) \/ (SendMessage(c) /\ Lockable)
          \/ \E c \in Conn \ Dialed : Accept(c) \/ ClientThread(c)
          \/ \E c \in Conn : Input(c) \/ RemoteSends(c) \/ RemoteCloses(c)
       /\ UNCHANGED optimist
    \/ \E c \in Conn : OptimisticUnchoke(c)

\* The threads of our own connections run, once they get peerMutex; of clients
\* nothing is needed.
SpecServer ==
    /\ InitServer /\ [][NextServer]_serverVars
    /\ \A c \in Dialed : /\ WF_serverVars(Input(c) /\ UNCHANGED optimist)
                         /\ WF_serverVars(Output(c) /\ UNCHANGED optimist)
-----------------------------------------------------------------------------
\* A client that was turned away, or whose input has ended, has no descriptor
\* and no entry left, whoever else has the number by then.  One whose input
\* threw has no descriptor left.
NoClientLeaks ==
    \A c \in Conn :
        /\ \/ caller[c] = "gone"
           \/ caller[c] = "serving" /\ reader[c].pc = "done"
           => \A s \in Sock : owner[s] # c /\ peers[s] # c
        /\ caller[c] = "stale" => \A s \in Sock : owner[s] # c

\* What the process dies of: a bitfield as first message of a remote we
\* connected to, a client's handshake before the client has an entry, a wrapped
\* length in the buffer of an entry that is there, or a lock taken twice.
\* No thread of a connection uses an entry that is not there: they look it up
\* in the critical section that uses it.
DiesOf ==
    ~alive => \/ optimist = "threw"
              \/ \E c \in Conn :
                    \/ caller[c] \in {"message", "extra"} /\ c \in seeders
                    \/ caller[c] = "valid" /\ peers[fd[c]] = NoConn
                    \/ reader[c].pc = "append" /\ peers[fd[c]] # NoConn

\* run() serves a client only if its number was mistaken for that of another
\* connection, which has the number in hand or an entry left under it: of the
\* clients that share with nobody, none is ever served.
ServedByMistake ==
    \A c \in Conn : caller[c] \in {"known", "serving"} => c \in shared

\* Once the remote of a running connection has closed, the connection is taken
\* down: both threads end, the descriptor is closed, the entry is gone.  That is,
\* unless optimisticUnchoke blocked: then neither thread gets to its cleanup.
Reclaimed ==
    \A c \in Conn :
        caller[c] = "up" /\ ~stream[c].open
          ~> \/ reader[c].pc = "done" /\ writer[c].pc = "done"
             \/ ~alive \/ optimist = "stuck" \/ c \in shared
=============================================================================
