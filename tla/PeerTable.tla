----------------------------- MODULE PeerTable -----------------------------
(***************************************************************************)
(* Outgoing connections: connectToPeer, the two detached threads it starts *)
(* (handlePeerInput, handlePeerOutput), and the map `peers` they share.    *)
(*                                                                         *)
(* Everything is keyed by the socket descriptor, a number the operating    *)
(* system hands out again as soon as it is closed, and both threads close  *)
(* it on their way out.  A connection is one call of connectToPeer; it     *)
(* stands for the call, its socket, its PeerConnection and the remote end. *)
(* Each step is one critical section of peerMutex or one system call.      *)
(*                                                                         *)
(* What a remote sends is a sequence of numbered items, the first of them  *)
(* its handshake.  How messages are cut out of the bytes is left out.      *)
(***************************************************************************)
EXTENDS Integers, Sequences, SequencesExt

CONSTANTS
    Conn,       \* calls of connectToPeer
    Sock,       \* descriptors the operating system can hand out
    NoConn,     \* what owns a descriptor that is not open
    NoSock,     \* the value of `sock` before socket() returns
    MaxItems,   \* bound: items a remote sends
    MaxOut      \* bound: messages queued for one connection

ASSUME TableAssumption ==
    /\ NoConn \notin Conn /\ NoSock \notin Sock
    /\ MaxItems \in Nat /\ MaxOut \in Nat

VARIABLES
    owner,      \* operating system: whose socket a descriptor is
    peers,      \* the map `peers`: whose PeerConnection a descriptor finds
    fd,         \* the local variable `sock` of a call and of its threads
    caller,     \* where connectToPeer is (or the client thread: PeerServer)
    reader,     \* input thread: pc, and the items received but not appended
    writer,     \* output thread: pc, and the messages taken but not sent
    conn,       \* PeerConnection: all input appended, the output buffer, and
                \* how many messages were appended to it
    stream,     \* remote end: items sent, items received from it, messages it
                \* was sent, and whether it is still open
    seeders,    \* remotes whose first message is a bitfield
    alive,      \* FALSE once undefined behaviour killed the process
    shared      \* history: connections that used a descriptor at a time when
                \* another one still had it in hand, or an entry under it

vars == <<owner, peers, fd, caller, reader, writer, conn, stream, seeders, alive,
          shared>>
world == <<seeders, alive, shared>>

Item == Conn \X (1 .. MaxItems)
Message == Conn \X (1 .. MaxOut)

\* Before socket() or accept(), and after the call.
Idle == {"start", "up", "failed", "thrown", "serving", "gone", "stale"}

\* c's call or one of its threads still has c's descriptor in hand.
Using(c) == \/ caller[c] \notin Idle
            \/ reader[c].pc \notin {"none", "done"}
            \/ writer[c].pc \notin {"none", "done"}

Registered(c) == fd[c] # NoSock /\ peers[fd[c]] = c

\* Whom a new connection would have to share descriptor s with.
Rivals(s) == {d \in Conn : fd[d] = s /\ (Using(d) \/ Registered(d))}

Share(c, s) ==
    shared' = IF Rivals(s) = {} THEN shared ELSE shared \cup Rivals(s) \cup {c}

Goto(thread, c, pc) == [thread EXCEPT ![c].pc = pc]

\* closeSocket(sock) closes whatever the number means by now.
CloseSocket(s) == owner' = [owner EXCEPT ![s] = NoConn]

Waiting(o) == stream[o].sent - stream[o].taken

\* Mutant: trusts the length it asked for instead of the one it got.
ReceivesRequested(s, n) ==
    /\ owner[s] # NoConn
    /\ n \in 1 .. Waiting(owner[s])
    /\ stream' = [stream EXCEPT ![owner[s]].taken = @ + MaxItems]

\* recv() on descriptor s takes n of the items waiting in that socket ...
Receives(s, n) ==
    /\ owner[s] # NoConn
    /\ n \in 1 .. Waiting(owner[s])
    /\ stream' = [stream EXCEPT ![owner[s]].taken = @ + n]

Readable(s) == owner[s] # NoConn /\ Waiting(owner[s]) > 0

\* ... or it returns 0 or an error.
ReceivesNothing(s) ==
    owner[s] # NoConn => ~stream[owner[s]].open /\ Waiting(owner[s]) = 0

-----------------------------------------------------------------------------
(* connectToPeer                                                           *)

\* socket(): any number that is free.
OpenSocket(c) ==
    /\ alive /\ caller[c] = "start"
    /\ \E s \in Sock : /\ owner[s] = NoConn
                       /\ owner' = [owner EXCEPT ![s] = c]
                       /\ fd' = [fd EXCEPT ![c] = s]
                       /\ Share(c, s)
    /\ caller' = [caller EXCEPT ![c] = "connect"]
    /\ UNCHANGED <<peers, reader, writer, conn, stream, seeders, alive>>

\* Mutant: gives up without closing the socket.
ConnectFailsLeaks(c) ==
    /\ alive /\ caller[c] = "connect"
    /\ caller' = [caller EXCEPT ![c] = "failed"]
    /\ UNCHANGED <<owner, peers, fd, reader, writer, conn, stream, world>>

\* connect() fails: the socket is closed and the call throws.
ConnectFails(c) ==
    /\ alive /\ caller[c] = "connect"
    /\ CloseSocket(fd[c])
    /\ caller' = [caller EXCEPT ![c] = "failed"]
    /\ UNCHANGED <<peers, fd, reader, writer, conn, stream, world>>

\* connect() succeeds on the socket it was called for.
ConnectSucceeds(c) ==
    /\ alive /\ caller[c] = "connect"
    /\ owner[fd[c]] = c
    /\ caller' = [caller EXCEPT ![c] = "register"]
    /\ UNCHANGED <<owner, peers, fd, reader, writer, conn, stream, world>>

\* peers[sock] = conn, under the lock.
Register(c) ==
    /\ alive /\ caller[c] = "register"
    /\ peers' = [peers EXCEPT ![fd[c]] = c]
    /\ caller' = [caller EXCEPT ![c] = "handshake"]
    /\ UNCHANGED <<owner, fd, reader, writer, conn, stream, world>>

(***************************************************************************)
(* sendHandshake is void: whatever it says went wrong, connectToPeer goes  *)
(* on to start the threads.  The remote's handshake is read whole, or it      *)
(* comes short (or not at all) and what is left of it stays in the socket. *)
(***************************************************************************)
Handshake(c) ==
    /\ alive /\ caller[c] = "handshake"
    /\ \/ Receives(fd[c], 1) /\ caller' = [caller EXCEPT ![c] = "message"]
       \/ /\ ReceivesNothing(fd[c]) \/ Readable(fd[c])
          /\ caller' = [caller EXCEPT ![c] = "spawn"]
          /\ UNCHANGED stream
    /\ UNCHANGED <<owner, peers, fd, reader, writer, conn, world>>

(***************************************************************************)
(* "Start reading the next message": one recv(), and one more if the first *)
(* message is longer than what came.  A bitfield goes to handleBitfield,   *)
(* which writes into an empty vector<bool>.  Any other message, or one of  *)
(* which fewer than five bytes came, is dropped, and so is all that came   *)
(* with it.                                                                *)
(***************************************************************************)
DispatchFirstMessage(c) ==
    \/ c \in seeders /\ alive' = FALSE /\ UNCHANGED caller
    \/ caller' = [caller EXCEPT ![c] = "spawn"] /\ UNCHANGED alive

FirstMessage(c) ==
    /\ alive /\ caller[c] = "message"
    /\ \/ /\ \E n \in 1 .. MaxItems : Receives(fd[c], n)
          /\ \/ DispatchFirstMessage(c)
             \/ caller' = [caller EXCEPT ![c] = "extra"] /\ UNCHANGED alive
       \/ /\ ReceivesNothing(fd[c])
          /\ caller' = [caller EXCEPT ![c] = "spawn"]
          /\ UNCHANGED <<stream, alive>>
    /\ UNCHANGED <<owner, peers, fd, reader, writer, conn, seeders, shared>>

RestOfFirstMessage(c) ==
    /\ alive /\ caller[c] = "extra"
    /\ Receives(fd[c], 1) \/ (ReceivesNothing(fd[c]) /\ UNCHANGED stream)
    /\ DispatchFirstMessage(c)
    /\ UNCHANGED <<owner, peers, fd, reader, writer, conn, seeders, shared>>

(***************************************************************************)
(* The buffer for the rest is as large as the message says, in an int: a   *)
(* length beyond its range, or beyond the memory there is, throws.  Nobody *)
(* in sendHandshake or connectToPeer catches it, closes the socket or      *)
(* erases the entry, and the threads that would are not started.           *)
(***************************************************************************)
HandshakeThrows(c) ==
    /\ alive /\ caller[c] = "extra"
    /\ caller' = [caller EXCEPT ![c] = "thrown"]
    /\ UNCHANGED <<owner, peers, fd, reader, writer, conn, stream, world>>

\* Both threads are started and the call returns the descriptor.
StartThreads(c) ==
    /\ alive /\ caller[c] = "spawn"
    /\ caller' = [caller EXCEPT ![c] = "up"]
    /\ reader' = Goto(reader, c, "recv")
    /\ writer' = Goto(writer, c, "poll")
    /\ UNCHANGED <<owner, peers, fd, conn, stream, world>>

ConnectToPeer(c) ==
    \/ OpenSocket(c) \/ ConnectFails(c) \/ ConnectSucceeds(c) \/ Register(c)
    \/ Handshake(c) \/ FirstMessage(c) \/ RestOfFirstMessage(c)
    \/ HandshakeThrows(c) \/ StartThreads(c)

-----------------------------------------------------------------------------
(* handlePeerInput                                                         *)

InputReceives(c) ==
    /\ alive /\ reader[c].pc = "recv"
    /\ \E n \in 1 .. MaxItems :
          LET o == owner[fd[c]]
          IN  /\ Receives(fd[c], n)
              /\ reader' = [reader EXCEPT ![c] =
                    [pc |-> "append",
                     hand |-> [i \in 1 .. n |-> <<o, stream[o].taken + i>>]]]
    /\ UNCHANGED <<owner, peers, fd, caller, writer, conn, world>>

\* Mutant: only an error ends the loop, not the remote's closing.
InputEndsOnError(c) ==
    /\ alive /\ reader[c].pc = "recv"
    /\ owner[fd[c]] = NoConn
    /\ reader' = Goto(reader, c, "cleanup")
    /\ UNCHANGED <<owner, peers, fd, caller, writer, conn, stream, world>>

InputEnds(c) ==
    /\ alive /\ reader[c].pc = "recv"
    /\ ReceivesNothing(fd[c])
    /\ reader' = Goto(reader, c, "cleanup")
    /\ UNCHANGED <<owner, peers, fd, caller, writer, conn, stream, world>>

\* Mutant: inserts at the front of the buffer.
InputPrepends(c) ==
    /\ alive /\ reader[c].pc = "append"
    /\ LET o == peers[fd[c]]
       IN  conn' = IF o = NoConn THEN conn
                   ELSE [conn EXCEPT ![o].input = reader[c].hand \o @]
    /\ reader' = [reader EXCEPT ![c] = [pc |-> "recv", hand |-> <<>>]]
    /\ UNCHANGED <<owner, peers, fd, caller, writer, stream, world>>

\* Mutant: uses the entry without looking whether it is there.
InputAppendsUnchecked(c) ==
    /\ alive /\ reader[c].pc = "append"
    /\ LET o == peers[fd[c]]
       IN  \/ o = NoConn /\ alive' = FALSE /\ UNCHANGED <<conn, reader>>
           \/ /\ o # NoConn
              /\ conn' = [conn EXCEPT ![o].input = @ \o reader[c].hand]
              /\ reader' = [reader EXCEPT ![c] = [pc |-> "recv", hand |-> <<>>]]
              /\ UNCHANGED alive
    /\ UNCHANGED <<owner, peers, fd, caller, writer, stream, seeders, shared>>

\* Appends to the entry the descriptor finds now; without one, drops it all.
InputAppends(c) ==
    /\ alive /\ reader[c].pc = "append"
    /\ LET o == peers[fd[c]]
       IN  conn' = IF o = NoConn THEN conn
                   ELSE [conn EXCEPT ![o].input = @ \o reader[c].hand]
    /\ reader' = [reader EXCEPT ![c] = [pc |-> "recv", hand |-> <<>>]]
    /\ UNCHANGED <<owner, peers, fd, caller, writer, stream, world>>

(***************************************************************************)
(* In the same critical section, process_input_buffer may come to a length *)
(* whose sum with the header wraps around (Framing).  Copying that message *)
(* out of the buffer ends the process, by a fault or by an exception that  *)
(* leaves the thread.                                                      *)
(***************************************************************************)
InputDies(c) ==
    /\ alive /\ reader[c].pc = "append"
    /\ peers[fd[c]] # NoConn
    /\ alive' = FALSE
    /\ UNCHANGED <<owner, peers, fd, caller, reader, writer, conn, stream, seeders,
                   shared>>

\* "Cleanup on disconnect": under the lock, closes the number and erases it.
InputCleanup(c) ==
    /\ alive /\ reader[c].pc = "cleanup"
    /\ CloseSocket(fd[c])
    /\ peers' = [peers EXCEPT ![fd[c]] = NoConn]
    /\ reader' = Goto(reader, c, "done")
    /\ UNCHANGED <<fd, caller, writer, conn, stream, world>>

InputThread(c) == \/ InputReceives(c) \/ InputEnds(c) \/ InputAppends(c)
                  \/ InputDies(c) \/ InputCleanup(c)

-----------------------------------------------------------------------------
(* handlePeerOutput                                                        *)

\* Mutant: copies the buffer instead of swapping it out.
OutputCopies(c) ==
    /\ alive /\ writer[c].pc = "poll"
    /\ LET o == peers[fd[c]]
       IN  /\ o # NoConn
           /\ conn[o].output # <<>>
           /\ writer' = [writer EXCEPT ![c] = [pc |-> "send", hand |-> conn[o].output]]
    /\ UNCHANGED <<owner, peers, fd, caller, reader, conn, stream, world>>

\* Takes the whole output_buffer of the entry the descriptor finds.
OutputTakes(c) ==
    /\ alive /\ writer[c].pc = "poll"
    /\ LET o == peers[fd[c]]
       IN  /\ o # NoConn
           /\ conn[o].output # <<>>
           /\ writer' = [writer EXCEPT ![c] = [pc |-> "send", hand |-> conn[o].output]]
           /\ conn' = [conn EXCEPT ![o].output = <<>>]
    /\ UNCHANGED <<owner, peers, fd, caller, reader, stream, world>>

\* Mutant: an empty buffer ends the loop, too.
OutputEndsWhenIdle(c) ==
    /\ alive /\ writer[c].pc = "poll"
    /\ peers[fd[c]] # NoConn => conn[peers[fd[c]]].output = <<>>
    /\ writer' = Goto(writer, c, "cleanup")
    /\ UNCHANGED <<owner, peers, fd, caller, reader, conn, stream, world>>

OutputEnds(c) ==
    /\ alive /\ writer[c].pc = "poll"
    /\ peers[fd[c]] = NoConn
    /\ writer' = Goto(writer, c, "cleanup")
    /\ UNCHANGED <<owner, peers, fd, caller, reader, conn, stream, world>>

(***************************************************************************)
(* send(), outside the lock, takes all of it, or fails because the socket  *)
(* or the remote end is closed.                                            *)
(***************************************************************************)
OutputSends(c) ==
    /\ alive /\ writer[c].pc = "send"
    /\ LET o == owner[fd[c]]
       IN  \/ /\ o # NoConn
              /\ stream' = [stream EXCEPT ![o].wire = @ \o writer[c].hand]
              /\ writer' = [writer EXCEPT ![c] = [pc |-> "poll", hand |-> <<>>]]
           \/ /\ o # NoConn => ~stream[o].open
              /\ writer' = [writer EXCEPT ![c] = [pc |-> "cleanup", hand |-> <<>>]]
              /\ UNCHANGED stream
    /\ UNCHANGED <<owner, peers, fd, caller, reader, conn, world>>

\* "Cleanup on disconnect" once more, on the same number.
OutputCleanup(c) ==
    /\ alive /\ writer[c].pc = "cleanup"
    /\ CloseSocket(fd[c])
    /\ peers' = [peers EXCEPT ![fd[c]] = NoConn]
    /\ writer' = Goto(writer, c, "done")
    /\ UNCHANGED <<fd, caller, reader, conn, stream, world>>

OutputThread(c) == \/ OutputTakes(c) \/ OutputEnds(c)
                   \/ OutputSends(c) \/ OutputCleanup(c)

-----------------------------------------------------------------------------
(* The application and the remote ends                                     *)

(***************************************************************************)
(* sendRequest and sendPiece, with the descriptor connectToPeer returned:  *)
(* the message is appended to the entry that number finds, if any.         *)
(***************************************************************************)
SendMessage(c) ==
    /\ alive /\ caller[c] = "up"
    /\ LET o == peers[fd[c]]
       IN  /\ o # NoConn
           /\ conn[o].queued < MaxOut
           /\ conn' = [conn EXCEPT ![o].output = Append(@, <<o, conn[o].queued + 1>>),
                                   ![o].queued = @ + 1]
    /\ UNCHANGED <<owner, peers, fd, caller, reader, writer, stream, world>>

RemoteSends(c) ==
    /\ alive /\ caller[c] \notin {"start", "connect", "failed", "gone", "stale"}
    /\ stream[c].open /\ stream[c].sent < MaxItems
    /\ stream' = [stream EXCEPT ![c].sent = @ + 1]
    /\ UNCHANGED <<owner, peers, fd, caller, reader, writer, conn, world>>

RemoteCloses(c) ==
    /\ alive /\ caller[c] \notin {"start", "connect", "failed", "gone", "stale"}
    /\ stream[c].open
    /\ stream' = [stream EXCEPT ![c].open = FALSE]
    /\ UNCHANGED <<owner, peers, fd, caller, reader, writer, conn, world>>

Init ==
    /\ owner = [s \in Sock |-> NoConn]
    /\ peers = [s \in Sock |-> NoConn]
    /\ fd = [c \in Conn |-> NoSock]
    /\ caller = [c \in Conn |-> "start"]
    /\ reader = [c \in Conn |-> [pc |-> "none", hand |-> <<>>]]
    /\ writer = [c \in Conn |-> [pc |-> "none", hand |-> <<>>]]
    /\ conn = [c \in Conn |-> [input |-> <<>>, output |-> <<>>, queued |-> 0]]
    /\ stream = [c \in Conn |-> [sent |-> 0, taken |-> 0, wire |-> <<>>, open |-> TRUE]]
    /\ seeders \in SUBSET Conn
    /\ alive = TRUE
    /\ shared = {}

Next == \E c \in Conn :
    \/ ConnectToPeer(c) \/ InputThread(c) \/ OutputThread(c)
    \/ SendMessage(c) \/ RemoteSends(c) \/ RemoteCloses(c)

\* The operating system runs every thread that can run, and connect() returns.
Fairness == \A c \in Conn : /\ WF_vars(ConnectToPeer(c))
                            /\ WF_vars(InputThread(c))
                            /\ WF_vars(OutputThread(c))

Spec == Init /\ [][Next]_vars /\ Fairness
-----------------------------------------------------------------------------
(***************************************************************************)
(* Properties.  A connection in `shared` used a descriptor that another    *)
(* connection's thread still had in hand; of the others:                   *)
(***************************************************************************)
Sole == Conn \ shared

\* The descriptors, the map, the threads and the streams have their types; no
\* thread takes more from a socket than a remote can have sent.
TypeOK ==
    /\ owner \in [Sock -> Conn \cup {NoConn}]
    /\ peers \in [Sock -> Conn \cup {NoConn}]
    /\ fd \in [Conn -> Sock \cup {NoSock}]
    /\ caller \in [Conn -> {"start", "connect", "register", "handshake", "message",
                            "extra", "thrown", "spawn", "up", "failed", "accepted",
                            "valid", "invalid", "catch", "known", "serving",
                            "unwind", "gone", "stale"}]
    /\ reader \in [Conn -> [pc : {"none", "recv", "append", "cleanup", "done"},
                            hand : Seq(Item)]]
    /\ writer \in [Conn -> [pc : {"none", "poll", "send", "cleanup", "done"},
                            hand : Seq(Message)]]
    /\ conn \in [Conn -> [input : Seq(Item), output : Seq(Message),
                          queued : 0 .. MaxOut]]
    /\ stream \in [Conn -> [sent : 0 .. MaxItems, taken : 0 .. MaxItems,
                            wire : Seq(Message), open : BOOLEAN]]
    /\ \A c \in Conn : stream[c].taken <= stream[c].sent
    /\ seeders \subseteq Conn /\ shared \subseteq Conn
    /\ alive \in BOOLEAN

\* An entry of the map is found under its own, open descriptor: both cleanups
\* close and erase in one critical section.  (Only the catch clause of run()
\* closes without erasing: PeerServer.)
RegisteredIsOpen ==
    \A c \in Sole, s \in Sock :
        peers[s] = c /\ caller[c] # "stale" => fd[c] = s /\ owner[s] = c

\* What was appended to an entry, and what its input thread is about to
\* append, is an unbroken part of its own remote's stream, up to the last
\* item received: nothing is lost, repeated or swapped on the way from recv()
\* to the buffer.  (What the handshake took is gone.)
InputInOrder ==
    \A c \in Sole :
        Registered(c) /\ reader[c].pc \in {"recv", "append"} =>
            LET all == conn[c].input \o reader[c].hand
            IN  all = [i \in 1 .. Len(all) |-> <<c, stream[c].taken - Len(all) + i>>]

\* What the remote was sent, what the output thread has in hand and what is
\* still in the buffer are together the messages queued, in order; when the
\* thread is gone, the remote was sent a prefix of them.
OutputInOrder ==
    \A c \in Sole :
        LET queue == [i \in 1 .. conn[c].queued |-> <<c, i>>]
        IN  /\ IsPrefix(stream[c].wire, queue)
            /\ writer[c].pc \in {"poll", "send"} =>
                  stream[c].wire \o writer[c].hand \o conn[c].output = queue

\* When connect() has failed, or the first of its two threads has cleaned up,
\* a connection's descriptor is closed and its entry is gone, whoever else has
\* the number by then.  What connectToPeer leaks is what sendHandshake throws
\* with in hand, and that is for good: no later step closes or erases it.
NoLeak ==
    \A c \in Conn :
        /\ caller[c] = "failed" \/ reader[c].pc = "done" \/ writer[c].pc = "done"
           => \A s \in Sock : owner[s] # c /\ peers[s] # c
        /\ caller[c] = "thrown" /\ c \in Sole
           => owner[fd[c]] = c /\ peers[fd[c]] = c

\* An established connection is only torn down after its own remote closed:
\* no other connection's cleanup closes its descriptor.
ClosedOnlyOnDisconnect ==
    \A c \in Sole : caller[c] \notin {"start", "connect", "failed"} /\ stream[c].open
                        => owner[fd[c]] = c

\* Both at once: the map names open descriptors, and a descriptor stays with
\* its connection for as long as the remote does.
OwnDescriptor == RegisteredIsOpen /\ ClosedOnlyOnDisconnect

-----------------------------------------------------------------------------
(***************************************************************************)
(* What the source says of itself and the code does not do.                *)
(***************************************************************************)

\* "Cleanup on disconnect" (handlePeerInput, handlePeerOutput): a thread that
\* cleans up closes its own connection, if it is still open, and no other.
CleanupClosesOwn ==
    [][\A c \in Conn, s \in Sock :
          /\ \/ reader'[c].pc = "done" /\ reader[c].pc # "done"
             \/ writer'[c].pc = "done" /\ writer[c].pc # "done"
          /\ owner[s] # owner'[s]
          => owner[s] = c]_vars
=============================================================================
