# GgBitTorrent client: TLA+ models, checks and proofs

The client finds peers through a tracker or the DHT, connects to them, and
exchanges pieces of a torrent with them.  This directory holds TLA+ models of
its core, translated from the C++ source, the TLC configurations that check
them on small instances, and proofs of theorems about them for TLAPS.
`PROJECT.json` lists components, runs, mutants, the source lines each
definition stands for, hazards, findings and theorems.

    tlc -config PieceTransfer.cfg MCPieceTransfer.tla
    tlapm PieceTransferProofs.tla

and so on for the other `.cfg` files and the other `...Proofs` modules.

## The system

| Component | State it keeps | Operations | What makes it correct |
|---|---|---|---|
| Piece store (`piece_manager.cpp`) | per piece: bytes, a bitmap of blocks, a counter; the set of completed pieces | getPieceBlock, storePieceBlock, isPieceComplete, getFullPiece, markPieceAsDownloaded, getBlockCount | counter, bitmap and completed set agree; the bitmap describes the bytes |
| Block transfer (`handlePiece`, `handleRequest`, `computeSHA1`, `rawToHex`) | per peer: a queue of responses | store, hash and compare, mark; serve | only right pieces are verified and they stay so; what is served of them is right |
| Outgoing connections (`connectToPeer`, `handlePeerInput`, `handlePeerOutput`) | the map `peers` from descriptors to connections, input and output buffers | connect, register, handshake, two detached threads, cleanup; sendRequest, sendPiece | streams are not mixed up or reordered; nothing leaks; a cleanup hits its own connection |
| Framing (`process_input_buffer`, `handle_message`, end of `sendHandshake`) | bytes not yet parsed; choke and interest flags, the peer's bitfield, message_queue | receive, cut out messages, handle | each message is handled once and in order |
| DHT node (`dht_bootstrap.cpp`) | routing table of buckets, peers per info hash | bootstrap, add_to_routing_table, ping, four queries | nodes are in the bucket of their distance; answers are the closest nodes; acknowledged peers are served |
| Incoming connections, choking (`run`, `handleHandshake`, `manageChoking`, `optimisticUnchoke`) | as above, `choked_by_us` | accept, handshake, choke rounds | choked peers get unchoked; no thread blocks itself |
| Tracker client (`queryTracker`) | WinHTTP handles | one HTTP exchange | handles are closed on every path |
| Driver, start-up, shutdown (`main.cpp`, constructors) | Winsock count, threads, `connected` | discover, connect concurrently, return | sockets are used while Winsock is up; the exit code is right; main returns |
| Bencode, torrent files, magnet links | none | parse, encode, extract | the info hash is the torrent's; the pieces hold the files |

How they interact: the application calls PeerWireProtocol, which owns the DHT
node, the piece store and `peers`.  One mutex, `peerMutex`, protects `peers`,
and handlePiece and handleRequest hold it from beginning to end.  The two
threads of a connection find it by its descriptor.  Received bytes go through
`process_input_buffer` to `handle_message`, which keeps flags and queues; it
only logs pieces, so handlePiece is called by the application (the drivers in
`main.cpp` do it), not by the network.

What is hard here: descriptors that the operating system hands out again while
a thread still has the old one in hand; a two-sided teardown in which each
thread notices the end in another way; receiving and sending outside the lock;
byte boundaries that have nothing to do with messages; a store that is written
to by blocks of any offset and size before and after verification; a routing
table whose shape changes the bucket of a node.

## Modules

| Module | Models | Extends / uses |
|---|---|---|
| `PieceManager` | the store: geometry and operators on an entry | |
| `PieceTransfer` | handlePiece, handleRequest as steps on the store | `PieceManager` |
| `PieceTransferProofs` | theorems about `PieceTransfer` | |
| `HashHex` | the comparison of two printed digests | |
| `HashHexProofs` | the theorem about `HashHex` | |
| `PeerTable` | connections, threads, descriptors, the map | |
| `PeerTableProofs` | theorems about `PeerTable` | |
| `MessageChannel` | abstract: messages handled once, in order | |
| `Framing` | bytes, the reads, the parser | instance of `MessageChannel` |
| `FramingProofs` | theorems about `Framing`, the refinement | |
| `PeerServer` | run's accept loop, handleHandshake, client threads, optimisticUnchoke's lock | extends `PeerTable` |
| `PeerServerProofs` | theorems about `PeerServer` | extends `PeerTableProofs` |
| `Tracker` | queryTracker, parseTrackerPeers | |
| `Driver` | main, constructors and destructors, connect threads | extends `PeerTable`, instance of `Tracker` |
| `DriverProofs` | theorems about `Driver` | extends `PeerTableProofs` |
| `Choking` | manageChoking, optimisticUnchoke, send_unchoke | |
| `ChokingProofs` | theorems about `Choking` | |
| `Dht` | bootstrap, routing table, announce_peer | |
| `DhtProofs` | theorems about `Dht` | |
| `Bencode` | the parser and the encoder, as operators | |
| `Geometry` | the numbers of pieces and digests that parse() finds | |
| `TorrentFile` | TorrentFileParser | extends `Bencode`, `Geometry` |
| `MC...` | values of the constants for TLC | |

**PieceManager, PieceTransfer.**  `present` and `pieces` are the map `pieces`,
`completedPieces` the set of that name.  A byte is `zero` (what `resize` left),
`right` or `wrong`.  A call of handlePiece is one step, because it holds
`peerMutex`; refused calls change nothing and are no steps.  `AcceptBlock`
stores the block and, in the same step, completes, hashes and marks the piece
like the code.  `receivedBlocks[blockIndex]` beyond the vector is undefined
behaviour: the three `Overrun...` actions are its outcomes (death of the
process, a stray 0, a stray 1), and `overrun` remembers the piece, of which
nothing is promised afterwards.  A request whose end is no int passes
getPieceBlock's range check; the copy then ends the process
(`RequestOverflowCrash`), or finds some other memory, which handleRequest queues
as its answer (`RequestOverflowStray`).  `verified` and `ragged` are history variables.
The store is taken as set by the drivers: the constructor's own `make_unique`
is commented out.

**HashHex.**  A stream with a width that each output resets, and the two
conversions on it, each loop a function of the number of bytes printed.  `MismatchCharacterised` justifies the constant `ShortHash`
of PieceTransfer: the pieces whose digest has a byte below 16 after its first.

**PeerTable.**  One connection is one call of connectToPeer.  `owner` is the
kernel's table of descriptors, `peers` the map, `fd` the local `sock` of the call
and its threads.  A step is one critical section of `peerMutex` or one system
call.  `shared` is a history variable: connections that used a descriptor while
another one still had it in hand.  The properties that hold speak of the others;
`CleanupClosesOwn` shows what happens to those.  `HandshakeThrows` is the vector
for the rest of the first message, sized by an int that may be negative or huge:
the exception leaves connectToPeer after the connection was registered and before
it has threads, so its descriptor and its entry stay (`NoLeak` says exactly that).
`InputDies` is process_input_buffer at a length whose sum with the header wraps.
Which bytes make it so is Framing's business; here it may happen whenever bytes
are appended to an entry.

**PeerServer.**  Clients use the same descriptors and the same map; their thread's
steps are values of `caller[c]` that connectToPeer does not have.  What
handleHandshake does with `peers[peerSocket]` before the client is registered is
a null entry written through, the end of the process, or somebody else's entry.
When the parser throws in a client's thread (`InputThrows`), run()'s catch clause
closes the descriptor, and the entry stays.  `optimist` is the other thread that
run() starts: once its second lock blocks, whatever needs `peerMutex` waits
(`Lockable`).  choked_by_us is left out, so it may pick any entry, and so is
manageChoking, which never reaches send_unchoke.

**Driver, Tracker.**  The whole program: `driver` is where main is, through the
constructors of PeerWireProtocol and of the DHT node, `task[c]` the thread that
connects to entry c of `peersToTry`.  `peer_wire_protocol.cpp` includes
`winhttp.h`, so the program is a Windows program: `winsock` counts WSAStartup
against WSACleanup, and the last WSACleanup takes all sockets with it.  After
the destructor, a detached thread that locks `peerMutex` or uses the map finds an
empty map or ends the process.  queryTracker is one step for each call of
WinHTTP, which succeeds or takes the early return that follows it in the code.

**Choking.**  `peers`, `interested`, `choked` are the map and the flags
`peer_interested` and `choked_by_us` of its entries.  `holder` is the choking
thread that has `peerMutex`; `at` and `now` follow it through send_unchoke, which
locks the non-recursive `buffer_mutex` twice.  `Relock` is the set of outcomes:
waiting for ever, an exception (in a detached thread: the end), or none.

**Bencode, TorrentFile.**  A text is a sequence of characters, keys are cut to one
letter.  stoll reads blanks, a sign and digits, and throws beyond int64_t
(`LongMax`).  `fields` is the info dictionary in the file, field by field, in any
order and with repetitions; one action is one way in which parse() can end.
`Geometry` divides as C++ does, towards 0, and `Wrap` is the narrowing of the
quotient to the int numPieces.  The sum of the lengths of files, an int64_t, is
taken to wrap too.

**Framing, MessageChannel.**  A byte is its offset in a script of messages; the
buffer is what lies between `parsed` and `arrived`.  Out of step with the peer,
the parser takes any length and any message (`ParseGarbage`).  If the rest of the
first message does not fit in an int or in the memory (`MaxBuffer`), sendHandshake
throws (`ExtraThrows`) and nobody reads on.  The refinement
maps the unparsed messages to the channel's `pending`; the channel lets
messages be lost only when the connection opens.  A channel that opened out of
step promises nothing, and `AllHandled` and `NothingHeldBack` leave it out too.

**Dht.**  An ID is the set of its 1 bits, and our own is empty, since only XOR
distances are used.  A reply is chosen one node at a time; a ping is answered
or not, whoever is alive, as datagrams get lost.  A bit beyond the ID, which is
read when the table has more buckets than an ID has bits, is 0 or 1.  `seen` is
a history variable: for each bucket, the pairs of nodes of which the second gave
the later sign of life.  Queries that change nothing are operators (`FindClosest`,
`GetPeersAnswers`), not steps.  find_closest_nodes sorts by rank: each entry's
place is the number of entries closer than it, and among equally close ones any
order is a possible result of `std::sort`; the model takes one, and
`ClosestAnswered` speaks of distances only.

## Runs

| Run | Checks | Instance |
|---|---|---|
| `transfer` | 6 invariants, 2 action properties | 2 pieces of 3 bytes, blocks of 2, all blocks and requests with index, offset and size on, inside and beyond the limits |
| `last_piece` (violation) | a completed piece was fully received | grid-aligned, right blocks only |
| `hash_hex` | which digests match | every pair of digests of 3 bytes of 2 binary digits |
| `peer_table` | 5 invariants | 2 connections, 2 descriptors, 2 items and 2 messages each; symmetric in both sets |
| `descriptor_reuse` (violation) | a cleanup closes its own connection | 2 connections, 2 descriptors |
| `server` | clients: no leaks, what the process dies of, who is served; teardown happens | 1 connection of ours and 2 clients for 1 descriptor, every outcome of the second lock, no symmetry |
| `driver` | Winsock, handles, who outlives the object, exit code; main returns | 2 peers, 2 descriptors, a reply in 1 piece |
| `choking` | flags and wire agree; a blocked lock stops everybody; peers are unchoked in the end | 3 peers, 1 slot, every outcome of the second lock |
| `framing` | refinement of the channel, nothing held back, all handled | 4 scripts with every kind of message, headers of 2 bytes, reads of 4, no memory for more than 3 |
| `framing_doc` (violation) | an early unchoke counts | one script |
| `dht` | 6 invariants, bootstrap ends | 6 nodes, two of them with one ID at two addresses, buckets of 3, IDs of 2 bytes of 2 bits, 6 insertions, 2 info hashes |
| `metadata` | the info hash, the geometry | every info dictionary of at most 4 of 17 fields: right ones, wrong kinds, negative and too large numbers, not as the encoder writes them, nested; int up to 2, int64_t up to 99 |

Why these bounds are enough.  `transfer`: with piece length 3 and blocks of 2, a
full-size piece has a whole and a short block, and the last piece has one bit
for two blocks, so every branch of the store and every out-of-range access
occurs; requests include an offset whose sum with the size overflows.
`peer_table`: two connections are what it takes to reuse a descriptor, with two
descriptors they may also never meet, and two items make loss and reordering
visible; a third connection adds no new pair.  `server`: with one descriptor every
two of the three connections meet on it, in every order.  `driver`: two threads
race for the flag, and one can be silent while the other is up.  `choking`: with
three peers one can be in each state while a fourth would repeat one of them, and
the slot limit is below their number.  `metadata`: four fields make a good
dictionary (length, piece length, pieces and one more), and three are enough for
a wrong order and a repetition; with such small integers a number of pieces, a
sum of two files and a length in the text each go beyond their type.  `framing`: reads of up to 4 bytes
cut messages of 2 to 6 bytes everywhere and also join several.  `dht`: four nodes
meet in a bucket of three, so that eviction happens twice in a row, and one far
node alone creates buckets beyond the last bit of an ID.

Bounds that are in guards: `MaxQueue` (nothing drains message_queue), `MaxItems`,
`MaxOut`, `MaxJunk`, `MaxReply`, `MaxStored`; `MaxChunks` and `MaxFields` are in the
initial states.  Deadlock checking is off in all runs: downloads, scripts,
bootstrapping and main end, and a killed process stops.  The largest
runs: `peer_table` has 3.6 million distinct states under symmetry, `server` 470
thousand, `driver` 340 thousand, `framing` 16 thousand.

Fairness.  `PeerTable`: the operating system runs every thread that can run, and
connect() returns; remote ends and the application owe nothing.  `PeerServer`: the
same for the threads of the connections we make, once they get `peerMutex`; of
clients and of the choking thread nothing is assumed.  `Reclaimed` leaves out
what it cannot promise: a connection that shares its number, a dead process, and
an optimisticUnchoke that keeps the mutex.  `Driver`: the same for
main and its threads; requests to the tracker and to DHT nodes end, because
WinHTTP and the nodes' sockets have timeouts.  recv() on a connection has none,
and `MainReturns` says what that means.  `Choking`: the thread in a critical
section goes on (weak); the optimistic thread gets the mutex again and again and
its dice pick every choked peer some time (strong, for each peer).  `Framing`: TCP
delivers what was sent.  `Dht`: the two-second timeouts run out; nobody has to
answer.  The other specifications have none.

## Findings

Runs that expect a violation show three:

1. The last piece's block count comes from `pieceLength % MAX_BLOCK_SIZE`: it is
   complete too early, or its bitmap is empty (`last_piece`).
2. Both threads close the descriptor (`descriptor_reuse`).
3. Messages read along with the handshake are lost (`framing_doc`).

Passing properties describe others exactly, instead of hiding them:

4. `rawToHex` loses zeros: right pieces fail their check unless all bytes of
   their digest but the first are at least 16, which few are.  No wrong digest is
   accepted (`MismatchCharacterised`).
5. handleBitfield writes into an empty vector, handleHandshake through a null
   entry, process_input_buffer copies a message of a wrapped length, and
   send_unchoke locks twice: these four are all the process dies of while it serves
   (`DiesOf`).  So run() serves no client, except by mistake for another
   connection whose number it got (`ServedByMistake`).
6. manageChoking, whose comment is "Unchoke top 4 peers"
   (`peer_wire_protocol.cpp:638`), collects the peers that are not choked and then
   unchokes those that are choked: nobody.  There is no property of its own for
   this, since it can be read off `Candidates`.  optimisticUnchoke does unchoke,
   interested or not (`UnchokedOrFrozen`), if the second lock of `buffer_mutex` lets
   it, and otherwise nothing on any connection ever changes again (`StuckForGood`).
7. main() waits for every connect thread: a remote that accepts and stays silent
   keeps it from returning although another connection is up (`MainReturns`), and
   once it returns the connections it made go with the process.
8. bootstrap() closes the DHT node's socket with its WSACleanup; sockets work
   later only because PeerWireProtocol's constructor starts Winsock after it
   (`WinsockUp`).  Detached threads can use the destroyed object
   (`OnlyDetachedOutlive`).
9. A torrent file whose info dictionary is not written as the encoder would gets
   another info hash (`InfoHashFaithful`).  numPieces is an int and lengths may be
   negative: exactly when the number of pieces needed fits an int and no length has
   the wrong sign is numPieces that number, and otherwise parse() returns another one
   without a word; without a piece length it divides by zero (`GeometryRight`).
10. find_closest_nodes is documented to return the K closest nodes
   (`dht_bootstrap.cpp:504` and `:530`), but a node can have entries in several
   buckets, and each may take a place of the answer, which then names fewer than K
   nodes while others are missing (`ClosestAnswered`, `Scattered`).
11. A first message with a length of 2^31 or more makes sendHandshake throw, and the
   connection keeps its descriptor and its entry although connectToPeer gave up
   (`NoLeak`).  A client whose parser throws keeps its entry under a closed number
   (`NoClientLeaks`).
12. A request whose end overflows an int passes the range check and may be
   answered with bytes that are not the torrent's (`ServesTorrentBytes`).

Also visible in the models: a piece that failed its check can never be repaired
(`CompletedIsFinal`), and the node pinged on eviction is the oldest or the one
that last replaced another (`RecencyOrder`), although the comment says oldest.

## Proofs

`PieceTransferProofs` proves all eight properties of `transfer` for every number
and length of pieces, every block size, every set of blocks, requests and peers,
from the named assumptions on the constants alone.

The inductive invariant is `TypeOK /\ LedgerConsistent`, to which each further
invariant is added in turn.  The ledger is what makes the others inductive:
VerifiedIntact by itself would allow a state in which a verified piece has a
clear bit, and the next block would then overwrite it.  With the ledger, a
completed piece has all its bits set, so no block with its bit in the bitmap is
accepted again.  The argument:

1. `BlockCount`: `BlocksOf(p)` is finite and has `GetBlockCount(p)` elements.
2. `StepOfPiece`: a step leaves piece p alone, puts it into `overrun`, or is
   `StoreInRange` of a block of p.  Every later proof has these cases.
3. `StoreEffect`: such a block meets an incomplete piece, adds exactly one bit,
   and completes the piece when that was the last one (cardinality of finite sets).
4. `LedgerStep`, `VerifiedStep`, `CompleteRightStep`, `BitmapStep`: one step keeps
   each invariant; the theorems close them with PTL.
5. `OverrunIsConfined` needs arithmetic only: division lemmas give the block
   index of a valid range (`InBitmapUnlessLast`); `WholeBlockCovers` gives the
   offsets of a grid block.

Two theorems of this module join it to the torrent file.  `GeometryFits` says
of every total size and every piece length but 0 that the int numPieces is the
least number of pieces that holds all bytes exactly if no length is negative and
that number fits an int, and that the last piece of a torrent that is not empty
then has 1 to pieceLength bytes, which is what `TransferAssumption` takes for
granted.  `DigestsAreWhole` says that extractPieces cuts one digest for every
multiple of 20 that "pieces" reaches.  They are the arithmetic of `GeometryRight`.

`ChokingProofs` proves Consistent and StuckForGood for every set of peers, every
number of slots and every set of outcomes of the second lock.  Consistent is not
inductive by itself: the state in which a thread is about to unchoke a peer that
was unchoked before leads to two messages.  `InHand` says what a thread can have in
hand: without the mutex nothing, in a round of manageChoking nothing, else one
choked peer, which has its message when only the flag is missing.  That a round of
manageChoking has nobody (`NoCandidateIsChoked`) is a lemma on the way.  Connections
step only while nobody holds the mutex (`ConnectionStep`), a round begins with
nobody or with one choked peer (`RoundStep`), and the holder's steps are
`HolderStep`.  `FrozenForGood` is the price of the second lock: once it blocks or
throws, no step of anybody is possible.  `MutexIsGivenBack` is the other branch:
the holder needs at most four steps, each of which lowers a measure.

`PeerTableProofs` proves all five invariants of `peer_table` for every set of
connections and descriptors, every remote stream and any number of messages.
`Descriptors`, the first part of the invariant `TableInv`, is what makes NoLeak
inductive.  `Control` says which points of a call and of its two threads go
together; `Owned`, that whoever has a descriptor or an entry has it under the
number in hand and is not over; `InHand`, that two with one number in hand are
both in `shared`; and `Held`, that who shares with nobody has its descriptor, and
its entry, until it is over (`Over`, `HasEntry`).  A call whose sendHandshake threw
has started no thread, so it is never over: from `Held` follows that it leaks.  `Dialing` and `Torn` keep the calls to connectToPeer
and say that nobody cleans up before the remote has closed.  `Hands`, `InputOrder`
and `OutputOrder` cut each stream into what is in the buffer, what a thread has
in hand and what is on the wire, and say that the parts fit together.  A step is
one of a few kinds, for which one lemma each shows that `Descriptors` survives: it
leaves the descriptors alone (`Quiet`), ends a use of one (`Closing`), opens one,
or enters a connection into the map.

Two further theorems are about the end of a connection that shares its descriptor
with none.  `OneEndsTheOtherHolds`: when one of its threads is done, the other one
finds the socket closed, or the entry gone, when it next looks.
`TearDownIsBounded`: `WorkLeft` counts what can still be received, taken from the
buffer or queued, and where the threads are; once the remote has closed, each step
of the two threads lowers it and no step of anybody raises it (`InputLowers`,
`OutputLowers`, `QueueingLowers`).

`PeerServerProofs` and `DriverProofs` use
these lemmas again for their own steps.

`PeerServerProofs` proves the three invariants of `server`, and that TypeOK,
RegisteredIsOpen and NoLeak of the table survive clients.  `ServerInv` is
`Descriptors` together with DiesOf and ServedByMistake: whether a client's
handshake finds its own entry, somebody else's or none depends on `Owned` and
`InHand`.  DiesOf needs a case for each way to die, and that nothing happens after
it (`DyingStep`); optimisticUnchoke is a step that queues a message, or nothing at
all (`OptimisticStep`).

`DriverProofs` proves the five invariants of `driver` for every list of peers and
every length of the tracker's reply.  In `DriverInv`, `Program` says, for each
point of main, how often Winsock was started, which threads can exist and what
they have done, and `HandleState` which handles queryTracker has open.  WinsockUp
by itself does not say that the last WSACleanup waits for the joins; `Program`
does.  `Table` keeps `Control` to the end, but `Descriptors` and `Torn` only until
~PeerWireProtocol takes all sockets away.  `Deaths` says what the process died of:
a seeder's first message, a wrapped length in the buffer of an entry that is
there, or the destroyed object.

`DhtProofs` proves all six invariants of `dht` for every length of IDs, every K and
every set of nodes.  `GoodBucket` joins three facts about one bucket (its size, no
node twice, its order), and three lemmas show that rotating (`MovedBucket`),
appending (`LongerBucket`) and replacing the front (`ReplacedFront`) keep it.
`BucketFound` shows that the bucket that add_to_routing_table finds or makes is one,
and that the node belongs there, also where a bit is read beyond the ID;
`OneBucketHolds`, that it is the only one while the table has no more buckets than
an ID has bits.

ClosestAnswered needs that `Less` orders distances strictly and totally
(`LessIsIrreflexive`, `LessIsTransitive`, `LessIsTotal`).  It compares the highest
bit in which two of them differ (`GreatestBit`).  So no two entries have the same
rank and the ranks of n entries are 1 to n (`RanksFollow`); sorting is a bijection
(`SortedFacts`), and nobody behind the K-th place is closer than one before it.
`CloserTells` adds that nodes with different IDs are never equally close to a
target, so that only nodes with one ID leave std::sort a choice.  An answer has K places
unless it names every node, and repeats a node only where the table does.
`BootstrapIsBounded` gives a measure that every step of bootstrap() lowers.

`FramingProofs` proves TypeOK, NothingHeldBack and that Framing implements
MessageChannel, for every set of scripts, every header, read size and modulus.  The
offsets of the messages are defined by recursion.  The library's induction
theorems take an operator, which the provers cannot instantiate; instead `WFMin`,
which takes a set, gives every set of numbers a least element (`LeastNumber`), and
`OffsetsExist`, `StartFacts` and `StartsGrow` look at the least number for which
they would fail.  `FramingInv` says that the opening takes nothing out before its
end, and that after a right start the parser is at the start of a message or at the
end of the stream.  For the refinement, the opening's last step is the channel's
Open (`OpeningRefines`), ParseMessage is Deliver or happens out of step
(`ParserRefines`), and all others leave the channel alone (`BufferRefines`).
`ReadingEnds` gives a measure that every step lowers, so process_input_buffer never
goes round without taking bytes out, and `ReadIsHandledHolds` says where it ends:
with every byte handled.

`HashHexProofs` proves MismatchCharacterised for every radix and every length of
digests, by the same kind of induction over the bytes printed: computeSHA1 prints
two digits of each (`ComputedText`), rawToHex does so too or comes out shorter
(`ExpectedText`), and two digits determine a byte (`DigitsTellApart`).

Only model-checked:

- Liveness (`Reclaimed`, `AllHandled`, `BootstrapEnds`, `MainReturns`,
  `UnchokedOrFrozen`), which is out of the prover's reach.  Of the first three, all
  but the fairness is proved: the measures above are natural numbers which
  the steps in question lower.  The measures are defined beside their theorems and
  in no run, because they say nothing that the liveness properties do not.
- `InfoHashFaithful`, and `GeometryRight` as a property of what parse() returns: the
  parser and the encoder are recursive operators over nested values, for which
  induction over the texts would be needed.

## What is not modelled, and abstractions

- SHA-1 is free of collisions; a piece's payload is right, wrong or zero.
- An access beyond the bitmap may hit other memory of the process; the model has
  it die or read a bit, and stops making promises about that piece.
- recv() on a closed descriptor returns an error; send() on a blocking socket
  takes everything or fails.
- Rate counters, logging, the texts of messages; with the rates, the order in
  which manageChoking goes through its candidates.
- `Dht` takes the POSIX branches of the sockets; `Driver` has the Winsock side.
- What a detached thread finds in a destroyed object is an empty map or the end of
  the process; values read from freed memory are left out.
- run()'s own start-up (it throws or listens) and send_choke, send_interested,
  send_not_interested, sendBitfield, which nothing calls.
- Bencoded texts on which the parser does not end: the length of a dictionary key
  may be negative, and the parser then goes back.  Keys where it comes out of this
  are modelled; a text on which it loops has no value in a recursive operator.
- Announce, comment and creation date, which are read like the name.
- Exceptions of an allocation that fails, but for the buffer of a length that the
  remote chose (`HandshakeThrows`, `ExtraThrows`, `InputDies`).
- In `Framing`, a length whose sum wraps in a stream that is in step: a script's
  messages fit in the modulus (`FramingAssumption`), and out of step any length
  can come.  Its effect on the table is `InputDies`.
- In `PeerServer`, choked_by_us and manageChoking; `Choking` has them.
- Magnet links: text handling that the program never calls.
- The commented-out drivers in `main.cpp`.

## Plan

1. Announcements that are repeated after a lost response (`Dht`).
2. A parser of `Bencode` as a machine with steps, so that a text on which it loops
   is a behaviour, and termination a liveness property.
3. choked_by_us in `PeerServer`, so that `Choking` becomes its abstract specification.
