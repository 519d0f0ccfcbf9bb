------------------------------ MODULE Framing ------------------------------
(***************************************************************************)
(* How the bytes of one connection become messages: the two reads at the   *)
(* end of sendHandshake, handlePeerInput's read, and the parser            *)
(* process_input_buffer.                                                   *)
(*                                                                         *)
(* The stream is a script of messages; a byte is its offset in the stream. *)
(* The input buffer holds the bytes from `parsed` to `arrived`.  Lengths   *)
(* are unsigned numbers modulo LengthModulus (2^32), and HeaderSize (4)    *)
(* bytes carry them.                                                       *)
(***************************************************************************)
EXTENDS Integers, Sequences, SequencesExt

CONSTANTS
    Scripts, BitsPerByte,  \* see MessageChannel
    HeaderSize,            \* bytes of the length prefix
    LengthModulus,         \* lengths and their sums are taken modulo this
    ReadSize,              \* the buffer given to recv()
    MaxBuffer,             \* the largest size, an int, that there is memory for
    MaxJunk                \* bound: bytes of a broken handshake left to read

ASSUME FramingAssumption ==
    /\ HeaderSize \in Nat \ {0} /\ ReadSize \in Nat \ {0} /\ MaxJunk \in Nat
    /\ LengthModulus \in Nat /\ LengthModulus > HeaderSize
    /\ MaxBuffer \in Nat /\ 2 * MaxBuffer < LengthModulus
    /\ \A script \in Scripts : \A i \in DOMAIN script :
          script[i].len + HeaderSize < LengthModulus

VARIABLES
    script,    \* what the peer sends
    junk,      \* bytes of its handshake that a short read left in the socket
    pc,        \* where the reading side is
    arrived,   \* bytes received so far
    parsed,    \* bytes taken out of the buffer, or never put in
    flags,     \* the state handle_message changes
    synced,    \* history: parsing began at the start of a message
    alive      \* FALSE once undefined behaviour killed the process

vars == <<script, junk, pc, arrived, parsed, flags, synced, alive>>

\* start[i] is the offset of message i, start[Len(script) + 1] the end.
start ==
    LET offset[i \in 1 .. Len(script) + 1] ==
            IF i = 1 THEN junk
            ELSE offset[i - 1] + HeaderSize + script[i - 1].len
    IN  offset

Total == start[Len(script) + 1]
Aligned == \E i \in 1 .. Len(script) : start[i] = parsed
Current == CHOOSE i \in 1 .. Len(script) : start[i] = parsed
Available == arrived - parsed

(***************************************************************************)
(* The promise.  Its pending messages are those that start at or after     *)
(* `parsed`.                                                               *)
(***************************************************************************)
Opening == pc \in {"handshake", "first", "extra", "thrown", "dispatch"}

Channel == INSTANCE MessageChannel WITH
    phase <- IF Opening THEN "opening" ELSE "open",
    pending <- IF Opening THEN script
               ELSE IF Aligned THEN SubSeq(script, Current, Len(script))
               ELSE <<>>

ASSUME ScriptsAssumption ==
    BitsPerByte \in Nat \ {0} /\ Scripts \subseteq Seq(Channel!Message)

-----------------------------------------------------------------------------
(* The end of sendHandshake.                                               *)

\* A handshake that came short ends sendHandshake: the rest is still to come.
HandshakeEnds ==
    /\ alive /\ pc = "handshake"
    /\ pc' = IF junk = 0 THEN "first" ELSE "recv"
    /\ UNCHANGED <<script, junk, arrived, parsed, flags, synced, alive>>

\* recv() of up to `size` bytes.
Arrives(size) ==
    \E n \in 1 .. size : arrived + n <= Total /\ arrived' = arrived + n

\* The first read takes whatever is there.
ReadFirst ==
    /\ alive /\ pc = "first"
    /\ Arrives(ReadSize)
    /\ pc' = IF /\ arrived' >= HeaderSize
                /\ script[1].len + HeaderSize > arrived'
             THEN "extra" ELSE "dispatch"
    /\ UNCHANGED <<script, junk, parsed, flags, synced, alive>>

\* Nothing to read: the peer has closed.
ReadNothing ==
    /\ alive /\ pc = "first" /\ arrived = Total
    /\ pc' = "recv" /\ synced' = TRUE
    /\ UNCHANGED <<script, junk, arrived, parsed, flags, alive>>

\* What is missing of the first message.
Remaining == script[1].len + HeaderSize - arrived

\* One more read for it, which may come short.
ReadExtra ==
    /\ alive /\ pc = "extra"
    /\ Remaining <= MaxBuffer
    /\ Arrives(Remaining)
    /\ pc' = "dispatch"
    /\ UNCHANGED <<script, junk, parsed, flags, synced, alive>>

\* If it does not fit an int, or the memory, there is no buffer for it: the
\* exception leaves connectToPeer, and nobody reads from this socket again.
ExtraThrows ==
    /\ alive /\ pc = "extra"
    /\ Remaining > MaxBuffer
    /\ pc' = "thrown"
    /\ UNCHANGED <<script, junk, arrived, parsed, flags, synced, alive>>

\* A bitfield kills the process (see PeerTable); all else is dropped.
Dispatch ==
    /\ alive /\ pc = "dispatch"
    /\ IF script[1].kind = "bitfield" /\ arrived > HeaderSize
       THEN alive' = FALSE /\ UNCHANGED <<pc, parsed, synced>>
       ELSE /\ pc' = "recv"
            /\ parsed' = arrived
            /\ synced' = (\E i \in DOMAIN start : start[i] = arrived)
            /\ UNCHANGED alive
    /\ UNCHANGED <<script, junk, arrived, flags>>

-----------------------------------------------------------------------------
(* handlePeerInput and process_input_buffer, under the lock.               *)

Receive ==
    /\ alive /\ pc = "recv"
    /\ Arrives(ReadSize)
    /\ pc' = "parse"
    /\ UNCHANGED <<script, junk, parsed, flags, synced, alive>>

\* The length at the front of the buffer: any number at all when the parser
\* does not stand at the start of a message.
Length == IF Aligned THEN {script[Current].len} ELSE 0 .. LengthModulus - 1

\* Mutant: forgets that the header is in the buffer, too.
CompleteWithoutHeader(len) == Available >= len

\* Mutant: waits for one byte more.
CompleteStrict(len) == Available > (len + HeaderSize) % LengthModulus

Complete(len) == Available >= (len + HeaderSize) % LengthModulus

\* Mutant: returns to recv() after each message.
ParseStopEarly ==
    /\ alive /\ pc = "parse"
    /\ pc' = "recv"
    /\ UNCHANGED <<script, junk, arrived, parsed, flags, synced, alive>>

ParseStop ==
    /\ alive /\ pc = "parse"
    /\ Available < HeaderSize \/ \E len \in Length : ~Complete(len)
    /\ pc' = "recv"
    /\ UNCHANGED <<script, junk, arrived, parsed, flags, synced, alive>>

\* Mutant: handles a complete message and does not erase it.
ParseMessageKeeps ==
    /\ alive /\ pc = "parse"
    /\ Aligned
    /\ Available >= HeaderSize /\ Complete(script[Current].len)
    /\ flags' = Channel!Handle(flags, script[Current])
    /\ pc' = "recv"
    /\ UNCHANGED <<script, junk, arrived, parsed, synced, alive>>

\* A complete message is handled and erased.
ParseMessage ==
    /\ alive /\ pc = "parse"
    /\ Aligned
    /\ Available >= HeaderSize /\ Complete(script[Current].len)
    /\ flags' = Channel!Handle(flags, script[Current])
    /\ parsed' = parsed + HeaderSize + script[Current].len
    /\ UNCHANGED <<script, junk, pc, arrived, synced, alive>>

(***************************************************************************)
(* Out of step with the peer, bytes are taken for a message they are not:  *)
(* any message, or none.  A length whose sum with the header wraps around  *)
(* seems complete, and copying it runs off the end of the buffer.          *)
(***************************************************************************)
ParseGarbage ==
    /\ alive /\ pc = "parse"
    /\ ~Aligned
    /\ Available >= HeaderSize
    /\ \E len \in Length :
          /\ Complete(len)
          /\ IF len + HeaderSize < LengthModulus
             THEN /\ parsed' = parsed + HeaderSize + len
                  /\ \/ \E i \in 1 .. Len(script) :
                           flags' = Channel!Handle(flags, script[i])
                     \/ UNCHANGED flags
                  /\ UNCHANGED alive
             ELSE alive' = FALSE /\ UNCHANGED <<parsed, flags>>
    /\ UNCHANGED <<script, junk, pc, arrived, synced>>

Init ==
    /\ script \in Scripts
    /\ junk \in 0 .. MaxJunk
    /\ pc = "handshake"
    /\ arrived = 0
    /\ parsed = 0
    /\ flags = Channel!InitialFlags
    /\ synced = FALSE
    /\ alive = TRUE

Next == \/ HandshakeEnds \/ ReadFirst \/ ReadNothing \/ ReadExtra \/ ExtraThrows
        \/ Dispatch \/ Receive \/ ParseStop \/ ParseMessage \/ ParseGarbage

\* TCP delivers what was sent, and the reading side runs.
Spec == Init /\ [][Next]_vars /\ WF_vars(Next)
-----------------------------------------------------------------------------
(* Properties.                                                             *)

TypeOK ==
    /\ script \in Scripts /\ junk \in 0 .. MaxJunk
    /\ pc \in {"handshake", "first", "extra", "thrown", "dispatch", "recv", "parse"}
    /\ arrived \in 0 .. Total /\ parsed \in 0 .. arrived
    /\ synced \in BOOLEAN /\ alive \in BOOLEAN

\* Whatever pieces the bytes come in, each message that was not lost at the
\* opening is handled once and in order, unless the opening reads left the
\* parser in the middle of one.
ImplementsChannel == Channel!Spec

\* The parser does not go back to recv() with a complete message in the
\* buffer: the peer may have nothing more to send.
NothingHeldBack ==
    pc = "recv" /\ synced /\ Aligned => Available < HeaderSize + script[Current].len

\* If parsing began at the start of a message, everything sent is handled.
AllHandled == pc = "recv" /\ synced ~> parsed = Total

-----------------------------------------------------------------------------
\* "Start reading the next message (Bitfield, Choke, Unchoke, etc.)"
\* (sendHandshake): when everything has been read, the peer is taken to choke
\* us exactly if the last of its choke and unchoke messages said so.
ChokeStateIsRead ==
    pc = "recv" /\ junk = 0 /\ parsed = Total =>
        flags.choked_by_peer
            = FoldLeft(Channel!Handle, Channel!InitialFlags, script).choked_by_peer
=============================================================================
