--------------------------- MODULE MessageChannel ---------------------------
(***************************************************************************)
(* What the input side of a connection promises: each message a peer sends *)
(* is handled exactly once, in the order it was sent, whatever pieces the  *)
(* network delivers the bytes in.  Two exceptions are made: some of the    *)
(* first messages may be lost when the connection opens, and a connection  *)
(* that opened in the middle of a message promises nothing.                *)
(*                                                                         *)
(* Handle is PeerConnection::handle_message.                               *)
(***************************************************************************)
EXTENDS Integers, Sequences

CONSTANTS
    Scripts,      \* the sequences of messages a peer may send
    BitsPerByte   \* 8

\* len counts the id and the payload; pieces is what a message is about: the
\* index of a have or a request, the set bits of a bitfield.
Kind == {"choke", "unchoke", "interested", "not_interested", "have", "bitfield",
         "request", "malformed", "keepalive"}
Message == [kind : Kind, len : Nat, pieces : SUBSET Nat]

VARIABLES
    phase,    \* "opening", "open"
    synced,   \* the connection opened at the start of a message
    pending,  \* messages that are not handled yet
    flags     \* the members of PeerConnection that handle_message changes

vars == <<phase, synced, pending, flags>>

InitialFlags == [choked_by_peer |-> TRUE, peer_interested |-> FALSE, size |-> 0,
                 bitfield |-> {}, message_queue |-> <<>>]

\* A have beyond the bitfield is ignored; a bitfield is as long as its payload;
\* a request waits in message_queue; a piece or a malformed message is ignored.
Handle(f, m) ==
    CASE m.kind = "choke" -> [f EXCEPT !.choked_by_peer = TRUE]
      [] m.kind = "unchoke" -> [f EXCEPT !.choked_by_peer = FALSE]
      [] m.kind = "interested" -> [f EXCEPT !.peer_interested = TRUE]
      [] m.kind = "not_interested" -> [f EXCEPT !.peer_interested = FALSE]
      [] m.kind = "have" ->
            [f EXCEPT !.bitfield = @ \cup {p \in m.pieces : p < f.size}]
      [] m.kind = "bitfield" ->
            LET size == BitsPerByte * (m.len - 1)
            IN  [f EXCEPT !.size = size, !.bitfield = {p \in m.pieces : p < size}]
      [] m.kind = "request" -> [f EXCEPT !.message_queue = Append(@, m.pieces)]
      [] OTHER -> f

Init ==
    /\ phase = "opening"
    /\ synced = FALSE
    /\ pending \in Scripts
    /\ flags = InitialFlags

Open ==
    /\ phase = "opening" /\ phase' = "open"
    /\ synced' \in BOOLEAN
    /\ synced' => \E lost \in 0 .. Len(pending) :
                     pending' = SubSeq(pending, lost + 1, Len(pending))
    /\ UNCHANGED flags

Deliver ==
    /\ phase = "open" /\ synced /\ pending # <<>>
    /\ flags' = Handle(flags, Head(pending))
    /\ pending' = Tail(pending)
    /\ UNCHANGED <<phase, synced>>

Desynchronised == phase = "open" /\ ~synced /\ UNCHANGED <<phase, synced>>

Next == Open \/ Deliver \/ Desynchronised

Spec == Init /\ [][Next]_vars
=============================================================================
