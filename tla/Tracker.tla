------------------------------ MODULE Tracker ------------------------------
(***************************************************************************)
(* queryTracker: one HTTP exchange through WinHTTP, then the reply's peers. *)
(* Every call of the library can fail, and each failure has a return of    *)
(* its own that closes the handles it knows of.                            *)
(*                                                                         *)
(* A reply is what the parser makes of the whole text: a dictionary whose  *)
(* "peers" is a string of 6-byte entries or a list of entries, or          *)
(* anything else.  entries[p] is what the reply has for peer p.            *)
(***************************************************************************)
EXTENDS Integers

CONSTANTS
    Peer,       \* the peers a reply can have
    MaxChunks   \* bound: pieces in which a reply is read

VARIABLES
    call,           \* the next call of queryTracker
    handles,        \* WinHTTP handles that are open
    unread,         \* pieces of the reply that have not been read
    trackerPeers    \* what queryTracker returns

Session == "hSession"
Connection == "hConnect"
Request == "hRequest"

Entry == {"none", "good", "no ip or port", "wrong type"}
Form == {"string", "list", "other", "no peers", "no dictionary", "garbage"}
Reply == [form : Form, entries : [Peer -> Entry]]

\* parseTrackerPeers: a string with anything but whole entries has no peers; in
\* a list, entries that lack a key are skipped, and one of a wrong type throws,
\* which costs all of them.
ParseTrackerPeers(reply) ==
    LET Are(kind) == {p \in Peer : reply.entries[p] = kind}
    IN  IF \/ reply.form = "string" /\ Are("good") \cup Are("none") = Peer
           \/ reply.form = "list" /\ Are("wrong type") = {}
        THEN Are("good") ELSE {}

-----------------------------------------------------------------------------
\* No announce URL, or one that cannot be converted or taken apart.
CrackUrl ==
    /\ call = "start"
    /\ call' \in {"WinHttpOpen", "returned"}
    /\ UNCHANGED <<handles, unread, trackerPeers>>

\* A call that opens handles and goes on, or closes some and returns no peers.
LibraryCall(this, opens, next, closes) ==
    /\ call = this
    /\ \/ call' = next /\ handles' = handles \cup opens
       \/ call' = "returned" /\ handles' = handles \ closes
    /\ UNCHANGED <<unread, trackerPeers>>

WinHttpOpen == LibraryCall("WinHttpOpen", {Session}, "WinHttpConnect", {})

WinHttpConnect ==
    LibraryCall("WinHttpConnect", {Connection}, "WinHttpOpenRequest", {Session})

\* Mutant: closes what the return before it closed.
WinHttpOpenRequestLeaks ==
    LibraryCall("WinHttpOpenRequest", {Request}, "WinHttpSendRequest", {Session})

WinHttpOpenRequest ==
    LibraryCall("WinHttpOpenRequest", {Request}, "WinHttpSendRequest",
                {Session, Connection})

WinHttpSendRequest ==
    LibraryCall("WinHttpSendRequest", {}, "WinHttpReceiveResponse",
                {Session, Connection, Request})

WinHttpReceiveResponse ==
    LibraryCall("WinHttpReceiveResponse", {}, "read",
                {Session, Connection, Request})

\* The loop ends when nothing is left, and also on an error, which is not told
\* apart from the end.
ReadChunk ==
    /\ call = "read"
    /\ \/ unread > 0 /\ unread' = unread - 1 /\ UNCHANGED call
       \/ call' = "close" /\ UNCHANGED unread
    /\ UNCHANGED <<handles, trackerPeers>>

CloseHandles ==
    /\ call = "close"
    /\ handles' = {} /\ call' = "parse"
    /\ UNCHANGED <<unread, trackerPeers>>

\* A part of a bencoded text does not parse: the exception is caught here.
ParseReply ==
    /\ call = "parse"
    /\ \E reply \in Reply :
          trackerPeers' = IF unread = 0 THEN ParseTrackerPeers(reply) ELSE {}
    /\ call' = "returned" /\ unread' = 0
    /\ UNCHANGED handles

\* The locals of a call that has returned.
Forget == unread' = 0 /\ trackerPeers' = {}

InitTracker ==
    call = "start" /\ handles = {} /\ unread = MaxChunks /\ trackerPeers = {}

QueryTracker ==
    \/ CrackUrl \/ WinHttpOpen \/ WinHttpConnect \/ WinHttpOpenRequest
    \/ WinHttpSendRequest \/ WinHttpReceiveResponse \/ ReadChunk
    \/ CloseHandles \/ ParseReply
-----------------------------------------------------------------------------
TrackerTypeOK ==
    /\ call \in {"start", "WinHttpOpen", "WinHttpConnect", "WinHttpOpenRequest",
                 "WinHttpSendRequest", "WinHttpReceiveResponse", "read", "close",
                 "parse", "returned"}
    /\ handles \subseteq {Session, Connection, Request}
    /\ unread \in 0 .. MaxChunks
    /\ trackerPeers \subseteq Peer

\* Whichever call failed, no handle of the library is left open.
HandlesClosed == call = "returned" => handles = {}
=============================================================================
