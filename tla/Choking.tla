------------------------------ MODULE Choking ------------------------------
(***************************************************************************)
(* The two threads that run() starts, manageChoking and optimisticUnchoke, *)
(* against the threads of the connections.                                 *)
(*                                                                         *)
(* All of them work under peerMutex.  What the connections' threads do in  *)
(* it is over at once, and each is one step.  The choking threads send     *)
(* messages in it: send_unchoke locks buffer_mutex, and append_to_output,  *)
(* which it calls, locks it again.  What a second lock of a std::mutex     *)
(* does is undefined; Relock holds the outcomes that a build can have.     *)
(***************************************************************************)
EXTENDS Integers, FiniteSets, FiniteSetsExt

CONSTANTS
    Peer,       \* descriptors of connections
    NoPeer,     \* when no message is being made
    Slots,      \* how many peers a round unchokes (4)
    Relock      \* outcomes of the second lock: "blocks", "throws", "passes"

ASSUME ChokingAssumption ==
    /\ IsFiniteSet(Peer) /\ NoPeer \notin Peer
    /\ Slots \in Nat
    /\ Relock \subseteq {"blocks", "throws", "passes"}

VARIABLES
    peers,          \* the map `peers`: who has an entry
    interested,     \* peer_interested of an entry
    choked,         \* choked_by_us of an entry
    queued,         \* unchoke messages in the output_buffer of an entry
    told,           \* unchoke messages its output thread has taken
    holder,         \* the choking thread that holds peerMutex
    todo,           \* peers it will still unchoke
    at,             \* where it is: in its loop or in send_unchoke(now)
    now,
    alive           \* FALSE once an exception left a thread

vars == <<peers, interested, choked, queued, told, holder, todo, at, now, alive>>
entries == <<peers, interested, choked, queued, told>>

Free == alive /\ holder = "nobody"

-----------------------------------------------------------------------------
(* The connections                                                         *)

\* connectToPeer enters a new PeerConnection.
Register(p) ==
    /\ Free /\ p \notin peers
    /\ peers' = peers \cup {p}
    /\ interested' = interested \ {p}
    /\ choked' = choked \cup {p}
    /\ queued' = [queued EXCEPT ![p] = 0]
    /\ told' = [told EXCEPT ![p] = 0]
    /\ UNCHANGED <<holder, todo, at, now, alive>>

\* handle_message: INTERESTED and NOT_INTERESTED set the flag.
ReceiveInterest(p) ==
    /\ Free /\ p \in peers
    /\ interested' \in {interested \cup {p}, interested \ {p}}
    /\ UNCHANGED <<peers, choked, queued, told, holder, todo, at, now, alive>>

\* Mutant: handlePeerOutput does not take peerMutex for it.
TakeOutputUnlocked(p) ==
    /\ alive /\ p \in peers /\ queued[p] > 0
    /\ told' = [told EXCEPT ![p] = @ + queued[p]]
    /\ queued' = [queued EXCEPT ![p] = 0]
    /\ UNCHANGED <<peers, interested, choked, holder, todo, at, now, alive>>

\* handlePeerOutput swaps the output_buffer out, to send it.
TakeOutput(p) ==
    /\ Free /\ p \in peers /\ queued[p] > 0
    /\ told' = [told EXCEPT ![p] = @ + queued[p]]
    /\ queued' = [queued EXCEPT ![p] = 0]
    /\ UNCHANGED <<peers, interested, choked, holder, todo, at, now, alive>>

\* "Cleanup on disconnect".
Disconnect(p) ==
    /\ Free /\ p \in peers
    /\ peers' = peers \ {p}
    /\ UNCHANGED <<interested, choked, queued, told, holder, todo, at, now, alive>>

-----------------------------------------------------------------------------
(* The choking threads                                                     *)

\* "Collect interested peers": those with !choked_by_us.
Candidates == (peers \cap interested) \ choked

\* manageChoking goes through them by download rate and unchokes the first four
\* that have choked_by_us.
ManageChoking ==
    /\ Free
    /\ holder' = "manager"
    /\ LET able == Candidates \cap choked
       IN  \E n \in {Min({Slots, Cardinality(able)})} : todo' \in kSubset(n, able)
    /\ UNCHANGED <<entries, at, now, alive>>

\* Mutant: picks among the interested peers only.
OptimisticUnchokeInterested(p) ==
    /\ Free
    /\ p \in peers \cap choked \cap interested
    /\ holder' = "optimist"
    /\ todo' = {p}
    /\ UNCHANGED <<entries, at, now, alive>>

\* optimisticUnchoke picks one of the choked peers, if there are any.
OptimisticUnchoke(p) ==
    /\ Free
    /\ p \in peers \cap choked
    /\ holder' = "optimist"
    /\ todo' = {p}
    /\ UNCHANGED <<entries, at, now, alive>>

\* send_unchoke: locks buffer_mutex and builds the message ...
SendUnchoke(p) ==
    /\ alive /\ at = "loop" /\ p \in todo
    /\ at' = "append" /\ now' = p
    /\ UNCHANGED <<entries, holder, todo, alive>>

\* ... append_to_output locks buffer_mutex while send_unchoke has it ...
AppendToOutput ==
    /\ alive /\ at = "append"
    /\ \/ /\ "blocks" \in Relock
          /\ at' = "stuck" /\ UNCHANGED <<queued, alive>>
       \/ /\ "throws" \in Relock
          /\ alive' = FALSE /\ UNCHANGED <<queued, at>>
       \/ /\ "passes" \in Relock
          /\ queued' = [queued EXCEPT ![now] = @ + 1]
          /\ at' = "flag" /\ UNCHANGED alive
    /\ UNCHANGED <<peers, interested, choked, told, holder, todo, now>>

\* Mutant: forgets the flag.
ClearFlagNever ==
    /\ alive /\ at = "flag"
    /\ at' = "loop" /\ now' = NoPeer
    /\ todo' = todo \ {now}
    /\ UNCHANGED <<entries, holder, alive>>

\* ... and the flag follows.
ClearFlag ==
    /\ alive /\ at = "flag"
    /\ choked' = choked \ {now}
    /\ at' = "loop" /\ now' = NoPeer
    /\ todo' = todo \ {now}
    /\ UNCHANGED <<peers, interested, queued, told, holder, alive>>

\* The end of a round unlocks peerMutex, and the thread sleeps.
EndRound ==
    /\ alive /\ at = "loop" /\ todo = {} /\ holder # "nobody"
    /\ holder' = "nobody"
    /\ UNCHANGED <<entries, todo, at, now, alive>>

Holder == (\E p \in Peer : SendUnchoke(p)) \/ AppendToOutput \/ ClearFlag \/ EndRound

Init ==
    /\ peers = {} /\ interested = {} /\ choked = Peer
    /\ queued = [p \in Peer |-> 0] /\ told = [p \in Peer |-> 0]
    /\ holder = "nobody" /\ todo = {} /\ at = "loop" /\ now = NoPeer
    /\ alive = TRUE

Next ==
    \/ \E p \in Peer : \/ Register(p) \/ ReceiveInterest(p) \/ TakeOutput(p)
                       \/ Disconnect(p) \/ OptimisticUnchoke(p)
    \/ ManageChoking \/ Holder

\* A thread in its critical section goes on.  The mutex is free again and again,
\* so the optimistic thread gets it, and its dice pick everyone some time.
Fairness == /\ WF_vars(Holder)
            /\ \A p \in Peer : SF_vars(OptimisticUnchoke(p))

Spec == Init /\ [][Next]_vars /\ Fairness
-----------------------------------------------------------------------------
TypeOK ==
    /\ peers \subseteq Peer /\ interested \subseteq Peer /\ choked \subseteq Peer
    /\ queued \in [Peer -> 0 .. 1] /\ told \in [Peer -> 0 .. 1]
    /\ holder \in {"nobody", "manager", "optimist"}
    /\ todo \subseteq peers
    /\ at \in {"loop", "append", "flag", "stuck"} /\ now \in todo \cup {NoPeer}
    /\ alive \in BOOLEAN

\* The flag and the wire agree, whatever the second lock does: a peer whose
\* choked_by_us is set was sent no unchoke, and the others exactly one.
FlagMatchesWire ==
    \A p \in peers : ~(at = "flag" /\ now = p) =>
        queued[p] + told[p] = IF p \in choked THEN 0 ELSE 1

Consistent == TypeOK /\ FlagMatchesWire

\* The second lock blocked, or threw.
Frozen == at = "stuck" \/ ~alive

\* One unchoke can stop the client: once the second lock has blocked, or thrown,
\* nothing changes any more on any connection.  No message is handled, no output
\* taken, no connection entered or removed, for they all wait for peerMutex.
StuckForGood == [][~Frozen]_vars

\* A peer that stays is unchoked in the end, interested or not, unless the
\* second lock ends everything.
UnchokedOrFrozen ==
    \A p \in Peer : p \in peers ~> p \notin peers \/ p \notin choked \/ Frozen
=============================================================================
