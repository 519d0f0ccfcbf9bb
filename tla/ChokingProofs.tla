--------------------------- MODULE ChokingProofs ---------------------------
(***************************************************************************)
(* Safety of Choking, for every set of peers, every number of slots and    *)
(* every outcome of the second lock.                                       *)
(***************************************************************************)
EXTENDS Choking, TLAPS

\* What a thread may have in hand: nothing without the mutex, nothing in a round
\* of manageChoking, and otherwise peers that are choked; send_unchoke is at
\* work on one of them, which has its message when only the flag is missing.
InHand ==
    /\ todo \subseteq choked
    /\ holder = "nobody" => at = "loop"
    /\ holder # "optimist" => todo = {}
    /\ at = "loop" <=> now = NoPeer
    /\ at = "flag" => queued[now] + told[now] = 1

\* Consistent is not inductive: a peer that is unchoked twice has two messages.
IInv == TypeOK /\ FlagMatchesWire /\ InHand

\* "Collect interested peers" leaves nobody to unchoke.
LEMMA NoCandidateIsChoked == Candidates \cap choked = {}
  BY DEF Candidates

\* The invariant holds at the start.
LEMMA InitIsConsistent == Init => IInv
  BY ChokingAssumption, SMT
     DEF Init, IInv, TypeOK, FlagMatchesWire, InHand

\* The steps of a connection are taken while nobody holds the mutex.
LEMMA ConnectionStep ==
    ASSUME NEW p \in Peer, IInv,
           Register(p) \/ ReceiveInterest(p) \/ TakeOutput(p) \/ Disconnect(p)
    PROVE  IInv'
<1> USE ChokingAssumption DEF IInv, TypeOK, InHand, FlagMatchesWire, Free
<1>1. CASE Register(p)
  BY <1>1, SMT DEF Register
<1>2. CASE ReceiveInterest(p)
  BY <1>2, SMT DEF ReceiveInterest
<1>3. CASE TakeOutput(p)
  BY <1>3, SMT DEF TakeOutput
<1>4. CASE Disconnect(p)
  BY <1>4, SMT DEF Disconnect
<1> QED BY <1>1, <1>2, <1>3, <1>4

\* A round begins: manageChoking with nobody, the optimistic thread with one.
LEMMA RoundStep ==
    ASSUME IInv, ManageChoking \/ \E p \in Peer : OptimisticUnchoke(p)
    PROVE  IInv'
<1>1. CASE ManageChoking
  <2>1. todo' = {}
    BY <1>1, NoCandidateIsChoked DEF ManageChoking, kSubset
  <2> QED
    BY <1>1, <2>1, SMT DEF ManageChoking, Free, entries, IInv, TypeOK,
                           FlagMatchesWire, InHand
<1>2. ASSUME NEW p \in Peer, OptimisticUnchoke(p)
      PROVE  IInv'
  BY <1>2, SMT DEF OptimisticUnchoke, Free, entries, IInv, TypeOK,
                   FlagMatchesWire, InHand
<1> QED BY <1>1, <1>2

\* The thread that holds the mutex goes on.
LEMMA HolderStep ==
    ASSUME IInv, Holder
    PROVE  IInv'
<1> USE ChokingAssumption DEF IInv, TypeOK, InHand, FlagMatchesWire, entries
<1>1. ASSUME NEW p \in Peer, SendUnchoke(p)
      PROVE  IInv'
  BY <1>1, SMT DEF SendUnchoke
<1>2. CASE AppendToOutput
  <2>1. now \in todo /\ now \in Peer /\ now \in choked /\ queued[now] + told[now] = 0
    BY <1>2 DEF AppendToOutput
  <2>2. queued[now] = 0 /\ told[now] = 0
    BY <2>1
  <2>3. CASE UNCHANGED queued /\ at' # "flag"
    <3>1. /\ at = "append" /\ at' \in {"append", "stuck"} /\ alive' \in BOOLEAN
          /\ UNCHANGED <<peers, interested, choked, told, holder, todo, now>>
      BY <1>2, <2>3 DEF AppendToOutput
    <3>2. TypeOK'
      BY <2>3, <3>1
    <3>3. FlagMatchesWire'
      BY <2>3, <3>1
    <3>4. InHand'
      BY <2>3, <3>1
    <3> QED BY <3>2, <3>3, <3>4
  <2>4. CASE queued' = [queued EXCEPT ![now] = @ + 1] /\ at' = "flag"
    <3>1. queued' \in [Peer -> 0 .. 1] /\ queued'[now] = 1
          /\ \A p \in Peer : p # now => queued'[p] = queued[p]
      BY <2>1, <2>2, <2>4
    <3> QED BY <1>2, <2>1, <2>2, <2>4, <3>1, SMT DEF AppendToOutput
  <2> QED BY <1>2, <2>3, <2>4 DEF AppendToOutput
<1>3. CASE ClearFlag
  BY <1>3, SMT DEF ClearFlag
<1>4. CASE EndRound
  BY <1>4, SMT DEF EndRound
<1> QED BY <1>1, <1>2, <1>3, <1>4 DEF Holder

\* Every step keeps it.
LEMMA StepIsConsistent == IInv /\ [Next]_vars => IInv'
<1> SUFFICES ASSUME IInv, [Next]_vars
             PROVE  IInv'
  OBVIOUS
<1>1. CASE UNCHANGED vars
  BY <1>1 DEF vars, IInv, TypeOK, FlagMatchesWire, InHand
<1>2. CASE Next
  BY <1>2, ConnectionStep, RoundStep, HolderStep DEF Next
<1> QED BY <1>1, <1>2

\* Types, and the agreement of choked_by_us with the messages sent, however
\* the second lock of buffer_mutex ends.
THEOREM FlagAgreesWithWire == Spec => []Consistent
<1>1. IInv => Consistent
  BY DEF IInv, Consistent
<1> QED BY <1>1, InitIsConsistent, StepIsConsistent, PTL DEF Spec

-----------------------------------------------------------------------------
(* What a thread that holds peerMutex does to the others                   *)

\* After the second lock blocked, or threw, nothing changes any more: no message
\* is handled, no output taken and no connection entered or removed, for they all
\* need peerMutex.
THEOREM FrozenForGood == Spec => StuckForGood
<1>1. ASSUME IInv, Next, Frozen
      PROVE  FALSE
  <2>1. at = "stuck" => holder # "nobody"
    BY <1>1 DEF IInv, InHand
  <2> QED
    BY <1>1, <2>1 DEF Next, Holder, Frozen, Free, Register, ReceiveInterest,
                      TakeOutput, Disconnect, OptimisticUnchoke, ManageChoking,
                      SendUnchoke, AppendToOutput, ClearFlag, EndRound
<1>2. IInv /\ [Next]_vars => [~Frozen]_vars
  BY <1>1
<1> QED BY <1>2, InitIsConsistent, StepIsConsistent, PTL DEF Spec, StuckForGood

\* A round has one peer to unchoke at most.
OneInHand == \A p, q \in todo : p = q

\* Steps until the thread that holds peerMutex gives it back, unless it freezes.
StepsLeft == IF Frozen \/ holder = "nobody" THEN 0
             ELSE IF todo = {} THEN 1
             ELSE IF at = "loop" THEN 4
             ELSE IF at = "append" THEN 3 ELSE 2

\* Unless it freezes, the holder gives peerMutex back after four steps at most: it
\* waits for nobody, and sends one message, whoever else wants the mutex.
THEOREM MutexIsGivenBack ==
    Spec => []OneInHand /\ [][Holder => StepsLeft' < StepsLeft]_vars
<1>1. Init => OneInHand
  BY DEF Init, OneInHand
<1>2. ASSUME IInv, OneInHand, [Next]_vars
      PROVE  OneInHand'
  <2>1. CASE ManageChoking
    BY <2>1, NoCandidateIsChoked DEF ManageChoking, kSubset, OneInHand
  <2>2. CASE \E p \in Peer : OptimisticUnchoke(p)
    BY <2>2 DEF OptimisticUnchoke, OneInHand
  <2>3. CASE todo' \subseteq todo
    BY <1>2, <2>3 DEF OneInHand
  <2>4. ManageChoking \/ (\E p \in Peer : OptimisticUnchoke(p)) \/ todo' \subseteq todo
    BY <1>2 DEF Next, vars, Holder, Register, ReceiveInterest, TakeOutput, Disconnect,
                SendUnchoke, AppendToOutput, ClearFlag, EndRound
  <2> QED BY <2>1, <2>2, <2>3, <2>4
<1>3. ASSUME IInv, OneInHand, Holder
      PROVE  StepsLeft' < StepsLeft
  <2> USE DEF StepsLeft, Frozen
  <2>1. ASSUME NEW p \in Peer, SendUnchoke(p)
        PROVE  StepsLeft' < StepsLeft
    BY <1>3, <2>1 DEF SendUnchoke, IInv, InHand
  <2>2. CASE AppendToOutput
    <3>1. holder' = holder /\ holder # "nobody" /\ todo' = todo /\ todo # {}
      BY <1>3, <2>2, ChokingAssumption DEF AppendToOutput, IInv, InHand, TypeOK
    <3>2. alive /\ at = "append" /\ (at' \in {"stuck", "flag"} \/ ~alive')
      BY <2>2 DEF AppendToOutput
    <3>3. StepsLeft = 3
      BY <3>1, <3>2
    <3>4. StepsLeft' \in {0, 2}
      BY <3>1, <3>2
    <3> QED BY <3>3, <3>4
  <2>3. CASE ClearFlag
    <3>1. alive /\ at = "flag" /\ at' = "loop" /\ alive' /\ holder' = holder
          /\ todo' = todo \ {now}
      BY <2>3 DEF ClearFlag
    <3>2. now \in todo /\ holder # "nobody"
      BY <1>3, <3>1, ChokingAssumption DEF IInv, InHand, TypeOK
    <3>3. todo' = {}
      BY <1>3, <3>1, <3>2 DEF OneInHand
    <3>4. StepsLeft = 2
      BY <3>1, <3>2
    <3>5. StepsLeft' = 1
      BY <3>1, <3>2, <3>3
    <3> QED BY <3>4, <3>5
  <2>4. CASE EndRound
    BY <2>4 DEF EndRound
  <2> QED BY <1>3, <2>1, <2>2, <2>3, <2>4 DEF Holder
<1>4. IInv /\ OneInHand /\ [Next]_vars => [Holder => StepsLeft' < StepsLeft]_vars
  BY <1>3
<1>5. IInv /\ OneInHand /\ [Next]_vars => OneInHand'
  BY <1>2
<1> QED BY <1>1, <1>4, <1>5, InitIsConsistent, StepIsConsistent, PTL DEF Spec
=============================================================================
