------------------------------ MODULE BinCons1 ------------------------------
(***************************************************************************)
(* One instance of the partially synchronous binary consensus              *)
(* consensus/cons/bincons1, run by the correct members.                    *)
(*                                                                         *)
(* Each node has two kinds of threads.  The message processing threads     *)
(* check a received message against the message state                      *)
(* (MessageState.GotMsg): they store its new signatures in the simple      *)
(* message state (StoreMsg), then raise the counters of the round          *)
(* (UpdateRound) and hand the message to the main loop.  The main loop     *)
(* takes local proposals, then the node's own messages, then what the      *)
(* other threads handed over, and runs CheckRound for the message's round  *)
(* and the rounds that follow.  The counters can therefore be ahead of     *)
(* what the main loop has handled, and behind what is stored.              *)
(*                                                                         *)
(* A message is a set of signatures for a round and a value: the messages  *)
(* of single nodes, the messages merged by the forwarders and the proofs   *)
(* that are attached to messages all have that form.  Nothing is assumed   *)
(* of the network: a message may be lost, repeated, or arrive in any order.*)
(***************************************************************************)
EXTENDS Members, Sequences

CONSTANTS MaxRound,       \* bound on the rounds of the instance
          Threads,        \* number of message processing threads of a node
          StopOnCommit,   \* "Immediate", "SendProof" or "NextRound"
          IncludeProofs   \* whether messages carry the signatures that justify them

ASSUME BinCons1Assumption ==
    /\ MaxRound \in Nat
    /\ Threads \in Nat \ {0}
    /\ StopOnCommit \in {"Immediate", "SendProof", "NextRound"}
    /\ IncludeProofs \in BOOLEAN

Bin == {0, 1}
Rounds == 0..MaxRound
NoRound == -1               \* the main loop is between two messages
NotDecided == -1
MaxUint32 == MaxRound + 1   \* larger than every round

VARIABLES
    sent,              \* sent[r][v]: correct nodes that broadcast v for round r
    SigMap,            \* SigMap[p][r][v]: signers p has stored for the message (r, v)
    BinNums,           \* auxRoundStruct.BinNums
    TotalBinMsgCount,  \* auxRoundStruct.TotalBinMsgCount
    sentProposal,      \* auxRoundStruct.sentProposal: sent a message for the NEXT round
    timeoutState,      \* auxRoundStruct.timeoutState
    storing,           \* counts returned by storeMsg to threads that have not yet used them
    queue,             \* rounds of the messages handed to the main loop
    SelfMessages,      \* the node's own messages, not yet handled by its main loop
    checking,          \* the round CheckRound is called with next, or NoRound
    gotProposal,       \* the state machine has given its proposal
    Decided, decidedRound, SkipTimeoutRound, terminated,
    panicked           \* a sanity check of the code has failed

msgVars == <<SigMap, BinNums, TotalBinMsgCount>>
roundVars == <<sentProposal, timeoutState>>
decVars == <<Decided, decidedRound, SkipTimeoutRound, terminated, panicked>>
vars == <<sent, SigMap, BinNums, TotalBinMsgCount, sentProposal, timeoutState, storing,
          queue, SelfMessages, checking, gotProposal, Decided, decidedRound,
          SkipTimeoutRound, terminated, panicked>>

Messages == [round : Rounds, val : Bin]
Counts == [round : Rounds, val : Bin,
           NewTotalSigCount : 0..GetMemberCount, NewMsgIDSigCount : 0..GetMemberCount]

VoteTypes ==
    /\ sent \in [Rounds -> [Bin -> SUBSET Correct]]
    /\ SigMap \in [Correct -> [Rounds -> [Bin -> SUBSET Members]]]
    /\ BinNums \in [Correct -> [Rounds -> [Bin -> 0..GetMemberCount]]]
    /\ TotalBinMsgCount \in [Correct -> [Rounds -> 0..GetMemberCount]]
    /\ storing \in [Correct -> SUBSET Counts]

LoopTypes ==
    /\ sentProposal \in [Correct -> [Rounds -> BOOLEAN]]
    /\ timeoutState \in [Correct -> [Rounds -> {"NotSent", "Sent", "Passed"}]]
    /\ queue \in [Correct -> SUBSET Rounds]
    /\ SelfMessages \in [Correct -> Seq(Messages)]
    /\ checking \in [Correct -> Rounds \cup {NoRound}]
    /\ gotProposal \in [Correct -> BOOLEAN]

DecisionTypes ==
    /\ Decided \in [Correct -> Bin \cup {NotDecided}]
    /\ decidedRound \in [Correct -> Rounds]
    /\ SkipTimeoutRound \in [Correct -> Rounds \cup {MaxUint32}]
    /\ terminated \in [Correct -> BOOLEAN]
    /\ panicked \in [Correct -> BOOLEAN]

TypeOK == VoteTypes /\ LoopTypes /\ DecisionTypes

Init ==
    /\ sent = [r \in Rounds |-> [v \in Bin |-> {}]]
    /\ SigMap = [p \in Correct |-> [r \in Rounds |-> [v \in Bin |-> {}]]]
    /\ BinNums = [p \in Correct |-> [r \in Rounds |-> [v \in Bin |-> 0]]]
    /\ TotalBinMsgCount = [p \in Correct |-> [r \in Rounds |-> 0]]
    /\ sentProposal = [p \in Correct |-> [r \in Rounds |-> FALSE]]
    /\ timeoutState = [p \in Correct |-> [r \in Rounds |-> "NotSent"]]
    /\ storing = [p \in Correct |-> {}]
    /\ queue = [p \in Correct |-> {}]
    /\ SelfMessages = [p \in Correct |-> <<>>]
    /\ checking = [p \in Correct |-> NoRound]
    /\ gotProposal = [p \in Correct |-> FALSE]
    /\ Decided = [p \in Correct |-> NotDecided]
    /\ decidedRound = [p \in Correct |-> 0]
    /\ SkipTimeoutRound = [p \in Correct |-> 0]
    /\ terminated = [p \in Correct |-> FALSE]
    /\ panicked = [p \in Correct |-> FALSE]

-----------------------------------------------------------------------------
(* The message state.                                                      *)

\* The members whose signature of (r, v) can be on a message.
Signers(r, v) == sent[r][v] \cup Faulty

\* The new value of a counter that holds a when a thread comes with b.
MaxOfAdds(a, b) == a + b            \* variant: adds the counts
MaxOfOverwrites(a, b) == b          \* variant: forgets that a may be the later count
MaxOf(a, b) == IF a < b THEN b ELSE a

\* A thread stores the new signatures S of a message (r, v).  The counts it
\* gets back are those of this moment: of the message, and of its MsgID (the
\* round), where a signer of both values counts once.
StoreMsg(p, r, v, S) ==
    LET stored == SigMap[p][r][v] \cup S IN
    /\ S \subseteq Signers(r, v)
    /\ ~ S \subseteq SigMap[p][r][v]                       \* ErrNoNewSigs
    /\ Cardinality(storing[p]) < Threads
    /\ SigMap' = [SigMap EXCEPT ![p][r][v] = stored]
    /\ storing' = [storing EXCEPT ![p] = @ \cup
                    {[round |-> r, val |-> v,
                      NewTotalSigCount |-> Cardinality(stored),
                      NewMsgIDSigCount |-> Cardinality(stored \cup SigMap[p][r][1 - v])]}]
    /\ UNCHANGED <<sent, BinNums, TotalBinMsgCount, roundVars, queue, SelfMessages,
                   checking, gotProposal, decVars>>

\* The thread takes the mutex of the message state and raises the counters of
\* the round to the counts it got; then the message goes to the main loop.
UpdateRound(p, d) ==
    /\ d \in storing[p]
    /\ storing' = [storing EXCEPT ![p] = @ \ {d}]
    /\ BinNums' = [BinNums EXCEPT ![p][d.round][d.val] = MaxOf(@, d.NewTotalSigCount)]
    /\ TotalBinMsgCount' =
         [TotalBinMsgCount EXCEPT ![p][d.round] = MaxOf(@, d.NewMsgIDSigCount)]
    /\ queue' = [queue EXCEPT ![p] = @ \cup {d.round}]
    /\ UNCHANGED <<sent, SigMap, roundVars, SelfMessages, checking, gotProposal, decVars>>

\* getValids: whether value v may be carried by a message of round r.
getValidsOffByOne(p, r, v) ==       \* variant: t messages are enough in rounds 1 and 2
    \/ r = 0
    \/ r = 1 /\ BinNums[p][0][v] >= t
    \/ r = 2 /\ v = 1 /\ BinNums[p][0][1] >= t
    \/ r >= 2 /\ v = (r - 1) % 2 /\ BinNums[p][r - 2][v] >= nmt
    \/ r >= 2 /\ v # (r - 1) % 2 /\ BinNums[p][r - 1][v] >= nmt
getValids(p, r, v) ==
    \/ r = 0
    \/ r = 1 /\ BinNums[p][0][v] > t
    \/ r = 2 /\ v = 1 /\ BinNums[p][0][1] > t
    \/ r >= 2 /\ v = (r - 1) % 2 /\ BinNums[p][r - 2][v] >= nmt
    \/ r >= 2 /\ v # (r - 1) % 2 /\ BinNums[p][r - 1][v] >= nmt

\* GenerateProofs finds enough signatures to justify v in round r > 0.
GenerateProofsQuorum(p, r, v) ==    \* variant: no special case for rounds 1 and 2
    LET proofRound == IF r >= 2 /\ v = (r - 1) % 2 THEN r - 2 ELSE r - 1
    IN  BinNums[p][proofRound][v] # 0 /\ Cardinality(SigMap[p][proofRound][v]) >= nmt
GenerateProofs(p, r, v) ==
    LET proofRound == IF r >= 2 /\ v = (r - 1) % 2 THEN r - 2 ELSE r - 1
        minCount == IF r = 1 \/ (r = 2 /\ v = 1) THEN t ELSE nmt
    IN  /\ BinNums[p][proofRound][v] # 0
        /\ Cardinality(SigMap[p][proofRound][v]) >= minCount

-----------------------------------------------------------------------------
(* The main loop.                                                          *)

\* GotProposal: the proposal is broadcast as the message of round 0, unless the
\* node has already moved on to round 1.
GotProposal(p, v) ==
    /\ checking[p] = NoRound
    /\ ~ gotProposal[p]
    /\ gotProposal' = [gotProposal EXCEPT ![p] = TRUE]
    /\ IF sentProposal[p][0]
       THEN UNCHANGED <<sent, SelfMessages>>
       ELSE /\ sent' = [sent EXCEPT ![0][v] = @ \cup {p}]
            /\ SelfMessages' = [SelfMessages EXCEPT ![p] = Append(@, [round |-> 0, val |-> v])]
    /\ UNCHANGED <<msgVars, roundVars, storing, queue, checking, decVars>>

\* Recv returns the node's own messages before those of the other threads.  The
\* main loop itself runs GotMsg on them; one whose signature came back from
\* another node in the meantime is dropped (ErrNoNewSigs).
ProcessSelfMessage(p) ==
    LET m == Head(SelfMessages[p])
        stored == SigMap[p][m.round][m.val] \cup {p}
    IN
    /\ checking[p] = NoRound
    /\ SelfMessages[p] # <<>>
    /\ SelfMessages' = [SelfMessages EXCEPT ![p] = Tail(@)]
    /\ IF p \in SigMap[p][m.round][m.val]
       THEN UNCHANGED <<msgVars, checking>>
       ELSE /\ SigMap' = [SigMap EXCEPT ![p][m.round][m.val] = stored]
            /\ BinNums' = [BinNums EXCEPT ![p][m.round][m.val] = MaxOf(@, Cardinality(stored))]
            /\ TotalBinMsgCount' = [TotalBinMsgCount EXCEPT ![p][m.round] =
                 MaxOf(@, Cardinality(stored \cup SigMap[p][m.round][1 - m.val]))]
            /\ checking' = [checking EXCEPT ![p] = IF terminated[p] THEN NoRound ELSE m.round]
    /\ UNCHANGED <<sent, roundVars, storing, queue, gotProposal, decVars>>

\* ProcessMessage of an AuxProof message that another thread handed over.
ProcessMessage(p, r) ==
    /\ checking[p] = NoRound
    /\ SelfMessages[p] = <<>>
    /\ r \in queue[p]
    /\ queue' = [queue EXCEPT ![p] = @ \ {r}]
    /\ checking' = [checking EXCEPT ![p] = IF terminated[p] THEN NoRound ELSE r]
    /\ UNCHANGED <<sent, msgVars, roundVars, storing, SelfMessages, gotProposal, decVars>>

\* ProcessMessage of the timeout of round r (dropped once decided).
AuxProofTimeoutNoCheck(p, r) ==     \* variant: waits for the next message
    /\ checking[p] = NoRound
    /\ SelfMessages[p] = <<>>
    /\ Decided[p] = NotDecided
    /\ timeoutState[p][r] = "Sent"
    /\ timeoutState' = [timeoutState EXCEPT ![p][r] = "Passed"]
    /\ UNCHANGED <<sent, msgVars, sentProposal, storing, queue, SelfMessages, checking,
                   gotProposal, decVars>>
AuxProofTimeout(p, r) ==
    /\ checking[p] = NoRound
    /\ SelfMessages[p] = <<>>
    /\ Decided[p] = NotDecided
    /\ timeoutState[p][r] = "Sent"
    /\ timeoutState' = [timeoutState EXCEPT ![p][r] = "Passed"]
    /\ checking' = [checking EXCEPT ![p] = r]
    /\ UNCHANGED <<sent, msgVars, sentProposal, storing, queue, SelfMessages, gotProposal,
                   decVars>>

\* The value that can be decided in round r, and preferred for round r + 1.
Mod(r) == IF r = 0 THEN 1 ELSE r % 2

DecidesUnanimous(p, r) ==           \* variant: any other value prevents the decision
    /\ r > 0 /\ getValids(p, r, Mod(r)) /\ BinNums[p][r][Mod(r)] >= nmt
    /\ BinNums[p][r][1 - Mod(r)] = 0
Decides(p, r) == r > 0 /\ getValids(p, r, Mod(r)) /\ BinNums[p][r][Mod(r)] >= nmt

\* "Bad cons 1" and "More than t faulty".
DecidePanic(p, r) ==
    /\ Decides(p, r)
    /\ Decided[p] \notin {NotDecided, Mod(r)} \/ BinNums[p][r][1 - Mod(r)] >= nmt

\* CheckRound returns from its decision block, without a message for round r + 1.
ReturnsDecided(p, r) ==
    /\ Decides(p, r)
    /\ \/ StopOnCommit = "Immediate"
       \/ BinNums[p][r][1 - Mod(r)] = 0
       \/ ~ getValids(p, r, 1 - Mod(r))

\* checkDone, after a decision dec in round decRound (or NotDecided).  The commit
\* proof of SendProof carries only signatures that are already in sent.
CheckDone(p, r, dec, decRound) ==
    \/ terminated[p]
    \/ /\ dec # NotDecided
       /\ r < decRound \/ StopOnCommit # "NextRound" \/ r > decRound + 2

ValidCount(p, r) == (IF getValids(p, r, 0) THEN BinNums[p][r][0] ELSE 0)
                    + (IF getValids(p, r, 1) THEN BinNums[p][r][1] ELSE 0)

\* The estimate for round r + 1: preferences (1), (2) and (3) of the code.
Prefers1(p, r) ==
    LET notMod == 1 - Mod(r) IN
    getValids(p, r, notMod) /\ BinNums[p][r][notMod] >= nmt /\ getValids(p, r + 1, notMod)
Prefers2(p, r) ==
    getValids(p, r, Mod(r)) /\ BinNums[p][r][Mod(r)] > 0 /\ getValids(p, r + 1, Mod(r))
Est(p, r) == IF ~ Prefers1(p, r) /\ Prefers2(p, r) THEN Mod(r) ELSE 1 - Mod(r)

\* The node has not sent its message for round r + 1 yet.
NotSentAlways(p, r) == TRUE         \* variant: the flag is not read
NotSent(p, r) == ~ sentProposal[p][r]

\* The sanity checks of preference (3), and "should have proofs".
EstPanic(p, r) ==
    LET notMod == 1 - Mod(r) IN
    \/ /\ ~ Prefers1(p, r) /\ ~ Prefers2(p, r)
       /\ \/ ~ getValids(p, r, notMod)
          \/ ~ getValids(p, r + 1, notMod)
          \/ BinNums[p][r][notMod] = 0
    \/ IncludeProofs /\ ~ GenerateProofs(p, r + 1, Est(p, r))

\* CheckRound(round) with too few messages: the loop over the rounds ends.
CheckRoundReturnsFalse(p) ==
    LET r == checking[p] IN
    /\ r # NoRound
    /\ TotalBinMsgCount[p][r] < nmt
    /\ checking' = [checking EXCEPT ![p] = NoRound]
    /\ SkipTimeoutRound' =
         [SkipTimeoutRound EXCEPT ![p] = IF TotalBinMsgCount[p][r] > t THEN r ELSE @]
    /\ UNCHANGED <<sent, msgVars, roundVars, storing, queue, SelfMessages, gotProposal,
                   Decided, decidedRound, terminated, panicked>>

\* CheckRound(round) with n-t messages: decide, wait for the timeout of the round, or
\* send the message of the next round.  The loop goes on with round + 1.
CheckRoundReturnsTrue(p) ==
    LET r == checking[p]
        first == Decides(p, r) /\ Decided[p] = NotDecided
        dec == IF Decides(p, r) THEN Mod(r) ELSE Decided[p]
        decRound == IF first THEN r ELSE decidedRound[p]
        skip == IF first THEN MaxUint32 ELSE r             \* nmt > t
        done == ReturnsDecided(p, r) \/ CheckDone(p, r, dec, decRound)
        waits == r > t /\ skip <= r /\ timeoutState[p][r] # "Passed"
        acts == ~ done /\ NotSent(p, r)
        sends == acts /\ ~ waits /\ ValidCount(p, r) >= nmt /\ r < MaxRound
    IN
    /\ r # NoRound
    /\ TotalBinMsgCount[p][r] >= nmt
    /\ checking' = [checking EXCEPT ![p] = IF r < MaxRound THEN r + 1 ELSE NoRound]
    /\ Decided' = [Decided EXCEPT ![p] = dec]
    /\ decidedRound' = [decidedRound EXCEPT ![p] = decRound]
    /\ SkipTimeoutRound' = [SkipTimeoutRound EXCEPT ![p] = skip]
    /\ terminated' = [terminated EXCEPT ![p] = @ \/
         /\ dec # NotDecided
         /\ \/ Decides(p, r) /\ StopOnCommit = "Immediate"
            \/ ~ ReturnsDecided(p, r) /\ r >= decRound /\ StopOnCommit # "NextRound"]
    /\ timeoutState' = [timeoutState EXCEPT ![p][r] = IF acts /\ waits THEN "Sent" ELSE @]
    /\ sentProposal' = [sentProposal EXCEPT ![p][r] = @ \/ sends]
    /\ IF sends
       THEN /\ sent' = [sent EXCEPT ![r + 1][Est(p, r)] = @ \cup {p}]
            /\ SelfMessages' = [SelfMessages EXCEPT ![p] =
                                  Append(@, [round |-> r + 1, val |-> Est(p, r)])]
       ELSE UNCHANGED <<sent, SelfMessages>>
    /\ panicked' = [panicked EXCEPT ![p] =
                      @ \/ DecidePanic(p, r) \/ (sends /\ EstPanic(p, r))]
    /\ UNCHANGED <<msgVars, storing, queue, gotProposal>>

CheckRound(p) == CheckRoundReturnsFalse(p) \/ CheckRoundReturnsTrue(p)

GotMsg(p) == \/ \E r \in Rounds, v \in Bin : \E S \in SUBSET Signers(r, v) : StoreMsg(p, r, v, S)
             \/ \E d \in storing[p] : UpdateRound(p, d)

MainLoop(p) == \/ \E v \in Bin : GotProposal(p, v)
               \/ ProcessSelfMessage(p)
               \/ \E r \in Rounds : ProcessMessage(p, r) \/ AuxProofTimeout(p, r)
               \/ CheckRound(p)

Next == \E p \in Correct : GotMsg(p) \/ MainLoop(p)

Spec == Init /\ [][Next]_vars

-----------------------------------------------------------------------------
(* What is fair to expect of a run: the main loop goes on while it has      *)
(* something to do, a running timer fires, and what one correct node has    *)
(* sent or stored gets to every other one (messages are forwarded; a node   *)
(* that makes no progress is sent the whole message state, GetBinState).    *)
(* Nothing is asked of the faulty nodes.                                    *)

Available(r, v) == sent[r][v] \cup UNION {SigMap[q][r][v] : q \in Correct}

ForwardMsg(p) ==
    \E r \in Rounds, v \in Bin : \E S \in SUBSET Available(r, v) : StoreMsg(p, r, v, S)

-----------------------------------------------------------------------------
(* Properties.                                                             *)

\* No two correct nodes decide different values, in whatever rounds they decide
\* (bin_cons1.go, the decision in CheckRound).
Agreement ==
    \A p, q \in Correct :
        Decided[p] # NotDecided /\ Decided[q] # NotDecided => Decided[p] = Decided[q]

\* A decided value was proposed, in round 0, by a correct node: the faulty nodes
\* alone cannot make a value valid (getValids, round 1).
Validity ==
    \A p \in Correct : Decided[p] # NotDecided => sent[0][Decided[p]] # {}

\* None of the sanity checks of CheckRound, which panic, ever fails, although the
\* counters it reads are raised by other threads in the meantime.
NoPanic == \A p \in Correct : ~ panicked[p]

\* A correct node sends at most one value per round; the sentProposal flag is what
\* prevents a second one when CheckRound runs again for a round, also when a round is
\* entered out of order because later messages came first.
OneValuePerRound == \A r \in Rounds : sent[r][0] \cap sent[r][1] = {}

\* Whatever order the threads of a node take the mutex of GotMsg in, once they are all
\* through it the counters of a round are exact: no late thread has overwritten a larger
\* count with the one it got earlier, and a signer of both values counts once in
\* TotalBinMsgCount.
CountersSettle ==
    \A p \in Correct : storing[p] = {} =>
        \A r \in Rounds :
            /\ \A v \in Bin : BinNums[p][r][v] = Cardinality(SigMap[p][r][v])
            /\ TotalBinMsgCount[p][r] = Cardinality(SigMap[p][r][0] \cup SigMap[p][r][1])

\* The decisions of the correct nodes are those of an instance of Consensus in which the
\* values broadcast for round 0 (GotProposal) are the proposed ones.
C == INSTANCE Consensus WITH Nodes <- Correct, Value <- Bin, None <- NotDecided,
                             proposed <- {v \in Bin : sent[0][v] # {}}, decision <- Decided
ImplementsConsensus == C!Spec

\* When no member is faulty and the messages are delivered every node decides, in round 2 at
\* the latest if t = 0: no order of messages, timeouts and threads leaves a node waiting for a
\* CheckRound that nothing triggers any more.
Termination == <> \A p \in Correct : Decided[p] # NotDecided
=============================================================================
