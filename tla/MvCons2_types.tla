---------------------------- MODULE MvCons2_types ----------------------------
(***************************************************************************)
(* MvCons2: the inductive invariant that MvCons2_proofs proves; that every *)
(* step keeps the types; what quorums imply; and that the steps in which   *)
(* no node votes, and no vote is stored or counted, keep the invariant.    *)
(***************************************************************************)
EXTENDS MvCons2, Members_proofs

-----------------------------------------------------------------------------
(* The inductive invariant.                                                *)

\* A correct node votes once per kind and round, when it sets the flag for it.
VoteFlags ==
    \A p \in Correct, r \in Round, h \in Value :
        /\ p \in sent["echo"][r][h] => cons[p].roundState[r].sentEcho
        /\ p \in sent["commit"][r][h] => cons[p].roundState[r].sentCommit

OneVote ==
    \A p \in Correct, k \in Kind, r \in Round, g, h \in Value :
        p \in sent[k][r][g] /\ p \in sent[k][r][h] => g = h

\* A node's own messages are votes it has sent, or proposals.
OwnSent ==
    \A p \in Correct : \A i \in 1..Len(SelfMessages[p]) :
        LET m == SelfMessages[p][i] IN
        IF m.kind = "init" THEN m.hash \in Hash ELSE p \in sent[m.kind][m.round][m.hash]

\* Votes are stored when they were sent, counted when stored, and n-t of them support a hash.
StoredSent ==
    \A p \in Correct, k \in Kind, r \in Round, h \in Value :
        SigMap[p][k][r][h] \subseteq Signers(k, r, h)

CountsStored ==
    \A p \in Correct : \A d \in storing[p] :
        d.NewTotalSigCount <= Cardinality(SigMap[p][d.kind][d.round][d.hash])

SupportStored ==
    \A p \in Correct, k \in Kind, r \in Round :
        supportedHash[p][k][r] # Nil =>
            Cardinality(SigMap[p][k][r][supportedHash[p][k][r]]) >= nmt

\* What a vote is backed by.
VoteQuorum(k, r, h) == Cardinality(Signers(k, r, h)) >= nmt

CommitBacked ==
    \A r \in Round, h \in Hash : sent["commit"][r][h] # {} => VoteQuorum("echo", r, h)

EchoBacked ==
    \A r \in Round, h \in Value :
        r > 0 /\ sent["echo"][r][h] # {} => VoteQuorum("commit", r - 1, Zero)

\* A node has the proofs of all the rounds it is past, and proposes and votes in rounds it has
\* come to.
ProofsKept == \A p \in Correct, r \in Round : r < cons[p].round => HasProof(p, r)

InRound ==
    \A p \in Correct :
        /\ cons[p].myProposalRound <= cons[p].round
        /\ pc[p].at \in {"echo", "commit"} => pc[p].r = cons[p].round

\* A decision is of a hash with n-t commits, and two of those that differ are what panics.
DecisionSupported ==
    \A p \in Correct :
        /\ cons[p].decisionHash # Nil =>
             \E r \in Round : supportedHash[p]["commit"][r] = cons[p].decisionHash
        /\ cons[p].requestRecoverTimer # "nil" => cons[p].decisionHash # Nil

TwoDecisions(p) ==
    \E r, s \in Round : /\ supportedHash[p]["commit"][r] \in Hash
                        /\ supportedHash[p]["commit"][s] \in Hash
                        /\ supportedHash[p]["commit"][r] # supportedHash[p]["commit"][s]

PanicCause == \A p \in Correct : panicked[p] => TwoDecisions(p)

Inv == /\ TypeOK
       /\ VoteFlags /\ OneVote /\ OwnSent
       /\ StoredSent /\ CountsStored /\ SupportStored
       /\ CommitBacked /\ EchoBacked
       /\ ProofsKept /\ InRound /\ DecisionSupported /\ PanicCause

-----------------------------------------------------------------------------
(* The object of a node.                                                   *)
TimerKind == Kind \cup {"init"}

\* The object u is s but for what decides when the node acts: it has voted in the same rounds, is
\* in the same one, and has made the same decision.
SameVotes(s, u) ==
    /\ u \in Cons
    /\ u.round = s.round
    /\ u.decisionHash = s.decisionHash
    /\ u.myProposalRound \in {s.myProposalRound, s.round}
    /\ s.requestRecoverTimer = "nil" => u.requestRecoverTimer = "nil"
    /\ \A r \in Round : /\ u.roundState[r].sentEcho = s.roundState[r].sentEcho
                        /\ u.roundState[r].sentCommit = s.roundState[r].sentCommit

\* Starting a timer changes no vote, round or decision.
LEMMA StartTimerSame ==
    ASSUME NEW s \in Cons, NEW r \in Round, NEW k \in TimerKind
    PROVE  SameVotes(s, startTimer(s, r, k))
<1> DEFINE rs == [s.roundState EXCEPT ![r][k] = "sent"]
           ts == s.timers \cup {[kind |-> k, round |-> r]}
<1>1. /\ rs \in [Round -> RoundState]
      /\ \A q \in Round : /\ rs[q].sentEcho = s.roundState[q].sentEcho
                          /\ rs[q].sentCommit = s.roundState[q].sentCommit
  <2>1. s.roundState \in [Round -> RoundState]
    BY DEF Cons
  <2>2. /\ [s.roundState[r] EXCEPT ![k] = "sent"] \in RoundState
        /\ [s.roundState[r] EXCEPT ![k] = "sent"].sentEcho = s.roundState[r].sentEcho
        /\ [s.roundState[r] EXCEPT ![k] = "sent"].sentCommit = s.roundState[r].sentCommit
    BY <2>1 DEF RoundState, TimerKind, Kind, TimeoutState
  <2> QED BY Zenon, <2>1, <2>2
<1>2. startTimer(s, r, k) = [s EXCEPT !.roundState = rs, !.timers = ts]
  BY DEF startTimer
<1>3. ts \in SUBSET Timers
  BY DEF Cons, Timers, TimerKind
<1> HIDE DEF rs, ts
<1> QED BY Zenon, <1>1, <1>2, <1>3 DEF SameVotes, Cons

\* Starting a timeout changes no vote, round or decision.
LEMMA StartTimeoutSame ==
    ASSUME NEW s \in Cons, NEW r \in Round, NEW k \in TimerKind
    PROVE  SameVotes(s, startTimeout(s, r, k))
<1>1. SameVotes(s, s)
  BY DEF SameVotes
<1> QED BY <1>1, StartTimerSame DEF startTimeout

\* Changes that touch no vote compose.
LEMMA SameTrans ==
    ASSUME NEW s, NEW u, NEW w, SameVotes(s, u), SameVotes(u, w)
    PROVE  SameVotes(s, w)
BY Zenon DEF SameVotes

\* What a node broadcasts as its proposal, from the object u; panicked is set if the proof that
\* justifies it is missing.
Proposes(p, u) ==
    /\ u.myProposal \in Hash
    /\ \/ UNCHANGED <<init, SelfMessages>>
       \/ /\ init' = init \cup {[round |-> u.myProposalRound, hash |-> u.myProposal]}
          /\ SelfMessages' = [SelfMessages EXCEPT ![p] =
                                Append(SelfMessages[p], InitOf(u.myProposalRound, u.myProposal))]
    /\ panicked' = [panicked EXCEPT ![p] = panicked[p] \/
                      (u.myProposalRound > 0 /\ ~ HasProof(p, u.myProposalRound - 1))]

\* Broadcasting a proposal sends the init and changes no vote, round or decision.
LEMMA BroadcastProposalEffect ==
    ASSUME NEW p \in Correct, NEW s \in Cons, s.myProposal \in Hash, broadcastProposal(p, s)
    PROVE  \E u \in Cons : /\ SameVotes(s, u)
                           /\ cons' = [cons EXCEPT ![p] = u]
                           /\ Proposes(p, u)
<1> DEFINE u == [s EXCEPT !.lastProposalBroadcast = TRUE]
<1>1. /\ u \in Cons /\ SameVotes(s, u)
      /\ u.myProposal = s.myProposal /\ u.myProposalRound = s.myProposalRound
  BY Zenon DEF SameVotes, Cons
<1>2. cons' = [cons EXCEPT ![p] = u]
  BY DEF broadcastProposal, Set
<1>3. /\ \/ UNCHANGED <<init, SelfMessages>>
         \/ /\ init' = init \cup {[round |-> s.myProposalRound, hash |-> s.myProposal]}
            /\ SelfMessages' = [SelfMessages EXCEPT ![p] =
                                  Append(SelfMessages[p], InitOf(s.myProposalRound, s.myProposal))]
      /\ panicked' = [panicked EXCEPT ![p] = panicked[p] \/
                        (s.myProposalRound > 0 /\ ~ HasProof(p, s.myProposalRound - 1))]
  BY Zenon DEF broadcastProposal
<1> HIDE DEF u
<1>4. Proposes(p, u)
  BY <1>1, <1>3, Zenon DEF Proposes
<1> QED BY Zenon, <1>1, <1>2, <1>4

\* Starting a round broadcasts the proposal or not, and changes no vote or decision.
LEMMA StartRoundEffect ==
    ASSUME NEW p \in Correct, NEW s \in Cons, startRound(p, s)
    PROVE  \E u \in Cons : /\ SameVotes(s, u)
                           /\ cons' = [cons EXCEPT ![p] = u]
                           /\ Proposes(p, u) \/ UNCHANGED <<init, SelfMessages, panicked>>
<1> DEFINE r == s.round
           stopped == stopTimers(s)
           asCoord == IF Coord[r] = p
                      THEN [stopped EXCEPT !.NeedsProposal = TRUE, !.myProposalRound = r,
                                           !.lastProposalBroadcast = FALSE]
                      ELSE stopped
           timed == CASE s.roundState[r].init = "notSent" -> startTimer(asCoord, r, "init")
                      [] s.roundState[r].init = "passed" -> startTimeout(asCoord, r, "echo")
                      [] OTHER -> asCoord
           speaks == ~ timed.lastProposalBroadcast /\ timed.myProposal # Nil /\ timed.myProposalRound = r
<1>1. r \in Round /\ s.roundState[r] \in RoundState /\ {"init", "echo"} \subseteq TimerKind
  BY DEF Cons, TimerKind, Kind
<1>2. SameVotes(s, stopped) /\ stopped \in Cons
  BY Zenon DEF SameVotes, Cons, stopTimers
<1>3. SameVotes(s, asCoord) /\ asCoord \in Cons
  <2> HIDE DEF stopped
  <2>1. CASE Coord[r] = p
    BY Zenon, <1>1, <1>2, <2>1 DEF SameVotes, Cons
  <2>2. CASE Coord[r] # p
    BY <1>2, <2>2
  <2> QED BY <2>1, <2>2
<1>4. SameVotes(s, timed) /\ timed \in Cons
  <2>1. SameVotes(asCoord, asCoord)
    BY Zenon, <1>3 DEF SameVotes
  <2>2. timed \in {startTimer(asCoord, r, "init"), startTimeout(asCoord, r, "echo"), asCoord}
    <3>1. s.roundState[r].init \in TimeoutState
      BY <1>1 DEF RoundState
    <3>2. \/ s.roundState[r].init = "notSent" \/ s.roundState[r].init = "passed"
          \/ s.roundState[r].init \notin {"notSent", "passed"}
      OBVIOUS
    <3> QED BY Zenon, <3>2
  <2>3. SameVotes(asCoord, timed)
    BY Zenon, <1>1, <1>3, <2>1, <2>2, StartTimerSame, StartTimeoutSame
  <2> QED BY Zenon, <1>3, <2>3, SameTrans DEF SameVotes
<1>5. IF speaks THEN broadcastProposal(p, timed)
                ELSE cons' = [cons EXCEPT ![p] = timed] /\ UNCHANGED <<init, SelfMessages, panicked>>
  BY Zenon DEF startRound, Set
<1> HIDE DEF timed
<1>6. CASE speaks
  <2>1. timed.myProposal \in Hash
    BY <1>4, <1>6 DEF Cons
  <2>2. PICK u \in Cons : SameVotes(timed, u) /\ cons' = [cons EXCEPT ![p] = u] /\ Proposes(p, u)
    BY <1>4, <1>5, <1>6, <2>1, BroadcastProposalEffect
  <2> QED BY Zenon, <1>4, <2>2, SameTrans
<1>7. CASE ~ speaks
  BY <1>4, <1>5, <1>7
<1> QED BY <1>6, <1>7

-----------------------------------------------------------------------------
(* Types: every step leaves every variable in its set.                     *)

\* What the assumptions say of nodes, hashes and rounds.
LEMMA Constants ==
    /\ Correct \subseteq Members /\ Faulty \subseteq Members
    /\ Zero \notin Hash /\ Zero # Nil /\ Nil \notin Value /\ Zero \in Value /\ Hash \subseteq Value
    /\ 0 \in Round /\ "echo" \in Kind /\ "commit" \in Kind
    /\ \A r \in Round : r \in Nat /\ (r > 0 => r - 1 \in Round) /\ (r < MaxRound => r + 1 \in Round)
BY MembersAssumption, MvCons2Assumption, BroadcastAssumption DEF Correct, Value, Round, Kind

\* The state of a fresh instance is well typed.
LEMMA InitTypeOK == Init => TypeOK
<1> SUFFICES ASSUME Init PROVE TypeOK
  OBVIOUS
<1>1. 0 \in 0..GetMemberCount /\ 0 \in Round
  BY MemberCounts, Constants
<1>2. Recv \in Places
  BY <1>1 DEF Recv, Places
<1>3. InitCons \in Cons
  <2>1. [r \in Round |-> InitRoundState] \in [Round -> RoundState]
    BY DEF InitRoundState, RoundState, TimeoutState
  <2>2. [r \in Round |-> <<>>] \in [Round -> Seq(Hash)]
    OBVIOUS
  <2> QED BY <1>1, <2>1, <2>2 DEF InitCons, Cons
<1> QED BY <1>1, <1>2, <1>3 DEF Init, TypeOK, NetTypes, CountTypes, LoopTypes

\* Those who may have signed a vote are members.
LEMMA SignersMembers ==
    ASSUME TypeOK, NEW k \in Kind, NEW r \in Round, NEW h \in Value
    PROVE  Signers(k, r, h) \in SUBSET Members
<1>1. sent[k][r][h] \in SUBSET Correct
  BY DEF TypeOK, NetTypes
<1> QED BY <1>1, Constants DEF Signers

\* The counts that a thread, or the main loop, gets back.
LEMMA NewCountsType ==
    ASSUME TypeOK, NEW p \in Correct, NEW k \in Kind, NEW r \in Round, NEW h \in Value,
           NEW S \in SUBSET Members
    PROVE  /\ NewCounts(p, k, r, h, S) \in Counts
           /\ SigMap[p][k][r][h] \cup S \in SUBSET Members
<1>1. \A g \in Value : SigMap[p][k][r][g] \in SUBSET Members
  BY DEF TypeOK, CountTypes
<1>2. SigMap[p][k][r][h] \cup S \in SUBSET Members /\ Heard(p, k, r) \cup S \in SUBSET Members
  BY Zenon, <1>1 DEF Heard
<1>3. /\ Cardinality(SigMap[p][k][r][h] \cup S) \in 0..GetMemberCount
      /\ Cardinality(Heard(p, k, r) \cup S) \in 0..GetMemberCount
  BY Zenon, <1>2, CountSubset
<1> QED BY Zenon, <1>2, <1>3 DEF NewCounts, Counts

\* The votes of S are added to those that p has stored of a kind, round and hash: no others change.
Adds(p, k, r, h, S) == SigMap' = [SigMap EXCEPT ![p][k][r][h] = SigMap[p][k][r][h] \cup S]

Added(p, k, r, h, S) ==
    /\ SigMap'[p][k][r][h] = SigMap[p][k][r][h] \cup S
    /\ \A q \in Correct, j \in Kind, i \in Round, g \in Value :
          (q # p \/ j # k \/ i # r \/ g # h) => SigMap'[q][j][i][g] = SigMap[q][j][i][g]

\* Adding signers at one place is well typed and changes that place only.
LEMMA SigMapAdd ==
    ASSUME TypeOK, NEW p \in Correct, NEW k \in Kind, NEW r \in Round, NEW h \in Value,
           NEW S \in SUBSET Members, Adds(p, k, r, h, S)
    PROVE  /\ Added(p, k, r, h, S)
           /\ SigMap' \in [Correct -> [Kind -> [Round -> [Value -> SUBSET Members]]]]
<1>1. SigMap \in [Correct -> [Kind -> [Round -> [Value -> SUBSET Members]]]]
  BY Zenon DEF TypeOK, CountTypes
<1>2. SigMap[p][k][r][h] \cup S \in SUBSET Members
  BY <1>1
<1>3. SigMap' \in [Correct -> [Kind -> [Round -> [Value -> SUBSET Members]]]]
  BY <1>1, <1>2 DEF Adds
<1>4. Added(p, k, r, h, S)
  BY <1>1 DEF Adds, Added
<1> QED BY Zenon, <1>3, <1>4

\* StoreMsg keeps the types.
LEMMA StoreMsgTypeOK ==
    ASSUME TypeOK, NEW p \in Correct, NEW k \in Kind, NEW r \in Round, NEW h \in Value,
           NEW S \in SUBSET Signers(k, r, h), StoreMsg(p, k, r, h, S), UNCHANGED Coord
    PROVE  TypeOK'
<1>1. S \in SUBSET Members
  BY SignersMembers
<1>2. /\ NewCounts(p, k, r, h, S) \in Counts
      /\ SigMap[p][k][r][h] \cup S \in SUBSET Members
  BY Zenon, <1>1, NewCountsType
<1>3. storing' \in [Correct -> SUBSET Counts]
  BY <1>2, Zenon DEF StoreMsg, TypeOK, CountTypes
<1>4. SigMap' \in [Correct -> [Kind -> [Round -> [Value -> SUBSET Members]]]]
  <2>1. Adds(p, k, r, h, S)
    BY Zenon DEF StoreMsg, Adds
  <2> QED BY Zenon, <1>1, <2>1, SigMapAdd
<1>5. UNCHANGED <<Coord, init, sent, requests, recovers, supportedHash, totalMsgCount, queue,
                  SelfMessages, pc, cons, panicked>>
  BY Zenon DEF StoreMsg, netVars
<1> QED BY Zenon, <1>3, <1>4, <1>5 DEF TypeOK, NetTypes, CountTypes, LoopTypes

\* Counting a vote leaves the counters well typed.
LEMMA UpdateRoundTypeOK ==
    ASSUME TypeOK, NEW p \in Correct, NEW d \in Counts, UpdateRound(p, d)
    PROVE  /\ supportedHash' \in [Correct -> [Kind -> [Round -> Value \cup {Nil}]]]
           /\ totalMsgCount' \in [Correct -> [Kind -> [Round -> 0..GetMemberCount]]]
           /\ panicked' \in [Correct -> BOOLEAN]
<1> DEFINE k == d.kind
           r == d.round
           conflict == Enough(d.NewTotalSigCount) /\ supportedHash[p][k][r] \notin {Nil, d.hash}
           new == Raise(totalMsgCount[p][k][r], d.NewMsgIDSigCount)
           sup == IF Enough(d.NewTotalSigCount) /\ ~ conflict THEN d.hash ELSE supportedHash[p][k][r]
<1>1. k \in Kind /\ r \in Round /\ d.hash \in Value /\ d.NewMsgIDSigCount \in 0..GetMemberCount
  BY DEF Counts
<1>2. /\ totalMsgCount' = [totalMsgCount EXCEPT ![p][k][r] = new]
      /\ supportedHash' = [supportedHash EXCEPT ![p][k][r] = sup]
      /\ panicked' = [panicked EXCEPT ![p] = panicked[p] \/ conflict]
  BY Zenon DEF UpdateRound
<1>3. new \in 0..GetMemberCount /\ sup \in Value \cup {Nil}
  <2>1. totalMsgCount[p][k][r] \in 0..GetMemberCount /\ supportedHash[p][k][r] \in Value \cup {Nil}
    BY <1>1 DEF TypeOK, CountTypes
  <2> QED BY Zenon, <1>1, <2>1 DEF Raise
<1> HIDE DEF k, r, new, sup, conflict
<1>4. supportedHash' \in [Correct -> [Kind -> [Round -> Value \cup {Nil}]]]
  BY <1>1, <1>2, <1>3, Zenon DEF TypeOK, CountTypes
<1>5. totalMsgCount' \in [Correct -> [Kind -> [Round -> 0..GetMemberCount]]]
  BY <1>1, <1>2, <1>3, Zenon DEF TypeOK, CountTypes
<1>6. panicked' \in [Correct -> BOOLEAN]
  BY <1>2, Zenon DEF TypeOK, LoopTypes
<1> QED BY <1>4, <1>5, <1>6

\* The step that counts a stored vote keeps the types.
LEMMA UpdateTypeOK ==
    ASSUME TypeOK, NEW p \in Correct, NEW d \in storing[p], Update(p, d), UNCHANGED Coord
    PROVE  TypeOK'
<1>1. d \in Counts /\ storing[p] \subseteq Counts
  BY DEF TypeOK, CountTypes
<1>2. Check(d.round) \in Items
  BY <1>1 DEF Counts, Items
<1>3. /\ supportedHash' \in [Correct -> [Kind -> [Round -> Value \cup {Nil}]]]
      /\ totalMsgCount' \in [Correct -> [Kind -> [Round -> 0..GetMemberCount]]]
      /\ panicked' \in [Correct -> BOOLEAN]
  BY <1>1, UpdateRoundTypeOK DEF Update
<1>4. storing' \in [Correct -> SUBSET Counts] /\ queue' \in [Correct -> SUBSET Items]
  BY Zenon, <1>2 DEF Update, TypeOK, CountTypes, LoopTypes
<1>5. UNCHANGED <<Coord, init, sent, requests, recovers, SigMap, SelfMessages, pc, cons>>
  BY DEF Update, netVars
<1> QED BY Zenon, <1>3, <1>4, <1>5 DEF TypeOK, NetTypes, CountTypes, LoopTypes

\* The main loop goes on with an object like s, and may broadcast a proposal.
Speaks(p, s) ==
    \E u \in Cons : /\ SameVotes(s, u)
                    /\ cons' = [cons EXCEPT ![p] = u]
                    /\ Proposes(p, u) \/ UNCHANGED <<init, SelfMessages, panicked>>

\* The own messages stay messages when one is added.
LEMMA AppendTypeOK ==
    ASSUME TypeOK, NEW p \in Correct, NEW m \in Messages
    PROVE  [SelfMessages EXCEPT ![p] = Append(SelfMessages[p], m)] \in [Correct -> Seq(Messages)]
<1>1. /\ SelfMessages \in [Correct -> Seq(Messages)]
      /\ Append(SelfMessages[p], m) \in Seq(Messages)
  BY DEF TypeOK, LoopTypes
<1> QED BY <1>1, Zenon

\* A step that may send an init keeps the types of what it changes.
LEMMA SpeaksTypeOK ==
    ASSUME TypeOK, NEW p \in Correct, NEW s, Speaks(p, s)
    PROVE  /\ cons' \in [Correct -> Cons] /\ init' \subseteq Inits
           /\ SelfMessages' \in [Correct -> Seq(Messages)]
           /\ panicked' \in [Correct -> BOOLEAN]
<1>1. PICK u \in Cons : /\ SameVotes(s, u)
                        /\ cons' = [cons EXCEPT ![p] = u]
                        /\ Proposes(p, u) \/ UNCHANGED <<init, SelfMessages, panicked>>
  BY Zenon DEF Speaks
<1>2. cons' \in [Correct -> Cons]
  BY <1>1, Zenon DEF TypeOK, LoopTypes
<1>3. CASE Proposes(p, u)
  <2>1. u.myProposalRound \in Round /\ u.myProposal \in Hash
    BY <1>3 DEF Cons, Proposes
  <2>2. /\ InitOf(u.myProposalRound, u.myProposal) \in Messages
        /\ [round |-> u.myProposalRound, hash |-> u.myProposal] \in Inits
    BY <2>1 DEF InitOf, Messages, Inits, Value
  <2>3. SelfMessages' \in [Correct -> Seq(Messages)]
    <3>1. [SelfMessages EXCEPT ![p] =
             Append(SelfMessages[p], InitOf(u.myProposalRound, u.myProposal))] \in [Correct -> Seq(Messages)]
      BY <2>2, AppendTypeOK
    <3> QED BY <1>3, <3>1, Zenon DEF Proposes, TypeOK, LoopTypes
  <2>4. init' \subseteq Inits
    BY Zenon, <1>3, <2>2 DEF Proposes, TypeOK, NetTypes
  <2>5. panicked' \in [Correct -> BOOLEAN]
    BY <1>3, Zenon DEF Proposes, TypeOK, LoopTypes
  <2> QED BY <1>2, <2>3, <2>4, <2>5
<1>4. CASE UNCHANGED <<init, SelfMessages, panicked>>
  BY <1>2, <1>4 DEF TypeOK, NetTypes, LoopTypes
<1> QED BY <1>1, <1>3, <1>4

\* A change that touches no vote may precede such a step.
LEMMA SpeaksTrans ==
    ASSUME NEW p, NEW s, NEW u, SameVotes(s, u), Speaks(p, u)
    PROVE  Speaks(p, s)
BY Zenon, SameTrans DEF Speaks

\* Start may send an init and changes no vote.
LEMMA StartSpeaks ==
    ASSUME TypeOK, NEW p \in Correct, Start(p)
    PROVE  Speaks(p, cons[p])
<1> DEFINE s == [cons[p] EXCEPT !.Started = TRUE]
<1>1. cons[p] \in Cons
  BY DEF TypeOK, LoopTypes
<1>2. SameVotes(cons[p], s) /\ s \in Cons
  BY Zenon, <1>1 DEF SameVotes, Cons
<1>3. SameVotes(s, s)
  BY <1>2 DEF SameVotes
<1>4. startRound(p, s) \/ (cons' = [cons EXCEPT ![p] = s] /\ UNCHANGED <<init, SelfMessages, panicked>>)
  BY DEF Start, Set
<1> HIDE DEF s
<1>5. Speaks(p, s)
  BY <1>2, <1>3, <1>4, StartRoundEffect DEF Speaks
<1> QED BY <1>2, <1>5, SpeaksTrans

\* GotProposal may send an init and changes no vote.
LEMMA GotProposalSpeaks ==
    ASSUME TypeOK, NEW p \in Correct, NEW h \in Hash, GotProposal(p, h)
    PROVE  Speaks(p, cons[p])
<1> DEFINE s == [cons[p] EXCEPT !.myProposal = h]
<1>1. cons[p] \in Cons
  BY DEF TypeOK, LoopTypes
<1>2. SameVotes(cons[p], s) /\ s \in Cons /\ s.myProposal \in Hash
  BY Zenon, <1>1 DEF SameVotes, Cons
<1>3. broadcastProposal(p, s)
  BY DEF GotProposal
<1> HIDE DEF s
<1>4. Speaks(p, s)
  BY <1>2, <1>3, BroadcastProposalEffect DEF Speaks
<1> QED BY <1>2, <1>4, SpeaksTrans

\* Start and GotProposal keep the types.
LEMMA ProposalTypeOK ==
    ASSUME TypeOK, NEW p \in Correct, Start(p) \/ (\E h \in Hash : GotProposal(p, h)), UNCHANGED Coord
    PROVE  TypeOK'
<1>1. Speaks(p, cons[p])
  BY StartSpeaks, GotProposalSpeaks
<1>2. /\ cons' \in [Correct -> Cons] /\ init' \subseteq Inits
      /\ SelfMessages' \in [Correct -> Seq(Messages)]
      /\ panicked' \in [Correct -> BOOLEAN]
  BY <1>1, SpeaksTypeOK
<1>3. UNCHANGED <<Coord, sent, requests, recovers, SigMap, supportedHash, totalMsgCount, storing,
                  queue, pc>>
  BY Zenon DEF Start, GotProposal, msgVars
<1> QED BY Zenon, <1>2, <1>3 DEF TypeOK, NetTypes, CountTypes, LoopTypes

\* Where checkProgress starts.
LEMMA CheckFromTypeOK ==
    ASSUME TypeOK, NEW p \in Correct, NEW m \in Round, CheckFrom(p, m)
    PROVE  /\ pc' \in [Correct -> Places]
           /\ pc'[p].at = "timers" /\ \A q \in Correct : q # p => pc'[q] = pc[q]
<1> DEFINE c == cons[p].round
           x == [at |-> "timers", r |-> IF m < c THEN m ELSE c, max |-> IF m > c THEN m ELSE c,
                 round |-> m]
<1>1. c \in Round
  BY DEF TypeOK, LoopTypes, Cons
<1>2. x \in Places /\ x.at = "timers"
  BY <1>1 DEF Places
<1>3. pc' = [pc EXCEPT ![p] = x]
  BY DEF CheckFrom
<1> HIDE DEF x
<1> QED BY <1>2, <1>3 DEF TypeOK, LoopTypes

\* Answering the recover requests keeps the votes.
LEMMA SendRecoverTypeOK ==
    ASSUME TypeOK, NEW p \in Correct, NEW s \in Cons, SendRecover(p, s)
    PROVE  /\ recovers' \subseteq [to : Correct, round : Round, hash : Hash]
           /\ \E u \in Cons : SameVotes(s, u) /\ cons' = [cons EXCEPT ![p] = u]
<1> DEFINE answered == {q \in s.requestedRecover : s.validatedInitHashes[q.hash] # Nil}
           u == [s EXCEPT !.requestedRecover = s.requestedRecover \ answered]
<1>1. s.requestedRecover \subseteq Requests /\ s.validatedInitHashes \in [Hash -> Round \cup {Nil}]
  BY DEF Cons
<1>2. \A q \in answered : q.from \in Correct /\ q.hash \in Hash /\ s.validatedInitHashes[q.hash] \in Round
  BY <1>1 DEF Requests
<1>3. recovers' = recovers \cup {[to |-> q.from, round |-> s.validatedInitHashes[q.hash],
                                  hash |-> q.hash] : q \in answered}
  BY DEF SendRecover
<1>4. cons' = [cons EXCEPT ![p] = u]
  BY DEF SendRecover, Set
<1>5. u \in Cons /\ SameVotes(s, u)
  BY Zenon, <1>1 DEF SameVotes, Cons
<1> HIDE DEF answered, u
<1>6. recovers' \subseteq [to : Correct, round : Round, hash : Hash]
  <2>1. \A q \in answered : [to |-> q.from, round |-> s.validatedInitHashes[q.hash], hash |-> q.hash]
                                \in [to : Correct, round : Round, hash : Hash]
    BY <1>2
  <2>2. recovers \subseteq [to : Correct, round : Round, hash : Hash]
    BY DEF TypeOK, NetTypes
  <2> QED BY <1>3, <2>1, <2>2, Zenon
<1> QED BY Zenon, <1>4, <1>5, <1>6

\* Validating an init asks for a recovery or not, changes no vote, and goes on to the timers.
LEMMA ValidateInitTypeOK ==
    ASSUME TypeOK, NEW p \in Correct, NEW r \in Round, NEW h \in Hash, ValidateInit(p, r, h)
    PROVE  /\ recovers' \subseteq [to : Correct, round : Round, hash : Hash]
           /\ \E u \in Cons : SameVotes(cons[p], u) /\ cons' = [cons EXCEPT ![p] = u]
           /\ pc' \in [Correct -> Places]
           /\ pc'[p].at = "timers" /\ \A q \in Correct : q # p => pc'[q] = pc[q]
<1> DEFINE s == [cons[p] EXCEPT !.validatedInitHashes[h] = r,
                                !.initMessageByRound[r] = Append(cons[p].initMessageByRound[r], h)]
<1>1. cons[p] \in Cons
  BY DEF TypeOK, LoopTypes
<1>2. s \in Cons /\ SameVotes(cons[p], s)
  <2>1. /\ cons[p].validatedInitHashes \in [Hash -> Round \cup {Nil}]
        /\ cons[p].initMessageByRound \in [Round -> Seq(Hash)]
    BY <1>1 DEF Cons
  <2>2. Append(cons[p].initMessageByRound[r], h) \in Seq(Hash)
    BY <2>1
  <2>3. /\ [cons[p].validatedInitHashes EXCEPT ![h] = r] \in [Hash -> Round \cup {Nil}]
        /\ [cons[p].initMessageByRound EXCEPT ![r] = Append(cons[p].initMessageByRound[r], h)]
              \in [Round -> Seq(Hash)]
    BY <2>1, <2>2
  <2> QED BY Zenon, <1>1, <2>3 DEF SameVotes, Cons
<1>3. SendRecover(p, s) /\ CheckFrom(p, r)
  BY DEF ValidateInit
<1> HIDE DEF s
<1>4. /\ recovers' \subseteq [to : Correct, round : Round, hash : Hash]
      /\ \E u \in Cons : SameVotes(s, u) /\ cons' = [cons EXCEPT ![p] = u]
  BY <1>2, <1>3, SendRecoverTypeOK
<1>5. \E u \in Cons : SameVotes(cons[p], u) /\ cons' = [cons EXCEPT ![p] = u]
  BY Zenon, <1>2, <1>4, SameTrans
<1> QED BY Zenon, <1>3, <1>4, <1>5, CheckFromTypeOK

\* A step of p's main loop in which nothing is sent, stored or counted and nobody panics: p goes
\* on with an object that has voted and decided the same.
Quiet(p) ==
    /\ \E u \in Cons : SameVotes(cons[p], u) /\ cons' = [cons EXCEPT ![p] = u]
    /\ UNCHANGED <<sent, msgVars, storing, panicked>>
    /\ \A q \in Correct :
         /\ \/ SelfMessages'[q] = SelfMessages[q]
            \/ SelfMessages[q] # <<>> /\ SelfMessages'[q] = Tail(SelfMessages[q])
         /\ \/ pc'[q] = pc[q]
            \/ pc'[q].at \in {"echo", "commit"} => pc'[q].r = cons[q].round

\* Leaving the state of a node alone changes no vote of it.
LEMMA SameCons ==
    ASSUME TypeOK, NEW p \in Correct, UNCHANGED cons
    PROVE  \E u \in Cons : SameVotes(cons[p], u) /\ cons' = [cons EXCEPT ![p] = u]
<1>1. cons[p] \in Cons /\ cons' = [cons EXCEPT ![p] = cons[p]]
  BY DEF TypeOK, LoopTypes
<1>2. SameVotes(cons[p], cons[p])
  BY <1>1 DEF SameVotes
<1> QED BY Zenon, <1>1, <1>2

\* The message at the head of a node's own.
LEMMA HeadType ==
    ASSUME TypeOK, OwnSent, NEW p \in Correct, SelfMessages[p] # <<>>
    PROVE  LET m == Head(SelfMessages[p]) IN
           /\ m \in Messages
           /\ IF m.kind = "init" THEN m.hash \in Hash
                                 ELSE m.kind \in Kind /\ p \in sent[m.kind][m.round][m.hash]
           /\ Tail(SelfMessages[p]) \in Seq(Messages)
<1>1. SelfMessages[p] \in Seq(Messages)
  BY DEF TypeOK, LoopTypes
<1>2. /\ Head(SelfMessages[p]) = SelfMessages[p][1] /\ 1 \in 1..Len(SelfMessages[p])
      /\ Head(SelfMessages[p]) \in Messages
      /\ Tail(SelfMessages[p]) \in Seq(Messages)
  BY <1>1
<1>3. LET m == SelfMessages[p][1] IN
      IF m.kind = "init" THEN m.hash \in Hash ELSE p \in sent[m.kind][m.round][m.hash]
  BY <1>2, Zenon DEF OwnSent
<1>4. SelfMessages[p][1].kind \in Kind \cup {"init"}
  BY <1>2 DEF Messages
<1> QED BY Zenon, <1>2, <1>3, <1>4

\* Handling an own init changes no vote.
LEMMA SelfInitQuiet ==
    ASSUME TypeOK, OwnSent, NEW p \in Correct, ProcessSelfMessage(p), UNCHANGED Coord,
           UNCHANGED <<msgVars, panicked>>,
           \/ Head(SelfMessages[p]).kind = "init"
                /\ ValidateInit(p, Head(SelfMessages[p]).round, Head(SelfMessages[p]).hash)
           \/ UNCHANGED <<recovers, cons, pc>>
    PROVE  TypeOK' /\ Quiet(p)
<1> DEFINE m == Head(SelfMessages[p])
<1>1. SelfMessages[p] # <<>> /\ SelfMessages' = [SelfMessages EXCEPT ![p] = Tail(SelfMessages[p])]
  BY Zenon DEF ProcessSelfMessage
<1>2. m \in Messages /\ (m.kind = "init" => m.hash \in Hash) /\ Tail(SelfMessages[p]) \in Seq(Messages)
  BY Zenon, <1>1, HeadType
<1>3. SelfMessages' \in [Correct -> Seq(Messages)]
  BY <1>1, <1>2, Zenon DEF TypeOK, LoopTypes
<1>4. UNCHANGED <<Coord, init, sent, requests, SigMap, supportedHash, totalMsgCount, storing,
                  queue, panicked>>
  BY Zenon DEF ProcessSelfMessage, msgVars
<1>5. /\ recovers' \subseteq [to : Correct, round : Round, hash : Hash]
      /\ \E u \in Cons : SameVotes(cons[p], u) /\ cons' = [cons EXCEPT ![p] = u]
      /\ pc' \in [Correct -> Places]
      /\ pc'[p].at = "timers" \/ pc'[p] = pc[p]
      /\ \A q \in Correct : q # p => pc'[q] = pc[q]
  <2>1. CASE m.kind = "init" /\ ValidateInit(p, m.round, m.hash)
    <3>1. m.round \in Round /\ m.hash \in Hash
      BY Zenon, <1>2, <2>1 DEF Messages
    <3> QED BY Zenon, <2>1, <3>1, ValidateInitTypeOK
  <2>2. CASE UNCHANGED <<recovers, cons, pc>>
    BY Zenon, <2>2, SameCons DEF TypeOK, NetTypes, LoopTypes
  <2> QED BY Zenon, <2>1, <2>2
<1>6. cons' \in [Correct -> Cons]
  BY <1>5, Zenon DEF TypeOK, LoopTypes
<1>7. TypeOK'
  BY Zenon, <1>3, <1>4, <1>5, <1>6 DEF TypeOK, NetTypes, CountTypes, LoopTypes
<1>8. \A q \in Correct : \/ SelfMessages'[q] = SelfMessages[q]
                         \/ SelfMessages[q] # <<>> /\ SelfMessages'[q] = Tail(SelfMessages[q])
  BY Zenon, <1>1 DEF TypeOK, LoopTypes
<1>9. Quiet(p)
  BY Zenon, <1>4, <1>5, <1>8 DEF Quiet, msgVars
<1> QED BY <1>7, <1>9

\* The steps of checkProgressRound.
LEMMA GotoTypeOK ==
    ASSUME TypeOK, NEW p \in Correct, NEW a \in {"echo", "commit", "decide", "next"}, Goto(p, a)
    PROVE  /\ pc' \in [Correct -> Places]
           /\ pc'[p].at = a /\ pc'[p].r = pc[p].r
           /\ \A q \in Correct : q # p => pc'[q] = pc[q]
BY Zenon DEF TypeOK, LoopTypes, Goto, Places

\* Choosing the next step of the main loop keeps the types.
LEMMA NextRoundTypeOK ==
    ASSUME TypeOK, NEW p \in Correct, NEW c \in Round, NextRound(p, c)
    PROVE  /\ pc' \in [Correct -> Places]
           /\ pc'[p].at \in {"timers", "recv"}
           /\ \A q \in Correct : q # p => pc'[q] = pc[q]
<1> DEFINE x == IF pc[p].r < pc[p].max THEN [pc[p] EXCEPT !.at = "timers", !.r = pc[p].r + 1]
                ELSE IF c > pc[p].round THEN [at |-> "timers", r |-> c, max |-> c, round |-> c]
                ELSE Recv
<1>1. pc[p] \in Places /\ pc[p].r \in Round /\ pc[p].max \in Round
  BY DEF TypeOK, LoopTypes, Places
<1>2. x \in Places /\ x.at \in {"timers", "recv"}
  <2>1. pc[p].r < pc[p].max => pc[p].r + 1 \in Round
    BY <1>1, MvCons2Assumption DEF Round
  <2>2. Recv \in Places /\ Recv.at = "recv"
    BY Constants DEF Recv, Places
  <2>3. CASE pc[p].r < pc[p].max
    BY Zenon, <1>1, <2>1, <2>3 DEF Places
  <2>4. CASE ~ (pc[p].r < pc[p].max) /\ c > pc[p].round
    BY <1>1, <2>4 DEF Places
  <2>5. CASE ~ (pc[p].r < pc[p].max) /\ ~ (c > pc[p].round)
    BY <2>2, <2>5
  <2> HIDE DEF x
  <2> QED BY <2>3, <2>4, <2>5
<1>3. pc' = [pc EXCEPT ![p] = x]
  BY DEF NextRound
<1> HIDE DEF x
<1> QED BY <1>2, <1>3 DEF TypeOK, LoopTypes

\* The steps of a node in which nothing is sent but proposals and recovery messages.
QuietStep(p) ==
    \/ \E r \in Round, h \in Hash : RecvInit(p, r, h)
    \/ \E m \in queue[p] : ProcessInit(p, m) \/ ProcessMessage(p, m)
    \/ CheckTimers(p)
    \/ \E tm \in cons[p].timers : Timeout(p, tm)
    \/ RecoverTimeout(p)
    \/ \E q \in requests : GotRequestRecover(p, q)

\* They keep the types, and send, store and count no vote.
LEMMA QuietSteps ==
    \A p \in Correct : TypeOK /\ DecisionSupported /\ UNCHANGED Coord /\ QuietStep(p) => TypeOK' /\ Quiet(p)
<1>PassSame.
    ASSUME NEW s \in Cons, NEW r \in Round, NEW k \in TimerKind
    PROVE  SameVotes(s, pass(s, r, k))
  <2> USE <1>PassSame
  <2> DEFINE rs == [s.roundState EXCEPT ![r][k] = "passed"]
  <2>1. /\ rs \in [Round -> RoundState]
        /\ \A q \in Round : /\ rs[q].sentEcho = s.roundState[q].sentEcho
                            /\ rs[q].sentCommit = s.roundState[q].sentCommit
    <3>1. s.roundState \in [Round -> RoundState]
      BY DEF Cons
    <3>2. /\ [s.roundState[r] EXCEPT ![k] = "passed"] \in RoundState
          /\ [s.roundState[r] EXCEPT ![k] = "passed"].sentEcho = s.roundState[r].sentEcho
          /\ [s.roundState[r] EXCEPT ![k] = "passed"].sentCommit = s.roundState[r].sentCommit
      BY <3>1 DEF RoundState, TimerKind, Kind, TimeoutState
    <3> QED BY Zenon, <3>1, <3>2
  <2>2. pass(s, r, k) = [s EXCEPT !.roundState = rs]
    BY DEF pass
  <2> HIDE DEF rs
  <2> QED BY Zenon, <2>1, <2>2 DEF SameVotes, Cons
<1>SkipTimersSame.
    ASSUME NEW p, NEW s \in Cons, NEW r \in Round
    PROVE  SameVotes(s, SkipTimers(p, s, r))
  <2> USE <1>SkipTimersSame
  <2> DEFINE echoCount == totalMsgCount[p]["echo"][r]
             commitCount == totalMsgCount[p]["commit"][r]
             s1 == IF echoCount >= nmt THEN startTimeout(pass(s, r, "init"), r, "echo") ELSE s
             s2 == IF commitCount >= nmt THEN startTimeout(pass(s1, r, "echo"), r, "commit") ELSE s1
             passTimers(q) == [s2.roundState[q] EXCEPT !.init = "passed", !.echo = "passed",
                                                       !.commit = "passed"]
             rs == [q \in Round |-> IF s.round <= q /\ q < r THEN passTimers(q) ELSE s2.roundState[q]]
  <2>1. SameVotes(s, s) /\ {"init", "echo", "commit"} \subseteq TimerKind
    BY DEF SameVotes, TimerKind, Kind
  <2>2. ASSUME NEW u \in Cons, NEW j \in TimerKind, NEW k \in TimerKind
        PROVE  SameVotes(u, startTimeout(pass(u, r, j), r, k))
    <3>1. SameVotes(u, pass(u, r, j)) /\ pass(u, r, j) \in Cons
      BY Zenon, <1>PassSame DEF SameVotes
    <3> QED BY <3>1, StartTimeoutSame, SameTrans
  <2>3. SameVotes(s, s1) /\ s1 \in Cons
    BY Zenon, <2>1, <2>2 DEF SameVotes
  <2>4. SameVotes(s, s2) /\ s2 \in Cons
    <3>1. SameVotes(s1, s1)
      BY Zenon, <2>3 DEF SameVotes
    <3>2. SameVotes(s1, s2)
      BY Zenon, <2>1, <2>2, <2>3, <3>1
    <3> QED BY Zenon, <2>3, <3>2, SameTrans DEF SameVotes
  <2>5. SkipTimers(p, s, r) = IF commitCount > nmt \/ echoCount >= nmt
                              THEN [s2 EXCEPT !.roundState = rs] ELSE s2
    BY DEF SkipTimers
  <2> HIDE DEF s1, s2
  <2>6. ASSUME NEW q \in Round
        PROVE  /\ passTimers(q) \in RoundState
               /\ passTimers(q).sentEcho = s2.roundState[q].sentEcho
               /\ passTimers(q).sentCommit = s2.roundState[q].sentCommit
    <3>1. s2.roundState[q] \in RoundState
      BY <2>4 DEF Cons
    <3> QED BY Zenon, <3>1 DEF RoundState, TimeoutState
  <2> HIDE DEF passTimers
  <2>7. /\ rs \in [Round -> RoundState]
        /\ \A q \in Round : /\ rs[q].sentEcho = s2.roundState[q].sentEcho
                            /\ rs[q].sentCommit = s2.roundState[q].sentCommit
    <3>1. s2.roundState \in [Round -> RoundState]
      BY <2>4 DEF Cons
    <3> QED BY <2>6, <3>1
  <2> HIDE DEF rs
  <2>8. SameVotes(s2, [s2 EXCEPT !.roundState = rs])
    BY Zenon, <2>4, <2>7 DEF SameVotes, Cons
  <2> QED BY <2>4, <2>5, <2>8, SameTrans
<1>RecvInitTypeOK.
    ASSUME TypeOK, NEW p \in Correct, NEW r \in Round, NEW h \in Hash, RecvInit(p, r, h),
           UNCHANGED Coord
    PROVE  TypeOK'
  <2> USE <1>RecvInitTypeOK
  <2>1. InitOf(r, h) \in Items
    BY DEF Items
  <2>2. queue' \in [Correct -> SUBSET Items]
    BY Zenon, <2>1 DEF RecvInit, TypeOK, LoopTypes
  <2>3. UNCHANGED <<Coord, init, sent, requests, recovers, SigMap, supportedHash, totalMsgCount,
                    storing, SelfMessages, pc, cons, panicked>>
    BY Zenon DEF RecvInit, netVars, msgVars
  <2> QED BY <2>2, <2>3 DEF TypeOK, NetTypes, CountTypes, LoopTypes
<1>RecvInitQuiet.
    ASSUME TypeOK, NEW p \in Correct, NEW r \in Round, NEW h \in Hash, RecvInit(p, r, h)
    PROVE  Quiet(p)
  <2> USE <1>RecvInitQuiet
  <2>1. UNCHANGED <<sent, msgVars, storing, SelfMessages, pc, cons, panicked>>
    BY DEF RecvInit, netVars
  <2>2. \E u \in Cons : SameVotes(cons[p], u) /\ cons' = [cons EXCEPT ![p] = u]
    BY <2>1, SameCons
  <2> QED BY Zenon, <2>1, <2>2 DEF Quiet
<1>ProcessInitQuiet.
    ASSUME TypeOK, NEW p \in Correct, NEW m \in queue[p], ProcessInit(p, m), UNCHANGED Coord
    PROVE  TypeOK' /\ Quiet(p)
  <2> USE <1>ProcessInitQuiet
  <2>1. m \in Items /\ m.kind = "init"
    BY DEF ProcessInit, TypeOK, NetTypes, LoopTypes
  <2>2. m.round \in Round /\ m.hash \in Hash
    BY <2>1 DEF Items, Check, InitOf
  <2>3. ValidateInit(p, m.round, m.hash)
    BY DEF ProcessInit
  <2>4. /\ recovers' \subseteq [to : Correct, round : Round, hash : Hash]
        /\ \E u \in Cons : SameVotes(cons[p], u) /\ cons' = [cons EXCEPT ![p] = u]
        /\ pc' \in [Correct -> Places]
        /\ pc'[p].at = "timers" /\ \A q \in Correct : q # p => pc'[q] = pc[q]
    BY <2>2, <2>3, ValidateInitTypeOK
  <2>5. UNCHANGED <<Coord, init, sent, requests, SigMap, supportedHash, totalMsgCount, storing,
                    SelfMessages, panicked>>
    BY DEF ProcessInit, msgVars
  <2>6. cons' \in [Correct -> Cons]
    BY <2>4, Zenon DEF TypeOK, LoopTypes
  <2>7. queue' \in [Correct -> SUBSET Items]
    BY DEF ProcessInit, TypeOK, LoopTypes
  <2>8. TypeOK'
    BY <2>4, <2>5, <2>6, <2>7 DEF TypeOK, NetTypes, CountTypes, LoopTypes
  <2>9. Quiet(p)
    BY Zenon, <2>4, <2>5 DEF Quiet, msgVars
  <2> QED BY <2>8, <2>9
<1>ProcessMessageQuiet.
    ASSUME TypeOK, NEW p \in Correct, NEW m \in queue[p], ProcessMessage(p, m), UNCHANGED Coord
    PROVE  TypeOK' /\ Quiet(p)
  <2> USE <1>ProcessMessageQuiet
  <2>1. m \in Items /\ m.kind = "check"
    BY DEF ProcessMessage, TypeOK, LoopTypes
  <2>2. m.round \in Round
    BY <2>1 DEF Items, Check, InitOf
  <2>3. CheckFrom(p, m.round)
    BY DEF ProcessMessage
  <2>4. /\ pc' \in [Correct -> Places]
        /\ pc'[p].at = "timers" /\ \A q \in Correct : q # p => pc'[q] = pc[q]
    BY <2>2, <2>3, CheckFromTypeOK
  <2>5. UNCHANGED <<Coord, init, sent, requests, recovers, SigMap, supportedHash, totalMsgCount,
                    storing, SelfMessages, cons, panicked>>
    BY DEF ProcessMessage, msgVars, netVars
  <2>6. \E u \in Cons : SameVotes(cons[p], u) /\ cons' = [cons EXCEPT ![p] = u]
    BY <2>5, SameCons
  <2>7. queue' \in [Correct -> SUBSET Items]
    BY DEF ProcessMessage, TypeOK, LoopTypes
  <2>8. TypeOK'
    BY <2>4, <2>5, <2>7 DEF TypeOK, NetTypes, CountTypes, LoopTypes
  <2>9. Quiet(p)
    BY Zenon, <2>4, <2>5, <2>6 DEF Quiet, msgVars
  <2> QED BY <2>8, <2>9
<1>TimeoutQuiet.
    ASSUME TypeOK, NEW p \in Correct, NEW tm \in cons[p].timers, Timeout(p, tm), UNCHANGED Coord
    PROVE  TypeOK' /\ Quiet(p)
  <2> USE <1>TimeoutQuiet
  <2> DEFINE s == [cons[p] EXCEPT !.timers = cons[p].timers \ {tm}]
             after == pass(s, tm.round, tm.kind)
             u == CASE tm.kind = "init" -> startTimeout(after, tm.round, "echo")
                    [] tm.kind = "echo" -> startTimeout(after, tm.round, "commit")
                    [] tm.kind = "commit" -> after
  <2>1. cons[p] \in Cons
    BY DEF TypeOK, LoopTypes
  <2>2. tm.round \in Round /\ tm.kind \in TimerKind /\ {"echo", "commit"} \subseteq TimerKind
    BY <2>1 DEF Cons, Timers, TimerKind, Kind
  <2>3. s \in Cons /\ SameVotes(cons[p], s)
    BY Zenon, <2>1 DEF Cons, SameVotes
  <2>4. IF s.decisionHash # Nil
        THEN cons' = [cons EXCEPT ![p] = s] /\ UNCHANGED pc
        ELSE cons' = [cons EXCEPT ![p] = u] /\ CheckFrom(p, tm.round)
    BY Zenon DEF Timeout, Set
  <2> HIDE DEF s
  <2>5. after \in Cons /\ SameVotes(s, after)
    BY Zenon, <2>2, <2>3, <1>PassSame DEF SameVotes
  <2> HIDE DEF after
  <2>6. u \in Cons /\ SameVotes(cons[p], u)
    <3>1. /\ SameVotes(after, after)
          /\ SameVotes(after, startTimeout(after, tm.round, "echo"))
          /\ SameVotes(after, startTimeout(after, tm.round, "commit"))
      BY Zenon, <2>2, <2>5, StartTimeoutSame DEF SameVotes
    <3>2. tm.kind = "init" \/ tm.kind = "echo" \/ tm.kind = "commit"
      BY <2>2 DEF TimerKind, Kind
    <3>3. SameVotes(after, u)
      BY <3>1, <3>2
    <3> QED BY Zenon, <2>3, <2>5, <3>3, SameTrans DEF SameVotes
  <2> HIDE DEF u
  <2>7. \E w \in Cons : SameVotes(cons[p], w) /\ cons' = [cons EXCEPT ![p] = w]
    BY <2>3, <2>4, <2>6
  <2>8. /\ pc' \in [Correct -> Places]
        /\ pc'[p].at = "timers" \/ pc'[p] = pc[p]
        /\ \A q \in Correct : q # p => pc'[q] = pc[q]
    <3>1. CASE UNCHANGED pc
      BY <3>1 DEF TypeOK, LoopTypes
    <3>2. CASE CheckFrom(p, tm.round)
      BY <2>2, <3>2, CheckFromTypeOK
    <3> QED BY <2>4, <3>1, <3>2
  <2>9. UNCHANGED <<Coord, init, sent, requests, recovers, SigMap, supportedHash, totalMsgCount,
                    storing, queue, SelfMessages, panicked>>
    BY DEF Timeout, msgVars, netVars
  <2>10. cons' \in [Correct -> Cons]
    BY <2>7, Zenon DEF TypeOK, LoopTypes
  <2>11. TypeOK'
    BY <2>8, <2>9, <2>10 DEF TypeOK, NetTypes, CountTypes, LoopTypes
  <2>12. Quiet(p)
    BY Zenon, <2>7, <2>8, <2>9 DEF Quiet, msgVars
  <2> QED BY <2>11, <2>12
<1>RecoverTimeoutQuiet.
    ASSUME TypeOK, DecisionSupported, NEW p \in Correct, RecoverTimeout(p), UNCHANGED Coord
    PROVE  TypeOK' /\ Quiet(p)
  <2> USE <1>RecoverTimeoutQuiet
  <2> DEFINE s == cons[p]
             asks == ~ s.decided /\ ~ s.sentRequestRecover
             u == [s EXCEPT !.requestRecoverTimer = "fired", !.sentRequestRecover = s.sentRequestRecover \/ asks]
  <2>1. s \in Cons /\ s.requestRecoverTimer \in {"running", "stopped"}
    BY Zenon DEF TypeOK, LoopTypes, RecoverTimeout
  <2>2. s.decisionHash \in Hash
    BY <2>1 DEF DecisionSupported, Cons
  <2>3. u \in Cons /\ SameVotes(s, u)
    <3>1. s.sentRequestRecover \in BOOLEAN /\ s.decided \in BOOLEAN
      BY <2>1 DEF Cons
    <3>2. (s.sentRequestRecover \/ asks) \in BOOLEAN
      OBVIOUS
    <3> HIDE DEF asks
    <3> QED BY Zenon, <2>1, <3>1, <3>2 DEF Cons, SameVotes
  <2>4. cons' = [cons EXCEPT ![p] = u]
    BY DEF RecoverTimeout, Set
  <2>5. requests' \subseteq Requests
    <3>1. [from : {p}, to : Correct \ {p}, hash : {s.decisionHash}] \subseteq Requests
      BY <2>2 DEF Requests
    <3> QED BY <3>1 DEF RecoverTimeout, TypeOK, NetTypes
  <2>6. UNCHANGED <<Coord, init, sent, recovers, SigMap, supportedHash, totalMsgCount,
                    storing, queue, SelfMessages, pc, panicked>>
    BY DEF RecoverTimeout, msgVars
  <2> HIDE DEF u
  <2>7. cons' \in [Correct -> Cons]
    BY <2>3, <2>4, Zenon DEF TypeOK, LoopTypes
  <2>8. TypeOK'
    BY <2>5, <2>6, <2>7 DEF TypeOK, NetTypes, CountTypes, LoopTypes
  <2>9. Quiet(p)
    BY Zenon, <2>3, <2>4, <2>6 DEF Quiet, msgVars
  <2> QED BY <2>8, <2>9
<1>GotRequestRecoverQuiet.
    ASSUME TypeOK, NEW p \in Correct, NEW q \in requests, GotRequestRecover(p, q), UNCHANGED Coord
    PROVE  TypeOK' /\ Quiet(p)
  <2> USE <1>GotRequestRecoverQuiet
  <2> DEFINE s == [cons[p] EXCEPT !.requestedRecover = cons[p].requestedRecover \cup {q}]
  <2>1. cons[p] \in Cons /\ q \in Requests
    BY DEF TypeOK, NetTypes, LoopTypes
  <2>2. s \in Cons /\ SameVotes(cons[p], s)
    BY Zenon, <2>1 DEF Cons, SameVotes
  <2>3. SendRecover(p, s) /\ requests' = requests \ {q}
    BY DEF GotRequestRecover
  <2> HIDE DEF s
  <2>4. /\ recovers' \subseteq [to : Correct, round : Round, hash : Hash]
        /\ \E u \in Cons : SameVotes(s, u) /\ cons' = [cons EXCEPT ![p] = u]
    BY <2>2, <2>3, SendRecoverTypeOK
  <2>5. \E u \in Cons : SameVotes(cons[p], u) /\ cons' = [cons EXCEPT ![p] = u]
    BY Zenon, <2>2, <2>4, SameTrans
  <2>6. UNCHANGED <<Coord, init, sent, SigMap, supportedHash, totalMsgCount,
                    storing, queue, SelfMessages, pc, panicked>>
    BY DEF GotRequestRecover, msgVars
  <2>7. cons' \in [Correct -> Cons]
    BY <2>5, Zenon DEF TypeOK, LoopTypes
  <2>8. TypeOK'
    BY <2>3, <2>4, <2>6, <2>7 DEF TypeOK, NetTypes, CountTypes, LoopTypes
  <2>9. Quiet(p)
    BY Zenon, <2>5, <2>6 DEF Quiet, msgVars
  <2> QED BY <2>8, <2>9
<1>CheckTimersQuiet.
    ASSUME TypeOK, NEW p \in Correct, CheckTimers(p), UNCHANGED Coord
    PROVE  TypeOK' /\ Quiet(p)
  <2> USE <1>CheckTimersQuiet
  <2>1. UNCHANGED <<Coord, init, sent, requests, recovers, SigMap, supportedHash, totalMsgCount,
                    storing, queue, SelfMessages, panicked>>
    BY Zenon DEF CheckTimers, msgVars, netVars
  <2>2. cons[p] \in Cons /\ pc[p].r \in Round
    BY DEF TypeOK, LoopTypes, Places
  <2>3. /\ \E u \in Cons : SameVotes(cons[p], u) /\ cons' = [cons EXCEPT ![p] = u]
        /\ pc' \in [Correct -> Places]
        /\ \A q \in Correct : \/ pc'[q] = pc[q]
                              \/ pc'[q].at \in {"echo", "commit"} => pc'[q].r = cons[q].round
    <3>1. CASE cons[p].decided
      <4>1. pc' = [pc EXCEPT ![p] = Recv] /\ UNCHANGED cons
        BY <3>1 DEF CheckTimers
      <4>2. Recv \in Places /\ Recv.at = "recv"
        BY Constants DEF Recv, Places
      <4>3. \E u \in Cons : SameVotes(cons[p], u) /\ cons' = [cons EXCEPT ![p] = u]
        BY <4>1, SameCons
      <4> QED BY Zenon, <4>1, <4>2, <4>3 DEF TypeOK, LoopTypes
    <3>2. CASE ~ cons[p].decided
      <4> DEFINE u == SkipTimers(p, cons[p], pc[p].r)
                 a == IF pc[p].r = cons[p].round THEN "echo" ELSE "decide"
      <4>1. cons' = [cons EXCEPT ![p] = u] /\ Goto(p, a)
        BY Zenon, <3>2 DEF CheckTimers, Set
      <4>2. u \in Cons /\ SameVotes(cons[p], u)
        BY <2>2, <1>SkipTimersSame DEF SameVotes
      <4>3. /\ pc' \in [Correct -> Places]
            /\ pc'[p].at = a /\ pc'[p].r = pc[p].r
            /\ \A q \in Correct : q # p => pc'[q] = pc[q]
        BY <4>1, GotoTypeOK
      <4> HIDE DEF u
      <4> QED BY Zenon, <4>1, <4>2, <4>3
    <3> QED BY <3>1, <3>2
  <2>4. cons' \in [Correct -> Cons]
    BY <2>3, Zenon DEF TypeOK, LoopTypes
  <2>5. TypeOK'
    BY Zenon, <2>1, <2>3, <2>4 DEF TypeOK, NetTypes, CountTypes, LoopTypes
  <2>6. Quiet(p)
    BY Zenon, <2>1, <2>3 DEF Quiet, msgVars
  <2> QED BY Zenon, <2>5, <2>6
<1> SUFFICES ASSUME NEW p \in Correct, TypeOK, DecisionSupported, UNCHANGED Coord, QuietStep(p)
             PROVE  TypeOK' /\ Quiet(p)
  OBVIOUS
<1>1. CASE \E r \in Round, h \in Hash : RecvInit(p, r, h)
  BY <1>1, <1>RecvInitTypeOK, <1>RecvInitQuiet
<1>2. CASE \E m \in queue[p] : ProcessInit(p, m) \/ ProcessMessage(p, m)
  BY <1>2, <1>ProcessInitQuiet, <1>ProcessMessageQuiet
<1>3. CASE CheckTimers(p)
  BY <1>3, <1>CheckTimersQuiet
<1>4. CASE \E tm \in cons[p].timers : Timeout(p, tm)
  BY <1>4, <1>TimeoutQuiet
<1>5. CASE RecoverTimeout(p)
  BY <1>5, <1>RecoverTimeoutQuiet
<1>6. CASE \E q \in requests : GotRequestRecover(p, q)
  BY <1>6, <1>GotRequestRecoverQuiet
<1> QED BY <1>1, <1>2, <1>3, <1>4, <1>5, <1>6 DEF QuietStep

-----------------------------------------------------------------------------
(* Quorums.                                                                *)

\* n-t votes of a kind and round are there for one hash only.
LEMMA OneQuorum ==
    ASSUME TypeOK, OneVote, NEW k \in Kind, NEW r \in Round, NEW g \in Value, NEW h \in Value,
           VoteQuorum(k, r, g), VoteQuorum(k, r, h)
    PROVE  g = h
<1>1. Signers(k, r, g) \in SUBSET Members /\ Signers(k, r, h) \in SUBSET Members
  BY SignersMembers
<1>2. PICK q \in Correct : q \in Signers(k, r, g) /\ q \in Signers(k, r, h)
  BY <1>1, QuorumsMeet DEF VoteQuorum
<1>3. q \in sent[k][r][g] /\ q \in sent[k][r][h]
  BY <1>2 DEF Signers, Correct
<1> QED BY <1>3 DEF OneVote

\* n-t stored votes show that n-t members have voted, a correct one among them.
LEMMA VotesBack ==
    ASSUME TypeOK, NEW k \in Kind, NEW r \in Round, NEW h \in Value,
           NEW A \in SUBSET Signers(k, r, h), Cardinality(A) >= nmt
    PROVE  VoteQuorum(k, r, h)
<1>1. Signers(k, r, h) \in SUBSET Members
  BY SignersMembers
<1> QED BY <1>1, CountSubset, MemberCounts DEF VoteQuorum

\* A quorum holds a correct node, because n - t > t.
LEMMA QuorumVoter ==
    ASSUME TypeOK, NEW k \in Kind, NEW r \in Round, NEW h \in Value, VoteQuorum(k, r, h)
    PROVE  sent[k][r][h] # {}
<1>1. Signers(k, r, h) \in SUBSET Members
  BY SignersMembers
<1>2. Cardinality(Signers(k, r, h)) > t
  <2>1. Cardinality(Signers(k, r, h)) \in Int
    BY <1>1, CountSubset, MemberCounts
  <2> QED BY <2>1, MemberCounts DEF VoteQuorum
<1>3. PICK q \in Correct : q \in Signers(k, r, h)
  BY <1>1, <1>2, ManyHaveCorrect
<1> QED BY <1>3 DEF Signers, Correct

\* What a node's proofs, and the hashes it supports, show.
LEMMA ZeroProofBack ==
    ASSUME TypeOK, StoredSent, NEW p \in Correct, NEW r \in Round, ZeroProof(p, r)
    PROVE  VoteQuorum("commit", r, Zero)
<1>1. /\ SigMap[p]["commit"][r][Zero] \in SUBSET Signers("commit", r, Zero)
      /\ Cardinality(SigMap[p]["commit"][r][Zero]) >= nmt
  BY Zenon, Constants DEF ZeroProof, StoredSent
<1> QED BY Zenon, <1>1, VotesBack, Constants

\* A supported hash has a quorum.
LEMMA SupportBack ==
    ASSUME TypeOK, StoredSent, SupportStored, NEW p \in Correct, NEW k \in Kind, NEW r \in Round,
           supportedHash[p][k][r] # Nil
    PROVE  supportedHash[p][k][r] \in Value /\ VoteQuorum(k, r, supportedHash[p][k][r])
<1> DEFINE h == supportedHash[p][k][r]
<1>1. h \in Value
  BY DEF TypeOK, CountTypes
<1>2. SigMap[p][k][r][h] \in SUBSET Signers(k, r, h) /\ Cardinality(SigMap[p][k][r][h]) >= nmt
  BY Zenon, <1>1 DEF StoredSent, SupportStored
<1> HIDE DEF h
<1>3. VoteQuorum(k, r, h)
  BY <1>1, <1>2, VotesBack
<1> QED BY <1>1, <1>3 DEF h

-----------------------------------------------------------------------------
(* What only grows.                                                        *)
MoreStored ==
    \A p \in Correct, k \in Kind, r \in Round, h \in Value :
        SigMap[p][k][r][h] \subseteq SigMap'[p][k][r][h]

\* Adding votes removes none.
LEMMA AddedMore ==
    ASSUME NEW p \in Correct, NEW k \in Kind, NEW r \in Round, NEW h \in Value,
           NEW S, Added(p, k, r, h, S)
    PROVE  MoreStored
BY DEF Added, MoreStored

MoreSupported ==
    \A p \in Correct, k \in Kind, r \in Round :
        supportedHash[p][k][r] # Nil => supportedHash'[p][k][r] = supportedHash[p][k][r]

\* The object u is s, with perhaps more votes sent.
Flagged(s, u) ==
    /\ u \in Cons
    /\ u.round = s.round
    /\ u.decisionHash = s.decisionHash
    /\ u.myProposalRound = s.myProposalRound
    /\ u.requestRecoverTimer = s.requestRecoverTimer
    /\ \A r \in Round : /\ s.roundState[r].sentEcho => u.roundState[r].sentEcho
                        /\ s.roundState[r].sentCommit => u.roundState[r].sentCommit

\* A vote sent for the first time in its round, and backed, by a node whose object becomes u.
Votes(p, k, r, h, u) ==
    /\ Broadcast(p, k, r, h)
    /\ Flagged(cons[p], u)
    /\ IF k = "echo" THEN u.roundState[r].sentEcho ELSE u.roundState[r].sentCommit
    /\ cons' = [cons EXCEPT ![p] = u]
    /\ UNCHANGED <<Coord, init, requests, recovers, msgVars, storing, queue, panicked>>
    /\ pc' \in [Correct -> Places]
    /\ \A q \in Correct : q # p => pc'[q] = pc[q]
    /\ pc'[p].at \in {"echo", "commit"} => pc'[p].r = cons[p].round
    /\ \A g \in Value : p \notin sent[k][r][g]
    /\ k = "commit" /\ h \in Hash => VoteQuorum("echo", r, h)
    /\ k = "echo" /\ r > 0 => VoteQuorum("commit", r - 1, Zero)

-----------------------------------------------------------------------------
(* Steps in which no node votes keep the invariant.                        *)

\* What has n-t votes keeps them.
LEMMA QuorumStays ==
    ASSUME TypeOK, TypeOK', NEW k \in Kind, NEW r \in Round, NEW h \in Value, VoteQuorum(k, r, h),
           sent[k][r][h] \subseteq sent'[k][r][h]
    PROVE  VoteQuorum(k, r, h)'
<1>1. Signers(k, r, h)' \in SUBSET Members
  <2>1. sent'[k][r][h] \in SUBSET Correct
    BY DEF TypeOK, NetTypes
  <2> QED BY <2>1, Constants DEF Signers
<1>2. Signers(k, r, h) \in SUBSET Signers(k, r, h)'
  BY DEF Signers
<1>3. /\ Cardinality(Signers(k, r, h)) <= Cardinality(Signers(k, r, h)')
      /\ Cardinality(Signers(k, r, h)) \in Int /\ Cardinality(Signers(k, r, h)') \in Int
  BY <1>1, <1>2, CountSubset, MemberCounts
<1>4. VoteQuorum(k, r, h)' <=> Cardinality(Signers(k, r, h)') >= nmt
  BY Zenon DEF VoteQuorum
<1> QED BY <1>3, <1>4, MemberCounts DEF VoteQuorum

\* Where more votes are stored, more are counted.
LEMMA MoreCounted ==
    ASSUME TypeOK, TypeOK', MoreStored, NEW p \in Correct, NEW k \in Kind, NEW r \in Round,
           NEW h \in Value
    PROVE  /\ Cardinality(SigMap[p][k][r][h]) \in Int
           /\ Cardinality(SigMap'[p][k][r][h]) \in Int
           /\ Cardinality(SigMap[p][k][r][h]) <= Cardinality(SigMap'[p][k][r][h])
<1>1. SigMap'[p][k][r][h] \in SUBSET Members /\ SigMap[p][k][r][h] \in SUBSET SigMap'[p][k][r][h]
  BY DEF TypeOK, CountTypes, MoreStored
<1> QED BY <1>1, CountSubset, MemberCounts

\* A round that could be proved can still be once more votes are stored.
LEMMA KeepsProof ==
    ASSUME TypeOK, TypeOK', MoreStored, MoreSupported, NEW p \in Correct, NEW r \in Round,
           HasProof(p, r)
    PROVE  HasProof(p, r)'
<1> DEFINE h == supportedHash[p]["echo"][r]
<1>1. "echo" \in Kind /\ "commit" \in Kind /\ Zero \in Value /\ nmt \in Int
  BY Constants, MemberCounts
<1>2. CASE EchoProof(p, r)
  <2>1. h \in Hash /\ Cardinality(SigMap[p]["echo"][r][h]) >= nmt
    BY Zenon, <1>2 DEF EchoProof
  <2>2. h # Nil /\ h \in Value
    BY Zenon, <2>1, Constants
  <2>3. supportedHash'[p]["echo"][r] = h
    BY <1>1, <2>2 DEF MoreSupported
  <2> HIDE DEF h
  <2>4. Cardinality(SigMap'[p]["echo"][r][h]) >= nmt
    BY <1>1, <2>1, <2>2, MoreCounted
  <2> QED BY Zenon, <2>1, <2>3, <2>4 DEF HasProof, EchoProof
<1>3. CASE ZeroProof(p, r)
  <2>1. Cardinality(SigMap'[p]["commit"][r][Zero]) >= nmt
    BY <1>1, <1>3, MoreCounted DEF ZeroProof
  <2> QED BY <2>1 DEF HasProof, ZeroProof
<1> QED BY <1>2, <1>3 DEF HasProof

\* With the votes and the support unchanged, so is what depends only on them.
LEMMA KeepsVotes ==
    ASSUME Inv, UNCHANGED <<sent, SigMap, supportedHash, storing>>
    PROVE  /\ OneVote' /\ StoredSent' /\ CountsStored' /\ SupportStored'
           /\ CommitBacked' /\ EchoBacked'
           /\ \A p, r : HasProof(p, r)' <=> HasProof(p, r)
           /\ \A p : TwoDecisions(p)' <=> TwoDecisions(p)
<1>1. OneVote' /\ StoredSent' /\ CountsStored' /\ SupportStored' /\ CommitBacked' /\ EchoBacked'
  BY Zenon DEF Inv, OneVote, StoredSent, CountsStored, SupportStored, CommitBacked, EchoBacked,
         VoteQuorum, Signers
<1>2. \A p, r : HasProof(p, r)' <=> HasProof(p, r)
  BY DEF HasProof, EchoProof, ZeroProof
<1>3. \A p : TwoDecisions(p)' <=> TwoDecisions(p)
  BY DEF TwoDecisions
<1> QED BY <1>1, <1>2, <1>3

\* The invariant holds initially: nothing is sent, stored or decided.
LEMMA InitInv == Init => Inv
<1> SUFFICES ASSUME Init PROVE Inv
  OBVIOUS
<1>1. TypeOK
  BY InitTypeOK
<1>2. \A p \in Correct, k \in Kind, r \in Round, h \in Value :
         /\ sent[k][r][h] = {} /\ SigMap[p][k][r][h] = {} /\ supportedHash[p][k][r] = Nil
  BY DEF Init
<1>3. \A p \in Correct : /\ storing[p] = {} /\ SelfMessages[p] = <<>> /\ pc[p] = Recv
                         /\ cons[p] = InitCons /\ ~ panicked[p]
  BY DEF Init
<1>4. VoteFlags /\ OneVote
  BY Zenon, <1>2, Constants DEF VoteFlags, OneVote
<1>5. OwnSent /\ CountsStored /\ PanicCause
  BY <1>3 DEF OwnSent, CountsStored, PanicCause
<1>6. StoredSent
  BY Zenon, <1>2 DEF StoredSent
<1>7. SupportStored
  BY <1>2, Constants DEF SupportStored
<1>8. CommitBacked /\ EchoBacked
  <2>1. \A k \in Kind, r \in Round, h \in Value : sent[k][r][h] = {}
    BY DEF Init
  <2>2. CommitBacked
    BY <2>1, Constants DEF CommitBacked
  <2>3. EchoBacked
    BY <2>1, Constants DEF EchoBacked
  <2> QED BY <2>2, <2>3
<1>9. ProofsKept
  <2>1. \A p \in Correct : cons[p].round = 0
    BY <1>3 DEF InitCons
  <2>2. \A r \in Round : ~ (r < 0)
    BY MvCons2Assumption DEF Round
  <2> QED BY Zenon, <2>1, <2>2 DEF ProofsKept
<1>10. InRound /\ DecisionSupported
  BY <1>3 DEF InRound, DecisionSupported, InitCons, Recv
<1> QED BY Zenon, <1>1, <1>4, <1>5, <1>6, <1>7, <1>8, <1>9, <1>10 DEF Inv

\* The elements of a tail are those of the sequence, one place further on.
LEMMA SeqTail ==
    ASSUME NEW S, NEW s \in Seq(S), s # <<>>, NEW i \in 1..Len(Tail(s))
    PROVE  i + 1 \in 1..Len(s) /\ Tail(s)[i] = s[i + 1]
OBVIOUS

\* A node's own messages, once some are sent and the first may be gone.
LEMMA OwnSentTail ==
    ASSUME TypeOK, OwnSent, UNCHANGED sent,
           \A q \in Correct : \/ SelfMessages'[q] = SelfMessages[q]
                              \/ SelfMessages[q] # <<>> /\ SelfMessages'[q] = Tail(SelfMessages[q])
    PROVE  OwnSent'
<1> SUFFICES ASSUME NEW q \in Correct, NEW i \in 1..Len(SelfMessages'[q])
             PROVE  LET o == SelfMessages'[q][i] IN
                    IF o.kind = "init" THEN o.hash \in Hash ELSE q \in sent[o.kind][o.round][o.hash]
  BY Zenon DEF OwnSent
<1>1. SelfMessages[q] \in Seq(Messages)
  BY DEF TypeOK, LoopTypes
<1>2. \E j \in 1..Len(SelfMessages[q]) : SelfMessages'[q][i] = SelfMessages[q][j]
  <2>1. CASE SelfMessages'[q] = SelfMessages[q]
    BY Zenon, <2>1
  <2>2. CASE SelfMessages[q] # <<>> /\ SelfMessages'[q] = Tail(SelfMessages[q])
    <3>1. i + 1 \in 1..Len(SelfMessages[q]) /\ Tail(SelfMessages[q])[i] = SelfMessages[q][i + 1]
      BY <1>1, <2>2, SeqTail
    <3> QED BY Zenon, <2>2, <3>1
  <2> QED BY Zenon, <2>1, <2>2
<1> QED BY Zenon, <1>2 DEF OwnSent

\* A node adds a vote it has just sent, or a proposal, to its own messages.
LEMMA OwnSentAppend ==
    ASSUME TypeOK, OwnSent, NEW p \in Correct, NEW m \in Messages,
           IF m.kind = "init" THEN m.hash \in Hash ELSE p \in sent'[m.kind][m.round][m.hash],
           \A k \in Kind, r \in Round, h \in Value : sent[k][r][h] \subseteq sent'[k][r][h],
           SelfMessages' = [SelfMessages EXCEPT ![p] = Append(SelfMessages[p], m)]
    PROVE  OwnSent'
<1> SUFFICES ASSUME NEW q \in Correct, NEW i \in 1..Len(SelfMessages'[q])
             PROVE  LET o == SelfMessages'[q][i] IN
                    IF o.kind = "init" THEN o.hash \in Hash ELSE q \in sent'[o.kind][o.round][o.hash]
  BY Zenon DEF OwnSent
<1>1. SelfMessages[q] \in Seq(Messages)
  BY Zenon DEF TypeOK, LoopTypes
<1>2. \/ i \in 1..Len(SelfMessages[q]) /\ SelfMessages'[q][i] = SelfMessages[q][i]
      \/ q = p /\ SelfMessages'[q][i] = m
  <2>1. CASE q = p
    <3>1. SelfMessages'[p] = Append(SelfMessages[p], m)
      BY Zenon DEF TypeOK, LoopTypes
    <3> QED BY <1>1, <2>1, <3>1
  <2>2. CASE q # p
    BY Zenon, <2>2 DEF TypeOK, LoopTypes
  <2> QED BY Zenon, <2>1, <2>2
<1>3. CASE i \in 1..Len(SelfMessages[q]) /\ SelfMessages'[q][i] = SelfMessages[q][i]
  <2> DEFINE o == SelfMessages[q][i]
  <2>1. o \in Messages /\ IF o.kind = "init" THEN o.hash \in Hash ELSE q \in sent[o.kind][o.round][o.hash]
    <3>1. o \in Messages
      BY <1>1, <1>3
    <3>2. IF o.kind = "init" THEN o.hash \in Hash ELSE q \in sent[o.kind][o.round][o.hash]
      BY Zenon, <1>3 DEF OwnSent
    <3> QED BY Zenon, <3>1, <3>2
  <2>2. o.kind # "init" => o.kind \in Kind /\ o.round \in Round /\ o.hash \in Value
    BY Zenon, <2>1 DEF Messages
  <2>3. SelfMessages'[q][i] = o
    BY Zenon, <1>3
  <2> HIDE DEF o
  <2> QED BY Zenon, <2>1, <2>2, <2>3
<1>4. CASE q = p /\ SelfMessages'[q][i] = m
  BY Zenon, <1>4
<1> QED BY Zenon, <1>2, <1>3, <1>4

\* A step that neither sends, stores nor counts a vote keeps the invariant.
LEMMA QuietInv ==
    ASSUME Inv, TypeOK', NEW p \in Correct, Quiet(p)
    PROVE  Inv'
<1>1. UNCHANGED <<sent, SigMap, supportedHash, totalMsgCount, storing, panicked>>
  BY DEF Quiet, msgVars
<1>2. /\ OneVote' /\ StoredSent' /\ CountsStored' /\ SupportStored' /\ CommitBacked' /\ EchoBacked'
      /\ \A q, r : HasProof(q, r)' <=> HasProof(q, r)
      /\ \A q : TwoDecisions(q)' <=> TwoDecisions(q)
  BY <1>1, KeepsVotes
<1>3. OwnSent'
  BY Zenon, <1>1, OwnSentTail DEF Inv, Quiet
<1>4. ASSUME NEW q \in Correct PROVE cons[q] \in Cons /\ SameVotes(cons[q], cons'[q])
  <2>1. PICK u \in Cons : SameVotes(cons[p], u) /\ cons' = [cons EXCEPT ![p] = u]
    BY Zenon DEF Quiet
  <2>2. cons[q] \in Cons /\ SameVotes(cons[q], cons[q])
    BY Zenon DEF Inv, TypeOK, LoopTypes, SameVotes
  <2>3. cons'[q] = IF q = p THEN u ELSE cons[q]
    BY Zenon, <2>1 DEF Inv, TypeOK, LoopTypes
  <2> QED BY <2>1, <2>2, <2>3
<1>5. VoteFlags'
  BY <1>1, <1>4 DEF Inv, VoteFlags, SameVotes
<1>6. ProofsKept'
  BY Zenon, <1>2, <1>4 DEF Inv, ProofsKept, SameVotes
<1>7. InRound'
  <2> SUFFICES ASSUME NEW q \in Correct
               PROVE  /\ cons'[q].myProposalRound <= cons'[q].round
                      /\ pc'[q].at \in {"echo", "commit"} => pc'[q].r = cons'[q].round
    BY DEF InRound
  <2>1. /\ cons[q].myProposalRound <= cons[q].round
        /\ pc[q].at \in {"echo", "commit"} => pc[q].r = cons[q].round
    BY DEF Inv, InRound
  <2>2. /\ cons'[q].round = cons[q].round
        /\ cons'[q].myProposalRound \in {cons[q].myProposalRound, cons[q].round}
    BY Zenon, <1>4 DEF SameVotes
  <2>3. cons[q].round \in Nat
    BY <1>4, Constants DEF Cons
  <2>4. \/ pc'[q] = pc[q]
        \/ pc'[q].at \in {"echo", "commit"} => pc'[q].r = cons[q].round
    BY Zenon DEF Quiet
  <2> QED BY <2>1, <2>2, <2>3, <2>4
<1>8. DecisionSupported'
  BY <1>1, <1>4 DEF Inv, DecisionSupported, SameVotes
<1>9. PanicCause'
  <2>1. PanicCause
    BY Zenon DEF Inv
  <2> QED BY <1>1, <1>2, <2>1 DEF PanicCause
<1> QED BY Zenon, <1>2, <1>3, <1>5, <1>6, <1>7, <1>8, <1>9 DEF Inv

\* A node that may propose, having gone on to the round of s: it has all the proofs that needs.
LEMMA SpeaksInv ==
    ASSUME Inv, TypeOK', NEW p \in Correct, NEW s \in Cons, Speaks(p, s),
           UNCHANGED <<sent, SigMap, supportedHash, storing>>,
           s.decisionHash = cons[p].decisionHash, s.requestRecoverTimer = cons[p].requestRecoverTimer,
           s.roundState = cons[p].roundState, s.myProposalRound <= s.round,
           \A r \in Round : r < s.round => HasProof(p, r),
           \A q \in Correct : q # p => pc'[q] = pc[q],
           pc'[p].at \in {"echo", "commit"} => pc'[p].r = s.round
    PROVE  Inv'
<1>1. /\ OneVote' /\ StoredSent' /\ CountsStored' /\ SupportStored' /\ CommitBacked' /\ EchoBacked'
      /\ \A q, r : HasProof(q, r)' <=> HasProof(q, r)
      /\ \A q : TwoDecisions(q)' <=> TwoDecisions(q)
  BY Zenon, KeepsVotes
<1>2. PICK u \in Cons : /\ SameVotes(s, u)
                        /\ cons' = [cons EXCEPT ![p] = u]
                        /\ Proposes(p, u) \/ UNCHANGED <<init, SelfMessages, panicked>>
  BY Zenon DEF Speaks
<1>3. cons'[p] = u /\ \A q \in Correct : q # p => cons'[q] = cons[q]
  BY Zenon, <1>2 DEF Inv, TypeOK, LoopTypes
<1>4. /\ u.round = s.round /\ u.round \in Round /\ u.round \in Nat
      /\ u.myProposalRound \in Round /\ u.myProposalRound \in Nat
      /\ u.myProposalRound <= u.round
  <2>1. u.round = s.round /\ u.myProposalRound \in {s.myProposalRound, s.round}
    BY <1>2 DEF SameVotes
  <2>2. u.round \in Round /\ u.myProposalRound \in Round
    BY Zenon DEF Cons
  <2>3. u.round \in Nat /\ u.myProposalRound \in Nat
    BY Zenon, <2>2, Constants
  <2> QED BY <2>1, <2>2, <2>3
<1>5. UNCHANGED panicked
  <2>1. CASE Proposes(p, u)
    <3>1. ~ (u.myProposalRound > 0 /\ ~ HasProof(p, u.myProposalRound - 1))
      <4> SUFFICES ASSUME u.myProposalRound > 0 PROVE HasProof(p, u.myProposalRound - 1)
        OBVIOUS
      <4>1. u.myProposalRound - 1 \in Round
        BY Zenon, <1>4, Constants
      <4>2. u.myProposalRound - 1 < s.round
        BY <1>4
      <4> QED BY Zenon, <4>1, <4>2
    <3>2. panicked' = [panicked EXCEPT ![p] = panicked[p] \/
                        (u.myProposalRound > 0 /\ ~ HasProof(p, u.myProposalRound - 1))]
      BY <2>1, Zenon DEF Proposes
    <3>3. panicked \in [Correct -> BOOLEAN]
      BY Zenon DEF Inv, TypeOK, LoopTypes
    <3>4. (panicked[p] \/ (u.myProposalRound > 0 /\ ~ HasProof(p, u.myProposalRound - 1))) = panicked[p]
      BY <3>1, <3>3, Zenon
    <3> QED BY <3>2, <3>3, <3>4, Zenon
  <2>2. CASE UNCHANGED <<init, SelfMessages, panicked>>
    BY Zenon, <2>2
  <2> QED BY <1>2, <2>1, <2>2
<1>6. OwnSent'
  <2>1. CASE UNCHANGED SelfMessages
    BY Zenon, <2>1 DEF Inv, OwnSent
  <2>2. CASE SelfMessages' = [SelfMessages EXCEPT ![p] =
                                Append(SelfMessages[p], InitOf(u.myProposalRound, u.myProposal))]
             /\ u.myProposal \in Hash
    <3> DEFINE m == InitOf(u.myProposalRound, u.myProposal)
    <3>1. m \in Messages /\ m.kind = "init" /\ m.hash \in Hash
      BY Zenon, <1>4, <2>2 DEF InitOf, Messages, Value
    <3> HIDE DEF m
    <3> QED BY Zenon, <2>2, <3>1, OwnSentAppend DEF Inv, m
  <2> QED BY <1>2, <2>1, <2>2 DEF Proposes
<1>7. VoteFlags'
  <2>1. VoteFlags
    BY Zenon DEF Inv
  <2> QED BY <1>2, <1>3, <2>1 DEF VoteFlags, SameVotes
<1>8. ProofsKept'
  <2>1. ProofsKept
    BY Zenon DEF Inv
  <2> QED BY <1>1, <1>3, <1>4, <2>1 DEF ProofsKept
<1>9. InRound'
  <2>1. InRound
    BY Zenon DEF Inv
  <2> QED BY <1>3, <1>4, <2>1 DEF InRound
<1>10. DecisionSupported'
  <2>1. DecisionSupported
    BY Zenon DEF Inv
  <2> QED BY <1>2, <1>3, <2>1 DEF DecisionSupported, SameVotes
<1>11. PanicCause'
  BY Zenon, <1>1, <1>5 DEF Inv, PanicCause
<1> QED BY Zenon, <1>1, <1>6, <1>7, <1>8, <1>9, <1>10, <1>11 DEF Inv

\* Starting, and the proposal arriving from the application.
LEMMA ProposalInv ==
    ASSUME Inv, NEW p \in Correct, Start(p) \/ (\E h \in Hash : GotProposal(p, h)), UNCHANGED Coord
    PROVE  Inv'
<1>1. TypeOK'
  BY ProposalTypeOK DEF Inv
<1>2. Speaks(p, cons[p])
  BY StartSpeaks, GotProposalSpeaks DEF Inv
<1>3. UNCHANGED <<sent, SigMap, supportedHash, storing, pc>>
  BY Zenon DEF Start, GotProposal, msgVars
<1>4. /\ cons[p] \in Cons /\ cons[p].myProposalRound <= cons[p].round
      /\ \A r \in Round : r < cons[p].round => HasProof(p, r)
      /\ pc[p].at \in {"echo", "commit"} => pc[p].r = cons[p].round
  BY Zenon DEF Inv, TypeOK, LoopTypes, InRound, ProofsKept
<1> QED BY Zenon, <1>1, <1>2, <1>3, <1>4, SpeaksInv
=============================================================================
