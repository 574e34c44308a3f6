-------------------------- MODULE BinCons1_proofs --------------------------
(***************************************************************************)
(* BinCons1 is a correct binary consensus, for every number of members,    *)
(* rounds and threads: type correctness, the inductive invariant, what it  *)
(* implies, and that BinCons1 implements Consensus.                        *)
(***************************************************************************)
EXTENDS BinCons1, Members_proofs

\* Correct and faulty nodes are members of the committee.
LEMMA CorrectMembers == Correct \subseteq Members /\ Faulty \subseteq Members
BY MembersAssumption DEF Correct

\* The state of a fresh instance is well typed.
LEMMA InitTypeOK == Init => TypeOK
<1> SUFFICES ASSUME Init PROVE TypeOK
  OBVIOUS
<1> USE DEF Init
<1>1. /\ MaxRound \in Nat /\ 0 \in Rounds
      /\ 0 \in 0..GetMemberCount
  BY BinCons1Assumption, MemberCounts DEF Rounds
<1> QED BY <1>1 DEF TypeOK, VoteTypes, LoopTypes, DecisionTypes, NotDecided, Messages, Bin

\* What ProcessSelfMessage changes, with the message's round and value named.
StoresOwn(p, r, v) ==
    /\ SigMap' = [SigMap EXCEPT ![p][r][v] = SigMap[p][r][v] \cup {p}]
    /\ BinNums' = [BinNums EXCEPT ![p][r][v] =
                     MaxOf(BinNums[p][r][v], Cardinality(SigMap[p][r][v] \cup {p}))]
    /\ TotalBinMsgCount' = [TotalBinMsgCount EXCEPT ![p][r] =
         MaxOf(TotalBinMsgCount[p][r],
               Cardinality((SigMap[p][r][v] \cup {p}) \cup SigMap[p][r][1 - v]))]
    /\ checking' = [checking EXCEPT ![p] = IF terminated[p] THEN NoRound ELSE r]

IsOwnMessage(p, r, v) ==
    \E i \in 1..Len(SelfMessages[p]) : SelfMessages[p][i] = [round |-> r, val |-> v]

\* Handling an own message leaves the stored messages alone, or stores one own vote.
LEMMA SelfMessageEffect ==
    ASSUME TypeOK, NEW p \in Correct, ProcessSelfMessage(p)
    PROVE  \E r \in Rounds, v \in Bin :
             /\ IsOwnMessage(p, r, v)
             /\ UNCHANGED <<msgVars, checking>> \/ StoresOwn(p, r, v)
<1> DEFINE m == Head(SelfMessages[p])
<1>1. SelfMessages[p] \in Seq(Messages) /\ SelfMessages[p] # <<>>
  BY Zenon DEF ProcessSelfMessage, TypeOK, LoopTypes
<1>2. m \in Messages /\ 1 \in 1..Len(SelfMessages[p]) /\ m = SelfMessages[p][1]
  BY <1>1
<1>3. m.round \in Rounds /\ m.val \in Bin /\ m = [round |-> m.round, val |-> m.val]
  BY <1>2 DEF Messages
<1> USE <1>3
<1> HIDE DEF m
<1> WITNESS m.round \in Rounds, m.val \in Bin
<1>4. IsOwnMessage(p, m.round, m.val)
  BY <1>2, <1>3, SMTT(30) DEF IsOwnMessage
<1>5. UNCHANGED <<msgVars, checking>> \/ StoresOwn(p, m.round, m.val)
  BY Zenon DEF ProcessSelfMessage, StoresOwn, m
<1> QED BY <1>4, <1>5

\* What CheckRound changes in round r of node p when it returns true.
DecidesIn(p, r) ==
    IF Decides(p, r)
    THEN /\ Decided' = [Decided EXCEPT ![p] = Mod(r)]
         /\ decidedRound' = IF Decided[p] = NotDecided THEN [decidedRound EXCEPT ![p] = r]
                                                       ELSE decidedRound
    ELSE UNCHANGED <<Decided, decidedRound>>

SendsNext(p, r) ==
    /\ r < MaxRound /\ ~ sentProposal[p][r] /\ ValidCount(p, r) >= nmt
    /\ sent' = [sent EXCEPT ![r + 1][Est(p, r)] = sent[r + 1][Est(p, r)] \cup {p}]
    /\ SelfMessages' = [SelfMessages EXCEPT ![p] =
                          Append(SelfMessages[p], [round |-> r + 1, val |-> Est(p, r)])]
    /\ sentProposal' = [sentProposal EXCEPT ![p][r] = TRUE]
    /\ panicked' = [panicked EXCEPT ![p] =
                      panicked[p] \/ DecidePanic(p, r) \/ EstPanic(p, r)]

SendsNothing(p, r) ==
    /\ UNCHANGED <<sent, SelfMessages, sentProposal>>
    /\ panicked' = [panicked EXCEPT ![p] = panicked[p] \/ DecidePanic(p, r)]

\* The arithmetic of rounds: the round bit is binary, and the next round is a round.
LEMMA RoundFacts ==
    ASSUME NEW r \in Rounds
    PROVE  /\ r \in Nat /\ Mod(r) \in Bin /\ 1 - Mod(r) \in Bin
           /\ r < MaxRound => r + 1 \in Rounds
           /\ r # NoRound
BY BinCons1Assumption DEF Rounds, Mod, Bin, NoRound

\* The estimate a node sends for a round is binary.
LEMMA EstType == ASSUME NEW p, NEW r \in Rounds PROVE Est(p, r) \in Bin
BY RoundFacts DEF Est

\* What a check of a round that goes through does: a decision or none, a vote for the
\* next round or none, and nothing to the stored messages.
LEMMA CheckRoundEffect ==
    ASSUME TypeOK, NEW p \in Correct, CheckRoundReturnsTrue(p)
    PROVE  /\ checking[p] \in Rounds
           /\ DecidesIn(p, checking[p])
           /\ SendsNext(p, checking[p]) \/ SendsNothing(p, checking[p])
           /\ UNCHANGED <<msgVars, storing, queue, gotProposal>>
<1> DEFINE r == checking[p]
           first == Decides(p, r) /\ Decided[p] = NotDecided
           dec == IF Decides(p, r) THEN Mod(r) ELSE Decided[p]
           decRound == IF first THEN r ELSE decidedRound[p]
           skip == IF first THEN MaxUint32 ELSE r
           done == ReturnsDecided(p, r) \/ CheckDone(p, r, dec, decRound)
           waits == r > t /\ skip <= r /\ timeoutState[p][r] # "Passed"
           acts == ~ done /\ NotSent(p, r)
           sends == acts /\ ~ waits /\ ValidCount(p, r) >= nmt /\ r < MaxRound
<1>1. r \in Rounds
  BY Zenon DEF CheckRoundReturnsTrue, TypeOK, LoopTypes
<1>2. DecidesIn(p, r)
  <2>1. /\ Decided' = [Decided EXCEPT ![p] = dec]
        /\ decidedRound' = [decidedRound EXCEPT ![p] = decRound]
    BY Zenon DEF CheckRoundReturnsTrue
  <2>2. Decided \in [Correct -> Bin \cup {NotDecided}] /\ decidedRound \in [Correct -> Rounds]
    BY DEF TypeOK, DecisionTypes
  <2> QED BY <2>1, <2>2, Zenon DEF DecidesIn
<1>3. /\ sentProposal' = [sentProposal EXCEPT ![p][r] = sentProposal[p][r] \/ sends]
      /\ panicked' = [panicked EXCEPT ![p] =
                        panicked[p] \/ DecidePanic(p, r) \/ (sends /\ EstPanic(p, r))]
      /\ IF sends
         THEN /\ sent' = [sent EXCEPT ![r + 1][Est(p, r)] = sent[r + 1][Est(p, r)] \cup {p}]
              /\ SelfMessages' = [SelfMessages EXCEPT ![p] =
                   Append(SelfMessages[p], [round |-> r + 1, val |-> Est(p, r)])]
         ELSE UNCHANGED <<sent, SelfMessages>>
  BY Zenon DEF CheckRoundReturnsTrue
<1>4. sends => ~ sentProposal[p][r] /\ ValidCount(p, r) >= nmt /\ r < MaxRound
  BY DEF NotSent
<1> HIDE DEF sends, r
<1>5. ASSUME sends PROVE SendsNext(p, r)
  <2>1. sentProposal' = [sentProposal EXCEPT ![p][r] = TRUE]
    BY <1>3, <1>5, Zenon
  <2>2. panicked' = [panicked EXCEPT ![p] =
                       panicked[p] \/ DecidePanic(p, r) \/ EstPanic(p, r)]
    BY <1>3, <1>5, Zenon
  <2> QED BY <1>3, <1>4, <1>5, <2>1, <2>2, Zenon DEF SendsNext
<1>6. ASSUME ~ sends PROVE SendsNothing(p, r)
  <2>1. sentProposal \in [Correct -> [Rounds -> BOOLEAN]]
    BY DEF TypeOK, LoopTypes
  <2>2. sentProposal' = [sentProposal EXCEPT ![p][r] = sentProposal[p][r]]
    BY <1>1, <1>3, <1>6, <2>1, Zenon
  <2>3. sentProposal' = sentProposal
    BY <1>1, <2>1, <2>2
  <2>4. panicked' = [panicked EXCEPT ![p] = panicked[p] \/ DecidePanic(p, r)]
    BY <1>3, <1>6, Zenon
  <2> QED BY <1>3, <1>6, <2>3, <2>4, Zenon DEF SendsNothing
<1> QED BY <1>1, <1>2, <1>5, <1>6, SMTT(30) DEF CheckRoundReturnsTrue, r

-----------------------------------------------------------------------------
(* What an assignment to one entry of a table of a node does to the others. *)
Table(D) == [Correct -> [Rounds -> [Bin -> D]]]

Updated(g, f, p, r, v, x) == g = [f EXCEPT ![p][r][v] = x]

\* An assignment to the entry of a node, round and value changes that entry only.
LEMMA ValueUpdate ==
    ASSUME NEW D, NEW f \in Table(D), NEW g, NEW p \in Correct, NEW r \in Rounds, NEW v \in Bin,
           NEW x, Updated(g, f, p, r, v, x)
    PROVE  /\ g[p][r][v] = x
           /\ \A q \in Correct, s \in Rounds, w \in Bin :
                 (q # p \/ s # r \/ w # v) => g[q][s][w] = f[q][s][w]
BY DEF Table, Updated

RoundTable(D) == [Correct -> [Rounds -> D]]

RoundUpdated(g, f, p, r, x) == g = [f EXCEPT ![p][r] = x]

\* The same for a table without values.
LEMMA RoundUpdate ==
    ASSUME NEW D, NEW f \in RoundTable(D), NEW g, NEW p \in Correct, NEW r \in Rounds,
           NEW x, RoundUpdated(g, f, p, r, x)
    PROVE  /\ g[p][r] = x
           /\ \A q \in Correct, s \in Rounds : (q # p \/ s # r) => g[q][s] = f[q][s]
BY DEF RoundTable, RoundUpdated

\* StoreMsg adds the signers to the entry of its round and value.
LEMMA StoreMsgEntry ==
    ASSUME TypeOK, NEW p \in Correct, NEW r \in Rounds, NEW v \in Bin, NEW S, StoreMsg(p, r, v, S)
    PROVE  /\ SigMap'[p][r][v] = SigMap[p][r][v] \cup S
           /\ \A q \in Correct, s \in Rounds, w \in Bin :
                 (q # p \/ s # r \/ w # v) => SigMap'[q][s][w] = SigMap[q][s][w]
<1>1. /\ SigMap \in Table(SUBSET Members)
      /\ Updated(SigMap', SigMap, p, r, v, SigMap[p][r][v] \cup S)
  BY Zenon DEF StoreMsg, TypeOK, VoteTypes, Table, Updated
<1> QED BY <1>1, ValueUpdate

\* UpdateRound raises the two counters of its round, and no other.
LEMMA UpdateRoundEntry ==
    ASSUME TypeOK, NEW p \in Correct, NEW d \in storing[p], NEW r \in Rounds, NEW v \in Bin,
           d.round = r, d.val = v, UpdateRound(p, d)
    PROVE  /\ BinNums'[p][r][v] = MaxOf(BinNums[p][r][v], d.NewTotalSigCount)
           /\ \A q \in Correct, s \in Rounds, w \in Bin :
                 (q # p \/ s # r \/ w # v) => BinNums'[q][s][w] = BinNums[q][s][w]
           /\ TotalBinMsgCount'[p][r] = MaxOf(TotalBinMsgCount[p][r], d.NewMsgIDSigCount)
           /\ \A q \in Correct, s \in Rounds :
                 (q # p \/ s # r) => TotalBinMsgCount'[q][s] = TotalBinMsgCount[q][s]
<1>1. /\ BinNums \in Table(0..GetMemberCount)
      /\ Updated(BinNums', BinNums, p, r, v, MaxOf(BinNums[p][r][v], d.NewTotalSigCount))
  BY Zenon DEF UpdateRound, TypeOK, VoteTypes, Table, Updated
<1>2. /\ TotalBinMsgCount \in RoundTable(0..GetMemberCount)
      /\ RoundUpdated(TotalBinMsgCount', TotalBinMsgCount, p, r,
                      MaxOf(TotalBinMsgCount[p][r], d.NewMsgIDSigCount))
  BY Zenon DEF UpdateRound, TypeOK, VoteTypes, RoundTable, RoundUpdated
<1>3. /\ BinNums'[p][r][v] = MaxOf(BinNums[p][r][v], d.NewTotalSigCount)
      /\ \A q \in Correct, s \in Rounds, w \in Bin :
            (q # p \/ s # r \/ w # v) => BinNums'[q][s][w] = BinNums[q][s][w]
  BY <1>1, ValueUpdate
<1>4. /\ TotalBinMsgCount'[p][r] = MaxOf(TotalBinMsgCount[p][r], d.NewMsgIDSigCount)
      /\ \A q \in Correct, s \in Rounds :
            (q # p \/ s # r) => TotalBinMsgCount'[q][s] = TotalBinMsgCount[q][s]
  BY <1>2, RoundUpdate
<1> QED BY Zenon, <1>3, <1>4

\* The entries of the tables after a node's own message is stored and counted.
OwnStored(p, r, v) ==
    /\ SigMap'[p][r][v] = SigMap[p][r][v] \cup {p}
    /\ \A q \in Correct, s \in Rounds, w \in Bin :
          (q # p \/ s # r \/ w # v) => SigMap'[q][s][w] = SigMap[q][s][w]
    /\ BinNums'[p][r][v] = MaxOf(BinNums[p][r][v], Cardinality(SigMap[p][r][v] \cup {p}))
    /\ \A q \in Correct, s \in Rounds, w \in Bin :
          (q # p \/ s # r \/ w # v) => BinNums'[q][s][w] = BinNums[q][s][w]
    /\ TotalBinMsgCount'[p][r] =
          MaxOf(TotalBinMsgCount[p][r],
                Cardinality((SigMap[p][r][v] \cup {p}) \cup SigMap[p][r][1 - v]))
    /\ \A q \in Correct, s \in Rounds :
          (q # p \/ s # r) => TotalBinMsgCount'[q][s] = TotalBinMsgCount[q][s]

\* A node's own message is stored and counted in one step.
LEMMA StoresOwnEntry ==
    ASSUME TypeOK, NEW p \in Correct, NEW r \in Rounds, NEW v \in Bin, StoresOwn(p, r, v)
    PROVE  OwnStored(p, r, v)
<1> DEFINE stored == SigMap[p][r][v] \cup {p}
           num == MaxOf(BinNums[p][r][v], Cardinality(stored))
           total == MaxOf(TotalBinMsgCount[p][r], Cardinality(stored \cup SigMap[p][r][1 - v]))
<1>1. /\ SigMap \in Table(SUBSET Members) /\ Updated(SigMap', SigMap, p, r, v, stored)
      /\ BinNums \in Table(0..GetMemberCount) /\ Updated(BinNums', BinNums, p, r, v, num)
  BY Zenon DEF StoresOwn, TypeOK, VoteTypes, Table, Updated
<1>2. /\ TotalBinMsgCount \in RoundTable(0..GetMemberCount)
      /\ RoundUpdated(TotalBinMsgCount', TotalBinMsgCount, p, r, total)
  BY Zenon DEF StoresOwn, TypeOK, VoteTypes, RoundTable, RoundUpdated
<1> HIDE DEF stored, num, total
<1>3. /\ SigMap'[p][r][v] = stored
      /\ \A q \in Correct, s \in Rounds, w \in Bin :
            (q # p \/ s # r \/ w # v) => SigMap'[q][s][w] = SigMap[q][s][w]
  BY <1>1, ValueUpdate
<1>4. /\ BinNums'[p][r][v] = num
      /\ \A q \in Correct, s \in Rounds, w \in Bin :
            (q # p \/ s # r \/ w # v) => BinNums'[q][s][w] = BinNums[q][s][w]
  BY <1>1, ValueUpdate
<1>5. /\ TotalBinMsgCount'[p][r] = total
      /\ \A q \in Correct, s \in Rounds :
            (q # p \/ s # r) => TotalBinMsgCount'[q][s] = TotalBinMsgCount[q][s]
  BY <1>2, RoundUpdate
<1> QED BY Zenon, <1>3, <1>4, <1>5 DEF OwnStored, stored, num, total

\* Every step leaves every variable in its set.
LEMMA NextTypeOK == TypeOK /\ [Next]_vars => TypeOK'
<1>StoreMsgTypeOK.
    ASSUME TypeOK, NEW p \in Correct, NEW r \in Rounds, NEW v \in Bin,
           NEW S \in SUBSET Signers(r, v), StoreMsg(p, r, v, S)
    PROVE  TypeOK'
  <2> USE <1>StoreMsgTypeOK
  <2> DEFINE stored == SigMap[p][r][v] \cup S
             d == [round |-> r, val |-> v, NewTotalSigCount |-> Cardinality(stored),
                   NewMsgIDSigCount |-> Cardinality(stored \cup SigMap[p][r][1 - v])]
  <2>1. 1 - v \in Bin
    BY DEF Bin
  <2>2. stored \in SUBSET Members /\ stored \cup SigMap[p][r][1 - v] \in SUBSET Members
    <3>1. /\ sent[r][v] \in SUBSET Correct
          /\ SigMap[p][r][v] \in SUBSET Members
          /\ SigMap[p][r][1 - v] \in SUBSET Members
      BY <2>1 DEF TypeOK, VoteTypes
    <3> QED BY Zenon, <3>1, CorrectMembers DEF Signers
  <2>3. d \in Counts
    BY Zenon, <2>2, CountSubset DEF Counts
  <2>4. storing' \in [Correct -> SUBSET Counts]
    BY <2>3, Zenon DEF StoreMsg, TypeOK, VoteTypes
  <2>5. SigMap' \in [Correct -> [Rounds -> [Bin -> SUBSET Members]]]
    BY <2>2 DEF StoreMsg, TypeOK, VoteTypes
  <2> QED BY <2>4, <2>5, Zenon DEF StoreMsg, TypeOK, VoteTypes, LoopTypes, DecisionTypes, roundVars, decVars
<1>UpdateRoundTypeOK.
    ASSUME TypeOK, NEW p \in Correct, NEW d \in storing[p], UpdateRound(p, d)
    PROVE  TypeOK'
  <2> USE <1>UpdateRoundTypeOK
  <2>1. d \in Counts
    BY DEF TypeOK, VoteTypes
  <2>2. \A a, b \in 0..GetMemberCount : MaxOf(a, b) \in 0..GetMemberCount
    BY DEF MaxOf
  <2>3. BinNums' \in [Correct -> [Rounds -> [Bin -> 0..GetMemberCount]]]
    <3>1. BinNums[p][d.round][d.val] \in 0..GetMemberCount
      BY <2>1 DEF TypeOK, VoteTypes, Counts
    <3>2. BinNums' = [BinNums EXCEPT ![p][d.round][d.val] =
                        MaxOf(BinNums[p][d.round][d.val], d.NewTotalSigCount)]
      BY Zenon DEF UpdateRound
    <3>3. d.round \in Rounds /\ d.val \in Bin /\ d.NewTotalSigCount \in 0..GetMemberCount
      BY <2>1 DEF Counts
    <3>4. BinNums \in [Correct -> [Rounds -> [Bin -> 0..GetMemberCount]]]
      BY DEF TypeOK, VoteTypes
    <3>5. MaxOf(BinNums[p][d.round][d.val], d.NewTotalSigCount) \in 0..GetMemberCount
      BY <2>2, <3>1, <3>3, Zenon
    <3> QED BY Zenon, <3>2, <3>3, <3>4, <3>5
  <2>4. TotalBinMsgCount' \in [Correct -> [Rounds -> 0..GetMemberCount]]
    BY <2>1, <2>2, Zenon DEF UpdateRound, TypeOK, VoteTypes, Counts
  <2>5. storing' \in [Correct -> SUBSET Counts] /\ queue' \in [Correct -> SUBSET Rounds]
    BY <2>1 DEF UpdateRound, TypeOK, VoteTypes, LoopTypes, Counts
  <2> QED BY Zenon, <2>3, <2>4, <2>5 DEF UpdateRound, TypeOK, VoteTypes, LoopTypes, DecisionTypes, roundVars, decVars
<1>GotProposalTypeOK.
    ASSUME TypeOK, NEW p \in Correct, NEW v \in Bin, GotProposal(p, v)
    PROVE  TypeOK'
  <2> USE <1>GotProposalTypeOK
  <2>1. 0 \in Rounds /\ [round |-> 0, val |-> v] \in Messages
    BY BinCons1Assumption DEF Rounds, Messages
  <2>2. sent' \in [Rounds -> [Bin -> SUBSET Correct]]
    <3>1. sent \in [Rounds -> [Bin -> SUBSET Correct]] /\ sent[0][v] \cup {p} \in SUBSET Correct
      BY <2>1 DEF TypeOK, VoteTypes
    <3>2. sent' = sent \/ sent' = [sent EXCEPT ![0][v] = sent[0][v] \cup {p}]
      BY DEF GotProposal
    <3> QED BY <2>1, <3>1, <3>2
  <2>3. SelfMessages' \in [Correct -> Seq(Messages)]
    <3>1. /\ SelfMessages \in [Correct -> Seq(Messages)]
          /\ Append(SelfMessages[p], [round |-> 0, val |-> v]) \in Seq(Messages)
      BY <2>1 DEF TypeOK, LoopTypes
    <3>2. \/ SelfMessages' = SelfMessages
          \/ SelfMessages' = [SelfMessages EXCEPT ![p] =
                                Append(SelfMessages[p], [round |-> 0, val |-> v])]
      BY DEF GotProposal
    <3> QED BY <3>1, <3>2, Zenon
  <2> QED BY <2>2, <2>3, Zenon DEF GotProposal, TypeOK, VoteTypes, LoopTypes, DecisionTypes, msgVars, roundVars, decVars
<1>SelfMessageTypeOK.
    ASSUME TypeOK, NEW p \in Correct, ProcessSelfMessage(p)
    PROVE  TypeOK'
  <2> USE <1>SelfMessageTypeOK
  <2>1. SelfMessages' \in [Correct -> Seq(Messages)]
    <3>1. SelfMessages[p] \in Seq(Messages) /\ SelfMessages[p] # <<>>
      BY Zenon DEF ProcessSelfMessage, TypeOK, LoopTypes
    <3>2. Tail(SelfMessages[p]) \in Seq(Messages)
      BY <3>1, SMTT(30)
    <3> QED BY <3>2, Zenon DEF ProcessSelfMessage, TypeOK, LoopTypes
  <2>2. UNCHANGED <<sent, sentProposal, timeoutState, storing, queue, gotProposal, decVars>>
    BY Zenon DEF ProcessSelfMessage, roundVars
  <2>0. PICK r \in Rounds, v \in Bin : UNCHANGED <<msgVars, checking>> \/ StoresOwn(p, r, v)
    BY SelfMessageEffect
  <2>3. CASE UNCHANGED <<msgVars, checking>>
    BY Zenon, <2>1, <2>2, <2>3 DEF TypeOK, VoteTypes, LoopTypes, DecisionTypes, decVars, msgVars
  <2>4. CASE StoresOwn(p, r, v)
    <3>1. /\ SigMap[p][r][v] \in SUBSET Members /\ SigMap[p][r][1 - v] \in SUBSET Members
          /\ BinNums[p][r][v] \in 0..GetMemberCount
          /\ TotalBinMsgCount[p][r] \in 0..GetMemberCount
      BY DEF TypeOK, VoteTypes, Bin
    <3>2. SigMap[p][r][v] \cup {p} \in SUBSET Members
      BY <3>1, CorrectMembers
    <3>3. SigMap' \in [Correct -> [Rounds -> [Bin -> SUBSET Members]]]
      BY <3>2, <2>4 DEF TypeOK, VoteTypes, StoresOwn
    <3>4. \A a, b \in 0..GetMemberCount : MaxOf(a, b) \in 0..GetMemberCount
      BY DEF MaxOf
    <3>5. (SigMap[p][r][v] \cup {p}) \cup SigMap[p][r][1 - v] \in SUBSET Members
      BY Zenon, <3>1, <3>2
    <3>6. /\ MaxOf(BinNums[p][r][v], Cardinality(SigMap[p][r][v] \cup {p})) \in 0..GetMemberCount
          /\ MaxOf(TotalBinMsgCount[p][r],
                   Cardinality((SigMap[p][r][v] \cup {p}) \cup SigMap[p][r][1 - v]))
               \in 0..GetMemberCount
      BY <3>1, <3>2, <3>4, <3>5, CountSubset, Zenon
    <3>7. BinNums' \in [Correct -> [Rounds -> [Bin -> 0..GetMemberCount]]]
      BY <3>6, <2>4 DEF TypeOK, VoteTypes, StoresOwn
    <3>8. TotalBinMsgCount' \in [Correct -> [Rounds -> 0..GetMemberCount]]
      BY Zenon, <3>6, <2>4 DEF TypeOK, VoteTypes, StoresOwn
    <3>9. checking' \in [Correct -> Rounds \cup {NoRound}]
      BY Zenon, <2>4 DEF TypeOK, LoopTypes, StoresOwn
    <3> QED BY Zenon, <2>1, <2>2, <3>3, <3>7, <3>8, <3>9 DEF TypeOK, VoteTypes, LoopTypes, DecisionTypes, decVars
  <2> QED BY <2>0, <2>3, <2>4, SMTT(30)
<1>ProcessMessageTypeOK.
    ASSUME TypeOK, NEW p \in Correct, NEW r \in Rounds,
           ProcessMessage(p, r) \/ AuxProofTimeout(p, r)
    PROVE  TypeOK'
  <2> USE <1>ProcessMessageTypeOK
  <2>1. CASE ProcessMessage(p, r)
    BY Zenon, <2>1 DEF ProcessMessage, TypeOK, VoteTypes, LoopTypes, DecisionTypes, msgVars, roundVars, decVars
  <2>2. CASE AuxProofTimeout(p, r)
    BY Zenon, <2>2 DEF AuxProofTimeout, TypeOK, VoteTypes, LoopTypes, DecisionTypes, msgVars, roundVars, decVars
  <2> QED BY <2>1, <2>2
<1>CheckRoundTypeOK.
    ASSUME TypeOK, NEW p \in Correct, CheckRound(p)
    PROVE  TypeOK'
  <2> USE <1>CheckRoundTypeOK
  <2> DEFINE r == checking[p]
  <2>1. CASE CheckRoundReturnsFalse(p)
    <3>1. r \in Rounds
      BY Zenon, <2>1 DEF CheckRoundReturnsFalse, TypeOK, LoopTypes
    <3> QED BY Zenon, <2>1, <3>1 DEF CheckRoundReturnsFalse, TypeOK, VoteTypes, LoopTypes, DecisionTypes, msgVars, roundVars
  <2>2. CASE CheckRoundReturnsTrue(p)
    <3>1. /\ r \in Rounds /\ DecidesIn(p, r)
          /\ SendsNext(p, r) \/ SendsNothing(p, r)
          /\ UNCHANGED <<msgVars, storing, queue, gotProposal>>
      BY <2>2, CheckRoundEffect
    <3>2. Mod(r) \in Bin /\ Est(p, r) \in Bin /\ (r < MaxRound => r + 1 \in Rounds)
      BY <3>1, RoundFacts, EstType
    <3>3. checking' \in [Correct -> Rounds \cup {NoRound}]
      <4>1. checking' = [checking EXCEPT ![p] = IF r < MaxRound THEN r + 1 ELSE NoRound]
        BY Zenon, <2>2 DEF CheckRoundReturnsTrue
      <4>2. checking \in [Correct -> Rounds \cup {NoRound}]
        BY DEF TypeOK, LoopTypes
      <4> QED BY <3>2, <4>1, <4>2
    <3>4. /\ Decided' \in [Correct -> Bin \cup {NotDecided}]
          /\ decidedRound' \in [Correct -> Rounds]
      <4>1. Decided \in [Correct -> Bin \cup {NotDecided}] /\ decidedRound \in [Correct -> Rounds]
        BY DEF TypeOK, DecisionTypes
      <4>2. \/ Decided' = Decided
            \/ Decided' = [Decided EXCEPT ![p] = Mod(r)]
        BY <3>1 DEF DecidesIn
      <4>3. \/ decidedRound' = decidedRound
            \/ decidedRound' = [decidedRound EXCEPT ![p] = r]
        BY <3>1, SMTT(30) DEF DecidesIn
      <4> QED BY <3>1, <3>2, <4>1, <4>2, <4>3
    <3>5. SkipTimeoutRound' \in [Correct -> Rounds \cup {MaxUint32}]
      BY <2>2, <3>1, Zenon DEF CheckRoundReturnsTrue, TypeOK, DecisionTypes
    <3>6. timeoutState' \in [Correct -> [Rounds -> {"NotSent", "Sent", "Passed"}]]
      <4>1. \/ timeoutState' = [timeoutState EXCEPT ![p][r] = "Sent"]
            \/ timeoutState' = [timeoutState EXCEPT ![p][r] = timeoutState[p][r]]
        BY <2>2, Zenon DEF CheckRoundReturnsTrue
      <4>2. timeoutState \in [Correct -> [Rounds -> {"NotSent", "Sent", "Passed"}]]
        BY DEF TypeOK, LoopTypes
      <4> QED BY <3>1, <4>1, <4>2
    <3>7. terminated' \in [Correct -> BOOLEAN]
      <4>1. terminated \in [Correct -> BOOLEAN]
        BY DEF TypeOK, DecisionTypes
      <4>2. \E b \in BOOLEAN : terminated' = [terminated EXCEPT ![p] = b]
        BY <2>2, Zenon DEF CheckRoundReturnsTrue
      <4> QED BY <4>1, <4>2
    <3>8. panicked' \in [Correct -> BOOLEAN]
      <4>1. panicked \in [Correct -> BOOLEAN]
        BY DEF TypeOK, DecisionTypes
      <4>2. \E b \in BOOLEAN : panicked' = [panicked EXCEPT ![p] = b]
        BY <3>1, Zenon DEF SendsNext, SendsNothing
      <4> QED BY <4>1, <4>2
    <3>9. /\ sent' \in [Rounds -> [Bin -> SUBSET Correct]]
          /\ sentProposal' \in [Correct -> [Rounds -> BOOLEAN]]
      <4>1. /\ sent \in [Rounds -> [Bin -> SUBSET Correct]]
            /\ sentProposal \in [Correct -> [Rounds -> BOOLEAN]]
        BY DEF TypeOK, VoteTypes, LoopTypes
      <4>2. CASE SendsNext(p, r)
        <5>1. r + 1 \in Rounds
          BY Zenon, <3>2, <4>2 DEF SendsNext
        <5>2. /\ sent' = [sent EXCEPT ![r + 1][Est(p, r)] = sent[r + 1][Est(p, r)] \cup {p}]
              /\ sentProposal' = [sentProposal EXCEPT ![p][r] = TRUE]
          BY Zenon, <4>2 DEF SendsNext
        <5>3. sent[r + 1][Est(p, r)] \cup {p} \in SUBSET Correct
          BY <3>2, <4>1, <5>1
        <5> QED BY Zenon, <3>1, <3>2, <4>1, <5>1, <5>2, <5>3
      <4>3. CASE SendsNothing(p, r)
        BY <4>1, <4>3 DEF SendsNothing
      <4> QED BY <3>1, <4>2, <4>3
    <3>10. SelfMessages' \in [Correct -> Seq(Messages)]
      <4>1. SelfMessages \in [Correct -> Seq(Messages)]
        BY DEF TypeOK, LoopTypes
      <4>2. CASE SendsNext(p, r)
        <5>1. [round |-> r + 1, val |-> Est(p, r)] \in Messages
          BY Zenon, <4>2, <3>2 DEF SendsNext, Messages
        <5>2. Append(SelfMessages[p], [round |-> r + 1, val |-> Est(p, r)]) \in Seq(Messages)
          BY <4>1, <5>1
        <5> QED BY Zenon, <4>1, <4>2, <5>2 DEF SendsNext
      <4>3. CASE SendsNothing(p, r)
        BY <4>1, <4>3 DEF SendsNothing
      <4> QED BY <3>1, <4>2, <4>3
    <3> QED BY Zenon, <3>1, <3>3, <3>4, <3>5, <3>6, <3>7, <3>8, <3>9, <3>10 DEF TypeOK, VoteTypes, LoopTypes, DecisionTypes, msgVars
  <2> QED BY <2>1, <2>2 DEF CheckRound
<1> SUFFICES ASSUME TypeOK, [Next]_vars PROVE TypeOK'
  OBVIOUS
<1>1. CASE UNCHANGED vars
  BY Zenon, <1>1 DEF vars, TypeOK, VoteTypes, LoopTypes, DecisionTypes
<1>2. CASE Next
  <2>1. PICK p \in Correct : GotMsg(p) \/ MainLoop(p)
    BY <1>2 DEF Next
  <2>2. CASE GotMsg(p)
    BY <2>2, <1>StoreMsgTypeOK, <1>UpdateRoundTypeOK DEF GotMsg
  <2>3. CASE MainLoop(p)
    BY <2>3, <1>GotProposalTypeOK, <1>SelfMessageTypeOK, <1>ProcessMessageTypeOK, <1>CheckRoundTypeOK
    DEF MainLoop
  <2> QED BY <2>1, <2>2, <2>3
<1> QED BY <1>1, <1>2

\* Every reachable state of every instance is well typed; in particular no counter of a
\* round exceeds the number of members, whatever signatures arrive in what order.
THEOREM TypeCorrect == Spec => []TypeOK
BY InitTypeOK, NextTypeOK, PTL DEF Spec

-----------------------------------------------------------------------------
(* Safety.  The inductive invariant Inv relates what a node has counted to *)
(* what was sent.  Its core is Locked: a correct node sends, in a round    *)
(* after r, the value that cannot be decided in r only if n-t members have *)
(* signed that value in r - and then no n-t members can have signed the    *)
(* other one.                                                              *)
HasQuorum(r, v) == Cardinality(Signers(r, v)) >= nmt

\* A correct node sends one message per round, when it sets the flag for it.
SentFlags ==
    \A p \in Correct, r \in Rounds, v \in Bin :
        p \in sent[r][v] => IF r = 0 THEN gotProposal[p] ELSE sentProposal[p][r - 1]

SelfSent ==
    \A p \in Correct : \A i \in 1..Len(SelfMessages[p]) :
        p \in sent[SelfMessages[p][i].round][SelfMessages[p][i].val]

\* What is stored was signed, and what is counted is stored.
StoredSent ==
    \A p \in Correct, r \in Rounds, v \in Bin : SigMap[p][r][v] \subseteq Signers(r, v)

CountsStored ==
    \A p \in Correct :
        /\ \A r \in Rounds, v \in Bin : BinNums[p][r][v] <= Cardinality(SigMap[p][r][v])
        /\ \A d \in storing[p] : d.NewTotalSigCount <= Cardinality(SigMap[p][d.round][d.val])

Locked ==
    \A r, s \in Rounds, v \in Bin :
        1 <= r /\ r < s /\ v # r % 2 /\ sent[s][v] # {} => HasQuorum(r, v)

Proposed == \A r \in Rounds, v \in Bin : sent[r][v] # {} => sent[0][v] # {}

DecidedQuorum ==
    \A p \in Correct : Decided[p] # NotDecided =>
        /\ decidedRound[p] >= 1
        /\ Decided[p] = decidedRound[p] % 2
        /\ HasQuorum(decidedRound[p], Decided[p])

Inv == /\ TypeOK /\ SentFlags /\ OneValuePerRound /\ SelfSent /\ StoredSent /\ CountsStored
       /\ Locked /\ Proposed /\ DecidedQuorum /\ NoPanic

\* Those who may have signed a value are members.
LEMMA SignersMembers ==
    ASSUME TypeOK, NEW r \in Rounds, NEW v \in Bin
    PROVE  Signers(r, v) \in SUBSET Members
<1>1. sent[r][v] \in SUBSET Correct
  BY DEF TypeOK, VoteTypes
<1> QED BY <1>1, CorrectMembers DEF Signers

\* Enough signatures of a value come from a correct node; two quorums for the two values
\* of a round would need a correct node that sent both.
LEMMA CorrectSender ==
    ASSUME TypeOK, NEW r \in Rounds, NEW v \in Bin, Cardinality(Signers(r, v)) > t
    PROVE  sent[r][v] # {}
<1>1. \E p \in Correct : p \in Signers(r, v)
  BY SignersMembers, ManyHaveCorrect
<1> QED BY <1>1 DEF Signers, Correct

\* A quorum holds a correct node, because n - t > t.
LEMMA QuorumSender ==
    ASSUME TypeOK, NEW r \in Rounds, NEW v \in Bin, HasQuorum(r, v)
    PROVE  sent[r][v] # {}
<1>1. Cardinality(Signers(r, v)) \in Nat
  BY SignersMembers, CountSubset
<1>2. Cardinality(Signers(r, v)) > t
  BY <1>1, MemberCounts DEF HasQuorum
<1> QED BY <1>2, CorrectSender

\* Two quorums of one round share a correct node, which voted once: they are of one value.
LEMMA NoTwoQuorums ==
    ASSUME TypeOK, OneValuePerRound, NEW r \in Rounds, HasQuorum(r, 0), HasQuorum(r, 1)
    PROVE  FALSE
<1>1. Signers(r, 0) \in SUBSET Members /\ Signers(r, 1) \in SUBSET Members
  BY SignersMembers DEF Bin
<1>2. PICK p \in Correct : p \in Signers(r, 0) /\ p \in Signers(r, 1)
  BY <1>1, QuorumsMeet DEF HasQuorum
<1>3. p \in sent[r][0] \cap sent[r][1]
  BY <1>2 DEF Signers, Correct
<1> QED BY <1>3 DEF OneValuePerRound

\* Nothing that was sent is taken back.
SentGrows == \A r \in Rounds, v \in Bin : sent[r][v] \subseteq sent'[r][v]

\* What getValids implies of the signatures that exist.
Backed(r, v) ==
    \/ r \in {1, 2} /\ (r = 2 => v = 1) /\ Cardinality(Signers(0, v)) > t
    \/ \E q \in Rounds : q < r /\ q >= r - 2 /\ q % 2 # v /\ HasQuorum(q, v)

\* A counter counts no more than the nodes that may have signed its value.
LEMMA CountBacked ==
    ASSUME TypeOK, StoredSent, CountsStored, NEW p \in Correct, NEW r \in Rounds, NEW v \in Bin
    PROVE  /\ BinNums[p][r][v] \in Nat
           /\ BinNums[p][r][v] <= Cardinality(Signers(r, v))
           /\ Cardinality(Signers(r, v)) \in Nat
<1>1. BinNums[p][r][v] \in 0..GetMemberCount
  BY DEF TypeOK, VoteTypes
<1>2. BinNums[p][r][v] <= Cardinality(SigMap[p][r][v])
  BY DEF CountsStored
<1>3. SigMap[p][r][v] \in SUBSET Signers(r, v)
  BY DEF StoredSent
<1>4. /\ Cardinality(SigMap[p][r][v]) \in Nat /\ Cardinality(Signers(r, v)) \in Nat
      /\ Cardinality(SigMap[p][r][v]) <= Cardinality(Signers(r, v))
  BY <1>3, SignersMembers, CountSubset
<1> QED BY <1>1, <1>2, <1>4

\* Two rounds in which a decision is possible allow the same decision.
LEMMA DecisionsAgree ==
    ASSUME Inv, NEW r \in Rounds, NEW s \in Rounds, 1 <= r, 1 <= s,
           HasQuorum(r, r % 2), HasQuorum(s, s % 2)
    PROVE  r % 2 = s % 2
<1>1. ASSUME NEW a \in Rounds, NEW b \in Rounds, 1 <= a, a < b, a % 2 # b % 2,
             HasQuorum(a, a % 2), HasQuorum(b, b % 2)
      PROVE  FALSE
  <2>1. a % 2 \in Bin /\ b % 2 \in Bin
    BY <1>1 DEF Rounds, Bin
  <2>2. sent[b][b % 2] # {}
    BY <1>1, <2>1, QuorumSender DEF Inv
  <2>3. HasQuorum(a, b % 2)
    BY <1>1, <2>1, <2>2 DEF Inv, Locked
  <2>4. HasQuorum(a, 0) /\ HasQuorum(a, 1)
    <3>1. (a % 2 = 0 /\ b % 2 = 1) \/ (a % 2 = 1 /\ b % 2 = 0)
      BY <1>1, <2>1 DEF Bin
    <3>2. CASE a % 2 = 0 /\ b % 2 = 1
      BY <1>1, <2>3, <3>2
    <3>3. CASE a % 2 = 1 /\ b % 2 = 0
      BY <1>1, <2>3, <3>3
    <3> QED BY <3>1, <3>2, <3>3
  <2> QED BY <1>1, <2>4, NoTwoQuorums DEF Inv
<1>2. r < s \/ s < r \/ r = s
  BY DEF Rounds
<1>3. CASE r < s
  BY <1>1, <1>3
<1>4. CASE s < r
  BY <1>1, <1>4
<1> QED BY <1>2, <1>3, <1>4

\* The test under which checkRound decides holds only behind a quorum for the round bit.
LEMMA DecidesQuorum ==
    ASSUME Inv, NEW p \in Correct, NEW r \in Rounds, Decides(p, r)
    PROVE  1 <= r /\ Mod(r) = r % 2 /\ Mod(r) \in Bin /\ HasQuorum(r, Mod(r))
<1>1. 1 <= r /\ Mod(r) = r % 2 /\ Mod(r) \in Bin
  BY RoundFacts DEF Decides, Mod
<1>2. BinNums[p][r][Mod(r)] >= nmt
  BY DEF Decides
<1>3. /\ BinNums[p][r][Mod(r)] \in Nat /\ Cardinality(Signers(r, Mod(r))) \in Nat
      /\ BinNums[p][r][Mod(r)] <= Cardinality(Signers(r, Mod(r)))
  BY Zenon, <1>1, CountBacked DEF Inv
<1> QED BY <1>1, <1>2, <1>3, MemberCounts DEF HasQuorum

\* The panic of a second, different decision is not reached.
LEMMA NoDecidePanic ==
    ASSUME Inv, NEW p \in Correct, NEW r \in Rounds
    PROVE  ~ DecidePanic(p, r)
<1> SUFFICES ASSUME DecidePanic(p, r) PROVE FALSE
  OBVIOUS
<1>1. 1 <= r /\ Mod(r) = r % 2 /\ Mod(r) \in Bin /\ HasQuorum(r, Mod(r))
  BY DecidesQuorum DEF DecidePanic
<1>2. CASE Decided[p] \notin {NotDecided, Mod(r)}
  <2>1. /\ decidedRound[p] \in Rounds /\ decidedRound[p] >= 1
        /\ Decided[p] = decidedRound[p] % 2
        /\ HasQuorum(decidedRound[p], Decided[p])
    BY Zenon, <1>2 DEF Inv, DecidedQuorum, TypeOK, DecisionTypes
  <2>2. decidedRound[p] % 2 = r % 2
    BY <1>1, <2>1, DecisionsAgree
  <2> QED BY <1>1, <1>2, <2>1, <2>2
<1>3. CASE BinNums[p][r][1 - Mod(r)] >= nmt
  <2>1. 1 - Mod(r) \in Bin
    BY <1>1 DEF Bin
  <2>2. /\ BinNums[p][r][1 - Mod(r)] \in Nat /\ Cardinality(Signers(r, 1 - Mod(r))) \in Nat
        /\ BinNums[p][r][1 - Mod(r)] <= Cardinality(Signers(r, 1 - Mod(r)))
    BY Zenon, <2>1, CountBacked DEF Inv
  <2>3. HasQuorum(r, 1 - Mod(r))
    BY <1>3, <2>2, MemberCounts DEF HasQuorum
  <2>4. HasQuorum(r, 0) /\ HasQuorum(r, 1)
    <3>1. CASE Mod(r) = 0
      <4>1. 1 - Mod(r) = 1
        BY <3>1
      <4> QED BY <1>1, <2>3, <3>1, <4>1
    <3>2. CASE Mod(r) = 1
      <4>1. 1 - Mod(r) = 0
        BY <3>2
      <4> QED BY <1>1, <2>3, <3>2, <4>1
    <3> QED BY <1>1, <3>1, <3>2 DEF Bin
  <2> QED BY <2>4, NoTwoQuorums DEF Inv
<1> QED BY <1>2, <1>3 DEF DecidePanic

\* The strengthening Inv (what the message states, the estimates and the decisions of the
\* correct nodes may be in each round) is an invariant: CheckRound, GotMsg and the timers keep it.
THEOREM Invariance == Spec => []Inv
<1>QuorumStays.
    ASSUME TypeOK, TypeOK', SentGrows, NEW r \in Rounds, NEW v \in Bin, HasQuorum(r, v)
    PROVE  HasQuorum(r, v)'
  <2> USE <1>QuorumStays
  <2>1. Signers(r, v) \in SUBSET Signers(r, v)'
    BY DEF SentGrows, Signers
  <2>2. Signers(r, v)' \in SUBSET Members
    <3>1. sent'[r][v] \in SUBSET Correct
      BY DEF TypeOK, VoteTypes
    <3> QED BY <3>1, CorrectMembers DEF Signers
  <2>3. /\ Cardinality(Signers(r, v)) \in Nat /\ Cardinality(Signers(r, v)') \in Nat
        /\ Cardinality(Signers(r, v)) <= Cardinality(Signers(r, v)')
    BY <2>1, <2>2, CountSubset
  <2> QED BY <2>3, MemberCounts DEF HasQuorum
<1>ValidBacked.
    ASSUME TypeOK, StoredSent, CountsStored, NEW p \in Correct, NEW r \in Rounds, r >= 1,
           NEW v \in Bin, getValids(p, r, v)
    PROVE  Backed(r, v)
  <2> USE <1>ValidBacked
  <2>1. MaxRound \in Nat /\ r \in Nat /\ 0 \in Rounds
        /\ (r >= 2 => r - 1 \in Rounds /\ r - 2 \in Rounds)
    BY BinCons1Assumption DEF Rounds
  <2>2. t \in Nat /\ nmt \in Nat
    BY MemberCounts
  <2>3. ASSUME BinNums[p][0][v] > t, r \in {1, 2}, r = 2 => v = 1
        PROVE  Backed(r, v)
    <3>1. Cardinality(Signers(0, v)) > t
      BY <2>1, <2>2, <2>3, CountBacked
    <3> QED BY <2>3, <3>1 DEF Backed
  <2>4. ASSUME NEW q \in Rounds, q < r, q >= r - 2, q % 2 # v, BinNums[p][q][v] >= nmt
        PROVE  Backed(r, v)
    <3>1. HasQuorum(q, v)
      BY <2>2, <2>4, CountBacked DEF HasQuorum
    <3> QED BY <2>4, <3>1 DEF Backed
  <2>5. CASE r = 1 /\ BinNums[p][0][v] > t
    BY <2>3, <2>5
  <2>6. CASE r = 2 /\ v = 1 /\ BinNums[p][0][1] > t
    BY <2>3, <2>6
  <2>7. CASE r >= 2 /\ v = (r - 1) % 2 /\ BinNums[p][r - 2][v] >= nmt
    <3>1. (r - 2) % 2 # v
      BY <2>1, <2>7
    <3> QED BY <2>1, <2>4, <2>7, <3>1
  <2>8. CASE r >= 2 /\ v # (r - 1) % 2 /\ BinNums[p][r - 1][v] >= nmt
    BY <2>1, <2>4, <2>8
  <2> QED BY <2>1, <2>5, <2>6, <2>7, <2>8 DEF getValids
  \* CheckRound picks an estimate that is valid in the next round, and none of the sanity
  \* checks on the way to the broadcast fails.
<1>EstValid.
    ASSUME TypeOK, CountsStored, NEW p \in Correct, NEW r \in Rounds, r < MaxRound,
           ValidCount(p, r) >= nmt
    PROVE  getValids(p, r + 1, Est(p, r)) /\ ~ EstPanic(p, r)
  <2> USE <1>EstValid
  <2> DEFINE m == Mod(r)
             nm == 1 - Mod(r)
  <2>1. r \in Nat /\ m \in Bin /\ nm \in Bin /\ m # nm /\ r + 1 \in Rounds
    BY RoundFacts DEF Bin
  <2>2. t \in Nat /\ nmt \in Nat /\ nmt > 2 * t
    BY MemberCounts
  <2>3. BinNums[p][r][m] \in Nat /\ BinNums[p][r][nm] \in Nat
    BY <2>1 DEF TypeOK, VoteTypes
  <2>4. \/ m = 1 /\ nm = 0
        \/ m = 0 /\ nm = 1
    BY <2>1 DEF Bin
  <2>5. ValidCount(p, r) = (IF getValids(p, r, m) THEN BinNums[p][r][m] ELSE 0)
                           + (IF getValids(p, r, nm) THEN BinNums[p][r][nm] ELSE 0)
    BY <2>3, <2>4 DEF ValidCount
  <2>6. /\ ~ Prefers1(p, r) /\ ~ Prefers2(p, r) =>
             getValids(p, r, nm) /\ getValids(p, r + 1, nm) /\ BinNums[p][r][nm] # 0
    <3> SUFFICES ASSUME ~ Prefers1(p, r), ~ Prefers2(p, r)
                 PROVE  getValids(p, r, nm) /\ getValids(p, r + 1, nm) /\ BinNums[p][r][nm] # 0
      OBVIOUS
    <3>1. CASE r = 0
      <4>1. m = 1 /\ nm = 0 /\ getValids(p, 0, 0) /\ getValids(p, 0, 1)
        BY <3>1 DEF Mod, getValids
      <4>2. BinNums[p][0][0] + BinNums[p][0][1] >= nmt
        BY <3>1, <4>1 DEF ValidCount
      <4>3. BinNums[p][0][1] <= t
        BY <2>2, <2>3, <3>1, <4>1 DEF Prefers2, getValids
      <4>4. BinNums[p][0][0] > t
        BY <2>2, <2>3, <3>1, <4>1, <4>2, <4>3
      <4> QED BY <2>2, <2>3, <3>1, <4>1, <4>4 DEF getValids
    <3>2. CASE r > 0
      <4>1. m = r % 2
        BY <3>2 DEF Mod
      <4>2. getValids(p, r, m) => getValids(p, r + 1, m)
        <5>1. m # (r - 1) % 2 /\ m = ((r + 1) - 1) % 2 /\ (r + 1) - 2 = r - 1
          BY <2>1, <3>2, <4>1
        <5>2. CASE r = 1
          BY <4>1, <5>2 DEF getValids
        <5>3. CASE r >= 2
          <6>1. r = 2 => m # 1
            BY <4>1
          <6> HIDE DEF m
          <6>2. getValids(p, r, m) => BinNums[p][r - 1][m] >= nmt
            BY <5>1, <5>3, <6>1 DEF getValids
          <6>3. BinNums[p][r - 1][m] >= nmt => getValids(p, r + 1, m)
            BY <2>1, <5>1, <5>3 DEF getValids
          <6> QED BY <6>2, <6>3
        <5> QED BY <2>1, <3>2, <5>2, <5>3
      <4>3. getValids(p, r, nm) /\ BinNums[p][r][nm] >= nmt
        BY <2>1, <2>2, <2>3, <2>5, <4>2 DEF Prefers2
      <4>4. getValids(p, r + 1, nm)
        BY <2>1, <2>4, <3>2, <4>1, <4>3 DEF getValids
      <4> QED BY <2>2, <2>3, <4>3, <4>4
    <3> QED BY <2>1, <3>1, <3>2
  <2>7. getValids(p, r + 1, Est(p, r))
    BY Zenon, <2>6 DEF Est, Prefers1, Prefers2
  <2>8. GenerateProofs(p, r + 1, Est(p, r))
    <3> DEFINE v == Est(p, r)
               k == IF r + 1 >= 2 /\ v = ((r + 1) - 1) % 2 THEN (r + 1) - 2 ELSE (r + 1) - 1
    <3>1. v \in Bin /\ k \in Rounds
      BY <2>1, EstType, BinCons1Assumption DEF Rounds
    <3>2. /\ BinNums[p][k][v] \in Nat /\ Cardinality(SigMap[p][k][v]) \in Nat
          /\ BinNums[p][k][v] <= Cardinality(SigMap[p][k][v])
      <4>1. SigMap[p][k][v] \in SUBSET Members /\ BinNums[p][k][v] \in 0..GetMemberCount
        BY <3>1 DEF TypeOK, VoteTypes
      <4>2. BinNums[p][k][v] <= Cardinality(SigMap[p][k][v])
        BY Zenon, <3>1 DEF CountsStored
      <4> QED BY <4>1, <4>2, CountSubset
    <3>3. BinNums[p][k][v] >= nmt \/ ((r + 1 = 1 \/ (r + 1 = 2 /\ v = 1)) /\ BinNums[p][k][v] > t)
      <4>1. /\ r + 1 # 0 /\ (r + 1 = 1 => r = 0) /\ (r + 1 >= 2 <=> r >= 1)
            /\ (r + 1) - 1 = r /\ (r + 1) - 2 = r - 1
        BY <2>1
      <4>2. getValids(p, r + 1, v)
        BY <2>7
      <4> HIDE DEF v
      <4>3. \/ r + 1 = 1 /\ BinNums[p][0][v] > t
            \/ r + 1 = 2 /\ v = 1 /\ BinNums[p][0][v] > t
            \/ r + 1 >= 2 /\ v = ((r + 1) - 1) % 2 /\ BinNums[p][(r + 1) - 2][v] >= nmt
            \/ r + 1 >= 2 /\ v # ((r + 1) - 1) % 2 /\ BinNums[p][(r + 1) - 1][v] >= nmt
        BY Zenon, <2>1, <4>1, <4>2 DEF getValids
      <4>4. CASE r + 1 = 1 /\ BinNums[p][0][v] > t
        BY <2>1, <4>4
      <4>5. CASE r + 1 = 2 /\ v = 1 /\ BinNums[p][0][v] > t
        <5>1. r = 1 /\ k = 0
          BY <2>1, <4>5
        <5> QED BY <4>5, <5>1
      <4> QED BY Zenon, <4>3, <4>4, <4>5
    <3>4. BinNums[p][k][v] # 0 /\ Cardinality(SigMap[p][k][v]) >=
                                     IF r + 1 = 1 \/ (r + 1 = 2 /\ v = 1) THEN t ELSE nmt
      <4> HIDE DEF k, v
      <4> QED BY <2>2, <3>2, <3>3
    <3> QED BY <3>4, Zenon DEF GenerateProofs
  <2> QED BY <2>6, <2>7, <2>8 DEF EstPanic
<1>InitInv. Init => Inv
  <2> SUFFICES ASSUME Init PROVE Inv
    OBVIOUS
  <2>1. TypeOK
    BY InitTypeOK
  <2>2. Cardinality({}) = 0
    BY FS_EmptySet
  <2>3. 0 \in Rounds
    BY BinCons1Assumption DEF Rounds
  <2>4. SentFlags /\ OneValuePerRound /\ Locked /\ Proposed /\ DecidedQuorum /\ NoPanic
    BY <2>3 DEF Init, SentFlags, OneValuePerRound, Locked, Proposed, DecidedQuorum, NoPanic, Bin
  <2>5. SelfSent /\ StoredSent /\ CountsStored
    BY <2>2 DEF Init, SelfSent, StoredSent, CountsStored
  <2> QED BY <2>1, <2>4, <2>5 DEF Inv
<1>StoreMsgInv.
    ASSUME Inv, TypeOK', NEW p \in Correct, NEW r \in Rounds, NEW v \in Bin,
           NEW S \in SUBSET Signers(r, v), StoreMsg(p, r, v, S)
    PROVE  Inv'
  <2> USE <1>StoreMsgInv
  <2>1. TypeOK /\ TypeOK'
    BY DEF Inv
  <2>2. UNCHANGED <<sent, BinNums, sentProposal, gotProposal, SelfMessages, Decided, decidedRound,
                    panicked>>
    BY Zenon DEF StoreMsg, roundVars, decVars
  <2>3. SigMap' = [SigMap EXCEPT ![p][r][v] = SigMap[p][r][v] \cup S]
    BY Zenon DEF StoreMsg
  <2>4. \A q \in Correct, s \in Rounds, w \in Bin :
           /\ SigMap[q][s][w] \in SUBSET SigMap'[q][s][w]
           /\ SigMap'[q][s][w] \in SUBSET Signers(s, w)
    <3> SUFFICES ASSUME NEW q \in Correct, NEW s \in Rounds, NEW w \in Bin
                 PROVE  /\ SigMap[q][s][w] \in SUBSET SigMap'[q][s][w]
                        /\ SigMap'[q][s][w] \in SUBSET Signers(s, w)
      BY Zenon
    <3>1. /\ SigMap'[p][r][v] = SigMap[p][r][v] \cup S
          /\ (q # p \/ s # r \/ w # v) => SigMap'[q][s][w] = SigMap[q][s][w]
      BY <2>1, StoreMsgEntry
    <3>2. SigMap'[q][s][w] = IF q = p /\ s = r /\ w = v THEN SigMap[p][r][v] \cup S
                                                        ELSE SigMap[q][s][w]
      BY Zenon, <3>1
    <3>3. SigMap[q][s][w] \subseteq Signers(s, w)
      BY DEF Inv, StoredSent
    <3> QED BY Zenon, <3>2, <3>3
  <2>5. StoredSent'
    BY <2>2, <2>4, Zenon DEF StoredSent, Signers
  <2>6. CountsStored'
    <3>1. \A q \in Correct, s \in Rounds, w \in Bin :
             /\ Cardinality(SigMap[q][s][w]) <= Cardinality(SigMap'[q][s][w])
             /\ Cardinality(SigMap[q][s][w]) \in Nat /\ Cardinality(SigMap'[q][s][w]) \in Nat
      <4> SUFFICES ASSUME NEW q \in Correct, NEW s \in Rounds, NEW w \in Bin
                   PROVE  /\ Cardinality(SigMap[q][s][w]) <= Cardinality(SigMap'[q][s][w])
                          /\ Cardinality(SigMap[q][s][w]) \in Nat
                          /\ Cardinality(SigMap'[q][s][w]) \in Nat
        BY Zenon
      <4>1. SigMap'[q][s][w] \in SUBSET Members
        BY <2>1 DEF TypeOK, VoteTypes
      <4>2. SigMap[q][s][w] \in SUBSET SigMap'[q][s][w]
        BY <2>4, Zenon
      <4> QED BY <4>1, <4>2, CountSubset
    <3>2. \A q \in Correct, s \in Rounds, w \in Bin :
             BinNums'[q][s][w] <= Cardinality(SigMap'[q][s][w])
      <4> SUFFICES ASSUME NEW q \in Correct, NEW s \in Rounds, NEW w \in Bin
                   PROVE  BinNums'[q][s][w] <= Cardinality(SigMap'[q][s][w])
        OBVIOUS
      <4>1. BinNums[q][s][w] \in Nat
        BY <2>1 DEF TypeOK, VoteTypes
      <4>2. BinNums[q][s][w] <= Cardinality(SigMap[q][s][w])
        BY DEF Inv, CountsStored
      <4> QED BY <2>2, <3>1, <4>1, <4>2
    <3>3. \A q \in Correct : \A d \in storing'[q] :
             d.NewTotalSigCount <= Cardinality(SigMap'[q][d.round][d.val])
      <4> SUFFICES ASSUME NEW q \in Correct, NEW d \in storing'[q]
                   PROVE  d.NewTotalSigCount <= Cardinality(SigMap'[q][d.round][d.val])
        OBVIOUS
      <4>1. CASE d \in storing[q]
        <5>1. d \in Counts
          BY Zenon, <2>1, <4>1 DEF TypeOK, VoteTypes
        <5>2. d.round \in Rounds /\ d.val \in Bin /\ d.NewTotalSigCount \in Nat
          BY <5>1 DEF Counts
        <5>3. d.NewTotalSigCount <= Cardinality(SigMap[q][d.round][d.val])
          BY Zenon, <4>1 DEF Inv, CountsStored
        <5> QED BY <3>1, <5>2, <5>3
      <4>2. CASE d \notin storing[q]
        <5>1. /\ q = p /\ d.round = r /\ d.val = v
              /\ d.NewTotalSigCount = Cardinality(SigMap[p][r][v] \cup S)
          BY <2>1, <4>2 DEF StoreMsg, TypeOK, VoteTypes
        <5>2. SigMap'[p][r][v] = SigMap[p][r][v] \cup S
          BY <2>1, StoreMsgEntry
        <5>3. Cardinality(SigMap'[p][r][v]) \in Nat
          BY <3>1
        <5>4. d.NewTotalSigCount = Cardinality(SigMap'[q][d.round][d.val])
          BY <5>1, <5>2
        <5> QED BY <5>1, <5>3, <5>4
      <4> QED BY Zenon, <4>1, <4>2
    <3> QED BY <3>2, <3>3 DEF CountsStored
  <2> QED BY Zenon, <2>1, <2>2, <2>5, <2>6 DEF Inv, SentFlags, OneValuePerRound, SelfSent, Locked,
               Proposed, DecidedQuorum, NoPanic, HasQuorum, Signers
<1>UpdateRoundInv.
    ASSUME Inv, TypeOK', NEW p \in Correct, NEW d \in storing[p], UpdateRound(p, d)
    PROVE  Inv'
  <2> USE <1>UpdateRoundInv
  <2>1. TypeOK /\ TypeOK'
    BY DEF Inv
  <2>2. UNCHANGED <<sent, SigMap, sentProposal, gotProposal, SelfMessages, Decided, decidedRound,
                    panicked>>
    BY Zenon DEF UpdateRound, roundVars, decVars
  <2>3. d.round \in Rounds /\ d.val \in Bin
    BY <2>1 DEF TypeOK, VoteTypes, Counts
  <2>4. BinNums' = [BinNums EXCEPT ![p][d.round][d.val] =
                      MaxOf(BinNums[p][d.round][d.val], d.NewTotalSigCount)]
    BY Zenon DEF UpdateRound
  <2>5. \A q \in Correct, s \in Rounds, w \in Bin :
           BinNums'[q][s][w] <= Cardinality(SigMap[q][s][w])
    <3>1. /\ BinNums[p][d.round][d.val] <= Cardinality(SigMap[p][d.round][d.val])
          /\ d.NewTotalSigCount <= Cardinality(SigMap[p][d.round][d.val])
      BY Zenon, <2>3 DEF Inv, CountsStored
    <3>2. MaxOf(BinNums[p][d.round][d.val], d.NewTotalSigCount)
             <= Cardinality(SigMap[p][d.round][d.val])
      BY Zenon, <3>1 DEF MaxOf
    <3>3. BinNums'[p][d.round][d.val] = MaxOf(BinNums[p][d.round][d.val], d.NewTotalSigCount)
      BY <2>1, <2>3, UpdateRoundEntry
    <3>4. \A q \in Correct, s \in Rounds, w \in Bin :
             (q # p \/ s # d.round \/ w # d.val) => BinNums'[q][s][w] = BinNums[q][s][w]
      BY <2>1, <2>3, UpdateRoundEntry
    <3> QED BY <3>2, <3>3, <3>4 DEF Inv, CountsStored
  <2>6. \A q \in Correct : storing'[q] \subseteq storing[q]
    BY <2>1 DEF UpdateRound, TypeOK, VoteTypes
  <2>7. CountsStored'
    BY Zenon, <2>2, <2>5, <2>6 DEF Inv, CountsStored
  <2> QED BY <2>1, <2>2, <2>7, Zenon DEF Inv, SentFlags, OneValuePerRound, SelfSent, StoredSent, Locked,
               Proposed, DecidedQuorum, NoPanic, HasQuorum, Signers
<1>SelfMessageInv.
    ASSUME Inv, TypeOK', NEW p \in Correct, ProcessSelfMessage(p)
    PROVE  Inv'
  <2> USE <1>SelfMessageInv
  <2>1. TypeOK /\ TypeOK'
    BY DEF Inv
  <2>2. UNCHANGED <<sent, sentProposal, gotProposal, storing, Decided, decidedRound, panicked>>
    BY Zenon DEF ProcessSelfMessage, roundVars, decVars
  <2>3. PICK r \in Rounds, v \in Bin :
             /\ IsOwnMessage(p, r, v)
             /\ UNCHANGED <<msgVars, checking>> \/ StoresOwn(p, r, v)
    BY Zenon, <2>1, SelfMessageEffect
  <2>4. p \in sent[r][v]
    BY <2>3 DEF IsOwnMessage, Inv, SelfSent
  <2>5. SelfSent'
    <3> SUFFICES ASSUME NEW q \in Correct, NEW i \in 1..Len(SelfMessages'[q])
                 PROVE  q \in sent'[SelfMessages'[q][i].round][SelfMessages'[q][i].val]
      BY Zenon DEF SelfSent
    <3>1. CASE q = p
      <4>1. SelfMessages[p] \in Seq(Messages) /\ SelfMessages[p] # <<>>
        BY <2>1, Zenon DEF ProcessSelfMessage, TypeOK, LoopTypes
      <4>2. SelfMessages'[p] = Tail(SelfMessages[p])
        BY <2>1, Zenon DEF ProcessSelfMessage, TypeOK, LoopTypes
      <4>3. i + 1 \in 1..Len(SelfMessages[p]) /\ SelfMessages'[p][i] = SelfMessages[p][i + 1]
        BY <3>1, <4>1, <4>2
      <4> QED BY <2>2, <3>1, <4>3, SMTT(30) DEF Inv, SelfSent
    <3>2. CASE q # p
      <4>1. SelfMessages'[q] = SelfMessages[q]
        BY <2>1, <3>2, Zenon DEF ProcessSelfMessage, TypeOK, LoopTypes
      <4> QED BY <2>2, <4>1, SMTT(30) DEF Inv, SelfSent
    <3> QED BY Zenon, <3>1, <3>2
  <2>6. StoredSent' /\ CountsStored'
    <3>1. CASE UNCHANGED <<msgVars, checking>>
      BY Zenon, <2>2, <3>1 DEF Inv, StoredSent, CountsStored, msgVars, Signers
    <3>2. CASE StoresOwn(p, r, v)
      <4>1. \A q \in Correct, s \in Rounds, w \in Bin :
               SigMap'[q][s][w] = IF q = p /\ s = r /\ w = v THEN SigMap[p][r][v] \cup {p}
                                                             ELSE SigMap[q][s][w]
        <5>1. SigMap \in [Correct -> [Rounds -> [Bin -> SUBSET Members]]]
          BY Zenon, <2>1 DEF TypeOK, VoteTypes
        <5> QED BY <3>2, <5>1 DEF StoresOwn
      <4>2. \A q \in Correct, s \in Rounds, w \in Bin :
               BinNums'[q][s][w] = IF q = p /\ s = r /\ w = v
                                   THEN MaxOf(BinNums[p][r][v], Cardinality(SigMap[p][r][v] \cup {p}))
                                   ELSE BinNums[q][s][w]
        <5>1. BinNums \in [Correct -> [Rounds -> [Bin -> 0..GetMemberCount]]]
          BY Zenon, <2>1 DEF TypeOK, VoteTypes
        <5> QED BY <3>2, <5>1 DEF StoresOwn
      <4>3. StoredSent'
        <5> SUFFICES ASSUME NEW q \in Correct, NEW s \in Rounds, NEW w \in Bin
                     PROVE  SigMap'[q][s][w] \subseteq Signers(s, w)'
          BY DEF StoredSent
        <5>1. SigMap[q][s][w] \subseteq Signers(s, w)
          BY DEF Inv, StoredSent
        <5> QED BY <2>2, <2>4, <4>1, <5>1 DEF Signers
      <4>4. \A q \in Correct, s \in Rounds, w \in Bin :
               /\ Cardinality(SigMap[q][s][w]) <= Cardinality(SigMap'[q][s][w])
               /\ Cardinality(SigMap[q][s][w]) \in Nat /\ Cardinality(SigMap'[q][s][w]) \in Nat
        <5> SUFFICES ASSUME NEW q \in Correct, NEW s \in Rounds, NEW w \in Bin
                     PROVE  /\ Cardinality(SigMap[q][s][w]) <= Cardinality(SigMap'[q][s][w])
                            /\ Cardinality(SigMap[q][s][w]) \in Nat
                            /\ Cardinality(SigMap'[q][s][w]) \in Nat
          BY Zenon
        <5>1. SigMap'[q][s][w] \in SUBSET Members
          BY <2>1 DEF TypeOK, VoteTypes
        <5>2. SigMap[q][s][w] \in SUBSET SigMap'[q][s][w]
          BY <4>1
        <5> QED BY <5>1, <5>2, CountSubset
      <4>5. \A q \in Correct, s \in Rounds, w \in Bin :
               BinNums'[q][s][w] <= Cardinality(SigMap'[q][s][w])
        <5> SUFFICES ASSUME NEW q \in Correct, NEW s \in Rounds, NEW w \in Bin
                     PROVE  BinNums'[q][s][w] <= Cardinality(SigMap'[q][s][w])
          OBVIOUS
        <5>1. BinNums[q][s][w] \in Nat /\ BinNums[q][s][w] <= Cardinality(SigMap[q][s][w])
          BY <2>1 DEF TypeOK, VoteTypes, Inv, CountsStored
        <5>2. BinNums[q][s][w] <= Cardinality(SigMap'[q][s][w])
          BY <4>4, <5>1
        <5>3. CASE q = p /\ s = r /\ w = v
          <6>1. SigMap'[q][s][w] = SigMap[p][r][v] \cup {p}
            BY <4>1, <5>3
          <6>2. BinNums'[q][s][w] = MaxOf(BinNums[q][s][w], Cardinality(SigMap'[q][s][w]))
            BY <4>2, <5>3, <6>1, Zenon
          <6>3. Cardinality(SigMap'[q][s][w]) \in Nat
            BY <4>4
          <6> QED BY <5>1, <5>2, <6>2, <6>3 DEF MaxOf
        <5>4. CASE ~ (q = p /\ s = r /\ w = v)
          <6>1. BinNums'[q][s][w] = BinNums[q][s][w]
            BY <4>2, <5>4
          <6> QED BY <5>2, <6>1
        <5> QED BY <5>3, <5>4
      <4>6. \A q \in Correct : \A d \in storing'[q] :
               d.NewTotalSigCount <= Cardinality(SigMap'[q][d.round][d.val])
        <5> SUFFICES ASSUME NEW q \in Correct, NEW d \in storing[q]
                     PROVE  d.NewTotalSigCount <= Cardinality(SigMap'[q][d.round][d.val])
          BY <2>2
        <5>0. d \in Counts
          BY Zenon, <2>1 DEF TypeOK, VoteTypes
        <5>1. d.round \in Rounds /\ d.val \in Bin /\ d.NewTotalSigCount \in Nat
          BY <5>0 DEF Counts
        <5>2. d.NewTotalSigCount <= Cardinality(SigMap[q][d.round][d.val])
          BY Zenon DEF Inv, CountsStored
        <5> QED BY <4>4, <5>1, <5>2
      <4> QED BY <4>3, <4>5, <4>6 DEF CountsStored
    <3> QED BY <2>3, <3>1, <3>2
  <2> QED BY Zenon, <2>1, <2>2, <2>5, <2>6 DEF Inv, SentFlags, OneValuePerRound, Locked, Proposed,
               DecidedQuorum, NoPanic, HasQuorum, Signers
  \* Steps of the main loop that send nothing, store nothing and decide nothing.
<1>QuietStepInv.
    ASSUME Inv, TypeOK',
           UNCHANGED <<sent, SigMap, BinNums, storing, SelfMessages, sentProposal, gotProposal,
                       Decided, decidedRound, panicked>>
    PROVE  Inv'
  BY <1>QuietStepInv, Zenon DEF Inv, SentFlags, OneValuePerRound, SelfSent, StoredSent, CountsStored, Locked, Proposed,
         DecidedQuorum, NoPanic, HasQuorum, Signers
<1>GotProposalInv.
    ASSUME Inv, TypeOK', NEW p \in Correct, NEW v \in Bin, GotProposal(p, v)
    PROVE  Inv'
  <2> USE <1>GotProposalInv
  <2>1. TypeOK /\ TypeOK'
    BY DEF Inv
  <2>2. UNCHANGED <<SigMap, BinNums, storing, sentProposal, Decided, decidedRound, panicked>>
    BY DEF GotProposal, msgVars, roundVars, decVars
  <2>3. 0 \in Rounds
    BY BinCons1Assumption DEF Rounds
  <2>4. \A r \in Rounds, w \in Bin :
           /\ sent[r][w] \subseteq sent'[r][w]
           /\ r # 0 => sent'[r][w] = sent[r][w]
           /\ sent'[r][w] = sent[r][w] \/ (w = v /\ sent'[r][w] = sent[r][w] \cup {p})
    <3>1. sent \in [Rounds -> [Bin -> SUBSET Correct]]
      BY Zenon, <2>1 DEF TypeOK, VoteTypes
    <3>2. sent' = sent \/ sent' = [sent EXCEPT ![0][v] = sent[0][v] \cup {p}]
      BY DEF GotProposal
    <3> QED BY <2>3, <3>1, <3>2
  <2>5. SentGrows
    BY <2>4 DEF SentGrows
  <2>6. gotProposal' = [gotProposal EXCEPT ![p] = TRUE] /\ ~ gotProposal[p]
    BY DEF GotProposal
  <2>7. \A q \in Correct : (gotProposal[q] => gotProposal'[q]) /\ gotProposal'[p]
    BY <2>1, <2>6 DEF TypeOK, LoopTypes
  <2>8. SentFlags'
    <3> SUFFICES ASSUME NEW q \in Correct, NEW r \in Rounds, NEW w \in Bin, q \in sent'[r][w]
                 PROVE  IF r = 0 THEN gotProposal'[q] ELSE sentProposal'[q][r - 1]
      BY DEF SentFlags
    <3>1. CASE r = 0
      BY <2>3, <2>4, <2>7, <3>1 DEF Inv, SentFlags
    <3>2. CASE r # 0
      BY <2>2, <2>4, <3>2 DEF Inv, SentFlags
    <3> QED BY <3>1, <3>2
  <2>9. OneValuePerRound'
    <3>1. p \notin sent[0][0] /\ p \notin sent[0][1]
      BY Zenon, <2>3, <2>6 DEF Inv, SentFlags, Bin
    <3> SUFFICES ASSUME NEW r \in Rounds PROVE sent'[r][0] \cap sent'[r][1] = {}
      BY DEF OneValuePerRound
    <3>2. sent[r][0] \cap sent[r][1] = {}
      BY DEF Inv, OneValuePerRound
    <3>3. CASE r = 0
      BY <2>3, <2>4, <3>1, <3>2, <3>3 DEF Bin
    <3>4. CASE r # 0
      BY <2>4, <3>2, <3>4 DEF Bin
    <3> QED BY <3>3, <3>4
  <2>10. SelfSent'
    <3> SUFFICES ASSUME NEW q \in Correct, NEW i \in 1..Len(SelfMessages'[q])
                 PROVE  q \in sent'[SelfMessages'[q][i].round][SelfMessages'[q][i].val]
      BY Zenon DEF SelfSent
    <3>1. SelfMessages[q] \in Seq(Messages)
      BY Zenon, <2>1 DEF TypeOK, LoopTypes
    <3>2. ASSUME i \in 1..Len(SelfMessages[q]), SelfMessages'[q][i] = SelfMessages[q][i]
          PROVE  q \in sent'[SelfMessages'[q][i].round][SelfMessages'[q][i].val]
      <4>1. SelfMessages[q][i].round \in Rounds /\ SelfMessages[q][i].val \in Bin
        <5>1. SelfMessages[q][i] \in Messages
          BY <3>1, <3>2
        <5> QED BY <5>1 DEF Messages
      <4>2. q \in sent[SelfMessages[q][i].round][SelfMessages[q][i].val]
        BY Zenon, <3>2 DEF Inv, SelfSent
      <4> QED BY Zenon, <2>4, <3>2, <4>1, <4>2
    <3>3. CASE SelfMessages' = SelfMessages
      BY Zenon, <3>2, <3>3
    <3>4. CASE /\ SelfMessages' = [SelfMessages EXCEPT ![p] =
                                     Append(SelfMessages[p], [round |-> 0, val |-> v])]
               /\ sent' = [sent EXCEPT ![0][v] = sent[0][v] \cup {p}]
      <4>1. CASE q # p
        <5>1. SelfMessages'[q] = SelfMessages[q]
          BY Zenon, <2>1, <3>4, <4>1 DEF TypeOK, LoopTypes
        <5> QED BY <3>2, <5>1, SMTT(30)
      <4>2. CASE q = p
        <5>1. SelfMessages'[q] = Append(SelfMessages[q], [round |-> 0, val |-> v])
          BY Zenon, <2>1, <3>4, <4>2 DEF TypeOK, LoopTypes
        <5>2. \/ i \in 1..Len(SelfMessages[q]) /\ SelfMessages'[q][i] = SelfMessages[q][i]
              \/ SelfMessages'[q][i] = [round |-> 0, val |-> v]
          BY <3>1, <5>1, SMTT(30)
        <5>3. p \in sent'[0][v]
          BY <2>1, <2>3, <3>4, SMTT(30) DEF TypeOK, VoteTypes
        <5> QED BY <3>2, <4>2, <5>2, <5>3, SMTT(30)
      <4> QED BY Zenon, <4>1, <4>2
    <3> QED BY Zenon, <3>3, <3>4 DEF GotProposal
  <2>11. StoredSent' /\ CountsStored'
    BY <2>2, <2>4, Zenon DEF Inv, StoredSent, CountsStored, Signers
  <2>12. Locked'
    <3> SUFFICES ASSUME NEW r \in Rounds, NEW s \in Rounds, NEW w \in Bin,
                        1 <= r, r < s, w # r % 2, sent'[s][w] # {}
                 PROVE  HasQuorum(r, w)'
      BY DEF Locked
    <3>1. sent[s][w] # {}
      <4>1. s # 0
        BY BinCons1Assumption DEF Rounds
      <4> QED BY <2>4, <4>1
    <3>2. HasQuorum(r, w)
      BY <3>1 DEF Inv, Locked
    <3> QED BY <2>1, <2>5, <3>2, <1>QuorumStays
  <2>13. Proposed'
    BY Zenon, <2>3, <2>4 DEF Inv, Proposed
  <2>14. DecidedQuorum'
    <3> SUFFICES ASSUME NEW q \in Correct, Decided[q] # NotDecided
                 PROVE  /\ decidedRound[q] >= 1 /\ Decided[q] = decidedRound[q] % 2
                        /\ HasQuorum(decidedRound[q], Decided[q])'
      BY Zenon, <2>2 DEF DecidedQuorum, HasQuorum, Signers
    <3>1. /\ decidedRound[q] >= 1 /\ Decided[q] = decidedRound[q] % 2
          /\ HasQuorum(decidedRound[q], Decided[q])
      BY DEF Inv, DecidedQuorum
    <3>2. decidedRound[q] \in Rounds /\ Decided[q] \in Bin
      BY <2>1 DEF TypeOK, DecisionTypes
    <3>3. \A r \in Rounds, w \in Bin : HasQuorum(r, w) => HasQuorum(r, w)'
      BY <2>1, <2>5, <1>QuorumStays
    <3> QED BY <2>2, <3>1, <3>2, <3>3 DEF HasQuorum, Signers
  <2> QED BY <2>1, <2>2, <2>8, <2>9, <2>10, <2>11, <2>12, <2>13, <2>14 DEF Inv, NoPanic
  \* A message for round r + 1 follows the rule Locked, and carries a proposed value.
<1>SendLocked.
    ASSUME Inv, NEW s \in Rounds, s >= 1, NEW v \in Bin, Backed(s, v),
           NEW r \in Rounds, 1 <= r, r < s, v # r % 2
    PROVE  HasQuorum(r, v)
  <2> USE <1>SendLocked
  <2>1. r \in Nat /\ s \in Nat
    BY BinCons1Assumption DEF Rounds
  <2>2. ~ (s \in {1, 2} /\ (s = 2 => v = 1))
    BY <2>1
  <2>3. PICK q \in Rounds : q < s /\ q >= s - 2 /\ q % 2 # v /\ HasQuorum(q, v)
    BY <2>2 DEF Backed
  <2>4. q \in Nat /\ q % 2 = r % 2
    BY <2>1, <2>3 DEF Rounds, Bin
  <2>5. r = q \/ r < q
    BY <2>1, <2>3, <2>4
  <2>6. CASE r < q
    <3>1. sent[q][v] # {}
      BY <2>3, QuorumSender DEF Inv
    <3> QED BY <2>6, <3>1 DEF Inv, Locked
  <2> QED BY <2>3, <2>5, <2>6
<1>SendProposed.
    ASSUME Inv, NEW s \in Rounds, s >= 1, NEW v \in Bin, Backed(s, v)
    PROVE  sent[0][v] # {}
  <2> USE <1>SendProposed
  <2>1. 0 \in Rounds
    BY BinCons1Assumption DEF Rounds
  <2>2. CASE Cardinality(Signers(0, v)) > t
    BY <2>1, <2>2, CorrectSender DEF Inv
  <2>3. ASSUME NEW q \in Rounds, HasQuorum(q, v) PROVE sent[0][v] # {}
    BY <2>3, QuorumSender DEF Inv, Proposed
  <2> QED BY <2>2, <2>3 DEF Backed
<1>CheckRoundInv.
    ASSUME Inv, TypeOK', NEW p \in Correct, CheckRoundReturnsTrue(p)
    PROVE  Inv'
  <2> USE <1>CheckRoundInv
  <2> DEFINE r == checking[p]
             v == Est(p, r)
  <2>1. TypeOK /\ TypeOK'
    BY DEF Inv
  <2>2. /\ r \in Rounds /\ DecidesIn(p, r)
        /\ SendsNext(p, r) \/ SendsNothing(p, r)
        /\ UNCHANGED <<SigMap, BinNums, storing, gotProposal>>
    BY <2>1, CheckRoundEffect DEF msgVars
  <2>3. ~ DecidePanic(p, r)
    BY <2>2, NoDecidePanic
  <2>4. ASSUME SendsNext(p, r)
        PROVE  /\ r + 1 \in Rounds /\ r + 1 >= 1 /\ v \in Bin
               /\ ~ sentProposal[p][r]
               /\ Backed(r + 1, v) /\ ~ EstPanic(p, r)
               /\ sentProposal' = [sentProposal EXCEPT ![p][r] = TRUE]
               /\ sent' = [sent EXCEPT ![r + 1][v] = sent[r + 1][v] \cup {p}]
               /\ SelfMessages' = [SelfMessages EXCEPT ![p] =
                                     Append(SelfMessages[p], [round |-> r + 1, val |-> v])]
    <3>1. r < MaxRound /\ ~ sentProposal[p][r] /\ ValidCount(p, r) >= nmt
      BY Zenon, <2>4 DEF SendsNext
    <3>2. r + 1 \in Rounds /\ r + 1 >= 1 /\ v \in Bin
      BY <2>2, <3>1, RoundFacts, EstType
    <3>3. getValids(p, r + 1, v) /\ ~ EstPanic(p, r)
      BY <2>2, <3>1, <1>EstValid DEF Inv
    <3>4. Backed(r + 1, v)
      BY <3>2, <3>3, <1>ValidBacked DEF Inv
    <3> QED BY Zenon, <2>4, <3>1, <3>2, <3>3, <3>4 DEF SendsNext
  <2>5. NoPanic'
    <3>1. panicked' = [panicked EXCEPT ![p] = panicked[p]]
      <4>1. CASE SendsNext(p, r)
        <5>1. panicked' = [panicked EXCEPT ![p] =
                             panicked[p] \/ DecidePanic(p, r) \/ EstPanic(p, r)]
          BY <4>1, Zenon DEF SendsNext
        <5>2. ~ EstPanic(p, r)
          BY Zenon, <2>4, <4>1
        <5>3. panicked[p] \in BOOLEAN
          BY Zenon, <2>1 DEF TypeOK, DecisionTypes
        <5>4. (panicked[p] \/ DecidePanic(p, r) \/ EstPanic(p, r)) = panicked[p]
          BY <2>3, <5>2, <5>3
        <5> QED BY <5>1, <5>4, Zenon
      <4>2. CASE SendsNothing(p, r)
        <5>1. panicked' = [panicked EXCEPT ![p] = panicked[p] \/ DecidePanic(p, r)]
          BY <4>2, Zenon DEF SendsNothing
        <5>2. panicked[p] \in BOOLEAN
          BY Zenon, <2>1 DEF TypeOK, DecisionTypes
        <5>3. (panicked[p] \/ DecidePanic(p, r)) = panicked[p]
          BY Zenon, <2>3, <5>2
        <5> QED BY <5>1, <5>3, Zenon
      <4> QED BY <2>2, <4>1, <4>2
    <3> QED BY <2>1, <3>1 DEF Inv, NoPanic, TypeOK
  <2> HIDE DEF v, r
  <2>6. \A s \in Rounds, w \in Bin :
           /\ sent[s][w] \subseteq sent'[s][w]
           /\ \/ sent'[s][w] = sent[s][w]
              \/ /\ SendsNext(p, r) /\ s = r + 1 /\ w = v
                 /\ sent'[s][w] = sent[s][w] \cup {p}
    <3>1. sent \in [Rounds -> [Bin -> SUBSET Correct]]
      BY Zenon, <2>1 DEF TypeOK, VoteTypes
    <3>2. CASE SendsNext(p, r)
      BY <2>4, <3>1, <3>2
    <3>3. CASE SendsNothing(p, r)
      BY <3>3 DEF SendsNothing
    <3> QED BY <2>2, <3>2, <3>3
  <2>7. SentGrows
    BY <2>6 DEF SentGrows
  <2>8. \A s \in Rounds, w \in Bin : HasQuorum(s, w) => HasQuorum(s, w)'
    BY <2>1, <2>7, <1>QuorumStays
  <2>9. (sent' = sent /\ sentProposal' = sentProposal) \/ SendsNext(p, r)
    BY <2>2 DEF SendsNothing
  <2>10. SentFlags'
    <3> SUFFICES ASSUME NEW q \in Correct, NEW s \in Rounds, NEW w \in Bin, q \in sent'[s][w]
                 PROVE  IF s = 0 THEN gotProposal'[q] ELSE sentProposal'[q][s - 1]
      BY DEF SentFlags
    <3>1. s # 0 => s - 1 \in Rounds
      BY BinCons1Assumption DEF Rounds
    <3>2. \A k \in Rounds : sentProposal[q][k] => sentProposal'[q][k]
      <4>1. sentProposal \in [Correct -> [Rounds -> BOOLEAN]]
        BY Zenon, <2>1 DEF TypeOK, LoopTypes
      <4>2. CASE sentProposal' = sentProposal
        BY <4>2
      <4>3. CASE SendsNext(p, r)
        <5> TAKE k \in Rounds
        <5>1. sentProposal' = [sentProposal EXCEPT ![p][r] = TRUE]
          BY Zenon, <2>4, <4>3
        <5>2. CASE q = p /\ k = r
          BY <2>2, <4>1, <5>1, <5>2
        <5>3. CASE ~ (q = p /\ k = r)
          <6>1. sentProposal'[q][k] = sentProposal[q][k]
            BY <2>2, <4>1, <5>1, <5>3, Zenon
          <6> QED BY <6>1
        <5> QED BY <5>2, <5>3
      <4> QED BY <2>9, <4>2, <4>3
    <3>3. CASE q \in sent[s][w]
      BY <2>2, <3>1, <3>2, <3>3 DEF Inv, SentFlags
    <3>4. CASE q \notin sent[s][w]
      <4>1. SendsNext(p, r) /\ s = r + 1 /\ q = p
        BY <2>6, <3>4
      <4>2. s # 0 /\ s - 1 = r
        BY <2>2, <4>1 DEF Rounds
      <4>3. sentProposal'[p][r]
        <5>1. sentProposal \in [Correct -> [Rounds -> BOOLEAN]]
          BY Zenon, <2>1 DEF TypeOK, LoopTypes
        <5>2. sentProposal' = [sentProposal EXCEPT ![p][r] = TRUE]
          BY Zenon, <2>4, <4>1
        <5> QED BY <2>2, <5>1, <5>2
      <4> QED BY Zenon, <4>1, <4>2, <4>3
    <3> QED BY <3>3, <3>4
  <2>11. OneValuePerRound'
    <3> SUFFICES ASSUME NEW s \in Rounds PROVE sent'[s][0] \cap sent'[s][1] = {}
      BY DEF OneValuePerRound
    <3>1. sent[s][0] \cap sent[s][1] = {}
      BY DEF Inv, OneValuePerRound
    <3>2. ASSUME SendsNext(p, r), s = r + 1
          PROVE  p \notin sent[s][0] /\ p \notin sent[s][1]
      <4>1. s # 0 /\ s - 1 = r
        BY <2>2, <3>2 DEF Rounds
      <4>2. ~ sentProposal[p][s - 1]
        BY <2>4, <3>2, <4>1
      <4> QED BY <4>1, <4>2 DEF Inv, SentFlags, Bin
    <3>3. 0 \in Bin /\ 1 \in Bin
      BY DEF Bin
    <3> QED BY <2>6, <3>1, <3>2, <3>3
  <2>12. SelfSent'
    <3> SUFFICES ASSUME NEW q \in Correct, NEW i \in 1..Len(SelfMessages'[q])
                 PROVE  q \in sent'[SelfMessages'[q][i].round][SelfMessages'[q][i].val]
      BY Zenon DEF SelfSent
    <3>1. SelfMessages[q] \in Seq(Messages)
      BY Zenon, <2>1 DEF TypeOK, LoopTypes
    <3>2. ASSUME i \in 1..Len(SelfMessages[q]), SelfMessages'[q][i] = SelfMessages[q][i]
          PROVE  q \in sent'[SelfMessages'[q][i].round][SelfMessages'[q][i].val]
      <4>1. SelfMessages[q][i].round \in Rounds /\ SelfMessages[q][i].val \in Bin
        <5>1. SelfMessages[q][i] \in Messages
          BY <3>1, <3>2
        <5> QED BY <5>1 DEF Messages
      <4>2. q \in sent[SelfMessages[q][i].round][SelfMessages[q][i].val]
        BY Zenon, <3>2 DEF Inv, SelfSent
      <4> QED BY Zenon, <2>6, <3>2, <4>1, <4>2
    <3>3. CASE SendsNothing(p, r)
      BY Zenon, <3>2, <3>3 DEF SendsNothing
    <3>4. CASE SendsNext(p, r)
      <4>0. SelfMessages \in [Correct -> Seq(Messages)]
        BY Zenon, <2>1 DEF TypeOK, LoopTypes
      <4>1. CASE q # p
        <5>1. SelfMessages'[q] = SelfMessages[q]
          BY Zenon, <2>4, <3>4, <4>0, <4>1
        <5> QED BY Zenon, <3>2, <5>1
      <4>2. CASE q = p
        <5>1. SelfMessages'[q] = Append(SelfMessages[q], [round |-> r + 1, val |-> v])
          BY <2>4, <3>4, <4>0, <4>2
        <5>2. \/ i \in 1..Len(SelfMessages[q]) /\ SelfMessages'[q][i] = SelfMessages[q][i]
              \/ SelfMessages'[q][i] = [round |-> r + 1, val |-> v]
          BY <3>1, <5>1
        <5>3. p \in sent'[r + 1][v]
          <6>1. sent \in [Rounds -> [Bin -> SUBSET Correct]]
            BY Zenon, <2>1 DEF TypeOK, VoteTypes
          <6> QED BY <2>4, <3>4, <6>1
        <5> QED BY <3>2, <4>2, <5>2, <5>3
      <4> QED BY Zenon, <4>1, <4>2
    <3> QED BY Zenon, <2>2, <3>3, <3>4
  <2>13. StoredSent' /\ CountsStored'
    BY <2>2, <2>6 DEF Inv, StoredSent, CountsStored, Signers
  <2>14. Locked'
    <3> SUFFICES ASSUME NEW k \in Rounds, NEW s \in Rounds, NEW w \in Bin,
                        1 <= k, k < s, w # k % 2, sent'[s][w] # {}
                 PROVE  HasQuorum(k, w)'
      BY DEF Locked
    <3>1. CASE sent[s][w] # {}
      BY <2>8, <3>1 DEF Inv, Locked
    <3>2. CASE sent[s][w] = {}
      <4>1. SendsNext(p, r) /\ s = r + 1 /\ w = v
        BY <2>6, <3>2
      <4>2. HasQuorum(k, w)
        BY <2>4, <4>1, <1>SendLocked
      <4> QED BY <2>8, <4>2
    <3> QED BY <3>1, <3>2
  <2>15. Proposed'
    <3> SUFFICES ASSUME NEW s \in Rounds, NEW w \in Bin, sent'[s][w] # {}
                 PROVE  sent'[0][w] # {}
      BY Zenon DEF Proposed
    <3>1. sent[0][w] # {}
      <4>1. CASE sent[s][w] # {}
        BY <4>1 DEF Inv, Proposed
      <4>2. CASE sent[s][w] = {}
        <5>1. SendsNext(p, r) /\ s = r + 1 /\ w = v
          BY <2>6, <4>2
        <5> QED BY Zenon, <2>4, <5>1, <1>SendProposed
      <4> QED BY <4>1, <4>2
    <3>2. 0 \in Rounds
      BY BinCons1Assumption DEF Rounds
    <3> QED BY <2>6, <3>1, <3>2
  <2>16. DecidedQuorum'
    <3> SUFFICES ASSUME NEW q \in Correct, Decided'[q] # NotDecided
                 PROVE  /\ decidedRound'[q] >= 1 /\ Decided'[q] = decidedRound'[q] % 2
                        /\ HasQuorum(decidedRound[q], Decided[q])'
      BY DEF DecidedQuorum
    <3>0. /\ Decided \in [Correct -> Bin \cup {NotDecided}] /\ decidedRound \in [Correct -> Rounds]
          /\ Decided'[q] \in Bin /\ decidedRound'[q] \in Rounds
      BY <2>1, Zenon DEF TypeOK, DecisionTypes
    <3>1. /\ decidedRound'[q] >= 1 /\ Decided'[q] = decidedRound'[q] % 2
          /\ HasQuorum(decidedRound'[q], Decided'[q])
      <4>1. CASE q = p /\ Decides(p, r) /\ Decided[p] = NotDecided
        <5>1. decidedRound'[p] = r /\ Decided'[p] = Mod(r)
          BY <2>2, <3>0, <4>1 DEF DecidesIn
        <5>2. 1 <= r /\ Mod(r) = r % 2 /\ HasQuorum(r, Mod(r))
          BY Zenon, <2>2, <4>1, DecidesQuorum
        <5> QED BY Zenon, <4>1, <5>1, <5>2
      <4>2. CASE ~ (q = p /\ Decides(p, r) /\ Decided[p] = NotDecided)
        <5>1. decidedRound'[q] = decidedRound[q]
          BY <2>2, <3>0, <4>2 DEF DecidesIn
        <5>2. Decided'[q] = Decided[q]
          <6>1. CASE q = p /\ Decides(p, r)
            BY Zenon, <2>2, <2>3, <3>0, <4>2, <6>1 DEF DecidesIn, DecidePanic
          <6>2. CASE ~ (q = p /\ Decides(p, r))
            BY <2>2, <3>0, <6>2 DEF DecidesIn
          <6> QED BY Zenon, <6>1, <6>2
        <5> QED BY Zenon, <5>1, <5>2 DEF Inv, DecidedQuorum
      <4> QED BY <4>1, <4>2
    <3> QED BY Zenon, <2>8, <3>0, <3>1 DEF HasQuorum, Signers
  <2> QED BY <2>1, <2>5, <2>10, <2>11, <2>12, <2>13, <2>14, <2>15, <2>16 DEF Inv
<1>NextInv. Inv /\ [Next]_vars => Inv'
  <2> SUFFICES ASSUME Inv, [Next]_vars PROVE Inv'
    OBVIOUS
  <2> TypeOK /\ TypeOK'
    BY NextTypeOK DEF Inv
  <2>2. CASE UNCHANGED vars
    BY <2>2, <1>QuietStepInv DEF vars
  <2>3. CASE Next
    <3>1. PICK p \in Correct : GotMsg(p) \/ MainLoop(p)
      BY Zenon, <2>3 DEF Next
    <3>2. CASE GotMsg(p)
      BY <3>2, <1>StoreMsgInv, <1>UpdateRoundInv DEF GotMsg
    <3>3. CASE \E v \in Bin : GotProposal(p, v)
      BY <3>3, <1>GotProposalInv
    <3>4. CASE ProcessSelfMessage(p)
      BY <3>4, <1>SelfMessageInv
    <3>5. CASE \E r \in Rounds : ProcessMessage(p, r) \/ AuxProofTimeout(p, r)
      BY <3>5, <1>QuietStepInv DEF ProcessMessage, AuxProofTimeout, msgVars, roundVars, decVars
    <3>6. CASE CheckRoundReturnsFalse(p)
      BY Zenon, <3>6, <1>QuietStepInv DEF CheckRoundReturnsFalse, msgVars, roundVars
    <3>7. CASE CheckRoundReturnsTrue(p)
      BY <3>7, <1>CheckRoundInv
    <3> QED BY <3>1, <3>2, <3>3, <3>4, <3>5, <3>6, <3>7 DEF MainLoop, CheckRound
  <2> QED BY <2>2, <2>3
<1> QED BY <1>InitInv, <1>NextInv, PTL DEF Spec

\* Two decisions would be of two quorums, of which the later one contradicts the earlier.
LEMMA InvAgreement == Inv => Agreement
<1> SUFFICES ASSUME Inv, NEW p \in Correct, NEW q \in Correct,
                    Decided[p] # NotDecided, Decided[q] # NotDecided
             PROVE  Decided[p] = Decided[q]
  BY DEF Agreement
<1>1. decidedRound[p] \in Rounds /\ decidedRound[q] \in Rounds
  BY Zenon DEF Inv, TypeOK, DecisionTypes
<1>2. /\ decidedRound[p] >= 1 /\ Decided[p] = decidedRound[p] % 2
      /\ HasQuorum(decidedRound[p], Decided[p])
      /\ decidedRound[q] >= 1 /\ Decided[q] = decidedRound[q] % 2
      /\ HasQuorum(decidedRound[q], Decided[q])
  BY Zenon DEF Inv, DecidedQuorum
<1> QED BY <1>1, <1>2, DecisionsAgree DEF Rounds

\* A decided value has a quorum, hence a correct sender, hence a correct proposer.
LEMMA InvValidity == Inv => Validity
<1> SUFFICES ASSUME Inv, NEW p \in Correct, Decided[p] # NotDecided
             PROVE  sent[0][Decided[p]] # {}
  BY DEF Validity
<1>1. decidedRound[p] \in Rounds /\ Decided[p] \in Bin
  BY DEF Inv, TypeOK, DecisionTypes
<1>2. HasQuorum(decidedRound[p], Decided[p])
  BY DEF Inv, DecidedQuorum
<1>3. sent[decidedRound[p]][Decided[p]] # {}
  BY <1>1, <1>2, QuorumSender DEF Inv
<1> QED BY Zenon, <1>1, <1>3 DEF Inv, Proposed

\* For every number of members, every set of at most t faulty ones, every number of rounds and
\* of threads: no two correct nodes decide differently, whichever rounds they decide in.
THEOREM AgreementHolds == Spec => []Agreement
BY Invariance, InvAgreement, PTL

\* A decided value was proposed by a correct node.
THEOREM ValidityHolds == Spec => []Validity
BY Invariance, InvValidity, PTL

\* No panic of CheckRound is reachable: not the one on deciding twice with different values, nor
\* the ones on n-t valid messages without a valid estimate or without the proofs for it.
THEOREM NoPanicHolds == Spec => []NoPanic
<1>1. Inv => NoPanic
  BY DEF Inv
<1> QED BY <1>1, Invariance, PTL

\* A correct node signs one value per round.
THEOREM OneValueHolds == Spec => []OneValuePerRound
<1>1. Inv => OneValuePerRound
  BY DEF Inv
<1> QED BY <1>1, Invariance, PTL

-----------------------------------------------------------------------------
(* The refinement.  A proposal that is broadcast is Propose, the CheckRound *)
(* that sets Decided is Decide, and every other step changes nothing that   *)
(* the abstract specification sees.                                         *)
\* One instance of the algorithm, with its rounds, timeouts and threads, implements the abstract
\* consensus: a node decides once, a proposed value, and the one the others decide.
THEOREM Refinement == Spec => ImplementsConsensus
<1>SilentSteps.
    ASSUME NEW p \in Correct, GotMsg(p) \/ MainLoop(p)
    PROVE  \/ UNCHANGED <<sent, Decided>>
           \/ \E v \in Bin : GotProposal(p, v)
           \/ CheckRoundReturnsTrue(p)
  <2> USE <1>SilentSteps
  <2>1. CASE GotMsg(p)
    BY <2>1, Zenon DEF GotMsg, StoreMsg, UpdateRound, decVars
  <2>2. CASE ProcessSelfMessage(p)
    BY <2>2, Zenon DEF ProcessSelfMessage, decVars
  <2>3. CASE \E r \in Rounds : ProcessMessage(p, r) \/ AuxProofTimeout(p, r)
    BY <2>3, SMTT(30) DEF ProcessMessage, AuxProofTimeout, decVars
  <2>4. CASE CheckRoundReturnsFalse(p)
    BY <2>4 DEF CheckRoundReturnsFalse
  <2> QED BY <2>1, <2>2, <2>3, <2>4, SMTT(30) DEF MainLoop, CheckRound
<1>ProposalRefines.
    ASSUME TypeOK, NEW p \in Correct, NEW v \in Bin, GotProposal(p, v)
    PROVE  C!Propose \/ UNCHANGED <<sent, Decided>>
  <2> USE <1>ProposalRefines
  <2>1. 0 \in Rounds /\ sent \in [Rounds -> [Bin -> SUBSET Correct]]
    BY BinCons1Assumption DEF Rounds, TypeOK, VoteTypes
  <2>2. /\ Decided' = Decided
        /\ sent' = [sent EXCEPT ![0][v] = sent[0][v] \cup {p}] \/ sent' = sent
    BY DEF GotProposal, decVars
  <2>3. CASE sent' = sent
    BY <2>2, <2>3
  <2>4. CASE sent' = [sent EXCEPT ![0][v] = sent[0][v] \cup {p}]
    <3>1. \A w \in Bin : sent'[0][w] = IF w = v THEN sent[0][w] \cup {p} ELSE sent[0][w]
      BY <2>1, <2>4, Zenon
    <3>2. {w \in Bin : sent'[0][w] # {}} = {w \in Bin : sent[0][w] # {}} \cup {v}
      BY <3>1, Zenon
    <3> QED BY Zenon, <2>2, <3>2 DEF C!Propose
  <2> QED BY <2>2, <2>3, <2>4
<1>CheckRoundRefines.
    ASSUME Inv, Inv', NEW p \in Correct, CheckRoundReturnsTrue(p)
    PROVE  (\E v \in Bin : C!Decide(p, v)) \/ UNCHANGED <<{v \in Bin : sent[0][v] # {}}, Decided>>
  <2> USE <1>CheckRoundRefines
  <2> DEFINE r == checking[p]
  <2>1. TypeOK /\ TypeOK'
    BY DEF Inv
  <2>2. /\ r \in Rounds /\ DecidesIn(p, r)
        /\ SendsNext(p, r) \/ SendsNothing(p, r)
    BY Zenon, <2>1, CheckRoundEffect
  <2>3. \A w \in Bin : sent'[0][w] = sent[0][w]
    <3>1. sent \in [Rounds -> [Bin -> SUBSET Correct]] /\ 0 \in Rounds
      BY <2>1, BinCons1Assumption DEF TypeOK, VoteTypes, Rounds
    <3>2. CASE SendsNext(p, r)
      <4>1. r + 1 # 0 /\ sent' = [sent EXCEPT ![r + 1][Est(p, r)] = sent[r + 1][Est(p, r)] \cup {p}]
        BY <2>2, <3>2 DEF SendsNext, Rounds
      <4>2. \A w \in Bin : sent'[0] = sent[0]
        BY Zenon, <3>1, <4>1
      <4> QED BY Zenon, <4>2
    <3>3. CASE SendsNothing(p, r)
      BY <3>3 DEF SendsNothing
    <3> QED BY Zenon, <2>2, <3>2, <3>3
  <2>4. {v \in Bin : sent'[0][v] # {}} = {v \in Bin : sent[0][v] # {}}
    BY <2>3
  <2>5. Decided \in [Correct -> Bin \cup {NotDecided}] /\ Decided' \in [Correct -> Bin \cup {NotDecided}]
    BY <2>1, Zenon DEF TypeOK, DecisionTypes
  <2>6. CASE Decides(p, r)
    <3> DEFINE v == Decided'[p]
    <3>1. v \in Bin /\ Decided' = [Decided EXCEPT ![p] = v]
      <4>1. Decided' = [Decided EXCEPT ![p] = Mod(r)] /\ Mod(r) \in Bin
        BY <2>2, <2>6, RoundFacts DEF DecidesIn, Mod, Bin, Rounds
      <4> QED BY <2>5, <4>1
    <3>2. v # NotDecided
      BY <3>1, BinCons1Assumption DEF Bin, NotDecided
    <3>3. v \in {w \in Bin : sent[0][w] # {}}
      <4>1. Validity'
        BY InvValidity, PTL
      <4>2. sent'[0][v] # {}
        BY <3>2, <4>1 DEF Validity
      <4> QED BY <2>3, <3>1, <4>2
    <3>4. \A q \in Correct : Decided[q] \in {NotDecided, v}
      <4> SUFFICES ASSUME NEW q \in Correct, Decided[q] # NotDecided PROVE Decided[q] = v
        BY Zenon
      <4>1. CASE q = p
        BY <2>2, <2>6, <4>1, NoDecidePanic, <2>5 DEF DecidesIn, DecidePanic
      <4>2. CASE q # p
        <5>1. Agreement'
          BY InvAgreement, PTL
        <5>2. Decided'[q] = Decided[q]
          BY Zenon, <2>5, <3>1, <4>2
        <5> QED BY <3>2, <5>1, <5>2 DEF Agreement
      <4> QED BY Zenon, <4>1, <4>2
    <3>5. C!Decide(p, v)
      BY Zenon, <2>4, <3>1, <3>3, <3>4 DEF C!Decide
    <3> QED BY <3>1, <3>5
  <2>7. CASE ~ Decides(p, r)
    <3>1. Decided' = Decided
      BY <2>2, <2>5, <2>7 DEF DecidesIn
    <3> QED BY <2>4, <3>1
  <2> QED BY Zenon, <2>6, <2>7
<1>InitRefines. Init => C!Init
  BY BinCons1Assumption DEF Init, C!Init, Rounds
<1>NextRefines.
    Inv /\ Inv' /\ [Next]_vars => [C!Next]_<<{v \in Bin : sent[0][v] # {}}, Decided>>
  <2> SUFFICES ASSUME Inv, Inv', [Next]_vars
               PROVE  C!Next \/ UNCHANGED <<{v \in Bin : sent[0][v] # {}}, Decided>>
    OBVIOUS
  <2>1. CASE UNCHANGED vars
    BY Zenon, <2>1 DEF vars
  <2>2. CASE Next
    <3>1. PICK p \in Correct : GotMsg(p) \/ MainLoop(p)
      BY <2>2 DEF Next
    <3>2. CASE UNCHANGED <<sent, Decided>>
      BY <3>2
    <3>3. CASE \E v \in Bin : GotProposal(p, v)
      <4>1. C!Propose \/ UNCHANGED <<sent, Decided>>
        BY Zenon, <3>3, <1>ProposalRefines DEF Inv
      <4> QED BY <3>2, <4>1 DEF C!Next
    <3>4. CASE CheckRoundReturnsTrue(p)
      BY <3>4, <1>CheckRoundRefines DEF C!Next
    <3> QED BY <3>1, <3>2, <3>3, <3>4, <1>SilentSteps
  <2> QED BY <2>1, <2>2
<1>1. Spec => C!Init
  BY <1>InitRefines DEF Spec
<1> QED BY <1>1, Invariance, <1>NextRefines, PTL DEF Spec, ImplementsConsensus, C!Spec
=============================================================================
