--------------------------- MODULE MvCons2_proofs ---------------------------
(***************************************************************************)
(* MvCons2 for every number of members, of hashes, of rounds and of        *)
(* threads.  Inv, inductive, says what the votes of the correct nodes are  *)
(* backed by: a commit of a hash by n-t echoes of it in the same round, an *)
(* echo by n-t commits of zero in the round before.  It gives that no two  *)
(* rounds in a row decide, and that the only panic left is the one of a    *)
(* node that sees two rounds decide differently.                           *)
(***************************************************************************)
EXTENDS MvCons2_types

-----------------------------------------------------------------------------
(* Votes that are stored and counted.                                      *)

\* More votes are stored or counted.
LEMMA StoredInv ==
    ASSUME Inv, TypeOK', UNCHANGED <<sent, cons, panicked>>, MoreStored, MoreSupported,
           OwnSent', StoredSent', CountsStored', SupportStored',
           \A q \in Correct : pc'[q] = pc[q] \/ pc'[q].at = "timers"
    PROVE  Inv'
<1>1. VoteFlags' /\ OneVote'
  BY Zenon DEF Inv, VoteFlags, OneVote
<1>2. CommitBacked' /\ EchoBacked'
  BY Zenon DEF Inv, CommitBacked, EchoBacked, VoteQuorum, Signers
<1>3. ProofsKept'
  BY KeepsProof DEF Inv, ProofsKept
<1>4. InRound'
  BY DEF Inv, InRound
<1>5. \A q \in Correct, r \in Round :
         supportedHash[q]["commit"][r] # Nil => supportedHash'[q]["commit"][r] = supportedHash[q]["commit"][r]
  BY Constants DEF MoreSupported
<1>6. DecisionSupported'
  BY <1>5 DEF Inv, DecisionSupported
<1>7. PanicCause'
  <2> SUFFICES ASSUME NEW q \in Correct, panicked[q] PROVE TwoDecisions(q)'
    BY DEF PanicCause
  <2>1. PICK r, s \in Round : /\ supportedHash[q]["commit"][r] \in Hash
                              /\ supportedHash[q]["commit"][s] \in Hash
                              /\ supportedHash[q]["commit"][r] # supportedHash[q]["commit"][s]
    BY Zenon DEF Inv, PanicCause, TwoDecisions
  <2>2. /\ supportedHash'[q]["commit"][r] = supportedHash[q]["commit"][r]
        /\ supportedHash'[q]["commit"][s] = supportedHash[q]["commit"][s]
    BY Zenon, <1>5, <2>1, Constants
  <2> QED BY <2>1, <2>2 DEF TwoDecisions
<1> QED BY <1>1, <1>2, <1>3, <1>4, <1>6, <1>7 DEF Inv

\* The count a thread holds stays within what is stored.
LEMMA KeepsCounts ==
    ASSUME TypeOK, TypeOK', CountsStored, MoreStored, NEW q \in Correct, NEW d \in storing[q]
    PROVE  d.NewTotalSigCount <= Cardinality(SigMap'[q][d.kind][d.round][d.hash])
<1>1. /\ d.kind \in Kind /\ d.round \in Round /\ d.hash \in Value
      /\ d.NewTotalSigCount \in 0..GetMemberCount
  BY DEF TypeOK, CountTypes, Counts
<1>2. d.NewTotalSigCount \in Int
  BY <1>1, MemberCounts
<1>3. d.NewTotalSigCount <= Cardinality(SigMap[q][d.kind][d.round][d.hash])
  BY Zenon DEF CountsStored
<1>4. /\ Cardinality(SigMap[q][d.kind][d.round][d.hash]) \in Int
      /\ Cardinality(SigMap'[q][d.kind][d.round][d.hash]) \in Int
      /\ Cardinality(SigMap[q][d.kind][d.round][d.hash]) <= Cardinality(SigMap'[q][d.kind][d.round][d.hash])
  BY Zenon, <1>1, MoreCounted
<1> QED BY <1>2, <1>3, <1>4

\* A supported hash keeps its n-t stored votes.
LEMMA KeepsSupport ==
    ASSUME TypeOK, TypeOK', SupportStored, MoreStored, NEW q \in Correct, NEW k \in Kind,
           NEW r \in Round, supportedHash[q][k][r] # Nil
    PROVE  Cardinality(SigMap'[q][k][r][supportedHash[q][k][r]]) >= nmt
<1>1. /\ supportedHash[q][k][r] \in Value
      /\ Cardinality(SigMap[q][k][r][supportedHash[q][k][r]]) >= nmt
  BY DEF TypeOK, CountTypes, SupportStored
<1> QED BY <1>1, MoreCounted, MemberCounts

\* StoreMsg: a thread stores a vote.
LEMMA StoreMsgInv ==
    ASSUME Inv, NEW p \in Correct, NEW k \in Kind, NEW r \in Round, NEW h \in Value,
           NEW S \in SUBSET Signers(k, r, h), StoreMsg(p, k, r, h, S), UNCHANGED Coord
    PROVE  Inv'
<1>1. TypeOK /\ TypeOK'
  BY StoreMsgTypeOK DEF Inv
<1>0. Added(p, k, r, h, S)
  <2>1. Adds(p, k, r, h, S) /\ S \in SUBSET Members
    BY Zenon, <1>1, SignersMembers DEF StoreMsg, Adds
  <2> QED BY Zenon, <1>1, <2>1, SigMapAdd
<1>2. UNCHANGED <<sent, supportedHash, totalMsgCount, SelfMessages, pc, cons, panicked>>
  BY Zenon DEF StoreMsg, netVars
<1>3. /\ SigMap'[p][k][r][h] = SigMap[p][k][r][h] \cup S
      /\ \A q \in Correct, j \in Kind, i \in Round, g \in Value :
            (q # p \/ j # k \/ i # r \/ g # h) => SigMap'[q][j][i][g] = SigMap[q][j][i][g]
  BY Zenon, <1>0 DEF Added
<1>4. MoreStored
  BY Zenon, <1>0, AddedMore
<1>5. MoreSupported /\ OwnSent'
  BY Zenon, <1>2 DEF Inv, MoreSupported, OwnSent
<1>6. StoredSent'
  BY <1>2, <1>3 DEF Inv, StoredSent, Signers
<1>7. SupportStored'
  <2> SUFFICES ASSUME NEW q \in Correct, NEW j \in Kind, NEW i \in Round, supportedHash[q][j][i] # Nil
               PROVE  Cardinality(SigMap'[q][j][i][supportedHash[q][j][i]]) >= nmt
    BY Zenon, <1>2 DEF SupportStored
  <2> QED BY Zenon, <1>1, <1>4, KeepsSupport DEF Inv
<1>8. CountsStored'
  <2> SUFFICES ASSUME NEW q \in Correct, NEW d \in storing'[q]
               PROVE  d.NewTotalSigCount <= Cardinality(SigMap'[q][d.kind][d.round][d.hash])
    BY Zenon DEF CountsStored
  <2>1. CASE d \in storing[q]
    BY Zenon, <1>1, <1>4, <2>1, KeepsCounts DEF Inv
  <2>2. CASE d \notin storing[q]
    <3>1. q = p /\ d = NewCounts(p, k, r, h, S)
      BY <1>1, <2>2 DEF StoreMsg, TypeOK
    <3>2. /\ d.kind = k /\ d.round = r /\ d.hash = h
          /\ d.NewTotalSigCount = Cardinality(SigMap'[p][k][r][h])
      BY Zenon, <1>3, <3>1 DEF NewCounts
    <3>3. Cardinality(SigMap'[p][k][r][h]) \in Int
      BY <1>1, <1>4, MoreCounted
    <3> QED BY <3>1, <3>2, <3>3
  <2> QED BY Zenon, <2>1, <2>2
<1> QED BY Zenon, <1>1, <1>2, <1>4, <1>5, <1>6, <1>7, <1>8, StoredInv

\* Updating the supported hash from a count that what is stored bears out: no second hash has
\* n-t votes, so nobody panics and what is supported stays.
LEMMA UpdateRoundInv ==
    ASSUME Inv, TypeOK', UNCHANGED sent, MoreStored, StoredSent', NEW p \in Correct,
           NEW d \in Counts, UpdateRound(p, d),
           d.NewTotalSigCount <= Cardinality(SigMap'[p][d.kind][d.round][d.hash])
    PROVE  MoreSupported /\ SupportStored' /\ UNCHANGED panicked
<1> DEFINE k == d.kind
           r == d.round
           h == d.hash
           g == supportedHash[p][k][r]
           many == Enough(d.NewTotalSigCount)
           conflict == many /\ g \notin {Nil, h}
<1>1. k \in Kind /\ r \in Round /\ h \in Value /\ d.NewTotalSigCount \in 0..GetMemberCount
  BY DEF Counts
<1>2. g \in Value \cup {Nil} /\ TypeOK /\ h # Nil
  <2>1. TypeOK
    BY Zenon DEF Inv
  <2>2. g \in Value \cup {Nil}
    BY <1>1, <2>1 DEF TypeOK, CountTypes
  <2>3. h # Nil
    BY <1>1, Constants
  <2> QED BY Zenon, <2>1, <2>2, <2>3
<1>3. many => Cardinality(SigMap'[p][k][r][h]) >= nmt
  <2>1. d.NewTotalSigCount \in Int /\ Cardinality(SigMap'[p][k][r][h]) \in Int /\ nmt \in Int
    BY <1>1, <1>2, MoreCounted, MemberCounts
  <2> QED BY <2>1 DEF Enough
<1>4. ASSUME g # Nil PROVE g \in Value /\ Cardinality(SigMap'[p][k][r][g]) >= nmt
  BY Zenon, <1>1, <1>2, <1>4, KeepsSupport DEF Inv
<1>5. /\ supportedHash' = [supportedHash EXCEPT ![p][k][r] = IF many /\ ~ conflict THEN h ELSE g]
      /\ panicked' = [panicked EXCEPT ![p] = panicked[p] \/ conflict]
  BY Zenon DEF UpdateRound
<1> HIDE DEF k, r, h, g, many
<1>6. ~ conflict
  <2> SUFFICES ASSUME many, g # Nil PROVE g = h
    BY Zenon
  <2>1. \A f \in Value : SigMap'[p][k][r][f] \in SUBSET Signers(k, r, f)
    BY Zenon, <1>1 DEF StoredSent, Signers
  <2>2. VoteQuorum(k, r, g) /\ VoteQuorum(k, r, h)
    BY <1>1, <1>2, <1>3, <1>4, <2>1, VotesBack
  <2> QED BY <1>1, <1>2, <1>4, <2>2, OneQuorum DEF Inv
<1>7. UNCHANGED panicked
  <2>1. panicked \in [Correct -> BOOLEAN]
    BY Zenon, <1>2 DEF TypeOK, LoopTypes
  <2>2. (panicked[p] \/ conflict) = panicked[p]
    BY <1>6, <2>1, Zenon
  <2> QED BY <1>5, <2>1, <2>2, Zenon
<1>8. /\ supportedHash'[p][k][r] = IF many THEN h ELSE g
      /\ \A q \in Correct, j \in Kind, i \in Round :
            (q # p \/ j # k \/ i # r) => supportedHash'[q][j][i] = supportedHash[q][j][i]
  <2> HIDE DEF conflict
  <2> QED BY <1>1, <1>2, <1>5, <1>6, SMTT(30) DEF TypeOK, CountTypes
<1>9. many => g \in {Nil, h}
  BY Zenon, <1>6
<1>10. MoreSupported
  <2> SUFFICES ASSUME NEW q \in Correct, NEW j \in Kind, NEW i \in Round, supportedHash[q][j][i] # Nil
               PROVE  supportedHash'[q][j][i] = supportedHash[q][j][i]
    BY Zenon DEF MoreSupported
  <2>1. CASE q = p /\ j = k /\ i = r
    BY Zenon, <1>8, <1>9, <2>1 DEF g
  <2>2. CASE ~ (q = p /\ j = k /\ i = r)
    BY Zenon, <1>8, <2>2
  <2> QED BY Zenon, <2>1, <2>2
<1>11. SupportStored'
  <2> SUFFICES ASSUME NEW q \in Correct, NEW j \in Kind, NEW i \in Round, supportedHash'[q][j][i] # Nil
               PROVE  Cardinality(SigMap'[q][j][i][supportedHash'[q][j][i]]) >= nmt
    BY Zenon DEF SupportStored
  <2>1. CASE q = p /\ j = k /\ i = r
    <3>1. CASE many
      BY Zenon, <1>3, <1>8, <2>1, <3>1
    <3>2. CASE ~ many
      BY Zenon, <1>4, <1>8, <2>1, <3>2
    <3> QED BY Zenon, <3>1, <3>2
  <2>2. CASE ~ (q = p /\ j = k /\ i = r)
    <3>1. supportedHash'[q][j][i] = supportedHash[q][j][i]
      BY Zenon, <1>8, <2>2
    <3> QED BY Zenon, <1>2, <3>1, KeepsSupport DEF Inv
  <2> QED BY Zenon, <2>1, <2>2
<1> QED BY <1>7, <1>10, <1>11

\* Update: a thread brings its count, and the support that comes with it.
LEMMA UpdateInv ==
    ASSUME Inv, NEW p \in Correct, NEW d \in storing[p], Update(p, d), UNCHANGED Coord
    PROVE  Inv'
<1>1. TypeOK /\ TypeOK' /\ d \in Counts
  BY Zenon, UpdateTypeOK DEF Inv, TypeOK, CountTypes
<1>2. UNCHANGED <<sent, SigMap, SelfMessages, pc, cons>> /\ UpdateRound(p, d)
  BY DEF Update, netVars
<1>3. MoreStored /\ StoredSent' /\ OwnSent'
  BY Zenon, <1>2 DEF Inv, MoreStored, StoredSent, OwnSent, Signers
<1>4. CountsStored'
  <2>1. \A q \in Correct : storing'[q] \subseteq storing[q]
    BY <1>1 DEF Update, TypeOK, CountTypes
  <2> QED BY Zenon, <1>2, <2>1 DEF Inv, CountsStored
<1>5. d.NewTotalSigCount <= Cardinality(SigMap'[p][d.kind][d.round][d.hash])
  BY Zenon, <1>1, <1>3, KeepsCounts DEF Inv
<1>6. MoreSupported /\ SupportStored' /\ UNCHANGED panicked
  BY <1>1, <1>2, <1>3, <1>5, UpdateRoundInv
<1> QED BY <1>1, <1>2, <1>3, <1>4, <1>6, StoredInv

-----------------------------------------------------------------------------
(* The steps in which a node votes, and all of them.                       *)

\* The inductive invariant holds in every state: what every vote, decision and panic of a correct
\* node is backed by.
THEOREM Invariance == Spec => []Inv
  \* The node's own vote.
<1>SelfVoteInv.
    ASSUME Inv, NEW p \in Correct, ProcessSelfMessage(p), UNCHANGED Coord,
           NEW k \in Kind, NEW r \in Round, NEW h \in Value, p \in sent[k][r][h],
           Tail(SelfMessages[p]) \in Seq(Messages),
           SigMap' = [SigMap EXCEPT ![p][k][r][h] = SigMap[p][k][r][h] \cup {p}],
           UpdateRound(p, NewCounts(p, k, r, h, {p})), CheckFrom(p, r), UNCHANGED <<recovers, cons>>
    PROVE  Inv'
  <2> USE <1>SelfVoteInv
  <2> DEFINE d == NewCounts(p, k, r, h, {p})
  <2>1. TypeOK
    BY Zenon DEF Inv
  <2>2. SelfMessages[p] # <<>> /\ SelfMessages' = [SelfMessages EXCEPT ![p] = Tail(SelfMessages[p])]
    BY Zenon DEF ProcessSelfMessage
  <2>3. /\ Added(p, k, r, h, {p})
        /\ SigMap' \in [Correct -> [Kind -> [Round -> [Value -> SUBSET Members]]]]
    <3>1. Adds(p, k, r, h, {p}) /\ {p} \in SUBSET Members
      BY Zenon, Constants DEF Adds
    <3> QED BY Zenon, <2>1, <3>1, SigMapAdd
  <2>4. /\ d \in Counts /\ d.kind = k /\ d.round = r /\ d.hash = h
        /\ d.NewTotalSigCount = Cardinality(SigMap[p][k][r][h] \cup {p})
        /\ SigMap[p][k][r][h] \cup {p} \in SUBSET Members
    <3>1. {p} \in SUBSET Members
      BY Zenon, Constants
    <3> QED BY Zenon, <2>1, <3>1, NewCountsType DEF NewCounts
  <2> HIDE DEF d
  <2>5. UNCHANGED <<Coord, init, sent, requests, recovers, storing, queue, cons>>
    BY Zenon DEF ProcessSelfMessage
  <2>6. /\ pc' \in [Correct -> Places]
        /\ \A q \in Correct : pc'[q] = pc[q] \/ pc'[q].at = "timers"
    BY Zenon, <2>1, CheckFromTypeOK
  <2>7. TypeOK'
    <3>1. /\ supportedHash' \in [Correct -> [Kind -> [Round -> Value \cup {Nil}]]]
          /\ totalMsgCount' \in [Correct -> [Kind -> [Round -> 0..GetMemberCount]]]
          /\ panicked' \in [Correct -> BOOLEAN]
      BY Zenon, <2>1, <2>4, UpdateRoundTypeOK DEF d
    <3>2. SelfMessages' \in [Correct -> Seq(Messages)]
      BY <2>1, <2>2, Zenon DEF TypeOK, LoopTypes
    <3>3. SigMap' \in [Correct -> [Kind -> [Round -> [Value -> SUBSET Members]]]]
      BY Zenon, <2>3
    <3> QED BY Zenon, <2>1, <2>5, <2>6, <3>1, <3>2, <3>3 DEF TypeOK, NetTypes, CountTypes, LoopTypes
  <2>8. /\ SigMap'[p][k][r][h] = SigMap[p][k][r][h] \cup {p}
        /\ \A q \in Correct, j \in Kind, i \in Round, g \in Value :
              (q # p \/ j # k \/ i # r \/ g # h) => SigMap'[q][j][i][g] = SigMap[q][j][i][g]
    BY Zenon, <2>3 DEF Added
  <2>9. MoreStored
    BY Zenon, <2>3, AddedMore
  <2>10. StoredSent'
    BY <2>5, <2>8 DEF Inv, StoredSent, Signers
  <2>11. OwnSent'
    <3>1. \A q \in Correct : \/ SelfMessages'[q] = SelfMessages[q]
                             \/ SelfMessages[q] # <<>> /\ SelfMessages'[q] = Tail(SelfMessages[q])
      BY <2>1, <2>2 DEF TypeOK, LoopTypes
    <3> QED BY Zenon, <2>5, <3>1, OwnSentTail DEF Inv
  <2>12. CountsStored'
    <3> SUFFICES ASSUME NEW q \in Correct, NEW e \in storing'[q]
                 PROVE  e.NewTotalSigCount <= Cardinality(SigMap'[q][e.kind][e.round][e.hash])
      BY Zenon DEF CountsStored
    <3> QED BY Zenon, <2>1, <2>5, <2>7, <2>9, KeepsCounts DEF Inv
  <2>13. d.NewTotalSigCount <= Cardinality(SigMap'[p][d.kind][d.round][d.hash])
    <3>1. Cardinality(SigMap'[p][k][r][h]) \in Int
      BY Zenon, <2>1, <2>7, <2>9, MoreCounted
    <3>2. d.NewTotalSigCount = Cardinality(SigMap'[p][k][r][h])
      BY Zenon, <2>4, <2>8
    <3> QED BY <2>4, <3>1, <3>2
  <2>14. MoreSupported /\ SupportStored' /\ UNCHANGED panicked
    BY Zenon, <2>4, <2>5, <2>7, <2>9, <2>10, <2>13, UpdateRoundInv DEF d
  <2> QED BY Zenon, <2>5, <2>6, <2>7, <2>9, <2>10, <2>11, <2>12, <2>14, StoredInv
<1>ProcessSelfMessageInv.
    ASSUME Inv, NEW p \in Correct, ProcessSelfMessage(p), UNCHANGED Coord
    PROVE  Inv'
  <2> USE <1>ProcessSelfMessageInv
  <2> DEFINE m == Head(SelfMessages[p])
  <2>1. \/ /\ m.kind = "init" /\ ValidateInit(p, m.round, m.hash) /\ UNCHANGED <<msgVars, panicked>>
        \/ /\ m.kind # "init"
           /\ SigMap' = [SigMap EXCEPT ![p][m.kind][m.round][m.hash] =
                           SigMap[p][m.kind][m.round][m.hash] \cup {p}]
           /\ UpdateRound(p, NewCounts(p, m.kind, m.round, m.hash, {p}))
           /\ CheckFrom(p, m.round)
           /\ UNCHANGED <<recovers, cons>>
        \/ UNCHANGED <<msgVars, panicked, recovers, cons, pc>>
    BY Zenon DEF ProcessSelfMessage
  <2>2. CASE \/ m.kind = "init" /\ ValidateInit(p, m.round, m.hash) /\ UNCHANGED <<msgVars, panicked>>
             \/ UNCHANGED <<msgVars, panicked, recovers, cons, pc>>
    <3>1. TypeOK' /\ Quiet(p)
      BY Zenon, <2>2, SelfInitQuiet DEF Inv
    <3> QED BY <3>1, QuietInv
  <2>3. CASE /\ m.kind # "init"
             /\ SigMap' = [SigMap EXCEPT ![p][m.kind][m.round][m.hash] =
                             SigMap[p][m.kind][m.round][m.hash] \cup {p}]
             /\ UpdateRound(p, NewCounts(p, m.kind, m.round, m.hash, {p}))
             /\ CheckFrom(p, m.round)
             /\ UNCHANGED <<recovers, cons>>
    <3>1. /\ m \in Messages /\ m.kind \in Kind /\ p \in sent[m.kind][m.round][m.hash]
          /\ Tail(SelfMessages[p]) \in Seq(Messages)
      BY Zenon, <2>3, HeadType DEF Inv, ProcessSelfMessage
    <3>2. m.round \in Round /\ m.hash \in Value
      BY Zenon, <3>1 DEF Messages
    <3> HIDE DEF m
    <3> QED BY Zenon, <2>3, <3>1, <3>2, <1>SelfVoteInv
  <2> QED BY Zenon, <2>1, <2>2, <2>3
<1>VoteInv.
    ASSUME Inv, NEW p \in Correct, NEW k \in Kind, NEW r \in Round, NEW h \in Value, NEW u,
           Votes(p, k, r, h, u)
    PROVE  Inv'
  <2> USE <1>VoteInv
  <2> USE DEF Votes
  <2> DEFINE m == [kind |-> k, round |-> r, hash |-> h]
  <2>1. TypeOK
    BY Zenon DEF Inv
  <2>2. /\ sent' = [sent EXCEPT ![k][r][h] = sent[k][r][h] \cup {p}]
        /\ SelfMessages' = [SelfMessages EXCEPT ![p] = Append(SelfMessages[p], m)]
    BY Zenon DEF Broadcast
  <2>3. m \in Messages /\ m.kind = k /\ m.round = r /\ m.hash = h /\ k # "init"
    BY Zenon DEF Messages, Kind
  <2> HIDE DEF m
  <2>4. /\ sent'[k][r][h] = sent[k][r][h] \cup {p}
        /\ \A j \in Kind, i \in Round, g \in Value :
              (j # k \/ i # r \/ g # h) => sent'[j][i][g] = sent[j][i][g]
    BY <2>1, <2>2, SMTT(30) DEF TypeOK, NetTypes
  <2>5. TypeOK'
    <3>1. cons' \in [Correct -> Cons]
      BY <2>1, Zenon DEF TypeOK, LoopTypes, Flagged
    <3>2. SelfMessages' \in [Correct -> Seq(Messages)]
      BY Zenon, <2>1, <2>2, <2>3, AppendTypeOK
    <3>3. sent[k][r][h] \cup {p} \in SUBSET Correct
      BY <2>1 DEF TypeOK, NetTypes
    <3>4. sent' \in [Kind -> [Round -> [Value -> SUBSET Correct]]]
      BY Zenon, <2>1, <2>2, <3>3 DEF TypeOK, NetTypes
    <3> QED BY <2>1, <3>1, <3>2, <3>4 DEF TypeOK, NetTypes, CountTypes, LoopTypes, msgVars
  <2>6. \A j \in Kind, i \in Round, g \in Value : sent[j][i][g] \subseteq sent'[j][i][g]
    BY <2>4
  <2>7. cons'[p] = u /\ \A q \in Correct : q # p => cons'[q] = cons[q]
    BY Zenon, <2>1 DEF TypeOK, LoopTypes
  <2>8. VoteFlags'
    <3> SUFFICES ASSUME NEW q \in Correct, NEW i \in Round, NEW g \in Value
                 PROVE  /\ q \in sent'["echo"][i][g] => cons'[q].roundState[i].sentEcho
                        /\ q \in sent'["commit"][i][g] => cons'[q].roundState[i].sentCommit
      BY Zenon DEF VoteFlags
    <3>1. /\ q \in sent["echo"][i][g] => cons'[q].roundState[i].sentEcho
          /\ q \in sent["commit"][i][g] => cons'[q].roundState[i].sentCommit
      BY Zenon, <2>7 DEF Inv, VoteFlags, Flagged
    <3>2. \A j \in Kind : q \in sent'[j][i][g] => q \in sent[j][i][g] \/ (q = p /\ j = k /\ i = r)
      BY <2>4
    <3> QED BY <2>7, <3>1, <3>2, Constants
  <2>9. OneVote'
    <3> SUFFICES ASSUME NEW q \in Correct, NEW j \in Kind, NEW i \in Round, NEW f \in Value, NEW g \in Value,
                        q \in sent'[j][i][f], q \in sent'[j][i][g]
                 PROVE  f = g
      BY Zenon DEF OneVote
    <3>1. \A e \in Value : q \in sent'[j][i][e] => q \in sent[j][i][e] \/ (q = p /\ j = k /\ i = r /\ e = h)
      BY <2>4
    <3>2. q \in sent[j][i][f] /\ q \in sent[j][i][g] => f = g
      BY Zenon DEF Inv, OneVote
    <3> QED BY Zenon, <3>1, <3>2
  <2>10. OwnSent'
    <3>1. p \in sent'[k][r][h]
      BY <2>4
    <3> QED BY Zenon, <2>1, <2>2, <2>3, <2>6, <3>1, OwnSentAppend DEF Inv
  <2>11. UNCHANGED <<SigMap, supportedHash, totalMsgCount, storing>>
    BY Zenon DEF msgVars
  <2>12. StoredSent' /\ CountsStored' /\ SupportStored'
    BY Zenon, <2>6, <2>11 DEF Inv, StoredSent, CountsStored, SupportStored, Signers
  <2>13. CommitBacked'
    <3> SUFFICES ASSUME NEW i \in Round, NEW g \in Hash, sent'["commit"][i][g] # {}
                 PROVE  VoteQuorum("echo", i, g)'
      BY Zenon DEF CommitBacked
    <3>1. g \in Value /\ "echo" \in Kind /\ "commit" \in Kind
      BY Zenon, Constants
    <3>2. VoteQuorum("echo", i, g)
      <4>1. sent["commit"][i][g] # {} \/ ("commit" = k /\ i = r /\ g = h)
        BY <2>4, <3>1
      <4> QED BY Zenon, <4>1 DEF Inv, CommitBacked
    <3> QED BY <2>1, <2>5, <2>6, <3>1, <3>2, QuorumStays
  <2>14. EchoBacked'
    <3> SUFFICES ASSUME NEW i \in Round, NEW g \in Value, i > 0, sent'["echo"][i][g] # {}
                 PROVE  VoteQuorum("commit", i - 1, Zero)'
      BY Zenon DEF EchoBacked
    <3>1. Zero \in Value /\ i - 1 \in Round /\ "echo" \in Kind /\ "commit" \in Kind
      BY Zenon, Constants
    <3>2. VoteQuorum("commit", i - 1, Zero)
      <4>1. sent["echo"][i][g] # {} \/ ("echo" = k /\ i = r /\ g = h)
        BY <2>4, <3>1
      <4> QED BY Zenon, <4>1 DEF Inv, EchoBacked
    <3> QED BY <2>1, <2>5, <2>6, <3>1, <3>2, QuorumStays
  <2>15. ProofsKept'
    <3>1. ProofsKept /\ \A q \in Correct : cons'[q].round = cons[q].round
      BY Zenon, <2>7 DEF Inv, Flagged
    <3>2. \A q \in Correct, i \in Round : HasProof(q, i)' <=> HasProof(q, i)
      BY Zenon, <2>11 DEF HasProof, EchoProof, ZeroProof
    <3> QED BY Zenon, <3>1, <3>2 DEF ProofsKept
  <2>16. InRound'
    BY <2>7 DEF Inv, Flagged, InRound
  <2>17. DecisionSupported'
    BY <2>7, <2>11 DEF Inv, Flagged, DecisionSupported
  <2>18. PanicCause'
    BY <2>11 DEF Inv, PanicCause, TwoDecisions
  <2> QED BY Zenon, <2>5, <2>8, <2>9, <2>10, <2>12, <2>13, <2>14, <2>15, <2>16, <2>17, <2>18 DEF Inv
  \* Setting the flag of a vote, and starting a timeout.
<1>FlagEcho.
    ASSUME NEW s \in Cons, NEW r \in Round
    PROVE  LET u == [s EXCEPT !.roundState[r].sentEcho = TRUE] IN
           Flagged(s, u) /\ u.roundState[r].sentEcho
  <2> USE <1>FlagEcho
  <2> DEFINE x == [s.roundState EXCEPT ![r].sentEcho = TRUE]
  <2>1. s.roundState \in [Round -> RoundState]
    BY DEF Cons
  <2>2. /\ x \in [Round -> RoundState] /\ x[r].sentEcho
        /\ \A i \in Round : /\ s.roundState[i].sentEcho => x[i].sentEcho
                            /\ s.roundState[i].sentCommit => x[i].sentCommit
    BY Zenon, <2>1 DEF RoundState
  <2>3. [s EXCEPT !.roundState[r].sentEcho = TRUE] = [s EXCEPT !.roundState = x]
    OBVIOUS
  <2> HIDE DEF x
  <2>4. Flagged(s, [s EXCEPT !.roundState = x]) /\ [s EXCEPT !.roundState = x].roundState = x
    BY Zenon, <2>2 DEF Flagged, Cons
  <2> QED BY <2>2, <2>3, <2>4, Zenon
<1>FlagCommit.
    ASSUME NEW s \in Cons, NEW r \in Round
    PROVE  LET u == [s EXCEPT !.roundState[r].sentCommit = TRUE] IN
           Flagged(s, u) /\ u.roundState[r].sentCommit
  <2> USE <1>FlagCommit
  <2> DEFINE x == [s.roundState EXCEPT ![r].sentCommit = TRUE]
  <2>1. s.roundState \in [Round -> RoundState]
    BY DEF Cons
  <2>2. /\ x \in [Round -> RoundState] /\ x[r].sentCommit
        /\ \A i \in Round : /\ s.roundState[i].sentEcho => x[i].sentEcho
                            /\ s.roundState[i].sentCommit => x[i].sentCommit
    BY Zenon, <2>1 DEF RoundState
  <2>3. [s EXCEPT !.roundState[r].sentCommit = TRUE] = [s EXCEPT !.roundState = x]
    OBVIOUS
  <2> HIDE DEF x
  <2>4. Flagged(s, [s EXCEPT !.roundState = x]) /\ [s EXCEPT !.roundState = x].roundState = x
    BY Zenon, <2>2 DEF Flagged, Cons
  <2> QED BY <2>2, <2>3, <2>4, Zenon
<1>FlagTimeout.
    ASSUME NEW s \in Cons, NEW r \in Round, NEW k \in TimerKind
    PROVE  Flagged(s, startTimeout(s, r, k))
  <2> USE <1>FlagTimeout
  <2>1. SameVotes(s, startTimeout(s, r, k))
    BY StartTimeoutSame
  <2>2. /\ startTimeout(s, r, k).myProposalRound = s.myProposalRound
        /\ startTimeout(s, r, k).requestRecoverTimer = s.requestRecoverTimer
    BY DEF startTimeout, startTimer, Cons
  <2> QED BY <2>1, <2>2 DEF SameVotes, Flagged
<1>FlagTrans.
    ASSUME NEW s, NEW u, NEW w, Flagged(s, u), Flagged(u, w)
    PROVE  Flagged(s, w)
  BY Zenon, <1>FlagTrans DEF Flagged
  \* What a node echoes in a round after the first has n-t commits of zero behind it.
<1>EchoHashBacked.
    ASSUME Inv, NEW p \in Correct, NEW r \in Round, EchoHash(p, r) # Nil
    PROVE  EchoHash(p, r) \in Value /\ (r > 0 => VoteQuorum("commit", r - 1, Zero))
  <2> USE <1>EchoHashBacked
  <2> DEFINE inits == cons[p].initMessageByRound[r]
             valid == r = 0 \/ ZeroProof(p, r - 1)
             h == supportedHash[p]["echo"][r]
  <2>1. TypeOK /\ StoredSent /\ SupportStored
    BY DEF Inv
  <2>2. inits \in Seq(Hash) /\ h \in Value \cup {Nil} /\ "echo" \in Kind
    BY <2>1, Constants DEF TypeOK, CountTypes, LoopTypes, Cons
  <2>3. \/ valid /\ inits # <<>> /\ EchoHash(p, r) = Head(inits)
        \/ h # Nil /\ EchoHash(p, r) = h
        \/ valid /\ EchoHash(p, r) = Zero
    BY Zenon DEF EchoHash
  <2> HIDE DEF inits, h
  <2>4. EchoHash(p, r) \in Value
    <3>1. inits # <<>> => Head(inits) \in Hash
      BY <2>2
    <3> QED BY <2>2, <2>3, <3>1, Constants
  <2>5. ASSUME r > 0 PROVE VoteQuorum("commit", r - 1, Zero)
    <3>1. r - 1 \in Round /\ r # 0
      BY <2>5, Constants
    <3>2. CASE valid
      BY <2>1, <3>1, <3>2, ZeroProofBack
    <3>3. CASE h # Nil
      <4>1. h \in Value /\ VoteQuorum("echo", r, h)
        BY <2>1, <2>2, <3>3, SupportBack DEF h
      <4>2. sent["echo"][r][h] # {}
        BY <2>1, <2>2, <4>1, QuorumVoter
      <4> QED BY <2>5, <4>1, <4>2 DEF Inv, EchoBacked
    <3> QED BY <2>3, <3>2, <3>3
  <2> QED BY <2>4, <2>5
<1>CheckEchoInv.
    ASSUME Inv, NEW p \in Correct, CheckEcho(p), UNCHANGED Coord
    PROVE  Inv'
  <2> USE <1>CheckEchoInv
  <2> DEFINE r == pc[p].r
             h == EchoHash(p, r)
             s == [cons[p] EXCEPT !.roundState[r].sentEcho = TRUE]
             u == startTimeout(s, r, "echo")
  <2>1. TypeOK /\ cons[p] \in Cons /\ r \in Round /\ pc[p].at = "echo" /\ r = cons[p].round
    BY Zenon DEF Inv, TypeOK, LoopTypes, Places, CheckEcho, At, InRound
  <2>2. UNCHANGED <<init, requests, recovers, msgVars, storing, queue>>
    BY Zenon DEF CheckEcho
  <2>3. /\ pc' \in [Correct -> Places] /\ pc'[p].at = "commit" /\ pc'[p].r = r
        /\ \A q \in Correct : q # p => pc'[q] = pc[q]
    BY Zenon, <2>1, GotoTypeOK DEF CheckEcho
  <2>4. CASE ~ cons[p].roundState[r].sentEcho /\ h # Nil
    <3>1. /\ cons' = [cons EXCEPT ![p] = u]
          /\ Broadcast(p, "echo", r, h)
          /\ panicked' = [panicked EXCEPT ![p] =
                            panicked[p] \/ (includeProofs /\ r > 0 /\ ~ HasProof(p, r - 1))]
      BY Zenon, <2>4 DEF CheckEcho, Set
    <3>2. h \in Value /\ (r > 0 => VoteQuorum("commit", r - 1, Zero))
      BY <2>1, <2>4, <1>EchoHashBacked
    <3>3. Flagged(cons[p], u) /\ u.roundState[r].sentEcho
      <4>1. Flagged(cons[p], s) /\ s.roundState[r].sentEcho /\ s \in Cons
        BY Zenon, <2>1, <1>FlagEcho DEF Flagged
      <4>2. Flagged(s, u)
        BY Zenon, <2>1, <4>1, <1>FlagTimeout DEF TimerKind, Kind
      <4> HIDE DEF s, u
      <4> QED BY Zenon, <2>1, <4>1, <4>2, <1>FlagTrans DEF Flagged
    <3> HIDE DEF u, h
    <3>5. \A g \in Value : p \notin sent["echo"][r][g]
      BY Zenon, <2>1, <2>4 DEF Inv, VoteFlags
    <3>6. UNCHANGED panicked
      <4>1. r > 0 => HasProof(p, r - 1)
        <5> SUFFICES ASSUME r > 0 PROVE HasProof(p, r - 1)
          OBVIOUS
        <5>1. r - 1 \in Round /\ r - 1 < cons[p].round
          BY <2>1, Constants
        <5> QED BY <5>1 DEF Inv, ProofsKept
      <4>2. panicked \in [Correct -> BOOLEAN]
        BY <2>1 DEF TypeOK, LoopTypes
      <4>3. (panicked[p] \/ (includeProofs /\ r > 0 /\ ~ HasProof(p, r - 1))) = panicked[p]
        BY <4>1, <4>2, Zenon
      <4> QED BY <3>1, <4>2, <4>3, Zenon
    <3> HIDE DEF r
    <3>7. Votes(p, "echo", r, h, u)
      BY Zenon, <2>1, <2>2, <2>3, <3>1, <3>2, <3>3, <3>5, <3>6 DEF Votes
    <3> QED BY Zenon, <2>1, <3>2, <3>7, Constants, <1>VoteInv
  <2>5. CASE ~ (~ cons[p].roundState[r].sentEcho /\ h # Nil)
    <3>1. UNCHANGED <<cons, sent, SelfMessages, panicked>>
      BY Zenon, <2>5 DEF CheckEcho
    <3>2. TypeOK'
      BY Zenon, <2>1, <2>2, <2>3, <3>1 DEF TypeOK, NetTypes, CountTypes, LoopTypes, msgVars
    <3>3. Quiet(p)
      <4>1. \E w \in Cons : SameVotes(cons[p], w) /\ cons' = [cons EXCEPT ![p] = w]
        BY <2>1, <3>1, SameCons
      <4> QED BY Zenon, <2>1, <2>2, <2>3, <3>1, <4>1 DEF Quiet
    <3> QED BY <3>2, <3>3, QuietInv
  <2> QED BY Zenon, <2>4, <2>5
<1>CheckCommitInv.
    ASSUME Inv, NEW p \in Correct, CheckCommit(p), UNCHANGED Coord
    PROVE  Inv'
  <2> USE <1>CheckCommitInv
  <2> DEFINE r == pc[p].r
             g == supportedHash[p]["echo"][r]
             h == CommitHash(p, r)
             s == startTimeout(cons[p], r, "commit")
             u == [s EXCEPT !.roundState[r].sentCommit = TRUE]
  <2>1. TypeOK /\ cons[p] \in Cons /\ r \in Round /\ pc[p].at = "commit" /\ r = cons[p].round
    BY Zenon DEF Inv, TypeOK, LoopTypes, Places, CheckCommit, At, InRound
  <2>2. UNCHANGED <<init, requests, recovers, msgVars, storing, queue>>
    BY Zenon DEF CheckCommit
  <2>3. /\ pc' \in [Correct -> Places] /\ pc'[p].at = "decide"
        /\ \A q \in Correct : q # p => pc'[q] = pc[q]
    BY Zenon, <2>1, GotoTypeOK DEF CheckCommit
  <2>4. CASE ~ cons[p].roundState[r].sentCommit /\ h # Nil
    <3>1. /\ cons' = [cons EXCEPT ![p] = u]
          /\ Broadcast(p, "commit", r, h)
          /\ panicked' = [panicked EXCEPT ![p] = panicked[p] \/ CommitProofMissing(p, r, h)]
      BY Zenon, <2>4 DEF CheckCommit, Set
    <3>2. h \in Value /\ (h # Zero => h = g /\ g # Nil /\ h \in Hash) /\ (h \in Hash => h # Zero)
      <4>1. h = Zero \/ h = g
        BY Zenon DEF CommitHash
      <4>2. g \in Value \cup {Nil}
        BY <2>1, Constants DEF TypeOK, CountTypes
      <4> HIDE DEF g, h
      <4> QED BY <2>4, <4>1, <4>2, Constants DEF Value
    <3>3. Flagged(cons[p], u) /\ u.roundState[r].sentCommit
      <4>1. Flagged(cons[p], s) /\ s \in Cons
        <5>1. "commit" \in TimerKind
          BY DEF TimerKind, Kind
        <5>2. Flagged(cons[p], s)
          BY <2>1, <5>1, <1>FlagTimeout
        <5> HIDE DEF s
        <5> QED BY <5>2 DEF Flagged
      <4> HIDE DEF s
      <4>2. Flagged(s, u) /\ u.roundState[r].sentCommit
        BY Zenon, <2>1, <4>1, <1>FlagCommit
      <4> QED BY Zenon, <4>1, <4>2, <1>FlagTrans
    <3> HIDE DEF u, h
    <3>4. \A f \in Value : p \notin sent["commit"][r][f]
      BY Zenon, <2>1, <2>4 DEF Inv, VoteFlags
    <3>5. h \in Hash => VoteQuorum("echo", r, h)
      <4> SUFFICES ASSUME h \in Hash PROVE VoteQuorum("echo", r, h)
        OBVIOUS
      <4>1. VoteQuorum("echo", r, g)
        BY Zenon, <2>1, <3>2, Constants, SupportBack DEF Inv
      <4> QED BY Zenon, <3>2, <4>1
    <3>6. ~ CommitProofMissing(p, r, h)
      <4>1. CASE h = Zero
        <5>1. r > 0 => HasProof(p, r - 1)
          <6> SUFFICES ASSUME r > 0 PROVE HasProof(p, r - 1)
            OBVIOUS
          <6>1. r - 1 \in Round /\ r - 1 < cons[p].round
            BY <2>1, Constants
          <6> QED BY <6>1 DEF Inv, ProofsKept
        <5> QED BY <4>1, <5>1 DEF CommitProofMissing
      <4>2. CASE h # Zero
        <5>1. g \in Hash /\ Cardinality(SigMap[p]["echo"][r][g]) >= nmt
          BY Zenon, <2>1, <3>2, <4>2, Constants DEF Inv, SupportStored
        <5>2. HasProof(p, r)
          BY Zenon, <5>1 DEF HasProof, EchoProof
        <5> QED BY <4>2, <5>2 DEF CommitProofMissing
      <4> QED BY <4>1, <4>2
    <3>7. UNCHANGED panicked
      <4>1. panicked \in [Correct -> BOOLEAN]
        BY <2>1 DEF TypeOK, LoopTypes
      <4>2. (panicked[p] \/ CommitProofMissing(p, r, h)) = panicked[p]
        BY <3>6, <4>1, Zenon
      <4> QED BY <3>1, <4>1, <4>2, Zenon
    <3> HIDE DEF r, g
    <3>8. Votes(p, "commit", r, h, u)
      BY Zenon, <2>1, <2>2, <2>3, <3>1, <3>3, <3>4, <3>5, <3>7 DEF Votes
    <3> QED BY <2>1, <3>2, <3>8, Constants, <1>VoteInv
  <2>5. CASE ~ (~ cons[p].roundState[r].sentCommit /\ h # Nil)
    <3>1. UNCHANGED <<cons, sent, SelfMessages, panicked>>
      BY Zenon, <2>5 DEF CheckCommit
    <3>2. TypeOK'
      BY Zenon, <2>1, <2>2, <2>3, <3>1 DEF TypeOK, NetTypes, CountTypes, LoopTypes, msgVars
    <3>3. Quiet(p)
      <4>1. \E w \in Cons : SameVotes(cons[p], w) /\ cons' = [cons EXCEPT ![p] = w]
        BY <2>1, <3>1, SameCons
      <4> QED BY Zenon, <2>1, <2>2, <2>3, <3>1, <4>1 DEF Quiet
    <3> QED BY <3>2, <3>3, QuietInv
  <2> QED BY Zenon, <2>4, <2>5
  \* A decision: of a hash that n-t commit.  It panics if that is not the one decided before.
<1>CheckDecideInv.
    ASSUME Inv, NEW p \in Correct, CheckDecide(p), UNCHANGED Coord
    PROVE  Inv'
  <2> USE <1>CheckDecideInv
  <2> DEFINE s == cons[p]
             r == pc[p].r
             h == supportedHash[p]["commit"][r]
             differs == s.decisionHash \notin {Nil, h}
  <2>1. TypeOK /\ s \in Cons /\ r \in Round
    BY Zenon DEF Inv, TypeOK, LoopTypes, Places
  <2>2. UNCHANGED <<Coord, init, sent, requests, recovers, SigMap, supportedHash, totalMsgCount,
                    storing, queue, SelfMessages>>
    BY Zenon DEF CheckDecide, msgVars, netVars
  <2>3. /\ pc' \in [Correct -> Places] /\ pc'[p].at = "next"
        /\ \A q \in Correct : q # p => pc'[q] = pc[q]
    BY Zenon, <2>1, GotoTypeOK DEF CheckDecide
  <2>4. \/ UNCHANGED <<cons, panicked>>
        \/ h \in Hash /\ differs /\ UNCHANGED cons /\ panicked' = [panicked EXCEPT ![p] = panicked[p] \/ differs]
        \/ h \in Hash /\ ~ differs /\ cons' = [cons EXCEPT ![p] = Decided(s, h)]
             /\ panicked' = [panicked EXCEPT ![p] = panicked[p] \/ differs]
    BY Zenon DEF CheckDecide, Set
  <2>5. /\ OneVote' /\ StoredSent' /\ CountsStored' /\ SupportStored' /\ CommitBacked' /\ EchoBacked'
        /\ \A q, i : HasProof(q, i)' <=> HasProof(q, i)
        /\ \A q : TwoDecisions(q)' <=> TwoDecisions(q)
    BY <2>2, KeepsVotes
  <2>6. OwnSent'
    BY Zenon, <2>2 DEF Inv, OwnSent
  <2>7. panicked' \in [Correct -> BOOLEAN] /\ PanicCause'
    <3>1. panicked \in [Correct -> BOOLEAN] /\ PanicCause
      BY Zenon, <2>1 DEF TypeOK, LoopTypes, Inv
    <3>2. h \in Hash /\ differs => TwoDecisions(p)
      <4> SUFFICES ASSUME h \in Hash, differs PROVE TwoDecisions(p)
        BY Zenon
      <4>1. s.decisionHash # Nil /\ s.decisionHash # h /\ s.decisionHash \in Hash
        BY Zenon, <2>1 DEF Cons
      <4>2. PICK i \in Round : supportedHash[p]["commit"][i] = s.decisionHash
        BY Zenon, <4>1 DEF Inv, DecisionSupported
      <4> QED BY Zenon, <2>1, <4>1, <4>2 DEF TwoDecisions
    <3> HIDE DEF differs, h
    <3>3. panicked' \in [Correct -> BOOLEAN]
      BY <2>4, <3>1, Zenon
    <3>4. \A q \in Correct : panicked'[q] => panicked[q] \/ (q = p /\ h \in Hash /\ differs)
      BY <2>4, <3>1, Zenon
    <3> QED BY <2>5, <3>1, <3>2, <3>3, <3>4 DEF PanicCause
  <2>8. CASE UNCHANGED cons
    <3>1. TypeOK'
      BY Zenon, <2>1, <2>2, <2>3, <2>7, <2>8 DEF TypeOK, NetTypes, CountTypes, LoopTypes
    <3>2. VoteFlags' /\ ProofsKept' /\ InRound' /\ DecisionSupported'
      BY <2>2, <2>3, <2>5, <2>8 DEF Inv, VoteFlags, ProofsKept, InRound, DecisionSupported
    <3> QED BY Zenon, <2>5, <2>6, <2>7, <3>1, <3>2 DEF Inv
  <2>9. CASE h \in Hash /\ cons' = [cons EXCEPT ![p] = Decided(s, h)]
    <3> DEFINE u == Decided(s, h)
    <3> HIDE DEF h
    <3>1. /\ u \in Cons /\ u.decisionHash = h /\ u.round = s.round
          /\ u.myProposalRound = s.myProposalRound /\ u.roundState = s.roundState
      BY Zenon, <2>1, <2>9 DEF Decided, Cons
    <3> HIDE DEF u
    <3>2. cons'[p] = u /\ (\A q \in Correct : q # p => cons'[q] = cons[q]) /\ cons' \in [Correct -> Cons]
      BY Zenon, <2>1, <2>9, <3>1 DEF TypeOK, LoopTypes, u
    <3>3. TypeOK'
      BY Zenon, <2>1, <2>2, <2>3, <2>7, <3>2 DEF TypeOK, NetTypes, CountTypes, LoopTypes
    <3>4. VoteFlags' /\ ProofsKept' /\ InRound'
      <4>1. VoteFlags /\ ProofsKept /\ InRound
        BY Zenon DEF Inv
      <4> QED BY <2>2, <2>3, <2>5, <3>1, <3>2, <4>1 DEF VoteFlags, ProofsKept, InRound
    <3>5. DecisionSupported'
      <4> SUFFICES ASSUME NEW q \in Correct
                   PROVE  /\ cons'[q].decisionHash # Nil =>
                               \E i \in Round : supportedHash[q]["commit"][i] = cons'[q].decisionHash
                          /\ cons'[q].requestRecoverTimer # "nil" => cons'[q].decisionHash # Nil
        BY <2>2 DEF DecisionSupported
      <4>1. CASE q = p
        <5>1. h # Nil
          BY <2>9, Constants
        <5> QED BY <2>1, <3>1, <3>2, <4>1, <5>1 DEF h
      <4>2. CASE q # p
        BY <3>2, <4>2 DEF Inv, DecisionSupported
      <4> QED BY <4>1, <4>2
    <3> QED BY <2>5, <2>6, <2>7, <3>3, <3>4, <3>5 DEF Inv
  <2> QED BY Zenon, <2>4, <2>8, <2>9
<1>CheckNextInv.
    ASSUME Inv, NEW p \in Correct, CheckNext(p), UNCHANGED Coord
    PROVE  Inv'
  <2> USE <1>CheckNextInv
  <2> DEFINE r == pc[p].r
             s == [cons[p] EXCEPT !.round = r + 1]
  <2>1. TypeOK /\ cons[p] \in Cons /\ r \in Round /\ cons[p].round \in Round
    BY Zenon DEF Inv, TypeOK, LoopTypes, Places, Cons
  <2>2. UNCHANGED <<Coord, sent, requests, recovers, SigMap, supportedHash, totalMsgCount, storing, queue>>
    BY Zenon DEF CheckNext, msgVars
  <2>3. CASE Advances(p, r) /\ r < MaxRound
    <3>1. startRound(p, s) /\ NextRound(p, r + 1)
      BY Zenon, <2>3 DEF CheckNext
    <3>2. r + 1 \in Round /\ r \in Nat /\ cons[p].myProposalRound \in Nat /\ \A i \in Round : i \in Nat
      BY <2>1, <2>3, Constants DEF Cons
    <3>3. /\ s \in Cons /\ s.round = r + 1 /\ s.decisionHash = cons[p].decisionHash
          /\ s.requestRecoverTimer = cons[p].requestRecoverTimer
          /\ s.roundState = cons[p].roundState /\ s.myProposalRound = cons[p].myProposalRound
      BY Zenon, <2>1, <3>2 DEF Cons
    <3> HIDE DEF s
    <3>4. /\ pc' \in [Correct -> Places]
          /\ pc'[p].at \in {"timers", "recv"}
          /\ \A q \in Correct : q # p => pc'[q] = pc[q]
      BY Zenon, <2>1, <3>1, <3>2, NextRoundTypeOK
    <3>5. Speaks(p, s)
      BY Zenon, <3>1, <3>3, StartRoundEffect DEF Speaks
    <3>6. TypeOK'
      BY Zenon, <2>1, <2>2, <3>4, <3>5, SpeaksTypeOK DEF TypeOK, NetTypes, CountTypes, LoopTypes
    <3>7. r = cons[p].round /\ HasProof(p, r)
      BY Zenon, <2>3 DEF Advances
    <3>8. s.myProposalRound <= s.round
      BY <3>2, <3>3, <3>7 DEF Inv, InRound
    <3>9. \A i \in Round : i < s.round => HasProof(p, i)
      <4> SUFFICES ASSUME NEW i \in Round, i < r + 1 PROVE HasProof(p, i)
        BY <3>3
      <4>1. i = r \/ i < cons[p].round
        BY <3>2, <3>7
      <4> QED BY <3>7, <4>1 DEF Inv, ProofsKept
    <3>10. pc'[p].at \in {"echo", "commit"} => pc'[p].r = s.round
      BY <3>4
    <3> QED BY Zenon, <2>2, <3>3, <3>4, <3>5, <3>6, <3>8, <3>9, <3>10, SpeaksInv
  <2>4. CASE ~ (Advances(p, r) /\ r < MaxRound)
    <3>1. NextRound(p, cons[p].round) /\ UNCHANGED <<cons, init, SelfMessages, panicked>>
      BY <2>4 DEF CheckNext
    <3>2. /\ pc' \in [Correct -> Places]
          /\ pc'[p].at \in {"timers", "recv"}
          /\ \A q \in Correct : q # p => pc'[q] = pc[q]
      BY Zenon, <2>1, <3>1, NextRoundTypeOK
    <3>3. TypeOK'
      BY Zenon, <2>1, <2>2, <3>1, <3>2 DEF TypeOK, NetTypes, CountTypes, LoopTypes
    <3>4. Quiet(p)
      <4>1. \E w \in Cons : SameVotes(cons[p], w) /\ cons' = [cons EXCEPT ![p] = w]
        BY <2>1, <3>1, SameCons
      <4> QED BY Zenon, <2>2, <3>1, <3>2, <4>1 DEF Quiet, msgVars
    <3> QED BY <3>3, <3>4, QuietInv
  <2> QED BY <2>3, <2>4
<1>NextInv. Inv /\ [Next]_vars => Inv'
  <2> SUFFICES ASSUME Inv, [Next]_vars PROVE Inv'
    OBVIOUS
  <2>1. CASE UNCHANGED vars
    <3>1. UNCHANGED <<Coord, init, sent, requests, recovers, SigMap, supportedHash, totalMsgCount,
                      storing, queue, SelfMessages, pc, cons, panicked>>
      BY <2>1 DEF vars, netVars, msgVars
    <3>2. TypeOK' /\ VoteFlags' /\ OwnSent' /\ InRound' /\ DecisionSupported'
      BY Zenon, <3>1 DEF Inv, TypeOK, NetTypes, CountTypes, LoopTypes, VoteFlags, OwnSent, InRound, DecisionSupported
    <3>3. /\ OneVote' /\ StoredSent' /\ CountsStored' /\ SupportStored' /\ CommitBacked' /\ EchoBacked'
          /\ ProofsKept' /\ PanicCause'
      BY <3>1, KeepsVotes DEF Inv, ProofsKept, PanicCause
    <3> QED BY <3>2, <3>3 DEF Inv
  <2>4. ASSUME UNCHANGED Coord, NEW p \in Correct, QuietStep(p) PROVE Inv'
    <3>1. TypeOK' /\ Quiet(p)
      BY Zenon, <2>4, QuietSteps DEF Inv
    <3> QED BY <2>4, <3>1, QuietInv
  <2>2. ASSUME UNCHANGED Coord, NEW p \in Correct, GotMsg(p) PROVE Inv'
    <3>1. CASE \E k \in Kind, r \in Round, h \in Value :
                  \E S \in SUBSET Signers(k, r, h) : StoreMsg(p, k, r, h, S)
      BY <2>2, <3>1, StoreMsgInv
    <3>2. CASE \E d \in storing[p] : Update(p, d)
      BY Zenon, <2>2, <3>2, UpdateInv
    <3>3. CASE \E r \in Round, h \in Hash : RecvInit(p, r, h)
      BY Zenon, <2>2, <3>3, <2>4 DEF QuietStep
    <3> QED BY <2>2, <3>1, <3>2, <3>3 DEF GotMsg
  <2>3. ASSUME UNCHANGED Coord, NEW p \in Correct, MainLoop(p) PROVE Inv'
    <3>1. CASE Start(p) \/ \E h \in Hash : GotProposal(p, h)
      BY <2>3, <3>1, ProposalInv
    <3>2. CASE QuietStep(p)
      BY <2>3, <3>2, <2>4
    <3>3. CASE ProcessSelfMessage(p)
      BY <2>3, <3>3, <1>ProcessSelfMessageInv
    <3>4. CASE CheckEcho(p) \/ CheckCommit(p) \/ CheckDecide(p) \/ CheckNext(p)
      BY <2>3, <3>4, <1>CheckEchoInv, <1>CheckCommitInv, <1>CheckDecideInv, <1>CheckNextInv
    <3> QED BY Zenon, <2>3, <3>1, <3>2, <3>3, <3>4 DEF MainLoop, checkProgressRound, QuietStep
  <2> QED BY <2>1, <2>2, <2>3 DEF Next
<1>1. Init => Inv
  BY InitInv
<1>2. Inv /\ [Next]_vars => Inv'
  BY <1>NextInv
<1> QED BY <1>1, <1>2, PTL DEF Spec
-----------------------------------------------------------------------------
(* What follows from it.                                                   *)

\* Two hashes supported in a round have two quorums of it, which share a correct node.
LEMMA InvOneHash == Inv => OneHashPerRound
<1> SUFFICES ASSUME Inv, NEW p \in Correct, NEW q \in Correct, NEW k \in Kind, NEW r \in Round,
                    supportedHash[p][k][r] # Nil, supportedHash[q][k][r] # Nil
             PROVE  supportedHash[p][k][r] = supportedHash[q][k][r]
  BY DEF OneHashPerRound
<1>1. /\ supportedHash[p][k][r] \in Value /\ VoteQuorum(k, r, supportedHash[p][k][r])
      /\ supportedHash[q][k][r] \in Value /\ VoteQuorum(k, r, supportedHash[q][k][r])
  BY Zenon, SupportBack DEF Inv
<1> QED BY Zenon, <1>1, OneQuorum DEF Inv

\* n-t commits of a hash, at two nodes, exclude n-t commits of zero.
LEMMA ZeroExcludes ==
    ASSUME Inv, NEW q \in Correct, NEW r \in Round, VoteQuorum("commit", r, Zero)
    PROVE  supportedHash[q]["commit"][r] \notin Hash
<1> SUFFICES ASSUME supportedHash[q]["commit"][r] \in Hash PROVE FALSE
  OBVIOUS
<1>1. /\ supportedHash[q]["commit"][r] # Nil /\ supportedHash[q]["commit"][r] # Zero
      /\ "commit" \in Kind /\ Zero \in Value
  BY Constants
<1>2. /\ supportedHash[q]["commit"][r] \in Value
      /\ VoteQuorum("commit", r, supportedHash[q]["commit"][r])
  BY Zenon, <1>1, SupportBack DEF Inv
<1> QED BY <1>1, <1>2, OneQuorum DEF Inv

\* Commits for zero from a quorum exclude a quorum of commits for a hash in that round.
LEMMA InvZero == Inv => ZeroMeansUndecided
<1> SUFFICES ASSUME Inv, NEW p \in Correct, NEW q \in Correct, NEW r \in Round, ZeroProof(p, r)
             PROVE  supportedHash[q]["commit"][r] \notin Hash
  BY DEF ZeroMeansUndecided
<1>1. VoteQuorum("commit", r, Zero)
  BY ZeroProofBack DEF Inv
<1> QED BY <1>1, ZeroExcludes

\* A hash with commits in the next round has an echo there, whose sender left this round
\* behind a quorum of commits for zero.
LEMMA InvNextRound == Inv => NextRoundUndecided
<1> SUFFICES ASSUME Inv, NEW p \in Correct, NEW q \in Correct, NEW r \in Round, r # MaxRound,
                    supportedHash[p]["commit"][r] \in Hash, supportedHash[q]["commit"][r + 1] \in Hash
             PROVE  FALSE
  BY DEF NextRoundUndecided
<1> DEFINE h == supportedHash[q]["commit"][r + 1]
<1>1. r + 1 \in Round /\ r + 1 > 0 /\ (r + 1) - 1 = r /\ "echo" \in Kind /\ "commit" \in Kind
  BY MvCons2Assumption DEF Round, Kind
<1>2. h # Nil /\ h \in Value
  BY Constants
<1>3. VoteQuorum("commit", r + 1, h)
  BY <1>1, <1>2, SupportBack DEF Inv
<1> HIDE DEF h
<1>4. VoteQuorum("echo", r + 1, h)
  <2>1. sent["commit"][r + 1][h] # {}
    BY Zenon, <1>1, <1>2, <1>3, QuorumVoter DEF Inv
  <2> QED BY Zenon, <1>1, <2>1 DEF Inv, CommitBacked, h
<1>5. VoteQuorum("commit", r, Zero)
  <2>1. sent["echo"][r + 1][h] # {}
    BY Zenon, <1>1, <1>2, <1>4, QuorumVoter DEF Inv
  <2> QED BY Zenon, <1>1, <1>2, <2>1 DEF Inv, EchoBacked
<1> QED BY <1>5, ZeroExcludes

\* With two rounds, or in any two rounds in a row, n-t commits are there for one hash only.
LEMMA TwoRounds ==
    ASSUME Inv, MaxRound <= 1, NEW p \in Correct, NEW q \in Correct, NEW r \in Round, NEW s \in Round,
           supportedHash[p]["commit"][r] \in Hash, supportedHash[q]["commit"][s] \in Hash
    PROVE  supportedHash[p]["commit"][r] = supportedHash[q]["commit"][s]
<1>1. CASE r = s
  BY <1>1, InvOneHash, Constants DEF OneHashPerRound
<1>2. CASE r # s
  <2>1. (r # MaxRound /\ s = r + 1) \/ (s # MaxRound /\ r = s + 1)
    BY <1>2, MvCons2Assumption DEF Round
  <2> QED BY <2>1, InvNextRound DEF NextRoundUndecided
<1> QED BY <1>1, <1>2

\* OneHashPerRound: GotMsg never has two hashes of one kind and round to support, at any two nodes.
THEOREM OneHashPerRoundHolds == Spec => []OneHashPerRound
BY Invariance, InvOneHash, PTL

\* ZeroMeansUndecided: the n-t commits of zero that let a node echo anything in the next round
\* show that this round decides nowhere.
THEOREM ZeroMeansUndecidedHolds == Spec => []ZeroMeansUndecided
BY Invariance, InvZero, PTL

\* NextRoundUndecided: no two rounds in a row have n-t commits of a hash, of whatever hash.
THEOREM NextRoundUndecidedHolds == Spec => []NextRoundUndecided
BY Invariance, InvNextRound, PTL

\* Of the five panics of MvCons2 only "committed two different hashes" can be reached, by a node
\* that has n-t commits of two hashes, in rounds that do not follow each other: the proofs that
\* getProposal, broadcastEcho and broadcastCommit need are always there.
THEOREM PanicCauseHolds == Spec => [](PanicCause /\ NextRoundUndecided)
<1>1. Inv => PanicCause /\ NextRoundUndecided
  BY InvNextRound DEF Inv
<1> QED BY <1>1, Invariance, PTL

\* NoPanic: within two rounds no panic is reached.  With a third one it is (run mvcons2_agree).
THEOREM NoPanicHolds == Spec => [](MaxRound <= 1 => NoPanic)
<1>1. Inv => (MaxRound <= 1 => NoPanic)
  <2> SUFFICES ASSUME Inv, MaxRound <= 1, NEW p \in Correct, panicked[p] PROVE FALSE
    BY DEF NoPanic
  <2>1. TwoDecisions(p)
    BY DEF Inv, PanicCause
  <2> QED BY <2>1, TwoRounds DEF TwoDecisions
<1> QED BY <1>1, Invariance, PTL

\* Agreement: within two rounds no two correct nodes decide different hashes.  The bound is sharp:
\* with three rounds Agreement is violated (run mvcons2_agree).
THEOREM AgreementHolds == Spec => [](MaxRound <= 1 => Agreement)
<1>1. Inv => (MaxRound <= 1 => Agreement)
  <2> SUFFICES ASSUME Inv, MaxRound <= 1, NEW p \in Correct, NEW q \in Correct,
                      cons[p].decisionHash # Nil, cons[q].decisionHash # Nil
               PROVE  cons[p].decisionHash = cons[q].decisionHash
    BY DEF Agreement
  <2>1. cons[p].decisionHash \in Hash /\ cons[q].decisionHash \in Hash
    BY Zenon DEF Inv, TypeOK, LoopTypes, Cons
  <2>2. PICK r \in Round : supportedHash[p]["commit"][r] = cons[p].decisionHash
    BY DEF Inv, DecisionSupported
  <2>3. PICK s \in Round : supportedHash[q]["commit"][s] = cons[q].decisionHash
    BY DEF Inv, DecisionSupported
  <2> QED BY <2>1, <2>2, <2>3, TwoRounds
<1> QED BY <1>1, Invariance, PTL
=============================================================================
