---------------------------- MODULE BinCons1_rest ---------------------------
(***************************************************************************)
(* What holds of BinCons1 when nothing is left to do: the counters are     *)
(* exact, and no node is left undecided by the others.                     *)
(*                                                                         *)
(* The invariant RestInv says of everything that is not as it should be in *)
(* the end who is about to set it right: a thread that has stored but not  *)
(* counted yet, or the main loop, which has a round to check from which it *)
(* comes to the one that decides.                                          *)
(***************************************************************************)
EXTENDS BinCons1_proofs, MCBinCons1

\* The members p has stored a message of round r of.
Heard(p, r) == SigMap[p][r][0] \cup SigMap[p][r][1]

\* A counter is exact, or a thread comes with the exact count; none is too large.
NumsSettle ==
    \A p \in Correct, r \in Rounds, v \in Bin :
        \/ BinNums[p][r][v] = Cardinality(SigMap[p][r][v])
        \/ \E d \in storing[p] : /\ d.round = r /\ d.val = v
                                 /\ d.NewTotalSigCount = Cardinality(SigMap[p][r][v])

TotalsStored ==
    \A p \in Correct :
        /\ \A r \in Rounds : TotalBinMsgCount[p][r] <= Cardinality(Heard(p, r))
        /\ \A d \in storing[p] : d.NewMsgIDSigCount <= Cardinality(Heard(p, d.round))

TotalsSettle ==
    \A p \in Correct, r \in Rounds :
        \/ TotalBinMsgCount[p][r] = Cardinality(Heard(p, r))
        \/ \E d \in storing[p] : d.round = r /\ d.NewMsgIDSigCount = Cardinality(Heard(p, r))

\* The rounds whose messages matter for a decision in round r.
Window(r) == {s \in Rounds : r - 2 <= s /\ s <= r}

\* A node that can decide in round r, and gets that far once it checks a round of the window, is
\* about to check one.
CanDecide(p, r) == Decides(p, r) /\ \A s \in Window(r) : TotalBinMsgCount[p][s] >= nmt

CheckDue ==
    \A p \in Correct, r \in Rounds :
        Decided[p] = NotDecided /\ CanDecide(p, r) =>
            \E s \in Window(r) : s \in queue[p] \/ s = checking[p]

\* Only a decision terminates a node, and what made it decide stays.
TerminatedDecided == \A p \in Correct : terminated[p] => Decided[p] # NotDecided

DecidedHere == \A p \in Correct : Decided[p] # NotDecided => Decides(p, decidedRound[p])

\* A message of a later round comes from a node with n-t messages of the round before.
RoundBacked ==
    \A r \in Rounds, v \in Bin :
        r >= 1 /\ sent[r][v] # {} => \E p \in Correct : TotalBinMsgCount[p][r - 1] >= nmt

RestInv == /\ NumsSettle /\ TotalsStored /\ TotalsSettle
           /\ CheckDue /\ TerminatedDecided /\ DecidedHere /\ RoundBacked

-----------------------------------------------------------------------------
(* What the counters count.                                                *)

\* Those a node has heard from are members.
LEMMA HeardMembers ==
    ASSUME TypeOK, NEW p \in Correct, NEW r \in Rounds
    PROVE  /\ \A v \in Bin : SigMap[p][r][v] \in SUBSET Members
           /\ Heard(p, r) \in SUBSET Members
<1>1. \A v \in Bin : SigMap[p][r][v] \in SUBSET Members
  BY DEF TypeOK, VoteTypes
<1> QED BY <1>1 DEF Heard, Bin

\* Counters and the sizes of what they count are integers.
LEMMA HeardCounts ==
    ASSUME TypeOK, NEW p \in Correct, NEW r \in Rounds
    PROVE  /\ \A v \in Bin : Cardinality(SigMap[p][r][v]) \in Int
           /\ Cardinality(Heard(p, r)) \in Int
           /\ \A v \in Bin : BinNums[p][r][v] \in Int
           /\ TotalBinMsgCount[p][r] \in Int
<1>1. (\A v \in Bin : BinNums[p][r][v] \in Int) /\ TotalBinMsgCount[p][r] \in Int
  BY DEF TypeOK, VoteTypes
<1>2. \A v \in Bin : Cardinality(SigMap[p][r][v]) \in 0..GetMemberCount
  BY HeardMembers, CountSubset
<1>3. Cardinality(Heard(p, r)) \in 0..GetMemberCount
  BY HeardMembers, CountSubset
<1> QED BY <1>1, <1>2, <1>3

\* The rounds a check of a round may look at are rounds.
LEMMA WindowFacts ==
    ASSUME NEW r \in Rounds
    PROVE  /\ r \in Window(r) /\ Window(r) \subseteq Rounds /\ NoRound \notin Rounds
           /\ r \in Nat
           /\ r \in {1, 2} => 0 \in Window(r)
           /\ r >= 1 => r - 1 \in Window(r)
           /\ r >= 2 => r - 2 \in Window(r)
BY BinCons1Assumption DEF Window, Rounds, NoRound

\* Counters never go down, so what was enough to decide stays enough.
CountsGrow ==
    /\ \A q \in Correct, s \in Rounds, w \in Bin : BinNums[q][s][w] <= BinNums'[q][s][w]
    /\ \A q \in Correct, s \in Rounds : TotalBinMsgCount[q][s] <= TotalBinMsgCount'[q][s]

\* Steps that neither count nor decide leave as it was who is about to decide and who has.
LEMMA QuietRest ==
    ASSUME RestInv, UNCHANGED <<BinNums, TotalBinMsgCount, queue, checking, Decided, decidedRound,
                                terminated>>
    PROVE  /\ CheckDue' /\ TerminatedDecided' /\ DecidedHere'
           /\ UNCHANGED sent => RoundBacked'
<1>1. CheckDue'
  BY DEF RestInv, CheckDue, CanDecide, Decides, getValids, Window
<1>2. TerminatedDecided' /\ DecidedHere'
  BY Zenon DEF RestInv, TerminatedDecided, DecidedHere, Decides, getValids
<1>3. UNCHANGED sent => RoundBacked'
  BY Zenon DEF RestInv, RoundBacked
<1> QED BY Zenon, <1>1, <1>2, <1>3

\* RestInv holds of BinCons1 for every membership, number of rounds and choice of StopOnCommit.
THEOREM RestInvariance == Spec => []RestInv
<1>CountFields.
    ASSUME TypeOK, NEW p \in Correct, NEW d \in storing[p]
    PROVE  d.round \in Rounds /\ d.val \in Bin /\ d.NewTotalSigCount \in Int
           /\ d.NewMsgIDSigCount \in Int
  <2> USE <1>CountFields
  <2>1. d \in Counts
    BY DEF TypeOK, VoteTypes
  <2> QED BY <2>1 DEF Counts
  \* A thread stores and counts: the counts it gets back are exact.
<1>StoreMsgCounts.
    ASSUME Inv, TypeOK', RestInv, NEW p \in Correct, NEW r \in Rounds, NEW v \in Bin,
           NEW S \in SUBSET Signers(r, v), StoreMsg(p, r, v, S)
    PROVE  NumsSettle' /\ TotalsStored' /\ TotalsSettle'
  <2> USE <1>StoreMsgCounts
  <2> DEFINE stored == SigMap[p][r][v] \cup S
             d == [round |-> r, val |-> v, NewTotalSigCount |-> Cardinality(stored),
                   NewMsgIDSigCount |-> Cardinality(stored \cup SigMap[p][r][1 - v])]
  <2>1. TypeOK /\ TypeOK'
    BY DEF Inv
  <2>2. BinNums' = BinNums /\ TotalBinMsgCount' = TotalBinMsgCount
    BY Zenon DEF StoreMsg
  <2>3. SigMap'[p][r][v] = stored
    BY <2>1, StoreMsgEntry
  <2>4. \A q \in Correct, s \in Rounds, w \in Bin :
           (q # p \/ s # r \/ w # v) => SigMap'[q][s][w] = SigMap[q][s][w]
    BY <2>1, StoreMsgEntry
  <2>5. storing'[p] = storing[p] \cup {d} /\ \A q \in Correct : q # p => storing'[q] = storing[q]
    BY <2>1 DEF StoreMsg, TypeOK, VoteTypes
  <2>6. /\ d.round = r /\ d.val = v /\ d.NewTotalSigCount = Cardinality(stored)
        /\ d.NewMsgIDSigCount = Cardinality(stored \cup SigMap[p][r][1 - v])
    BY Zenon
  <2>7. Heard(p, r)' = stored \cup SigMap[p][r][1 - v]
    <3>1. CASE v = 0
      BY <2>3, <2>4, <3>1 DEF Heard, Bin
    <3>2. CASE v = 1
      BY <2>3, <2>4, <3>2 DEF Heard, Bin
    <3> QED BY <3>1, <3>2 DEF Bin
  <2> HIDE DEF d, stored
  <2>8. \A q \in Correct, s \in Rounds : (q # p \/ s # r) => Heard(q, s)' = Heard(q, s)
    BY <2>4 DEF Heard, Bin
  <2>9. \A q \in Correct, s \in Rounds : Heard(q, s) \in SUBSET Heard(q, s)'
    <3> SUFFICES ASSUME NEW q \in Correct, NEW s \in Rounds PROVE Heard(q, s) \in SUBSET Heard(q, s)'
      OBVIOUS
    <3>1. CASE q = p /\ s = r
      <4>1. Heard(p, r) \subseteq stored \cup SigMap[p][r][1 - v]
        BY DEF Heard, stored, Bin
      <4> QED BY <2>7, <3>1, <4>1
    <3> QED BY <2>8, <3>1
  <2>10. \A q \in Correct, s \in Rounds :
            /\ Cardinality(Heard(q, s)) \in Int /\ Cardinality(Heard(q, s)') \in Int
            /\ Cardinality(Heard(q, s)) <= Cardinality(Heard(q, s)')
    <3> SUFFICES ASSUME NEW q \in Correct, NEW s \in Rounds
                 PROVE  /\ Cardinality(Heard(q, s)) \in Int /\ Cardinality(Heard(q, s)') \in Int
                        /\ Cardinality(Heard(q, s)) <= Cardinality(Heard(q, s)')
      OBVIOUS
    <3>1. Heard(q, s)' \in SUBSET Members
      <4>1. SigMap' \in [Correct -> [Rounds -> [Bin -> SUBSET Members]]]
        BY <2>1, Zenon DEF TypeOK, VoteTypes
      <4>2. SigMap'[q][s][0] \in SUBSET Members /\ SigMap'[q][s][1] \in SUBSET Members
        BY <4>1 DEF Bin
      <4> QED BY <4>2 DEF Heard
    <3>2. Heard(q, s) \in SUBSET Heard(q, s)'
      BY <2>9
    <3> QED BY <3>1, <3>2, CountSubset
  <2>11. NumsSettle'
    <3> SUFFICES ASSUME NEW q \in Correct, NEW s \in Rounds, NEW w \in Bin
                 PROVE  \/ BinNums[q][s][w] = Cardinality(SigMap'[q][s][w])
                        \/ \E e \in storing'[q] : /\ e.round = s /\ e.val = w
                                 /\ e.NewTotalSigCount = Cardinality(SigMap'[q][s][w])
      BY <2>2 DEF NumsSettle
    <3>1. CASE q = p /\ s = r /\ w = v
      BY <2>3, <2>5, <2>6, <3>1
    <3>2. CASE q # p \/ s # r \/ w # v
      <4>1. SigMap'[q][s][w] = SigMap[q][s][w]
        BY <2>4, <3>2
      <4>2. storing[q] \subseteq storing'[q]
        BY <2>5
      <4> QED BY <4>1, <4>2 DEF RestInv, NumsSettle
    <3> QED BY <3>1, <3>2
  <2>12. TotalsSettle'
    <3> SUFFICES ASSUME NEW q \in Correct, NEW s \in Rounds
                 PROVE  \/ TotalBinMsgCount[q][s] = Cardinality(Heard(q, s)')
                        \/ \E e \in storing'[q] :
                              e.round = s /\ e.NewMsgIDSigCount = Cardinality(Heard(q, s)')
      BY <2>2 DEF TotalsSettle
    <3>1. CASE q = p /\ s = r
      BY Zenon, <2>5, <2>6, <2>7, <3>1
    <3>2. CASE q # p \/ s # r
      <4>1. Heard(q, s)' = Heard(q, s)
        BY <2>8, <3>2
      <4>2. storing[q] \subseteq storing'[q]
        BY <2>5
      <4> QED BY <4>1, <4>2 DEF RestInv, TotalsSettle
    <3> QED BY <3>1, <3>2
  <2>13. TotalsStored'
    <3> SUFFICES ASSUME NEW q \in Correct
                 PROVE  /\ \A s \in Rounds : TotalBinMsgCount[q][s] <= Cardinality(Heard(q, s)')
                        /\ \A e \in storing'[q] :
                              e.NewMsgIDSigCount <= Cardinality(Heard(q, e.round)')
      BY <2>2 DEF TotalsStored
    <3>1. ASSUME NEW s \in Rounds PROVE TotalBinMsgCount[q][s] <= Cardinality(Heard(q, s)')
      <4>1. TotalBinMsgCount[q][s] \in Int /\ TotalBinMsgCount[q][s] <= Cardinality(Heard(q, s))
        BY Zenon, <2>1, HeardCounts DEF RestInv, TotalsStored
      <4> QED BY <2>10, <4>1
    <3>2. ASSUME NEW e \in storing'[q] PROVE e.NewMsgIDSigCount <= Cardinality(Heard(q, e.round)')
      <4>1. CASE e \in storing[q]
        <5>1. e.round \in Rounds /\ e.NewMsgIDSigCount \in Int
          BY <2>1, <4>1, <1>CountFields
        <5>2. e.NewMsgIDSigCount <= Cardinality(Heard(q, e.round))
          BY <4>1 DEF RestInv, TotalsStored
        <5> QED BY <2>10, <5>1, <5>2
      <4>2. CASE q = p /\ e = d
        <5>1. e.NewMsgIDSigCount = Cardinality(Heard(p, r)') /\ e.round = r
          BY <2>6, <2>7, <4>2
        <5> QED BY <2>10, <4>2, <5>1
      <4> QED BY <2>5, <3>2, <4>1, <4>2
    <3> QED BY <3>1, <3>2
  <2> QED BY <2>11, <2>12, <2>13
  \* A thread brings its counts: the larger one of a counter and a count is exact if one of them is.
<1>UpdateRoundCounts.
    ASSUME Inv, TypeOK', RestInv, NEW p \in Correct, NEW d \in storing[p], UpdateRound(p, d)
    PROVE  /\ NumsSettle' /\ TotalsStored' /\ TotalsSettle'
           /\ \A s \in Rounds, w \in Bin : BinNums[p][s][w] <= BinNums'[p][s][w]
           /\ \A s \in Rounds : TotalBinMsgCount[p][s] <= TotalBinMsgCount'[p][s]
  <2> USE <1>UpdateRoundCounts
  <2> DEFINE r == d.round
             v == d.val
  <2>1. TypeOK /\ TypeOK'
    BY DEF Inv
  <2>2. SigMap' = SigMap /\ \A q \in Correct, s \in Rounds : Heard(q, s)' = Heard(q, s)
    BY Zenon DEF UpdateRound, Heard
  <2>3. r \in Rounds /\ v \in Bin /\ d.NewTotalSigCount \in Int /\ d.NewMsgIDSigCount \in Int
    BY <2>1, <1>CountFields
  <2>4. BinNums'[p][r][v] = MaxOf(BinNums[p][r][v], d.NewTotalSigCount)
    BY <2>1, <2>3, UpdateRoundEntry
  <2>5. \A q \in Correct, s \in Rounds, w \in Bin :
           (q # p \/ s # r \/ w # v) => BinNums'[q][s][w] = BinNums[q][s][w]
    BY <2>1, <2>3, UpdateRoundEntry
  <2>6. TotalBinMsgCount'[p][r] = MaxOf(TotalBinMsgCount[p][r], d.NewMsgIDSigCount)
    BY <2>1, <2>3, UpdateRoundEntry
  <2>7. \A q \in Correct, s \in Rounds :
           (q # p \/ s # r) => TotalBinMsgCount'[q][s] = TotalBinMsgCount[q][s]
    BY <2>1, <2>3, UpdateRoundEntry
  <2>8. storing'[p] = storing[p] \ {d} /\ \A q \in Correct : q # p => storing'[q] = storing[q]
    BY <2>1 DEF UpdateRound, TypeOK, VoteTypes
  <2>9. /\ BinNums[p][r][v] \in Int /\ TotalBinMsgCount[p][r] \in Int
        /\ Cardinality(SigMap[p][r][v]) \in Int /\ Cardinality(Heard(p, r)) \in Int
    BY <2>1, <2>3, HeardCounts
  <2>10. /\ BinNums[p][r][v] <= Cardinality(SigMap[p][r][v])
         /\ d.NewTotalSigCount <= Cardinality(SigMap[p][r][v])
    BY Zenon, <2>3 DEF Inv, CountsStored
  <2>11. /\ TotalBinMsgCount[p][r] <= Cardinality(Heard(p, r))
         /\ d.NewMsgIDSigCount <= Cardinality(Heard(p, r))
    BY <2>3 DEF RestInv, TotalsStored
  <2> HIDE DEF r, v
  <2>12. NumsSettle'
    <3> SUFFICES ASSUME NEW q \in Correct, NEW s \in Rounds, NEW w \in Bin
                 PROVE  \/ BinNums'[q][s][w] = Cardinality(SigMap[q][s][w])
                        \/ \E e \in storing'[q] : /\ e.round = s /\ e.val = w
                                 /\ e.NewTotalSigCount = Cardinality(SigMap[q][s][w])
      BY <2>2 DEF NumsSettle
    <3>1. \/ BinNums[q][s][w] = Cardinality(SigMap[q][s][w])
          \/ \E e \in storing[q] : /\ e.round = s /\ e.val = w
                                   /\ e.NewTotalSigCount = Cardinality(SigMap[q][s][w])
      BY DEF RestInv, NumsSettle
    <3>2. CASE q = p /\ s = r /\ w = v
      <4>1. CASE \/ BinNums[p][r][v] = Cardinality(SigMap[p][r][v])
                 \/ d.NewTotalSigCount = Cardinality(SigMap[p][r][v])
        <5>1. MaxOf(BinNums[p][r][v], d.NewTotalSigCount) = Cardinality(SigMap[p][r][v])
          BY <2>3, <2>9, <2>10, <4>1 DEF MaxOf
        <5> QED BY <2>4, <3>2, <5>1
      <4>2. CASE \E e \in storing[q] : /\ e # d /\ e.round = s /\ e.val = w
                                       /\ e.NewTotalSigCount = Cardinality(SigMap[q][s][w])
        BY <2>8, <3>2, <4>2
      <4> QED BY Zenon, <3>1, <3>2, <4>1, <4>2
    <3>3. CASE q # p \/ s # r \/ w # v
      <4>1. BinNums'[q][s][w] = BinNums[q][s][w]
        BY <2>5, <3>3
      <4>2. \A e \in storing[q] : e.round = s /\ e.val = w => e \in storing'[q]
        BY <2>8, <3>3 DEF r, v
      <4> QED BY <3>1, <4>1, <4>2
    <3> QED BY <3>2, <3>3
  <2>13. TotalsSettle'
    <3> SUFFICES ASSUME NEW q \in Correct, NEW s \in Rounds
                 PROVE  \/ TotalBinMsgCount'[q][s] = Cardinality(Heard(q, s))
                        \/ \E e \in storing'[q] :
                              e.round = s /\ e.NewMsgIDSigCount = Cardinality(Heard(q, s))
      BY <2>2 DEF TotalsSettle
    <3>1. \/ TotalBinMsgCount[q][s] = Cardinality(Heard(q, s))
          \/ \E e \in storing[q] : e.round = s /\ e.NewMsgIDSigCount = Cardinality(Heard(q, s))
      BY DEF RestInv, TotalsSettle
    <3>2. CASE q = p /\ s = r
      <4>1. CASE \/ TotalBinMsgCount[p][r] = Cardinality(Heard(p, r))
                 \/ d.NewMsgIDSigCount = Cardinality(Heard(p, r))
        <5>1. MaxOf(TotalBinMsgCount[p][r], d.NewMsgIDSigCount) = Cardinality(Heard(p, r))
          BY <2>3, <2>9, <2>11, <4>1 DEF MaxOf
        <5> QED BY <2>6, <3>2, <5>1
      <4>2. CASE \E e \in storing[q] : /\ e # d /\ e.round = s
                                       /\ e.NewMsgIDSigCount = Cardinality(Heard(q, s))
        BY <2>8, <3>2, <4>2
      <4> QED BY <3>1, <3>2, <4>1, <4>2
    <3>3. CASE q # p \/ s # r
      <4>1. TotalBinMsgCount'[q][s] = TotalBinMsgCount[q][s]
        BY <2>7, <3>3
      <4>2. \A e \in storing[q] : e.round = s => e \in storing'[q]
        BY <2>8, <3>3 DEF r
      <4> QED BY <3>1, <4>1, <4>2
    <3> QED BY <3>2, <3>3
  <2>14. TotalsStored'
    <3> SUFFICES ASSUME NEW q \in Correct
                 PROVE  /\ \A s \in Rounds : TotalBinMsgCount'[q][s] <= Cardinality(Heard(q, s))
                        /\ \A e \in storing'[q] :
                              e.NewMsgIDSigCount <= Cardinality(Heard(q, e.round)')
      BY <2>2 DEF TotalsStored
    <3>1. ASSUME NEW s \in Rounds PROVE TotalBinMsgCount'[q][s] <= Cardinality(Heard(q, s))
      <4>1. CASE q = p /\ s = r
        <5>1. MaxOf(TotalBinMsgCount[p][r], d.NewMsgIDSigCount) <= Cardinality(Heard(p, r))
          BY <2>11 DEF MaxOf
        <5> QED BY <2>6, <4>1, <5>1
      <4>2. CASE q # p \/ s # r
        BY <2>7, <4>2 DEF RestInv, TotalsStored
      <4> QED BY <4>1, <4>2
    <3>2. ASSUME NEW e \in storing'[q] PROVE e.NewMsgIDSigCount <= Cardinality(Heard(q, e.round)')
      <4>1. e \in storing[q]
        BY <2>8, <3>2
      <4>2. e.round \in Rounds
        BY <2>1, <4>1, <1>CountFields
      <4> QED BY <2>2, <4>1, <4>2 DEF RestInv, TotalsStored
    <3> QED BY <3>1, <3>2
  <2>15. \A s \in Rounds, w \in Bin : BinNums[p][s][w] <= BinNums'[p][s][w]
    <3> SUFFICES ASSUME NEW s \in Rounds, NEW w \in Bin PROVE BinNums[p][s][w] <= BinNums'[p][s][w]
      OBVIOUS
    <3>1. BinNums[p][s][w] \in Int
      BY <2>1, HeardCounts
    <3>2. BinNums[p][r][v] <= MaxOf(BinNums[p][r][v], d.NewTotalSigCount)
      BY <2>3, <2>9 DEF MaxOf
    <3> QED BY <2>4, <2>5, <3>1, <3>2
  <2>16. \A s \in Rounds : TotalBinMsgCount[p][s] <= TotalBinMsgCount'[p][s]
    <3> SUFFICES ASSUME NEW s \in Rounds PROVE TotalBinMsgCount[p][s] <= TotalBinMsgCount'[p][s]
      OBVIOUS
    <3>1. TotalBinMsgCount[p][s] \in Int
      BY <2>1, HeardCounts
    <3>2. TotalBinMsgCount[p][r] <= MaxOf(TotalBinMsgCount[p][r], d.NewMsgIDSigCount)
      BY <2>3, <2>9 DEF MaxOf
    <3> QED BY <2>6, <2>7, <3>1, <3>2
  <2> QED BY <2>12, <2>13, <2>14, <2>15, <2>16
  \* The main loop stores and counts its own message in one step.
<1>StoresOwnCounts.
    ASSUME Inv, RestInv, TypeOK', storing' = storing, NEW p \in Correct, NEW r \in Rounds,
           NEW v \in Bin, StoresOwn(p, r, v)
    PROVE  /\ NumsSettle' /\ TotalsStored' /\ TotalsSettle'
           /\ \A s \in Rounds, w \in Bin : BinNums[p][s][w] <= BinNums'[p][s][w]
           /\ \A s \in Rounds : TotalBinMsgCount[p][s] <= TotalBinMsgCount'[p][s]
  <2> USE <1>StoresOwnCounts
  <2> DEFINE stored == SigMap[p][r][v] \cup {p}
  <2>1. TypeOK /\ TypeOK'
    BY DEF Inv
  <2>0. OwnStored(p, r, v)
    BY Zenon, <2>1, StoresOwnEntry
  <2>2. SigMap'[p][r][v] = stored
    BY Zenon, <2>0 DEF OwnStored
  <2>3. \A q \in Correct, s \in Rounds, w \in Bin :
           (q # p \/ s # r \/ w # v) => SigMap'[q][s][w] = SigMap[q][s][w]
    BY Zenon, <2>0 DEF OwnStored
  <2>4. BinNums'[p][r][v] = MaxOf(BinNums[p][r][v], Cardinality(stored))
    BY Zenon, <2>0 DEF OwnStored
  <2>5. \A q \in Correct, s \in Rounds, w \in Bin :
           (q # p \/ s # r \/ w # v) => BinNums'[q][s][w] = BinNums[q][s][w]
    BY Zenon, <2>0 DEF OwnStored
  <2>6. Heard(p, r)' = stored \cup SigMap[p][r][1 - v]
    <3>1. CASE v = 0
      BY <2>2, <2>3, <3>1 DEF Heard, Bin
    <3>2. CASE v = 1
      BY <2>2, <2>3, <3>2 DEF Heard, Bin
    <3> QED BY Zenon, <3>1, <3>2 DEF Bin
  <2>7. TotalBinMsgCount'[p][r] = MaxOf(TotalBinMsgCount[p][r], Cardinality(Heard(p, r)'))
    <3>1. TotalBinMsgCount'[p][r] =
             MaxOf(TotalBinMsgCount[p][r], Cardinality(stored \cup SigMap[p][r][1 - v]))
      BY Zenon, <2>0 DEF OwnStored
    <3> QED BY <2>6, <3>1
  <2>8. \A q \in Correct, s \in Rounds :
           (q # p \/ s # r) => TotalBinMsgCount'[q][s] = TotalBinMsgCount[q][s]
    BY Zenon, <2>0 DEF OwnStored
  <2> HIDE DEF stored
  <2>9. \A q \in Correct, s \in Rounds : (q # p \/ s # r) => Heard(q, s)' = Heard(q, s)
    BY <2>3 DEF Heard, Bin
  <2>10. \A q \in Correct, s \in Rounds : Heard(q, s) \in SUBSET Heard(q, s)'
    <3> SUFFICES ASSUME NEW q \in Correct, NEW s \in Rounds PROVE Heard(q, s) \in SUBSET Heard(q, s)'
      OBVIOUS
    <3>1. CASE q = p /\ s = r
      <4>1. Heard(p, r) \subseteq stored \cup SigMap[p][r][1 - v]
        BY DEF Heard, stored, Bin
      <4> QED BY <2>6, <3>1, <4>1
    <3> QED BY <2>9, <3>1
  <2>11. SigMap' \in [Correct -> [Rounds -> [Bin -> SUBSET Members]]]
    BY <2>1, Zenon DEF TypeOK, VoteTypes
  <2>12. \A q \in Correct, s \in Rounds :
            /\ Cardinality(Heard(q, s)) \in Int /\ Cardinality(Heard(q, s)') \in Int
            /\ Cardinality(Heard(q, s)) <= Cardinality(Heard(q, s)')
    <3> SUFFICES ASSUME NEW q \in Correct, NEW s \in Rounds
                 PROVE  /\ Cardinality(Heard(q, s)) \in Int /\ Cardinality(Heard(q, s)') \in Int
                        /\ Cardinality(Heard(q, s)) <= Cardinality(Heard(q, s)')
      OBVIOUS
    <3>1. Heard(q, s)' \in SUBSET Members
      <4>1. SigMap'[q][s][0] \in SUBSET Members /\ SigMap'[q][s][1] \in SUBSET Members
        BY <2>11 DEF Bin
      <4> QED BY <4>1 DEF Heard
    <3>2. Heard(q, s) \in SUBSET Heard(q, s)'
      BY <2>10
    <3> QED BY <3>1, <3>2, CountSubset
  <2>13. /\ BinNums[p][r][v] \in Int /\ TotalBinMsgCount[p][r] \in Int
         /\ Cardinality(stored) \in Int /\ BinNums[p][r][v] <= Cardinality(stored)
         /\ TotalBinMsgCount[p][r] <= Cardinality(Heard(p, r)')
    <3>1. /\ BinNums[p][r][v] \in Int /\ TotalBinMsgCount[p][r] \in Int
          /\ Cardinality(SigMap[p][r][v]) \in Int
      BY <2>1, HeardCounts
    <3>2. stored \in SUBSET Members /\ SigMap[p][r][v] \in SUBSET stored
      BY <2>2, <2>11 DEF stored
    <3>3. Cardinality(stored) \in Int /\ Cardinality(SigMap[p][r][v]) <= Cardinality(stored)
      BY <3>2, CountSubset
    <3>4. BinNums[p][r][v] <= Cardinality(SigMap[p][r][v])
      BY Zenon DEF Inv, CountsStored
    <3>5. TotalBinMsgCount[p][r] <= Cardinality(Heard(p, r))
      BY DEF RestInv, TotalsStored
    <3>6. TotalBinMsgCount[p][r] <= Cardinality(Heard(p, r)')
      BY <2>12, <3>1, <3>5
    <3> QED BY <3>1, <3>3, <3>4, <3>6
  <2>14. BinNums'[p][r][v] = Cardinality(SigMap'[p][r][v])
    BY <2>2, <2>4, <2>13 DEF MaxOf
  <2>15. TotalBinMsgCount'[p][r] = Cardinality(Heard(p, r)')
    BY <2>7, <2>12, <2>13 DEF MaxOf
  <2>16. NumsSettle'
    <3> SUFFICES ASSUME NEW q \in Correct, NEW s \in Rounds, NEW w \in Bin
                 PROVE  \/ BinNums'[q][s][w] = Cardinality(SigMap'[q][s][w])
                        \/ \E e \in storing[q] : /\ e.round = s /\ e.val = w
                                 /\ e.NewTotalSigCount = Cardinality(SigMap'[q][s][w])
      BY DEF NumsSettle
    <3>1. CASE q = p /\ s = r /\ w = v
      BY <2>14, <3>1
    <3>2. CASE q # p \/ s # r \/ w # v
      BY <2>3, <2>5, <3>2 DEF RestInv, NumsSettle
    <3> QED BY <3>1, <3>2
  <2>17. TotalsSettle'
    <3> SUFFICES ASSUME NEW q \in Correct, NEW s \in Rounds
                 PROVE  \/ TotalBinMsgCount'[q][s] = Cardinality(Heard(q, s)')
                        \/ \E e \in storing[q] :
                              e.round = s /\ e.NewMsgIDSigCount = Cardinality(Heard(q, s)')
      BY DEF TotalsSettle
    <3>1. CASE q = p /\ s = r
      BY <2>15, <3>1
    <3>2. CASE q # p \/ s # r
      BY <2>8, <2>9, <3>2 DEF RestInv, TotalsSettle
    <3> QED BY <3>1, <3>2
  <2>18. TotalsStored'
    <3> SUFFICES ASSUME NEW q \in Correct
                 PROVE  /\ \A s \in Rounds : TotalBinMsgCount'[q][s] <= Cardinality(Heard(q, s)')
                        /\ \A e \in storing[q] :
                              e.NewMsgIDSigCount <= Cardinality(Heard(q, e.round)')
      BY DEF TotalsStored
    <3>1. ASSUME NEW s \in Rounds PROVE TotalBinMsgCount'[q][s] <= Cardinality(Heard(q, s)')
      <4>1. CASE q = p /\ s = r
        BY <2>12, <2>15, <4>1
      <4>2. CASE q # p \/ s # r
        BY <2>8, <2>9, <4>2 DEF RestInv, TotalsStored
      <4> QED BY <4>1, <4>2
    <3>2. ASSUME NEW e \in storing[q] PROVE e.NewMsgIDSigCount <= Cardinality(Heard(q, e.round)')
      <4>1. e.round \in Rounds /\ e.NewMsgIDSigCount \in Int
        BY <2>1, <1>CountFields
      <4>2. e.NewMsgIDSigCount <= Cardinality(Heard(q, e.round))
        BY DEF RestInv, TotalsStored
      <4> QED BY <2>12, <4>1, <4>2
    <3> QED BY <3>1, <3>2
  <2>19. \A s \in Rounds, w \in Bin : BinNums[p][s][w] <= BinNums'[p][s][w]
    <3> SUFFICES ASSUME NEW s \in Rounds, NEW w \in Bin PROVE BinNums[p][s][w] <= BinNums'[p][s][w]
      OBVIOUS
    <3>1. BinNums[p][s][w] \in Int
      BY <2>1, HeardCounts
    <3> QED BY <2>2, <2>5, <2>13, <2>14, <3>1
  <2>20. \A s \in Rounds : TotalBinMsgCount[p][s] <= TotalBinMsgCount'[p][s]
    <3> SUFFICES ASSUME NEW s \in Rounds PROVE TotalBinMsgCount[p][s] <= TotalBinMsgCount'[p][s]
      OBVIOUS
    <3>1. TotalBinMsgCount[p][s] \in Int
      BY <2>1, HeardCounts
    <3> QED BY <2>8, <2>13, <2>15, <3>1
  <2> QED BY <2>16, <2>17, <2>18, <2>19, <2>20
<1>DecidesStay.
    ASSUME TypeOK, TypeOK', CountsGrow, NEW p \in Correct, NEW r \in Rounds, Decides(p, r)
    PROVE  Decides(p, r)'
  <2> USE <1>DecidesStay
  <2> DEFINE v == Mod(r)
  <2>1. r \in Nat /\ r >= 1 /\ v \in Bin /\ 1 \in Bin
    BY WindowFacts, RoundFacts DEF Decides, Bin
  <2>2. \A s \in Rounds, w \in Bin :
           /\ BinNums[p][s][w] \in Int /\ BinNums'[p][s][w] \in Int
           /\ BinNums[p][s][w] <= BinNums'[p][s][w]
    <3>1. /\ BinNums \in [Correct -> [Rounds -> [Bin -> 0..GetMemberCount]]]
          /\ BinNums' \in [Correct -> [Rounds -> [Bin -> 0..GetMemberCount]]]
      BY Zenon DEF TypeOK, VoteTypes
    <3> QED BY <3>1 DEF CountsGrow
  <2>3. nmt \in Int /\ t \in Int
    BY MemberCounts
  <2>4. \A s \in Rounds, w \in Bin : /\ BinNums[p][s][w] >= nmt => BinNums'[p][s][w] >= nmt
                                     /\ BinNums[p][s][w] > t => BinNums'[p][s][w] > t
    BY <2>2, <2>3
  <2>5. 0 \in Rounds /\ r - 1 \in Rounds /\ (r >= 2 => r - 2 \in Rounds)
    BY <2>1, BinCons1Assumption DEF Rounds
  <2> HIDE DEF v
  <2>6. getValids(p, r, v) => getValids(p, r, v)'
    BY Zenon, <2>1, <2>4, <2>5 DEF getValids
  <2> QED BY <2>1, <2>4, <2>6 DEF Decides, v
  \* Only the messages of the window matter.
<1>DecidesLocal.
    ASSUME NEW p \in Correct, NEW r \in Rounds, Decides(p, r)',
           \A s \in Window(r), w \in Bin : BinNums'[p][s][w] = BinNums[p][s][w]
    PROVE  Decides(p, r)
  <2> USE <1>DecidesLocal
  <2> DEFINE v == Mod(r)
  <2>1. r \in Nat /\ r >= 1 /\ v \in Bin /\ 1 \in Bin
    BY WindowFacts, RoundFacts DEF Decides, Bin
  <2>2. getValids(p, r, v)' /\ BinNums'[p][r][v] >= nmt
    BY DEF Decides
  <2> HIDE DEF v
  <2>3. getValids(p, r, v)
    BY Zenon, <2>1, <2>2, WindowFacts DEF getValids
  <2>4. BinNums[p][r][v] >= nmt
    BY <2>1, <2>2, WindowFacts
  <2> QED BY <2>1, <2>3, <2>4 DEF Decides, v
  \* A step that changes the counters of round r of node p hands the round to the main loop.
<1>CheckDueStays.
    ASSUME TypeOK, CheckDue, Decided' = Decided, NEW p \in Correct, NEW r \in Rounds,
           \A q \in Correct, s \in Rounds : (q # p \/ s # r) =>
              /\ \A w \in Bin : BinNums'[q][s][w] = BinNums[q][s][w]
              /\ TotalBinMsgCount'[q][s] = TotalBinMsgCount[q][s],
           \A q \in Correct : q # p => queue'[q] = queue[q] /\ checking'[q] = checking[q],
           Decided[p] = NotDecided =>
              /\ r \in queue'[p] \/ r = checking'[p]
              /\ queue[p] \subseteq queue'[p]
              /\ checking[p] = NoRound \/ checking'[p] = checking[p]
    PROVE  CheckDue'
  <2> USE <1>CheckDueStays
  <2> SUFFICES ASSUME NEW q \in Correct, NEW s \in Rounds, Decided[q] = NotDecided, CanDecide(q, s)'
               PROVE  \E x \in Window(s) : x \in queue'[q] \/ x = checking'[q]
    BY Zenon DEF CheckDue, Window
  <2>1. Decides(q, s)' /\ \A x \in Window(s) : TotalBinMsgCount'[q][x] >= nmt
    BY Zenon DEF CanDecide, Window
  <2>2. Window(s) \subseteq Rounds /\ NoRound \notin Rounds
    BY WindowFacts
  <2>3. CASE q = p /\ r \in Window(s)
    BY <2>3
  <2>4. CASE q # p \/ r \notin Window(s)
    <3>1. \A x \in Window(s), w \in Bin : BinNums'[q][x][w] = BinNums[q][x][w]
      BY <2>2, <2>4
    <3>2. \A x \in Window(s) : TotalBinMsgCount'[q][x] = TotalBinMsgCount[q][x]
      BY Zenon, <2>2, <2>4
    <3>3. CanDecide(q, s)
      BY <2>1, <3>1, <3>2, <1>DecidesLocal DEF CanDecide
    <3>4. PICK x \in Window(s) : x \in queue[q] \/ x = checking[q]
      BY Zenon, <3>3 DEF CheckDue
    <3> QED BY <2>2, <3>4
  <2> QED BY Zenon, <2>3, <2>4
  \* Growing counters keep what is known of the decisions and of the rounds before.
<1>GrowKeeps.
    ASSUME TypeOK, TypeOK', CountsGrow, RestInv, UNCHANGED <<Decided, decidedRound>>,
           \A r \in Rounds, v \in Bin : r >= 1 => sent'[r][v] = sent[r][v]
    PROVE  DecidedHere' /\ RoundBacked'
  <2> USE <1>GrowKeeps
  <2>1. DecidedHere'
    <3> SUFFICES ASSUME NEW p \in Correct, Decided[p] # NotDecided
                 PROVE  Decides(p, decidedRound[p])'
      BY DEF DecidedHere
    <3>1. decidedRound[p] \in Rounds /\ Decides(p, decidedRound[p])
      BY Zenon DEF TypeOK, DecisionTypes, RestInv, DecidedHere
    <3>2. \A r \in Rounds : Decides(p, r) => Decides(p, r)'
      BY <1>DecidesStay
    <3> QED BY Zenon, <3>1, <3>2 DEF Decides, getValids
  <2>2. RoundBacked'
    <3> SUFFICES ASSUME NEW r \in Rounds, NEW v \in Bin, r >= 1, sent[r][v] # {}
                 PROVE  \E p \in Correct : TotalBinMsgCount'[p][r - 1] >= nmt
      BY DEF RoundBacked
    <3>1. PICK p \in Correct : TotalBinMsgCount[p][r - 1] >= nmt
      BY DEF RestInv, RoundBacked
    <3>2. r - 1 \in Rounds
      BY WindowFacts
    <3>3. TotalBinMsgCount[p][r - 1] \in Int /\ TotalBinMsgCount'[p][r - 1] \in Int
      <4>1. /\ TotalBinMsgCount \in [Correct -> [Rounds -> 0..GetMemberCount]]
            /\ TotalBinMsgCount' \in [Correct -> [Rounds -> 0..GetMemberCount]]
        BY Zenon DEF TypeOK, VoteTypes
      <4> QED BY <3>2, <4>1
    <3> QED BY <3>1, <3>2, <3>3, MemberCounts DEF CountsGrow
  <2> QED BY <2>1, <2>2
<1>InitRest. Init => RestInv
  <2> SUFFICES ASSUME Init PROVE RestInv
    OBVIOUS
  <2>1. Cardinality({}) = 0
    BY FS_EmptySet
  <2>2. NumsSettle
    BY <2>1 DEF Init, NumsSettle
  <2>3. \A p \in Correct, r \in Rounds : Heard(p, r) = {}
    BY DEF Init, Heard, Bin
  <2>4. TotalsStored /\ TotalsSettle
    <3>1. \A p \in Correct : storing[p] = {} /\ \A r \in Rounds : TotalBinMsgCount[p][r] = 0
      BY DEF Init
    <3>2. \A p \in Correct, r \in Rounds : TotalBinMsgCount[p][r] = Cardinality(Heard(p, r))
      BY Zenon, <2>1, <2>3, <3>1
    <3>3. \A p \in Correct, r \in Rounds : TotalBinMsgCount[p][r] <= Cardinality(Heard(p, r))
      BY <2>1, <2>3, <3>1
    <3> QED BY <3>1, <3>2, <3>3 DEF TotalsStored, TotalsSettle
  <2>5. CheckDue
    <3> SUFFICES ASSUME NEW p \in Correct, NEW r \in Rounds, CanDecide(p, r) PROVE FALSE
      BY DEF CheckDue
    <3>1. TotalBinMsgCount[p][r] >= nmt
      BY WindowFacts DEF CanDecide
    <3>2. TotalBinMsgCount[p][r] = 0
      BY DEF Init
    <3> QED BY <3>1, <3>2, MemberCounts
  <2>6. TerminatedDecided /\ DecidedHere /\ RoundBacked
    BY DEF Init, TerminatedDecided, DecidedHere, RoundBacked
  <2> QED BY <2>2, <2>4, <2>5, <2>6 DEF RestInv
<1>StoreMsgRest.
    ASSUME Inv, TypeOK', RestInv, NEW p \in Correct, NEW r \in Rounds, NEW v \in Bin,
           NEW S \in SUBSET Signers(r, v), StoreMsg(p, r, v, S)
    PROVE  RestInv'
  <2> USE <1>StoreMsgRest
  <2>1. NumsSettle' /\ TotalsStored' /\ TotalsSettle'
    BY <1>StoreMsgCounts
  <2>2. UNCHANGED <<sent, BinNums, TotalBinMsgCount, queue, checking, Decided, decidedRound, terminated>>
    BY Zenon DEF StoreMsg, decVars
  <2>3. CheckDue' /\ TerminatedDecided' /\ DecidedHere' /\ RoundBacked'
    BY Zenon, <2>2, QuietRest
  <2> QED BY <2>1, <2>3 DEF RestInv
<1>UpdateRoundRest.
    ASSUME Inv, TypeOK', RestInv, NEW p \in Correct, NEW d \in storing[p], UpdateRound(p, d)
    PROVE  RestInv'
  <2> USE <1>UpdateRoundRest
  <2> DEFINE r == d.round
  <2>1. TypeOK /\ TypeOK'
    BY DEF Inv
  <2>2. /\ NumsSettle' /\ TotalsStored' /\ TotalsSettle'
        /\ \A s \in Rounds, w \in Bin : BinNums[p][s][w] <= BinNums'[p][s][w]
        /\ \A s \in Rounds : TotalBinMsgCount[p][s] <= TotalBinMsgCount'[p][s]
    BY <1>UpdateRoundCounts
  <2>3. UNCHANGED <<sent, checking, Decided, decidedRound, terminated>>
    BY Zenon DEF UpdateRound, decVars
  <2>4. r \in Rounds /\ d.val \in Bin
    BY <2>1, <1>CountFields
  <2>5. /\ queue'[p] = queue[p] \cup {r}
        /\ \A q \in Correct : q # p => queue'[q] = queue[q]
    BY Zenon, <2>1, <2>4 DEF UpdateRound, TypeOK, LoopTypes
  <2>6. \A q \in Correct, s \in Rounds : (q # p \/ s # r) =>
           /\ \A w \in Bin : BinNums'[q][s][w] = BinNums[q][s][w]
           /\ TotalBinMsgCount'[q][s] = TotalBinMsgCount[q][s]
    <3>1. \A q \in Correct, s \in Rounds, w \in Bin :
             (q # p \/ s # r) => BinNums'[q][s][w] = BinNums[q][s][w]
      BY <2>1, <2>4, UpdateRoundEntry
    <3>2. \A q \in Correct, s \in Rounds :
             (q # p \/ s # r) => TotalBinMsgCount'[q][s] = TotalBinMsgCount[q][s]
      BY <2>1, <2>4, UpdateRoundEntry
    <3> QED BY Zenon, <3>1, <3>2
  <2> HIDE DEF r
  <2>7. CountsGrow
    <3>1. \A q \in Correct, s \in Rounds : TotalBinMsgCount[q][s] \in Int
                                           /\ \A w \in Bin : BinNums[q][s][w] \in Int
      BY <2>1, HeardCounts
    <3> QED BY <2>2, <2>6, <3>1 DEF CountsGrow
  <2>8. CheckDue'
    BY <2>1, <2>3, <2>4, <2>5, <2>6, <1>CheckDueStays DEF RestInv
  <2>9. DecidedHere' /\ RoundBacked'
    BY <2>1, <2>3, <2>7, <1>GrowKeeps
  <2>10. TerminatedDecided'
    <3>1. TerminatedDecided
      BY Zenon DEF RestInv
    <3> QED BY <2>3, <3>1 DEF TerminatedDecided
  <2> QED BY <2>2, <2>8, <2>9, <2>10 DEF RestInv
  \* Steps that neither store, count nor decide.
<1>QuietCounts.
    ASSUME RestInv, UNCHANGED <<SigMap, BinNums, TotalBinMsgCount, storing>>
    PROVE  NumsSettle' /\ TotalsStored' /\ TotalsSettle'
  BY <1>QuietCounts DEF RestInv, NumsSettle, TotalsStored, TotalsSettle, Heard
<1>GotProposalRest.
    ASSUME Inv, RestInv, NEW p \in Correct, NEW v \in Bin, GotProposal(p, v)
    PROVE  RestInv'
  <2> USE <1>GotProposalRest
  <2>1. UNCHANGED <<SigMap, BinNums, TotalBinMsgCount, storing, queue, checking, Decided,
                    decidedRound, terminated>>
    BY Zenon DEF GotProposal, msgVars, decVars
  <2>2. CheckDue' /\ TerminatedDecided' /\ DecidedHere'
    BY Zenon, <2>1, QuietRest
  <2>3. RoundBacked'
    <3>1. sent \in [Rounds -> [Bin -> SUBSET Correct]] /\ 0 \in Rounds
      BY BinCons1Assumption DEF Inv, TypeOK, VoteTypes, Rounds
    <3>2. sent' = sent \/ sent' = [sent EXCEPT ![0][v] = sent[0][v] \cup {p}]
      BY Zenon DEF GotProposal
    <3>3. \A r \in Rounds, w \in Bin : r >= 1 => sent'[r][w] = sent[r][w]
      BY <3>1, <3>2
    <3> QED BY <2>1, <3>3 DEF RestInv, RoundBacked
  <2> QED BY <2>1, <2>2, <2>3, <1>QuietCounts DEF RestInv
<1>SelfMessageRest.
    ASSUME Inv, TypeOK', RestInv, NEW p \in Correct, ProcessSelfMessage(p)
    PROVE  RestInv'
  <2> USE <1>SelfMessageRest
  <2>1. TypeOK /\ TypeOK'
    BY DEF Inv
  <2>2. UNCHANGED <<sent, storing, queue, Decided, decidedRound, terminated>> /\ checking[p] = NoRound
    BY Zenon DEF ProcessSelfMessage, decVars
  <2>3. PICK r \in Rounds, v \in Bin : UNCHANGED <<msgVars, checking>> \/ StoresOwn(p, r, v)
    BY <2>1, SelfMessageEffect
  <2>4. CASE UNCHANGED <<msgVars, checking>>
    <3>1. UNCHANGED <<SigMap, BinNums, TotalBinMsgCount, storing>>
      BY Zenon, <2>2, <2>4 DEF msgVars
    <3>2. CheckDue' /\ TerminatedDecided' /\ DecidedHere' /\ RoundBacked'
      BY Zenon, <2>2, <2>4, <3>1, QuietRest
    <3> QED BY <3>1, <3>2, <1>QuietCounts DEF RestInv
  <2>5. CASE StoresOwn(p, r, v)
    <3>1. /\ NumsSettle' /\ TotalsStored' /\ TotalsSettle'
          /\ \A s \in Rounds, w \in Bin : BinNums[p][s][w] <= BinNums'[p][s][w]
          /\ \A s \in Rounds : TotalBinMsgCount[p][s] <= TotalBinMsgCount'[p][s]
      BY <2>1, <2>2, <2>5, <1>StoresOwnCounts
    <3>2. \A q \in Correct, s \in Rounds : (q # p \/ s # r) =>
             /\ \A w \in Bin : BinNums'[q][s][w] = BinNums[q][s][w]
             /\ TotalBinMsgCount'[q][s] = TotalBinMsgCount[q][s]
      <4>0. OwnStored(p, r, v)
        BY Zenon, <2>1, <2>5, StoresOwnEntry
      <4>1. \A q \in Correct, s \in Rounds, w \in Bin :
               (q # p \/ s # r) => BinNums'[q][s][w] = BinNums[q][s][w]
        BY <4>0 DEF OwnStored
      <4>2. \A q \in Correct, s \in Rounds :
               (q # p \/ s # r) => TotalBinMsgCount'[q][s] = TotalBinMsgCount[q][s]
        BY Zenon, <4>0 DEF OwnStored
      <4> QED BY <4>1, <4>2
    <3>3. /\ \A q \in Correct : q # p => checking'[q] = checking[q]
          /\ ~ terminated[p] => checking'[p] = r
      BY Zenon, <2>1, <2>5 DEF StoresOwn, TypeOK, LoopTypes, DecisionTypes
    <3>4. CountsGrow
      <4>1. \A q \in Correct, s \in Rounds : TotalBinMsgCount[q][s] \in Int
                                             /\ \A w \in Bin : BinNums[q][s][w] \in Int
        BY Zenon, <2>1, HeardCounts
      <4> QED BY <3>1, <3>2, <4>1 DEF CountsGrow
    <3>5. Decided[p] = NotDecided => ~ terminated[p]
      <4>1. TerminatedDecided
        BY Zenon DEF RestInv
      <4> QED BY <4>1 DEF TerminatedDecided
    <3>6. CheckDue'
      BY Zenon, <2>1, <2>2, <3>2, <3>3, <3>5, <1>CheckDueStays DEF RestInv
    <3>7. DecidedHere' /\ RoundBacked'
      BY Zenon, <2>1, <2>2, <3>4, <1>GrowKeeps
    <3>8. TerminatedDecided'
      BY <2>2 DEF RestInv, TerminatedDecided
    <3> QED BY <3>1, <3>6, <3>7, <3>8 DEF RestInv
  <2> QED BY <2>3, <2>4, <2>5
  \* The main loop takes a round to check: it goes on to the ones after it.
<1>ProcessMessageRest.
    ASSUME Inv, RestInv, NEW p \in Correct, NEW r \in Rounds,
           ProcessMessage(p, r) \/ AuxProofTimeout(p, r)
    PROVE  RestInv'
  <2> USE <1>ProcessMessageRest
  <2>1. UNCHANGED <<sent, SigMap, BinNums, TotalBinMsgCount, storing, Decided, decidedRound,
                    terminated>>
    BY Zenon DEF ProcessMessage, AuxProofTimeout, msgVars, decVars
  <2>2. NumsSettle' /\ TotalsStored' /\ TotalsSettle'
    BY <2>1, <1>QuietCounts
  <2>3. TerminatedDecided' /\ DecidedHere' /\ RoundBacked'
    BY Zenon, <2>1 DEF RestInv, Decides, getValids, TerminatedDecided, DecidedHere, RoundBacked
  <2>4. /\ checking[p] = NoRound
        /\ Decided[p] = NotDecided => queue[p] \subseteq queue'[p] \cup {checking'[p]}
        /\ \A q \in Correct : q # p => queue'[q] = queue[q] /\ checking'[q] = checking[q]
    <3>1. Decided[p] = NotDecided => ~ terminated[p]
      BY DEF RestInv, TerminatedDecided
    <3>2. TypeOK
      BY DEF Inv
    <3>3. CASE ProcessMessage(p, r)
      BY <3>1, <3>2, <3>3 DEF ProcessMessage, TypeOK, LoopTypes
    <3>4. CASE AuxProofTimeout(p, r)
      BY <3>2, <3>4 DEF AuxProofTimeout, TypeOK
    <3> QED BY <3>3, <3>4
  <2>5. CheckDue'
    <3> SUFFICES ASSUME NEW q \in Correct, NEW s \in Rounds, Decided[q] = NotDecided,
                        CanDecide(q, s)
                 PROVE  \E x \in Window(s) : x \in queue'[q] \/ x = checking'[q]
      BY <2>1 DEF CheckDue, CanDecide, Decides, getValids, Window
    <3>1. PICK x \in Window(s) : x \in queue[q] \/ x = checking[q]
      BY DEF RestInv, CheckDue
    <3>2. x # NoRound
      BY WindowFacts
    <3> QED BY Zenon, <2>4, <3>1, <3>2
  <2> QED BY <2>2, <2>3, <2>5 DEF RestInv
<1>CheckRoundReturnsFalseRest.
    ASSUME Inv, RestInv, NEW p \in Correct, CheckRoundReturnsFalse(p)
    PROVE  RestInv'
  <2> USE <1>CheckRoundReturnsFalseRest
  <2>1. UNCHANGED <<sent, SigMap, BinNums, TotalBinMsgCount, storing, queue, Decided, decidedRound,
                    terminated>>
    BY DEF CheckRoundReturnsFalse, msgVars
  <2>2. NumsSettle' /\ TotalsStored' /\ TotalsSettle'
    BY Zenon, <2>1, <1>QuietCounts
  <2>3. TerminatedDecided' /\ DecidedHere' /\ RoundBacked'
    BY <2>1 DEF RestInv, Decides, getValids, TerminatedDecided, DecidedHere, RoundBacked
  <2>4. /\ TotalBinMsgCount[p][checking[p]] < nmt
        /\ \A q \in Correct : q # p => checking'[q] = checking[q]
    BY Zenon DEF CheckRoundReturnsFalse, Inv, TypeOK, VoteTypes, LoopTypes
  <2>5. CheckDue'
    <3> SUFFICES ASSUME NEW q \in Correct, NEW s \in Rounds, Decided[q] = NotDecided,
                        CanDecide(q, s)
                 PROVE  \E x \in Window(s) : x \in queue[q] \/ x = checking'[q]
      BY <2>1 DEF CheckDue, CanDecide, Decides, getValids, Window
    <3>1. PICK x \in Window(s) : x \in queue[q] \/ x = checking[q]
      <4>1. CheckDue
        BY Zenon DEF RestInv
      <4> QED BY <4>1 DEF CheckDue
    <3>2. CASE q = p /\ x = checking[p]
      <4>1. TotalBinMsgCount[p][x] >= nmt /\ x \in Rounds
        BY <3>2, WindowFacts DEF CanDecide
      <4>2. TotalBinMsgCount[p][x] \in Int /\ nmt \in Int
        BY <4>1, HeardCounts, MemberCounts DEF Inv
      <4> QED BY <2>4, <3>2, <4>1, <4>2
    <3> QED BY Zenon, <2>4, <3>1, <3>2
  <2> QED BY <2>2, <2>3, <2>5 DEF RestInv
<1>CheckRoundReturnsTrueRest.
    ASSUME Inv, RestInv, NEW p \in Correct, CheckRoundReturnsTrue(p)
    PROVE  RestInv'
  <2> USE <1>CheckRoundReturnsTrueRest
  <2> DEFINE r == checking[p]
  <2>1. TypeOK
    BY DEF Inv
  <2>2. /\ r \in Rounds /\ DecidesIn(p, r)
        /\ SendsNext(p, r) \/ SendsNothing(p, r)
    BY <2>1, CheckRoundEffect
  <2>3. UNCHANGED <<SigMap, BinNums, TotalBinMsgCount, storing, queue>>
    BY Zenon DEF CheckRoundReturnsTrue, msgVars
  <2>4. TotalBinMsgCount[p][r] >= nmt
    BY Zenon DEF CheckRoundReturnsTrue
  <2>5. /\ r < MaxRound => checking'[p] = r + 1
        /\ \A q \in Correct : q # p => checking'[q] = checking[q]
    BY Zenon, <2>1 DEF CheckRoundReturnsTrue, TypeOK, LoopTypes
  <2>6. /\ Decided'[p] = IF Decides(p, r) THEN Mod(r) ELSE Decided[p]
        /\ \A q \in Correct : q # p => Decided'[q] = Decided[q] /\ decidedRound'[q] = decidedRound[q]
        /\ decidedRound'[p] = IF Decides(p, r) /\ Decided[p] = NotDecided THEN r ELSE decidedRound[p]
    <3>1. Decided \in [Correct -> Bin \cup {NotDecided}] /\ decidedRound \in [Correct -> Rounds]
      BY <2>1 DEF TypeOK, DecisionTypes
    <3> QED BY <2>2, <3>1 DEF DecidesIn
  <2>7. Mod(r) # NotDecided
    BY <2>2, RoundFacts DEF NotDecided, Bin
  <2>8. NumsSettle' /\ TotalsStored' /\ TotalsSettle'
    BY <2>3, <1>QuietCounts
  <2>9. TerminatedDecided'
    <3>1. /\ terminated'[p] => terminated[p] \/ Decided'[p] # NotDecided
          /\ \A q \in Correct : q # p => terminated'[q] = terminated[q]
      <4>1. terminated \in [Correct -> BOOLEAN] /\ Decided \in [Correct -> Bin \cup {NotDecided}]
        BY <2>1 DEF TypeOK, DecisionTypes
      <4> DEFINE dec == IF Decides(p, r) THEN Mod(r) ELSE Decided[p]
                 decRound == IF Decides(p, r) /\ Decided[p] = NotDecided THEN r
                                                                         ELSE decidedRound[p]
                 stops == \/ Decides(p, r) /\ StopOnCommit = "Immediate"
                          \/ ~ ReturnsDecided(p, r) /\ r >= decRound /\ StopOnCommit # "NextRound"
      <4>2. /\ Decided' = [Decided EXCEPT ![p] = dec]
            /\ terminated' = [terminated EXCEPT ![p] = terminated[p] \/ (dec # NotDecided /\ stops)]
        BY Zenon DEF CheckRoundReturnsTrue
      <4> HIDE DEF dec, stops
      <4> QED BY <4>1, <4>2, Zenon
    <3> QED BY <2>6, <2>7, <3>1 DEF RestInv, TerminatedDecided
  <2>10. DecidedHere'
    <3> SUFFICES ASSUME NEW q \in Correct, Decided'[q] # NotDecided
                 PROVE  Decides(q, decidedRound'[q])
      BY <2>3 DEF DecidedHere, Decides, getValids
    <3>Parts. DecidedHere
      BY Zenon DEF RestInv
    <3> QED BY <2>6, <3>Parts DEF DecidedHere
  <2>11. CheckDue'
    <3> SUFFICES ASSUME NEW q \in Correct, NEW s \in Rounds, Decided'[q] = NotDecided,
                        CanDecide(q, s)
                 PROVE  \E x \in Window(s) : x \in queue[q] \/ x = checking'[q]
      BY Zenon, <2>3 DEF CheckDue, CanDecide, Decides, getValids, Window
    <3>1. Decided[q] = NotDecided /\ (q = p => ~ Decides(p, r))
      BY Zenon, <2>6, <2>7
    <3>2. PICK x \in Window(s) : x \in queue[q] \/ x = checking[q]
      <4>1. CheckDue
        BY Zenon DEF RestInv
      <4> QED BY <3>1, <4>1 DEF CheckDue
    <3>3. CASE q = p /\ x = r
      <4>1. x # s
        BY <3>1, <3>3 DEF CanDecide
      <4>2. r + 1 \in Window(s) /\ r < MaxRound
        BY <2>2, <3>3, <4>1, BinCons1Assumption DEF Window, Rounds
      <4> QED BY <2>5, <3>3, <4>2
    <3> QED BY Zenon, <2>5, <3>2, <3>3
  <2>12. RoundBacked'
    <3> SUFFICES ASSUME NEW s \in Rounds, NEW v \in Bin, s >= 1, sent'[s][v] # {}
                 PROVE  \E q \in Correct : TotalBinMsgCount[q][s - 1] >= nmt
      BY <2>3 DEF RoundBacked
    <3>1. sent \in [Rounds -> [Bin -> SUBSET Correct]]
      BY <2>1 DEF TypeOK, VoteTypes
    <3>2. sent[s][v] # {} \/ s = r + 1
      <4>1. CASE SendsNothing(p, r)
        BY <4>1 DEF SendsNothing
      <4>2. CASE SendsNext(p, r)
        <5>1. r + 1 \in Rounds /\ Est(p, r) \in Bin
          BY Zenon, <2>2, <4>2, RoundFacts, EstType DEF SendsNext
        <5> QED BY Zenon, <3>1, <4>2, <5>1 DEF SendsNext
      <4> QED BY Zenon, <2>2, <4>1, <4>2
    <3>3. CASE s = r + 1
      <4>1. s - 1 = r
        BY <2>2, <3>3, RoundFacts
      <4> QED BY Zenon, <2>4, <4>1
    <3> QED BY <3>2, <3>3 DEF RestInv, RoundBacked
  <2> QED BY <2>8, <2>9, <2>10, <2>11, <2>12 DEF RestInv
<1>NextRest. Inv /\ RestInv /\ [Next]_vars => RestInv'
  <2> SUFFICES ASSUME Inv, RestInv, [Next]_vars PROVE RestInv'
    OBVIOUS
  <2> TypeOK'
    BY NextTypeOK DEF Inv
  <2>1. ASSUME NEW p \in Correct, GotMsg(p) PROVE RestInv'
    BY <2>1, <1>StoreMsgRest, <1>UpdateRoundRest DEF GotMsg
  <2>2. ASSUME NEW p \in Correct, MainLoop(p) PROVE RestInv'
    BY <2>2, <1>GotProposalRest, <1>SelfMessageRest, <1>ProcessMessageRest, <1>CheckRoundReturnsFalseRest,
       <1>CheckRoundReturnsTrueRest DEF MainLoop, CheckRound
  <2>3. CASE UNCHANGED vars
    <3>1. UNCHANGED <<sent, SigMap, BinNums, TotalBinMsgCount, storing, queue, checking, Decided,
                      decidedRound, terminated>>
      BY Zenon, <2>3 DEF vars, msgVars, decVars
    <3>2. CheckDue' /\ TerminatedDecided' /\ DecidedHere' /\ RoundBacked'
      BY Zenon, <3>1, QuietRest
    <3> QED BY <3>1, <3>2, <1>QuietCounts DEF RestInv
  <2> QED BY <2>1, <2>2, <2>3 DEF Next
<1>1. Spec => []Inv
  BY Invariance
<1>2. Init => RestInv
  BY <1>InitRest
<1>3. Inv /\ RestInv /\ [Next]_vars => RestInv'
  BY <1>NextRest
<1> QED BY <1>1, <1>2, <1>3, PTL DEF Spec
-----------------------------------------------------------------------------
(* Nothing left to do.                                                     *)

\* A node none of whose threads is about to count has exact counters.
LEMMA Settled ==
    ASSUME RestInv, NEW p \in Correct, storing[p] = {}, NEW r \in Rounds
    PROVE  /\ \A v \in Bin : BinNums[p][r][v] = Cardinality(SigMap[p][r][v])
           /\ TotalBinMsgCount[p][r] = Cardinality(Heard(p, r))
<1>1. \A v \in Bin : BinNums[p][r][v] = Cardinality(SigMap[p][r][v])
  BY DEF RestInv, NumsSettle
<1>2. TotalBinMsgCount[p][r] = Cardinality(Heard(p, r))
  BY Zenon DEF RestInv, TotalsSettle
<1> QED BY Zenon, <1>1, <1>2

\* Once no thread of a node is between storing a message and counting it, the counters of the
\* node are those of the signatures it has stored, in whatever order the threads came to count
\* them (bin_cons1_msg_state.go, GotMsg).
THEOREM CountersSettleHolds == Spec => []CountersSettle
<1>1. RestInv => CountersSettle
  BY Zenon, Settled DEF CountersSettle, Heard
<1> QED BY <1>1, RestInvariance, PTL

\* What one node has stored and a resting node has got too: it counts at least as much.
LEMMA RestCounts ==
    ASSUME Inv, RestInv, AtRest, NEW p \in Correct, NEW q \in Active, NEW r \in Rounds
    PROVE  /\ TotalBinMsgCount[p][r] <= TotalBinMsgCount[q][r]
           /\ \A v \in Bin : BinNums[p][r][v] <= BinNums[q][r][v]
           /\ \A v \in Bin : BinNums[q][r][v] <= TotalBinMsgCount[q][r]
<1>1. TypeOK /\ q \in Correct /\ storing[q] = {}
  BY MCAssumption DEF Inv, AtRest, Busy
<1>2. \A v \in Bin : SigMap[p][r][v] \in SUBSET SigMap[q][r][v]
  BY DEF AtRest, Available
<1>3. Heard(p, r) \in SUBSET Heard(q, r) /\ \A v \in Bin : SigMap[q][r][v] \in SUBSET Heard(q, r)
  BY Zenon, <1>2 DEF Heard, Bin
<1>4. /\ TotalBinMsgCount[q][r] = Cardinality(Heard(q, r))
      /\ \A v \in Bin : BinNums[q][r][v] = Cardinality(SigMap[q][r][v])
  BY <1>1, Settled
<1>5. /\ TotalBinMsgCount[p][r] <= Cardinality(Heard(p, r))
      /\ \A v \in Bin : BinNums[p][r][v] <= Cardinality(SigMap[p][r][v])
  BY Zenon DEF RestInv, TotalsStored, Inv, CountsStored
<1>6. /\ Heard(q, r) \in SUBSET Members
      /\ \A v \in Bin : SigMap[q][r][v] \in SUBSET Members
  BY <1>1, HeardMembers
<1>7. Cardinality(Heard(p, r)) <= Cardinality(Heard(q, r))
  BY <1>3, <1>6, CountSubset
<1>8. ASSUME NEW v \in Bin
      PROVE  /\ Cardinality(SigMap[p][r][v]) <= Cardinality(SigMap[q][r][v])
             /\ Cardinality(SigMap[q][r][v]) <= Cardinality(Heard(q, r))
  BY Zenon, <1>2, <1>3, <1>6, CountSubset
<1>9. /\ TotalBinMsgCount[p][r] \in Int /\ Cardinality(Heard(p, r)) \in Int
      /\ Cardinality(Heard(q, r)) \in Int
      /\ \A v \in Bin : /\ BinNums[p][r][v] \in Int /\ Cardinality(SigMap[p][r][v]) \in Int
                        /\ Cardinality(SigMap[q][r][v]) \in Int
  BY Zenon, <1>1, HeardCounts
<1>10. TotalBinMsgCount[p][r] <= TotalBinMsgCount[q][r]
  BY <1>4, <1>5, <1>7, <1>9
<1>11. ASSUME NEW v \in Bin
       PROVE  BinNums[p][r][v] <= BinNums[q][r][v] /\ BinNums[q][r][v] <= TotalBinMsgCount[q][r]
  BY <1>4, <1>5, <1>8, <1>9
<1> QED BY Zenon, <1>10, <1>11

\* The rounds a deciding node has gone through have n-t messages everywhere.
LEMMA RestTotals ==
    ASSUME Inv, RestInv, AtRest, NEW q \in Active, NEW r \in Rounds, r >= 1,
           NEW v \in Bin, sent[r][v] # {}
    PROVE  /\ TotalBinMsgCount[q][r - 1] >= nmt
           /\ r >= 2 => \E w \in Bin : sent[r - 1][w] # {}
<1>1. TypeOK /\ q \in Correct /\ r - 1 \in Rounds
  BY Zenon, MCAssumption, WindowFacts DEF Inv
<1>2. PICK p \in Correct : TotalBinMsgCount[p][r - 1] >= nmt
  <2>1. RoundBacked
    BY Zenon DEF RestInv
  <2> QED BY <2>1 DEF RoundBacked
<1>3. TotalBinMsgCount[p][r - 1] <= TotalBinMsgCount[q][r - 1]
  BY <1>1, RestCounts
<1>4. TotalBinMsgCount[p][r - 1] \in Int /\ TotalBinMsgCount[q][r - 1] \in Int
      /\ Cardinality(Heard(q, r - 1)) \in Int
  BY <1>1, HeardCounts
<1>5. TotalBinMsgCount[q][r - 1] >= nmt
  BY <1>2, <1>3, <1>4, MemberCounts
<1>6. \E w \in Bin : sent[r - 1][w] # {}
  <2>1. TotalBinMsgCount[q][r - 1] <= Cardinality(Heard(q, r - 1))
    BY <1>1 DEF RestInv, TotalsStored
  <2>2. Cardinality(Heard(q, r - 1)) > t
    BY <1>4, <1>5, <2>1, MemberCounts
  <2>3. Heard(q, r - 1) \in SUBSET Members
    BY <1>1, HeardMembers
  <2>4. PICK c \in Correct : c \in Heard(q, r - 1)
    BY <2>2, <2>3, ManyHaveCorrect
  <2>5. PICK w \in Bin : c \in SigMap[q][r - 1][w]
    BY <2>4 DEF Heard, Bin
  <2>6. c \in Signers(r - 1, w)
    <3>1. StoredSent
      BY Zenon DEF Inv
    <3> QED BY <1>1, <2>5, <3>1 DEF StoredSent
  <2> QED BY Zenon, <2>4, <2>5, <2>6 DEF Signers, Correct
<1> QED BY Zenon, <1>5, <1>6

\* At rest, a decision of one node that took part is matched by each of the others.
LEMMA RestDecides ==
    ASSUME Inv, RestInv, AtRest, NEW p \in Active, NEW q \in Active, Decided[p] # NotDecided
    PROVE  Decided[q] # NotDecided
<1> DEFINE r == decidedRound[p]
           v == Mod(r)
<1>1. TypeOK /\ p \in Correct /\ q \in Correct
  BY MCAssumption DEF Inv
<1>2. r \in Rounds /\ Decides(p, r)
  BY Zenon, <1>1 DEF TypeOK, DecisionTypes, RestInv, DecidedHere
<1>3. r \in Nat /\ 1 <= r /\ v \in Bin /\ 1 \in Bin /\ HasQuorum(r, v)
  BY <1>1, <1>2, DecidesQuorum, WindowFacts DEF Bin
<1>4. getValids(p, r, v) /\ BinNums[p][r][v] >= nmt
  BY Zenon, <1>2 DEF Decides
<1> HIDE DEF r, v
<1>5. \A s \in Rounds, w \in Bin :
         /\ BinNums[p][s][w] >= nmt => BinNums[q][s][w] >= nmt
         /\ BinNums[p][s][w] > t => BinNums[q][s][w] > t
  <2> SUFFICES ASSUME NEW s \in Rounds, NEW w \in Bin
               PROVE  /\ BinNums[p][s][w] >= nmt => BinNums[q][s][w] >= nmt
                      /\ BinNums[p][s][w] > t => BinNums[q][s][w] > t
    BY Zenon
  <2>1. BinNums[p][s][w] <= BinNums[q][s][w]
    BY <1>1, RestCounts
  <2>2. BinNums[p][s][w] \in Int /\ BinNums[q][s][w] \in Int
    BY <1>1, HeardCounts
  <2> QED BY <2>1, <2>2, MemberCounts
<1>6. 0 \in Rounds /\ r - 1 \in Rounds /\ (r >= 2 => r - 2 \in Rounds)
  BY <1>2, <1>3, BinCons1Assumption DEF Rounds
<1>7. getValids(q, r, v)
  BY Zenon, <1>3, <1>4, <1>5, <1>6 DEF getValids
<1>8. BinNums[q][r][v] >= nmt
  BY Zenon, <1>2, <1>3, <1>4, <1>5
<1>9. Decides(q, r)
  BY <1>3, <1>7, <1>8 DEF Decides, v
<1>10. TotalBinMsgCount[q][r] >= nmt
  <2>1. BinNums[q][r][v] <= TotalBinMsgCount[q][r]
    BY Zenon, <1>1, <1>2, <1>3, RestCounts
  <2>2. BinNums[q][r][v] \in Int /\ TotalBinMsgCount[q][r] \in Int
    BY <1>1, <1>2, <1>3, HeardCounts
  <2> QED BY <1>8, <2>1, <2>2, MemberCounts
<1>11. sent[r][v] # {}
  BY Zenon, <1>1, <1>2, <1>3, QuorumSender
<1>12. /\ TotalBinMsgCount[q][r - 1] >= nmt
       /\ r >= 2 => \E w \in Bin : sent[r - 1][w] # {}
  BY <1>2, <1>3, <1>11, RestTotals
<1>13. r >= 2 => TotalBinMsgCount[q][r - 2] >= nmt
  <2> SUFFICES ASSUME r >= 2 PROVE TotalBinMsgCount[q][r - 2] >= nmt
    OBVIOUS
  <2>1. PICK w \in Bin : sent[r - 1][w] # {}
    BY <1>12
  <2>2. r - 1 >= 1 /\ (r - 1) - 1 = r - 2
    BY <1>3
  <2>3. TotalBinMsgCount[q][(r - 1) - 1] >= nmt
    BY <1>6, <2>1, <2>2, RestTotals
  <2> QED BY <2>2, <2>3
<1>14. \A s \in Window(r) : s = r \/ s = r - 1 \/ (r >= 2 /\ s = r - 2)
  BY <1>3 DEF Window, Rounds
<1>15. CanDecide(q, r)
  BY Zenon, <1>9, <1>10, <1>12, <1>13, <1>14 DEF CanDecide
<1>16. queue[q] = {} /\ checking[q] = NoRound
  BY DEF AtRest, Busy
<1>17. \A s \in Window(r) : s # NoRound
  BY <1>2, WindowFacts
<1> QED BY <1>1, <1>2, <1>15, <1>16, <1>17 DEF RestInv, CheckDue

\* Whatever set of correct nodes takes part: when they have nothing left to do, one of them has
\* decided only if all of them have, although a node that decides stops sending and waiting
\* (bin_cons1.go, checkDone) and faulty members vote differently for different nodes.
THEOREM DecideTogetherHolds == Spec => []DecideTogether
<1>1. Inv /\ RestInv => DecideTogether
  BY RestDecides DEF DecideTogether
<1> QED BY <1>1, Invariance, RestInvariance, PTL
=============================================================================
