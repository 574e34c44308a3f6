----------------------------- MODULE BinConsRnd2 ----------------------------
(***************************************************************************)
(* The operations of consensus/cons/binconsrnd2: values are made valid by  *)
(* n-t BV messages, which nodes echo, and are voted on with AuxProof       *)
(* messages.  The coin of a round can be decided in it.  A value that is   *)
(* the coin keeps its BV messages in the next round (supportBvInfo), the   *)
(* other one needs new ones.  BinConsRnd runs these operations.            *)
(***************************************************************************)
EXTENDS RndNode, TLC

\* BV messages of round 1 for 1 are refused when a multi-value reduction makes 1 valid.
Messages(gc) == ({"BV", "AuxProof"} \X (1..gc.MaxRound) \X Bin)
                    \ {m \in {<<"BV", 1, 1>>} : gc.isMv}

\* The auxRandRoundStruct of the rounds, as getAuxRoundStruct makes them.  A supportBvInfo
\* points to a bvInfo of the same value: it is the round of that one, 0 when it is nil.
InitRounds(gc) ==
    [r \in Rounds(gc) |->
        [AuxBinNums |-> [v \in Bin |-> 0], TotalAuxBinMsgCount |-> 0,
         bvInfo |-> [v \in Bin |-> [msgCount |-> 0, echod |-> gc.isMv /\ r = 1 /\ v = 1]],
         support |-> [v \in Bin |-> IF r = 1 THEN 1 ELSE 0],
         prevCoin |-> IF r = 1 THEN 1 ELSE Unknown,         \* gotPrevCoin, prevCoinVal
         coin |-> Unknown,                                  \* gotCoin, coinVal
         sentCoin |-> FALSE, checkedCoin |-> r = 1, mustSupportCoin |-> FALSE,
         sentProposal |-> FALSE, sentAux |-> FALSE]]

\* sentBVR0 is a field of the instance, not of its round 1.
New(gc, p) == [sentBVR0 |-> [v \in Bin |-> FALSE]] @@ NewNode(gc, p, InitRounds(gc), Messages(gc))

\* What a multi-value reduction reads and changes.
SetMv1Valid(s) == [s EXCEPT !.rs[1].bvInfo[1].msgCount = nmt]
SentProposal(s) == s.rs[1].sentProposal
SetSentProposal(s) == [s EXCEPT !.rs[1].sentProposal = TRUE]
MVInitialRoundBroadcast == <<"BV", 1, 0>>

\* The second half of GotMsg: a thread raises the counts of the round.
GotMsg(gc, s, d) ==
    LET r == d.msg[2]
        v == d.msg[3]
    IN
    CASE d.msg[1] = "BV" ->
           [s EXCEPT !.rs[r].bvInfo[v].msgCount = MaxOf(@, d.NewTotalSigCount)]
      [] d.msg[1] = "AuxProof" ->
           [s EXCEPT !.rs[r].AuxBinNums[v] = MaxOf(@, d.NewTotalSigCount),
                     !.rs[r].TotalAuxBinMsgCount = MaxOf(@, d.NewMsgIDSigCount)]
      [] OTHER -> CoinGotMsg(gc, s, d)

-----------------------------------------------------------------------------
Supported(s, r) == s.rs[r].support[0] # 0

\* The BV messages that support v in round r.
Support(s, r, v) == s.rs[s.rs[r].support[v]].bvInfo[v]

\* getValids.
Valid(s, r, v) == Supported(s, r) /\ Support(s, r, v).msgCount >= nmt

\* With the coin c of round r the value c keeps its support in the next round.
NextSupport(s, r) == [v \in Bin |-> IF v = s.rs[r].coin THEN s.rs[r].support[v] ELSE r + 1]

\* The supportBvInfo of the rounds after r, as far as their coins are known.
Propagate(s, r) ==
    LET known == {q \in r..(LastRound(s) - 1) : \A i \in r..q : s.rs[i].coin # Unknown}
        Step[q \in (r - 1)..LastRound(s)] ==        \* the node after the loop has done round q
            IF q < r THEN s
            ELSE LET u == Step[q - 1] IN
                 IF q \in known /\ Supported(u, q)
                 THEN PanicIf(u.rs[q].prevCoin = Unknown \/ u.rs[q + 1].prevCoin = Unknown,
                              [u EXCEPT !.rs[q + 1].support = NextSupport(u, q),
                                        !.rs[q + 1].prevCoin = u.rs[q].coin])
                 ELSE u
    IN Step[LastRound(s)]

\* "bad setup", or a nil supportBvInfo.
BadSetup(s) ==
    \E r \in 1..LastRound(s) :
        /\ \A q \in 1..r : s.rs[q].prevCoin # Unknown
        /\ \E v \in Bin : \/ s.rs[r].support[v] = 0
                          \/ s.rs[r].support[v] > 1 /\ s.rs[s.rs[r].support[v]].prevCoin = v

RecordCoin(s, r) ==
    LET c == GetCoin(s, r)
        s1 == [s EXCEPT !.rs[r].coin = c, !.rs[r + 1].prevCoin = c]
        s2 == IF c = Unknown THEN s ELSE Propagate(s1, r)
    IN PanicIf(BadSetup(s2), s2)

-----------------------------------------------------------------------------
Decides(s, r) ==
    LET c == s.rs[r].coin IN c # Unknown /\ Valid(s, r, c) /\ s.rs[r].AuxBinNums[c] >= nmt

Decide(s, r) ==
    LET c == s.rs[r].coin IN
    IF Decides(s, r)
    THEN PanicIf(s.Decided \notin {Unknown, c} \/ s.rs[r].AuxBinNums[1 - c] >= nmt,
                 [s EXCEPT !.Decided = c,
                           !.decidedRound = IF s.Decided = Unknown THEN r ELSE @])
    ELSE s

\* checkBVAuxBroadcasts echoes v, in round r or, from round 2 on, in that of its support.
Echoes(s, r, v) ==
    IF r = 1 THEN ~ s.sentBVR0[v] /\ ~ s.rs[1].bvInfo[v].echod /\ s.rs[1].bvInfo[v].msgCount > t
    ELSE Supported(s, r) /\ ~ Support(s, r, v).echod /\ Support(s, r, v).msgCount > t
Echo(s, r, v) ==
    LET q == IF r = 1 THEN 1 ELSE s.rs[r].support[v] IN
    IF Echoes(s, r, v)
    THEN Broadcast([s EXCEPT !.rs[q].bvInfo[v].echod = TRUE,
                             !.sentBVR0[v] = @ \/ r = 1], <<"BV", q, v>>)
    ELSE s

\* The AuxProof message of round r: the coin of the round before if it is supported or the
\* node must, else the other value if it is supported.
SendAux(s, r, v) == IF s.rs[r].sentAux THEN s
                    ELSE Broadcast([s EXCEPT !.rs[r].sentAux = TRUE], <<"AuxProof", r, v>>)
checkAux(s, r) ==
    LET c == s.rs[r].prevCoin IN
    CASE s.rs[r].sentAux \/ ~ s.rs[r].checkedCoin \/ c = Unknown -> s
      [] OTHER -> IF ~ Supported(s, r) THEN PanicIf(TRUE, s)
                  ELSE IF Valid(s, r, c) \/ s.rs[r].mustSupportCoin THEN SendAux(s, r, c)
                  ELSE IF Valid(s, r, 1 - c) THEN SendAux(s, r, 1 - c)
                  ELSE s

\* "more than t faulty": no correct node sends BV messages for the coin.
BvForCoin(s, r) ==
    r > 1 /\ Supported(s, r) /\ s.rs[r].bvInfo[s.rs[r].prevCoin].msgCount > t

checkBVAuxBroadcasts(s, r) ==
    checkAux(Echo(Echo(PanicIf(BvForCoin(s, r), s), r, 1), r, 0), r)

-----------------------------------------------------------------------------
\* checkDone: no other value in the decided round, or its coin again later.
NoOtherVotes(s) ==
    LET other == 1 - s.rs[s.decidedRound].coin IN
    s.rs[s.decidedRound].AuxBinNums[other] = 0 \/ ~ Valid(s, s.decidedRound, other)
CoinAgain(s, r) ==          \* the round in which the decided coin comes again, from r on, or 0
    LET again == {q \in r..LastRound(s) : /\ r > s.decidedRound
                                          /\ s.rs[q].coin = s.rs[s.decidedRound].coin
                                          /\ \A i \in r..q : s.rs[i].coin # Unknown}
    IN IF again = {} THEN 0 ELSE CHOOSE q \in again : \A i \in again : q <= i

\* The proof of SendProof consists of signatures that have been sent.
Terminate(s, r) == [s EXCEPT !.terminated = TRUE, !.terminatedRound = r]
Past(s, r) == s.terminated /\ r >= s.terminatedRound
checkDoneNode(gc, s, r) ==
    LET s1 == IF gc.StopOnCommit = "SendProof" /\ ~ s.terminated
              THEN Terminate(s, s.decidedRound) ELSE s
    IN
    CASE Past(s, r) \/ s.Decided = Unknown -> s
      [] ~ (Past(s, r) \/ s.Decided = Unknown) /\ gc.StopOnCommit = "Immediate" ->
           Terminate(s, s.decidedRound)
      [] OTHER -> IF ~ NoOtherVotes(s) /\ CoinAgain(s, r) # 0
                  THEN Terminate(s1, CoinAgain(s, r)) ELSE s1
checkDone(gc, s, r) ==
    \/ Past(s, r)
    \/ s.Decided # Unknown /\ (gc.StopOnCommit = "Immediate" \/ NoOtherVotes(s))

-----------------------------------------------------------------------------
Quorum(s, r, v) == s.rs[r].AuxBinNums[v] >= nmt
validCount(s, r) == (IF Valid(s, r, 0) THEN s.rs[r].AuxBinNums[0] ELSE 0)
                    + (IF Valid(s, r, 1) THEN s.rs[r].AuxBinNums[1] ELSE 0)

\* What the node has seen when it reveals the coin binds it in the next round.
MustSupportCoin(s, r) == ~ \E v \in Bin : Valid(s, r, v) /\ Quorum(s, r, v)
Mixed(s, r) == \A v \in Bin : Valid(s, r, v) /\ s.rs[r].AuxBinNums[v] > 0
ShareCoin(gc, s, r) ==
    LET s1 == PanicIf(MustSupportCoin(s, r) /\ ~ Mixed(s, r),
                      [s EXCEPT !.rs[r + 1].checkedCoin = TRUE,
                                !.rs[r + 1].mustSupportCoin = MustSupportCoin(s, r)])
    IN
    CASE s.rs[r + 1].checkedCoin -> s
      [] OTHER -> IF s.rs[r].sentCoin THEN s1
                  ELSE GenerateCoinMessage(gc, [s1 EXCEPT !.rs[r].sentCoin = TRUE], r)

\* The first message of the next round: the coin is voted for at once.
Propose(s, r) ==
    LET c == s.rs[r].coin
        est == CASE s.rs[r + 1].mustSupportCoin -> c
                 [] OTHER -> IF Quorum(s, r, 0) THEN 0 ELSE 1
        s1 == PanicIf(~ s.rs[r + 1].mustSupportCoin /\ ~ Quorum(s, r, 0) /\ ~ Quorum(s, r, 1), s)
        s2 == [s1 EXCEPT !.rs[r + 1].sentProposal = TRUE]
    IN
    CASE c = Unknown -> s
      [] c # Unknown /\ s.rs[r + 1].sentProposal -> s1
      [] OTHER -> IF est = c THEN SendAux(s2, r + 1, est)
                  ELSE IF Support(s, r + 1, est).echod THEN s2
                  ELSE Broadcast([s2 EXCEPT !.rs[s.rs[r + 1].support[est]].bvInfo[est].echod = TRUE],
                                 <<"BV", r + 1, est>>)
checkCoinBroadcasts(gc, s, r) == Propose(ShareCoin(gc, s, r), r)

\* CheckRound(round), under the mutex of the message state.
CheckRound(gc, s, r) ==
    LET s1 == RecordCoin(s, r)
        s2 == checkBVAuxBroadcasts(Decide(s1, r), r)
        s3 == checkDoneNode(gc, s2, r)
    IN
    CASE s1.rs[r].prevCoin = Unknown -> [node |-> s1, more |-> FALSE]
      [] s1.rs[r].prevCoin # Unknown
            /\ (checkDone(gc, s2, r) \/ s.rs[r].TotalAuxBinMsgCount < nmt) ->
           [node |-> s3, more |-> FALSE]
      [] OTHER -> [node |-> IF validCount(s1, r) >= nmt THEN checkCoinBroadcasts(gc, s3, r) ELSE s3,
                   more |-> TRUE]

\* GotProposal: the BV message of round 1, unless it has been sent as an echo.
GotProposal(gc, s, v) ==
    IF s.sentBVR0[v] THEN s
    ELSE Broadcast(PanicIf(s.rs[1].bvInfo[v].echod,
                           [s EXCEPT !.sentBVR0[v] = TRUE, !.rs[1].bvInfo[v].echod = TRUE]),
                   <<"BV", 1, v>>)
=============================================================================
