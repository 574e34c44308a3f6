----------------------------- MODULE BinConsRnd1 ----------------------------
(***************************************************************************)
(* The operations of consensus/cons/binconsrnd1: rounds of AuxProof        *)
(* messages, each ended by a strong coin, whose value can be decided in    *)
(* the round.  Signatures justify values: a value other than the coin of   *)
(* the previous round needs n-t messages of that round.  With              *)
(* AllowSupportCoin a message may back the coin of the previous round      *)
(* before it is known.  BinConsRnd runs these operations.                  *)
(***************************************************************************)
EXTENDS RndNode, FiniteSetsExt, TLC

Messages(gc) ==
    {<<"AuxProof", r, v>> : r \in Rounds(gc), v \in Bin}
    \cup (IF gc.AllowSupportCoin THEN {<<"AuxProof", r, Coin>> : r \in 2..gc.MaxRound} ELSE {})

\* The auxRandRoundStruct of the rounds, as getAuxRoundStruct makes them.
InitRounds(gc) ==
    [r \in Rounds(gc) |-> [BinNums |-> [v \in Bin |-> 0], TotalBinMsgCount |-> 0,
                           checkedCoin |-> gc.isMv /\ r = 0, mustSupportNextRound |-> 0, sentProposal |-> FALSE]]

\* Under a multi-value reduction mvValid are the values it has found valid for round 1.
New(gc, p) == [isMv |-> gc.isMv, mvValid |-> {}] @@ NewNode(gc, p, InitRounds(gc), Messages(gc))

\* What the reduction reads and changes.
SetMvValid(s, v) == [s EXCEPT !.mvValid = @ \cup {v}]          \* SetMv0Valid, SetMv1Valid
SentProposal(s) == s.rs[0].sentProposal
SetSentProposal(s) == [s EXCEPT !.rs[0].sentProposal = TRUE]
MVInitialRoundBroadcast(v) == <<"AuxProof", 1, v>>
CanSkipMvTimeout(s) == s.rs[2].TotalBinMsgCount >= nmt

\* The signers of the coin of the previous round back its value once it is known.
checkSupportCoin(gc, s, r) ==
    LET c == GetCoin(s, r - 1)
        count == TotalSigCount(s, {<<"AuxProof", r, c>>, <<"AuxProof", r, Coin>>})
    IN
    IF gc.AllowSupportCoin /\ r \in 2..gc.MaxRound /\ c # Unknown
    THEN PanicIf(s.rs[r].BinNums[c] >= nmt /\ s.rs[r].BinNums[c] > count,
                 [s EXCEPT !.rs[r].BinNums[c] = count])
    ELSE s

\* The second half of GotMsg: a thread raises the counts of the round.
GotMsg(gc, s, d) ==
    LET r == d.msg[2]
        v == IF d.msg[3] = Coin THEN GetCoin(s, r - 1) ELSE d.msg[3]
        counted == [s EXCEPT !.rs[r].TotalBinMsgCount = MaxOf(@, d.NewMsgIDSigCount)]
    IN
    CASE d.msg[1] # "AuxProof" -> checkSupportCoin(gc, CoinGotMsg(gc, s, d), r + 1)
      [] v = Unknown           -> counted
      [] OTHER -> checkSupportCoin(gc, [counted EXCEPT !.rs[r].BinNums[v] =
                                          MaxOf(@, d.NewTotalSigCount)], r)

-----------------------------------------------------------------------------
\* getMostRecentValids: the last round up to r in which v could become valid: the coin of the
\* round before was the other value.
validRound(s, r, v) == Max({q \in 0..r : q <= 1 \/ GetCoin(s, q - 1) # v})
Valid(s, r, v) ==
    LET q == validRound(s, r, v) IN
    \/ q = 0
    \/ q = 1 /\ IF s.isMv THEN v \in s.mvValid ELSE s.rs[0].BinNums[v] > t
    \/ q > 1 /\ s.rs[q - 1].BinNums[v] >= nmt

\* GetProofs finds sigCount signatures for v in round r, those that back the coin included.
GetProofs(gc, s, r, v, sigCount) ==
    LET getCoin == gc.AllowSupportCoin /\ r > 1 /\ GetCoin(s, r - 1) = v
    IN Cardinality(s.sigs[<<"AuxProof", r, v>>])
           + (IF getCoin THEN Cardinality(s.sigs[<<"AuxProof", r, Coin>>]) ELSE 0) >= sigCount

\* GenerateProofs finds the signatures that make v valid for round r.
Proofs(gc, s, r, v) ==
    LET q == validRound(s, r, v) IN
       \/ r <= 2 /\ v = 1 /\ v \in s.mvValid        \* the echoes of the reduction, or its timeout
       \/ r = 1 /\ v = 0 /\ v \in s.mvValid
       \/ Valid(s, r, v) /\ (q > 0 => GetProofs(gc, s, q - 1, v, IF q = 1 THEN t + 1 ELSE nmt))

\* CheckRound cannot do anything yet.
NotReady(s, r) ==
    \/ s.rs[r].TotalBinMsgCount < nmt
    \/ \E q \in 0..(r - 1) : ~ s.rs[q].sentProposal \/ GetCoin(s, q) = Unknown

\* The coin of the round is known, valid, and has n-t messages.
DecidesOffByOne(s, r) ==        \* variant: one message too few
    /\ r > 0 /\ GetCoin(s, r) # Unknown
    /\ Valid(s, r, GetCoin(s, r)) /\ s.rs[r].BinNums[GetCoin(s, r)] >= nmt - 1
Decides(s, r) ==
    /\ r > 0 /\ GetCoin(s, r) # Unknown
    /\ Valid(s, r, GetCoin(s, r)) /\ s.rs[r].BinNums[GetCoin(s, r)] >= nmt

Decide(gc, s, r) ==
    LET c == GetCoin(s, r) IN
    IF Decides(s, r)
    THEN PanicIf(s.Decided \notin {Unknown, c} \/ s.rs[r].BinNums[1 - c] >= nmt,
                 [s EXCEPT !.Decided = c,
                           !.decidedRound = IF s.Decided = Unknown THEN r ELSE @,
                           !.terminated = @ \/ gc.StopOnCommit = "Immediate"])
    ELSE s

\* CheckRound returns from its decision block.
ReturnsDecided(gc, s, r) ==
    /\ Decides(s, r) /\ gc.StopOnCommit # "SendProof"
    /\ \/ gc.StopOnCommit = "Immediate"
       \/ s.rs[r].BinNums[1 - GetCoin(s, r)] = 0
       \/ ~ Valid(s, r, 1 - GetCoin(s, r))

\* checkDone returns true, and whether it ends the instance.  The proof of SendProof consists
\* of signatures that have been sent.
NoOtherVotes(s) ==
    LET other == 1 - GetCoin(s, s.decidedRound) IN
    s.rs[s.decidedRound].BinNums[other] = 0 \/ ~ Valid(s, s.decidedRound, other)
CoinAgain(s) ==     \* the decided value is the coin again, in a round up to which all are known
    \E q \in (s.decidedRound + 1)..LastRound(s) :
        /\ GetCoin(s, q) = GetCoin(s, s.decidedRound)
        /\ \A i \in (s.decidedRound + 1)..q : GetCoin(s, i) # Unknown
Ends(gc, s, r) ==
    /\ ~ s.terminated /\ s.Decided # Unknown /\ r >= s.decidedRound
    /\ gc.StopOnCommit = "NextRound" => ~ NoOtherVotes(s) /\ CoinAgain(s)
Done(gc, s, r) ==
    \/ s.terminated
    \/ s.Decided # Unknown /\ (r < s.decidedRound \/ gc.StopOnCommit # "NextRound"
                               \/ NoOtherVotes(s) \/ CoinAgain(s))

validCount(s, r) == (IF Valid(s, r, 0) THEN s.rs[r].BinNums[0] ELSE 0)
                    + (IF Valid(s, r, 1) THEN s.rs[r].BinNums[1] ELSE 0)

\* What a node that has seen round r > 0 must support in the next one.
NoSupport == 3      \* "should not reach"
Mixed(s, r) == \A v \in Bin : Valid(s, r, v) /\ s.rs[r].BinNums[v] > 0
MustSupport(s, r) ==
    CASE Valid(s, r, 1) /\ s.rs[r].BinNums[1] >= nmt -> 1
      [] ~ (Valid(s, r, 1) /\ s.rs[r].BinNums[1] >= nmt) /\ Mixed(s, r) -> Coin
      [] ~ (Valid(s, r, 1) /\ s.rs[r].BinNums[1] >= nmt) /\ ~ Mixed(s, r)
            /\ Valid(s, r, 0) /\ s.rs[r].BinNums[0] >= nmt -> 0
      [] OTHER -> NoSupport

SendAux(gc, s, r, est, prfRound, prfVals) ==
    Broadcast(PanicIf(gc.IncludeProofs /\ \E v \in prfVals : ~ Proofs(gc, s, prfRound, v),
                      [s EXCEPT !.rs[r].sentProposal = TRUE]),
              <<"AuxProof", r + 1, est>>)

\* checkBroadcasts: first the share of the coin, with the coin the message of the next round.
checkBroadcasts(gc, s, r) ==
    LET first == r > 0 /\ ~ s.rs[r].checkedCoin
        checked == [s EXCEPT !.rs[r].checkedCoin = TRUE,
                             !.rs[r].mustSupportNextRound = MustSupport(s, r)]
        s1 == IF first
              THEN GenerateCoinMessage(gc, PanicIf(MustSupport(s, r) = NoSupport, checked), r)
              ELSE s
        est == CASE r = 0 -> IF s.rs[0].BinNums[1] >= s.rs[0].BinNums[0] THEN 1 ELSE 0
                 [] r > 0 /\ s1.rs[r].mustSupportNextRound = Coin -> GetCoin(s, r)
                 [] OTHER -> s1.rs[r].mustSupportNextRound
    IN
    IF (r = 0 \/ GetCoin(s, r) # Unknown) /\ ~ s.rs[r].sentProposal
    THEN SendAux(gc, s1, r, est, r + 1, {est})
    ELSE s1

\* checkBroadcastsAuxCoin: the share and the message of the next round go together, the
\* message may back the coin.  Its proofs are those of this round.
checkBroadcastsAuxCoin(gc, s, r) ==
    LET est == IF r = 0 THEN (IF s.rs[0].BinNums[1] > t THEN 1 ELSE 0) ELSE MustSupport(s, r)
        bad == IF r = 0 THEN \A v \in Bin : s.rs[0].BinNums[v] <= t ELSE est = NoSupport
        checked == PanicIf(bad, [s EXCEPT !.rs[r].checkedCoin = TRUE,
                                          !.rs[r].mustSupportNextRound = IF r = 0 THEN @ ELSE est])
        shared == IF r > MaxPresetRound(gc) THEN GenerateCoinMessage(gc, checked, r) ELSE checked
        noShare == r > MaxPresetRound(gc) /\ shared = checked
    IN
    CASE s.rs[r].checkedCoin  -> s
      [] ~ s.rs[r].checkedCoin /\ s.rs[r].sentProposal -> checked
      [] OTHER -> SendAux(gc, PanicIf(noShare, shared), r, est, r,
                          IF est = Coin THEN Bin ELSE {est})

\* CheckRound(round), under the mutex of the message state: the node after it and whether the
\* loop goes on with the next round.
CheckRound(gc, s, r) ==
    LET s1 == Decide(gc, s, r)
        s2 == [s1 EXCEPT !.terminated = @ \/ Ends(gc, s1, r)]
    IN
    CASE NotReady(s, r)            -> [node |-> s, more |-> FALSE]
      [] ~ NotReady(s, r) /\ ReturnsDecided(gc, s, r) -> [node |-> s1, more |-> TRUE]
      [] ~ NotReady(s, r) /\ ~ ReturnsDecided(gc, s, r) /\ validCount(s, r) < nmt ->
            [node |-> s1, more |-> FALSE]
      [] OTHER ->
            [node |-> IF Done(gc, s1, r) THEN s2
                      ELSE IF gc.AllowSupportCoin THEN checkBroadcastsAuxCoin(gc, s1, r)
                      ELSE checkBroadcasts(gc, s1, r),
             more |-> TRUE]

\* GotProposal: the proposal is the message of round 0, unless that of round 1 has been sent.
GotProposal(gc, s, v) == IF s.rs[0].sentProposal THEN s ELSE Broadcast(s, <<"AuxProof", 0, v>>)
=============================================================================
