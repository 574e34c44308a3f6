----------------------------- MODULE BinConsRnd3 ----------------------------
(***************************************************************************)
(* The operations of consensus/cons/binconsrnd3: a round has AuxProof      *)
(* messages for a value, then AuxBoth messages for a value with n-t of     *)
(* them or for BothBin, then a coin.  n-t AuxBoth messages for a value     *)
(* decide it, n-t for BothBin allow the coin in the next round.  With      *)
(* AllowSupportCoin the coin of a round is revealed with the AuxProof      *)
(* message of the next one, which may back it unseen.  BinConsRnd runs     *)
(* these operations.                                                       *)
(***************************************************************************)
EXTENDS RndNode

Messages(gc) ==
    {<<"AuxProof", r, v>> : r \in Rounds(gc), v \in Bin}
    \cup {<<"AuxBoth", r, v>> : r \in 1..gc.MaxRound, v \in Bin \cup {BothBin}}
    \cup (IF gc.AllowSupportCoin THEN {<<"AuxProof", r, Coin>> : r \in 2..gc.MaxRound} ELSE {})

\* The auxRandRoundStruct of the rounds, as getAuxRoundStruct makes them.
InitRounds(gc) ==
    [r \in Rounds(gc) |->
        [BinNumsAux |-> [v \in Bin |-> 0], TotalBinAuxMsgCount |-> 0,
         BinNumsBoth |-> [v \in Bin \cup {BothBin} |-> 0], TotalBinBothMsgCount |-> 0,
         coin |-> Unknown,                      \* gotCoin, coinVals
         auxBothHeaders |-> Unknown,            \* the value of the first of the two headers
         sentCoin |-> r <= MaxPresetRound(gc),
         sentAuxProof |-> FALSE, sentAuxBoth |-> r = 0]]

New(gc, p) == NewNode(gc, p, InitRounds(gc), Messages(gc))

\* updateBothMsgCount: once a value has n-t AuxProof messages, the AuxBoth messages of the round
\* that count are those for it and for BothBin.
updateBothMsgCount(s, r) ==
    LET found == {v \in Bin : s.rs[r].BinNumsAux[v] >= nmt}
        h == CASE s.rs[r].auxBothHeaders # Unknown \/ r = 0 \/ found = {} -> s.rs[r].auxBothHeaders
               [] OTHER -> IF 1 \in found THEN 1 ELSE 0
        both(v) == <<"AuxBoth", r, v>>
    IN
    IF h = Unknown THEN s
    ELSE [s EXCEPT !.rs[r].auxBothHeaders = h,
                   !.rs[r].TotalBinBothMsgCount = TotalSigCount(s, {both(h), both(BothBin)}),
                   !.rs[r].BinNumsBoth =
                       [v \in DOMAIN @ |-> IF v \in {h, BothBin}
                                           THEN MaxOf(@[v], Cardinality(s.sigs[both(v)]))
                                           ELSE @[v]]]

\* The members that back the coin c of the round before r, by its value or unseen.
CoinSupport(s, r, c) == TotalSigCount(s, {<<"AuxProof", r, c>>, <<"AuxProof", r, Coin>>})

\* The second half of GotMsg: a thread raises the counts of the round.
GotAuxProof(gc, s, d) ==
    LET r == d.msg[2]
        prev == IF r > 1 THEN s.rs[r - 1].coin ELSE Unknown
        v == IF d.msg[3] = Coin THEN prev ELSE d.msg[3]
        counted == [s EXCEPT !.rs[r].TotalBinAuxMsgCount = MaxOf(@, d.NewMsgIDSigCount)]
        s1 == updateBothMsgCount(
                [counted EXCEPT !.rs[r].BinNumsAux[v] = MaxOf(@, d.NewTotalSigCount)], r)
        count == CoinSupport(s, r, prev)
    IN
    CASE v = Unknown -> counted
      [] v # Unknown /\ gc.AllowSupportCoin /\ prev # Unknown ->
           PanicIf(s1.rs[r].BinNumsAux[prev] >= nmt /\ s1.rs[r].BinNumsAux[prev] > count,
                   [s1 EXCEPT !.rs[r].BinNumsAux[prev] = count])
      [] OTHER -> s1
GotAuxBoth(s, d) ==
    LET r == d.msg[2]
        s1 == [s EXCEPT !.rs[r].BinNumsBoth[d.msg[3]] = MaxOf(@, d.NewTotalSigCount)]
    IN
    CASE s.rs[r].auxBothHeaders # Unknown -> updateBothMsgCount(s1, r)
      [] OTHER -> IF d.msg[3] = BothBin
                  THEN [s1 EXCEPT !.rs[r].TotalBinBothMsgCount = MaxOf(@, d.NewTotalSigCount)]
                  ELSE s1
GotMsg(gc, s, d) == CASE d.msg[1] = "AuxProof" -> GotAuxProof(gc, s, d)
                      [] d.msg[1] = "AuxBoth"  -> GotAuxBoth(s, d)
                      [] OTHER                 -> CoinGotMsg(gc, s, d)

-----------------------------------------------------------------------------
\* CheckRound notes the coin of the round; those that backed it unseen now back its value.
RecordCoin(gc, s, r) ==
    LET c == GetCoin(s, r)
        s1 == [s EXCEPT !.rs[r].coin = c]
    IN
    CASE s.rs[r].coin # Unknown \/ c = Unknown -> s
      [] OTHER -> IF gc.AllowSupportCoin
                  THEN updateBothMsgCount([s1 EXCEPT !.rs[r + 1].BinNumsAux[c] =
                                             CoinSupport(s, r + 1, c)], r)
                  ELSE s1

\* getValidsAuxProof: the values an AuxProof message of round r may have, and supportCoin.
SupportCoin(gc, s, r) ==
    /\ r > 1 /\ s.rs[r - 1].TotalBinBothMsgCount >= nmt
    /\ gc.AllowSupportCoin \/ s.rs[r - 1].coin # Unknown
    /\ s.rs[r - 1].BinNumsBoth[BothBin] >= nmt
ValidAuxProof(gc, s, r, v) ==
    LET prev == s.rs[r - 1] IN
    IF r = 1 THEN prev.TotalBinAuxMsgCount >= nmt /\ prev.BinNumsAux[v] > t
    ELSE /\ prev.TotalBinBothMsgCount >= nmt
         /\ prev.BinNumsAux[v] >= nmt \/ (SupportCoin(gc, s, r) /\ prev.coin = v)
TwoQuorums(s, r) ==         \* "more than t faulty"
    /\ r > 1 /\ s.rs[r - 1].TotalBinBothMsgCount >= nmt
    /\ \A v \in Bin : s.rs[r - 1].BinNumsAux[v] >= nmt

\* getValidsAuxBoth.
ValidAuxBoth(s, r, v) ==
    IF v # BothBin THEN s.rs[r].BinNumsAux[v] >= nmt
    ELSE /\ s.rs[r].TotalBinAuxMsgCount >= nmt
         /\ IF r = 1 THEN \A b \in Bin : s.rs[0].BinNumsAux[b] > t
            ELSE s.rs[r - 1].coin # Unknown /\ s.rs[r - 1].BinNumsBoth[BothBin] >= nmt

\* GetProofs of AuxProof messages finds enough signatures for v in round r.
ProofsAux(gc, s, r, v, count) ==
    LET withCoin == gc.AllowSupportCoin /\ r > 1 /\ s.rs[r - 1].coin = v IN
    Cardinality(s.sigs[<<"AuxProof", r, v>>])
        + (IF withCoin THEN Cardinality(s.sigs[<<"AuxProof", r, Coin>>]) ELSE 0) >= count
ProofsBothBin(s, r) == Cardinality(s.sigs[<<"AuxBoth", r, BothBin>>]) >= nmt
\* GenerateProofs for an AuxProof or an AuxBoth message of round r.
ProofsForAux(gc, s, r, v, supportCoin) ==
    CASE r = 1 -> ProofsAux(gc, s, 0, v, t + 1)
      [] OTHER -> IF supportCoin THEN ProofsBothBin(s, r - 1) ELSE ProofsAux(gc, s, r - 1, v, nmt)
ProofsForBoth(gc, s, r, v) ==
    CASE v # BothBin -> ProofsAux(gc, s, r, v, nmt)
      [] OTHER -> IF r = 1 THEN \A b \in Bin : ProofsAux(gc, s, 0, b, t + 1)
                  ELSE ProofsBothBin(s, r - 1)

-----------------------------------------------------------------------------
\* The node has not sent what it has to send in the round before r.
Behind(gc, s, r) ==
    LET prev == s.rs[r - 1] IN
    r > 1 /\ (~ prev.sentAuxProof \/ ~ prev.sentAuxBoth \/ ~ (prev.sentCoin \/ gc.AllowSupportCoin))

\* beforeBcastSanityCheck, for each of the three messages.
PanicAux(gc, s, r) ==
    /\ r > 1
    /\ \/ ~ s.rs[r - 1].sentAuxProof \/ ~ s.rs[r - 1].sentAuxBoth
       \/ IF gc.AllowSupportCoin
          THEN r > MaxPresetRound(gc) + 1 /\ s.rs[r - 1].sentCoin # s.rs[r].sentAuxProof
          ELSE ~ s.rs[r - 1].sentCoin
PanicBoth(s, r, est) ==
    \/ ~ s.rs[r].sentAuxProof
    \/ /\ r > 1
       /\ \/ ~ s.rs[r - 1].sentAuxProof \/ ~ s.rs[r - 1].sentAuxBoth \/ ~ s.rs[r - 1].sentCoin
          \/ /\ s.rs[r - 1].coin = Unknown /\ est # BothBin
             /\ s.rs[r - 1].BinNumsBoth[est] < nmt /\ s.rs[r].BinNumsAux[est] < nmt
PanicCoin(s, r) ==
    \/ ~ s.rs[r].sentAuxProof \/ ~ s.rs[r].sentAuxBoth
    \/ r > 1 /\ (~ s.rs[r - 1].sentAuxProof \/ ~ s.rs[r - 1].sentAuxBoth \/ ~ s.rs[r - 1].sentCoin)

\* generateProofsInternal: a message is sent with the proofs of its value, which must be there.
generateProofsInternal(gc, s, proofs) == PanicIf(gc.IncludeProofs /\ ~ proofs, s)

\* checkBroadcastsAux, and checkBroadcastsAuxCoin, which reveals the coin of the round before.
checkBroadcastsAux(gc, s, r, v) ==
    LET unseen == gc.AllowSupportCoin /\ SupportCoin(gc, s, r)
        est == IF unseen THEN Coin ELSE v
        proofs == ProofsForAux(gc, s, r, est, SupportCoin(gc, s, r))
        s1 == [s EXCEPT !.rs[r].sentAuxProof = TRUE,
                        !.rs[r - 1].sentCoin = @ \/ gc.AllowSupportCoin]
        s2 == IF gc.AllowSupportCoin /\ r > 1 /\ r > MaxPresetRound(gc)
              THEN GenerateCoinMessage(gc, s1, r - 1) ELSE s1
    IN PanicIf(PanicAux(gc, s, r),
               IF s.rs[r].sentAuxProof THEN s
               ELSE Broadcast(generateProofsInternal(gc, s2, proofs), <<"AuxProof", r, est>>))

checkBroadcastsAuxBothAgain(gc, s, r, est) ==       \* variant: not once
    Broadcast(s, <<"AuxBoth", r, est>>)
checkBroadcastsAuxBoth(gc, s, r, est) ==
    PanicIf(PanicBoth(s, r, est),
            IF s.rs[r].sentAuxBoth THEN s
            ELSE Broadcast(generateProofsInternal(gc, [s EXCEPT !.rs[r].sentAuxBoth = TRUE],
                                                  ProofsForBoth(gc, s, r, est)),
                           <<"AuxBoth", r, est>>))

checkBroadcastsCoin(gc, s, r) ==
    PanicIf(PanicCoin(s, r),
            IF s.rs[r].sentCoin THEN s
            ELSE GenerateCoinMessage(gc, [s EXCEPT !.rs[r].sentCoin = TRUE], r))

-----------------------------------------------------------------------------
Decide(s, r) ==
    LET v == IF s.rs[r].BinNumsBoth[0] >= nmt THEN 0 ELSE 1 IN
    CASE s.rs[r].BinNumsBoth[v] < nmt -> s
      [] OTHER -> IF s.Decided = Unknown THEN [s EXCEPT !.Decided = v, !.decidedRound = r]
                  ELSE PanicIf(s.Decided # v, s)

\* checkDone returns true, and whether it ends the instance.
Done(gc, s, r) ==
    \/ s.terminated
    \/ /\ s.Decided # Unknown
       /\ r < s.decidedRound \/ gc.StopOnCommit # "NextRound" \/ r >= s.decidedRound + 1
Terminate(s, r) == [s EXCEPT !.terminated = @ \/ r >= s.decidedRound]

\* The value of the AuxProof and of the AuxBoth message that the node may send in round r.
AuxValue(gc, s, r) ==
    CASE ValidAuxProof(gc, s, r, 1) -> 1
      [] OTHER -> IF ValidAuxProof(gc, s, r, 0) THEN 0
                  ELSE IF gc.AllowSupportCoin /\ SupportCoin(gc, s, r) THEN Coin
                  ELSE Unknown
BothValue(s, r) ==
    CASE ValidAuxBoth(s, r, 0) -> 0
      [] OTHER -> IF ValidAuxBoth(s, r, 1) THEN 1
                  ELSE IF ValidAuxBoth(s, r, BothBin) THEN BothBin
                  ELSE Unknown
EnoughAux(gc, s, r) ==
    LET Count(v) == IF ValidAuxProof(gc, s, r, v) THEN s.rs[r].BinNumsAux[v] ELSE 0
    IN Count(0) + Count(1) >= nmt /\ s.rs[r].TotalBinAuxMsgCount >= nmt

\* CheckRound(round), under the mutex of the message state.
CheckRound(gc, s, r) ==
    LET s1 == RecordCoin(gc, s, r)
        s2 == checkBroadcastsAux(gc, PanicIf(TwoQuorums(s1, r), s1), r, AuxValue(gc, s1, r))
        s3 == Decide(checkBroadcastsAuxBoth(gc, s2, r, BothValue(s2, r)), r)
        stop(u) == [node |-> u, more |-> FALSE]
    IN
    IF r = 0 THEN [node |-> s, more |-> TRUE]
    ELSE IF Behind(gc, s1, r) \/ AuxValue(gc, s1, r) = Unknown THEN stop(s1)
    ELSE IF ~ EnoughAux(gc, s1, r) \/ BothValue(s2, r) = Unknown THEN stop(s2)
    ELSE IF Done(gc, s3, r) THEN stop(Terminate(s3, r))
    ELSE IF s3.rs[r].TotalBinBothMsgCount < nmt THEN stop(s3)
    ELSE [node |-> IF gc.AllowSupportCoin THEN s3 ELSE checkBroadcastsCoin(gc, s3, r), more |-> TRUE]

\* GotProposal: the AuxProof message of round 0.
GotProposal(gc, s, v) ==
    IF s.rs[0].sentAuxProof THEN s
    ELSE Broadcast([s EXCEPT !.rs[0].sentAuxProof = TRUE], <<"AuxProof", 0, v>>)
=============================================================================
