----------------------------- MODULE BinConsRnd5 ----------------------------
(***************************************************************************)
(* The operations of consensus/cons/binconsrnd5: BinConsRnd3 after two     *)
(* short rounds with fixed coins, which have no AuxBoth messages.  n-t     *)
(* AuxProof messages for 1 decide in round 1, n-t for 0 in round 2.        *)
(* BinConsRnd runs these operations.                                       *)
(***************************************************************************)
EXTENDS RndNode

R3 == INSTANCE BinConsRnd3

\* The first rounds have no AuxBoth messages, and the coin cannot be backed unseen before the
\* round after the fixed coins.
Messages(gc) ==
    {<<"AuxProof", r, v>> : r \in Rounds(gc), v \in Bin}
    \cup {<<"AuxBoth", r, v>> : r \in 3..gc.MaxRound, v \in Bin \cup {BothBin}}
    \cup (IF gc.AllowSupportCoin
          THEN {<<"AuxProof", r, Coin>> : r \in (MaxPresetRound(gc) + 2)..gc.MaxRound} ELSE {})

\* getAuxRoundStruct.
InitRounds(gc) ==
    [r \in Rounds(gc) |-> [R3!InitRounds(gc)[r] EXCEPT !.sentAuxBoth = r < 3]]

New(gc, p) == NewNode(gc, p, InitRounds(gc), Messages(gc))

\* The choice of the AuxBoth messages that count, which only an AuxProof message of the round
\* triggers.
TrackBoth(s, r) ==
    IF r > 2 /\ s.rs[r].auxBothHeaders = Unknown THEN R3!updateBothMsgCount(s, r) ELSE s

\* The second half of GotMsg: a thread raises the counts of the round.
GotAuxProof(gc, s, d) ==
    LET r == d.msg[2]
        prev == IF r > MaxPresetRound(gc) + 1 THEN s.rs[r - 1].coin ELSE Unknown
        v == IF d.msg[3] = Coin THEN prev ELSE d.msg[3]
        counted == [s EXCEPT !.rs[r].TotalBinAuxMsgCount = MaxOf(@, d.NewMsgIDSigCount)]
        s1 == TrackBoth([counted EXCEPT !.rs[r].BinNumsAux[v] = MaxOf(@, d.NewTotalSigCount)], r)
        count == R3!CoinSupport(s, r, prev)
    IN
    CASE v = Unknown -> counted
      [] v # Unknown /\ gc.AllowSupportCoin /\ prev # Unknown ->
           PanicIf(s1.rs[r].BinNumsAux[prev] >= nmt /\ s1.rs[r].BinNumsAux[prev] > count,
                   [s1 EXCEPT !.rs[r].BinNumsAux[prev] = count])
      [] OTHER -> s1
GotMsg(gc, s, d) == CASE d.msg[1] = "AuxProof" -> GotAuxProof(gc, s, d)
                      [] d.msg[1] = "AuxBoth"  -> R3!GotAuxBoth(s, d)
                      [] OTHER                 -> CoinGotMsg(gc, s, d)

-----------------------------------------------------------------------------
RecordCoin(gc, s, r) ==
    LET c == GetCoin(s, r)
        s1 == [s EXCEPT !.rs[r].coin = c]
    IN
    CASE r < 3 \/ s.rs[r].coin # Unknown \/ c = Unknown -> s
      [] OTHER -> IF gc.AllowSupportCoin
                  THEN [s1 EXCEPT !.rs[r + 1].BinNumsAux[c] = R3!CoinSupport(s, r + 1, c)]
                  ELSE s1

\* getValidsAuxProof: in round 2, 1 needs to be valid in round 1 only; in round 3, 0 in round 2.
ValidAuxProof(gc, s, r, v) ==
    CASE r = 1 -> s.rs[0].TotalBinAuxMsgCount >= nmt /\ s.rs[0].BinNumsAux[v] > t
      [] r = 2 -> /\ s.rs[1].TotalBinAuxMsgCount >= nmt
                  /\ IF v = 0 THEN s.rs[1].BinNumsAux[0] >= nmt ELSE s.rs[0].BinNumsAux[1] > t
      [] r = 3 -> /\ s.rs[2].TotalBinAuxMsgCount >= nmt
                  /\ IF v = 0 THEN s.rs[1].BinNumsAux[0] >= nmt ELSE s.rs[2].BinNumsAux[1] >= nmt
      [] OTHER -> R3!ValidAuxProof(gc, s, r, v)
SupportCoin(gc, s, r) == r > 3 /\ R3!SupportCoin(gc, s, r)

\* getValidsAuxBoth.
ValidAuxBoth(s, r, v) ==
    IF r = 3 /\ v = BothBin
    THEN /\ s.rs[1].BinNumsAux[0] >= nmt /\ s.rs[2].BinNumsAux[1] >= nmt
         /\ s.rs[3].TotalBinAuxMsgCount >= nmt
    ELSE R3!ValidAuxBoth(s, r, v)

\* GetProofs and GenerateProofs.
ProofsAux(gc, s, r, v, count) ==
    LET withCoin == gc.AllowSupportCoin /\ r > 3 /\ s.rs[r - 1].coin = v IN
    Cardinality(s.sigs[<<"AuxProof", r, v>>])
        + (IF withCoin THEN Cardinality(s.sigs[<<"AuxProof", r, Coin>>]) ELSE 0) >= count
ProofsForAux(gc, s, r, v, supportCoin) ==
    CASE r = 1 -> ProofsAux(gc, s, 0, v, t + 1)
      [] r = 2 -> IF v = 0 THEN ProofsAux(gc, s, 1, 0, nmt) ELSE ProofsAux(gc, s, 0, 1, t + 1)
      [] r = 3 -> IF v = 0 THEN ProofsAux(gc, s, 1, 0, nmt) ELSE ProofsAux(gc, s, 2, 1, nmt)
      [] OTHER -> IF supportCoin THEN R3!ProofsBothBin(s, r - 1) ELSE ProofsAux(gc, s, r - 1, v, nmt)
ProofsForBoth(gc, s, r, v) ==
    CASE v # BothBin -> ProofsAux(gc, s, r, v, nmt)
      [] OTHER -> IF r = 3 THEN ProofsAux(gc, s, 1, 0, nmt) /\ ProofsAux(gc, s, 2, 1, nmt)
                  ELSE R3!ProofsBothBin(s, r - 1)

-----------------------------------------------------------------------------
\* The node has not sent what it has to send in the round before r.
Behind(gc, s, r) ==
    LET prev == s.rs[r - 1] IN
    /\ r > 1
    /\ \/ ~ prev.sentAuxProof
       \/ r > 2 /\ (~ prev.sentAuxBoth \/ ~ (prev.sentCoin \/ gc.AllowSupportCoin))

\* beforeBcastSanityCheck, for each of the three messages.
PanicAux(gc, s, r) == \/ r = 2 /\ ~ s.rs[1].sentAuxProof
                      \/ r > 3 /\ R3!PanicAux(gc, s, r)
PanicBoth(s, r, est) == ~ s.rs[r].sentAuxProof \/ (r > 3 /\ R3!PanicBoth(s, r, est))
PanicCoin(s, r) == \/ ~ s.rs[r].sentAuxProof \/ ~ s.rs[r].sentAuxBoth
                   \/ r > 3 /\ R3!PanicCoin(s, r)

\* generateProofsInternal: a message is sent with the proofs of its value, which must be there.
generateProofsInternal(gc, s, proofs) == PanicIf(gc.IncludeProofs /\ ~ proofs, s)

\* checkBroadcastsAux, and checkBroadcastsAuxCoin, which reveals the coin of the round before.
checkBroadcastsAux(gc, s, r, v) ==
    LET reveals == gc.AllowSupportCoin /\ (r > MaxPresetRound(gc) \/ v = Coin)
        est == IF reveals /\ SupportCoin(gc, s, r) THEN Coin ELSE v
        proofs == ProofsForAux(gc, s, r, est, SupportCoin(gc, s, r))
        s1 == [s EXCEPT !.rs[r].sentAuxProof = TRUE, !.rs[r - 1].sentCoin = @ \/ reveals]
        s2 == IF reveals THEN GenerateCoinMessage(gc, s1, r - 1) ELSE s1
    IN PanicIf(PanicAux(gc, s, r),
               IF s.rs[r].sentAuxProof THEN s
               ELSE Broadcast(generateProofsInternal(gc, s2, proofs), <<"AuxProof", r, est>>))

checkBroadcastsAuxBoth(gc, s, r, est) ==
    PanicIf(PanicBoth(s, r, est),
            IF s.rs[r].sentAuxBoth THEN s
            ELSE Broadcast(generateProofsInternal(gc, [s EXCEPT !.rs[r].sentAuxBoth = TRUE],
                                                  ProofsForBoth(gc, s, r, est)),
                           <<"AuxBoth", r, est>>))

checkBroadcastsCoin(gc, s, r) ==
    PanicIf(PanicCoin(s, r),
            IF s.rs[r].sentCoin THEN s
            ELSE GenerateCoinMessage(gc, [s EXCEPT !.rs[r].sentCoin = TRUE], r))

-----------------------------------------------------------------------------
DecideShort(s, r) ==
    LET v == IF r = 1 THEN 1 ELSE 0 IN
    CASE s.rs[r].BinNumsAux[v] < nmt -> s
      [] OTHER -> IF s.Decided = Unknown THEN [s EXCEPT !.Decided = v, !.decidedRound = r]
                  ELSE PanicIf(s.Decided # v, s)
Decide(s, r) == IF r < 3 THEN DecideShort(s, r) ELSE R3!Decide(s, r)

\* checkDone returns true, and the node after it.
Done(gc, s, r) == R3!Done(gc, s, r)
Terminate(s, r) == R3!Terminate(s, r)

\* The value of the AuxProof and of the AuxBoth message that the node may send in round r.
AuxValue(gc, s, r) ==
    CASE ValidAuxProof(gc, s, r, 1) -> 1
      [] OTHER -> IF ValidAuxProof(gc, s, r, 0) THEN 0
                  ELSE IF gc.AllowSupportCoin /\ SupportCoin(gc, s, r) THEN Coin
                  ELSE Unknown
BothValue(s, r) ==
    CASE ValidAuxBoth(s, r, 0) -> 0
      [] OTHER -> IF ValidAuxBoth(s, r, 1) THEN 1
                  ELSE IF ValidAuxBoth(s, r, BothBin) THEN BothBin
                  ELSE Unknown
EnoughAux(gc, s, r) ==
    LET Count(v) == IF ValidAuxProof(gc, s, r, v) THEN s.rs[r].BinNumsAux[v] ELSE 0
    IN Count(0) + Count(1) >= nmt /\ s.rs[r].TotalBinAuxMsgCount >= nmt

\* CheckRound(round), under the mutex of the message state.
CheckRound(gc, s, r) ==
    LET s1 == RecordCoin(gc, s, r)
        s2 == checkBroadcastsAux(gc, PanicIf(r > 3 /\ R3!TwoQuorums(s1, r), s1), r, AuxValue(gc, s1, r))
        s3 == Decide(IF r < 3 THEN s2 ELSE checkBroadcastsAuxBoth(gc, s2, r, BothValue(s2, r)), r)
        stop(u) == [node |-> u, more |-> FALSE]
        count == IF r < 3 THEN s3.rs[r].TotalBinAuxMsgCount ELSE s3.rs[r].TotalBinBothMsgCount
    IN
    IF r = 0 THEN [node |-> s, more |-> TRUE]
    ELSE IF Behind(gc, s1, r) \/ AuxValue(gc, s1, r) = Unknown THEN stop(s1)
    ELSE IF r > 2 /\ (~ EnoughAux(gc, s1, r) \/ BothValue(s2, r) = Unknown) THEN stop(s2)
    ELSE IF Done(gc, s3, r) THEN stop(Terminate(s3, r))
    ELSE IF count < nmt THEN stop(s3)
    ELSE [node |-> IF r < 3 \/ gc.AllowSupportCoin THEN s3 ELSE checkBroadcastsCoin(gc, s3, r),
          more |-> TRUE]

GotProposal(gc, s, v) == R3!GotProposal(gc, s, v)
=============================================================================
