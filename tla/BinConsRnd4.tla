----------------------------- MODULE BinConsRnd4 ----------------------------
(***************************************************************************)
(* The operations of consensus/cons/binconsrnd4.  A round has two binary   *)
(* value broadcasts: BV messages of stage 0 for a node's estimate, an      *)
(* AuxProof message for the valid value or for BothBin, and, for a value   *)
(* with n-t of these, BV messages of stage 1 and an AuxStage1 message.     *)
(* n-t AuxStage1 messages for a value decide it; if none is valid the next *)
(* round starts with the coin.  BinConsRnd runs these operations, and      *)
(* BinConsRnd6 uses them from its third round on.                          *)
(*                                                                         *)
(* The BV state of a value in stage 0 may be that of another round:        *)
(* supportBvInfoStage0 is a pointer, here the stage and round it points    *)
(* to, or <<>> for nil.                                                    *)
(***************************************************************************)
EXTENDS RndNode

AllBin == Bin \cup {BothBin}

\* The votes of stage 0 are counted by BinConsRnd6 only.
Messages(gc, first) ==
    {<<id, r, v>> : id \in {"BV0", "AuxStage0"}, r \in 1..gc.MaxRound, v \in Bin}
    \cup {<<"BV1", r, v>> : r \in first..gc.MaxRound, v \in Bin}
    \cup {<<id, r, v>> : id \in {"AuxProof", "AuxStage1"}, r \in first..gc.MaxRound, v \in AllBin}

\* The auxRandRoundStruct of a round, as getAuxRoundStruct makes it.
InitRound(support) ==
    [sentInitialMessage |-> FALSE,
     bv |-> [stage \in {0, 1} |-> [v \in Bin |-> [msgCount |-> 0, sentMsg |-> FALSE]]],
     supportBvInfoStage0 |-> support,
     sentStage0Aux |-> FALSE, auxStage0BinNums |-> [v \in Bin |-> 0], TotalAuxStage0MsgCount |-> 0,
     sentAux |-> FALSE, AuxBinNums |-> [v \in AllBin |-> 0], TotalAuxBinMsgCount |-> 0,
     auxBinHeaders |-> {}, sentStage1BinValue |-> FALSE,
     sentStage1Aux |-> FALSE, auxStage1BinNums |-> [v \in AllBin |-> 0],
     TotalAuxStage1MsgCount |-> 0, auxStage1BinHeaders |-> {},
     coin |-> Unknown,          \* gotCoin, coinVal
     sentCoin |-> FALSE]

InitRounds(gc) ==
    [r \in Rounds(gc) |-> InitRound([v \in Bin |-> IF r = 1 THEN <<0, 1>> ELSE <<>>])]

New(gc, p) == NewNode(gc, p, InitRounds(gc), Messages(gc, 1))

\* getBVState(0, v, r).
BVState(s, r, v) ==
    LET ptr == s.rs[r].supportBvInfoStage0[v] IN
    IF ptr = <<>> THEN s.rs[r].bv[0][v] ELSE s.rs[ptr[2]].bv[ptr[1]][v]

\* updateAuxBinMsgCount and updateAuxStage1MsgCount: count the members behind the tracked values.
updateAuxBinMsgCount(s, r) ==
    LET M == {<<"AuxProof", r, v>> : v \in s.rs[r].auxBinHeaders} IN
    [s EXCEPT !.rs[r].TotalAuxBinMsgCount = TotalSigCount(s, M),
              !.rs[r].AuxBinNums = [v \in AllBin |->
                  IF v \in s.rs[r].auxBinHeaders
                  THEN MaxOf(@[v], Cardinality(s.sigs[<<"AuxProof", r, v>>])) ELSE @[v]]]
updateAuxStage1MsgCount(s, r) ==
    LET M == {<<"AuxStage1", r, v>> : v \in s.rs[r].auxStage1BinHeaders} IN
    [s EXCEPT !.rs[r].TotalAuxStage1MsgCount = TotalSigCount(s, M),
              !.rs[r].auxStage1BinNums = [v \in AllBin |->
                  IF v \in s.rs[r].auxStage1BinHeaders
                  THEN MaxOf(@[v], Cardinality(s.sigs[<<"AuxStage1", r, v>>])) ELSE @[v]]]

\* The second half of GotMsg: a thread raises the counts of the round.
GotBV(s, d, stage) ==
    [s EXCEPT !.rs[d.msg[2]].bv[stage][d.msg[3]].msgCount = MaxOf(@, d.NewTotalSigCount)]
GotAuxStage0(s, d) ==
    [s EXCEPT !.rs[d.msg[2]].auxStage0BinNums[d.msg[3]] = MaxOf(@, d.NewTotalSigCount),
              !.rs[d.msg[2]].TotalAuxStage0MsgCount = MaxOf(@, d.NewMsgIDSigCount)]
GotAuxProof(s, d) ==
    LET r == d.msg[2]
        s1 == [s EXCEPT !.rs[r].AuxBinNums[d.msg[3]] = MaxOf(@, d.NewTotalSigCount),
                        !.rs[r].TotalAuxBinMsgCount = MaxOf(@, d.NewTotalSigCount)]
    IN IF s.rs[r].auxBinHeaders = {} THEN s1 ELSE updateAuxBinMsgCount(s1, r)
GotAuxStage1(s, d) ==
    LET r == d.msg[2]
        s1 == [s EXCEPT !.rs[r].auxStage1BinNums[d.msg[3]] = MaxOf(@, d.NewTotalSigCount),
                        !.rs[r].TotalAuxStage1MsgCount = MaxOf(@, d.NewTotalSigCount)]
    IN IF s.rs[r].auxStage1BinHeaders = {} THEN s1 ELSE updateAuxStage1MsgCount(s1, r)
GotMsg(gc, s, d) == CASE d.msg[1] = "BV0"       -> GotBV(s, d, 0)
                      [] d.msg[1] = "BV1"       -> GotBV(s, d, 1)
                      [] d.msg[1] = "AuxStage0" -> GotAuxStage0(s, d)
                      [] d.msg[1] = "AuxProof"  -> GotAuxProof(s, d)
                      [] d.msg[1] = "AuxStage1" -> GotAuxStage1(s, d)
                      [] OTHER                  -> CoinGotMsg(gc, s, d)

-----------------------------------------------------------------------------
RecordCoin(s, r) == [s EXCEPT !.rs[r].coin = IF @ = Unknown THEN GetCoin(s, r) ELSE @]

SendBV(s, stage, r, v) ==
    IF s.rs[r].bv[stage][v].sentMsg THEN s
    ELSE Broadcast([s EXCEPT !.rs[r].bv[stage][v].sentMsg = TRUE],
                   <<IF stage = 0 THEN "BV0" ELSE "BV1", r, v>>)

\* The node joins a BV broadcast that t+1 members are in.
EchoBV(s, stage, r, v) == IF s.rs[r].bv[stage][v].msgCount > t THEN SendBV(s, stage, r, v) ELSE s
Echo(s, r) == EchoBV(EchoBV(EchoBV(EchoBV(s, 0, r, 0), 0, r, 1), 1, r, 0), 1, r, 1)

ValidBVs(s, r) == {v \in Bin : BVState(s, r, v).msgCount >= nmt}
AllOf(V) == CHOOSE v \in V : V = {v}        \* the value of a singleton

SendStage0Aux(s, r) ==
    LET V == ValidBVs(s, r) IN
    IF V = {} \/ s.rs[r].sentStage0Aux THEN s
    ELSE Broadcast([s EXCEPT !.rs[r].sentStage0Aux = TRUE],
                   <<"AuxStage0", r, IF 1 \in V THEN 1 ELSE 0>>)

SendAux(s, r) ==
    LET V == ValidBVs(s, r) IN
    IF V = {} \/ s.rs[r].sentAux \/ ~ s.rs[r].sentStage0Aux THEN s
    ELSE Broadcast([s EXCEPT !.rs[r].sentAux = TRUE],
                   <<"AuxProof", r, IF V = Bin THEN BothBin ELSE AllOf(V)>>)

\* With two valid values, AuxProof messages for any of them count.
TrackAux(s, r) ==
    IF ValidBVs(s, r) = Bin /\ s.rs[r].auxBinHeaders = {}
    THEN updateAuxBinMsgCount([s EXCEPT !.rs[r].auxBinHeaders = AllBin], r) ELSE s

\* The value of stage 1 (stage1BV), or Unknown.
Stage1BV(s, r) ==
    LET V == ValidBVs(s, r) IN
    CASE V = Bin -> IF s.rs[r].TotalAuxBinMsgCount >= nmt THEN BothBin ELSE Unknown
      [] V = {}  -> Unknown
      [] OTHER   -> IF s.rs[r].AuxBinNums[AllOf(V)] >= nmt THEN AllOf(V) ELSE Unknown

\* The BV message of stage 1, which BothBin does not need, and the AuxStage1 message.
SendStage1BV(s, r) ==
    LET v == Stage1BV(s, r)
        s1 == [s EXCEPT !.rs[r].sentStage1BinValue = TRUE]
    IN
    IF v = Unknown \/ s.rs[r].sentStage1BinValue \/ ~ s.rs[r].sentAux THEN s
    ELSE IF v = BothBin THEN s1 ELSE SendBV(s1, 1, r, v)

Stage1Values(s, r) == {v \in Bin : s.rs[r].bv[1][v].msgCount >= nmt}
SendStage1Aux(s, r) ==
    LET v == Stage1BV(s, r)
        V == IF v = BothBin THEN {BothBin} ELSE Stage1Values(s, r)
    IN
    IF v = Unknown \/ s.rs[r].sentStage1Aux \/ ~ s.rs[r].sentAux \/ V = {} THEN s
    ELSE Broadcast([s EXCEPT !.rs[r].sentStage1Aux = TRUE],
                   <<"AuxStage1", r, CHOOSE u \in V : \A x \in V : u <= x>>)

\* A value valid in stage 1 is valid in stage 0 of the next round.
Supported(r, v) == [u \in Bin |-> IF u = v THEN <<1, r>> ELSE <<0, r + 1>>]
SetSupport(s, r) ==
    LET V == Stage1Values(s, r)
        next == s.rs[r + 1].supportBvInfoStage0
    IN
    PanicIf(V = Bin \/ \E v \in V : next[v] # <<>> /\ next # Supported(r, v),
            IF V = {} THEN s
            ELSE [s EXCEPT !.rs[r + 1].supportBvInfoStage0 = Supported(r, CHOOSE v \in V : TRUE)])

Decide(s, r) ==
    LET V == {v \in Stage1Values(s, r) : s.rs[r].auxStage1BinNums[v] >= nmt} IN
    IF V = {} THEN s
    ELSE IF s.Decided = Unknown
         THEN [s EXCEPT !.Decided = CHOOSE v \in V : TRUE, !.decidedRound = r]
         ELSE PanicIf(s.Decided \notin V, s)

\* checkDone returns true, and the node after it.  extra is the number of rounds that follow the
\* round of the decision.
DoneAfter(gc, s, r, extra) ==
    \/ s.terminated /\ r >= s.terminatedRound
    \/ /\ s.Decided # Unknown
       /\ \/ gc.StopOnCommit = "Immediate"
          \/ gc.StopOnCommit = "SendProof" /\ ~ s.terminated
          \/ \E v \in Bin : BVState(s, s.decidedRound, v).msgCount < nmt
          \/ r > s.decidedRound + extra
Terminate(gc, s) ==
    IF s.Decided # Unknown /\ gc.StopOnCommit # "NextRound"
    THEN [s EXCEPT !.terminated = TRUE, !.terminatedRound = s.decidedRound] ELSE s

-----------------------------------------------------------------------------
\* The AuxStage1 messages that count: those for the valid value, for BothBin, or for both.
ValidStage1(s, r) == Stage1Values(s, r) \cup (IF ValidBVs(s, r) = Bin THEN {BothBin} ELSE {})
TrackStage1(s, r) ==
    IF Cardinality(ValidStage1(s, r)) = 2 /\ s.rs[r].auxStage1BinHeaders = {}
    THEN updateAuxStage1MsgCount([s EXCEPT !.rs[r].auxStage1BinHeaders = ValidStage1(s, r)], r)
    ELSE s
EnoughStage1(s, r) ==
    LET V == ValidStage1(s, r) IN
    nmt <= CASE Cardinality(V) = 0 -> 0
             [] Cardinality(V) = 1 -> s.rs[r].auxStage1BinNums[AllOf(V)]
             [] OTHER              -> s.rs[r].TotalAuxStage1MsgCount

SendCoin(gc, s, r) ==
    IF ~ EnoughStage1(s, r) \/ s.rs[r].sentCoin \/ (s.Decided # Unknown /\ r >= s.decidedRound)
    THEN s ELSE GenerateCoinMessage(gc, [s EXCEPT !.rs[r].sentCoin = TRUE], r)

\* The first message of the next round: a vote for the value of stage 1, or a BV message for the
\* coin.
StartNext(s, r) ==
    LET V == Stage1Values(s, r)
        started == [s EXCEPT !.rs[r + 1].sentInitialMessage = TRUE]
        c == s.rs[r].coin
    IN
    IF ~ EnoughStage1(s, r) \/ s.rs[r + 1].sentInitialMessage \/ ~ s.rs[r].sentStage1Aux THEN s
    ELSE IF V # {}
         THEN IF s.rs[r + 1].sentStage0Aux THEN started
              ELSE Broadcast([started EXCEPT !.rs[r + 1].sentStage0Aux = TRUE],
                             <<"AuxStage0", r + 1, CHOOSE v \in V : TRUE>>)
         ELSE PanicIf(\E v \in Bin : s.rs[r + 1].supportBvInfoStage0[v] # <<>>,
                      IF c = Unknown THEN s
                      ELSE Broadcast([started EXCEPT !.rs[r + 1].bv[0][c].sentMsg = TRUE],
                                     <<"BV0", r + 1, c>>))

\* CheckRound from the middle vote on.
Stage1(gc, s, r, extra) ==
    LET s1 == SendStage1Aux(SendStage1BV(TrackAux(SendAux(s, r), r), r), r)
        s2 == Decide(SetSupport(s1, r), r)
    IN
    IF DoneAfter(gc, s2, r, extra) THEN [node |-> Terminate(gc, s2), more |-> FALSE]
    ELSE [node |-> StartNext(SendCoin(gc, TrackStage1(s2, r), r), r), more |-> TRUE]

\* CheckRound(round), under the mutex of the message state.
CheckRound(gc, s, r) ==
    LET s1 == RecordCoin(s, r) IN
    IF r > 1 /\ ~ s1.rs[r].sentInitialMessage THEN [node |-> s1, more |-> FALSE]
    ELSE Stage1(gc, SendStage0Aux(Echo(s1, r), r), r, 0)

\* GotProposal: the BV message of round 1.
GotProposal(gc, s, v) == SendBV([s EXCEPT !.rs[1].sentInitialMessage = TRUE], 0, 1, v)
=============================================================================
