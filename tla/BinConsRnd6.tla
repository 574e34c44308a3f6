----------------------------- MODULE BinConsRnd6 ----------------------------
(***************************************************************************)
(* The operations of consensus/cons/binconsrnd6: BinConsRnd4 after two     *)
(* short rounds with fixed coins.  In these a node votes (AuxStage0) for a *)
(* valid value of the stage 0 broadcast; n-t votes for 1 decide in round   *)
(* 1, n-t votes for 0 in round 2.  BinConsRnd runs these operations.       *)
(***************************************************************************)
EXTENDS RndNode

R4 == INSTANCE BinConsRnd4

\* getAuxRoundStruct: 1 in round 2 and 0 in round 3 are valid if they were in the round before.
FixedCoin(r) == CASE r = 1 -> 1 [] r = 2 -> 0 [] OTHER -> Unknown
InitRounds(gc) ==
    [r \in Rounds(gc) |->
        [R4!InitRound([v \in Bin |->
            CASE r = 2 /\ v = 1 -> <<0, 1>>
              [] r = 3 /\ v = 0 -> <<0, 2>>
              [] OTHER -> IF r \in 1..3 THEN <<0, r>> ELSE <<>>])
         EXCEPT !.coin = FixedCoin(r), !.sentCoin = r \in {1, 2}]]

New(gc, p) == NewNode(gc, p, InitRounds(gc), R4!Messages(gc, 3))

\* GotMsg, as in BinConsRnd4; messages of stage 1 have a round above 2.
GotMsg(gc, s, d) == R4!GotMsg(gc, s, d)

-----------------------------------------------------------------------------
\* The decision of a short round.
DecideShort(s, r) ==
    LET v == FixedCoin(r) IN
    IF s.rs[r].auxStage0BinNums[v] < nmt THEN s
    ELSE IF s.Decided = Unknown THEN [s EXCEPT !.Decided = v, !.decidedRound = r]
    ELSE PanicIf(s.Decided # v, s)

\* checkDone: a decision of round 1 is followed by two rounds.  The proof of a decision of a short
\* round would have AuxStage0 messages, which GetProofs refuses.
Extra(s) == IF s.decidedRound = 1 THEN 1 ELSE 0
Done(gc, s, r) == R4!DoneAfter(gc, s, r, Extra(s))
Terminate(gc, s) ==
    PanicIf(s.Decided # Unknown /\ gc.StopOnCommit = "SendProof" /\ ~ s.terminated
                /\ s.decidedRound \in {1, 2},
            R4!Terminate(gc, s))

\* The first message of the round after a short one: with votes for the coin nothing, its value
\* being valid there; otherwise a BV message for a value with n-t votes.
EnoughVotes(s, r) ==
    LET V == R4!ValidBVs(s, r)
        n(v) == s.rs[r].auxStage0BinNums[v]
    IN nmt <= CASE V = {} -> 0 [] V = Bin -> s.rs[r].TotalAuxStage0MsgCount [] OTHER -> n(R4!AllOf(V))
StartNextShort(s, r) ==
    LET V == R4!ValidBVs(s, r)
        c == FixedCoin(r)
        n(v) == s.rs[r].auxStage0BinNums[v]
        found == {v \in V : n(v) >= nmt}
        started == [s EXCEPT !.rs[r + 1].sentInitialMessage = TRUE]
    IN
    IF s.rs[r + 1].sentInitialMessage \/ ~ EnoughVotes(s, r) THEN s
    ELSE IF c \in V /\ n(c) > 0
         THEN IF s.rs[r].sentStage0Aux THEN started
              ELSE Broadcast([started EXCEPT !.rs[r + 1].sentStage0Aux = TRUE],
                             <<"AuxStage0", r + 1, c>>)
         ELSE IF found = {} THEN s
              ELSE R4!SendBV(started, 0, r + 1, IF 1 \in found THEN 1 ELSE 0)

Short(gc, s, r) ==
    LET s1 == DecideShort(s, r) IN
    IF Done(gc, s1, r) THEN [node |-> Terminate(gc, s1), more |-> FALSE]
    ELSE [node |-> StartNextShort(s1, r), more |-> TRUE]

\* From the third round on, with stage 1 and a coin.
Full(gc, s, r) == R4!Stage1(gc, s, r, Extra(s))

\* CheckRound(round), under the mutex of the message state.
CheckRound(gc, s, r) ==
    LET s1 == R4!RecordCoin(s, r)
        s2 == R4!SendStage0Aux(R4!Echo(s1, r), r)
    IN
    IF r > 1 /\ ~ s1.rs[r].sentInitialMessage THEN [node |-> s1, more |-> FALSE]
    ELSE IF r < 3 THEN Short(gc, s2, r)
    ELSE Full(gc, s2, r)

GotProposal(gc, s, v) == R4!GotProposal(gc, s, v)
=============================================================================
