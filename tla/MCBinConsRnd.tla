---------------------------- MODULE MCBinConsRnd ----------------------------
(***************************************************************************)
(* TLC instances of BinConsRnd with four members, one of them faulty.  The *)
(* initial state chooses the configuration gc and a scenario:              *)
(*   - proposal has the proposals of the nodes;                            *)
(*   - the faulty member votes, in every round and at any time, for the    *)
(*     values in lies[p] towards node p;                                   *)
(*   - what a slow node sends reaches nobody, unless it is sent again;     *)
(*   - nodes in late get their proposal at any time, others first;         *)
(*   - with overlap a node receives messages while others wait in its      *)
(*     queue.                                                              *)
(* A node that has the turn keeps it until it has sent something or has    *)
(* nothing to receive: its other steps read and change its own state only, *)
(* so they could as well come later.  Of messages that are only counted,   *)
(* those of the first nodes in Order arrive first.                         *)
(***************************************************************************)
EXTENDS BinConsRnd, TLC

CONSTANTS p1, p2, p3, f1,
          Names         \* the scenarios of a run

VARIABLES scenario, turn, spoke

mcVars == <<vars, scenario, turn, spoke>>

Nil == "nil"
Order == <<p1, p2, p3>>
Pos(p) == CHOOSE i \in 1..3 : Order[i] = p

ByNode(a, b, c) == (p1 :> a) @@ (p2 :> b) @@ (p3 :> c)

Gc(alg, coinType, maxRound) ==
    [alg |-> alg, coinType |-> coinType, MaxRound |-> maxRound, AllowSupportCoin |-> FALSE,
     UseTp1CoinThresh |-> coinType = "StrongEcho", StopOnCommit |-> "NextRound",
     IncludeProofs |-> FALSE, UseFixedCoinPresets |-> FALSE, isMv |-> FALSE]
Support(g) == [g EXCEPT !.AllowSupportCoin = TRUE, !.IncludeProofs = TRUE]
Stop(g, when) == [g EXCEPT !.StopOnCommit = when]

\* A scenario in which the nodes get on in the order of a sequence, as far as it has them.
Scenario(g, proposal, lies, order) ==
    [gc |-> g, proposal |-> proposal, lies |-> lies, slow |-> {}, late |-> {}, overlap |-> {},
     more |-> {}, order |-> order]

Scenarios ==
    LET up == <<p1, p2, p3>>
        round == <<p2, p3, p1>>
        down == <<p3, p2, p1>>
        mixed == ByNode(1, 0, 0)
        ones == ByNode(1, 1, 0)
        lies == ByNode({0}, {}, {})
        overlap(sc) == [sc EXCEPT !.overlap = {p3}]
        Echo(alg, n) == Gc(alg, "StrongEcho", n)
    IN
    [any1 |-> {Scenario(Gc(1, "Known", 3), pr, ByNode(a, b, c), up) :
                  pr \in {mixed, ones}, a, b, c \in {{0}, {1}}},
     rnd1 |-> {Scenario(Gc(1, "Known", 3), mixed, lies, <<>>),
               Scenario(Support(Gc(1, "Strong", 3)), mixed, lies, up),
               Scenario(Support(Gc(1, "Strong", 3)), mixed, lies, down),
               Scenario(Stop(Echo(1, 3), "SendProof"), ones, ByNode({0}, {}, {0}), round),
               overlap(Scenario(Stop(Gc(1, "Known", 3), "Immediate"), ones, lies, up))},
     rnd2 |-> {Scenario(Gc(2, "Known", 3), mixed, lies, up),
               Scenario(Gc(2, "Known", 3), mixed, lies, down),
               Scenario(Stop(Echo(2, 3), "SendProof"), mixed, lies, up),
               overlap(Scenario(Stop(Gc(2, "Known", 3), "Immediate"), mixed, lies, up))},
     any3 |-> {Scenario(Gc(3, "Known", 3), mixed, ByNode(a, Bin \ a, a), up) : a \in {{0}, {1}}},
     rnd3 |-> {Scenario(Gc(3, "Known", 3), mixed, ByNode({1}, {}, {}), <<>>),
               Scenario(Support(Gc(3, "Strong", 3)), mixed, lies, up),
               Scenario(Stop(Echo(3, 3), "SendProof"), ones, ByNode({0}, {}, {0}), round),
               overlap(Scenario(Stop(Gc(3, "Known", 3), "Immediate"), ones, lies, up))},
     rnd4 |-> {Scenario(Gc(4, "Known", 3), mixed, lies, up),
               Scenario(Gc(4, "Known", 3), mixed, lies, down),
               Scenario(Stop(Echo(4, 3), "SendProof"), mixed, lies, up),
               overlap(Scenario(Stop(Gc(4, "Known", 3), "Immediate"), mixed, lies, up))},
     any5 |-> {Scenario(Gc(5, "Known", 5), mixed, ByNode(a, Bin \ a, a), up) : a \in {{0}, {1}}},
     rnd5 |-> {Scenario(Gc(5, "Known", 5), mixed, ByNode({1}, {}, {}), up),
               Scenario(Support(Gc(5, "Strong", 5)), mixed, lies, up),
               Scenario(Support(Gc(5, "Strong", 5)), mixed, lies, down),
               Scenario(Stop(Echo(5, 4), "SendProof"), ones, ByNode({0}, {}, {0}), round),
               overlap(Scenario(Stop(Gc(5, "Known", 4), "Immediate"), ones, lies, up))},
     rnd6 |-> {Scenario(Gc(6, "Local", 4), mixed, lies, up),
               Scenario(Gc(6, "Known", 4), mixed, lies, down),
               Scenario(Stop(Echo(6, 4), "Immediate"), ones, ByNode({0}, {}, {0}), round),
               overlap(Scenario(Gc(6, "Known", 4), mixed, lies, up))}]

\* The coins of the rounds the nodes get to: a local coin is each node's own.
Toss(g) == [(MaxPresetRound(g) + 1)..(g.MaxRound - 1) -> Bin]
Bits(g) ==
    LET show(b) == [r \in Rounds(g) |-> IF r \in DOMAIN b THEN b[r] ELSE 0] IN
    IF g.coinType = "Local"
    THEN {[p \in Correct |-> show(bs[p])] : bs \in [Correct -> Toss(g)]}
    ELSE {[p \in Correct |-> show(b)] : b \in Toss(g)}

MCInit ==
    /\ scenario \in UNION {Scenarios[n] : n \in Names}
    /\ InitWith({[bits |-> b] @@ scenario.gc : b \in Bits(scenario.gc)})
    /\ turn = Nil /\ spoke = FALSE

Busy(p) == ~ Idle(p) \/ SelfMessages[p] # <<>> \/ queue[p] # {} \/ storing[p] # {}

IsVote(m) == m[1] \in Votes
Lies(p, m) == IF m[1] \in {"Coin", "CoinPre"} THEN scenario.lies[p] # {} ELSE m[3] \in scenario.lies[p]

Unread(p, m) == (Signers(m) \cap Correct) \ (scenario.slow \cup node[p].sigs[m])
Pending(p, m) == Unread(p, m) \cup ((IF Lies(p, m) THEN Faulty ELSE {}) \ node[p].sigs[m])

Heard(p, m) == UNION {node[p].sigs[k] : k \in SameMsgID(node[p], m)}
CanHear(p, m) == Heard(p, m) \cup UNION {Pending(p, k) : k \in SameMsgID(node[p], m)}

\* The counts at which a message makes a difference.
Thresholds(m) == CASE IsVote(m) \/ m[1] \in {"CoinPre", "Echo"} -> {nmt}
                   [] m[1] = "Coin" -> {CoinThreshold(gc)}
                   [] OTHER -> {t + 1, nmt}
Least(m) == CHOOSE k \in Thresholds(m) : \A j \in Thresholds(m) : k <= j

Useful(p, m) ==
    /\ m[2] < gc.MaxRound
    /\ Pending(p, m) # {}
    /\ ~ (gc.alg = 4 /\ m[1] = "AuxStage0")       \* which are not counted
    /\ ~ CheckFinishedMessage(node[p], m)
    /\ IF IsVote(m)
       THEN Cardinality(CanHear(p, m)) >= nmt /\ (p \in scenario.more \/ Cardinality(Heard(p, m)) < nmt)
       ELSE Cardinality(node[p].sigs[m] \cup Pending(p, m)) >= Least(m)

\* The votes of a round that p has begun to receive.
Partial(p) ==
    {<<m[1], m[2]>> : m \in {k \in DOMAIN node[p].sigs :
        /\ IsVote(k) /\ ~ node[p].sigs[k] \subseteq {p}
        /\ Cardinality(Heard(p, k)) < nmt /\ Cardinality(CanHear(p, k)) >= nmt /\ k[2] < gc.MaxRound}}

Prefix(S, P) == \A q \in P \cap Correct, x \in S \cap Correct : Pos(q) < Pos(x) => q \in S

\* The first votes of a round come in the order of their values.
InOrder(p, m) == \A k \in SameMsgID(node[p], m) : k[3] >= m[3] => node[p].sigs[k] \subseteq {p}

RecvMsg(p, m) ==
    /\ Useful(p, m) /\ Partial(p) \subseteq {<<m[1], m[2]>>}
    /\ \E S \in SUBSET Pending(p, m) :
         /\ S # {} /\ Prefix(S, Pending(p, m))
         /\ IF IsVote(m)
            THEN \/ Cardinality(Heard(p, m)) >= nmt
                 \/ Cardinality(Heard(p, m) \cup S) <= nmt /\ InOrder(p, m)
            ELSE \/ Cardinality(node[p].sigs[m] \cup S) \in Thresholds(m)
                 \/ Cardinality(node[p].sigs[m]) >= nmt
         /\ StoreMsg(p, m, S)

Waits(p) == \E m \in DOMAIN node[p].sigs : Useful(p, m) /\ Unread(p, m) # {}

HasWork(p) == Busy(p) \/ gotProposal[p] = Unknown \/ Waits(p) \/ Partial(p) # {}

Settled == /\ \A p \in Correct : ~ Busy(p) /\ gotProposal[p] # Unknown
           /\ \A p \in Correct : ~ Waits(p)

\* In the end the nodes send again what they have.
Available(m) == (Signers(m) \cap Correct) \cup UNION {node[q].sigs[m] : q \in Correct}
Missing ==
    {x \in Correct \X DOMAIN node[p1].sigs :
        /\ x[2][2] < gc.MaxRound
        /\ ~ CheckFinishedMessage(node[x[1]], x[2])
        /\ ~ Available(x[2]) \subseteq node[x[1]].sigs[x[2]]}
RecvAgain(p) ==
    /\ Settled /\ Missing # {}
    /\ LET x == CHOOSE x \in Missing : TRUE IN
       p = x[1] /\ StoreMsg(p, x[2], Available(x[2]) \ node[p].sigs[x[2]])

Receive(p) ==
    /\ Busy(p) => p \in scenario.overlap /\ SelfMessages[p] = <<>>
    /\ gotProposal[p] = Unknown => p \in scenario.late
    /\ (\E m \in DOMAIN node[p].sigs : RecvMsg(p, m)) \/ RecvAgain(p)

Work(p) ==
    \/ \E d \in storing[p] : UpdateRound(p, d)
    \/ \E m \in queue[p] : ProcessMessage(p, m)
    \/ ProcessSelfMessage(p)
    \/ CheckRound(p)

Step(p) ==
    /\ turn \in {Nil, p}
    /\ \/ Receive(p)
       \/ ~ Busy(p) /\ Partial(p) = {} /\ GotProposal(p, scenario.proposal[p])
       \/ Work(p)
    /\ LET says == spoke \/ sent' # sent
           ends == ~ Busy(p)' /\ says
       IN /\ spoke' = (says /\ ~ ends)
          /\ turn' = IF ends THEN Nil ELSE p

Rests(p) ==
    /\ turn = p /\ ~ Busy(p) /\ Partial(p) = {} /\ ~ Waits(p)
    /\ turn' = Nil /\ spoke' = FALSE
    /\ UNCHANGED vars

Before(p) == {q \in Correct : \E i, j \in DOMAIN scenario.order :
                                 i < j /\ scenario.order[i] = q /\ scenario.order[j] = p}

MCNext ==
    /\ UNCHANGED scenario
    /\ \E p \in Correct : (turn # p => \A q \in Before(p) : ~ HasWork(q)) /\ (Step(p) \/ Rests(p))

MCSpec == MCInit /\ [][MCNext]_mcVars

AtRest == Settled /\ Missing = {}

=============================================================================
