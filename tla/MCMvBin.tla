------------------------------ MODULE MCMvBin -------------------------------
(***************************************************************************)
(* TLC instances of MvBin with four members, one of them faulty, and the   *)
(* scenarios and turns of MCBinConsRnd.  In addition:                      *)
(*   - gets[p] are the values a faulty coordinator sends to node p, and    *)
(*     lies[p] has the hashes the faulty member echoes and commits there;  *)
(*   - the timers of the nodes in hasty run out at any time, others when   *)
(*     nothing else happens;                                               *)
(***************************************************************************)
EXTENDS MCBinConsRnd, MvBin

MvGc(alg, coinType, maxRound, coord) ==
    [coord |-> coord, isMv |-> TRUE] @@ Gc(alg, coinType, maxRound)

MvScenario(g, gets, lies, hasty, order) ==
    [gc |-> g, gets |-> gets, lies |-> lies, hasty |-> hasty,
     slow |-> {}, late |-> {}, overlap |-> {}, more |-> {}, order |-> order]

A == FirstValue
B == FirstValue + 1

MvScenarios ==
    LET up == <<p1, p2, p3>>
        down == <<p3, p2, p1>>
        none == ByNode({}, {}, {})
        Coord(alg) == MvGc(alg, "Known", 3, p1)
        Bad(alg) == MvGc(alg, "Known", 3, f1)
    IN
    [coord |-> {MvScenario(Coord(alg), none, ByNode({0}, {}, {}), {p3}, up) : alg \in {1, 2}},
     silent |-> {MvScenario(Bad(alg), gets, none, {}, up) :
                  alg \in {1, 2}, gets \in {none, ByNode({A}, {A}, {B})}},
     split |-> {MvScenario(Bad(x[1]), ByNode({A}, {A}, {B}), ByNode({A, 1}, {}, {B, 0}), {}, x[2]) :
                  x \in {<<1, up>>, <<2, down>>}},
     early |-> {MvScenario(Bad(alg), ByNode({A}, {A}, {B}), ByNode({A}, {}, {}), {p3}, up) : alg \in {1, 2}},
     part |-> {MvScenario(Bad(alg), ByNode({A}, {A}, {}), ByNode({}, {A}, {A}), {}, up) : alg \in {1, 2}}]

MvInit ==
    /\ scenario \in UNION {MvScenarios[n] : n \in Names}
    /\ MvInitWith({[bits |-> b] @@ scenario.gc : b \in Bits(scenario.gc)})
    /\ turn = Nil /\ spoke = FALSE

Proposes(p) == p = gc.coord /\ gotProposal[p] = Unknown

\* The init messages that can reach p.
Reaches(p, v) ==
    \/ gc.coord \in Faulty /\ v \in scenario.gets[p]
    \/ <<gc.coord, <<"Init", 0, v>>>> \in sent
    \/ \E q \in Correct : <<p, v>> \in node[q].recovered
Inits(p) == {v \in Values : node[p].sigs[<<"Init", 0, v>>] = {} /\ Reaches(p, v)}
RecvInit(p) == \E v \in Inits(p) : MvStoreMsg(p, <<"Init", 0, v>>, {gc.coord})

\* MvCons1 counts echoes whatever their hash.
AnyEcho(m) == gc.alg = 1 /\ m[1] = "Echo"
MvUseful(p, m) ==
    CASE m[1] = "Init" -> FALSE
      [] AnyEcho(m)    -> Pending(p, m) # {}
      [] OTHER         -> Useful(p, m)
RecvEcho(p, m) ==
    /\ AnyEcho(m) /\ Partial(p) = {}
    /\ \E S \in SUBSET Pending(p, m) : S # {} /\ Prefix(S, Pending(p, m)) /\ StoreMsg(p, m, S)
MvRecv(p, m) == RecvEcho(p, m) \/ (m[1] # "Init" /\ ~ AnyEcho(m) /\ RecvMsg(p, m))

MvWaits(p) == Inits(p) # {} \/ \E m \in DOMAIN node[p].sigs : MvUseful(p, m) /\ Unread(p, m) # {}

MvSettled == \A p \in Correct : ~ Busy(p) /\ ~ Proposes(p) /\ ~ MvWaits(p)

\* In the end the timers run out and the requests arrive, then the nodes send again what they have.
Armed(p) == {k \in DOMAIN node[p].timer : node[p].timer[k] = Running}
TimeOut(p) == \E k \in Armed(p) : (p \in scenario.hasty \/ MvSettled) /\ Fire(p, k)

Requests(p) == {x \in Correct \X Values : /\ <<x[1], <<"Recover", 0, x[2]>>>> \in sent
                                         /\ x \notin node[p].requestedRecover \cup node[p].recovered}
Asked(p) == \E x \in Requests(p) : RequestRecover(p, x[1], x[2])

Quiet == MvSettled /\ \A p \in Correct : Armed(p) = {} /\ Requests(p) = {}

MvMissing ==
    {x \in Correct \X DOMAIN node[p1].sigs :
        /\ x[2][2] < gc.MaxRound
        /\ ~ CheckFinishedMessage(node[x[1]], x[2])
        /\ ~ Available(x[2]) \subseteq node[x[1]].sigs[x[2]]}
MvRecvAgain(p) ==
    /\ Quiet /\ MvMissing # {}
    /\ LET x == CHOOSE x \in MvMissing : TRUE IN
       p = x[1] /\ MvStoreMsg(p, x[2], Available(x[2]) \ node[p].sigs[x[2]])

MvHasWork(p) == Busy(p) \/ Proposes(p) \/ MvWaits(p) \/ Partial(p) # {}

MvStep(p) ==
    /\ turn \in {Nil, p}
    /\ \/ ~ Busy(p) /\ ((\E m \in DOMAIN node[p].sigs : MvRecv(p, m)) \/ RecvInit(p) \/ MvRecvAgain(p))
       \/ ~ Busy(p) /\ Partial(p) = {} /\ (TimeOut(p) \/ Asked(p) \/ MvGotProposal(p, A))
       \/ \E d \in storing[p] : MvUpdateRound(p, d)
       \/ \E m \in queue[p] : MvProcessMessage(p, m)
       \/ MvProcessSelfMessage(p)
       \/ MvCheckRound(p)
    /\ LET says == spoke \/ sent' # sent
           ends == ~ Busy(p)' /\ says
       IN /\ spoke' = (says /\ ~ ends)
          /\ turn' = IF ends THEN Nil ELSE p

MvRests(p) ==
    /\ turn = p /\ ~ Busy(p) /\ Partial(p) = {} /\ ~ MvWaits(p)
    /\ turn' = Nil /\ spoke' = FALSE
    /\ UNCHANGED vars

MvMCNext ==
    /\ UNCHANGED scenario
    /\ \E p \in Correct : (turn # p => \A q \in Before(p) : ~ MvHasWork(q)) /\ (MvStep(p) \/ MvRests(p))

MvSpec == MvInit /\ [][MvMCNext]_mcVars

MvAtRest == Quiet /\ MvMissing = {}

\* When nothing is left to do, every node has decided or has gone through the rounds of the
\* bound: a coordinator that sends nothing or different values, timers that run out early or late,
\* and init messages that only some have leave nobody behind.
MvNoneStuck ==
    MvAtRest => \A p \in Correct : \/ HasDecided(node[p])
                                   \/ /\ BinDecided(node[p]) = Unknown
                                      /\ CheckRoundOf(node[p], gc.MaxRound - 1).more
=============================================================================
