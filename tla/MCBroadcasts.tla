---------------------------- MODULE MCBroadcasts ----------------------------
(***************************************************************************)
(* TLC instances of the two broadcasts.  The initial state chooses the     *)
(* algorithm, its coordinator, whether messages are signed, and a scenario *)
(* that keeps the instance small:                                          *)
(*   - only the nodes in active take steps;                                *)
(*   - the nodes in overlap receive messages while their main loop is in   *)
(*     checkProgress, the others between two of its runs;                  *)
(*   - the faulty members send to the nodes in victims only;               *)
(*   - messages are about the hashes in hashes only.                       *)
(* A node that has work to do finishes it before another node takes a      *)
(* step: its steps read its own state and messages that are never          *)
(* withdrawn, so they could as well come later.                            *)
(***************************************************************************)
EXTENDS RbBcast2, TLC

CONSTANTS
    p1, p2, p3, f1, h1, h2,
    Names           \* the names of the scenarios of a run

VARIABLES alg, scenario, sent1, SigMap1

R1 == INSTANCE RbBcast1 WITH sent <- sent1, SigMap <- SigMap1

mcVars == <<vars, alg, scenario, sent1, SigMap1>>

Scenario(a, c, unsigned, act, over, vict, hashes) ==
    [alg |-> a, coord |-> c, NoSignatures |-> unsigned, active |-> act, overlap |-> over,
     victims |-> vict, hashes |-> hashes]

All == {p1, p2, p3}

Scenarios ==
    [equivocate |-> Scenario(2, f1, FALSE, {p1, p2}, {p1, p2}, {p1, p2}, {h1, h2}),
     signed     |-> Scenario(2, f1, FALSE, All, {}, {p1, p2}, {h1}),
     deliver    |-> Scenario(2, p1, TRUE, All, {}, {p3}, {h1, h2}),
     amplify    |-> Scenario(2, f1, TRUE, All, {}, {p1, p2}, {h1}),
     rb1        |-> Scenario(1, f1, FALSE, All, {}, {p1, p2}, {h1, h2}),
     rb1coord   |-> Scenario(1, p1, FALSE, All, {p1}, {p3}, {h1, h2})]

ASSUME MCAssumption == Names \subseteq DOMAIN Scenarios /\ Correct = All /\ Hash = {h1, h2}

\* The scenarios tell p3 from the others; the transitions treat all alike.
Symmetry == Permutations({p1, p2}) \cup Permutations(Hash)

MCInit ==
    /\ Init
    /\ R1!Init
    /\ \E name \in Names : scenario = Scenarios[name]
    /\ alg = scenario.alg
    /\ Coord = scenario.coord
    /\ NoSignatures = scenario.NoSignatures

Busy(p) == pc[p] # "recv" \/ SelfMessages[p] # <<>> \/ queue[p] # {} \/ storing[p] # {}

Turn(p) == \A q \in scenario.active \ {p} : ~ Busy(q)
Receives(p) == Turn(p) /\ (p \in scenario.overlap \/ storing[p] # {} \/ ~ Busy(p))
Works(p) == Turn(p) /\ (p \in scenario.overlap \/ storing[p] = {})

\* Nobody has heard of the hash h after the step.
Unheard(h) ==
    /\ h \notin init'
    /\ \A p \in Correct : /\ InitItem(h) \notin queue'[p]
                          /\ \A k \in Kind : SigMap'[p][k][h] = {}

Step2(p) == \/ Receives(p) /\ (IF p \in scenario.victims THEN GotMsg(p) ELSE Deliver(p))
            \/ Works(p) /\ MainLoop(p)

Step1(p) == \/ Receives(p) /\ (IF p \in scenario.victims THEN R1!GotMsg(p) ELSE R1!Deliver(p))
            \/ Works(p) /\ R1!MainLoop(p)

MCNext ==
    /\ UNCHANGED <<conf, alg, scenario>>
    /\ \E p \in scenario.active :
          \/ /\ alg = 2
             /\ Step2(p)
             /\ \A h \in Hash \ scenario.hashes : Unheard(h)
             /\ UNCHANGED <<sent1, SigMap1>>
          \/ /\ alg = 1
             /\ Step1(p)
             /\ UNCHANGED <<sent, SigMap, supportedCommitHash, supportedCommitCount, sentCommit>>

MCSpec == MCInit /\ [][MCNext]_mcVars

-----------------------------------------------------------------------------
(* Properties of the algorithm that runs.                                  *)

\* Both broadcasts implement consensus on a hash that some correct node has validated and echoed
\* (checkProgress): what a node has decided stays, and is what the others decide, though a faulty
\* coordinator sends them different init messages.
AbstractConsensus ==
    INSTANCE Consensus WITH
        Nodes <- Correct, Value <- Hash, None <- Nil, decision <- decisionHash,
        proposed <- {h \in Hash : (IF alg = 2 THEN sent["echo"][h] ELSE sent1[h]) # {}}
BothImplementConsensus == AbstractConsensus!Spec

\* Reliable broadcast: with signatures, the correct nodes do not come to rest with some of them
\* having decided and others not (checkProgress, absmvrecover.go).  Of RbBcast2 the hash alone is
\* decided by all or none also without them, if nobody decides before it commits: n-t commits at
\* one node make all others commit.
AllOrNone == IF alg = 2 THEN SignedTotality /\ HashTotality ELSE R1!Totality

=============================================================================
