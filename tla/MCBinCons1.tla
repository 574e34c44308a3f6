----------------------------- MODULE MCBinCons1 -----------------------------
(***************************************************************************)
(* TLC instances of BinCons1.                                              *)
(*                                                                         *)
(* Only the members in Active take steps; the other correct ones are slow  *)
(* to start, which is a behaviour of the network.  A node that has work to *)
(* do finishes it before another node takes a step: the steps of a node    *)
(* read its own state and sent, which only grows, so every state of sent   *)
(* and Decided is still reached.  With Overlap the threads of a node take  *)
(* messages while its main loop works, without it between two messages.    *)
(***************************************************************************)
EXTENDS BinCons1, TLC

CONSTANTS Active,      \* the correct members that take steps
          Overlap      \* whether threads and main loop of a node overlap

ASSUME MCAssumption == Active \subseteq Correct /\ Overlap \in BOOLEAN

Symmetry == Permutations(Active)

Busy(p) == checking[p] # NoRound \/ SelfMessages[p] # <<>> \/ queue[p] # {} \/ storing[p] # {}

Turn(p) == \A q \in Active \ {p} : ~ Busy(q)

Receives(p) == Turn(p) /\ (Overlap \/ ~ Busy(p) \/ storing[p] # {})
Works(p) == Turn(p) /\ (Overlap \/ storing[p] = {})

MCNext == \E p \in Active : \/ Receives(p) /\ GotMsg(p)
                            \/ Works(p) /\ MainLoop(p)

MCSpec == Init /\ [][MCNext]_vars

\* In every instance a behaviour has finitely many steps (sets of signatures, rounds and
\* flags only grow), so weak fairness of the disjunction is that of each part.
MCProgress ==
    \E p \in Active :
        \/ Receives(p) /\ (ForwardMsg(p) \/ \E d \in storing[p] : UpdateRound(p, d))
        \/ Works(p) /\ MainLoop(p)

MCFairSpec == MCSpec /\ WF_vars(MCProgress)

\* Nothing is left to do for the nodes in Active: they have proposed, handled all they were sent
\* or another one of them has stored, and wait for no timer.
AtRest ==
    \A p \in Active :
        /\ ~ Busy(p) /\ gotProposal[p]
        /\ \A r \in Rounds : timeoutState[p][r] = "Sent" => Decided[p] # NotDecided
        /\ \A r \in Rounds, v \in Bin : Available(r, v) \subseteq SigMap[p][r][v]

\* The nodes do not come to rest with one of them having decided and another not, although
\* the first one stops sending messages (StopOnCommit) and its timers are stopped (checkDone),
\* and a faulty member has voted for some of them only.
DecideTogether ==
    AtRest /\ (\E p \in Active : Decided[p] # NotDecided) => \A p \in Active : Decided[p] # NotDecided
=============================================================================
