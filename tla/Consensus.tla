----------------------------- MODULE Consensus -----------------------------
(***************************************************************************)
(* What one instance of a consensus algorithm promises to its correct      *)
(* members (types.ConsType, consensus/consinterface/consinterface.go):     *)
(* values are proposed, a node decides at most once, only a proposed       *)
(* value, and no two nodes decide differently.                             *)
(***************************************************************************)
CONSTANTS Nodes,    \* the correct members
          Value,    \* the values that can be decided
          None      \* no decision

VARIABLES proposed,  \* the values proposed by correct members
          decision   \* the decision of each node, or None

Init == proposed = {} /\ decision = [p \in Nodes |-> None]

Propose == /\ \E v \in Value : proposed' = proposed \cup {v}
           /\ UNCHANGED decision

Decide(p, v) == /\ v \in proposed
                /\ \A q \in Nodes : decision[q] \in {None, v}
                /\ decision' = [decision EXCEPT ![p] = v]
                /\ UNCHANGED proposed

Next == Propose \/ \E p \in Nodes, v \in Value : Decide(p, v)

Spec == Init /\ [][Next]_<<proposed, decision>>
=============================================================================
