---------------------------- MODULE MCConsState ----------------------------
(***************************************************************************)
(* Small instances of ConsState: every instance gets an init message, the  *)
(* second also a vote.                                                     *)
(***************************************************************************)
EXTENDS ConsState

MCMsg == {m \in [index : 1..MaxIndex, type : {"init", "vote"}] :
            m.type = "init" \/ m.index = 2}

\* The members of an instance are known once the one before it has decided.
Current ==
  [KeepPast |-> 1, KeepFuture |-> 1, DropFuture |-> 2, AllowConcurrent |-> 0,
   MaxMsgReprocessCount |-> 25, MCType |-> "Current", Proposes |-> 1..5,
   NilDecisions |-> TRUE, MaxCrashes |-> 1]

\* Up to three instances run at a time.
Concurrent == [Current EXCEPT !.KeepFuture = 3, !.DropFuture = 4, !.AllowConcurrent = 3,
                              !.MCType = "True", !.Proposes = {1, 3, 4}, !.NilDecisions = FALSE]

\* A decision may change the members of the instances after the next one.
Later == [Current EXCEPT !.KeepFuture = 2, !.DropFuture = 3, !.MCType = "Later",
                         !.NilDecisions = FALSE, !.MaxCrashes = 0]

\* The members never change, the node does not crash.
Fixed == [Current EXCEPT !.MCType = "True", !.NilDecisions = FALSE, !.MaxCrashes = 0]

MCAll == {Current, Concurrent, Later}
MCLive == {Fixed, [Current EXCEPT !.NilDecisions = FALSE]}
=============================================================================
