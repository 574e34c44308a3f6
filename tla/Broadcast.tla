----------------------------- MODULE Broadcast -----------------------------
(***************************************************************************)
(* What the two broadcasts of a coordinator's value, RbBcast1 and          *)
(* RbBcast2, have in common: their parameters and the messages with which  *)
(* a node that lacks the init message asks for it (absmvrecover.go).       *)
(***************************************************************************)
EXTENDS Members, Sequences

CONSTANTS
    Hash,           \* the hashes of the proposals that the state machine validates
    Nil,
    Threads         \* bound: messages of a node that are between the two parts of GotMsg

ASSUME BroadcastAssumption == Nil \notin Hash /\ Threads \in Nat \ {0}

\* A recover request of one node to another, for the init message of a hash.
Requests == [from : Correct, to : Correct, hash : Hash]

\* An init message, on its way from the message threads to the main loop.
InitItem(h) == [kind |-> "init", hash |-> h]
=============================================================================
