------------------------------ MODULE Members ------------------------------
(***************************************************************************)
(* The fixed membership of one consensus instance and the thresholds that  *)
(* every algorithm of the repository derives from it                       *)
(* (consensus/consinterface/memberchecker/abs_member_checker.go).          *)
(*                                                                         *)
(* Faulty is the set of members that do not follow the code.  Their        *)
(* signatures can be attached to any message at any time, so the modules   *)
(* that extend this one keep no state for them.                            *)
(***************************************************************************)
EXTENDS Integers, FiniteSets

CONSTANTS Members,   \* the public keys of the members of the instance
          Faulty     \* the members that do not follow the code

\* utils.GetOneThirdBottom, with Go's / and % on positive integers.
GetOneThirdBottom(k) == IF k % 3 = 0 THEN (k \div 3) - 1 ELSE k \div 3

GetMemberCount == Cardinality(Members)

GetFaultCount == GetOneThirdBottom(GetMemberCount)

\* The names the algorithms give to the two thresholds.
tOffByOne == GetFaultCount - 1      \* variant: rounds the other way
t == GetFaultCount
nmtOffByOne == GetMemberCount - GetFaultCount - 1    \* variant
nmt == GetMemberCount - GetFaultCount

Correct == Members \ Faulty

ASSUME MembersAssumption ==
    /\ IsFiniteSet(Members)
    /\ Members # {}
    /\ Faulty \subseteq Members
    /\ Cardinality(Faulty) <= GetFaultCount

=============================================================================
