--------------------------- MODULE Members_proofs ---------------------------
(***************************************************************************)
(* What the thresholds of Members guarantee, for every number of members.  *)
(***************************************************************************)
EXTENDS Members, FiniteSetTheorems, TLAPS

\* GetOneThirdBottom gives the largest t with n > 3t that the algorithms rely on.
LEMMA MemberCounts ==
    /\ GetMemberCount \in Nat \ {0}
    /\ t \in Nat
    /\ nmt \in Nat
    /\ GetMemberCount > 3 * t
    /\ nmt = GetMemberCount - t
<1>1. GetMemberCount \in Nat
  BY MembersAssumption, FS_CardinalityType DEF GetMemberCount
<1>2. GetMemberCount # 0
  BY MembersAssumption, FS_EmptySet DEF GetMemberCount
<1>3. \A k \in Nat \ {0} : GetOneThirdBottom(k) \in Nat /\ k > 3 * GetOneThirdBottom(k)
  BY DEF GetOneThirdBottom
<1> QED BY <1>1, <1>2, <1>3 DEF t, nmt, GetFaultCount

\* Counting signers is monotone, and bounded by the number of members.
LEMMA CountSubset ==
    ASSUME NEW B \in SUBSET Members, NEW A \in SUBSET B
    PROVE  /\ Cardinality(A) \in 0..GetMemberCount
           /\ Cardinality(A) <= Cardinality(B)
           /\ Cardinality(B) \in 0..GetMemberCount
<1>1. IsFiniteSet(B) /\ Cardinality(B) <= GetMemberCount
  BY MembersAssumption, FS_Subset DEF GetMemberCount
<1>2. IsFiniteSet(A) /\ Cardinality(A) <= Cardinality(B)
  BY <1>1, FS_Subset
<1> QED BY <1>1, <1>2, FS_CardinalityType, MemberCounts

\* More than t signers include a correct one.
LEMMA ManyHaveCorrect ==
    ASSUME NEW A \in SUBSET Members, Cardinality(A) > t
    PROVE  \E p \in Correct : p \in A
<1> SUFFICES ASSUME A \subseteq Faulty PROVE FALSE
  BY DEF Correct
<1>1. Cardinality(A) <= Cardinality(Faulty)
  BY MembersAssumption, CountSubset
<1> QED BY <1>1, MembersAssumption, MemberCounts, CountSubset DEF t

\* Two sets of n-t signers share a correct one.
LEMMA QuorumsMeet ==
    ASSUME NEW A \in SUBSET Members, NEW B \in SUBSET Members,
           Cardinality(A) >= nmt, Cardinality(B) >= nmt
    PROVE  \E p \in Correct : p \in A /\ p \in B
<1>1. IsFiniteSet(A) /\ IsFiniteSet(B)
  BY MembersAssumption, FS_Subset
<1>2. Cardinality(A \cup B) = Cardinality(A) + Cardinality(B) - Cardinality(A \cap B)
  BY <1>1, FS_Union
<1>3. Cardinality(A \cup B) <= GetMemberCount
  <2>1. A \cup B \in SUBSET Members
    OBVIOUS
  <2> QED BY <2>1, CountSubset
<1>4. /\ Cardinality(A) \in Nat /\ Cardinality(B) \in Nat
      /\ Cardinality(A \cap B) \in Nat /\ Cardinality(A \cup B) \in Nat
  <2>1. IsFiniteSet(A \cap B) /\ IsFiniteSet(A \cup B)
    BY <1>1, FS_Union, FS_Intersection
  <2> QED BY <1>1, <2>1, FS_CardinalityType
<1>5. Cardinality(A \cap B) > t
  BY <1>2, <1>3, <1>4, MemberCounts
<1>6. A \cap B \in SUBSET Members
  OBVIOUS
<1> QED BY <1>5, <1>6, ManyHaveCorrect

\* The correct members are n-t at least.
LEMMA CorrectCount == Cardinality(Correct) >= nmt
<1>1. IsFiniteSet(Members) /\ IsFiniteSet(Faulty) /\ Members \cap Faulty = Faulty
  BY MembersAssumption, FS_Subset
<1>2. Cardinality(Correct) = Cardinality(Members) - Cardinality(Faulty)
  BY <1>1, FS_Difference DEF Correct
<1>3. Cardinality(Faulty) \in Nat
  BY <1>1, FS_CardinalityType
<1> QED BY <1>2, <1>3, MembersAssumption, MemberCounts DEF t, nmt, GetMemberCount
\* Of n-t signers more than t are correct.
LEMMA QuorumCorrect ==
    ASSUME NEW A \in SUBSET Members, Cardinality(A) >= nmt
    PROVE  Cardinality(A \ Faulty) > t
<1>1. IsFiniteSet(A) /\ Cardinality(A) \in Nat
  BY MembersAssumption, FS_Subset, FS_CardinalityType
<1>2. Cardinality(A \ Faulty) = Cardinality(A) - Cardinality(A \cap Faulty)
  BY <1>1, FS_Difference
<1>3. A \cap Faulty \in SUBSET Faulty /\ Faulty \in SUBSET Members
  BY MembersAssumption
<1>4. Cardinality(A \cap Faulty) <= Cardinality(Faulty) /\ Cardinality(A \cap Faulty) \in 0..GetMemberCount
  BY <1>3, CountSubset
<1>5. Cardinality(Faulty) <= t /\ Cardinality(Faulty) \in Int
  BY <1>3, CountSubset, MembersAssumption, MemberCounts DEF t
<1> QED BY <1>1, <1>2, <1>4, <1>5, MemberCounts
=============================================================================
