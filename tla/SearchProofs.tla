---------------------------- MODULE SearchProofs ----------------------------
(***************************************************************************)
(* What a linear search returns: shared by the proofs about the modules    *)
(* whose code searches an array from its start.                            *)
(***************************************************************************)
EXTENDS SyncTypes, WellFoundedInduction, TLAPS

\* The definition of First picks the least member of a set of indexes.
LEMMA FirstIsLeast ==
  ASSUME NEW S \in SUBSET Nat, S # {}
  PROVE  First(S) \in S /\ \A j \in S : First(S) <= j
<1> DEFINE R == {ss \in Nat \X Nat : ss[1] < ss[2]}
<1>1. IsWellFoundedOn(R, Nat)
  <2>1. OpToRel(<, Nat) = R
    BY DEF OpToRel
  <2>2. QED BY <2>1, NatLessThanWellFounded
<1>2. PICK i \in S : \A j \in S : ~(<<j, i>> \in R)
  <2> HIDE DEF R
  <2> QED BY <1>1, WFMin
<1>3. ASSUME NEW j \in S PROVE i <= j
  <2>1. i \in Nat /\ j \in Nat
    OBVIOUS
  <2>2. <<j, i>> \in Nat \X Nat /\ <<j, i>> \notin R
    BY <1>2, <2>1
  <2>3. ~(<<j, i>>[1] < <<j, i>>[2])
    BY <2>2
  <2>4. QED BY <2>1, <2>3
<1>4. QED BY <1>3 DEF First

=============================================================================
