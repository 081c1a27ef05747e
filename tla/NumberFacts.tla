----------------------------- MODULE NumberFacts -----------------------------
(* Facts about numbers that the proofs share. *)
EXTENDS Naturals, FiniteSetsExt, WellFoundedInduction, TLAPS

(* A bounded, non-empty set of numbers has a greatest one: the least       *)
(* distance to the bound belongs to it.                                    *)
LEMMA MaxOfBounded ==
    ASSUME NEW S \in SUBSET Nat, S # {}, NEW b \in Nat, \A s \in S : s <= b
    PROVE  Max(S) \in S /\ \A s \in S : s <= Max(S)
<1> DEFINE Distances == {n \in Nat : \E s \in S : n = b - s}
           Less == OpToRel(<, Nat)
<1>1. Distances \subseteq Nat /\ Distances # {}
  <2>1. PICK s \in S : TRUE
    OBVIOUS
  <2>2. b - s \in Distances
    OBVIOUS
  <2> QED
    BY <2>2
<1>2. IsWellFoundedOn(Less, Nat)
  BY NatLessThanWellFounded, Zenon
<1>3. PICK x \in Distances : \A y \in Distances : <<y, x>> \notin Less
  <2> HIDE DEF Distances, Less
  <2> QED
    BY <1>1, <1>2, WFMin
<1>4. \A y \in Distances : ~(y < x)
  BY <1>3 DEF OpToRel
<1>5. PICK m \in S : x = b - m
  OBVIOUS
<1>6. ASSUME NEW s \in S PROVE m >= s
  <2>1. b - s \in Distances
    OBVIOUS
  <2> QED
    BY <1>4, <1>5, <2>1
<1>7. \E n \in S : \A s \in S : n >= s
  BY <1>6
<1> QED
  BY <1>7 DEF Max

=============================================================================
