--------------------------- MODULE SubsetInduction ---------------------------
(***************************************************************************)
(* Induction over the subsets of a finite set, stated for a set of subsets *)
(* instead of a predicate.  The proofs about sums over a set of rows (the  *)
(* refunds of an order, the units a kitchen runs) rest on it.              *)
(***************************************************************************)
EXTENDS Integers, FiniteSets, FiniteSetTheorems, WellFoundedInduction, TLAPS

(* A non-empty set of naturals has a smallest element.                     *)
LEMMA SmallestExists ==
  ASSUME NEW T \in SUBSET Nat, T # {}
  PROVE  \E n \in T : \A m \in T : n <= m
<1>. DEFINE R == {p \in Nat \X Nat : p[1] < p[2]}
<1>1. IsWellFoundedOn(R, Nat)
  BY NatLessThanWellFounded DEF OpToRel
<1>2. PICK n \in T : \A m \in T : ~(<<m, n>> \in R)
  <2>. HIDE DEF R
  <2>. QED BY <1>1, WFMin
<1>3. ASSUME NEW m \in T PROVE n <= m
  <2>1. m \in Nat /\ n \in Nat /\ ~(m < n)
    BY <1>2
  <2>. QED BY <2>1
<1>. QED BY <1>3

(* A set of subsets of S that contains a subset whenever it contains all   *)
(* of its proper subsets contains them all.                                *)
LEMMA SubsetInduct ==
  ASSUME NEW S, IsFiniteSet(S), NEW P \in SUBSET (SUBSET S),
         \A s \in SUBSET S : (\A t \in SUBSET s : t # s => t \in P) => s \in P
  PROVE  P = SUBSET S
<1>. SUFFICES ASSUME NEW r \in SUBSET S, r \notin P PROVE FALSE
  OBVIOUS
<1>. DEFINE Sizes == {Cardinality(s) : s \in (SUBSET S) \ P}
<1>1. \A s \in SUBSET S : IsFiniteSet(s) /\ Cardinality(s) \in Nat
  BY FS_Subset, FS_CardinalityType
<1>2. PICK n \in Sizes : \A m \in Sizes : n <= m
  <2>1. Sizes \in SUBSET Nat /\ Sizes # {}
    BY <1>1
  <2>. HIDE DEF Sizes
  <2>. QED BY <2>1, SmallestExists
<1>3. PICK s \in (SUBSET S) \ P : n = Cardinality(s)
  OBVIOUS
<1>4. ASSUME NEW t \in SUBSET s, t # s
      PROVE  t \in P
  <2>. SUFFICES ASSUME t \notin P PROVE FALSE
    OBVIOUS
  <2>1. IsFiniteSet(s) /\ Cardinality(t) <= Cardinality(s) /\ Cardinality(t) # Cardinality(s)
    BY <1>1, <1>4, FS_Subset
  <2>2. Cardinality(t) \in Sizes /\ Cardinality(t) \in Nat /\ Cardinality(s) \in Nat
    BY <1>1
  <2>. QED BY <2>1, <2>2, <1>2, <1>3
<1>. QED BY <1>3, <1>4

=============================================================================
