------------------------------ MODULE TatumLemmas ------------------------------
(***************************************************************************)
(* Facts about sets of naturals that the proofs share.  What a proof by    *)
(* induction shows of every n, it shows of the set of the n it holds of.   *)
(***************************************************************************)
EXTENDS Integers, FiniteSetsExt, FiniteSetTheorems, WellFoundedInduction, TLAPS

(***************************************************************************)
(* A set of naturals that is not empty has a least element, and a greatest *)
(* one if it is bounded.                                                   *)
(***************************************************************************)
LEMMA MinOfNaturals ==
  ASSUME NEW S, S \subseteq Nat, S # {}
  PROVE  /\ Min(S) \in S
         /\ \A y \in S : Min(S) <= y
<1>1. PICK x \in S : \A y \in S : <<y, x>> \notin OpToRel(<, Nat)
  BY WFMin, NatLessThanWellFounded, Zenon
<1>2. \A y \in S : ~(y < x)
  BY <1>1, Zenon DEF OpToRel
<1>3. \A y \in S : x <= y
  BY <1>2
<1>. QED
  BY <1>3, Zenon DEF Min

LEMMA MaxOfNaturals ==
  ASSUME NEW bound \in Nat, NEW S, S \subseteq 0 .. bound, S # {}
  PROVE  /\ Max(S) \in S
         /\ \A y \in S : y <= Max(S)
<1>. DEFINE Mirror == {bound - x : x \in S}
<1>1. Mirror \subseteq Nat /\ Mirror # {}
  <2>1. \A x \in S : bound - x \in Nat
    OBVIOUS
  <2>. QED
    BY <2>1, Zenon
<1>2. PICK y \in Mirror : \A z \in Mirror : y <= z
  BY <1>1, MinOfNaturals, Zenon
<1>3. PICK x \in S : y = bound - x
  BY <1>2
<1>4. \A z \in S : x >= z
  <2>. SUFFICES ASSUME NEW z \in S PROVE x >= z
    OBVIOUS
  <2>1. y <= bound - z
    BY <1>2, Zenon
  <2>. QED
    BY <2>1, <1>3
<1>5. /\ Max(S) \in S
      /\ \A z \in S : Max(S) >= z
  BY <1>4, Zenon DEF Max
<1>. QED
  BY <1>5

(***************************************************************************)
(* Induction: a set with zero and the successor of each of its naturals    *)
(* has them all, and the same up to a bound.                               *)
(***************************************************************************)
LEMMA SetInduction ==
  ASSUME NEW S, 0 \in S, \A n \in Nat : n \in S => n + 1 \in S
  PROVE  \A n \in Nat : n \in S
<1>. DEFINE Missing == {n \in Nat : n \notin S}
            m       == Min(Missing)
<1>. SUFFICES ASSUME Missing # {} PROVE FALSE
  OBVIOUS
<1>1. m \in Missing /\ \A n \in Missing : m <= n
  <2>1. Missing \subseteq Nat
    OBVIOUS
  <2>. QED
    BY <2>1, MinOfNaturals, Zenon
<1>. HIDE DEF m
<1>2. m \in Nat /\ m \notin S /\ m # 0
  BY <1>1
<1>3. m - 1 \in Nat /\ m - 1 \notin Missing
  BY <1>1, <1>2
<1>4. (m - 1) + 1 \in S
  BY <1>3
<1>. QED
  BY <1>2, <1>4

LEMMA BoundedInduction ==
  ASSUME NEW bound \in Nat, NEW S, 0 \in S,
         \A n \in 0 .. bound - 1 : n \in S => n + 1 \in S
  PROVE  \A n \in 0 .. bound : n \in S
<1>. DEFINE T == {n \in Nat : n <= bound => n \in S}
<1>1. 0 \in T
  OBVIOUS
<1>2. ASSUME NEW n \in Nat, n \in T PROVE n + 1 \in T
  <2>. SUFFICES ASSUME n + 1 <= bound PROVE n + 1 \in S
    OBVIOUS
  <2>1. n \in 0 .. bound - 1 /\ n \in S
    BY <1>2
  <2>. QED
    BY <2>1
<1>. HIDE DEF T
<1>3. \A n \in Nat : n \in T
  BY <1>1, <1>2, SetInduction
<1>. QED
  BY <1>3 DEF T

(***************************************************************************)
(* Induction over the subsets of a finite set.                             *)
(***************************************************************************)
LEMMA SubsetInduction ==
  ASSUME NEW S, IsFiniteSet(S), NEW Q, {} \in Q,
         \A s \in SUBSET S : s # {} /\ (\A x \in s : s \ {x} \in Q) => s \in Q
  PROVE  \A s \in SUBSET S : s \in Q
<1>. DEFINE Holds(n) == \A s \in SUBSET S : Cardinality(s) <= n => s \in Q
            Good     == {n \in Nat : Holds(n)}
<1>1. \A s \in SUBSET S : IsFiniteSet(s) /\ Cardinality(s) \in Nat
  BY FS_Subset, FS_CardinalityType
<1>2. Holds(0)
  <2>. SUFFICES ASSUME NEW s \in SUBSET S, Cardinality(s) <= 0 PROVE s \in Q
    OBVIOUS
  <2>1. Cardinality(s) = 0 /\ IsFiniteSet(s)
    BY <1>1
  <2>2. s = {}
    BY <2>1, FS_EmptySet, Zenon
  <2>. QED
    BY <2>2
<1>3. ASSUME NEW n \in Nat, Holds(n) PROVE Holds(n + 1)
  <2>. SUFFICES ASSUME NEW s \in SUBSET S, Cardinality(s) <= n + 1, s # {}
                PROVE  s \in Q
    OBVIOUS
  <2>1. ASSUME NEW x \in s PROVE s \ {x} \in Q
    <3>1. s \ {x} \in SUBSET S /\ Cardinality(s \ {x}) = Cardinality(s) - 1
      BY <1>1, FS_RemoveElement
    <3>2. Cardinality(s \ {x}) <= n
      BY <1>1, <3>1
    <3>. QED
      BY <1>3, <3>1, <3>2
  <2>. QED
    BY <2>1
<1>. HIDE DEF Holds
<1>4. 0 \in Good /\ \A n \in Nat : n \in Good => n + 1 \in Good
  BY <1>2, <1>3
<1>. HIDE DEF Good
<1>5. \A n \in Nat : n \in Good
  BY <1>4, SetInduction, Zenon
<1>6. \A n \in Nat : Holds(n)
  BY <1>5 DEF Good
<1>. QED
  BY <1>1, <1>6 DEF Holds

(***************************************************************************)
(* The subsets of a finite set can be counted; with induction, what the    *)
(* theorems of FoldLemmas rest on.                                         *)
(***************************************************************************)
LEMMA SubsetsCounted ==
  ASSUME NEW S, IsFiniteSet(S)
  PROVE  \E size : \A s \in SUBSET S :
           /\ size[s] \in Nat /\ size[s] <= size[S]
           /\ size[s] = 0 => s = {}
           /\ \A x \in s : size[s \ {x}] = size[s] - 1
<1>. DEFINE size == [s \in SUBSET S |-> Cardinality(s)]
<1>1. ASSUME NEW s \in SUBSET S
      PROVE  /\ size[s] \in Nat /\ size[s] <= size[S]
             /\ size[s] = 0 => s = {}
             /\ \A x \in s : size[s \ {x}] = size[s] - 1
  <2>1. IsFiniteSet(s) /\ Cardinality(s) \in Nat /\ Cardinality(s) <= Cardinality(S)
    BY FS_Subset, FS_CardinalityType
  <2>2. Cardinality(s) = 0 => s = {}
    BY <2>1, FS_EmptySet
  <2>3. \A x \in s : Cardinality(s \ {x}) = Cardinality(s) - 1
    BY <2>1, FS_RemoveElement
  <2>4. size[s] = Cardinality(s) /\ size[S] = Cardinality(S)
        /\ \A x \in s : size[s \ {x}] = Cardinality(s \ {x})
    OBVIOUS
  <2>. HIDE DEF size
  <2>. QED
    BY <2>1, <2>2, <2>3, <2>4
<1>. HIDE DEF size
<1>. QED
  BY <1>1, Zenon

LEMMA FoldBasics ==
  /\ \A S : 0 \in S /\ (\A n \in Nat : n \in S => n + 1 \in S) => \A n \in Nat : n \in S
  /\ \A n \in Nat :
       /\ \E size : \A s \in SUBSET (1 .. n) :
            /\ size[s] \in Nat /\ size[s] <= size[1 .. n]
            /\ size[s] = 0 => s = {}
            /\ \A x \in s : size[s \ {x}] = size[s] - 1
       /\ \A s \in SUBSET (1 .. n) : s # {} => (CHOOSE x \in s : \A y \in s : x >= y) \in s
<1>1. \A S : 0 \in S /\ (\A n \in Nat : n \in S => n + 1 \in S) => \A n \in Nat : n \in S
  BY SetInduction
<1>2. ASSUME NEW n \in Nat
      PROVE  \E size : \A s \in SUBSET (1 .. n) :
               /\ size[s] \in Nat /\ size[s] <= size[1 .. n]
               /\ size[s] = 0 => s = {}
               /\ \A x \in s : size[s \ {x}] = size[s] - 1
  <2>1. IsFiniteSet(1 .. n)
    BY FS_Interval
  <2>. QED
    BY <2>1, SubsetsCounted
<1>3. ASSUME NEW n \in Nat, NEW s \in SUBSET (1 .. n), s # {}
      PROVE  (CHOOSE x \in s : \A y \in s : x >= y) \in s
  <2>1. s \subseteq 0 .. n
    OBVIOUS
  <2>. QED
    BY <1>3, <2>1, MaxOfNaturals, Zenon DEF Max
<1>. QED
  BY <1>1, <1>2, <1>3, Zenon
================================================================================
