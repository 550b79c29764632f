------------------------------- MODULE Induction -------------------------------
(***************************************************************************)
(* Induction over the natural numbers, as a fact about sets of them.       *)
(***************************************************************************)
EXTENDS Integers, FiniteSetTheorems, TLAPS

\* Every set of natural numbers that has an element has a least one: what the
\* smallest counterexample of a proof by induction is taken from.
LEMMA LeastElement ==
  ASSUME NEW T \in SUBSET Nat, T # {}
  PROVE  \E n \in T : \A m \in T : n <= m
<1> DEFINE Below(n) == 0..n
           B == {Below(n) : n \in T}
<1>1. ASSUME NEW n \in T PROVE Below(n) \in SUBSET Nat /\ IsFiniteSet(Below(n))
  <2>1. 0 \in Int /\ n \in Int
    OBVIOUS
  <2>2. IsFiniteSet(0..n)
    BY <2>1, FS_Interval
  <2> QED BY <2>2
<1>2. B \subseteq FiniteSubsetsOf(Nat) /\ B # {}
  <2> HIDE DEF Below
  <2> QED BY <1>1 DEF FiniteSubsetsOf
<1>3. \E b \in B : \A c \in B : ~ (<<c, b>> \in StrictSubsetOrdering(Nat))
  <2> HIDE DEF B
  <2> QED BY <1>2, FS_StrictSubsetOrderingWellFounded, WFMin
<1>4. PICK n \in T : \A m \in T : ~ (<<Below(m), Below(n)>> \in StrictSubsetOrdering(Nat))
  BY <1>3
<1>5. ASSUME NEW m \in T, m < n PROVE FALSE
  <2>1. n \in Below(n) /\ n \notin Below(m)
    BY <1>5
  <2>2. Below(m) \subseteq Below(n)
    BY <1>5
  <2>3. Below(m) # Below(n)
    BY <2>1
  <2> QED BY <1>1, <1>4, <2>2, <2>3 DEF StrictSubsetOrdering
<1> QED BY <1>5

\* A set that has 0 and, with every number, the next one, has all of them.
LEMMA EveryNumber ==
  ASSUME NEW T, 0 \in T, \A n \in Nat : n \in T => n + 1 \in T
  PROVE  Nat \subseteq T
<1> SUFFICES ASSUME Nat \ T # {} PROVE FALSE
  OBVIOUS
<1>1. PICK n \in Nat \ T : \A m \in Nat \ T : n <= m
  BY LeastElement
<1>2. n # 0 /\ n - 1 \in Nat /\ n - 1 \in T
  BY <1>1
<1> QED BY <1>1, <1>2
================================================================================
