------------------------------ MODULE Induction ------------------------------
(***************************************************************************)
(* Induction over the natural numbers, for sets: what the proofs about the *)
(* sums and the passes over the queues rest on.                            *)
(***************************************************************************)
EXTENDS Integers, FiniteSetTheorems, WellFoundedInduction, TLAPS

\* Every set of natural numbers has a least element: the subsets 0 .. n of the
\* natural numbers are finite, and inclusion is well-founded on finite sets.
LEMMA LeastNumber ==
    ASSUME NEW T \in SUBSET Nat, T # {}
    PROVE  \E m \in T : \A k \in T : m <= k
  <1> DEFINE Below(n) == 0 .. n
             D == {Below(n) : n \in T}
             R == StrictSubsetOrdering(Nat)
  <1>1. IsWellFoundedOn(R, FiniteSubsetsOf(Nat))
    BY FS_StrictSubsetOrderingWellFounded
  <1>2. D \subseteq FiniteSubsetsOf(Nat)
    <2> SUFFICES ASSUME NEW n \in T PROVE Below(n) \in FiniteSubsetsOf(Nat)
      OBVIOUS
    <2>1. n \in Int /\ 0 \in Int /\ Below(n) \subseteq Nat
      OBVIOUS
    <2>2. IsFiniteSet(Below(n))
      BY <2>1, FS_Interval
    <2> QED
      BY <2>1, <2>2 DEF FiniteSubsetsOf
  <1>3. D # {}
    OBVIOUS
  <1>4. \E x \in D : \A y \in D : ~ (<<y, x>> \in R)
    <2> HIDE DEF D, R
    <2> QED
      BY <1>1, <1>2, <1>3, WFMin
  <1>5. PICK m \in T : \A k \in T : ~ (<<Below(k), Below(m)>> \in R)
    BY <1>4
  <1>6. ASSUME NEW k \in T, k < m PROVE FALSE
    <2>1. k \in Nat /\ m \in Nat
      OBVIOUS
    <2>2. Below(k) \subseteq Below(m) /\ m \in Below(m) /\ m \notin Below(k)
      BY <1>6, <2>1
    <2>3. <<Below(k), Below(m)>> \in R
      BY <2>2, <2>1 DEF StrictSubsetOrdering
    <2> QED
      BY <1>5, <2>3
  <1> QED
    BY <1>6

\* A set of natural numbers that holds 0, and with each number the next one,
\* holds them all.
LEMMA SetInduction ==
    ASSUME NEW S \in SUBSET Nat, 0 \in S, \A n \in S : n + 1 \in S
    PROVE  S = Nat
  <1> SUFFICES ASSUME S # Nat PROVE FALSE
    OBVIOUS
  <1>1. Nat \ S \in SUBSET Nat /\ Nat \ S # {}
    OBVIOUS
  <1>2. PICK m \in Nat \ S : \A k \in Nat \ S : m <= k
    BY <1>1, LeastNumber
  <1>3. m # 0 /\ m \in Nat
    OBVIOUS
  <1>4. m - 1 \in Nat /\ ~ (m <= m - 1)
    BY <1>3
  <1>5. m - 1 \in S
    BY <1>2, <1>4
  <1>6. (m - 1) + 1 = m
    BY <1>3
  <1> QED
    BY <1>5, <1>6

\* A part of 1 .. n that holds n, and with each number the one before it,
\* holds them all.
LEMMA DownInduction ==
    ASSUME NEW n \in Nat \ {0}, NEW S, n \in S,
           \A b \in 1 .. n - 1 : b + 1 \in S => b \in S
    PROVE  1 .. n \subseteq S
  <1> DEFINE T == {k \in Nat : k < n => n - k \in S}
  <1>1. T \in SUBSET Nat /\ 0 \in T
    OBVIOUS
  <1>2. ASSUME NEW k \in T PROVE k + 1 \in T
    <2>1. CASE k + 1 < n
      <3>1. k \in Nat /\ n - (k + 1) \in 1 .. n - 1 /\ (n - (k + 1)) + 1 = n - k /\ k < n
        BY <2>1
      <3>2. n - k \in S
        BY <3>1
      <3>3. n - (k + 1) \in S
        BY <3>1, <3>2
      <3> QED
        BY <3>1, <3>3
    <2>2. CASE ~(k + 1 < n)
      BY <2>2
    <2> QED
      BY <2>1, <2>2
  <1>3. T = Nat
    <2> HIDE DEF T
    <2> QED
      BY <1>1, <1>2, SetInduction
  <1> SUFFICES ASSUME NEW b \in 1 .. n PROVE b \in S
    OBVIOUS
  <1>4. n - b \in Nat /\ n - b < n /\ n - (n - b) = b
    OBVIOUS
  <1>5. n - b \in T
    BY <1>3, <1>4
  <1> QED
    BY <1>4, <1>5
=============================================================================
