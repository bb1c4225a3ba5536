--------------------------- MODULE DataInduction ---------------------------
(***************************************************************************)
(* Induction over the naturals, and what a function defined by recursion   *)
(* on them is, for the proofs about operators that go through a sequence.  *)
(*                                                                         *)
(* The properties are sets and the steps are functions, never operators    *)
(* that are passed as arguments: so the lemmas are cited for a set or a    *)
(* function at hand.  That a set of naturals has a least element follows   *)
(* from the well-foundedness of strict inclusion between the intervals     *)
(* 0..x of its elements.                                                   *)
(***************************************************************************)
EXTENDS Integers, Sequences, FiniteSetTheorems, TLAPS

\* A set of naturals has a least element.
LEMMA LeastNatural ==
  ASSUME NEW T, T \subseteq Nat, T # {}
  PROVE  \E x \in T : \A y \in T : x <= y
<1> DEFINE U == {0..x : x \in T}
<1>1. U \subseteq FiniteSubsetsOf(Nat)
  <2>1. \A x \in T : 0..x \subseteq Nat /\ IsFiniteSet(0..x)
    BY FS_Interval
  <2> QED
    BY <2>1 DEF FiniteSubsetsOf
<1>2. U # {}
  OBVIOUS
<1>3. \E X \in U : \A Y \in U : ~(<<Y, X>> \in StrictSubsetOrdering(Nat))
  <2> HIDE DEF U
  <2> QED
    BY <1>1, <1>2, FS_StrictSubsetOrderingWellFounded, WFMin
<1>4. PICK x \in T : \A y \in T : ~(<<0..y, 0..x>> \in StrictSubsetOrdering(Nat))
  BY <1>3
<1>5. ASSUME NEW y \in T, y < x
      PROVE  <<0..y, 0..x>> \in StrictSubsetOrdering(Nat)
  <2>1. 0..y \in SUBSET Nat /\ 0..x \in SUBSET Nat
    OBVIOUS
  <2>2. 0..y \subseteq 0..x /\ x \in 0..x /\ x \notin 0..y
    BY <1>5
  <2> QED
    BY <2>1, <2>2 DEF StrictSubsetOrdering
<1>6. \A y \in T : ~(y < x)
  BY <1>4, <1>5
<1> QED
  BY <1>6

\* A set that has 0, and the successor of each natural below n that it has, has
\* every natural up to n.
LEMMA Induction ==
  ASSUME NEW n \in Nat, NEW S, 0 \in S, \A i \in 0..n - 1 : i \in S => i + 1 \in S
  PROVE  0..n \subseteq S
<1> DEFINE T == (0..n) \ S
<1>1. SUFFICES ASSUME T # {} PROVE FALSE
  OBVIOUS
<1>2. PICK x \in T : \A y \in T : x <= y
  <2>1. T \subseteq Nat
    OBVIOUS
  <2> HIDE DEF T
  <2> QED
    BY <1>1, <2>1, LeastNatural
<1>3. x # 0 /\ x - 1 \in 0..n - 1
  BY <1>2
<1>4. x - 1 \in S
  BY <1>2, <1>3
<1> QED
  BY <1>3, <1>4

\* h is b at 0, and at every further place up to n what step makes of the place
\* and of the value before.
Iterates(h, n, b, step) ==
  /\ h[0] = b
  /\ \A i \in 1..n : h[i] = step[<<i, h[i - 1]>>]

\* Such a function exists, whatever the step.
LEMMA Recursion ==
  ASSUME NEW V, NEW b \in V, NEW n \in Nat, NEW step \in [(1..n) \X V -> V]
  PROVE  \E h \in [0..n -> V] : Iterates(h, n, b, step)
<1> DEFINE S == {m \in Nat : \E h \in [0..m -> V] : Iterates(h, m, b, step)}
<1>1. 0 \in S
  <2>1. [i \in 0..0 |-> b] \in [0..0 -> V] /\ Iterates([i \in 0..0 |-> b], 0, b, step)
    BY DEF Iterates
  <2> QED
    BY <2>1
<1>2. ASSUME NEW m \in 0..n - 1, m \in S PROVE m + 1 \in S
  <2>1. PICK g \in [0..m -> V] : Iterates(g, m, b, step)
    BY <1>2
  <2> DEFINE h == [i \in 0..m + 1 |-> IF i = m + 1 THEN step[<<i, g[m]>>] ELSE g[i]]
  <2>2. step[<<m + 1, g[m]>>] \in V
    <3>1. m + 1 \in 1..n /\ g[m] \in V
      OBVIOUS
    <3> QED
      BY <3>1
  <2>3. h \in [0..m + 1 -> V]
    BY <2>2
  <2>4. Iterates(h, m + 1, b, step)
    <3>1. h[0] = b
      BY <2>1 DEF Iterates
    <3>2. h[m + 1] = step[<<m + 1, h[m]>>]
      OBVIOUS
    <3>3. ASSUME NEW i \in 1..m PROVE h[i] = step[<<i, h[i - 1]>>]
      <4>1. h[i] = g[i] /\ h[i - 1] = g[i - 1]
        OBVIOUS
      <4> QED
        BY <2>1, <4>1 DEF Iterates
    <3>4. ASSUME NEW i \in 1..m + 1 PROVE i \in 1..m \/ i = m + 1
      OBVIOUS
    <3> HIDE DEF h
    <3>5. m + 1 - 1 = m
      OBVIOUS
    <3> QED
      BY <3>1, <3>2, <3>3, <3>4, <3>5 DEF Iterates
  <2> QED
    <3>1. m + 1 \in Nat
      OBVIOUS
    <3> HIDE DEF h
    <3> QED
      BY <2>3, <2>4, <3>1
<1>3. n \in S
  <2> HIDE DEF S
  <2> QED
    BY <1>1, <1>2, Induction
<1> QED
  BY <1>3
=============================================================================
