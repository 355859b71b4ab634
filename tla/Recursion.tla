------------------------------ MODULE Recursion ------------------------------
(***************************************************************************)
(* Definition by recursion over Nat, and proof by induction over it, in    *)
(* the form that instances of this module can cite: iterate(p) starts at   *)
(* Start(p) and makes a step for every number.                             *)
(***************************************************************************)
EXTENDS Integers, FiniteSetTheorems, WellFoundedInduction, TLAPS

CONSTANTS Start(_), Step(_, _, _)

iterate(p) ==
    LET at[n \in Nat] == IF n = 0 THEN Start(p) ELSE Step(p, n, at[n - 1])
    IN  at

(* A set of numbers that is not empty has a least one.                     *)
LEMMA LeastNumber ==
    ASSUME NEW S \in SUBSET Nat, S # {}
    PROVE  \E m \in S : \A k \in S : m <= k
<1> DEFINE T == {0 .. n : n \in S}
<1>1. T \subseteq FiniteSubsetsOf(Nat)
  <2> SUFFICES ASSUME NEW n \in S PROVE 0 .. n \in FiniteSubsetsOf(Nat)
    OBVIOUS
  <2>1. IsFiniteSet(0 .. n)
    BY FS_Interval
  <2>2. 0 .. n \in SUBSET Nat
    OBVIOUS
  <2> QED BY <2>1, <2>2 DEF FiniteSubsetsOf
<1>2. T # {}
  OBVIOUS
<1>3. IsWellFoundedOn(StrictSubsetOrdering(Nat), FiniteSubsetsOf(Nat))
  BY FS_StrictSubsetOrderingWellFounded
<1>4. \E x \in T : \A y \in T : ~(<<y, x>> \in StrictSubsetOrdering(Nat))
  <2> HIDE DEF T
  <2> QED BY <1>1, <1>2, <1>3, WFMin, Zenon
<1>5. PICK m \in S : \A y \in T : ~(<<y, 0 .. m>> \in StrictSubsetOrdering(Nat))
  BY <1>4
<1>6. SUFFICES ASSUME NEW k \in S, k < m PROVE FALSE
  BY <1>5
<1>7. 0 .. k \in SUBSET Nat /\ 0 .. m \in SUBSET Nat /\ 0 .. k \subseteq 0 .. m
  BY <1>6
<1>8. m \in 0 .. m /\ m \notin 0 .. k
  BY <1>6
<1>9. 0 .. k # 0 .. m
  BY <1>8
<1>10. <<0 .. k, 0 .. m>> \in StrictSubsetOrdering(Nat)
  BY <1>7, <1>9 DEF StrictSubsetOrdering
<1> QED BY <1>5, <1>10

(* Induction, for a set of numbers. *)
LEMMA Induction ==
    ASSUME NEW S, 0 \in S, \A n \in Nat : n \in S => n + 1 \in S
    PROVE  Nat \subseteq S
<1> SUFFICES ASSUME Nat \ S # {} PROVE FALSE
  OBVIOUS
<1>1. PICK m \in Nat \ S : \A k \in Nat \ S : m <= k
  BY LeastNumber
<1>2. m - 1 \in Nat /\ m - 1 \notin Nat \ S
  BY <1>1
<1> QED BY <1>1, <1>2

-----------------------------------------------------------------------------
(* The first k steps, as a function that calls itself. *)
Upto(at, p, k) ==
    at = [n \in 0 .. k |-> IF n = 0 THEN Start(p) ELSE Step(p, n, at[n - 1])]

LEMMA UptoExists ==
    ASSUME NEW p
    PROVE  \A k \in Nat : \E at : Upto(at, p, k)
<1> DEFINE S == {k \in Nat : \E at : Upto(at, p, k)}
<1>1. 0 \in S
  <2> DEFINE at == [n \in 0 .. 0 |-> Start(p)]
  <2>1. Upto(at, p, 0)
    BY DEF Upto
  <2> QED BY <2>1
<1>2. ASSUME NEW k \in Nat, k \in S PROVE k + 1 \in S
  <2>1. PICK at : Upto(at, p, k)
    BY <1>2
  <2> DEFINE longer == [n \in 0 .. k + 1 |-> IF n = k + 1 THEN Step(p, k + 1, at[k]) ELSE at[n]]
  <2>2. \A n \in 0 .. k : longer[n] = at[n] /\ n # k + 1
    OBVIOUS
  <2>3. longer[k + 1] = Step(p, k + 1, longer[k])
    BY <2>2
  <2>4. ASSUME NEW n \in 0 .. k + 1
        PROVE  longer[n] = IF n = 0 THEN Start(p) ELSE Step(p, n, longer[n - 1])
    <3>1. CASE n = k + 1
      BY <2>3, <3>1
    <3>2. CASE n \in 0 .. k /\ n # 0
      <4>1. at[n] = Step(p, n, at[n - 1])
        BY <2>1, <3>2 DEF Upto
      <4>2. n - 1 \in 0 .. k
        BY <3>2
      <4> QED BY <2>2, <3>2, <4>1, <4>2
    <3>3. CASE n = 0
      <4>1. at[0] = Start(p)
        BY <2>1 DEF Upto
      <4> QED BY <2>2, <3>3, <4>1
    <3> QED BY <3>1, <3>2, <3>3
  <2>5. Upto(longer, p, k + 1)
    BY <2>4 DEF Upto
  <2> QED BY <2>5
<1> HIDE DEF S
<1>3. Nat \subseteq S
  BY <1>1, <1>2, Induction
<1> QED BY <1>3 DEF S

LEMMA UptoUnique ==
    ASSUME NEW p, NEW k \in Nat, NEW l \in Nat, NEW at, NEW other,
           Upto(at, p, k), Upto(other, p, l)
    PROVE  \A n \in Nat : n <= k /\ n <= l => at[n] = other[n]
<1> DEFINE S == {n \in Nat : n <= k /\ n <= l => at[n] = other[n]}
<1>1. 0 \in S
  BY DEF Upto
<1>2. ASSUME NEW n \in Nat, n \in S PROVE n + 1 \in S
  <2> SUFFICES ASSUME n + 1 <= k, n + 1 <= l PROVE at[n + 1] = other[n + 1]
    OBVIOUS
  <2>1. at[n + 1] = Step(p, n + 1, at[n]) /\ other[n + 1] = Step(p, n + 1, other[n])
    BY DEF Upto
  <2>2. at[n] = other[n]
    BY <1>2
  <2> QED BY <2>1, <2>2
<1> HIDE DEF S
<1>3. Nat \subseteq S
  BY <1>1, <1>2, Induction
<1> QED BY <1>3 DEF S

(* iterate does what its definition says. *)
THEOREM Iterates ==
    \A p : iterate(p) = [n \in Nat |-> IF n = 0 THEN Start(p) ELSE Step(p, n, iterate(p)[n - 1])]
<1> TAKE p
<1> DEFINE first(k) == CHOOSE at : Upto(at, p, k)
           whole == [n \in Nat |-> first(n)[n]]
<1>1. \A k \in Nat : Upto(first(k), p, k)
  BY UptoExists
<1> HIDE DEF first
<1>2. ASSUME NEW n \in Nat
      PROVE  whole[n] = IF n = 0 THEN Start(p) ELSE Step(p, n, whole[n - 1])
  <2>1. CASE n = 0
    BY <1>1, <2>1 DEF Upto
  <2>2. CASE n # 0
    <3>1. first(n)[n] = Step(p, n, first(n)[n - 1])
      BY <1>1, <2>2 DEF Upto
    <3>2. n - 1 \in Nat /\ n - 1 <= n /\ n - 1 <= n - 1
      BY <2>2
    <3>3. first(n)[n - 1] = first(n - 1)[n - 1]
      BY <1>1, <3>2, UptoUnique
    <3> QED BY <2>2, <3>1, <3>2, <3>3
  <2> QED BY <2>1, <2>2
<1>3. whole = [n \in Nat |-> IF n = 0 THEN Start(p) ELSE Step(p, n, whole[n - 1])]
  BY <1>2
<1> HIDE DEF whole
<1>4. \E at : at = [n \in Nat |-> IF n = 0 THEN Start(p) ELSE Step(p, n, at[n - 1])]
  BY <1>3
<1> DEFINE F == CHOOSE at : at = [n \in Nat |-> IF n = 0 THEN Start(p) ELSE Step(p, n, at[n - 1])]
<1>5. F = [n \in Nat |-> IF n = 0 THEN Start(p) ELSE Step(p, n, F[n - 1])]
  BY <1>4
<1>6. iterate(p) = F
  BY DEF iterate
<1> HIDE DEF F
<1> QED BY <1>5, <1>6
=============================================================================
