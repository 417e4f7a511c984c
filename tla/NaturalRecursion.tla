--------------------------- MODULE NaturalRecursion ---------------------------
(* Induction and recursion over the natural numbers, stated of sets and    *)
(* functions.  The induction theorems of the library take an operator as a *)
(* parameter; these lemmas take the set of the numbers it holds of, and    *)
(* the function that leads from one value to the next.                     *)
EXTENDS Integers, TLAPS, FiniteSetTheorems, WellFoundedInduction

-----------------------------------------------------------------------------
(* Induction *)

\* A set of numbers has a least one: of the sets of what is not above one of its members,
\* which are finite, one is minimal.
LEMMA LeastNumber ==
  ASSUME NEW S, S \subseteq Nat, S # {}
  PROVE  \E x \in S : \A y \in S : x <= y
  <1>1. PICK n \in S : TRUE
    OBVIOUS
  <1> DEFINE UpTo(m) == {k \in S : k <= m}
             T == {UpTo(m) : m \in UpTo(n)}
  <1>2. \A k \in S : k \in Int /\ 0 <= k
    OBVIOUS
  <1>3. \A m \in UpTo(n) : m \in S /\ UpTo(m) \in SUBSET (0..n)
    <2> SUFFICES ASSUME NEW m \in S, m <= n, NEW k \in S, k <= m
                 PROVE  k \in 0..n
      OBVIOUS
    <2> QED
      BY <1>1, <1>2
  <1>4. n \in UpTo(n)
    BY <1>1, <1>2
  <1>5. \A k \in S, m \in S : k < m => UpTo(k) \subseteq UpTo(m) /\ m \in UpTo(m) /\ m \notin UpTo(k)
    <2> SUFFICES ASSUME NEW k \in S, NEW m \in S, k < m
                 PROVE  UpTo(k) \subseteq UpTo(m) /\ m <= m /\ ~(m <= k)
      OBVIOUS
    <2>1. \A j \in S : j <= k => j <= m
      BY <1>2
    <2>2. m <= m /\ ~(m <= k)
      BY <1>2
    <2> QED
      BY <2>1, <2>2
  <1>6. \A k \in S : k <= n => k \in UpTo(n)
    OBVIOUS
  <1>7. IsFiniteSet(0..n)
    BY <1>1, FS_Interval
  <1> HIDE DEF UpTo
  <1>8. T \subseteq FiniteSubsetsOf(0..n) /\ T # {}
    BY <1>3, <1>4, <1>7, FS_Subset DEF FiniteSubsetsOf
  <1> HIDE DEF T
  <1>9. \E x \in T : \A y \in T : <<y, x>> \notin StrictSubsetOrdering(0..n)
    <2>1. IsWellFoundedOn(StrictSubsetOrdering(0..n), FiniteSubsetsOf(0..n))
      BY FS_StrictSubsetOrderingWellFounded
    <2> QED
      BY <1>8, <2>1, WFMin
  <1>10. PICK m \in UpTo(n) :
           \A k \in UpTo(n) : <<UpTo(k), UpTo(m)>> \notin StrictSubsetOrdering(0..n)
    BY <1>9 DEF T
  <1>11. m \in S
    BY <1>3
  <1>12. m <= n
    BY DEF UpTo
  <1>13. ASSUME NEW k \in S
         PROVE  m <= k
    <2> SUFFICES ASSUME k < m
                 PROVE  FALSE
      BY <1>2, <1>11
    <2>1. k <= n
      BY <1>1, <1>2, <1>11, <1>12
    <2>2. k \in UpTo(n)
      BY <1>6, <2>1
    <2>3. <<UpTo(k), UpTo(m)>> \in StrictSubsetOrdering(0..n)
      BY <1>3, <1>5, <1>11, <2>2 DEF StrictSubsetOrdering
    <2> QED
      BY <1>10, <2>2, <2>3
  <1> QED
    BY <1>11, <1>13

\* What holds of 0, and of the successor of every number it holds of, holds of all.
LEMMA SetInduction ==
  ASSUME NEW T, 0 \in T, \A n \in Nat : n \in T => n + 1 \in T
  PROVE  Nat \subseteq T
  <1> SUFFICES ASSUME Nat \ T # {}
               PROVE  FALSE
    OBVIOUS
  <1>1. PICK m \in Nat \ T : \A k \in Nat \ T : m <= k
    <2>1. Nat \ T \subseteq Nat
      OBVIOUS
    <2> QED
      BY <2>1, LeastNumber
  <1>2. m # 0 /\ m - 1 \in Nat /\ (m - 1) + 1 = m
    BY <1>1
  <1>3. m - 1 \in T
    BY <1>1, <1>2
  <1> QED
    BY <1>2, <1>3

-----------------------------------------------------------------------------
(* Recursion *)

\* The first values of the function that begins with a and goes on with g.
Unrolls(h, n, S, a, g) ==
    /\ h \in [0..n -> S]
    /\ h[0] = a
    /\ \A i \in 0..(n - 1) : h[i + 1] = g[i][h[i]]

\* They do not depend on where one stops.
LEMMA UnrollsAgree ==
  ASSUME NEW S, NEW a, NEW g, NEW m \in Nat, NEW n \in Nat, m <= n, NEW h, NEW k,
         Unrolls(h, m, S, a, g), Unrolls(k, n, S, a, g)
  PROVE  h[m] = k[m]
  <1> DEFINE T == {i \in Nat : i <= m => h[i] = k[i]}
  <1>1. 0 \in T
    BY DEF Unrolls
  <1>2. ASSUME NEW i \in Nat, i \in T
        PROVE  i + 1 \in T
    <2> SUFFICES ASSUME i + 1 <= m
                 PROVE  h[i + 1] = k[i + 1]
      OBVIOUS
    <2>1. h[i] = k[i] /\ i \in 0..(m - 1) /\ i \in 0..(n - 1)
      BY <1>2
    <2> QED
      BY <2>1 DEF Unrolls
  <1> HIDE DEF T
  <1>3. m \in T
    BY <1>1, <1>2, SetInduction
  <1> QED
    BY <1>3 DEF T

\* There are such values up to every number.
LEMMA UnrollsExist ==
  ASSUME NEW S, NEW a \in S, NEW g \in [Nat -> [S -> S]]
  PROVE  \A n \in Nat : \E h : Unrolls(h, n, S, a, g)
  <1> DEFINE T == {n \in Nat : \E h : Unrolls(h, n, S, a, g)}
  <1>1. 0 \in T
    <2>1. Unrolls([i \in 0..0 |-> a], 0, S, a, g)
      BY DEF Unrolls
    <2> QED
      BY <2>1
  <1>2. ASSUME NEW n \in Nat, n \in T
        PROVE  n + 1 \in T
    <2>1. PICK h : Unrolls(h, n, S, a, g)
      BY <1>2
    <2> DEFINE k == [i \in 0..(n + 1) |-> IF i = n + 1 THEN g[n][h[n]] ELSE h[i]]
    <2>2. h[n] \in S /\ g[n][h[n]] \in S
      BY <2>1 DEF Unrolls
    <2>3. k \in [0..(n + 1) -> S] /\ k[0] = a
      BY <2>1, <2>2 DEF Unrolls
    <2>4. ASSUME NEW i \in 0..n
          PROVE  k[i + 1] = g[i][k[i]]
      <3>1. CASE i = n
        BY <3>1
      <3>2. CASE i < n
        BY <3>2, <2>1 DEF Unrolls
      <3> QED
        BY <3>1, <3>2
    <2> HIDE DEF k
    <2>5. Unrolls(k, n + 1, S, a, g)
      BY <2>3, <2>4 DEF Unrolls
    <2>6. \E f : Unrolls(f, n + 1, S, a, g)
      BY <2>5
    <2> QED
      BY <2>6
  <1> HIDE DEF T
  <1>3. Nat \subseteq T
    BY <1>1, <1>2, SetInduction
  <1> QED
    BY <1>3 DEF T

\* The function that begins with a and goes on with g.
IsRecursive(f, S, a, g) ==
    /\ f \in [Nat -> S]
    /\ f[0] = a
    /\ \A n \in Nat : f[n + 1] = g[n][f[n]]

\* So there is one.
LEMMA Recursion ==
  ASSUME NEW S, NEW a \in S, NEW g \in [Nat -> [S -> S]]
  PROVE  \E f : IsRecursive(f, S, a, g)
  <1> DEFINE H(n) == CHOOSE h : Unrolls(h, n, S, a, g)
             f == [n \in Nat |-> H(n)[n]]
  <1>1. \A n \in Nat : Unrolls(H(n), n, S, a, g) /\ f[n] = H(n)[n]
    BY UnrollsExist
  <1> HIDE DEF H
  <1>2. \A n \in Nat : f[n] \in S
    BY <1>1 DEF Unrolls
  <1>3. f \in [Nat -> S]
    BY <1>2
  <1> HIDE DEF f
  <1>4. f[0] = a
    BY <1>1 DEF Unrolls
  <1>5. ASSUME NEW n \in Nat
        PROVE  f[n + 1] = g[n][f[n]]
    <2>1. H(n + 1)[n + 1] = g[n][H(n + 1)[n]]
      BY <1>1 DEF Unrolls
    <2>2. Unrolls(H(n), n, S, a, g) /\ Unrolls(H(n + 1), n + 1, S, a, g)
      BY <1>1
    <2>3. H(n)[n] = H(n + 1)[n]
      BY <2>2, UnrollsAgree
    <2> QED
      BY <1>1, <2>1, <2>3
  <1> QED
    BY <1>3, <1>4, <1>5 DEF IsRecursive
=============================================================================
