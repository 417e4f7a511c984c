------------------------ MODULE MethodDiscoveryProofs ------------------------
(* Proofs about MethodDiscovery, for every set of method names and every   *)
(* program of the lines LinesAssumption allows.                            *)
EXTENDS MethodDiscovery, NaturalRecursion, SequenceTheorems

-----------------------------------------------------------------------------
(* Sequences *)

\* What holds of the empty sequence, and of a sequence it holds of with one more element,
\* holds of every sequence.
LEMMA SequenceInduction ==
  ASSUME NEW S, NEW T, <<>> \in T,
         \A s \in Seq(S), e \in S : s \in T => Append(s, e) \in T
  PROVE  Seq(S) \subseteq T
  <1> DEFINE M == {n \in Nat : \A s \in Seq(S) : Len(s) = n => s \in T}
  <1>1. 0 \in M
    <2>1. \A s \in Seq(S) : Len(s) = 0 => s = <<>>
      OBVIOUS
    <2> QED
      BY <2>1
  <1>2. ASSUME NEW n \in Nat, n \in M
        PROVE  n + 1 \in M
    <2> SUFFICES ASSUME NEW s \in Seq(S), Len(s) = n + 1
                 PROVE  s \in T
      OBVIOUS
    <2>1. s # <<>>
      <3> SUFFICES ASSUME s = <<>>
                   PROVE  FALSE
        OBVIOUS
      <3>1. Len(s) = 0
        OBVIOUS
      <3> QED
        BY <3>1
    <2>2. PICK r \in Seq(S), e \in S : s = Append(r, e)
      BY <2>1, SequenceEmptyOrAppend
    <2>3. Len(s) = Len(r) + 1 /\ Len(r) \in Nat
      BY <2>2
    <2>4. Len(r) = n
      BY <2>3
    <2> QED
      BY <1>2, <2>2, <2>4
  <1> HIDE DEF M
  <1>3. Nat \subseteq M
    BY <1>1, <1>2, SetInduction
  <1> QED
    BY <1>3 DEF M

\* The function that Only is the last value of.
IsOnly(f, s, S, T) ==
    /\ f \in [0..Len(s) -> Seq(S)]
    /\ f[0] = <<>>
    /\ \A n \in 1..Len(s) : f[n] = IF s[n] \in T THEN Append(f[n - 1], s[n]) ELSE f[n - 1]

LEMMA OnlyIsLast ==
  ASSUME NEW S, NEW T, NEW s \in Seq(S)
  PROVE  \E f : IsOnly(f, s, S, T) /\ Only(s, T) = f[Len(s)]
  <1> DEFINE a == <<>>
             L == Len(s)
             step(n, x) == IF s[n] \in T THEN Append(x, s[n]) ELSE x
             F(u) == [n \in 0..L |-> IF n = 0 THEN a ELSE step(n, u[n - 1])]
             g == [n \in Nat |-> [x \in Seq(S) |-> IF n + 1 \in 1..L THEN step(n + 1, x) ELSE x]]
  <1>1. L \in Nat /\ a \in Seq(S)
    OBVIOUS
  <1>2. \A n \in 1..L, x \in Seq(S) : step(n, x) \in Seq(S)
    OBVIOUS
  <1> HIDE DEF a, L, step
  <1>3. g \in [Nat -> [Seq(S) -> Seq(S)]]
    BY <1>2
  <1>4. \A n \in 1..L, x \in Seq(S) : g[n - 1][x] = step(n, x)
    <2> SUFFICES ASSUME NEW n \in 1..L, NEW x \in Seq(S)
                 PROVE  g[n - 1][x] = step(n, x)
      OBVIOUS
    <2>1. n - 1 \in Nat /\ (n - 1) + 1 = n
      BY <1>1
    <2> QED
      BY <2>1
  <1> HIDE DEF g
  <1>5. PICK h : Unrolls(h, L, Seq(S), a, g)
    BY <1>1, <1>3, UnrollsExist
  <1>6. ASSUME NEW n \in 1..L
        PROVE  h[n] = step(n, h[n - 1])
    <2>1. n - 1 \in 0..(L - 1) /\ n - 1 \in 0..L /\ (n - 1) + 1 = n
      BY <1>1
    <2>2. h[n] = g[n - 1][h[n - 1]] /\ h[n - 1] \in Seq(S)
      BY <1>5, <2>1 DEF Unrolls
    <2> QED
      BY <1>4, <2>2
  <1>7. h = F(h)
    <2>1. h = [n \in 0..L |-> h[n]] /\ h[0] = a
      BY <1>5 DEF Unrolls
    <2>2. \A n \in 0..L : n = 0 \/ n \in 1..L
      BY <1>1
    <2> QED
      BY <1>6, <2>1, <2>2
  <1> DEFINE f == CHOOSE u : u = F(u)
  <1>8. f = F(f)
    BY <1>7
  <1>9. Only(s, T) = f[L]
    BY DEF Only, L, a, step
  <1> HIDE DEF f
  <1>10. f[0] = a /\ \A n \in 1..L : f[n] = step(n, f[n - 1])
    <2>1. 0 \in 0..L /\ \A n \in 1..L : n \in 0..L /\ n # 0
      BY <1>1
    <2> QED
      BY <1>8, <2>1
  <1> DEFINE M == {n \in Nat : n <= L => f[n] \in Seq(S)}
  <1>11. 0 \in M
    BY <1>1, <1>10
  <1>12. ASSUME NEW n \in Nat, n \in M
         PROVE  n + 1 \in M
    <2> SUFFICES ASSUME n + 1 <= L
                 PROVE  f[n + 1] \in Seq(S)
      OBVIOUS
    <2>1. n + 1 \in 1..L /\ (n + 1) - 1 = n /\ f[n] \in Seq(S)
      BY <1>1, <1>12
    <2> QED
      BY <1>2, <1>10, <2>1
  <1> HIDE DEF M
  <1>13. Nat \subseteq M
    BY <1>11, <1>12, SetInduction
  <1>14. \A n \in 0..L : f[n] \in Seq(S)
    BY <1>1, <1>13 DEF M
  <1>15. f \in [0..L -> Seq(S)]
    BY <1>8, <1>14
  <1>16. IsOnly(f, s, S, T)
    BY <1>10, <1>15 DEF IsOnly, L, a, step
  <1> QED
    BY <1>9, <1>16 DEF L

\* Only goes through a sequence element by element.
LEMMA OnlyAppend ==
  ASSUME NEW S, NEW T, NEW s \in Seq(S), NEW e \in S
  PROVE  /\ Only(s, T) \in Seq(S)
         /\ Only(Append(s, e), T) = IF e \in T THEN Append(Only(s, T), e) ELSE Only(s, T)
  <1> DEFINE r == Append(s, e)
             L == Len(s)
  <1>1. /\ r \in Seq(S) /\ Len(r) = L + 1 /\ L \in Nat
        /\ r[L + 1] = e
        /\ \A n \in 1..L : r[n] = s[n]
    OBVIOUS
  <1> HIDE DEF r
  <1>2. PICK f : IsOnly(f, s, S, T) /\ Only(s, T) = f[L]
    BY OnlyIsLast
  <1>3. PICK h : IsOnly(h, r, S, T) /\ Only(r, T) = h[L + 1]
    BY <1>1, OnlyIsLast
  <1> DEFINE M == {n \in Nat : n <= L => f[n] = h[n]}
  <1>4. 0 \in M
    BY <1>2, <1>3 DEF IsOnly
  <1>5. ASSUME NEW n \in Nat, n \in M
        PROVE  n + 1 \in M
    <2> SUFFICES ASSUME n + 1 <= L
                 PROVE  f[n + 1] = h[n + 1]
      OBVIOUS
    <2>1. n + 1 \in 1..L /\ n + 1 \in 1..Len(r) /\ (n + 1) - 1 = n /\ f[n] = h[n] /\ r[n + 1] = s[n + 1]
      BY <1>1, <1>5
    <2> QED
      BY <1>2, <1>3, <2>1 DEF IsOnly
  <1> HIDE DEF M
  <1>6. f[L] = h[L]
    <2>1. L \in M
      BY <1>1, <1>4, <1>5, SetInduction
    <2> QED
      BY <2>1, <1>1 DEF M
  <1>7. h[L + 1] = IF e \in T THEN Append(h[L], e) ELSE h[L]
    <2>1. L + 1 \in 1..Len(r) /\ (L + 1) - 1 = L
      BY <1>1
    <2> QED
      BY <1>1, <1>3, <2>1 DEF IsOnly
  <1>8. f[L] \in Seq(S)
    BY <1>1, <1>2 DEF IsOnly
  <1> QED
    BY <1>2, <1>3, <1>6, <1>7, <1>8 DEF r

LEMMA OnlyEmpty ==
  ASSUME NEW T
  PROVE  Only(<<>>, T) = <<>>
  <1>1. <<>> \in Seq({}) /\ Len(<<>>) = 0
    OBVIOUS
  <1>2. PICK f : IsOnly(f, <<>>, {}, T) /\ Only(<<>>, T) = f[Len(<<>>)]
    BY <1>1, OnlyIsLast
  <1> QED
    BY <1>1, <1>2 DEF IsOnly

LEMMA OnlyIsSequence ==
  ASSUME NEW S, NEW T, NEW s \in Seq(S)
  PROVE  Only(s, T) \in Seq(S)
  <1>1. PICK f : IsOnly(f, s, S, T) /\ Only(s, T) = f[Len(s)]
    BY OnlyIsLast
  <1>2. Len(s) \in 0..Len(s)
    OBVIOUS
  <1> QED
    BY <1>1, <1>2 DEF IsOnly

\* The elements of a sequence with one more.
LEMMA ToSetAppend ==
  ASSUME NEW S, NEW s \in Seq(S), NEW e \in S
  PROVE  ToSet(Append(s, e)) = ToSet(s) \cup {e}
  <1>1. /\ DOMAIN Append(s, e) = 1..(Len(s) + 1) /\ DOMAIN s = 1..Len(s) /\ Len(s) \in Nat
        /\ Append(s, e)[Len(s) + 1] = e
        /\ \A n \in 1..Len(s) : Append(s, e)[n] = s[n]
    OBVIOUS
  <1>2. 1..(Len(s) + 1) = (1..Len(s)) \cup {Len(s) + 1}
    BY <1>1
  <1> QED
    BY <1>1, <1>2 DEF ToSet

\* The elements of two sequences, one after the other.
LEMMA ToSetConcat ==
  ASSUME NEW S, NEW s \in Seq(S), NEW r \in Seq(S)
  PROVE  ToSet(s \o r) = ToSet(s) \cup ToSet(r)
  <1>1. /\ DOMAIN (s \o r) = 1..(Len(s) + Len(r)) /\ DOMAIN s = 1..Len(s) /\ DOMAIN r = 1..Len(r)
        /\ Len(s) \in Nat /\ Len(r) \in Nat
        /\ \A n \in 1..(Len(s) + Len(r)) :
            (s \o r)[n] = IF n <= Len(s) THEN s[n] ELSE r[n - Len(s)]
    BY ConcatProperties
  <1>2. ASSUME NEW n \in 1..(Len(s) + Len(r))
        PROVE  (s \o r)[n] \in ToSet(s) \cup ToSet(r)
    <2>1. CASE n <= Len(s)
      BY <1>1, <2>1 DEF ToSet
    <2>2. CASE ~(n <= Len(s))
      <3>1. n - Len(s) \in 1..Len(r)
        BY <1>1, <2>2
      <3> QED
        BY <1>1, <2>2, <3>1 DEF ToSet
    <2> QED
      BY <2>1, <2>2
  <1>3. ASSUME NEW n \in 1..Len(s)
        PROVE  s[n] \in ToSet(s \o r)
    <2>1. n \in 1..(Len(s) + Len(r)) /\ n <= Len(s)
      BY <1>1
    <2> QED
      BY <1>1, <2>1 DEF ToSet
  <1>4. ASSUME NEW n \in 1..Len(r)
        PROVE  r[n] \in ToSet(s \o r)
    <2>1. n + Len(s) \in 1..(Len(s) + Len(r)) /\ ~(n + Len(s) <= Len(s)) /\ (n + Len(s)) - Len(s) = n
      BY <1>1
    <2>2. (s \o r)[n + Len(s)] = r[n]
      BY <1>1, <2>1
    <2> QED
      BY <1>1, <2>1, <2>2 DEF ToSet
  <1>5. ToSet(s \o r) \subseteq ToSet(s) \cup ToSet(r)
    BY <1>1, <1>2 DEF ToSet
  <1>6. ToSet(s) \subseteq ToSet(s \o r)
    BY <1>1, <1>3 DEF ToSet
  <1>7. ToSet(r) \subseteq ToSet(s \o r)
    BY <1>1, <1>4 DEF ToSet
  <1> QED
    BY <1>5, <1>6, <1>7

\* Only keeps the elements in the set.
LEMMA OnlyElements ==
  ASSUME NEW S, NEW T, NEW s \in Seq(S)
  PROVE  ToSet(Only(s, T)) = ToSet(s) \cap T
  <1> DEFINE M == {r \in Seq(S) : ToSet(Only(r, T)) = ToSet(r) \cap T}
  <1>1. <<>> \in M
    <2>1. <<>> \in Seq(S) /\ ToSet(<<>>) = {}
      BY DEF ToSet
    <2> QED
      BY <2>1, OnlyEmpty
  <1>2. ASSUME NEW r \in Seq(S), NEW e \in S, r \in M
        PROVE  Append(r, e) \in M
    <2>1. Append(r, e) \in Seq(S)
      OBVIOUS
    <2>2. Only(r, T) \in Seq(S)
      BY OnlyIsSequence
    <2>3. ToSet(Append(r, e)) = ToSet(r) \cup {e}
      BY ToSetAppend
    <2>4. ToSet(Append(Only(r, T), e)) = ToSet(Only(r, T)) \cup {e}
      BY <2>2, ToSetAppend
    <2>5. Only(Append(r, e), T) = IF e \in T THEN Append(Only(r, T), e) ELSE Only(r, T)
      BY OnlyAppend
    <2>6. ToSet(Only(r, T)) = ToSet(r) \cap T
      BY <1>2
    <2>7. ToSet(Only(Append(r, e), T)) = ToSet(Append(r, e)) \cap T
      BY <2>3, <2>4, <2>5, <2>6
    <2> QED
      BY <2>1, <2>7
  <1> HIDE DEF M
  <1>3. Seq(S) \subseteq M
    BY <1>1, <1>2, SequenceInduction
  <1> QED
    BY <1>3 DEF M

LEMMA AppendOfConcat ==
  ASSUME NEW S, NEW s \in Seq(S), NEW r \in Seq(S), NEW e \in S
  PROVE  s \o Append(r, e) = Append(s \o r, e)
  OBVIOUS

\* It takes the parts of a sequence one after the other.
LEMMA OnlyConcat ==
  ASSUME NEW S, NEW T, NEW s \in Seq(S), NEW r \in Seq(S)
  PROVE  Only(s \o r, T) = Only(s, T) \o Only(r, T)
  <1> DEFINE M == {q \in Seq(S) : Only(s \o q, T) = Only(s, T) \o Only(q, T)}
  <1>0. Only(s, T) \in Seq(S)
    BY OnlyIsSequence
  <1>1. <<>> \in M
    <2>1. <<>> \in Seq(S) /\ s \o <<>> = s
      OBVIOUS
    <2>2. Only(s, T) \o <<>> = Only(s, T)
      BY <1>0
    <2> QED
      BY <2>1, <2>2, OnlyEmpty
  <1>2. ASSUME NEW q \in Seq(S), NEW e \in S, q \in M
        PROVE  Append(q, e) \in M
    <2>1. Append(q, e) \in Seq(S) /\ s \o q \in Seq(S)
      OBVIOUS
    <2>2. s \o Append(q, e) = Append(s \o q, e)
      BY AppendOfConcat
    <2>3. Only(q, T) \in Seq(S)
      BY OnlyIsSequence
    <2>4. Only(s, T) \o Append(Only(q, T), e) = Append(Only(s, T) \o Only(q, T), e)
      BY <1>0, <2>3, AppendOfConcat
    <2>5. Only(Append(s \o q, e), T) =
            IF e \in T THEN Append(Only(s \o q, T), e) ELSE Only(s \o q, T)
      <3> DEFINE w == s \o q
      <3>1. w \in Seq(S)
        BY <2>1
      <3> HIDE DEF w
      <3>2. Only(Append(w, e), T) = IF e \in T THEN Append(Only(w, T), e) ELSE Only(w, T)
        BY <3>1, OnlyAppend
      <3> QED
        BY <3>2 DEF w
    <2>6. Only(Append(q, e), T) = IF e \in T THEN Append(Only(q, T), e) ELSE Only(q, T)
      BY OnlyAppend
    <2>7. Only(s \o q, T) = Only(s, T) \o Only(q, T)
      BY <1>2
    <2>8. Only(s \o Append(q, e), T) = Only(s, T) \o Only(Append(q, e), T)
      BY <2>2, <2>4, <2>5, <2>6, <2>7
    <2> QED
      BY <2>1, <2>8
  <1> HIDE DEF M
  <1>3. Seq(S) \subseteq M
    BY <1>1, <1>2, SequenceInduction
  <1> QED
    BY <1>3 DEF M

\* It needs not be done before a smaller set is taken.
LEMMA OnlyTwice ==
  ASSUME NEW S, NEW T, NEW U, T \subseteq U, NEW s \in Seq(S)
  PROVE  Only(Only(s, U), T) = Only(s, T)
  <1> DEFINE M == {q \in Seq(S) : Only(Only(q, U), T) = Only(q, T)}
  <1>1. <<>> \in M
    <2>1. <<>> \in Seq(S)
      OBVIOUS
    <2> QED
      BY <2>1, OnlyEmpty
  <1>2. ASSUME NEW q \in Seq(S), NEW e \in S, q \in M
        PROVE  Append(q, e) \in M
    <2>1. Append(q, e) \in Seq(S)
      OBVIOUS
    <2>2. Only(q, U) \in Seq(S)
      BY OnlyIsSequence
    <2>3. Only(Append(q, e), U) = IF e \in U THEN Append(Only(q, U), e) ELSE Only(q, U)
      BY OnlyAppend
    <2>4. Only(Append(q, e), T) = IF e \in T THEN Append(Only(q, T), e) ELSE Only(q, T)
      BY OnlyAppend
    <2>5. Only(Append(Only(q, U), e), T) =
            IF e \in T THEN Append(Only(Only(q, U), T), e) ELSE Only(Only(q, U), T)
      BY <2>2, OnlyAppend
    <2>6. Only(Only(q, U), T) = Only(q, T)
      BY <1>2
    <2>7. Only(Only(Append(q, e), U), T) = Only(Append(q, e), T)
      BY <2>3, <2>4, <2>5, <2>6
    <2> QED
      BY <2>1, <2>7
  <1> HIDE DEF M
  <1>3. Seq(S) \subseteq M
    BY <1>1, <1>2, SequenceInduction
  <1> QED
    BY <1>3 DEF M

\* Of a sequence without elements in the set nothing is left.
LEMMA OnlyNone ==
  ASSUME NEW S, NEW T, NEW s \in Seq(S), \A i \in DOMAIN s : s[i] \notin T
  PROVE  Only(s, T) = <<>>
  <1>1. ToSet(Only(s, T)) = {}
    BY OnlyElements DEF ToSet
  <1>2. Only(s, T) \in Seq(S)
    BY OnlyIsSequence
  <1>3. Len(Only(s, T)) = 0
    <2> SUFFICES ASSUME Len(Only(s, T)) # 0
                 PROVE  FALSE
      OBVIOUS
    <2>1. 1 \in DOMAIN Only(s, T)
      BY <1>2
    <2> QED
      BY <1>1, <2>1 DEF ToSet
  <1> QED
    BY <1>2, <1>3

\* Nothing happens to a sequence that is in the set.
LEMMA OnlyAll ==
  ASSUME NEW S, NEW T, S \subseteq T, NEW s \in Seq(S)
  PROVE  Only(s, T) = s
  <1> DEFINE M == {q \in Seq(S) : Only(q, T) = q}
  <1>1. <<>> \in M
    <2>1. <<>> \in Seq(S)
      OBVIOUS
    <2> QED
      BY <2>1, OnlyEmpty
  <1>2. ASSUME NEW q \in Seq(S), NEW e \in S, q \in M
        PROVE  Append(q, e) \in M
    <2>1. Append(q, e) \in Seq(S)
      OBVIOUS
    <2>2. Only(Append(q, e), T) = IF e \in T THEN Append(Only(q, T), e) ELSE Only(q, T)
      BY OnlyAppend
    <2> QED
      BY <1>2, <2>1, <2>2
  <1> HIDE DEF M
  <1>3. Seq(S) \subseteq M
    BY <1>1, <1>2, SequenceInduction
  <1> QED
    BY <1>3 DEF M

-----------------------------------------------------------------------------
(* Parts of a sequence *)

\* The elements of s before the m-th and those after the n-th.
IsWithout(r, s, m, n, S) ==
    /\ r \in Seq(S)
    /\ Len(r) = Len(s) - (n - m + 1)
    /\ \A i \in 1..(Len(s) - (n - m + 1)) : r[i] = IF i < m THEN s[i] ELSE s[i + (n - m + 1)]

\* What Without leaves: the elements before and those after the part.
LEMMA WithoutProperties ==
  ASSUME NEW S, NEW s \in Seq(S), NEW m \in Nat \ {0}, NEW n \in Nat, m - 1 <= n, n <= Len(s)
  PROVE  IsWithout(Without(s, m, n), s, m, n, S)
  <1> DEFINE p == SubSeq(s, 1, m - 1)
             q == SubSeq(s, n + 1, Len(s))
  <1>1. /\ p \in Seq(S) /\ Len(p) = m - 1
        /\ \A i \in 1..(m - 1) : p[i] = s[i]
    OBVIOUS
  <1>2. /\ q \in Seq(S) /\ Len(q) = Len(s) - n
        /\ \A i \in 1..(Len(s) - n) : q[i] = s[i + n]
    OBVIOUS
  <1> HIDE DEF p, q
  <1>3. /\ p \o q \in Seq(S) /\ Len(p \o q) = (m - 1) + (Len(s) - n)
        /\ \A i \in 1..((m - 1) + (Len(s) - n)) :
              (p \o q)[i] = IF i <= m - 1 THEN p[i] ELSE q[i - (m - 1)]
    BY <1>1, <1>2, ConcatProperties
  <1>4. (m - 1) + (Len(s) - n) = Len(s) - (n - m + 1) /\ Len(s) \in Nat
    OBVIOUS
  <1>5. ASSUME NEW i \in 1..(Len(s) - (n - m + 1))
        PROVE  (p \o q)[i] = IF i < m THEN s[i] ELSE s[i + (n - m + 1)]
    <2>1. CASE i < m
      BY <1>1, <1>3, <1>4, <2>1
    <2>2. CASE ~(i < m)
      <3>1. i - (m - 1) \in 1..(Len(s) - n) /\ (i - (m - 1)) + n = i + (n - m + 1) /\ ~(i <= m - 1)
        BY <1>4, <2>2
      <3> QED
        BY <1>2, <1>3, <1>4, <2>2, <3>1
    <2> QED
      BY <2>1, <2>2
  <1>6. Without(s, m, n) = p \o q
    BY DEF Without, p, q
  <1> QED
    BY <1>3, <1>4, <1>5, <1>6 DEF IsWithout

\* Only does not need a part without elements in the set.
LEMMA OnlyWithout ==
  ASSUME NEW S, NEW T, NEW s \in Seq(S), NEW m \in Nat \ {0}, NEW n \in Nat, m - 1 <= n,
         n <= Len(s), \A i \in m..n : s[i] \notin T
  PROVE  Only(Without(s, m, n), T) = Only(s, T)
  <1> DEFINE p == SubSeq(s, 1, m - 1)
             x == SubSeq(s, m, n)
             q == SubSeq(s, n + 1, Len(s))
  <1>1. p \in Seq(S) /\ q \in Seq(S) /\ x \in Seq(S)
    OBVIOUS
  <1>2. s = (p \o x) \o q
    <2>1. /\ 1 \in 1..(Len(s) + 1) /\ m - 1 \in (1 - 1)..Len(s) /\ n \in (m - 1)..Len(s)
          /\ n \in (1 - 1)..Len(s) /\ Len(s) \in n..Len(s)
      OBVIOUS
    <2>2. SubSeq(s, 1, m - 1) \o SubSeq(s, (m - 1) + 1, n) = SubSeq(s, 1, n)
      BY <2>1, ConcatAdjacentSubSeq
    <2>3. SubSeq(s, 1, n) \o SubSeq(s, n + 1, Len(s)) = SubSeq(s, 1, Len(s))
      BY <2>1, ConcatAdjacentSubSeq
    <2>4. (m - 1) + 1 = m /\ SubSeq(s, 1, Len(s)) = s
      BY SubSeqFull
    <2> QED
      BY <2>2, <2>3, <2>4
  <1>3. Only(x, T) = <<>>
    <2>1. \A i \in DOMAIN x : x[i] \notin T
      <3> SUFFICES ASSUME NEW i \in DOMAIN x
                   PROVE  x[i] \notin T
        OBVIOUS
      <3>1. i \in 1..(n - m + 1) /\ x[i] = s[m + i - 1]
        OBVIOUS
      <3>2. m + i - 1 \in m..n
        BY <3>1
      <3> QED
        BY <3>1, <3>2
    <2> HIDE DEF x
    <2> QED
      BY <1>1, <2>1, OnlyNone
  <1>4. Without(s, m, n) = p \o q
    BY DEF Without
  <1> HIDE DEF p, x, q
  <1>5. p \o x \in Seq(S)
    BY <1>1
  <1>6. Only(s, T) = (Only(p, T) \o Only(x, T)) \o Only(q, T)
    <2>1. Only(s, T) = Only(p \o x, T) \o Only(q, T)
      BY <1>1, <1>2, <1>5, OnlyConcat
    <2>2. Only(p \o x, T) = Only(p, T) \o Only(x, T)
      BY <1>1, OnlyConcat
    <2> QED
      BY <2>1, <2>2
  <1>7. Only(p, T) \in Seq(S)
    BY <1>1, OnlyIsSequence
  <1>8. Only(p, T) \o <<>> = Only(p, T)
    BY <1>7
  <1>9. Only(p \o q, T) = Only(p, T) \o Only(q, T)
    BY <1>1, OnlyConcat
  <1> QED
    BY <1>3, <1>4, <1>6, <1>8, <1>9

\* A set of numbers up to n has a greatest one.
LEMMA GreatestNumber ==
  ASSUME NEW n \in Nat, NEW S, S \subseteq 0..n, S # {}
  PROVE  \E x \in S : \A y \in S : y <= x
  <1> DEFINE R == {n - x : x \in S}
  <1>1. R \subseteq Nat /\ R # {}
    <2>1. \A x \in 0..n : n - x \in Nat
      OBVIOUS
    <2>2. \A x \in S : x \in 0..n
      OBVIOUS
    <2> QED
      BY <2>1, <2>2, Zenon
  <1>2. PICK r \in R : \A q \in R : r <= q
    <2> HIDE DEF R
    <2> QED
      BY <1>1, LeastNumber
  <1>3. PICK x \in S : r = n - x
    OBVIOUS
  <1>4. ASSUME NEW y \in S
        PROVE  y <= x
    <2>1. n - x <= n - y
      BY <1>2, <1>3
    <2>2. x \in 0..n /\ y \in 0..n
      BY <1>3
    <2> QED
      BY <2>1, <2>2
  <1> QED
    BY <1>3, <1>4

-----------------------------------------------------------------------------
(* Lines of programs *)

\* What is cut off begins with the first beginning of an attribute ...
LEMMA FirstOpenProperties ==
  ASSUME NEW s \in Seq(Tokens)
  PROVE  /\ FirstOpen(s) \in 1..(Len(s) + 1)
         /\ FirstOpen(s) <= Len(s) => s[FirstOpen(s)].kind = "open"
         /\ \A i \in 1..Len(s) : s[i].kind = "open" => FirstOpen(s) <= i
  <1> DEFINE at == {i \in DOMAIN s : s[i].kind = "open"}
             all == at \cup {Len(s) + 1}
             P(j) == \A i \in at : j <= i
  <1>1. Len(s) \in Nat /\ DOMAIN s = 1..Len(s)
    OBVIOUS
  <1>2. all \subseteq Nat /\ all # {} /\ at \subseteq all /\ at \subseteq 1..Len(s)
    BY <1>1
  <1>3. \E j \in all : \A i \in all : j <= i
    <2> HIDE DEF all
    <2> QED
      BY <1>2, LeastNumber
  <1>4. \E j \in all : P(j)
    <2> HIDE DEF all, at
    <2> QED
      BY <1>2, <1>3
  <1>5. FirstOpen(s) = CHOOSE j \in all : P(j)
    BY DEF FirstOpen
  <1>6. FirstOpen(s) \in all /\ P(FirstOpen(s))
    <2> HIDE DEF all, P
    <2> QED
      BY <1>4, <1>5
  <1> QED
    BY <1>1, <1>2, <1>6

\* ... or ends with the last two closing parentheses.
LEMMA LastParensProperties ==
  ASSUME NEW s \in Seq(Tokens)
  PROVE  /\ LastParens(s) \in 0..Len(s)
         /\ LastParens(s) > 0 => HasParens(s[LastParens(s)])
         /\ \A i \in 1..Len(s) : HasParens(s[i]) => i <= LastParens(s)
  <1> DEFINE at == {i \in DOMAIN s : HasParens(s[i])}
             all == at \cup {0}
             P(j) == \A i \in at : i <= j
  <1>1. Len(s) \in Nat /\ DOMAIN s = 1..Len(s)
    OBVIOUS
  <1>2. all \subseteq 0..Len(s) /\ all # {} /\ at \subseteq all /\ at \subseteq 1..Len(s)
    BY <1>1
  <1>3. \E j \in all : \A i \in all : i <= j
    <2> HIDE DEF all
    <2> QED
      BY <1>1, <1>2, GreatestNumber
  <1>4. \E j \in all : P(j)
    <2> HIDE DEF all, at
    <2> QED
      BY <1>2, <1>3
  <1>5. LastParens(s) = CHOOSE j \in all : P(j)
    BY DEF LastParens
  <1>6. LastParens(s) \in all /\ P(LastParens(s))
    <2> HIDE DEF all, P
    <2> QED
      BY <1>4, <1>5
  <1> QED
    BY <1>1, <1>2, <1>6

\* An attribute without parentheses inside changes nothing of what a line says.
LEMMA SimpleIsNothing ==
  ASSUME NEW c \in Contexts, NEW line \in Seq(Tokens), IsProgramLine(c, line)
  PROVE  LET rest == WithoutSimple(line)
         IN /\ rest \in Seq(Tokens)
            /\ IsProgramLine(c, rest)
            /\ ContextAfter(c, rest, Len(rest)) = ContextAfter(c, line, Len(line))
            /\ Only(rest, Items) = Only(line, Items)
            /\ \A i \in DOMAIN rest : rest[i].kind # "simple" /\ rest[i] \in ToSet(line)
  <1> DEFINE U == {token \in Tokens : token.kind # "simple"}
             Same(q) == ContextAfter(c, Only(q, U), Len(Only(q, U))) = ContextAfter(c, q, Len(q))
             M == {q \in Seq(Tokens) :
                    IsProgramLine(c, q) => IsProgramLine(c, Only(q, U)) /\ Same(q)}
  <1>1. <<>> \in M
    <2>1. <<>> \in Seq(Tokens)
      OBVIOUS
    <2> QED
      BY <2>1, OnlyEmpty
  <1>2. ASSUME NEW q \in Seq(Tokens), NEW e \in Tokens, q \in M
        PROVE  Append(q, e) \in M
    <2> DEFINE p == Append(q, e)
               o == Only(q, U)
    <2>1. /\ p \in Seq(Tokens) /\ Len(p) = Len(q) + 1 /\ Len(q) \in Nat
          /\ p[Len(q) + 1] = e /\ \A i \in 1..Len(q) : p[i] = q[i]
          /\ DOMAIN p = 1..Len(p) /\ DOMAIN q = 1..Len(q)
      OBVIOUS
    <2>2. o \in Seq(Tokens)
      BY OnlyIsSequence
    <2>3. Only(p, U) = IF e \in U THEN Append(o, e) ELSE o
      BY OnlyAppend
    <2> HIDE DEF p, o, U
    <2> SUFFICES ASSUME IsProgramLine(c, p)
                 PROVE  IsProgramLine(c, Only(p, U)) /\ Same(p)
      BY <2>1 DEF p
    <2>4. /\ IsProgramLine(c, q)
          /\ e.kind \in Allowed(ContextAfter(c, q, Len(q)))
      <3>1. \A i \in 1..Len(q) :
              /\ i \in 1..Len(p)
              /\ i - 1 = 0 \/ i - 1 \in 1..Len(q)
              /\ ContextAfter(c, p, i - 1) = ContextAfter(c, q, i - 1)
        BY <2>1 DEF ContextAfter
      <3>2. Len(q) + 1 \in 1..Len(p) /\ (Len(q) + 1) - 1 = Len(q)
        BY <2>1
      <3>3. ContextAfter(c, p, Len(q)) = ContextAfter(c, q, Len(q))
        BY <2>1 DEF ContextAfter
      <3> QED
        BY <2>1, <3>1, <3>2, <3>3 DEF IsProgramLine
    <2>5. IsProgramLine(c, o) /\ ContextAfter(c, o, Len(o)) = ContextAfter(c, q, Len(q))
      BY <1>2, <2>4 DEF o
    <2>6. CASE e \notin U
      <3>1. e.kind = "simple"
        BY <2>6 DEF U
      <3>2. ContextAfter(c, q, Len(q)) \in Contexts
        BY DEF ContextAfter, After, Contexts
      <3>3. ContextAfter(c, q, Len(q)) = "code"
        BY <2>4, <3>1, <3>2 DEF Contexts, Allowed
      <3>4. ContextAfter(c, p, Len(p)) = "code"
        BY <2>1, <3>1 DEF ContextAfter, After
      <3> QED
        BY <2>3, <2>5, <2>6, <3>3, <3>4 DEF o
    <2>7. CASE e \in U
      <3> DEFINE n == Append(o, e)
      <3>1. /\ n \in Seq(Tokens) /\ Len(n) = Len(o) + 1 /\ Len(o) \in Nat
            /\ n[Len(o) + 1] = e /\ \A i \in 1..Len(o) : n[i] = o[i]
            /\ DOMAIN n = 1..Len(n) /\ DOMAIN o = 1..Len(o)
        BY <2>2
      <3> HIDE DEF n
      <3>2. ContextAfter(c, n, Len(n)) = ContextAfter(c, p, Len(p))
        BY <2>1, <3>1 DEF ContextAfter
      <3>3. ASSUME NEW i \in 1..Len(n)
            PROVE  n[i].kind \in Allowed(ContextAfter(c, n, i - 1))
        <4>1. CASE i = Len(o) + 1
          <5>1. ContextAfter(c, n, i - 1) = ContextAfter(c, o, Len(o))
            BY <3>1, <4>1 DEF ContextAfter
          <5> QED
            BY <2>4, <2>5, <3>1, <4>1, <5>1
        <4>2. CASE i # Len(o) + 1
          <5>1. i \in 1..Len(o) /\ (i - 1 = 0 \/ i - 1 \in 1..Len(o))
            BY <3>1, <4>2
          <5>2. ContextAfter(c, n, i - 1) = ContextAfter(c, o, i - 1)
            BY <3>1, <5>1 DEF ContextAfter
          <5> QED
            BY <2>5, <3>1, <5>1, <5>2 DEF IsProgramLine
        <4> QED
          BY <4>1, <4>2
      <3>4. IsProgramLine(c, n)
        BY <3>1, <3>3 DEF IsProgramLine
      <3>5. Only(p, U) = n
        BY <2>3, <2>7 DEF n
      <3> QED
        BY <3>2, <3>4, <3>5
    <2> QED
      BY <2>6, <2>7
  <1> HIDE DEF M
  <1>3. Seq(Tokens) \subseteq M
    BY <1>1, <1>2, SequenceInduction
  <1>4. IsProgramLine(c, Only(line, U)) /\ Same(line)
    BY <1>3 DEF M
  <1>5. Items \subseteq U
    BY DEF Items, Tokens, ItemKinds
  <1>6. Only(line, U) \in Seq(Tokens)
    BY OnlyIsSequence
  <1>7. Only(Only(line, U), Items) = Only(line, Items)
    <2> HIDE DEF U
    <2> QED
      BY <1>5, OnlyTwice
  <1>8. ToSet(Only(line, U)) = ToSet(line) \cap U
    <2> HIDE DEF U
    <2> QED
      BY OnlyElements
  <1>9. \A i \in DOMAIN Only(line, U) : Only(line, U)[i] \in ToSet(line) \cap U
    BY <1>8 DEF ToSet
  <1>10. \A token \in U : token.kind # "simple"
    OBVIOUS
  <1>11. WithoutSimple(line) = Only(line, U)
    BY DEF WithoutSimple
  <1> HIDE DEF U
  <1> QED
    BY <1>4, <1>6, <1>7, <1>9, <1>10, <1>11

-----------------------------------------------------------------------------
(* Attributes *)

\* A line of items and pieces of attributes.
IsAttributeLine(c, s) ==
    /\ c \in Contexts
    /\ s \in Seq(Tokens)
    /\ IsProgramLine(c, s)
    /\ \A i \in DOMAIN s : s[i].kind \in ItemKinds \cup {"open", "close"}

\* Where an attribute begins it ends, in the same line or in the next one, and it ends only
\* where it began.
LEMMA Neighbours ==
  ASSUME NEW c, NEW s, IsAttributeLine(c, s), NEW i \in 1..Len(s)
  PROVE  /\ s[i].kind = "close" => \/ i = 1 /\ c = "attribute"
                                   \/ i - 1 \in 1..Len(s) /\ s[i - 1].kind = "open"
         /\ s[i].kind = "open" => i = Len(s) \/ (i + 1 \in 1..Len(s) /\ s[i + 1].kind = "close")
         /\ c = "attribute" /\ i = 1 => s[i].kind = "close"
  <1>1. DOMAIN s = 1..Len(s) /\ Len(s) \in Nat
    BY DEF IsAttributeLine
  <1>2. \A j \in 1..Len(s) : s[j].kind \in Allowed(ContextAfter(c, s, j - 1))
    BY <1>1 DEF IsAttributeLine, IsProgramLine
  <1>3. ASSUME s[i].kind = "close"
        PROVE  \/ i = 1 /\ c = "attribute"
               \/ i - 1 \in 1..Len(s) /\ s[i - 1].kind = "open"
    <2>1. "close" \in Allowed(ContextAfter(c, s, i - 1))
      BY <1>2, <1>3
    <2>2. ContextAfter(c, s, i - 1) \in Contexts
      BY DEF ContextAfter, After, Contexts, IsAttributeLine
    <2>3. ContextAfter(c, s, i - 1) = "attribute"
      BY <2>1, <2>2 DEF Contexts, Allowed, ItemKinds
    <2>4. CASE i = 1
      BY <2>3, <2>4 DEF ContextAfter
    <2>5. CASE i # 1
      <3>1. i - 1 \in 1..Len(s) /\ i - 1 # 0
        BY <1>1, <2>5
      <3>2. After(s[i - 1]) = "attribute"
        BY <2>3, <3>1 DEF ContextAfter
      <3> QED
        BY <3>1, <3>2 DEF After
    <2> QED
      BY <2>4, <2>5
  <1>4. ASSUME s[i].kind = "open", i # Len(s)
        PROVE  i + 1 \in 1..Len(s) /\ s[i + 1].kind = "close"
    <2>1. i + 1 \in 1..Len(s) /\ (i + 1) - 1 = i /\ i # 0
      BY <1>1, <1>4
    <2>2. ContextAfter(c, s, (i + 1) - 1) = "attribute"
      BY <1>4, <2>1 DEF ContextAfter, After
    <2> QED
      BY <1>2, <2>1, <2>2 DEF Allowed
  <1>5. ASSUME c = "attribute", i = 1
        PROVE  s[i].kind = "close"
    <2>1. ContextAfter(c, s, i - 1) = "attribute"
      BY <1>5 DEF ContextAfter
    <2> QED
      BY <1>2, <2>1 DEF Allowed
  <1> QED
    BY <1>3, <1>4, <1>5

\* WithoutAttributes and Ambiguous are about the line without the simple attributes.
WithoutLongest(rest) ==
    IF FirstOpen(rest) < LastParens(rest)
    THEN Without(rest, FirstOpen(rest), LastParens(rest)) ELSE rest

IsAmbiguous(rest) ==
    \E i, j \in DOMAIN rest :
        /\ i <= j
        /\ IsItem(rest[i])
        /\ HasParens(rest[j])
        /\ \E h \in 1..(i - 1) : rest[h].kind \in {"open", "close"}

LEMMA SimpleGoesFirst ==
  ASSUME NEW line
  PROVE  /\ WithoutAttributes(line) = WithoutLongest(WithoutSimple(line))
         /\ Ambiguous(line) = IsAmbiguous(WithoutSimple(line))
  BY DEF WithoutAttributes, WithoutLongest, Ambiguous, IsAmbiguous

\* Of k tokens less, those before the first beginning of an attribute stay where they are,
\* and those after the last two closing parentheses follow.
LEMMA LongestIsGone ==
  ASSUME NEW s \in Seq(Tokens)
  PROVE  \E k \in Nat :
           LET rest == WithoutLongest(s)
           IN /\ rest \in Seq(Tokens) /\ Len(rest) = Len(s) - k
              /\ k = 0 \/ Len(rest) - (FirstOpen(s) - 1) = Len(s) - LastParens(s)
              /\ FirstOpen(s) - 1 <= Len(rest)
              /\ \A i \in 1..Len(rest) :
                   /\ i < FirstOpen(s) => rest[i] = s[i]
                   /\ i >= FirstOpen(s) => /\ i + k > LastParens(s)
                                           /\ i + k \in 1..Len(s)
                                           /\ rest[i] = s[i + k]
  <1> DEFINE a == FirstOpen(s)
             b == LastParens(s)
             rest == WithoutLongest(s)
  <1>1. a \in 1..(Len(s) + 1) /\ b \in 0..Len(s) /\ Len(s) \in Nat
    BY FirstOpenProperties, LastParensProperties
  <1>2. CASE a < b
    <2>1. rest = Without(s, a, b)
      BY <1>2 DEF WithoutLongest
    <2>2. a \in Nat \ {0} /\ b \in Nat /\ a - 1 <= b /\ b <= Len(s)
      BY <1>1, <1>2
    <2> HIDE DEF a, b, rest
    <2>3. /\ rest \in Seq(Tokens) /\ Len(rest) = Len(s) - (b - a + 1)
          /\ \A i \in 1..(Len(s) - (b - a + 1)) :
                rest[i] = IF i < a THEN s[i] ELSE s[i + (b - a + 1)]
      <3>1. IsWithout(rest, s, a, b, Tokens)
        BY <2>1, <2>2, WithoutProperties
      <3> QED
        BY <3>1 DEF IsWithout
    <2> DEFINE k == b - a + 1
    <2>4. k \in Nat /\ Len(rest) = Len(s) - k /\ Len(rest) - (a - 1) = Len(s) - b
          /\ a - 1 <= Len(rest)
      BY <1>1, <1>2, <2>3
    <2>5. \A i \in 1..Len(rest) :
            /\ i < a => rest[i] = s[i]
            /\ i >= a => i + k > b /\ i + k \in 1..Len(s) /\ rest[i] = s[i + k]
      <3> SUFFICES ASSUME NEW i \in 1..Len(rest)
                   PROVE  /\ i < a => rest[i] = s[i]
                          /\ i >= a => i + k > b /\ i + k \in 1..Len(s) /\ rest[i] = s[i + k]
        OBVIOUS
      <3>1. rest[i] = IF i < a THEN s[i] ELSE s[i + k]
        BY <2>3
      <3>2. k = b - a + 1
        OBVIOUS
      <3> HIDE DEF k
      <3>3. i \in Nat /\ 1 <= i /\ i <= Len(s) - k
        BY <1>1, <2>4
      <3>4. i >= a => i + k > b /\ i + k \in 1..Len(s)
        BY <1>1, <2>2, <2>4, <3>2, <3>3
      <3>5. i >= a => ~(i < a)
        BY <1>1, <3>3
      <3> QED
        BY <3>1, <3>4, <3>5
    <2> HIDE DEF k
    <2> QED
      BY <2>3, <2>4, <2>5 DEF a, b, rest
  <1>3. CASE ~(a < b)
    <2>1. rest = s
      BY <1>3 DEF WithoutLongest
    <2>2. a # b
      <3> SUFFICES ASSUME a = b
                   PROVE  FALSE
        OBVIOUS
      <3>1. a <= Len(s) /\ b > 0
        BY <1>1
      <3>2. s[a].kind = "open" /\ HasParens(s[b])
        BY <3>1, FirstOpenProperties, LastParensProperties
      <3> QED
        BY <3>2 DEF HasParens
    <2> HIDE DEF a, b, rest
    <2> DEFINE k == 0
    <2>3. k \in Nat /\ Len(rest) = Len(s) - k /\ a - 1 <= Len(rest)
      BY <1>1, <2>1
    <2>4. \A i \in 1..Len(rest) :
            /\ i < a => rest[i] = s[i]
            /\ i >= a => i + k > b /\ i + k \in 1..Len(s) /\ rest[i] = s[i + k]
      BY <1>1, <1>3, <2>1, <2>2
    <2>5. k = 0
      OBVIOUS
    <2> HIDE DEF k
    <2>6. rest \in Seq(Tokens)
      BY <2>1
    <2> QED
      BY <2>3, <2>4, <2>5, <2>6 DEF a, b, rest
  <1> QED
    BY <1>2, <1>3

\* What is left of attributes is one that goes on in the next line and one that began in
\* the line before.
LEMMA PiecesAreLeft ==
  ASSUME NEW c, NEW s, IsAttributeLine(c, s)
  PROVE  LET rest == WithoutLongest(s)
         IN /\ rest \in Seq(Tokens)
            /\ \A i \in DOMAIN rest : rest[i] \in ToSet(s)
            /\ \A i \in DOMAIN rest : rest[i].kind = "open" => i = Len(rest)
            /\ \A i \in DOMAIN rest : rest[i].kind = "close" => i = 1 /\ c = "attribute"
            /\ OpensAttribute(rest) <=> s # <<>> /\ ContextAfter(c, s, Len(s)) = "attribute"
            /\ ~IsAmbiguous(s) => Only(rest, Items) = Only(s, Items)
            /\ \A i \in 1..LastParens(rest) :
                 c = "attribute" /\ IsItem(rest[i]) => IsAmbiguous(s)
  <1> DEFINE a == FirstOpen(s)
             b == LastParens(s)
             rest == WithoutLongest(s)
  <1>1. s \in Seq(Tokens) /\ Len(s) \in Nat /\ DOMAIN s = 1..Len(s)
    BY DEF IsAttributeLine
  <1>2. PICK k \in Nat :
           /\ rest \in Seq(Tokens) /\ Len(rest) = Len(s) - k
           /\ k = 0 \/ Len(rest) - (a - 1) = Len(s) - b
           /\ a - 1 <= Len(rest)
           /\ \A i \in 1..Len(rest) :
                /\ i < a => rest[i] = s[i]
                /\ i >= a => i + k > b /\ i + k \in 1..Len(s) /\ rest[i] = s[i + k]
    BY <1>1, LongestIsGone
  <1>3. /\ a \in 1..(Len(s) + 1)
        /\ a <= Len(s) => s[a].kind = "open"
        /\ \A i \in 1..Len(s) : s[i].kind = "open" => a <= i
    BY <1>1, FirstOpenProperties
  <1>4. /\ b \in 0..Len(s)
        /\ b > 0 => HasParens(s[b])
        /\ \A i \in 1..Len(s) : HasParens(s[i]) => i <= b
    BY <1>1, LastParensProperties
  <1>5. /\ FirstOpen(rest) \in 1..(Len(rest) + 1)
        /\ FirstOpen(rest) <= Len(rest) => rest[FirstOpen(rest)].kind = "open"
        /\ \A i \in 1..Len(rest) : rest[i].kind = "open" => FirstOpen(rest) <= i
    BY <1>2, FirstOpenProperties
  <1>6. /\ LastParens(rest) \in 0..Len(rest)
        /\ LastParens(rest) > 0 => HasParens(rest[LastParens(rest)])
    BY <1>2, LastParensProperties
  <1>7. Len(rest) \in Nat /\ DOMAIN rest = 1..Len(rest)
    BY <1>2
  <1>8. WithoutLongest(s) = IF a < b THEN Without(s, a, b) ELSE s
    BY DEF WithoutLongest
  <1> HIDE DEF a, b, rest
  <1>9. ASSUME NEW i \in 1..Len(rest)
        PROVE  rest[i] \in ToSet(s)
    <2>1. CASE i < a
      <3>1. i \in 1..Len(s) /\ rest[i] = s[i]
        BY <1>1, <1>2, <1>3, <2>1
      <3> QED
        BY <1>1, <3>1 DEF ToSet
    <2>2. CASE ~(i < a)
      <3>1. i + k \in 1..Len(s) /\ rest[i] = s[i + k]
        BY <1>2, <1>3, <2>2
      <3> QED
        BY <1>1, <3>1 DEF ToSet
    <2> QED
      BY <2>1, <2>2
  <1>10. ASSUME NEW i \in 1..Len(rest), rest[i].kind = "open"
         PROVE  i = Len(rest) /\ s # <<>> /\ s[Len(s)].kind = "open"
    <2>1. ~(i < a)
      BY <1>1, <1>2, <1>3, <1>10
    <2>2. i + k > b /\ i + k \in 1..Len(s) /\ rest[i] = s[i + k]
      BY <1>2, <1>3, <2>1
    <2>3. \/ i + k = Len(s)
          \/ (i + k) + 1 \in 1..Len(s) /\ s[(i + k) + 1].kind = "close"
      BY <1>10, <2>2, Neighbours
    <2>4. ~((i + k) + 1 \in 1..Len(s) /\ s[(i + k) + 1].kind = "close")
      <3> SUFFICES ASSUME (i + k) + 1 \in 1..Len(s), s[(i + k) + 1].kind = "close"
                   PROVE  FALSE
        OBVIOUS
      <3>1. (i + k) + 1 <= b
        BY <1>4 DEF HasParens
      <3> QED
        BY <1>4, <2>2, <3>1
    <2>5. i + k = Len(s)
      BY <2>3, <2>4
    <2>6. s # <<>>
      BY <1>1, <2>2
    <2>7. i = Len(rest)
      <3>1. Len(rest) = Len(s) - k
        BY <1>2
      <3>2. Len(s) \in Nat /\ i \in Int /\ k \in Int
        BY <1>1
      <3> QED
        BY <2>5, <3>1, <3>2
    <2>8. s[Len(s)].kind = "open"
      BY <1>10, <2>2, <2>5
    <2> QED
      BY <2>6, <2>7, <2>8
  <1>11. ASSUME NEW i \in 1..Len(rest), HasParens(rest[i])
         PROVE  i < a /\ i \in 1..Len(s) /\ rest[i] = s[i]
    <2>1. CASE ~(i < a)
      <3>1. i + k > b /\ i + k \in 1..Len(s) /\ HasParens(s[i + k])
        BY <1>2, <1>3, <1>11, <2>1
      <3>2. i + k <= b
        BY <1>4, <3>1
      <3> QED
        BY <1>4, <3>1, <3>2
    <2>2. CASE i < a
      BY <1>1, <1>2, <1>3, <2>2
    <2> QED
      BY <2>1, <2>2
  <1>12. ASSUME NEW i \in 1..Len(rest), rest[i].kind = "close"
         PROVE  i = 1 /\ c = "attribute"
    <2>1. i < a /\ i \in 1..Len(s) /\ s[i].kind = "close"
      BY <1>11, <1>12 DEF HasParens
    <2>2. \/ i = 1 /\ c = "attribute"
          \/ i - 1 \in 1..Len(s) /\ s[i - 1].kind = "open"
      BY <2>1, Neighbours
    <2>3. ~(i - 1 \in 1..Len(s) /\ s[i - 1].kind = "open")
      BY <1>3, <2>1
    <2> QED
      BY <2>2, <2>3
  <1>13. ASSUME s # <<>>, s[Len(s)].kind = "open"
         PROVE  OpensAttribute(rest)
    <2>1. Len(s) \in 1..Len(s)
      BY <1>1, <1>13
    <2>2. a <= Len(s) /\ ~HasParens(s[Len(s)])
      BY <1>3, <1>13, <2>1 DEF HasParens
    <2>3. b < Len(s)
      BY <1>1, <1>4, <2>1, <2>2
    <2>4. Len(rest) >= a /\ Len(rest) \in 1..Len(rest)
      BY <1>1, <1>2, <1>3, <1>4, <1>7, <2>2, <2>3
    <2>5. rest[Len(rest)] = s[Len(rest) + k] /\ Len(rest) + k = Len(s)
      BY <1>1, <1>2, <2>4
    <2>6. FirstOpen(rest) <= Len(rest)
      BY <1>5, <1>13, <2>4, <2>5
    <2> QED
      BY <2>6 DEF OpensAttribute
  <1>14. ASSUME OpensAttribute(rest)
         PROVE  s # <<>> /\ s[Len(s)].kind = "open"
    <2>1. FirstOpen(rest) \in 1..Len(rest) /\ rest[FirstOpen(rest)].kind = "open"
      BY <1>5, <1>7, <1>14 DEF OpensAttribute
    <2> QED
      BY <1>10, <2>1
  <1>15. s # <<>> => (ContextAfter(c, s, Len(s)) = "attribute" <=> s[Len(s)].kind = "open")
    <2> SUFFICES ASSUME s # <<>>
                 PROVE  ContextAfter(c, s, Len(s)) = "attribute" <=> s[Len(s)].kind = "open"
      OBVIOUS
    <2>1. Len(s) # 0
      BY <1>1
    <2> QED
      BY <2>1 DEF ContextAfter, After
  <1>16. ASSUME ~IsAmbiguous(s)
         PROVE  Only(rest, Items) = Only(s, Items)
    <2>1. CASE a < b
      <3>1. a <= Len(s) /\ b \in 1..Len(s) /\ b > 0 /\ a \in Nat \ {0} /\ b \in Nat
            /\ a - 1 <= b /\ b <= Len(s)
        BY <1>1, <1>3, <1>4, <2>1
      <3>2. ASSUME NEW i \in a..b
            PROVE  s[i] \notin Items
        <4> SUFFICES ASSUME s[i] \in Items
                     PROVE  FALSE
          OBVIOUS
        <4>1. i \in 1..Len(s) /\ i <= b
          BY <1>1, <1>3, <3>1
        <4>2. s[a].kind = "open" /\ HasParens(s[b])
          BY <1>3, <1>4, <3>1
        <4>3. s[i].kind \in ItemKinds /\ IsItem(s[i])
          BY DEF Items, IsItem
        <4>4. i # a
          BY <4>2, <4>3 DEF ItemKinds
        <4>5. a \in 1..(i - 1)
          BY <1>3, <3>1, <4>1, <4>4
        <4>6. IsAmbiguous(s)
          BY <1>1, <3>1, <4>1, <4>2, <4>3, <4>5 DEF IsAmbiguous
        <4> QED
          BY <1>16, <4>6
      <3>3. Only(Without(s, a, b), Items) = Only(s, Items)
        BY <1>1, <3>1, <3>2, OnlyWithout
      <3> QED
        BY <1>8, <2>1, <3>3 DEF rest
    <2>2. CASE ~(a < b)
      BY <1>8, <2>2 DEF rest
    <2> QED
      BY <2>1, <2>2
  <1>17. ASSUME NEW i \in 1..LastParens(rest), c = "attribute", IsItem(rest[i])
         PROVE  IsAmbiguous(s)
    <2> DEFINE l == LastParens(rest)
    <2>1. l \in 1..Len(rest) /\ HasParens(rest[l])
      BY <1>6, <1>7
    <2>2. l < a /\ l \in 1..Len(s) /\ HasParens(s[l])
      BY <1>11, <2>1
    <2>3. i \in 1..Len(s) /\ i <= l /\ rest[i] = s[i] /\ i \in 1..Len(rest)
      BY <1>1, <1>2, <1>3, <2>1, <2>2
    <2>4. 1 \in 1..Len(s)
      BY <1>1, <2>3
    <2>5. s[1].kind = "close"
      BY <1>17, <2>4, Neighbours
    <2>6. i # 1
      BY <1>17, <2>3, <2>5 DEF IsItem, ItemKinds
    <2>7. 1 \in 1..(i - 1)
      BY <2>3, <2>6
    <2> QED
      BY <1>1, <1>17, <2>2, <2>3, <2>5, <2>7 DEF IsAmbiguous
  <1>18. OpensAttribute(rest) <=> s # <<>> /\ ContextAfter(c, s, Len(s)) = "attribute"
    BY <1>13, <1>14, <1>15
  <1> QED
    BY <1>2, <1>7, <1>9, <1>10, <1>12, <1>16, <1>17, <1>18 DEF rest

-----------------------------------------------------------------------------
(* One line *)

\* What AfterAttribute leaves of a line of items and attributes: every item, unless it is
\* ambiguous, and no piece of an attribute, unless it began and ended in one.
LEMMA AttributeLineAfter ==
  ASSUME context \in Contexts, in_attribute \in BOOLEAN, in_attribute => context = "attribute",
         NEW line \in Seq(Tokens), IsProgramLine(context, line),
         \A i \in DOMAIN line : line[i].kind \notin FullLines
  PROVE  LET rest   == WithoutAttributes(line)
             left   == AfterAttribute(rest)
             follow == ContextAfter(context, line, Len(line))
         IN /\ left \in Seq(Tokens)
            /\ \A i \in DOMAIN left : left[i].kind \in ItemKinds \cup {"open", "close"}
            /\ OpensAttribute(rest) => follow = "attribute"
            /\ follow = "attribute" /\ context # "attribute" => OpensAttribute(rest)
            /\ ~Ambiguous(line) => Only(left, Items) = Only(line, Items)
            /\ (/\ context = "attribute" => in_attribute
                /\ ~(context = "attribute" /\ follow = "attribute")) =>
                 \A i \in DOMAIN left : left[i].kind \notin {"open", "close"}
  <1> DEFINE s == WithoutSimple(line)
             rest == WithoutAttributes(line)
             left == AfterAttribute(rest)
             follow == ContextAfter(context, line, Len(line))
  <1>1. /\ s \in Seq(Tokens)
        /\ IsProgramLine(context, s)
        /\ ContextAfter(context, s, Len(s)) = follow
        /\ Only(s, Items) = Only(line, Items)
        /\ \A i \in DOMAIN s : s[i].kind # "simple" /\ s[i] \in ToSet(line)
    BY SimpleIsNothing
  <1>2. rest = WithoutLongest(s) /\ Ambiguous(line) = IsAmbiguous(s)
    BY SimpleGoesFirst
  <1>3. IsAttributeLine(context, s)
    <2>1. \A token \in ToSet(line) : token \in Tokens /\ token.kind \notin FullLines
      BY DEF ToSet
    <2>2. \A token \in Tokens : token.kind \in ItemKinds \cup Marks
      BY DEF Tokens
    <2>3. \A kind \in ItemKinds \cup Marks : kind \notin FullLines /\ kind # "simple" =>
            kind \in ItemKinds \cup {"open", "close"}
      BY DEF Marks, FullLines
    <2>4. \A i \in DOMAIN s : s[i].kind \in ItemKinds \cup {"open", "close"}
      BY <1>1, <2>1, <2>2, <2>3
    <2> QED
      BY <1>1, <2>4 DEF IsAttributeLine
  <1> HIDE DEF s, rest, left, follow
  <1>4. /\ rest \in Seq(Tokens)
        /\ \A i \in DOMAIN rest : rest[i] \in ToSet(s)
        /\ \A i \in DOMAIN rest : rest[i].kind = "open" => i = Len(rest)
        /\ \A i \in DOMAIN rest : rest[i].kind = "close" => i = 1 /\ context = "attribute"
        /\ OpensAttribute(rest) <=> s # <<>> /\ follow = "attribute"
        /\ ~Ambiguous(line) => Only(rest, Items) = Only(line, Items)
        /\ \A i \in 1..LastParens(rest) :
             context = "attribute" /\ IsItem(rest[i]) => Ambiguous(line)
    <2>1. LET w == WithoutLongest(s)
          IN /\ w \in Seq(Tokens)
             /\ \A i \in DOMAIN w : w[i] \in ToSet(s)
             /\ \A i \in DOMAIN w : w[i].kind = "open" => i = Len(w)
             /\ \A i \in DOMAIN w : w[i].kind = "close" => i = 1 /\ context = "attribute"
             /\ OpensAttribute(w) <=> s # <<>> /\ ContextAfter(context, s, Len(s)) = "attribute"
             /\ ~IsAmbiguous(s) => Only(w, Items) = Only(s, Items)
             /\ \A i \in 1..LastParens(w) :
                  context = "attribute" /\ IsItem(w[i]) => IsAmbiguous(s)
      BY <1>3, PiecesAreLeft
    <2> QED
      BY <1>1, <1>2, <2>1
  <1>5. \A i \in DOMAIN rest : rest[i].kind \in ItemKinds \cup {"open", "close"}
    BY <1>3, <1>4 DEF IsAttributeLine, ToSet
  <1>6. follow = "attribute" /\ context # "attribute" => OpensAttribute(rest)
    <2>1. s = <<>> => ContextAfter(context, s, Len(s)) = context
      BY DEF ContextAfter
    <2> QED
      BY <1>1, <1>4, <2>1
  <1>7. DOMAIN rest = 1..Len(rest) /\ Len(rest) \in Nat
    BY <1>4
  <1>8. /\ FirstOpen(rest) \in 1..(Len(rest) + 1)
        /\ FirstOpen(rest) <= Len(rest) => rest[FirstOpen(rest)].kind = "open"
        /\ \A i \in 1..Len(rest) : rest[i].kind = "open" => FirstOpen(rest) <= i
    BY <1>4, FirstOpenProperties
  <1>9. /\ LastParens(rest) \in 0..Len(rest)
        /\ \A i \in 1..Len(rest) : HasParens(rest[i]) => i <= LastParens(rest)
    BY <1>4, LastParensProperties
  <1> DEFINE Good == /\ left \in Seq(Tokens)
                     /\ \A i \in DOMAIN left : left[i].kind \in ItemKinds \cup {"open", "close"}
                     /\ ~Ambiguous(line) => Only(left, Items) = Only(line, Items)
                     /\ (/\ context = "attribute" => in_attribute
                         /\ ~(context = "attribute" /\ follow = "attribute")) =>
                          \A i \in DOMAIN left : left[i].kind \notin {"open", "close"}
  <1> SUFFICES Good
    BY <1>4, <1>6 DEF rest, left, follow
  <1>10. CASE OpensAttribute(rest)
    <2> DEFINE a == FirstOpen(rest)
    <2>1. a \in 1..Len(rest) /\ rest[a].kind = "open" /\ a = Len(rest)
      BY <1>4, <1>7, <1>8, <1>10 DEF OpensAttribute
    <2>2. left = SubSeq(rest, 1, a - 1)
      BY <1>10 DEF left, AfterAttribute
    <2>3. /\ left \in Seq(Tokens) /\ DOMAIN left = 1..(a - 1)
          /\ \A i \in 1..(a - 1) : left[i] = rest[i] /\ i \in DOMAIN rest /\ i < a
      <3> HIDE DEF a
      <3>1. a - 1 <= Len(rest) /\ a - 1 \in Nat
        BY <1>7, <2>1
      <3> QED
        BY <1>4, <1>7, <2>1, <2>2, <3>1
    <2>4. Only(left, Items) = Only(rest, Items)
      <3>1. a \in Nat \ {0} /\ Len(rest) \in Nat /\ a - 1 <= Len(rest) /\ Len(rest) <= Len(rest)
        BY <1>7, <2>1
      <3>2. \A i \in a..Len(rest) : rest[i] \notin Items
        <4>1. \A i \in a..Len(rest) : i = a
          <5> DEFINE n == Len(rest)
          <5>1. a = n /\ n \in Nat
            BY <1>7, <2>1
          <5> HIDE DEF a, n
          <5>2. \A i \in n..n : i = n
            BY <5>1
          <5> QED
            BY <5>1, <5>2 DEF n
        <4> QED
          BY <2>1, <4>1 DEF Items, ItemKinds
      <3>3. Only(Without(rest, a, Len(rest)), Items) = Only(rest, Items)
        <4> HIDE DEF a
        <4> QED
          BY <1>4, <3>1, <3>2, OnlyWithout
      <3>4. Without(rest, a, Len(rest)) = left
        <4>1. SubSeq(rest, Len(rest) + 1, Len(rest)) = <<>>
          BY <1>4, <1>7
        <4>2. left \o <<>> = left
          BY <2>3
        <4> QED
          BY <2>2, <4>1, <4>2 DEF Without
      <3> QED
        BY <3>3, <3>4
    <2>5. ~(context = "attribute" /\ follow = "attribute") =>
            \A i \in DOMAIN left : left[i].kind \notin {"open", "close"}
      BY <1>4, <1>7, <1>8, <1>10, <2>3
    <2>6. \A i \in DOMAIN left : left[i].kind \in ItemKinds \cup {"open", "close"}
      BY <1>5, <2>3
    <2> QED
      BY <1>4, <2>3, <2>4, <2>5, <2>6
  <1>11. CASE ~OpensAttribute(rest) /\ in_attribute
    <2> DEFINE b == LastParens(rest)
    <2>1. left = Without(rest, 1, b)
      BY <1>11 DEF left, AfterAttribute
    <2>2. 1 \in Nat \ {0} /\ b \in Nat /\ 1 - 1 <= b /\ b <= Len(rest)
      BY <1>7, <1>9
    <2>3. /\ left \in Seq(Tokens) /\ Len(left) = Len(rest) - b
          /\ \A i \in 1..(Len(rest) - b) : left[i] = rest[i + b]
      <3> HIDE DEF b
      <3>1. IsWithout(left, rest, 1, b, Tokens)
        BY <1>4, <2>1, <2>2, WithoutProperties
      <3>2. b - 1 + 1 = b
        BY <2>2
      <3>3. \A i \in 1..(Len(rest) - b) : ~(i < 1)
        OBVIOUS
      <3> QED
        BY <3>1, <3>2, <3>3 DEF IsWithout
    <2>4. \A i \in DOMAIN left : left[i] = rest[i + b] /\ i + b \in 1..Len(rest) /\ i + b > b
      <3>1. DOMAIN left = 1..(Len(rest) - b)
        BY <2>3
      <3>2. Len(rest) \in Nat
        BY <1>7
      <3> HIDE DEF b
      <3>3. \A i \in 1..(Len(rest) - b) : i + b \in 1..Len(rest) /\ i + b > b
        BY <2>2, <3>2
      <3> QED
        BY <2>3, <3>1, <3>3
    <2>5. ~Ambiguous(line) => Only(left, Items) = Only(rest, Items)
      <3> SUFFICES ASSUME ~Ambiguous(line)
                   PROVE  Only(left, Items) = Only(rest, Items)
        OBVIOUS
      <3>1. \A i \in 1..b : rest[i] \notin Items
        <4>1. \A i \in 1..b : ~IsItem(rest[i])
          BY <1>4, <1>11
        <4> QED
          BY <4>1 DEF IsItem, Items
      <3>2. Only(Without(rest, 1, b), Items) = Only(rest, Items)
        <4> HIDE DEF b
        <4> QED
          BY <1>4, <2>2, <3>1, OnlyWithout
      <3> QED
        BY <2>1, <3>2
    <2>6. \A i \in DOMAIN left : left[i].kind \notin {"open", "close"}
      <3>1. \A i \in 1..Len(rest) : rest[i].kind # "open"
        BY <1>7, <1>8, <1>11 DEF OpensAttribute
      <3>2. \A i \in 1..Len(rest) : rest[i].kind = "close" => i <= b
        BY <1>9 DEF HasParens
      <3>3. \A i \in 1..Len(rest) : i > b => ~(i <= b)
        BY <2>2
      <3> QED
        BY <2>4, <3>1, <3>2, <3>3
    <2>7. \A i \in DOMAIN left : left[i].kind \in ItemKinds \cup {"open", "close"}
      BY <1>5, <1>7, <2>4
    <2> QED
      BY <1>4, <2>3, <2>5, <2>6, <2>7
  <1>12. CASE ~OpensAttribute(rest) /\ ~in_attribute
    <2>1. left = rest
      BY <1>12 DEF left, AfterAttribute
    <2>2. \A i \in 1..Len(rest) : rest[i].kind # "open"
      BY <1>7, <1>8, <1>12 DEF OpensAttribute
    <2> QED
      BY <1>4, <1>5, <1>7, <1>12, <2>1, <2>2
  <1> HIDE DEF Good
  <1> QED
    BY <1>10, <1>11, <1>12

\* Nothing is removed from a line in which nothing looks like a piece of an attribute.
LEMMA NothingIsRemoved ==
  ASSUME in_attribute \in BOOLEAN, NEW s \in Seq(Tokens),
         \A i \in DOMAIN s : s[i].kind \notin {"simple", "open"} /\ ~HasParens(s[i])
  PROVE  /\ WithoutAttributes(s) = s
         /\ AfterAttribute(s) = s
         /\ OpensAttribute(s) = FALSE
  <1> DEFINE U == {token \in Tokens : token.kind # "simple"}
  <1>1. Len(s) \in Nat /\ DOMAIN s = 1..Len(s)
    OBVIOUS
  <1>2. WithoutSimple(s) = s
    <2>1. s \in Seq(U)
      <3>1. \A i \in DOMAIN s : s[i] \in U
        OBVIOUS
      <3> HIDE DEF U
      <3> QED
        BY <1>1, <3>1
    <2>2. Only(s, U) = s
      <3> HIDE DEF U
      <3> QED
        BY <2>1, OnlyAll
    <2> QED
      BY <2>2 DEF WithoutSimple
  <1>3. FirstOpen(s) = Len(s) + 1
    <2>1. FirstOpen(s) \in 1..Len(s) => s[FirstOpen(s)].kind = "open"
      BY <1>1, FirstOpenProperties
    <2>2. ~(FirstOpen(s) \in 1..Len(s))
      BY <1>1, <2>1
    <2>3. FirstOpen(s) \in 1..(Len(s) + 1)
      BY FirstOpenProperties
    <2> QED
      BY <1>1, <2>2, <2>3
  <1>4. LastParens(s) = 0
    <2>1. LastParens(s) \in 1..Len(s) => HasParens(s[LastParens(s)])
      BY <1>1, LastParensProperties
    <2>2. ~(LastParens(s) \in 1..Len(s))
      BY <1>1, <2>1
    <2>3. LastParens(s) \in 0..Len(s)
      BY LastParensProperties
    <2> QED
      BY <1>1, <2>2, <2>3
  <1>5. WithoutAttributes(s) = s
    <2>1. ~(FirstOpen(s) < LastParens(s))
      BY <1>1, <1>3, <1>4
    <2> QED
      BY <1>2, <2>1, SimpleGoesFirst DEF WithoutLongest
  <1>6. OpensAttribute(s) = FALSE
    BY <1>1, <1>3 DEF OpensAttribute
  <1>7. Without(s, 1, 0) = s
    <2>1. SubSeq(s, 1, 1 - 1) = <<>>
      OBVIOUS
    <2>2. SubSeq(s, 0 + 1, Len(s)) = s
      BY SubSeqFull
    <2>3. <<>> \o s = s
      OBVIOUS
    <2> QED
      BY <2>1, <2>2, <2>3 DEF Without
  <1>8. AfterAttribute(s) = s
    BY <1>4, <1>6, <1>7 DEF AfterAttribute
  <1> QED
    BY <1>5, <1>6, <1>8

\* What a line does to the flags and adds to prepared_content.
IsOutcome(out, line) ==
    /\ out \in Seq(Tokens)
    /\ prepared_content' = prepared_content \o out
    /\ \A i \in DOMAIN out : out[i].kind \notin {"simple", "asm", "asm_open", "asm_close"}
    /\ ~Ambiguous(line) => Only(out, Items) = Only(line, Items)
    /\ ~long' => \A i \in DOMAIN out : out[i].kind \notin {"open", "close"}
    /\ \A i \in 1..(Len(out) - 1) :
        out[i].kind = "struct_open" => out[i + 1].kind # "struct_close"
    /\ need_struct_body /\ out # <<>> => out[1].kind # "struct_close"
    /\ in_attribute' \in BOOLEAN /\ need_struct_body' \in BOOLEAN /\ skip_asm' \in BOOLEAN
    /\ skip_asm' <=> context' = "asm"
    /\ in_attribute' => context' = "attribute"
    /\ context' = "attribute" /\ ~long' => in_attribute'
    /\ need_struct_body' => context' = "struct"
    /\ out = <<>> => need_struct_body' = need_struct_body
    /\ out # <<>> => (need_struct_body' <=> Last(out).kind = "struct_open")

\* An empty line leaves all but in_attribute as it is.
LEMMA EmptyLineOutcome ==
  ASSUME TypeOK, ScannerFollows, NEW line, ReadLine(line), line = <<>>
  PROVE  IsOutcome(<<>>, line)
  <1>1. line \in Seq(Tokens) /\ DOMAIN line = {} /\ Len(line) = 0
    OBVIOUS
  <1>2. in_attribute \in BOOLEAN
    BY DEF TypeOK
  <1>3. /\ WithoutAttributes(line) = line
        /\ AfterAttribute(line) = line
        /\ OpensAttribute(line) = FALSE
    BY <1>1, <1>2, NothingIsRemoved
  <1>4. WithDummy(line) = line
    BY DEF WithDummy
  <1>5. need_struct_body \in BOOLEAN /\ skip_asm \in BOOLEAN /\ prepared_content \in Seq(Tokens)
        /\ long \in BOOLEAN
    BY DEF TypeOK
  <1>6. NeedsBody(line) = need_struct_body
    <2>1. <<>> # <<Mark("struct_open")>>
      OBVIOUS
    <2> QED
      BY <1>5, <2>1 DEF NeedsBody
  <1>7. SkipsAsm(line) = skip_asm
    BY <1>5 DEF SkipsAsm, OpensAsm, ClosesAsm
  <1>8. WithoutAsm(line) = <<>>
    BY DEF WithoutAsm
  <1>9. /\ in_attribute' = FALSE /\ need_struct_body' = need_struct_body /\ skip_asm' = skip_asm
        /\ prepared_content' = prepared_content \o <<>>
    BY <1>3, <1>4, <1>6, <1>7, <1>8 DEF ReadLine, Rewrite
  <1>10. context' = context
    BY <1>1 DEF ReadLine, ContextAfter
  <1>11. long' = (long \/ context = "attribute")
    BY <1>10 DEF ReadLine
  <1>12. Only(<<>>, Items) = Only(line, Items)
    OBVIOUS
  <1>13. <<>> \in Seq(Tokens) /\ DOMAIN <<>> = {} /\ Len(<<>>) = 0
    OBVIOUS
  <1>14. /\ skip_asm' <=> context' = "asm"
         /\ need_struct_body' => context' = "struct"
         /\ context' = "attribute" /\ ~long' => in_attribute'
    BY <1>9, <1>10, <1>11 DEF ScannerFollows
  <1>15. /\ \A i \in DOMAIN <<>> : FALSE
         /\ \A i \in 1..(Len(<<>>) - 1) : FALSE
    BY <1>13
  <1>16. /\ in_attribute' \in BOOLEAN /\ need_struct_body' \in BOOLEAN /\ skip_asm' \in BOOLEAN
         /\ ~in_attribute'
    BY <1>5, <1>9
  <1> QED
    BY <1>9, <1>12, <1>13, <1>14, <1>15, <1>16, Zenon DEF IsOutcome

\* A line of items and pieces of attributes can have them in code and in an attribute only.
LEMMA AttributeLineOutcome ==
  ASSUME TypeOK, ScannerFollows, NEW line \in Seq(Tokens), ReadLine(line), line # <<>>,
         \A i \in DOMAIN line : line[i].kind \notin FullLines
  PROVE  IsOutcome(AfterAttribute(WithoutAttributes(line)), line)
  <1> DEFINE rest == WithoutAttributes(line)
             left == AfterAttribute(rest)
             follow == ContextAfter(context, line, Len(line))
  <1>1. /\ context \in Contexts /\ in_attribute \in BOOLEAN /\ need_struct_body \in BOOLEAN
        /\ skip_asm \in BOOLEAN /\ long \in BOOLEAN
    BY DEF TypeOK
  <1>2. /\ in_attribute => context = "attribute"
        /\ context = "attribute" /\ ~long => in_attribute
        /\ need_struct_body => context = "struct"
        /\ skip_asm <=> context = "asm"
    BY DEF ScannerFollows
  <1>3. /\ IsProgramLine(context, line) /\ context' = follow
        /\ long' = (long \/ (context = "attribute" /\ context' = "attribute"))
        /\ in_attribute' = OpensAttribute(rest)
        /\ need_struct_body' = NeedsBody(left)
        /\ skip_asm' = SkipsAsm(WithDummy(left))
        /\ prepared_content' = prepared_content \o WithoutAsm(WithDummy(left))
    BY DEF ReadLine, Rewrite
  <1>4. /\ left \in Seq(Tokens)
        /\ \A i \in DOMAIN left : left[i].kind \in ItemKinds \cup {"open", "close"}
        /\ OpensAttribute(rest) => follow = "attribute"
        /\ follow = "attribute" /\ context # "attribute" => OpensAttribute(rest)
        /\ ~Ambiguous(line) => Only(left, Items) = Only(line, Items)
        /\ (/\ context = "attribute" => in_attribute
            /\ ~(context = "attribute" /\ follow = "attribute")) =>
             \A i \in DOMAIN left : left[i].kind \notin {"open", "close"}
    BY <1>1, <1>2, <1>3, AttributeLineAfter
  <1>5. 1 \in DOMAIN line /\ Len(line) # 0 /\ Len(line) \in 1..Len(line)
    BY EmptySeq
  <1>6. context \in {"code", "attribute"}
    <2>1. line[1].kind \in Allowed(ContextAfter(context, line, 1 - 1))
      BY <1>3, <1>5 DEF IsProgramLine
    <2>2. ContextAfter(context, line, 1 - 1) = context
      BY DEF ContextAfter
    <2>3. line[1].kind \notin FullLines
      BY <1>5
    <2> QED
      BY <1>1, <2>1, <2>2, <2>3 DEF Allowed, Contexts, FullLines
  <1>7. need_struct_body = FALSE /\ skip_asm = FALSE
    BY <1>1, <1>2, <1>6
  <1>8. follow \in {"code", "attribute"}
    <2>1. follow = After(line[Len(line)])
      BY <1>5 DEF ContextAfter
    <2>2. line[Len(line)].kind \notin FullLines
      BY <1>5
    <2> QED
      BY <2>1, <2>2 DEF After, FullLines
  <1> HIDE DEF rest, left, follow
  <1>9. WithDummy(left) = left
    BY <1>7 DEF WithDummy
  <1>10. ASSUME NEW kind \in FullLines
         PROVE  left # <<Mark(kind)>>
    <2> SUFFICES ASSUME left = <<Mark(kind)>>
                 PROVE  FALSE
      OBVIOUS
    <2>1. 1 \in DOMAIN left /\ left[1].kind = kind
      BY DEF Mark
    <2> QED
      BY <1>4, <2>1 DEF FullLines, ItemKinds
  <1>11. need_struct_body' = FALSE
    BY <1>3, <1>7, <1>10 DEF NeedsBody, FullLines
  <1>12. left # <<>> => 1 \in DOMAIN left /\ Len(left) \in DOMAIN left
    BY <1>4, EmptySeq
  <1>13. skip_asm' = FALSE
    <2>1. OpensAsm(left) = FALSE
      BY <1>4, <1>12 DEF OpensAsm, ItemKinds
    <2> QED
      BY <1>3, <1>7, <1>9, <2>1 DEF SkipsAsm, ClosesAsm
  <1>14. WithoutAsm(WithDummy(left)) = left
    <2>1. ~SkipsAsm(left)
      BY <1>3, <1>9, <1>13
    <2>2. ~ClosesAsm(left)
      BY <1>7 DEF ClosesAsm
    <2>3. left # <<Mark("asm")>>
      BY <1>10 DEF FullLines
    <2> QED
      BY <1>9, <2>1, <2>2, <2>3 DEF WithoutAsm
  <1>15. /\ prepared_content' = prepared_content \o left
         /\ in_attribute' \in BOOLEAN
         /\ in_attribute' => context' = "attribute"
    <2>1. OpensAttribute(rest) \in BOOLEAN
      BY DEF OpensAttribute
    <2>2. prepared_content' = prepared_content \o left
      BY <1>3, <1>14
    <2> QED
      BY <1>3, <1>4, <2>1, <2>2, Zenon
  <1>16. ~long' => /\ \A i \in DOMAIN left : left[i].kind \notin {"open", "close"}
                   /\ context' = "attribute" => in_attribute'
    <2> SUFFICES ASSUME ~long'
                 PROVE  /\ \A i \in DOMAIN left : left[i].kind \notin {"open", "close"}
                        /\ context' = "attribute" => in_attribute'
      OBVIOUS
    <2>1. ~long /\ ~(context = "attribute" /\ follow = "attribute")
      BY <1>3
    <2>2. context = "attribute" => in_attribute
      BY <1>2, <2>1
    <2> QED
      BY <1>3, <1>4, <2>1, <2>2
  <1>17. \A i \in DOMAIN left :
            /\ left[i].kind \notin {"simple", "asm", "asm_open", "asm_close"}
            /\ left[i].kind # "struct_open" /\ left[i].kind # "struct_close"
    BY <1>4 DEF ItemKinds
  <1>18. \A i \in 1..(Len(left) - 1) :
            left[i].kind = "struct_open" => left[i + 1].kind # "struct_close"
    <2>1. \A i \in 1..(Len(left) - 1) : i \in DOMAIN left
      BY <1>4
    <2> QED
      BY <1>17, <2>1
  <1>19. left # <<>> => Last(left).kind # "struct_open"
    BY <1>12, <1>17 DEF Last
  <1> QED
    BY <1>3, <1>4, <1>7, <1>8, <1>11, <1>13, <1>15, <1>16, <1>17, <1>18, <1>19
    DEF IsOutcome, rest, left

\* The lines of an asm statement disappear, those of a struct do not, and one without
\* members gets one.
LEMMA FullLineOutcome ==
  ASSUME TypeOK, ScannerFollows, NEW line \in Seq(Tokens), ReadLine(line), Len(line) = 1,
         line[1].kind \in FullLines
  PROVE  \E out : IsOutcome(out, line)
  <1> DEFINE k == line[1].kind
  <1>1. /\ context \in Contexts /\ in_attribute \in BOOLEAN /\ need_struct_body \in BOOLEAN
        /\ skip_asm \in BOOLEAN
    BY DEF TypeOK
  <1>2. /\ in_attribute => context = "attribute"
        /\ need_struct_body => context = "struct"
        /\ skip_asm <=> context = "asm"
    BY DEF ScannerFollows
  <1>3. DOMAIN line = {1} /\ line # <<>> /\ line[1] \in Tokens
    OBVIOUS
  <1>4. line = <<Mark(k)>> /\ line[1] = Mark(k)
    <2>1. line[1] \in [kind : Marks, name : {NoName}]
      BY <1>3 DEF Tokens, ItemKinds, FullLines
    <2>2. line[1] = Mark(k)
      BY <2>1 DEF Mark
    <2> QED
      BY <1>3, <2>2
  <1>5. \A kind \in Marks : line = <<Mark(kind)>> <=> k = kind
    BY <1>4 DEF Mark
  <1>6. k \in Allowed(context) /\ context' = After(line[1])
    <2>1. /\ IsProgramLine(context, line)
          /\ context' = ContextAfter(context, line, Len(line))
      BY DEF ReadLine
    <2>2. 1 \in DOMAIN line /\ 1 - 1 = 0
      BY <1>3
    <2>3. ContextAfter(context, line, 1 - 1) = context
      BY DEF ContextAfter
    <2> QED
      BY <2>1, <2>2, <2>3 DEF IsProgramLine, ContextAfter
  <1>7. k \in FullLines
    OBVIOUS
  <1>8. /\ k \in {"asm", "asm_open", "struct_open"} <=> context = "code"
        /\ k = "asm_close" <=> context = "asm"
        /\ k \in {"member", "struct_close"} <=> context = "struct"
    BY <1>1, <1>6, <1>7 DEF Contexts, Allowed, FullLines, ItemKinds
  <1>9. context' = CASE k = "asm_open" -> "asm"
                     [] k \in {"struct_open", "member"} -> "struct"
                     [] OTHER -> "code"
    BY <1>6, <1>7 DEF After, FullLines
  <1>10. /\ WithoutAttributes(line) = line
         /\ AfterAttribute(line) = line
         /\ OpensAttribute(line) = FALSE
    <2>1. \A i \in DOMAIN line : line[i].kind \notin {"simple", "open"} /\ ~HasParens(line[i])
      BY <1>3, <1>7 DEF FullLines, HasParens
    <2> QED
      BY <1>1, <2>1, NothingIsRemoved
  <1>11. /\ in_attribute' = FALSE
         /\ need_struct_body' = NeedsBody(line)
         /\ skip_asm' = SkipsAsm(WithDummy(line))
         /\ prepared_content' = prepared_content \o WithoutAsm(WithDummy(line))
    BY <1>10 DEF ReadLine, Rewrite
  <1>12. Only(line, Items) = <<>>
    <2>1. \A i \in DOMAIN line : line[i] \notin Items
      BY <1>3, <1>7 DEF FullLines, Items, ItemKinds
    <2> QED
      BY <2>1, OnlyNone
  <1> HIDE DEF k
  <1>13. need_struct_body' = (k = "struct_open")
    <2>1. NeedsBody(line) = IF need_struct_body THEN FALSE ELSE k = "struct_open"
      BY <1>3, <1>5 DEF NeedsBody, Marks
    <2>2. need_struct_body => k # "struct_open"
      BY <1>2, <1>8
    <2> QED
      BY <1>1, <1>11, <2>1, <2>2
  <1>14. k = "struct_close" <=> line = <<Mark("struct_close")>>
    BY <1>5 DEF Marks
  <1>15. /\ DOMAIN <<>> = {} /\ Len(<<>>) = 0 /\ <<>> \in Seq(Tokens)
         /\ Mark("member") \in Tokens /\ Mark("member").kind = "member"
    BY DEF Mark, Tokens, Marks
  <1>16. CASE ~(need_struct_body /\ k = "struct_close")
    <2>1. WithDummy(line) = line
      BY <1>14, <1>16 DEF WithDummy
    <2>2. Head(line) = line[1] /\ Last(line) = line[1]
      BY DEF Last
    <2>3. line[1].kind = k
      BY DEF k
    <2>4. OpensAsm(line) <=> k = "asm_open"
      BY <1>3, <2>2, <2>3 DEF OpensAsm
    <2>5. ClosesAsm(line) <=> k = "asm_close"
      BY <1>2, <1>3, <1>7, <1>8, <2>2, <2>3 DEF ClosesAsm, FullLines
    <2>6. SkipsAsm(line) <=> k = "asm_open"
      BY <1>2, <1>8, <2>4, <2>5 DEF SkipsAsm
    <2>7. SkipsAsm(line) \in BOOLEAN
      BY DEF SkipsAsm
    <2>8. skip_asm' \in BOOLEAN /\ (skip_asm' <=> k = "asm_open")
      BY <1>11, <2>1, <2>6, <2>7
    <2>9. CASE k \in {"asm", "asm_open", "asm_close"}
      <3>1. WithoutAsm(line) = <<>>
        BY <1>5, <2>5, <2>6, <2>9 DEF WithoutAsm, Marks
      <3>2. prepared_content' = prepared_content \o <<>>
        BY <1>11, <2>1, <3>1
      <3>3. need_struct_body' = need_struct_body /\ need_struct_body' = FALSE
        BY <1>1, <1>2, <1>8, <1>13, <2>9
      <3>4. context' # "attribute" /\ (skip_asm' <=> context' = "asm")
        BY <1>9, <2>8, <2>9
      <3>5. Only(<<>>, Items) = Only(line, Items)
        BY <1>12, OnlyEmpty
      <3>6. /\ \A i \in DOMAIN <<>> : FALSE
            /\ \A i \in 1..(Len(<<>>) - 1) : FALSE
        BY <1>15
      <3>7. in_attribute' \in BOOLEAN /\ ~in_attribute' /\ need_struct_body' \in BOOLEAN
            /\ ~need_struct_body'
        BY <1>11, <3>3
      <3>8. IsOutcome(<<>>, line)
        BY <1>15, <2>8, <3>2, <3>3, <3>4, <3>5, <3>6, <3>7, Zenon DEF IsOutcome
      <3> QED
        BY <3>8
    <2>10. CASE k \in {"struct_open", "member", "struct_close"}
      <3>1. WithoutAsm(line) = line
        BY <1>5, <2>5, <2>6, <2>10 DEF WithoutAsm, Marks
      <3>2. prepared_content' = prepared_content \o line
        BY <1>11, <2>1, <3>1
      <3>3. need_struct_body' \in BOOLEAN /\ (need_struct_body' <=> k = "struct_open")
        BY <1>13
      <3>4. context' # "attribute" /\ (skip_asm' <=> context' = "asm")
            /\ (need_struct_body' => context' = "struct")
        BY <1>9, <2>8, <2>10, <3>3
      <3>5. /\ \A i \in DOMAIN line : line[i].kind = k
            /\ \A i \in 1..(Len(line) - 1) : FALSE
        BY <1>3, <2>3
      <3>6. need_struct_body => line[1].kind # "struct_close"
        BY <1>16, <2>3
      <3>7. in_attribute' \in BOOLEAN /\ ~in_attribute'
        BY <1>11
      <3>8. need_struct_body' <=> Last(line).kind = "struct_open"
        BY <2>2, <2>3, <3>3
      <3>9. k \notin {"simple", "asm", "asm_open", "asm_close", "open", "close"}
        BY <2>10
      <3>10. \A i \in DOMAIN line :
               line[i].kind \notin {"simple", "asm", "asm_open", "asm_close", "open", "close"}
        BY <3>5, <3>9
      <3>11. /\ \A i \in DOMAIN line :
                  line[i].kind \notin {"simple", "asm", "asm_open", "asm_close"}
             /\ \A i \in DOMAIN line : line[i].kind \notin {"open", "close"}
        BY <3>10
      <3>12. IsOutcome(line, line)
        BY <1>3, <2>8, <3>2, <3>3, <3>4, <3>5, <3>6, <3>7, <3>8, <3>11, Zenon DEF IsOutcome
      <3> QED
        BY <3>12
    <2> QED
      BY <1>7, <2>9, <2>10 DEF FullLines
  <1>17. CASE need_struct_body /\ k = "struct_close"
    <2> DEFINE out == <<Mark("member")>> \o line
    <2>1. WithDummy(line) = out
      BY <1>14, <1>17 DEF WithDummy
    <2>2. /\ out \in Seq(Tokens) /\ Len(out) = 2 /\ DOMAIN out = {1, 2}
          /\ out[1] = Mark("member") /\ out[2] = line[1] /\ out # <<>>
          /\ Head(out) = out[1] /\ Last(out) = out[2]
      <3> DEFINE m == <<Mark("member")>>
      <3>1. m \in Seq(Tokens) /\ Len(m) = 1 /\ m[1] = Mark("member")
        BY <1>15
      <3> HIDE DEF m
      <3>2. /\ out \in Seq(Tokens) /\ Len(out) = 2
            /\ out[1] = Mark("member") /\ out[2] = line[1]
        <4>1. /\ m \o line \in Seq(Tokens) /\ Len(m \o line) = Len(m) + Len(line)
              /\ \A i \in 1..(Len(m) + Len(line)) :
                    (m \o line)[i] = IF i <= Len(m) THEN m[i] ELSE line[i - Len(m)]
          BY <3>1, ConcatProperties
        <4>2. out = m \o line
          BY DEF m
        <4> HIDE DEF out
        <4> QED
          BY <3>1, <4>1, <4>2
      <3> HIDE DEF out
      <3>3. DOMAIN out = {1, 2} /\ out # <<>>
        BY <3>2
      <3> QED
        BY <3>2, <3>3 DEF Last
    <2>3. out[1].kind = "member" /\ out[2].kind = "struct_close"
      BY <1>15, <1>17, <2>2 DEF k
    <2>4. skip_asm = FALSE
      BY <1>1, <1>2, <1>17
    <2>5. Only(out, Items) = Only(line, Items)
      <3>1. \A i \in DOMAIN out : out[i] \notin Items
        BY <2>2, <2>3 DEF Items, ItemKinds
      <3> HIDE DEF out
      <3>2. Only(out, Items) = <<>>
        BY <2>2, <3>1, OnlyNone
      <3> QED
        BY <1>12, <3>2
    <2> HIDE DEF out
    <2>6. ~OpensAsm(out) /\ ~ClosesAsm(out)
      BY <2>2, <2>3, <2>4 DEF OpensAsm, ClosesAsm
    <2>7. ~SkipsAsm(out) /\ SkipsAsm(out) \in BOOLEAN
      BY <2>4, <2>6 DEF SkipsAsm
    <2>8. out # <<Mark("asm")>>
      <3>1. <<Mark("asm")>>[1].kind = "asm"
        BY DEF Mark
      <3> QED
        BY <2>3, <3>1
    <2>9. WithoutAsm(out) = out
      BY <2>6, <2>7, <2>8 DEF WithoutAsm
    <2>10. prepared_content' = prepared_content \o out /\ skip_asm' \in BOOLEAN /\ ~skip_asm'
      BY <1>11, <2>1, <2>7, <2>9
    <2>11. need_struct_body' \in BOOLEAN /\ ~need_struct_body'
      BY <1>13, <1>17
    <2>12. in_attribute' \in BOOLEAN /\ ~in_attribute' /\ context' = "code"
      BY <1>9, <1>11, <1>17
    <2>13. \A i \in DOMAIN out :
              /\ out[i].kind \notin {"simple", "asm", "asm_open", "asm_close"}
              /\ out[i].kind \notin {"open", "close"}
              /\ out[i].kind # "struct_open"
      BY <2>2, <2>3
    <2>14. \A i \in 1..(Len(out) - 1) : out[i].kind # "struct_open"
      BY <2>2, <2>3
    <2>15. Last(out).kind # "struct_open" /\ out[1].kind # "struct_close"
      BY <2>2, <2>3
    <2>16. IsOutcome(out, line)
      BY <2>2, <2>5, <2>10, <2>11, <2>12, <2>13, <2>14, <2>15 DEF IsOutcome
    <2> QED
      BY <2>16
  <1> QED
    BY <1>16, <1>17

\* Every line that can be next has an outcome.
LEMMA LineOutcome ==
  ASSUME TypeOK, ScannerFollows, NEW line \in Lines, ReadLine(line)
  PROVE  \E out : IsOutcome(out, line)
  <1>1. /\ line \in Seq(Tokens)
        /\ \A i \in DOMAIN line : line[i].kind \in FullLines => Len(line) = 1
    BY LinesAssumption
  <1>2. CASE line = <<>>
    <2>1. IsOutcome(<<>>, line)
      BY <1>2, EmptyLineOutcome
    <2> QED
      BY <2>1
  <1>3. CASE line # <<>> /\ \A i \in DOMAIN line : line[i].kind \notin FullLines
    <2>1. IsOutcome(AfterAttribute(WithoutAttributes(line)), line)
      BY <1>1, <1>3, AttributeLineOutcome
    <2> QED
      BY <2>1
  <1>4. CASE \E i \in DOMAIN line : line[i].kind \in FullLines
    <2>1. PICK i \in DOMAIN line : line[i].kind \in FullLines
      BY <1>4
    <2>2. Len(line) = 1 /\ i = 1
      BY <1>1, <2>1
    <2> QED
      BY <1>1, <2>1, <2>2, FullLineOutcome
  <1> QED
    BY <1>2, <1>3, <1>4

-----------------------------------------------------------------------------
(* Reading a line preserves the invariant *)

\* A sequence whose elements are in a set is a sequence of that set.
LEMMA OnlyOfItems ==
  ASSUME NEW s \in Seq(Tokens), NEW T
  PROVE  Only(s, T) \in Seq(T)
  <1>1. Only(s, T) \in Seq(Tokens)
    BY OnlyIsSequence
  <1>2. ToSet(Only(s, T)) \subseteq T
    BY OnlyElements
  <1>3. \A i \in DOMAIN Only(s, T) : Only(s, T)[i] \in T
    BY <1>2 DEF ToSet
  <1> QED
    BY <1>1, <1>3

\* Where two sequences meet.
LEMMA ConcatParts ==
  ASSUME NEW S, NEW s \in Seq(S), NEW r \in Seq(S)
  PROVE  /\ s \o r \in Seq(S)
         /\ Len(s) \in Nat /\ Len(r) \in Nat
         /\ Len(s \o r) = Len(s) + Len(r)
         /\ DOMAIN (s \o r) = 1..(Len(s) + Len(r))
         /\ DOMAIN s = 1..Len(s) /\ DOMAIN r = 1..Len(r)
         /\ \A i \in 1..Len(s) : (s \o r)[i] = s[i]
         /\ \A i \in (Len(s) + 1)..(Len(s) + Len(r)) :
              i - Len(s) \in 1..Len(r) /\ (s \o r)[i] = r[i - Len(s)]
         /\ r = <<>> => s \o r = s
         /\ r # <<>> => s \o r # <<>> /\ Last(s \o r) = Last(r) /\ 1 \in DOMAIN r
  <1>1. /\ s \o r \in Seq(S) /\ Len(s \o r) = Len(s) + Len(r)
        /\ \A i \in 1..(Len(s) + Len(r)) :
              (s \o r)[i] = IF i <= Len(s) THEN s[i] ELSE r[i - Len(s)]
    BY ConcatProperties
  <1>2. /\ Len(s) \in Nat /\ Len(r) \in Nat /\ DOMAIN s = 1..Len(s) /\ DOMAIN r = 1..Len(r)
        /\ DOMAIN (s \o r) = 1..(Len(s) + Len(r))
    BY <1>1
  <1>3. \A i \in 1..Len(s) : (s \o r)[i] = s[i]
    BY <1>1, <1>2
  <1>4. \A i \in (Len(s) + 1)..(Len(s) + Len(r)) :
           i - Len(s) \in 1..Len(r) /\ (s \o r)[i] = r[i - Len(s)]
    <2> SUFFICES ASSUME NEW i \in (Len(s) + 1)..(Len(s) + Len(r))
                 PROVE  i - Len(s) \in 1..Len(r) /\ (s \o r)[i] = r[i - Len(s)]
      OBVIOUS
    <2>1. i \in 1..(Len(s) + Len(r)) /\ ~(i <= Len(s)) /\ i - Len(s) \in 1..Len(r)
      BY <1>2
    <2> QED
      BY <1>1, <2>1
  <1>5. r = <<>> => s \o r = s
    OBVIOUS
  <1>6. ASSUME r # <<>>
        PROVE  s \o r # <<>> /\ Last(s \o r) = Last(r) /\ 1 \in DOMAIN r
    <2>1. Len(r) # 0 /\ 1 \in DOMAIN r
      BY <1>2, <1>6, EmptySeq
    <2>2. Len(s \o r) # 0 /\ s \o r # <<>>
      BY <1>1, <1>2, <2>1, EmptySeq
    <2>3. Len(s) + Len(r) \in (Len(s) + 1)..(Len(s) + Len(r))
          /\ (Len(s) + Len(r)) - Len(s) = Len(r)
      BY <1>2, <2>1
    <2>4. (s \o r)[Len(s) + Len(r)] = r[Len(r)]
      BY <1>4, <2>3
    <2> QED
      BY <1>1, <2>1, <2>2, <2>4 DEF Last
  <1> QED
    BY <1>1, <1>2, <1>3, <1>4, <1>5, <1>6

LEMMA ReadLinePreservesInv ==
  ASSUME DiscoveryInv, NEW line \in Lines, ReadLine(line)
  PROVE  DiscoveryInv'
  <1>1. TypeOK /\ ScannerFollows /\ AttributesAreRemoved /\ StructsHaveMembers
        /\ DeclarationsAreKept
    BY DEF DiscoveryInv
  <1>2. PICK out : IsOutcome(out, line)
    BY <1>1, LineOutcome
  <1> DEFINE prep == prepared_content
             all == prepared_content \o out
  <1>3. prep \in Seq(Tokens) /\ out \in Seq(Tokens) /\ prepared_content' = all
    BY <1>1, <1>2 DEF TypeOK, IsOutcome
  <1>4. line \in Seq(Tokens)
    BY LinesAssumption
  <1>5. /\ all \in Seq(Tokens)
        /\ Len(prep) \in Nat /\ Len(out) \in Nat
        /\ Len(all) = Len(prep) + Len(out)
        /\ DOMAIN all = 1..(Len(prep) + Len(out))
        /\ DOMAIN prep = 1..Len(prep) /\ DOMAIN out = 1..Len(out)
        /\ \A i \in 1..Len(prep) : all[i] = prep[i]
        /\ \A i \in (Len(prep) + 1)..(Len(prep) + Len(out)) :
             i - Len(prep) \in 1..Len(out) /\ all[i] = out[i - Len(prep)]
        /\ out = <<>> => all = prep
        /\ out # <<>> => all # <<>> /\ Last(all) = Last(out) /\ 1 \in DOMAIN out
    BY <1>3, ConcatParts
  <1>6. /\ ~done /\ length < MaxLines /\ length' = length + 1
        /\ context' = ContextAfter(context, line, Len(line))
        /\ items' = items \o Only(line, Items)
        /\ ambiguous' = (ambiguous \/ Ambiguous(line))
        /\ long' = (long \/ (context = "attribute" /\ context' = "attribute"))
        /\ svcomp_only' = svcomp_only /\ excludes' = excludes /\ methods' = methods
        /\ done' = done
    BY DEF ReadLine
  <1> HIDE DEF all
  <1>7. \A i \in DOMAIN all :
           \/ i \in 1..Len(prep)
           \/ i \in (Len(prep) + 1)..(Len(prep) + Len(out))
    BY <1>5
  <1>8. TypeOK'
    <2>1. /\ svcomp_only \in BOOLEAN /\ excludes \in {{}, {ErrorName}} /\ length \in 0..MaxLines
          /\ methods \in Seq(Names) /\ done \in BOOLEAN /\ items \in Seq(Items)
          /\ ambiguous \in BOOLEAN /\ long \in BOOLEAN
          /\ \A i \in DOMAIN prep : prep[i].kind \notin {"simple", "asm", "asm_open", "asm_close"}
      BY <1>1 DEF TypeOK
    <2>2. length' \in 0..MaxLines
      BY <1>6, <2>1, NamesAssumption
    <2>3. context' \in Contexts
      BY <1>1, <1>6 DEF TypeOK, ContextAfter, After, Contexts
    <2>4. items' \in Seq(Items)
      <3>1. Only(line, Items) \in Seq(Items)
        BY <1>4, OnlyOfItems
      <3> QED
        BY <1>6, <2>1, <3>1, ConcatProperties
    <2>5. \A i \in DOMAIN out : out[i].kind \notin {"simple", "asm", "asm_open", "asm_close"}
      BY <1>2 DEF IsOutcome
    <2>6. \A i \in DOMAIN all : all[i].kind \notin {"simple", "asm", "asm_open", "asm_close"}
      BY <1>5, <1>7, <2>1, <2>5
    <2>7. in_attribute' \in BOOLEAN /\ need_struct_body' \in BOOLEAN /\ skip_asm' \in BOOLEAN
      BY <1>2 DEF IsOutcome
    <2>8. ambiguous' \in BOOLEAN /\ long' \in BOOLEAN
      BY <1>6
    <2> QED
      BY <1>3, <1>5, <1>6, <2>1, <2>2, <2>3, <2>4, <2>6, <2>7, <2>8 DEF TypeOK
  <1>9. ScannerFollows'
    <2>1. /\ skip_asm' <=> context' = "asm"
          /\ in_attribute' => context' = "attribute"
          /\ context' = "attribute" /\ ~long' => in_attribute'
          /\ need_struct_body' => context' = "struct"
          /\ out = <<>> => need_struct_body' = need_struct_body
          /\ out # <<>> => (need_struct_body' <=> Last(out).kind = "struct_open")
      BY <1>2 DEF IsOutcome
    <2>2. need_struct_body <=> prep # <<>> /\ Last(prep).kind = "struct_open"
      BY <1>1 DEF ScannerFollows
    <2>3. need_struct_body' <=> all # <<>> /\ Last(all).kind = "struct_open"
      <3>1. CASE out = <<>>
        BY <1>5, <2>1, <2>2, <3>1
      <3>2. CASE out # <<>>
        BY <1>5, <2>1, <3>2
      <3> QED
        BY <3>1, <3>2
    <2> QED
      BY <1>3, <2>1, <2>3 DEF ScannerFollows
  <1>10. AttributesAreRemoved'
    <2> SUFFICES ASSUME ~long'
                 PROVE  \A i \in DOMAIN all : all[i].kind \notin {"open", "close"}
      BY <1>3 DEF AttributesAreRemoved
    <2>1. \A i \in DOMAIN prep : prep[i].kind \notin {"open", "close"}
      BY <1>1, <1>6 DEF AttributesAreRemoved
    <2>2. \A i \in DOMAIN out : out[i].kind \notin {"open", "close"}
      BY <1>2 DEF IsOutcome
    <2> QED
      BY <1>5, <1>7, <2>1, <2>2
  <1>11. StructsHaveMembers'
    <2> SUFFICES ASSUME NEW i \in 1..(Len(all) - 1), all[i].kind = "struct_open"
                 PROVE  all[i + 1].kind # "struct_close"
      BY <1>3 DEF StructsHaveMembers
    <2>1. CASE i < Len(prep)
      <3>1. i \in 1..Len(prep) /\ i + 1 \in 1..Len(prep) /\ i \in 1..(Len(prep) - 1)
        BY <1>5, <2>1
      <3>2. all[i] = prep[i] /\ all[i + 1] = prep[i + 1]
        BY <1>5, <3>1
      <3> QED
        BY <1>1, <3>1, <3>2 DEF StructsHaveMembers
    <2>2. CASE i = Len(prep)
      <3>1. i \in 1..Len(prep) /\ all[i] = prep[i] /\ Last(prep) = prep[i]
        BY <1>5, <2>2 DEF Last
      <3>2. i + 1 \in (Len(prep) + 1)..(Len(prep) + Len(out)) /\ (i + 1) - Len(prep) = 1
        BY <1>5, <2>2
      <3>3. all[i + 1] = out[1] /\ 1 \in 1..Len(out)
        BY <1>5, <3>2
      <3>4. prep # <<>> /\ out # <<>>
        BY <1>5, <3>1, <3>3, EmptySeq
      <3>5. need_struct_body
        BY <1>1, <3>1, <3>4 DEF ScannerFollows
      <3> QED
        BY <1>2, <3>3, <3>4, <3>5 DEF IsOutcome
    <2>3. CASE i > Len(prep)
      <3> DEFINE j == i - Len(prep)
      <3>1. /\ i \in (Len(prep) + 1)..(Len(prep) + Len(out))
            /\ i + 1 \in (Len(prep) + 1)..(Len(prep) + Len(out))
            /\ (i + 1) - Len(prep) = j + 1 /\ j \in 1..(Len(out) - 1)
        BY <1>5, <2>3
      <3>2. all[i] = out[j] /\ all[i + 1] = out[j + 1]
        BY <1>5, <3>1
      <3> HIDE DEF j
      <3> QED
        BY <1>2, <3>1, <3>2 DEF IsOutcome
    <2>4. i < Len(prep) \/ i = Len(prep) \/ i > Len(prep)
      <3> DEFINE n == Len(prep)
      <3>1. n \in Nat /\ i \in Int
        BY <1>5
      <3> HIDE DEF n
      <3>2. i < n \/ i = n \/ i > n
        BY <3>1
      <3> QED
        BY <3>2 DEF n
    <2> QED
      BY <2>1, <2>2, <2>3, <2>4
  <1>12. DeclarationsAreKept'
    <2> SUFFICES ASSUME ~ambiguous'
                 PROVE  Only(all, Items) = items'
      BY <1>3 DEF DeclarationsAreKept
    <2>1. Only(prep, Items) = items
      BY <1>1, <1>6 DEF DeclarationsAreKept
    <2>2. Only(out, Items) = Only(line, Items)
      BY <1>2, <1>6 DEF IsOutcome
    <2>3. Only(all, Items) = Only(prep, Items) \o Only(out, Items)
      BY <1>3, OnlyConcat DEF all
    <2> QED
      BY <1>6, <2>1, <2>2, <2>3
  <1>13. StubsAreTheUndefined' /\ CalledHaveStubs'
    <2>1. ~done'
      BY <1>6
    <2>2. IsInjective(methods') /\ ToSet(methods') \cap excludes' = {}
      BY <1>6 DEF DiscoveryInv, StubsAreTheUndefined
    <2> QED
      BY <2>1, <2>2 DEF StubsAreTheUndefined, CalledHaveStubs
  <1> QED
    BY <1>8, <1>9, <1>10, <1>11, <1>12, <1>13 DEF DiscoveryInv

-----------------------------------------------------------------------------
(* Names *)

\* The names of items.
LEMMA NamesOfItems ==
  ASSUME NEW s \in Seq(Items)
  PROVE  /\ get_names(s) \in Seq(Names)
         /\ ToSet(get_names(s)) = {token.name : token \in ToSet(s)}
  <1> DEFINE n == get_names(s)
  <1>1. Len(s) \in Nat /\ DOMAIN s = 1..Len(s) /\ \A i \in DOMAIN s : s[i] \in Items
    OBVIOUS
  <1>2. DOMAIN n = 1..Len(s) /\ \A i \in DOMAIN s : n[i] = s[i].name
    BY <1>1 DEF get_names
  <1>3. \A token \in Items : token.name \in Names
    BY DEF Items
  <1>4. n \in [1..Len(s) -> Names]
    BY <1>1, <1>3 DEF get_names
  <1> HIDE DEF n
  <1>5. n \in Seq(Names)
    BY <1>1, <1>4
  <1>6. ToSet(n) = {token.name : token \in ToSet(s)}
    BY <1>1, <1>2, Zenon DEF ToSet
  <1> QED
    BY <1>5, <1>6 DEF n

\* The elements of a sequence are finitely many.
LEMMA ToSetIsFinite ==
  ASSUME NEW S, NEW s \in Seq(S)
  PROVE  IsFiniteSet(ToSet(s))
  <1>1. Len(s) \in Nat /\ DOMAIN s = 1..Len(s) /\ s = [i \in 1..Len(s) |-> s[i]]
    OBVIOUS
  <1>2. s \in Surjection(1..Len(s), ToSet(s))
    <2>1. s \in [1..Len(s) -> ToSet(s)]
      BY <1>1 DEF ToSet
    <2>2. \A t \in ToSet(s) : \E i \in 1..Len(s) : s[i] = t
      BY <1>1 DEF ToSet
    <2> QED
      BY <2>1, <2>2 DEF Surjection
  <1>3. IsFiniteSet(1..Len(s))
    <2> DEFINE n == Len(s)
    <2>1. n \in Nat
      BY <1>1
    <2> HIDE DEF n
    <2>2. IsFiniteSet(1..n)
      BY <2>1, FS_Interval
    <2> QED
      BY <2>2 DEF n
  <1> QED
    BY <1>2, <1>3, FS_Surjection

\* SetToSeq goes through a set, each element once.
LEMMA SetToSeqProperties ==
  ASSUME NEW S, IsFiniteSet(S)
  PROVE  SetToSeq(S) \in Seq(S) /\ IsInjective(SetToSeq(S)) /\ ToSet(SetToSeq(S)) = S
  <1> DEFINE n == Cardinality(S)
             f == SetToSeq(S)
  <1>1. n \in Nat /\ ExistsBijection(1..n, S)
    BY FS_CardinalityType
  <1>2. \E g \in [1..n -> S] : IsInjective(g)
    BY <1>1 DEF ExistsBijection, Bijection, Injection
  <1>3. f \in [1..n -> S] /\ IsInjective(f)
    BY <1>2 DEF SetToSeq
  <1> HIDE DEF f
  <1>4. f \in Surjection(1..n, S)
    <2>1. f \in Injection(1..n, S)
      BY <1>3 DEF Injection
    <2>2. Cardinality(1..n) = n
      BY <1>1, FS_Interval
    <2> QED
      BY <2>1, <2>2, FS_Injection
  <1>5. DOMAIN f = 1..n
    BY <1>3
  <1>6. ToSet(f) = S
    BY <1>3, <1>4, <1>5 DEF ToSet, Surjection
  <1>7. f \in Seq(S)
    <2> HIDE DEF n
    <2> QED
      BY <1>1, <1>3
  <1> QED
    BY <1>3, <1>6, <1>7 DEF f

\* One more element that is not in a sequence does not make an element occur twice.
LEMMA InjectiveAppend ==
  ASSUME NEW S, NEW s \in Seq(S), IsInjective(s), NEW e \in S, e \notin ToSet(s)
  PROVE  IsInjective(Append(s, e))
  <1> DEFINE r == Append(s, e)
  <1>1. /\ DOMAIN r = 1..(Len(s) + 1) /\ DOMAIN s = 1..Len(s) /\ Len(s) \in Nat
        /\ r[Len(s) + 1] = e /\ \A i \in 1..Len(s) : r[i] = s[i]
    OBVIOUS
  <1> HIDE DEF r
  <1>2. \A i \in 1..Len(s) : s[i] # e
    BY <1>1 DEF ToSet
  <1>3. \A i \in DOMAIN r : i \in 1..Len(s) \/ i = Len(s) + 1
    BY <1>1
  <1>4. \A i, j \in DOMAIN r : r[i] = r[j] => i = j
    BY <1>1, <1>2, <1>3 DEF IsInjective
  <1> QED
    BY <1>4 DEF IsInjective, r

\* The function that FirstOnly is the last value of.
IsFirstOnly(f, s, S) ==
    /\ f[0] = <<>>
    /\ \A n \in 1..Len(s) :
        f[n] = IF s[n] \in ToSet(f[n - 1]) THEN f[n - 1] ELSE Append(f[n - 1], s[n])

LEMMA FirstOnlyIsLast ==
  ASSUME NEW S, NEW s \in Seq(S)
  PROVE  \E f : IsFirstOnly(f, s, S) /\ FirstOnly(s) = f[Len(s)]
  <1> DEFINE a == <<>>
             L == Len(s)
             step(n, x) == IF s[n] \in ToSet(x) THEN x ELSE Append(x, s[n])
             F(u) == [n \in 0..L |-> IF n = 0 THEN a ELSE step(n, u[n - 1])]
             g == [n \in Nat |-> [x \in Seq(S) |-> IF n + 1 \in 1..L THEN step(n + 1, x) ELSE x]]
  <1>1. L \in Nat /\ a \in Seq(S)
    OBVIOUS
  <1>2. \A n \in 1..L, x \in Seq(S) : step(n, x) \in Seq(S)
    OBVIOUS
  <1> HIDE DEF a, L, step
  <1>3. g \in [Nat -> [Seq(S) -> Seq(S)]]
    BY <1>2
  <1>4. \A n \in 1..L, x \in Seq(S) : g[n - 1][x] = step(n, x)
    <2> SUFFICES ASSUME NEW n \in 1..L, NEW x \in Seq(S)
                 PROVE  g[n - 1][x] = step(n, x)
      OBVIOUS
    <2>1. n - 1 \in Nat /\ (n - 1) + 1 = n
      BY <1>1
    <2> QED
      BY <2>1
  <1> HIDE DEF g
  <1>5. PICK h : Unrolls(h, L, Seq(S), a, g)
    BY <1>1, <1>3, UnrollsExist
  <1>6. ASSUME NEW n \in 1..L
        PROVE  h[n] = step(n, h[n - 1])
    <2>1. n - 1 \in 0..(L - 1) /\ n - 1 \in 0..L /\ (n - 1) + 1 = n
      BY <1>1
    <2>2. h[n] = g[n - 1][h[n - 1]] /\ h[n - 1] \in Seq(S)
      BY <1>5, <2>1 DEF Unrolls
    <2> QED
      BY <1>4, <2>2
  <1>7. h = F(h)
    <2>1. h = [n \in 0..L |-> h[n]] /\ h[0] = a
      BY <1>5 DEF Unrolls
    <2>2. \A n \in 0..L : n = 0 \/ n \in 1..L
      BY <1>1
    <2> QED
      BY <1>6, <2>1, <2>2
  <1> DEFINE f == CHOOSE u : u = F(u)
  <1>8. f = F(f)
    BY <1>7
  <1>9. FirstOnly(s) = f[L]
    BY DEF FirstOnly, L, a, step
  <1> HIDE DEF f
  <1>10. f[0] = a /\ \A n \in 1..L : f[n] = step(n, f[n - 1])
    <2>1. 0 \in 0..L /\ \A n \in 1..L : n \in 0..L /\ n # 0
      BY <1>1
    <2> QED
      BY <1>8, <2>1
  <1>11. IsFirstOnly(f, s, S)
    BY <1>10 DEF IsFirstOnly, L, a, step
  <1> QED
    BY <1>9, <1>11 DEF L

\* It has every name of the sequence, each once.
LEMMA FirstOnlyProperties ==
  ASSUME NEW S, NEW s \in Seq(S)
  PROVE  /\ FirstOnly(s) \in Seq(S)
         /\ IsInjective(FirstOnly(s))
         /\ ToSet(FirstOnly(s)) = ToSet(s)
  <1>1. PICK f : IsFirstOnly(f, s, S) /\ FirstOnly(s) = f[Len(s)]
    BY FirstOnlyIsLast
  <1>2. Len(s) \in Nat /\ DOMAIN s = 1..Len(s) /\ \A i \in 1..Len(s) : s[i] \in S
    OBVIOUS
  <1> DEFINE Good(n) == /\ f[n] \in Seq(S)
                        /\ IsInjective(f[n])
                        /\ ToSet(f[n]) = {s[i] : i \in 1..n}
             M == {n \in Nat : n <= Len(s) => Good(n)}
  <1>3. 0 \in M
    <2>1. f[0] = <<>>
      BY <1>1 DEF IsFirstOnly
    <2>2. <<>> \in Seq(S) /\ DOMAIN <<>> = {} /\ 1..0 = {}
      OBVIOUS
    <2>3. Good(0)
      BY <2>1, <2>2 DEF IsInjective, ToSet
    <2> QED
      BY <2>3
  <1>4. ASSUME NEW n \in Nat, n \in M
        PROVE  n + 1 \in M
    <2> SUFFICES ASSUME n + 1 <= Len(s)
                 PROVE  Good(n + 1)
      OBVIOUS
    <2> DEFINE x == f[n]
               e == s[n + 1]
    <2>1. n + 1 \in 1..Len(s) /\ (n + 1) - 1 = n /\ n <= Len(s)
      BY <1>2
    <2>2. x \in Seq(S) /\ IsInjective(x) /\ ToSet(x) = {s[i] : i \in 1..n} /\ e \in S
      BY <1>2, <1>4, <2>1
    <2>3. f[n + 1] = IF e \in ToSet(x) THEN x ELSE Append(x, e)
      BY <1>1, <2>1 DEF IsFirstOnly
    <2>4. {s[i] : i \in 1..(n + 1)} = {s[i] : i \in 1..n} \cup {e}
      <3>1. 1..(n + 1) = (1..n) \cup {n + 1}
        OBVIOUS
      <3> QED
        BY <3>1
    <2> HIDE DEF x, e
    <2>5. CASE e \in ToSet(x)
      BY <2>2, <2>3, <2>4, <2>5
    <2>6. CASE e \notin ToSet(x)
      <3>1. f[n + 1] = Append(x, e) /\ Append(x, e) \in Seq(S)
        BY <2>2, <2>3, <2>6
      <3>2. IsInjective(Append(x, e))
        BY <2>2, <2>6, InjectiveAppend
      <3>3. ToSet(Append(x, e)) = ToSet(x) \cup {e}
        BY <2>2, ToSetAppend
      <3> QED
        BY <2>2, <2>4, <3>1, <3>2, <3>3
    <2> QED
      BY <2>5, <2>6
  <1> HIDE DEF M
  <1>5. Len(s) \in M
    BY <1>2, <1>3, <1>4, SetInduction
  <1>6. Good(Len(s))
    BY <1>2, <1>5 DEF M
  <1> QED
    BY <1>1, <1>2, <1>6 DEF ToSet

-----------------------------------------------------------------------------
(* The end of the program *)

\* The nodes between an item and its name decide whether it counts as a declaration: a
\* definition does, a pointer and a typedef do not.
LEMMA FuncDeclKinds ==
  ASSUME NEW token \in Items
  PROVE  IsFuncDecl(token) <=> token.kind \in {"prototype", "callback", "definition"}
  <1> DEFINE nodes == Nodes(token.kind)
  <1>1. token.kind \in ItemKinds /\ IsItem(token)
    BY DEF Items, IsItem
  <1>2. CASE token.kind \in {"prototype", "callback"}
    <2>1. nodes = <<"Decl", "FuncDecl", "TypeDecl">>
      BY <1>2 DEF Nodes
    <2>2. 2 \in DOMAIN nodes /\ nodes[2] = "FuncDecl" /\ nodes[1] = "Decl" /\ 1..2 = {1, 2}
      BY <2>1
    <2> HIDE DEF nodes
    <2>3. \E i \in DOMAIN nodes : /\ nodes[i] = "FuncDecl"
                                  /\ \A j \in 1..i : nodes[j] \notin {"PtrDecl", "Typedef"}
      BY <2>2
    <2> QED
      BY <1>1, <1>2, <2>3 DEF IsFuncDecl, nodes
  <1>3. CASE token.kind = "definition"
    <2>1. nodes = <<"FuncDef", "Decl", "FuncDecl", "TypeDecl">>
      BY <1>3 DEF Nodes
    <2>2. /\ 3 \in DOMAIN nodes /\ nodes[3] = "FuncDecl" /\ nodes[2] = "Decl"
          /\ nodes[1] = "FuncDef" /\ 1..3 = {1, 2, 3}
      BY <2>1
    <2> HIDE DEF nodes
    <2>3. \E i \in DOMAIN nodes : /\ nodes[i] = "FuncDecl"
                                  /\ \A j \in 1..i : nodes[j] \notin {"PtrDecl", "Typedef"}
      BY <2>2
    <2> QED
      BY <1>1, <1>3, <2>3 DEF IsFuncDecl, nodes
  <1>4. CASE token.kind = "pointer"
    <2>1. nodes = <<"Decl", "PtrDecl", "FuncDecl", "TypeDecl">>
      BY <1>4 DEF Nodes
    <2>2. /\ DOMAIN nodes = {1, 2, 3, 4} /\ nodes[1] = "Decl" /\ nodes[2] = "PtrDecl"
          /\ nodes[4] = "TypeDecl" /\ 2 \in 1..3
      BY <2>1
    <2> HIDE DEF nodes
    <2>3. \A i \in DOMAIN nodes : nodes[i] = "FuncDecl" => i = 3
      BY <2>2
    <2>4. ~\E i \in DOMAIN nodes : /\ nodes[i] = "FuncDecl"
                                   /\ \A j \in 1..i : nodes[j] \notin {"PtrDecl", "Typedef"}
      BY <2>2, <2>3
    <2> QED
      BY <1>4, <2>4 DEF IsFuncDecl, nodes
  <1>5. CASE token.kind = "typedef"
    <2>1. nodes = <<"Typedef", "FuncDecl", "TypeDecl">>
      BY <1>5 DEF Nodes
    <2>2. DOMAIN nodes = {1, 2, 3} /\ nodes[1] = "Typedef" /\ \A i \in {1, 2, 3} : 1 \in 1..i
      BY <2>1
    <2> HIDE DEF nodes
    <2>3. ~\E i \in DOMAIN nodes : /\ nodes[i] = "FuncDecl"
                                   /\ \A j \in 1..i : nodes[j] \notin {"PtrDecl", "Typedef"}
      BY <2>2
    <2> QED
      BY <1>5, <2>3 DEF IsFuncDecl, nodes
  <1>6. CASE token.kind = "call"
    BY <1>6 DEF IsFuncDecl
  <1> QED
    BY <1>1, <1>2, <1>3, <1>4, <1>5, <1>6 DEF ItemKinds

\* The names of the items of a set in a sequence of tokens.
NamesIn(s, T) == {token.name : token \in ToSet(s) \cap T}

LEMMA NamesOfOnly ==
  ASSUME NEW s \in Seq(Tokens), NEW T, T \subseteq Items
  PROVE  /\ get_names(Only(s, T)) \in Seq(Names)
         /\ ToSet(get_names(Only(s, T))) = NamesIn(s, T)
  <1>1. Only(s, T) \in Seq(T)
    BY OnlyOfItems
  <1>2. Only(s, T) \in Seq(Items)
    BY <1>1
  <1>3. ToSet(Only(s, T)) = ToSet(s) \cap T
    BY OnlyElements
  <1> QED
    BY <1>2, <1>3, NamesOfItems DEF NamesIn

\* The methods of a program that is not parsed: those with a match, and the error method.
LEMMA NondetMethods ==
  ASSUME TypeOK
  PROVE  /\ _find_nondet_methods \in Seq(Names)
         /\ IsInjective(_find_nondet_methods)
         /\ ToSet(_find_nondet_methods)
              = (NamesIn(items, NondetMatches) \cup {ErrorName}) \ excludes
  <1> DEFINE S == ToSet(get_names(Only(items, NondetMatches)))
             X == S \ excludes
             q == SetToSeq(X)
  <1>1. items \in Seq(Items) /\ excludes \in {{}, {ErrorName}}
    BY DEF TypeOK
  <1>2. items \in Seq(Tokens)
    <2>1. Items \subseteq Tokens
      BY DEF Items, Tokens
    <2> QED
      BY <1>1, <2>1
  <1>3. get_names(Only(items, NondetMatches)) \in Seq(Names) /\ S = NamesIn(items, NondetMatches)
    <2>1. NondetMatches \subseteq Items
      BY DEF NondetMatches
    <2> QED
      BY <1>2, <2>1, NamesOfOnly
  <1>4. S \subseteq NondetNames
    BY <1>3 DEF NamesIn, NondetMatches, IsNondetMatch
  <1>5. IsFiniteSet(X)
    <2>1. IsFiniteSet(S)
      BY <1>3, ToSetIsFinite
    <2> HIDE DEF S
    <2> QED
      BY <2>1, FS_Difference
  <1> HIDE DEF S
  <1>6. X \subseteq Names /\ ErrorName \notin X /\ ErrorName \in Names
    BY <1>4, NamesAssumption
  <1> HIDE DEF X
  <1>7. q \in Seq(X) /\ IsInjective(q) /\ ToSet(q) = X
    BY <1>5, SetToSeqProperties
  <1> HIDE DEF q
  <1>8. q \in Seq(Names)
    BY <1>6, <1>7
  <1>9. _find_nondet_methods = q \o (IF ErrorName \in excludes THEN <<>> ELSE <<ErrorName>>)
    BY DEF _find_nondet_methods, q, X, S
  <1>10. CASE excludes = {ErrorName}
    <2>1. _find_nondet_methods = q
      <3>1. q \o <<>> = q
        BY <1>8
      <3> QED
        BY <1>9, <1>10, <3>1
    <2>2. X = (S \cup {ErrorName}) \ excludes
      BY <1>10 DEF X
    <2> QED
      BY <1>3, <1>7, <1>8, <2>1, <2>2
  <1>11. CASE excludes = {}
    <2>1. _find_nondet_methods = Append(q, ErrorName)
      <3>1. q \o <<ErrorName>> = Append(q, ErrorName)
        BY <1>6, <1>8, AppendIsConcat
      <3> QED
        BY <1>9, <1>11, <3>1
    <2>2. Append(q, ErrorName) \in Seq(Names)
      BY <1>6, <1>8
    <2>3. IsInjective(Append(q, ErrorName))
      BY <1>6, <1>7, <1>8, InjectiveAppend
    <2>4. ToSet(Append(q, ErrorName)) = X \cup {ErrorName}
      BY <1>6, <1>7, <1>8, ToSetAppend
    <2>5. X \cup {ErrorName} = (S \cup {ErrorName}) \ excludes
      BY <1>11 DEF X
    <2> QED
      BY <1>3, <2>1, <2>2, <2>3, <2>4, <2>5
  <1> QED
    BY <1>1, <1>10, <1>11

\* The methods of a program that is parsed: those declared and not defined.
LEMMA UndefinedMethods ==
  ASSUME TypeOK
  PROVE  /\ _find_undefined_methods \in Seq(Names)
         /\ IsInjective(_find_undefined_methods)
         /\ ToSet(_find_undefined_methods)
              = NamesIn(prepared_content, FuncDecls)
                \ (NamesIn(prepared_content, FuncDefs) \cup IMPLICIT_FUNCTIONS \cup excludes)
  <1> DEFINE decls == get_names(Only(prepared_content, FuncDecls))
             U == Names \ _definitions
             q == Only(decls, U)
  <1>1. prepared_content \in Seq(Tokens) /\ FuncDecls \subseteq Items /\ FuncDefs \subseteq Items
    BY DEF TypeOK, FuncDecls, FuncDefs
  <1>2. decls \in Seq(Names) /\ ToSet(decls) = NamesIn(prepared_content, FuncDecls)
    BY <1>1, NamesOfOnly
  <1>3. _definitions
          = NamesIn(prepared_content, FuncDefs) \cup IMPLICIT_FUNCTIONS \cup excludes
    BY <1>1, NamesOfOnly DEF _definitions
  <1> HIDE DEF decls
  <1>4. ToSet(decls) \subseteq Names
    BY <1>2 DEF ToSet
  <1>5. q \in Seq(Names) /\ ToSet(q) = ToSet(decls) \cap U
    <2> HIDE DEF U
    <2> QED
      BY <1>2, OnlyIsSequence, OnlyElements
  <1>6. _find_undefined_methods = FirstOnly(q)
    BY DEF _find_undefined_methods, decls
  <1> HIDE DEF q
  <1>7. /\ FirstOnly(q) \in Seq(Names)
        /\ IsInjective(FirstOnly(q))
        /\ ToSet(FirstOnly(q)) = ToSet(q)
    BY <1>5, FirstOnlyProperties
  <1>8. ToSet(q) = NamesIn(prepared_content, FuncDecls) \ _definitions
    BY <1>2, <1>4, <1>5
  <1> QED
    BY <1>3, <1>6, <1>7, <1>8

\* What is kept of the declarations is what the program says.
LEMMA NamesAreKept ==
  ASSUME TypeOK, DeclarationsAreKept, ~ambiguous, NEW T, T \subseteq Items
  PROVE  NamesIn(prepared_content, T) = NamesIn(items, T)
  <1>1. prepared_content \in Seq(Tokens)
    BY DEF TypeOK
  <1>2. ToSet(items) = ToSet(prepared_content) \cap Items
    BY <1>1, OnlyElements DEF DeclarationsAreKept
  <1> QED
    BY <1>2 DEF NamesIn

\* The names of the items of some kinds.
LEMMA NamesOfKinds ==
  ASSUME items \in Seq(Items), NEW kinds
  PROVE  NamesIn(items, {token \in Items : token.kind \in kinds})
           = {items[i].name : i \in {j \in DOMAIN items : items[j].kind \in kinds}}
  <1>1. \A i \in DOMAIN items : items[i] \in Items
    OBVIOUS
  <1> QED
    BY <1>1 DEF NamesIn, ToSet

\* However they are found, the methods are the right ones.
LEMMA DiscoverPreservesInv ==
  ASSUME DiscoveryInv, Discover
  PROVE  DiscoveryInv'
  <1>1. /\ TypeOK /\ ScannerFollows /\ AttributesAreRemoved /\ StructsHaveMembers
        /\ DeclarationsAreKept
    BY DEF DiscoveryInv
  <1>2. /\ methods' = find_nondet_methods /\ done' = TRUE
        /\ svcomp_only' = svcomp_only /\ excludes' = excludes /\ length' = length
        /\ context' = context /\ in_attribute' = in_attribute
        /\ need_struct_body' = need_struct_body /\ skip_asm' = skip_asm
        /\ prepared_content' = prepared_content /\ items' = items
        /\ ambiguous' = ambiguous /\ long' = long
    BY DEF Discover, scanner
  <1>3. /\ items \in Seq(Items) /\ excludes \in {{}, {ErrorName}}
    BY <1>1 DEF TypeOK
  <1>4. \/ (svcomp_only \/ ParseError) /\ methods' = _find_nondet_methods
        \/ ~(svcomp_only \/ ParseError) /\ methods' = _find_undefined_methods
    BY <1>2 DEF find_nondet_methods
  <1>5. /\ _find_nondet_methods \in Seq(Names)
        /\ IsInjective(_find_nondet_methods)
        /\ ToSet(_find_nondet_methods)
             = (NamesIn(items, NondetMatches) \cup {ErrorName}) \ excludes
    BY <1>1, NondetMethods
  <1>6. /\ _find_undefined_methods \in Seq(Names)
        /\ IsInjective(_find_undefined_methods)
        /\ ToSet(_find_undefined_methods)
             = NamesIn(prepared_content, FuncDecls)
               \ (NamesIn(prepared_content, FuncDefs) \cup IMPLICIT_FUNCTIONS \cup excludes)
    BY <1>1, UndefinedMethods
  <1>7. FuncDecls \subseteq Items /\ FuncDefs \subseteq Items
    BY DEF FuncDecls, FuncDefs
  <1>8. ~ambiguous => /\ NamesIn(prepared_content, FuncDecls) = NamesIn(items, FuncDecls)
                      /\ NamesIn(prepared_content, FuncDefs) = NamesIn(items, FuncDefs)
    BY <1>1, <1>7, NamesAreKept
  <1>9. TypeOK'
    BY <1>1, <1>2, <1>4, <1>5, <1>6 DEF TypeOK
  <1>10. ScannerFollows' /\ AttributesAreRemoved' /\ StructsHaveMembers' /\ DeclarationsAreKept'
    <2>1. ScannerFollows'
      BY <1>1, <1>2 DEF ScannerFollows
    <2>2. AttributesAreRemoved'
      BY <1>1, <1>2 DEF AttributesAreRemoved
    <2>3. StructsHaveMembers'
      BY <1>1, <1>2 DEF StructsHaveMembers
    <2>4. DeclarationsAreKept'
      BY <1>1, <1>2 DEF DeclarationsAreKept
    <2> QED
      BY <2>1, <2>2, <2>3, <2>4
  <1>11. ParseError' <=> ParseError
    BY <1>2 DEF ParseError
  <1>12. StubsAreTheUndefined'
    <2> DEFINE Declared == {items[i].name : i \in {j \in DOMAIN items :
                                                     items[j].kind \in {"prototype", "callback"}}}
               Defined == {items[i].name : i \in {j \in DOMAIN items :
                                                    items[j].kind = "definition"}}
    <2>1. IsInjective(methods') /\ ToSet(methods') \cap excludes = {}
      BY <1>4, <1>5, <1>6
    <2>2. Declared = NamesIn(items, {token \in Items : token.kind \in {"prototype", "callback"}})
      <3> DEFINE kinds == {"prototype", "callback"}
      <3> HIDE DEF kinds
      <3>1. NamesIn(items, {token \in Items : token.kind \in kinds})
              = {items[i].name : i \in {j \in DOMAIN items : items[j].kind \in kinds}}
        BY <1>3, NamesOfKinds
      <3> QED
        BY <3>1 DEF kinds
    <2>3. Defined = NamesIn(items, {token \in Items : token.kind \in {"definition"}})
      <3> DEFINE kinds == {"definition"}
      <3>1. \A i \in DOMAIN items : items[i].kind = "definition" <=> items[i].kind \in kinds
        OBVIOUS
      <3> HIDE DEF kinds
      <3>2. NamesIn(items, {token \in Items : token.kind \in kinds})
              = {items[i].name : i \in {j \in DOMAIN items : items[j].kind \in kinds}}
        BY <1>3, NamesOfKinds
      <3> QED
        BY <3>1, <3>2 DEF kinds
    <2> HIDE DEF Declared, Defined
    <2>4. NamesIn(items, FuncDefs) = Defined
      <3>1. FuncDefs = {token \in Items : token.kind \in {"definition"}}
        BY DEF FuncDefs, IsFuncDef
      <3> QED
        BY <2>3, <3>1
    <2>5. NamesIn(items, FuncDecls) = Declared \cup Defined
      <3>1. FuncDecls = {token \in Items : token.kind \in {"prototype", "callback"}}
                        \cup {token \in Items : token.kind \in {"definition"}}
        BY FuncDeclKinds DEF FuncDecls
      <3> QED
        BY <2>2, <2>3, <3>1 DEF NamesIn
    <2>6. ~svcomp_only /\ ~ParseError /\ ~ambiguous =>
            ToSet(methods') = Declared \ (Defined \cup IMPLICIT_FUNCTIONS \cup excludes)
      BY <1>4, <1>6, <1>8, <2>4, <2>5
    <2> QED
      BY <1>2, <1>11, <2>1, <2>6 DEF StubsAreTheUndefined, Declared, Defined
  <1>13. CalledHaveStubs'
    <2> SUFFICES ASSUME ~ambiguous, NEW n \in NondetNames,
                        [kind |-> "call", name |-> n] \in ToSet(items),
                        [kind |-> "prototype", name |-> n] \in ToSet(items),
                        [kind |-> "definition", name |-> n] \notin ToSet(items)
                 PROVE  n \in ToSet(methods')
      BY <1>2 DEF CalledHaveStubs
    <2>1. n \in Names /\ n # ErrorName /\ n \notin IMPLICIT_FUNCTIONS /\ n \notin excludes
      BY <1>3, NamesAssumption
    <2>2. \A kind \in ItemKinds : [kind |-> kind, name |-> n] \in Items
      BY <2>1 DEF Items
    <2>3. n \in NamesIn(items, NondetMatches)
      <3> DEFINE token == [kind |-> "call", name |-> n]
      <3>1. token \in NondetMatches /\ token.name = n
        BY <2>2 DEF NondetMatches, IsNondetMatch, ItemKinds
      <3> HIDE DEF token
      <3>2. token \in ToSet(items)
        BY DEF token
      <3> QED
        BY <3>1, <3>2 DEF NamesIn
    <2>4. n \in NamesIn(items, FuncDecls)
      <3> DEFINE token == [kind |-> "prototype", name |-> n]
      <3>1. token \in Items /\ token.kind = "prototype" /\ token.name = n
        BY <2>2 DEF ItemKinds
      <3>2. token \in ToSet(items)
        OBVIOUS
      <3> HIDE DEF token
      <3>3. token \in FuncDecls
        BY <3>1, FuncDeclKinds DEF FuncDecls
      <3> QED
        BY <3>1, <3>2, <3>3 DEF NamesIn
    <2>5. n \notin NamesIn(items, FuncDefs)
      <3> SUFFICES ASSUME NEW token \in ToSet(items), token \in FuncDefs, token.name = n
                   PROVE  FALSE
        BY DEF NamesIn
      <3>1. token = [kind |-> "definition", name |-> n]
        BY DEF FuncDefs, IsFuncDef, Items
      <3> QED
        BY <3>1
    <2> QED
      BY <1>4, <1>5, <1>6, <1>8, <2>1, <2>3, <2>4, <2>5
  <1> QED
    BY <1>9, <1>10, <1>12, <1>13 DEF DiscoveryInv

-----------------------------------------------------------------------------
(* The theorems *)

LEMMA InitImpliesInv == Init => DiscoveryInv
  <1> SUFFICES ASSUME Init
               PROVE  DiscoveryInv
    OBVIOUS
  <1>1. /\ prepared_content = <<>> /\ methods = <<>> /\ items = <<>> /\ ~done /\ length = 0
        /\ context = "code" /\ in_attribute = FALSE /\ need_struct_body = FALSE
        /\ skip_asm = FALSE /\ svcomp_only \in BOOLEAN /\ excludes \in {{}, {ErrorName}}
        /\ done = FALSE /\ ambiguous = FALSE /\ long = FALSE
    BY DEF Init
  <1>2. /\ DOMAIN <<>> = {} /\ Len(<<>>) = 0 /\ <<>> \in Seq(Tokens) /\ <<>> \in Seq(Names)
        /\ <<>> \in Seq(Items) /\ 1..(0 - 1) = {}
    OBVIOUS
  <1>3. TypeOK
    <2>1. \A i \in DOMAIN prepared_content :
            prepared_content[i].kind \notin {"simple", "asm", "asm_open", "asm_close"}
      BY <1>1, <1>2
    <2>2. prepared_content \in Seq(Tokens) /\ methods \in Seq(Names) /\ items \in Seq(Items)
      BY <1>1, <1>2
    <2>3. length \in 0..MaxLines /\ context \in Contexts
      BY <1>1, NamesAssumption DEF Contexts
    <2>4. /\ svcomp_only \in BOOLEAN /\ excludes \in {{}, {ErrorName}}
          /\ in_attribute \in BOOLEAN /\ need_struct_body \in BOOLEAN /\ skip_asm \in BOOLEAN
          /\ done \in BOOLEAN /\ ambiguous \in BOOLEAN /\ long \in BOOLEAN
      BY <1>1
    <2> QED
      BY <2>1, <2>2, <2>3, <2>4, Zenon DEF TypeOK
  <1>4. ScannerFollows
    BY <1>1 DEF ScannerFollows
  <1>5. AttributesAreRemoved /\ StructsHaveMembers
    BY <1>1, <1>2 DEF AttributesAreRemoved, StructsHaveMembers
  <1>6. DeclarationsAreKept
    BY <1>1, OnlyEmpty DEF DeclarationsAreKept
  <1>7. StubsAreTheUndefined /\ CalledHaveStubs
    BY <1>1, <1>2 DEF StubsAreTheUndefined, CalledHaveStubs, IsInjective, ToSet
  <1> QED
    BY <1>3, <1>4, <1>5, <1>6, <1>7 DEF DiscoveryInv

LEMMA NextPreservesInv == DiscoveryInv /\ [Next]_vars => DiscoveryInv'
  <1> SUFFICES ASSUME DiscoveryInv, [Next]_vars
               PROVE  DiscoveryInv'
    OBVIOUS
  <1>1. CASE \E line \in Lines : ReadLine(line)
    BY <1>1, ReadLinePreservesInv
  <1>2. CASE Discover
    BY <1>2, DiscoverPreservesInv
  <1>3. CASE UNCHANGED vars
    <2>1. TypeOK' /\ ScannerFollows'
      BY <1>3 DEF DiscoveryInv, TypeOK, ScannerFollows, vars, scanner
    <2>2. AttributesAreRemoved' /\ StructsHaveMembers' /\ DeclarationsAreKept'
      BY <1>3 DEF DiscoveryInv, AttributesAreRemoved, StructsHaveMembers, DeclarationsAreKept,
                  vars, scanner
    <2>3. StubsAreTheUndefined' /\ CalledHaveStubs'
      BY <1>3 DEF DiscoveryInv, StubsAreTheUndefined, CalledHaveStubs, ParseError, vars, scanner
    <2> QED
      BY <2>1, <2>2, <2>3 DEF DiscoveryInv
  <1> QED
    BY <1>1, <1>2, <1>3 DEF Next

\* At every step of the discovery the flags tell what the next line is inside of, nothing of
\* an attribute or an asm statement gets through, and everything declared does
\* (_rewrite_cproblems, find_nondet_methods).
THEOREM DiscoveryCorrect == Spec => []DiscoveryInv
  <1>1. Init => DiscoveryInv
    BY InitImpliesInv
  <1>2. DiscoveryInv /\ [Next]_vars => DiscoveryInv'
    BY NextPreservesInv
  <1> QED
    BY <1>1, <1>2, PTL DEF Spec

\* Whatever the scanner removes, across however many lines, it keeps every declaration, in
\* order, unless a line is ambiguous (_rewrite_cproblems).
THEOREM DeclarationsKept == Spec => []DeclarationsAreKept
  <1>1. DiscoveryInv => DeclarationsAreKept
    BY DEF DiscoveryInv
  <1> QED
    BY <1>1, DiscoveryCorrect, PTL

\* A program is parsed if no line both began and ended in an attribute (_rewrite_cproblems).
THEOREM CanBeParsed == Spec => []RewrittenCanBeParsed
  <1>1. ASSUME DiscoveryInv
        PROVE  RewrittenCanBeParsed
    <2> SUFFICES ASSUME ~long, ParseError
                 PROVE  FALSE
      BY DEF RewrittenCanBeParsed
    <2>1. ~\E i \in DOMAIN prepared_content : prepared_content[i].kind \in {"open", "close"}
      BY <1>1 DEF DiscoveryInv, AttributesAreRemoved
    <2>2. PICK i \in DOMAIN prepared_content :
             /\ i + 1 \in DOMAIN prepared_content
             /\ prepared_content[i].kind = "struct_open"
             /\ prepared_content[i + 1].kind = "struct_close"
      BY <2>1 DEF ParseError
    <2>3. i \in 1..(Len(prepared_content) - 1)
      BY <1>1, <2>2 DEF DiscoveryInv, TypeOK
    <2> QED
      BY <1>1, <2>2, <2>3 DEF DiscoveryInv, StructsHaveMembers
  <1>2. DiscoveryInv => RewrittenCanBeParsed
    BY <1>1
  <1> QED
    BY <1>2, DiscoveryCorrect, PTL

\* A parsed program gets a stub for what it declares and does not define, once, for nothing
\* else and never for the error method (_find_undefined_methods).
THEOREM StubsUndefined == Spec => []StubsAreTheUndefined
  <1>1. DiscoveryInv => StubsAreTheUndefined
    BY DEF DiscoveryInv
  <1> QED
    BY <1>1, DiscoveryCorrect, PTL

\* Whether a program is parsed or searched, the nondeterministic methods it calls have stubs
\* (find_nondet_methods).
THEOREM CalledStubs == Spec => []CalledHaveStubs
  <1>1. DiscoveryInv => CalledHaveStubs
    BY DEF DiscoveryInv
  <1> QED
    BY <1>1, DiscoveryCorrect, PTL
=============================================================================
