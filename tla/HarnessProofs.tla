---------------------------- MODULE HarnessProofs ----------------------------
(* Proofs about Harness and about InputValues, which it is built on, for   *)
(* every base, every size of unsigned long long and every value, those of  *)
(* the code among them, every number of variables and every order of       *)
(* calls.  The first part is about one value and its text.                 *)
EXTENDS Harness, NaturalRecursion, SequenceTheorems

Digit == 0..(Base - 1)

-----------------------------------------------------------------------------
(* Arithmetic *)

\* The base is a number other than zero, and so is the size of unsigned long long.
LEMMA BaseIsNumber == Base \in Nat \ {0} /\ Base > 1 /\ LongLong \in Nat \ {0}
  BY ValuesAssumption

\* Quotient and remainder are unique.
LEMMA DivUnique ==
  ASSUME NEW q \in Nat, NEW p \in Nat \ {0}, NEW r \in 0..(p - 1)
  PROVE  (p * q + r) \div p = q /\ (p * q + r) % p = r
  OBVIOUS

\* A number is its quotient and its remainder.
LEMMA DivMod ==
  ASSUME NEW n \in Nat, NEW p \in Nat \ {0}
  PROVE  /\ n \div p \in Nat /\ n % p \in 0..(p - 1)
         /\ n = p * (n \div p) + (n % p)
  <1>1. p \in Int /\ p > 0
    OBVIOUS
  <1>2. n = p * (n \div p) + (n % p) /\ n % p \in 0..(p - 1)
    BY <1>1
  <1>3. n \div p \in Int
    OBVIOUS
  <1>4. n \div p >= 0
    OBVIOUS
  <1> QED
    BY <1>2, <1>3, <1>4

\* A number with one more digit is a number.
LEMMA OneMoreDigit ==
  ASSUME NEW a \in Nat, NEW b \in Nat, NEW c \in Nat
  PROVE  a * b + c \in Nat
  OBVIOUS

\* Products of numbers are numbers, and factors can be compared.
LEMMA Products ==
  ASSUME NEW a \in Nat, NEW b \in Nat, NEW c \in Nat, a <= b
  PROVE  a * c \in Nat /\ b * c \in Nat /\ a * c <= b * c
  OBVIOUS

\* A digit before a number below p makes a number below Base * p.
LEMMA Shift ==
  ASSUME NEW p \in Nat \ {0}, NEW d \in 0..(Base - 1), NEW r \in 0..(p - 1)
  PROVE  Base * p \in Nat \ {0} /\ p * d + r \in 0..(Base * p - 1)
  <1>1. Base \in Nat \ {0} /\ d \in Nat /\ d <= Base - 1 /\ r \in Nat /\ r < p
    BY BaseIsNumber
  <1>2. p * d \in Nat /\ p * d <= p * (Base - 1) /\ p * (Base - 1) = Base * p - p
    BY <1>1
  <1>3. Base * p \in Nat \ {0}
    BY <1>1
  <1> QED
    BY <1>1, <1>2, <1>3

\* The powers of the base.
LEMMA PowerProperties ==
  /\ Power[0] = 1
  /\ \A n \in Nat : Power[n] \in Nat \ {0} /\ Power[n + 1] = Base * Power[n]
  <1> DEFINE S == Nat \ {0}
             g == [n \in Nat |-> [x \in S |-> Base * x]]
  <1>1. Base \in S
    BY BaseIsNumber
  <1>2. \A x \in S : Base * x \in S
    BY <1>1
  <1> HIDE DEF S
  <1>3. g \in [Nat -> [S -> S]] /\ 1 \in S
    <2>1. 1 \in S
      BY DEF S
    <2>2. [x \in S |-> Base * x] \in [S -> S]
      BY <1>2
    <2> QED
      BY <2>1, <2>2
  <1>9. \A n \in Nat, x \in S : g[n][x] = Base * x
    OBVIOUS
  <1> HIDE DEF g
  <1>4. PICK f \in [Nat -> S] : f[0] = 1 /\ \A n \in Nat : f[n + 1] = g[n][f[n]]
    <2> DEFINE a == 1
    <2>1. a \in S
      BY <1>3
    <2> HIDE DEF a
    <2>2. \E f : IsRecursive(f, S, a, g)
      BY <1>3, <2>1, Recursion
    <2> QED
      BY <2>2 DEF IsRecursive, a
  <1>5. f = [n \in Nat |-> IF n = 0 THEN 1 ELSE Base * f[n - 1]]
    <2> SUFFICES ASSUME NEW n \in Nat, n # 0
                 PROVE  f[n] = Base * f[n - 1]
      BY <1>4
    <2>1. n - 1 \in Nat /\ (n - 1) + 1 = n
      OBVIOUS
    <2> QED
      BY <1>4, <1>9, <2>1
  <1>6. Power = [n \in Nat |-> IF n = 0 THEN 1 ELSE Base * Power[n - 1]]
    BY <1>5 DEF Power
  <1>7. Power[0] = 1 /\ \A n \in Nat : Power[n + 1] = Base * Power[n]
    BY <1>6
  <1> DEFINE T == {n \in Nat : Power[n] \in S}
  <1>8. Nat \subseteq T
    <2>1. 0 \in T
      BY <1>3, <1>7
    <2>2. \A n \in Nat : n \in T => n + 1 \in T
      BY <1>2, <1>7
    <2> HIDE DEF T
    <2> QED
      BY <2>1, <2>2, SetInduction
  <1> QED
    BY <1>7, <1>8 DEF S

\* The largest unsigned long long.
LEMMA LargestIsNumber == ULLONG_MAX \in Nat /\ ULLONG_MAX + 1 = Power[2 * LongLong]
  <1> DEFINE n == Power[2 * LongLong]
  <1>1. 2 * LongLong \in Nat
    BY BaseIsNumber
  <1>2. n \in Nat \ {0}
    BY <1>1, PowerProperties
  <1>3. ULLONG_MAX = n - 1
    BY DEF ULLONG_MAX
  <1> HIDE DEF n
  <1>4. ULLONG_MAX \in Nat /\ ULLONG_MAX + 1 = n
    BY <1>2, <1>3
  <1> QED
    BY <1>4 DEF n

\* They increase.
LEMMA PowerIncreases ==
  ASSUME NEW m \in Nat, NEW n \in Nat, m <= n
  PROVE  Power[m] <= Power[n]
  <1> DEFINE T == {k \in Nat : Power[m] <= Power[m + k]}
  <1>1. Power[m] \in Nat
    BY PowerProperties
  <1>2. 0 \in T
    BY <1>1
  <1>3. ASSUME NEW k \in Nat, k \in T
        PROVE  k + 1 \in T
    <2>1. m + k \in Nat /\ m + (k + 1) = (m + k) + 1
      OBVIOUS
    <2>2. Power[m + k] \in Nat /\ Power[m + (k + 1)] = Base * Power[m + k]
      BY <2>1, PowerProperties
    <2>3. 1 * Power[m + k] <= Base * Power[m + k] /\ Base * Power[m + k] \in Nat
      BY <2>2, Products, BaseIsNumber
    <2>4. Power[m] <= Power[m + k]
      BY <1>3
    <2> QED
      BY <1>1, <2>2, <2>3, <2>4
  <1> HIDE DEF T
  <1>4. n - m \in T
    BY <1>2, <1>3, SetInduction
  <1> QED
    BY <1>4 DEF T

-----------------------------------------------------------------------------
(* Numbers *)

\* The numbers of the first digits of a text.
IsValue(v, t) ==
    /\ v \in [0..Len(t) -> Nat]
    /\ v[0] = 0
    /\ \A n \in 0..(Len(t) - 1) : v[n + 1] = Base * v[n] + t[n + 1]

\* What strtoull reads is the last of them.
LEMMA NumberIsValue ==
  ASSUME NEW t \in Seq(Digit)
  PROVE  \E v : IsValue(v, t) /\ Number(t) = v[Len(t)]
  <1> DEFINE digit(n) == IF n + 1 \in DOMAIN t THEN t[n + 1] ELSE 0
             g == [n \in Nat |-> [x \in Nat |-> Base * x + digit(n)]]
             F(v) == [n \in 0..Len(t) |-> IF n = 0 THEN 0 ELSE Base * v[n - 1] + t[n]]
  <1>1. \A n \in Nat : digit(n) \in Nat
    BY BaseIsNumber DEF Digit
  <1>2. Len(t) \in Nat /\ DOMAIN t = 1..Len(t) /\ \A n \in 1..Len(t) : t[n] \in Nat /\ digit(n - 1) = t[n]
    BY BaseIsNumber DEF Digit
  <1> HIDE DEF digit
  <1>11. \A n \in Nat, x \in Nat : Base * x + digit(n) \in Nat
    <2> SUFFICES ASSUME NEW n \in Nat, NEW x \in Nat
                 PROVE  Base * x + digit(n) \in Nat
      OBVIOUS
    <2> QED
      BY <1>1, BaseIsNumber, OneMoreDigit
  <1>3. g \in [Nat -> [Nat -> Nat]] /\ \A n \in Nat, x \in Nat : g[n][x] = Base * x + digit(n)
    BY <1>11
  <1> HIDE DEF g
  <1>4. PICK f \in [Nat -> Nat] : f[0] = 0 /\ \A n \in Nat : f[n + 1] = g[n][f[n]]
    <2> DEFINE a == 0
    <2>1. a \in Nat
      OBVIOUS
    <2> HIDE DEF a
    <2>2. \E f : IsRecursive(f, Nat, a, g)
      BY <1>3, <2>1, Recursion
    <2> QED
      BY <2>2 DEF IsRecursive, a
  <1> DEFINE w == [n \in 0..Len(t) |-> f[n]]
  <1>5. w = F(w)
    <2>1. \A n \in 0..Len(t) : w[n] = IF n = 0 THEN 0 ELSE Base * w[n - 1] + t[n]
      <3> SUFFICES ASSUME NEW n \in 0..Len(t), n # 0
                   PROVE  f[n] = Base * f[n - 1] + t[n]
        <4>1. w[0] = 0
          BY <1>2, <1>4
        <4>2. \A n \in 0..Len(t) : n # 0 => w[n] = f[n] /\ w[n - 1] = f[n - 1]
          BY <1>2
        <4> HIDE DEF w
        <4> QED
          BY <4>1, <4>2
      <3>1. n - 1 \in Nat /\ (n - 1) + 1 = n /\ n \in 1..Len(t) /\ f[n - 1] \in Nat
        BY <1>2, <1>4
      <3>2. f[n] = g[n - 1][f[n - 1]]
        BY <1>4, <3>1
      <3> QED
        BY <1>2, <1>3, <3>1, <3>2
    <2> QED
      BY <2>1
  <1> HIDE DEF w
  <1> DEFINE v == CHOOSE u : u = F(u)
  <1>6. v = F(v)
    BY <1>5
  <1>7. Number(t) = v[Len(t)]
    BY DEF Number
  <1> HIDE DEF v
  <1>12. \A n \in 0..Len(t) : v[n] = IF n = 0 THEN 0 ELSE Base * v[n - 1] + t[n]
    BY <1>6
  <1>8. v[0] = 0 /\ \A n \in 0..(Len(t) - 1) : v[n + 1] = Base * v[n] + t[n + 1]
    <2>1. v[0] = 0
      BY <1>2, <1>12
    <2>2. ASSUME NEW n \in 0..(Len(t) - 1)
          PROVE  v[n + 1] = Base * v[n] + t[n + 1]
      <3>1. n + 1 \in 0..Len(t) /\ n + 1 # 0 /\ (n + 1) - 1 = n
        BY <1>2
      <3> QED
        BY <1>12, <3>1
    <2> QED
      BY <2>1, <2>2
  <1> DEFINE T == {n \in Nat : n <= Len(t) => v[n] \in Nat}
  <1>9. Nat \subseteq T
    <2>1. 0 \in T
      BY <1>8
    <2>2. ASSUME NEW n \in Nat, n \in T
          PROVE  n + 1 \in T
      <3> SUFFICES ASSUME n + 1 <= Len(t)
                   PROVE  v[n + 1] \in Nat
        OBVIOUS
      <3>1. v[n] \in Nat /\ n + 1 \in DOMAIN t /\ t[n + 1] \in Nat
        BY <1>2, <2>2 DEF Digit
      <3>2. v[n + 1] = Base * v[n] + t[n + 1]
        BY <1>2, <1>8
      <3> QED
        BY <3>1, <3>2, BaseIsNumber, OneMoreDigit
    <2> HIDE DEF T
    <2> QED
      BY <2>1, <2>2, SetInduction
  <1>10. v \in [0..Len(t) -> Nat]
    <2>1. v = [n \in 0..Len(t) |-> v[n]]
      BY <1>6
    <2>2. \A n \in 0..Len(t) : v[n] \in Nat
      BY <1>2, <1>9
    <2> QED
      BY <2>1, <2>2
  <1> QED
    BY <1>7, <1>8, <1>10 DEF IsValue

\* Without its last digits, a number is divided by a power of the base.
LEMMA ValueOfPrefix ==
  ASSUME NEW t \in Seq(Digit), NEW v, IsValue(v, t), NEW j \in 0..Len(t)
  PROVE  /\ v[Len(t)] \div Power[j] = v[Len(t) - j]
         /\ v[Len(t)] < Power[Len(t)]
  <1> DEFINE K == Len(t)
             T == {n \in Nat : n <= K => \E r \in 0..(Power[n] - 1) : v[K] = Power[n] * v[K - n] + r}
  <1>1. K \in Nat /\ DOMAIN t = 1..K /\ \A n \in 0..K : v[n] \in Nat
    BY DEF IsValue
  <1>2. 0 \in T
    <2>1. v[K] = 1 * v[K - 0] + 0
      BY <1>1
    <2>2. Power[0] = 1
      BY PowerProperties
    <2>3. 0 \in 0..(Power[0] - 1) /\ v[K] = Power[0] * v[K - 0] + 0
      BY <2>1, <2>2
    <2>4. \E r \in 0..(Power[0] - 1) : v[K] = Power[0] * v[K - 0] + r
      BY <2>3
    <2> QED
      BY <2>4
  <1>3. ASSUME NEW n \in Nat, n \in T
        PROVE  n + 1 \in T
    <2> SUFFICES ASSUME n + 1 <= K
                 PROVE  \E r \in 0..(Power[n + 1] - 1) : v[K] = Power[n + 1] * v[K - (n + 1)] + r
      OBVIOUS
    <2> DEFINE p == Power[n]
               u == v[K - (n + 1)]
               d == t[K - n]
    <2>1. PICK r \in 0..(p - 1) : v[K] = p * v[K - n] + r
      BY <1>1, <1>3
    <2>2. p \in Nat \ {0} /\ Power[n + 1] = Base * p
      BY PowerProperties
    <2>3. u \in Nat /\ K - n \in DOMAIN t
      BY <1>1
    <2>4. d \in Digit
      BY <2>3
    <2>5. v[K - n] = Base * u + d
      <3>1. K - (n + 1) \in 0..(K - 1) /\ (K - (n + 1)) + 1 = K - n
        BY <1>1
      <3> QED
        BY <3>1 DEF IsValue
    <2> HIDE DEF p, u, d
    <2>6. Base \in Nat /\ d \in Nat /\ d <= Base - 1 /\ r \in Nat /\ r < p
      BY <2>1, <2>2, <2>4, BaseIsNumber DEF Digit
    <2>7. p * (Base * u + d) + r = (Base * p) * u + (p * d + r)
      BY <2>2, <2>3, <2>6
    <2>8. p * d + r \in 0..(Base * p - 1)
      BY <2>1, <2>2, <2>4, Shift DEF Digit
    <2> QED
      BY <2>1, <2>2, <2>5, <2>7, <2>8 DEF u
  <1> HIDE DEF T
  <1>4. Nat \subseteq T
    BY <1>2, <1>3, SetInduction
  <1>5. v[K] \div Power[j] = v[K - j]
    <2>1. PICK r \in 0..(Power[j] - 1) : v[K] = Power[j] * v[K - j] + r
      BY <1>1, <1>4 DEF T
    <2> DEFINE p == Power[j]
               q == v[K - j]
    <2>2. q \in Nat /\ p \in Nat \ {0}
      BY <1>1, PowerProperties
    <2>3. r \in 0..(p - 1) /\ v[K] = p * q + r
      BY <2>1
    <2> HIDE DEF p, q
    <2>4. v[K] \div p = q
      BY <2>2, <2>3, DivUnique
    <2> QED
      BY <2>4 DEF p, q
  <1>6. v[K] < Power[K]
    <2>1. PICK r \in 0..(Power[K] - 1) : v[K] = Power[K] * v[K - K] + r
      BY <1>1, <1>4 DEF T
    <2>2. v[K - K] = 0 /\ Power[K] \in Nat \ {0}
      BY <1>1, PowerProperties DEF IsValue
    <2> QED
      BY <2>1, <2>2
  <1> QED
    BY <1>5, <1>6

-----------------------------------------------------------------------------
(* Values written as memory *)

\* The two digits of a byte are digits, and stand for it.
LEMMA DigitsOfByte ==
  ASSUME NEW b \in Byte
  PROVE  /\ b \div Base \in Digit /\ b % Base \in Digit
         /\ b = Base * (b \div Base) + (b % Base)
         /\ b \in Nat /\ b < Base * Base
  <1> DEFINE q == b \div Base
             r == b % Base
  <1>1. b \in Nat /\ b <= Base * Base - 1 /\ Base * Base \in Int
    BY BaseIsNumber DEF Byte
  <1>2. q \in Nat /\ r \in 0..(Base - 1) /\ b = Base * q + r
    BY <1>1, BaseIsNumber, DivMod
  <1> HIDE DEF q, r
  <1>3. q <= Base - 1
    <2> SUFFICES ASSUME q >= Base
                 PROVE  FALSE
      BY <1>2, BaseIsNumber
    <2>1. Base * Base <= q * Base
      BY <1>2, BaseIsNumber, Products
    <2>2. q * Base = Base * q
      BY <1>2, BaseIsNumber
    <2>3. Base * q \in Int
      BY <1>2, BaseIsNumber
    <2> QED
      BY <1>1, <1>2, <2>1, <2>2, <2>3, BaseIsNumber
  <1> QED
    BY <1>1, <1>2, <1>3, BaseIsNumber DEF Digit, q, r

\* The text that the random tester writes for memory: its bytes in reverse order, each
\* with its two digits.
LEMMA RandomTextDigits ==
  ASSUME NEW m \in Seq(Byte)
  PROVE  /\ RandomText(m) \in Seq(Digit)
         /\ Len(RandomText(m)) = 2 * Len(m)
         /\ \A i \in 1..Len(m) :
                LET n == 2 * (Len(m) - i)
                IN RandomText(m)[n + 1] = m[i] \div Base /\ RandomText(m)[n + 2] = m[i] % Base
  <1> DEFINE L == Len(m)
             digit(j) == Digits(m[L - (j - 1) \div 2])[2 - (j % 2)]
             t == [j \in 1..(2 * L) |-> digit(j)]
  <1>1. L \in Nat /\ \A i \in 1..L : m[i] \in Byte
    OBVIOUS
  <1>2. \A j \in 1..(2 * L) : L - (j - 1) \div 2 \in 1..L /\ 2 - (j % 2) \in {1, 2}
    <2> SUFFICES ASSUME NEW j \in 1..(2 * L)
                 PROVE  L - (j - 1) \div 2 \in 1..L /\ 2 - (j % 2) \in {1, 2}
      OBVIOUS
    <2>1. j \in Int /\ 1 <= j /\ j <= 2 * L
      BY <1>1
    <2>2. (j - 1) \div 2 \in Int /\ 0 <= (j - 1) \div 2 /\ (j - 1) \div 2 <= L - 1
      BY <1>1, <2>1
    <2>3. j % 2 \in {0, 1}
      BY <2>1
    <2> QED
      BY <1>1, <2>2, <2>3
  <1>3. \A b \in Byte, k \in {1, 2} : Digits(b)[k] \in Digit
    BY DigitsOfByte DEF Digits
  <1>4. \A j \in 1..(2 * L) : digit(j) \in Digit
    BY <1>1, <1>2, <1>3
  <1>5. RandomText(m) = t
    BY DEF RandomText
  <1>6. ASSUME NEW i \in 1..L
        PROVE  /\ t[2 * (L - i) + 1] = m[i] \div Base
               /\ t[2 * (L - i) + 2] = m[i] % Base
    <2> DEFINE n == 2 * (L - i)
    <2>1. n + 1 \in 1..(2 * L) /\ n + 2 \in 1..(2 * L)
      BY <1>1
    <2>2. L - ((n + 1) - 1) \div 2 = i /\ L - ((n + 2) - 1) \div 2 = i
      BY <1>1
    <2>3. 2 - ((n + 1) % 2) = 1 /\ 2 - ((n + 2) % 2) = 2
      BY <1>1
    <2>4. t[n + 1] = digit(n + 1) /\ t[n + 2] = digit(n + 2)
      BY <2>1
    <2>5. t[n + 1] = Digits(m[i])[1] /\ t[n + 2] = Digits(m[i])[2]
      BY <2>2, <2>3, <2>4
    <2> QED
      BY <2>5 DEF Digits
  <1> HIDE DEF digit
  <1>7. t \in Seq(Digit) /\ Len(t) = 2 * L
    BY <1>1, <1>4
  <1> QED
    BY <1>5, <1>6, <1>7

\* The number that strtoull reads from digits, if there are not too many of them.
LEMMA DigitsAreRead ==
  ASSUME NEW t \in Seq(Digit), Len(t) <= 2 * LongLong
  PROVE  \E v : IsValue(v, t) /\ strtoull(t) = v[Len(t)]
  <1>1. PICK v : IsValue(v, t) /\ Number(t) = v[Len(t)]
    BY NumberIsValue
  <1>2. Len(t) \in Nat /\ 2 * LongLong \in Nat /\ v[Len(t)] \in Nat
    BY <1>1, BaseIsNumber DEF IsValue
  <1>3. v[Len(t)] < Power[Len(t)]
    <2>1. 0 \in 0..Len(t)
      BY <1>2
    <2> QED
      BY <1>1, <2>1, ValueOfPrefix
  <1>4. Power[Len(t)] <= Power[2 * LongLong] /\ Power[Len(t)] \in Nat /\ Power[2 * LongLong] \in Nat
    BY <1>2, PowerIncreases, PowerProperties
  <1>5. v[Len(t)] <= ULLONG_MAX
    BY <1>2, <1>3, <1>4 DEF ULLONG_MAX
  <1>6. ULLONG_MAX \in Int
    BY <1>4 DEF ULLONG_MAX
  <1>7. ~(t # <<>> /\ Head(t) = Minus)
    <2>1. Minus \notin Digit
      BY ValuesAssumption DEF Digit
    <2>2. t # <<>> => Head(t) \in Digit
      OBVIOUS
    <2> QED
      BY <2>1, <2>2
  <1>8. strtoull(t) = v[Len(t)]
    <2>1. ~(Number(t) > ULLONG_MAX)
      BY <1>1, <1>2, <1>5, <1>6
    <2> QED
      BY <1>1, <1>7, <2>1 DEF strtoull
  <1> QED
    BY <1>1, <1>8

\* A value survives the way from the memory of the random tester, through the text of
\* its test file and the hex notation of the converter, to the memory of the harness:
\* parse_inp returns the bytes that were written, in their order, for every value that
\* unsigned long long can hold.
THEOREM RandomRoundTrip ==
  ASSUME NEW m \in Seq(Byte), Len(m) <= LongLong
  PROVE  ParsedBytes(RandomText(m), Len(m)) = {m}
  <1> DEFINE L == Len(m)
             t == RandomText(m)
  <1>1. L \in Nat /\ \A i \in 1..L : m[i] \in Byte
    OBVIOUS
  <1>2. /\ t \in Seq(Digit) /\ Len(t) = 2 * L
        /\ \A i \in 1..L : /\ t[2 * (L - i) + 1] = m[i] \div Base
                           /\ t[2 * (L - i) + 2] = m[i] % Base
    BY RandomTextDigits
  <1> HIDE DEF t
  <1>3. PICK v : IsValue(v, t) /\ strtoull(t) = v[Len(t)]
    <2>1. Len(t) <= 2 * LongLong
      BY <1>1, <1>2, BaseIsNumber
    <2> QED
      BY <1>2, <2>1, DigitsAreRead
  <1>4. ASSUME NEW i \in 1..L
        PROVE  ByteOf(strtoull(t), i) = m[i]
    <2> DEFINE n == 2 * (L - i)
               b == m[i]
               high == b \div Base
               low == b % Base
    <2>1. n \in 0..(Len(t) - 2) /\ 2 * (i - 1) \in 0..Len(t) /\ Len(t) - 2 * (i - 1) = n + 2
      BY <1>1, <1>2
    <2>2. strtoull(t) \div Power[2 * (i - 1)] = v[n + 2]
      BY <1>2, <1>3, <2>1, ValueOfPrefix
    <2>3. n \in 0..(Len(t) - 1) /\ n + 1 \in 0..(Len(t) - 1) /\ (n + 1) + 1 = n + 2
      BY <1>1, <1>2, <2>1
    <2>4. v[n] \in Nat /\ v[n + 1] = Base * v[n] + high /\ v[n + 2] = Base * v[n + 1] + low
      <3>1. t[n + 1] = high /\ t[n + 2] = low
        BY <1>2
      <3>2. v[n] \in Nat
        BY <1>2, <1>3, <2>1 DEF IsValue
      <3>3. v[n + 1] = Base * v[n] + t[n + 1]
        BY <1>3, <2>3 DEF IsValue
      <3>4. v[(n + 1) + 1] = Base * v[n + 1] + t[(n + 1) + 1]
        BY <1>3, <2>3 DEF IsValue
      <3> QED
        BY <2>3, <3>1, <3>2, <3>3, <3>4
    <2> HIDE DEF n
    <2>5. /\ high \in Nat /\ low \in Nat
          /\ b = Base * high + low /\ b \in Nat /\ b < Base * Base
      <3>1. b \in Byte
        BY <1>1
      <3> HIDE DEF b
      <3>2. /\ b \div Base \in Digit /\ b % Base \in Digit
            /\ b = Base * (b \div Base) + (b % Base)
            /\ b \in Nat /\ b < Base * Base
        BY <3>1, DigitsOfByte
      <3>3. \A d \in Digit : d \in Nat
        BY BaseIsNumber DEF Digit
      <3> QED
        BY <3>2, <3>3
    <2> HIDE DEF high, low
    <2>6. v[n + 2] = (Base * Base) * v[n] + b
      BY <2>4, <2>5, BaseIsNumber
    <2>7. Base * Base \in Nat \ {0} /\ b \in 0..(Base * Base - 1)
      BY <2>5, BaseIsNumber
    <2>8. v[n + 2] % (Base * Base) = b
      <3> DEFINE square == Base * Base
                 rest == v[n]
      <3>1. square \in Nat \ {0} /\ rest \in Nat /\ b \in 0..(square - 1)
        BY <2>4, <2>7
      <3> HIDE DEF b, square, rest
      <3>2. (square * rest + b) % square = b
        BY <3>1, DivUnique
      <3> QED
        BY <2>6, <3>2 DEF square, rest
    <2> QED
      BY <2>2, <2>8 DEF ByteOf
  <1>5. \A garbage :
            [i \in 1..L |-> IF i <= LongLong THEN ByteOf(strtoull(t), i) ELSE garbage] = m
    BY <1>1, <1>4, BaseIsNumber
  <1>6. ParsedBytes(t, L) = {m}
    BY <1>5 DEF ParsedBytes
  <1> QED
    BY <1>6 DEF t

-----------------------------------------------------------------------------
(* Characters *)

\* Digits are characters, and no other character is a digit.
LEMMA DigitsAreCharacters ==
  /\ Digit \subseteq Characters /\ LetterB \in Digit
  /\ {Minus, Quote, Apostrophe, Colon, Space, NoDigit} \subseteq Characters
  /\ Minus \notin Digit /\ Quote \notin Digit /\ Escape \notin Digit
  /\ Apostrophe \notin Digit /\ Colon \notin Digit /\ Space \notin Digit
  /\ Quote # Minus /\ Quote # NoDigit /\ NoDigit # Minus
  /\ Apostrophe # Colon /\ Apostrophe # Space /\ Colon # Space
  /\ Escape \notin {Apostrophe, Colon, Space}
  BY ValuesAssumption DEF Characters, Digit

\* Short texts, character by character.
LEMMA ShortTexts ==
  ASSUME NEW C, NEW c \in C, NEW d \in C, NEW e \in C
  PROVE  Append(<<d>>, e) = <<d, e>> /\ <<c>> \o <<d, e>> = <<c, d, e>>
  <1>1. Append(<<d>>, e) = <<d, e>>
    <2>1. <<d>> \in Seq(C) /\ Len(<<d>>) = 1 /\ <<d>>[1] = d
      OBVIOUS
    <2>2. LET s == Append(<<d>>, e) IN s \in Seq(C) /\ Len(s) = 2 /\ s[1] = d /\ s[2] = e
      BY <2>1, AppendProperties
    <2>3. <<d, e>> \in Seq(C) /\ Len(<<d, e>>) = 2 /\ <<d, e>>[1] = d /\ <<d, e>>[2] = e
      OBVIOUS
    <2>4. \A s \in Seq(C), t \in Seq(C) :
            Len(s) = 2 /\ Len(t) = 2 /\ s[1] = t[1] /\ s[2] = t[2] => s = t
      OBVIOUS
    <2> QED
      BY <2>2, <2>3, <2>4
  <1>2. <<c>> \o <<d, e>> = <<c, d, e>>
    <2> DEFINE x == <<c>>
               y == <<d, e>>
    <2>1. /\ x \in Seq(C) /\ Len(x) = 1 /\ x[1] = c
          /\ y \in Seq(C) /\ Len(y) = 2 /\ y[1] = d /\ y[2] = e
      OBVIOUS
    <2> HIDE DEF x, y
    <2>2. /\ x \o y \in Seq(C) /\ Len(x \o y) = Len(x) + Len(y)
          /\ \A i \in 1..(Len(x) + Len(y)) : (x \o y)[i] = IF i <= Len(x) THEN x[i] ELSE y[i - Len(x)]
      BY <2>1, ConcatProperties
    <2> DEFINE s == x \o y
    <2>3. s \in Seq(C) /\ Len(s) = 3 /\ s[1] = c /\ s[2] = d /\ s[3] = e
      BY <2>1, <2>2
    <2>4. LET t == <<c, d, e>> IN t \in Seq(C) /\ Len(t) = 3 /\ t[1] = c /\ t[2] = d /\ t[3] = e
      OBVIOUS
    <2> HIDE DEF s
    <2>5. \A t \in Seq(C) :
            Len(t) = 3 /\ t[1] = c /\ t[2] = d /\ t[3] = e => s = t
      BY <2>3
    <2> QED
      BY <2>4, <2>5 DEF s, x, y
  <1> QED
    BY <1>1, <1>2

\* The place of a character in a text.
LEMMA FindIsPlace ==
  ASSUME NEW C, NEW t \in Seq(C), NEW c
  PROVE  /\ find(t, c) \in 0..Len(t)
         /\ (\A i \in 1..Len(t) : t[i] # c) => find(t, c) = 0
         /\ \A j \in 1..Len(t) :
              t[j] = c /\ (\A i \in 1..(j - 1) : t[i] # c) => find(t, c) = j
  <1> DEFINE places == {i \in DOMAIN t : t[i] = c}
  <1>1. DOMAIN t = 1..Len(t) /\ Len(t) \in Nat
    OBVIOUS
  <1>2. places \subseteq 1..Len(t)
    BY <1>1
  <1>3. find(t, c) = IF places = {} THEN 0 ELSE Min(places)
    BY DEF find
  <1>4. ASSUME places # {}
        PROVE  Min(places) \in places /\ \A i \in places : Min(places) <= i
    <2>1. places \subseteq Nat
      BY <1>1, <1>2
    <2>2. \E x \in places : \A y \in places : x <= y
      BY <1>4, <2>1, LeastNumber
    <2> HIDE DEF places
    <2> QED
      BY <2>2 DEF Min
  <1>5. ASSUME NEW j \in 1..Len(t), t[j] = c, \A i \in 1..(j - 1) : t[i] # c
        PROVE  find(t, c) = j
    <2>1. j \in places
      BY <1>1, <1>5
    <2>2. Min(places) \in 1..Len(t) /\ Min(places) <= j
      BY <1>2, <1>4, <2>1
    <2>3. t[Min(places)] = c
      BY <1>4, <2>1
    <2> HIDE DEF places
    <2>4. ~(Min(places) < j)
      BY <1>5, <2>2, <2>3
    <2>5. Min(places) = j
      BY <2>2, <2>4
    <2> QED
      BY <1>3, <2>1, <2>5
  <1>6. find(t, c) \in 0..Len(t)
    <2>1. places # {} => Min(places) \in 1..Len(t)
      BY <1>2, <1>4
    <2> HIDE DEF places
    <2> QED
      BY <1>1, <1>3, <2>1
  <1>7. (\A i \in 1..Len(t) : t[i] # c) => find(t, c) = 0
    BY <1>1, <1>3
  <1> QED
    BY <1>5, <1>6, <1>7

\* strip() leaves the beginning of a text, and all of it if it does not end with a space.
LEMMA StripIsPrefix ==
  ASSUME NEW C, NEW t \in Seq(C)
  PROVE  /\ strip(t) \in Seq(C)
         /\ t # <<>> /\ t[Len(t)] # Space => strip(t) = t
  <1> DEFINE ends == {0} \cup {i \in DOMAIN t : t[i] # Space}
             L == Len(t)
  <1>1. L \in Nat /\ DOMAIN t = 1..L /\ ends \subseteq 0..L /\ 0 \in ends
    OBVIOUS
  <1>2. strip(t) = SubSeq(t, 1, Max(ends))
    BY DEF strip
  <1>3. (t # <<>> /\ t[L] # Space) => L \in ends
    OBVIOUS
  <1> HIDE DEF ends
  <1>4. Max(ends) \in ends /\ \A i \in ends : i <= Max(ends)
    <2> DEFINE behind == {L - i : i \in ends}
    <2>1. \A i \in ends : i \in Nat /\ L - i \in Nat /\ i = L - (L - i)
      BY <1>1
    <2>2. behind \subseteq Nat /\ behind # {}
      BY <1>1, <2>1
    <2>3. PICK k \in behind : \A j \in behind : k <= j
      BY <2>2, LeastNumber
    <2>4. PICK e \in ends : k = L - e
      BY <2>3
    <2>5. \A i \in ends : e >= i
      <3> SUFFICES ASSUME NEW i \in ends
                   PROVE  e >= i
        OBVIOUS
      <3>1. L - e <= L - i
        BY <2>3, <2>4
      <3> QED
        BY <1>1, <2>1, <3>1
    <2>6. Max(ends) \in ends /\ \A i \in ends : Max(ends) >= i
      BY <2>4, <2>5 DEF Max
    <2> QED
      BY <1>1, <2>1, <2>6
  <1>5. Max(ends) \in 0..L
    BY <1>1, <1>4
  <1>6. \A i \in 1..Max(ends) : t[i] \in C
    BY <1>1, <1>5
  <1>7. strip(t) \in Seq(C)
    BY <1>2, <1>5, <1>6, SubSeqProperties
  <1>8. ASSUME t # <<>>, t[L] # Space
        PROVE  strip(t) = t
    <2>1. Max(ends) = L
      BY <1>1, <1>3, <1>4, <1>5, <1>8
    <2> QED
      BY <1>2, <2>1, SubSeqFull
  <1> QED
    BY <1>7, <1>8

-----------------------------------------------------------------------------
(* Values written by KLEE *)

\* What is in a line of ktest-tool.
ReprCharacter == Characters \cup {Escape}

\* The quotes around the bytes, and how one of them is shown.
ReprQuote(m) ==
    LET has(c) == \E b \in ToSet(m) \cap Shown : ReprOf[b] = <<c>>
    IN IF has(Apostrophe) /\ ~has(Quote) THEN Quote ELSE Apostrophe

ReprByte(m, b) ==
    CASE b \notin Shown -> <<Escape>> \o Digits(b)
      [] b \in Shown /\ ReprOf[b] = <<ReprQuote(m)>> -> <<Quote>> \o ReprOf[b]
      [] OTHER -> ReprOf[b]

\* A byte is shown by characters.
LEMMA ReprByteIsText ==
  ASSUME NEW m, NEW b \in Byte
  PROVE  ReprByte(m, b) \in Seq(ReprCharacter)
  <1>1. Quote \in ReprCharacter /\ Escape \in ReprCharacter /\ Characters \subseteq ReprCharacter
    BY DigitsAreCharacters DEF ReprCharacter
  <1>2. CASE b \notin Shown
    <2>1. b \div Base \in ReprCharacter /\ b % Base \in ReprCharacter
      BY <1>1, DigitsOfByte, DigitsAreCharacters
    <2>2. Digits(b) \in Seq(ReprCharacter)
      BY <2>1 DEF Digits
    <2>3. <<Escape>> \in Seq(ReprCharacter)
      BY <1>1
    <2>4. <<Escape>> \o Digits(b) \in Seq(ReprCharacter)
      BY <2>2, <2>3
    <2> QED
      BY <1>2, <2>4 DEF ReprByte
  <1>3. CASE b \in Shown
    <2>1. ReprOf[b] \in Seq(ReprCharacter)
      <3>1. \/ \E c \in Characters \ {Minus} : ReprOf[b] = <<c>>
            \/ \E c \in {Quote, NoDigit} : ReprOf[b] = <<Quote, c>>
        BY <1>3, ValuesAssumption
      <3>2. \A c \in Characters : <<c>> \in Seq(ReprCharacter)
        BY <1>1
      <3>3. \A c \in {Quote, NoDigit} : <<Quote, c>> \in Seq(ReprCharacter)
        BY <1>1, DigitsAreCharacters
      <3> QED
        BY <3>1, <3>2, <3>3
    <2>2. <<Quote>> \in Seq(ReprCharacter)
      BY <1>1
    <2>3. <<Quote>> \o ReprOf[b] \in Seq(ReprCharacter)
      BY <2>1, <2>2
    <2> QED
      BY <1>3, <2>1, <2>3 DEF ReprByte
  <1> QED
    BY <1>2, <1>3

\* A recursive definition has a value: what is between the quotes, byte by byte.
LEMMA ReprBodyExists ==
  ASSUME NEW m \in Seq(Byte)
  PROVE  \E body :
           /\ body \in [0..Len(m) -> Seq(ReprCharacter)]
           /\ body[0] = <<>>
           /\ \A n \in 0..(Len(m) - 1) : body[n + 1] = body[n] \o ReprByte(m, m[n + 1])
           /\ repr(m) = <<LetterB, ReprQuote(m)>> \o body[Len(m)] \o <<ReprQuote(m)>>
  <1> DEFINE S == Seq(ReprCharacter)
             L == Len(m)
             a == <<>>
             step(n, x) == x \o ReprByte(m, m[n])
             g == [n \in Nat |-> [x \in S |-> IF n + 1 \in 1..L THEN step(n + 1, x) ELSE x]]
             F(u) == [n \in 0..L |-> IF n = 0 THEN a ELSE step(n, u[n - 1])]
  <1>1. L \in Nat /\ \A n \in 1..L : m[n] \in Byte
    OBVIOUS
  <1>2. a \in S
    OBVIOUS
  <1>3. \A n \in 1..L, x \in S : step(n, x) \in S
    BY <1>1, ReprByteIsText, ConcatProperties
  <1> DEFINE body == CHOOSE u : u = F(u)
  <1>9. repr(m) = <<LetterB, ReprQuote(m)>> \o body[L] \o <<ReprQuote(m)>>
    BY DEF repr, ReprQuote, ReprByte
  <1> HIDE DEF body
  <1> HIDE DEF step, L
  <1>4. g \in [Nat -> [S -> S]] /\ \A n \in 1..L, x \in S : g[n - 1][x] = step(n, x)
    <2>1. \A n \in Nat : [x \in S |-> IF n + 1 \in 1..L THEN step(n + 1, x) ELSE x] \in [S -> S]
      BY <1>3
    <2>2. ASSUME NEW n \in 1..L, NEW x \in S
          PROVE  g[n - 1][x] = step(n, x)
      <3>1. n - 1 \in Nat /\ (n - 1) + 1 = n
        BY <1>1
      <3> QED
        BY <3>1
    <2> QED
      BY <2>1, <2>2
  <1> HIDE DEF g, S, a
  <1>5. PICK f : Unrolls(f, L, S, a, g)
    BY <1>1, <1>2, <1>4, UnrollsExist
  <1>6. \A n \in 0..L : f[n] = IF n = 0 THEN a ELSE step(n, f[n - 1])
    <2> SUFFICES ASSUME NEW n \in 0..L, n # 0
                 PROVE  f[n] = step(n, f[n - 1])
      BY <1>5 DEF Unrolls
    <2>1. n \in 1..L /\ n - 1 \in 0..(L - 1) /\ n - 1 \in 0..L /\ (n - 1) + 1 = n
      BY <1>1
    <2>2. f[n - 1] \in S
      BY <1>5, <2>1 DEF Unrolls
    <2>3. f[n] = g[n - 1][f[n - 1]]
      <3>1. f[(n - 1) + 1] = g[n - 1][f[n - 1]]
        BY <1>5, <2>1 DEF Unrolls
      <3> QED
        BY <2>1, <3>1
    <2> QED
      BY <1>4, <2>1, <2>2, <2>3
  <1>7. f = F(f)
    <2>1. f = [n \in 0..L |-> f[n]]
      BY <1>5 DEF Unrolls
    <2> QED
      BY <1>6, <2>1
  <1>8. body = F(body)
    BY <1>7 DEF body
  <1>10. \A n \in 0..L : body[n] = IF n = 0 THEN a ELSE step(n, body[n - 1])
    BY <1>8
  <1>11. ASSUME NEW n \in 0..(L - 1)
         PROVE  body[n + 1] = step(n + 1, body[n])
    <2>1. n + 1 \in 0..L /\ n + 1 # 0 /\ (n + 1) - 1 = n
      BY <1>1
    <2> QED
      BY <1>10, <2>1
  <1> DEFINE T == {n \in Nat : n <= L => body[n] \in S}
  <1>12. Nat \subseteq T
    <2>1. 0 \in T
      BY <1>1, <1>2, <1>10
    <2>2. ASSUME NEW n \in Nat, n \in T
          PROVE  n + 1 \in T
      <3> SUFFICES ASSUME n + 1 <= L
                   PROVE  body[n + 1] \in S
        OBVIOUS
      <3>1. n + 1 \in 1..L /\ n \in 0..(L - 1)
        BY <1>1
      <3>2. body[n] \in S
        BY <1>1, <2>2
      <3> QED
        BY <1>3, <1>11, <3>1, <3>2
    <2> HIDE DEF T
    <2> QED
      BY <2>1, <2>2, SetInduction
  <1>13. body \in [0..L -> S]
    <2>1. body = [n \in 0..L |-> body[n]]
      BY <1>8
    <2>2. \A n \in 0..L : body[n] \in S
      BY <1>1, <1>12
    <2> QED
      BY <2>1, <2>2
  <1>14. body[0] = a
    BY <1>1, <1>10
  <1> QED
    BY <1>9, <1>11, <1>13, <1>14 DEF S, a, step, L

\* A line of ktest-tool consists of characters.
LEMMA ReprIsText ==
  ASSUME NEW m \in Seq(Byte)
  PROVE  repr(m) \in Seq(ReprCharacter)
  <1>1. PICK body :
          /\ body \in [0..Len(m) -> Seq(ReprCharacter)]
          /\ repr(m) = <<LetterB, ReprQuote(m)>> \o body[Len(m)] \o <<ReprQuote(m)>>
    BY ReprBodyExists
  <1>2. LetterB \in ReprCharacter /\ ReprQuote(m) \in ReprCharacter
    <2>1. ReprQuote(m) \in {Quote, Apostrophe}
      BY DEF ReprQuote
    <2> QED
      BY <2>1, DigitsAreCharacters DEF ReprCharacter
  <1>3. <<LetterB, ReprQuote(m)>> \in Seq(ReprCharacter) /\ <<ReprQuote(m)>> \in Seq(ReprCharacter)
    BY <1>2
  <1>4. body[Len(m)] \in Seq(ReprCharacter)
    BY <1>1
  <1> QED
    BY <1>1, <1>3, <1>4

\* What is read from a line are characters of the line.
LEMMA GetValueIsText ==
  ASSUME NEW C, NEW t \in Seq(C)
  PROVE  _get_value(t) \in Seq(C)
  <1> DEFINE colon == find(t, Colon)
             cut == IF colon = 0 THEN t ELSE SubSeq(t, 1, colon - 1)
             value == strip(cut)
  <1>1. cut \in Seq(C)
    <2>1. colon \in 0..Len(t)
      BY FindIsPlace
    <2> HIDE DEF colon
    <2>2. colon # 0 => \A i \in 1..(colon - 1) : t[i] \in C
      BY <2>1
    <2>3. colon # 0 => SubSeq(t, 1, colon - 1) \in Seq(C)
      BY <2>1, <2>2, SubSeqProperties
    <2> QED
      BY <2>3
  <1>2. _get_value(t) = SubSeq(value, find(value, Apostrophe) + 1, Len(value) - 1)
    BY DEF _get_value
  <1> HIDE DEF cut
  <1>3. value \in Seq(C)
    BY <1>1, StripIsPrefix
  <1> HIDE DEF value
  <1>4. find(value, Apostrophe) \in 0..Len(value)
    BY <1>3, FindIsPlace
  <1>5. \A i \in (find(value, Apostrophe) + 1)..(Len(value) - 1) : value[i] \in C
    BY <1>3, <1>4
  <1>6. find(value, Apostrophe) + 1 \in Int /\ Len(value) - 1 \in Int
    BY <1>3, <1>4
  <1> QED
    BY <1>2, <1>5, <1>6, SubSeqProperties

\* A recursive definition has a value: the last part of a text, and those before it.
LEMMA PartsExist ==
  ASSUME NEW t \in Seq(ReprCharacter)
  PROVE  \E parts :
           /\ parts \in [0..Len(t) -> [last : Seq(Characters), before : Seq(Characters)]]
           /\ parts[0] = [last |-> <<>>, before |-> <<>>]
           /\ \A n \in 0..(Len(t) - 1) :
                parts[n + 1] =
                  IF t[n + 1] = Escape
                  THEN [last |-> <<>>, before |-> parts[n].last \o parts[n].before]
                  ELSE [parts[n] EXCEPT !.last = Append(@, t[n + 1])]
           /\ _convert_bytestring_to_hex(t) =
                LET value == parts[Len(t)].last \o parts[Len(t)].before
                IN IF value = <<>> THEN <<NoDigit>> ELSE value
  <1> DEFINE S == [last : Seq(Characters), before : Seq(Characters)]
             L == Len(t)
             a == [last |-> <<>>, before |-> <<>>]
             step(n, x) == IF t[n] = Escape
                           THEN [last |-> <<>>, before |-> x.last \o x.before]
                           ELSE [x EXCEPT !.last = Append(@, t[n])]
             g == [n \in Nat |-> [x \in S |-> IF n + 1 \in 1..L THEN step(n + 1, x) ELSE x]]
             F(u) == [n \in 0..L |-> IF n = 0 THEN a ELSE step(n, u[n - 1])]
  <1>1. L \in Nat /\ \A n \in 1..L : t[n] \in ReprCharacter
    OBVIOUS
  <1>2. a \in S
    OBVIOUS
  <1>3. \A n \in 1..L, x \in S : step(n, x) \in S
    <2> SUFFICES ASSUME NEW n \in 1..L, NEW x \in S
                 PROVE  step(n, x) \in S
      OBVIOUS
    <2>1. CASE t[n] = Escape
      <3>1. x.last \o x.before \in Seq(Characters)
        OBVIOUS
      <3> QED
        BY <2>1, <3>1
    <2>2. CASE t[n] # Escape
      <3>1. t[n] \in Characters
        BY <1>1, <2>2 DEF ReprCharacter
      <3>2. Append(x.last, t[n]) \in Seq(Characters)
        BY <3>1
      <3> QED
        BY <2>2, <3>2
    <2> QED
      BY <2>1, <2>2
  <1> DEFINE parts == CHOOSE u : u = F(u)
  <1>9. _convert_bytestring_to_hex(t) =
          LET value == parts[L].last \o parts[L].before
          IN IF value = <<>> THEN <<NoDigit>> ELSE value
    BY DEF _convert_bytestring_to_hex
  <1> HIDE DEF parts
  <1> HIDE DEF step, L
  <1>4. g \in [Nat -> [S -> S]] /\ \A n \in 1..L, x \in S : g[n - 1][x] = step(n, x)
    <2>1. \A n \in Nat : [x \in S |-> IF n + 1 \in 1..L THEN step(n + 1, x) ELSE x] \in [S -> S]
      BY <1>3
    <2>2. ASSUME NEW n \in 1..L, NEW x \in S
          PROVE  g[n - 1][x] = step(n, x)
      <3>1. n - 1 \in Nat /\ (n - 1) + 1 = n
        BY <1>1
      <3> QED
        BY <3>1
    <2> QED
      BY <2>1, <2>2
  <1> HIDE DEF g, S, a
  <1>5. PICK f : Unrolls(f, L, S, a, g)
    BY <1>1, <1>2, <1>4, UnrollsExist
  <1>6. \A n \in 0..L : f[n] = IF n = 0 THEN a ELSE step(n, f[n - 1])
    <2> SUFFICES ASSUME NEW n \in 0..L, n # 0
                 PROVE  f[n] = step(n, f[n - 1])
      BY <1>5 DEF Unrolls
    <2>1. n \in 1..L /\ n - 1 \in 0..(L - 1) /\ n - 1 \in 0..L /\ (n - 1) + 1 = n
      BY <1>1
    <2>2. f[n - 1] \in S
      BY <1>5, <2>1 DEF Unrolls
    <2>3. f[n] = g[n - 1][f[n - 1]]
      <3>1. f[(n - 1) + 1] = g[n - 1][f[n - 1]]
        BY <1>5, <2>1 DEF Unrolls
      <3> QED
        BY <2>1, <3>1
    <2> QED
      BY <1>4, <2>1, <2>2, <2>3
  <1>7. f = F(f)
    <2>1. f = [n \in 0..L |-> f[n]]
      BY <1>5 DEF Unrolls
    <2> QED
      BY <1>6, <2>1
  <1>8. parts = F(parts)
    BY <1>7 DEF parts
  <1>10. \A n \in 0..L : parts[n] = IF n = 0 THEN a ELSE step(n, parts[n - 1])
    BY <1>8
  <1>11. ASSUME NEW n \in 0..(L - 1)
         PROVE  parts[n + 1] = step(n + 1, parts[n])
    <2>1. n + 1 \in 0..L /\ n + 1 # 0 /\ (n + 1) - 1 = n
      BY <1>1
    <2> QED
      BY <1>10, <2>1
  <1> DEFINE T == {n \in Nat : n <= L => parts[n] \in S}
  <1>12. Nat \subseteq T
    <2>1. 0 \in T
      BY <1>1, <1>2, <1>10
    <2>2. ASSUME NEW n \in Nat, n \in T
          PROVE  n + 1 \in T
      <3> SUFFICES ASSUME n + 1 <= L
                   PROVE  parts[n + 1] \in S
        OBVIOUS
      <3>1. n + 1 \in 1..L /\ n \in 0..(L - 1)
        BY <1>1
      <3>2. parts[n] \in S
        BY <1>1, <2>2
      <3> QED
        BY <1>3, <1>11, <3>1, <3>2
    <2> HIDE DEF T
    <2> QED
      BY <2>1, <2>2, SetInduction
  <1>13. parts \in [0..L -> S]
    <2>1. parts = [n \in 0..L |-> parts[n]]
      BY <1>8
    <2>2. \A n \in 0..L : parts[n] \in S
      BY <1>1, <1>12
    <2> QED
      BY <2>1, <2>2
  <1>14. parts[0] = a
    BY <1>1, <1>10
  <1> QED
    BY <1>9, <1>11, <1>13, <1>14 DEF S, a, step, L

\* The text of a variable is never empty.
LEMMA KleeTextIsText ==
  ASSUME NEW m \in Seq(Byte)
  PROVE  KleeText(m) \in Seq(Characters) /\ KleeText(m) # <<>>
  <1> DEFINE t == _get_value(repr(m))
  <1>1. t \in Seq(ReprCharacter)
    BY ReprIsText, GetValueIsText
  <1>2. KleeText(m) = _convert_bytestring_to_hex(t)
    BY DEF KleeText
  <1> HIDE DEF t
  <1>3. PICK parts :
          /\ parts \in [0..Len(t) -> [last : Seq(Characters), before : Seq(Characters)]]
          /\ _convert_bytestring_to_hex(t) =
               LET value == parts[Len(t)].last \o parts[Len(t)].before
               IN IF value = <<>> THEN <<NoDigit>> ELSE value
    BY <1>1, PartsExist
  <1> DEFINE value == parts[Len(t)].last \o parts[Len(t)].before
  <1>4. value \in Seq(Characters)
    <2>1. Len(t) \in 0..Len(t)
      BY <1>1
    <2>2. parts[Len(t)] \in [last : Seq(Characters), before : Seq(Characters)]
      BY <1>3, <2>1
    <2> QED
      BY <2>2
  <1>5. KleeText(m) = IF value = <<>> THEN <<NoDigit>> ELSE value
    BY <1>2, <1>3
  <1> HIDE DEF value
  <1>6. <<NoDigit>> \in Seq(Characters) /\ <<NoDigit>> # <<>>
    BY DigitsAreCharacters
  <1> QED
    BY <1>4, <1>5, <1>6

\* repr() shows every byte as an escape and two digits.
IsEscaped(b, m) ==
    /\ b \in Seq(Digit \cup {Escape})
    /\ Len(b) = 3 * Len(m)
    /\ \A k \in 1..Len(m) :
         b[3 * k - 2] = Escape /\ b[3 * k - 1] = Digits(m[k])[1] /\ b[3 * k] = Digits(m[k])[2]

\* It does so if it shows none otherwise, and then puts apostrophes around them.
LEMMA ReprIsEscaped ==
  ASSUME NEW m \in Seq(Byte), \A i \in 1..Len(m) : m[i] \notin Shown
  PROVE  \E b : IsEscaped(b, m) /\ repr(m) = <<LetterB, Apostrophe>> \o b \o <<Apostrophe>>
  <1> DEFINE L == Len(m)
             C == Digit \cup {Escape}
  <1>1. PICK body :
          /\ body[0] = <<>>
          /\ \A n \in 0..(L - 1) : body[n + 1] = body[n] \o ReprByte(m, m[n + 1])
          /\ repr(m) = <<LetterB, ReprQuote(m)>> \o body[L] \o <<ReprQuote(m)>>
    BY ReprBodyExists
  <1>2. L \in Nat /\ \A n \in 1..L : m[n] \in Byte /\ m[n] \notin Shown
    OBVIOUS
  <1>3. ReprQuote(m) = Apostrophe
    <2>1. ToSet(m) \cap Shown = {}
      BY <1>2 DEF ToSet
    <2> QED
      BY <2>1 DEF ReprQuote
  <1>4. ASSUME NEW k \in 1..L
        PROVE  /\ ReprByte(m, m[k]) \in Seq(C) /\ Len(ReprByte(m, m[k])) = 3
               /\ ReprByte(m, m[k])[1] = Escape
               /\ ReprByte(m, m[k])[2] = Digits(m[k])[1]
               /\ ReprByte(m, m[k])[3] = Digits(m[k])[2]
    <2> DEFINE d == m[k] \div Base
               e == m[k] % Base
    <2>1. d \in C /\ e \in C /\ Escape \in C
      BY <1>2, DigitsOfByte
    <2>2. ReprByte(m, m[k]) = <<Escape>> \o <<d, e>>
      BY <1>2 DEF ReprByte, Digits
    <2>3. Digits(m[k])[1] = d /\ Digits(m[k])[2] = e
      BY DEF Digits
    <2> HIDE DEF d, e, C
    <2>4. <<Escape>> \o <<d, e>> = <<Escape, d, e>>
      BY <2>1, ShortTexts
    <2>5. <<Escape, d, e>> \in Seq(C) /\ Len(<<Escape, d, e>>) = 3
      BY <2>1
    <2> QED
      BY <2>2, <2>3, <2>4, <2>5
  <1> DEFINE Escaped(n) ==
               /\ body[n] \in Seq(C) /\ Len(body[n]) = 3 * n
               /\ \A k \in 1..n : /\ body[n][3 * k - 2] = Escape
                                  /\ body[n][3 * k - 1] = Digits(m[k])[1]
                                  /\ body[n][3 * k] = Digits(m[k])[2]
             T == {n \in Nat : n <= L => Escaped(n)}
  <1> HIDE DEF L, C
  <1>5. 0 \in T
    <2>1. body[0] \in Seq(C) /\ Len(body[0]) = 3 * 0
      BY <1>1
    <2>2. \A k \in 1..0 : FALSE
      OBVIOUS
    <2>3. Escaped(0)
      BY <2>1, <2>2
    <2> HIDE DEF Escaped
    <2> QED
      BY <2>3
  <1>6. ASSUME NEW n \in Nat, n \in T
        PROVE  n + 1 \in T
    <2> SUFFICES ASSUME n + 1 <= L
                 PROVE  Escaped(n + 1)
      OBVIOUS
    <2> DEFINE s == body[n]
               r == ReprByte(m, m[n + 1])
    <2>1. Escaped(n) /\ n \in 0..(L - 1) /\ n + 1 \in 1..L
      BY <1>2, <1>6
    <2>2. /\ r \in Seq(C) /\ Len(r) = 3 /\ r[1] = Escape
          /\ r[2] = Digits(m[n + 1])[1] /\ r[3] = Digits(m[n + 1])[2]
      BY <1>4, <2>1
    <2>3. body[n + 1] = s \o r
      BY <1>1, <2>1
    <2>4. s \in Seq(C) /\ Len(s) = 3 * n
      BY <2>1
    <2> HIDE DEF s, r
    <2>5. /\ s \o r \in Seq(C) /\ Len(s \o r) = Len(s) + Len(r)
          /\ \A i \in 1..(Len(s) + Len(r)) :
                 (s \o r)[i] = IF i <= Len(s) THEN s[i] ELSE r[i - Len(s)]
      BY <2>2, <2>4, ConcatProperties
    <2>6. \A i \in 1..(3 * n + 3) : body[n + 1][i] = IF i <= 3 * n THEN s[i] ELSE r[i - 3 * n]
      BY <2>2, <2>3, <2>4, <2>5
    <2>7. body[n + 1] \in Seq(C) /\ Len(body[n + 1]) = 3 * (n + 1)
      BY <2>2, <2>3, <2>4, <2>5
    <2>8. ASSUME NEW k \in 1..(n + 1)
          PROVE  /\ body[n + 1][3 * k - 2] = Escape
                 /\ body[n + 1][3 * k - 1] = Digits(m[k])[1]
                 /\ body[n + 1][3 * k] = Digits(m[k])[2]
      <3>1. 3 * k - 2 \in 1..(3 * n + 3) /\ 3 * k - 1 \in 1..(3 * n + 3) /\ 3 * k \in 1..(3 * n + 3)
        OBVIOUS
      <3>2. CASE k \in 1..n
        <4>1. 3 * k - 2 <= 3 * n /\ 3 * k - 1 <= 3 * n /\ 3 * k <= 3 * n
          BY <3>2
        <4>2. s[3 * k - 2] = Escape /\ s[3 * k - 1] = Digits(m[k])[1] /\ s[3 * k] = Digits(m[k])[2]
          BY <2>1, <3>2 DEF s
        <4> QED
          BY <2>6, <3>1, <4>1, <4>2
      <3>3. CASE k = n + 1
        <4>1. /\ (3 * k - 2) - 3 * n = 1 /\ (3 * k - 1) - 3 * n = 2 /\ 3 * k - 3 * n = 3
              /\ ~(3 * k - 2 <= 3 * n) /\ ~(3 * k - 1 <= 3 * n) /\ ~(3 * k <= 3 * n)
          BY <3>3
        <4>2. /\ body[n + 1][3 * k - 2] = r[1] /\ body[n + 1][3 * k - 1] = r[2]
              /\ body[n + 1][3 * k] = r[3]
          BY <2>6, <3>1, <4>1
        <4> QED
          BY <2>2, <3>3, <4>2
      <3> QED
        BY <3>2, <3>3
    <2> QED
      BY <2>7, <2>8
  <1> HIDE DEF T
  <1>7. L \in T
    BY <1>2, <1>5, <1>6, SetInduction
  <1>8. IsEscaped(body[L], m)
    BY <1>2, <1>7 DEF T, IsEscaped, L, C
  <1> QED
    BY <1>1, <1>3, <1>8

\* What is between apostrophes is read, if there is no other punctuation mark.
LEMMA GetValueOfQuoted ==
  ASSUME NEW b \in Seq(Digit \cup {Escape})
  PROVE  _get_value(<<LetterB, Apostrophe>> \o b \o <<Apostrophe>>) = b
  <1> DEFINE C == Digit \cup {Escape, Apostrophe}
             A == <<LetterB, Apostrophe>>
             Z == <<Apostrophe>>
             t == A \o b \o Z
             n == Len(b)
  <1>1. A \in Seq(C) /\ Len(A) = 2 /\ A[1] = LetterB /\ A[2] = Apostrophe
    BY DigitsAreCharacters
  <1>2. Z \in Seq(C) /\ Len(Z) = 1 /\ Z[1] = Apostrophe
    OBVIOUS
  <1>3. b \in Seq(C) /\ n \in Nat /\ \A i \in 1..n : b[i] \in Digit \cup {Escape}
    OBVIOUS
  <1> HIDE DEF A, Z, C, n
  <1>4. /\ A \o b \in Seq(C) /\ Len(A \o b) = n + 2
        /\ \A i \in 1..(n + 2) : (A \o b)[i] = IF i <= 2 THEN A[i] ELSE b[i - 2]
    <2>1. /\ A \o b \in Seq(C) /\ Len(A \o b) = Len(A) + Len(b)
          /\ \A i \in 1..(Len(A) + Len(b)) : (A \o b)[i] = IF i <= Len(A) THEN A[i] ELSE b[i - Len(A)]
      BY <1>1, <1>3, ConcatProperties
    <2> QED
      BY <1>1, <1>3, <2>1 DEF n
  <1>5. /\ t \in Seq(C) /\ Len(t) = n + 3
        /\ \A i \in 1..(n + 3) : t[i] = IF i <= n + 2 THEN (A \o b)[i] ELSE Z[i - (n + 2)]
    <2> DEFINE s == A \o b
    <2>1. s \in Seq(C) /\ Len(s) = n + 2
      BY <1>4
    <2> HIDE DEF s
    <2>2. /\ s \o Z \in Seq(C) /\ Len(s \o Z) = Len(s) + Len(Z)
          /\ \A i \in 1..(Len(s) + Len(Z)) : (s \o Z)[i] = IF i <= Len(s) THEN s[i] ELSE Z[i - Len(s)]
      BY <1>2, <2>1, ConcatProperties
    <2> QED
      BY <1>2, <1>3, <2>1, <2>2 DEF s
  <1> HIDE DEF t
  <1>6. /\ t[1] = LetterB /\ t[2] = Apostrophe /\ t[n + 3] = Apostrophe
        /\ \A i \in 1..n : t[i + 2] = b[i]
    <2>1. t[1] = A[1] /\ t[2] = A[2]
      <3>1. /\ 1 \in 1..(n + 3) /\ 2 \in 1..(n + 3) /\ 1 \in 1..(n + 2) /\ 2 \in 1..(n + 2)
            /\ 1 <= n + 2 /\ 2 <= n + 2
        BY <1>3
      <3>2. t[1] = (A \o b)[1] /\ t[2] = (A \o b)[2]
        BY <1>5, <3>1
      <3>3. (A \o b)[1] = A[1] /\ (A \o b)[2] = A[2]
        BY <1>4, <3>1
      <3> QED
        BY <3>2, <3>3
    <2>2. t[n + 3] = Z[1]
      <3>1. n + 3 \in 1..(n + 3) /\ ~(n + 3 <= n + 2) /\ (n + 3) - (n + 2) = 1
        BY <1>3
      <3> QED
        BY <1>5, <3>1
    <2>3. ASSUME NEW i \in 1..n
          PROVE  t[i + 2] = b[i]
      <3>1. i + 2 \in 1..(n + 3) /\ i + 2 \in 1..(n + 2) /\ i + 2 <= n + 2 /\ ~(i + 2 <= 2) /\ (i + 2) - 2 = i
        BY <1>3
      <3>2. t[i + 2] = (A \o b)[i + 2]
        BY <1>5, <3>1
      <3>3. (A \o b)[i + 2] = b[i]
        BY <1>4, <3>1
      <3> QED
        BY <3>2, <3>3
    <2> QED
      BY <1>1, <1>2, <2>1, <2>2, <2>3
  <1>7. \A i \in 1..Len(t) : t[i] # Colon
    <2> SUFFICES ASSUME NEW i \in 1..(n + 3)
                 PROVE  t[i] # Colon
      BY <1>5
    <2>1. t[i] \in C
      BY <1>5
    <2> QED
      BY <2>1, DigitsAreCharacters DEF C
  <1>8. find(t, Colon) = 0
    BY <1>5, <1>7, FindIsPlace
  <1>9. strip(t) = t
    <2>1. t # <<>> /\ t[Len(t)] # Space
      BY <1>3, <1>5, <1>6, DigitsAreCharacters
    <2> QED
      BY <1>5, <2>1, StripIsPrefix
  <1>10. find(t, Apostrophe) = 2
    <2>1. 2 \in 1..Len(t) /\ t[2] = Apostrophe /\ \A i \in 1..(2 - 1) : t[i] # Apostrophe
      <3>1. \A i \in 1..(2 - 1) : i = 1
        OBVIOUS
      <3> QED
        BY <1>3, <1>5, <1>6, <3>1, DigitsAreCharacters
    <2> QED
      BY <1>5, <2>1, FindIsPlace
  <1>11. _get_value(t) = SubSeq(t, 3, n + 2)
    <2>1. _get_value(t) = SubSeq(t, 2 + 1, Len(t) - 1)
      BY <1>8, <1>9, <1>10 DEF _get_value
    <2>2. 2 + 1 = 3 /\ Len(t) - 1 = n + 2
      BY <1>3, <1>5
    <2> QED
      BY <2>1, <2>2
  <1>12. SubSeq(t, 3, n + 2) = b
    <2> DEFINE s == SubSeq(t, 3, n + 2)
    <2>1. \A i \in 3..(n + 2) : t[i] \in C
      BY <1>3, <1>5
    <2>2. 3 \in Int /\ n + 2 \in Int
      BY <1>3
    <2>3. /\ s \in Seq(C) /\ Len(s) = IF 3 <= n + 2 THEN (n + 2) - 3 + 1 ELSE 0
          /\ \A i \in 1..((n + 2) - 3 + 1) : s[i] = t[3 + i - 1]
      BY <2>1, <2>2, SubSeqProperties
    <2> HIDE DEF s
    <2>4. Len(s) = n
      BY <1>3, <2>3
    <2>5. \A i \in 1..n : s[i] = b[i]
      <3> SUFFICES ASSUME NEW i \in 1..n
                   PROVE  s[i] = b[i]
        OBVIOUS
      <3>1. i \in 1..((n + 2) - 3 + 1) /\ 3 + i - 1 = i + 2
        BY <1>3
      <3> QED
        BY <1>6, <2>3, <3>1
    <2>6. s = [i \in 1..n |-> s[i]] /\ b = [i \in 1..n |-> b[i]]
      BY <1>3, <2>3, <2>4 DEF n
    <2>7. s = b
      BY <2>5, <2>6
    <2> QED
      BY <2>7 DEF s
  <1> QED
    BY <1>11, <1>12 DEF t, A, Z

\* The parts of such a text are the digits of the bytes, and in reverse order they are the
\* text that the random tester would write.
LEMMA ConversionOfEscaped ==
  ASSUME NEW m \in Seq(Byte), NEW b, IsEscaped(b, m)
  PROVE  _convert_bytestring_to_hex(b) =
           IF RandomText(m) = <<>> THEN <<NoDigit>> ELSE RandomText(m)
  <1> DEFINE L == Len(m)
             S == [last : Seq(Characters), before : Seq(Characters)]
  <1>2. L \in Nat /\ \A n \in 1..L : m[n] \in Byte
    OBVIOUS
  <1>3. b \in Seq(ReprCharacter) /\ Len(b) = 3 * L
    <2>1. Digit \cup {Escape} \subseteq ReprCharacter
      BY DigitsAreCharacters DEF ReprCharacter
    <2> QED
      BY <2>1 DEF IsEscaped
  <1>1. PICK parts :
          /\ parts \in [0..Len(b) -> S]
          /\ parts[0] = [last |-> <<>>, before |-> <<>>]
          /\ \A n \in 0..(Len(b) - 1) :
               parts[n + 1] =
                 IF b[n + 1] = Escape
                 THEN [last |-> <<>>, before |-> parts[n].last \o parts[n].before]
                 ELSE [parts[n] EXCEPT !.last = Append(@, b[n + 1])]
          /\ _convert_bytestring_to_hex(b) =
               LET value == parts[Len(b)].last \o parts[Len(b)].before
               IN IF value = <<>> THEN <<NoDigit>> ELSE value
    BY <1>3, PartsExist
  <1> DEFINE W(n) == parts[3 * n].last \o parts[3 * n].before
  <1>4. ASSUME NEW n \in Nat, n + 1 <= L
        PROVE  W(n + 1) = Digits(m[n + 1]) \o W(n)
    <2> DEFINE d == Digits(m[n + 1])[1]
               e == Digits(m[n + 1])[2]
               w == W(n)
    <2>1. /\ 3 * n \in 0..(Len(b) - 1) /\ 3 * n + 1 \in 0..(Len(b) - 1) /\ 3 * n + 2 \in 0..(Len(b) - 1)
          /\ (3 * n + 1) + 1 = 3 * n + 2 /\ (3 * n + 2) + 1 = 3 * (n + 1)
      BY <1>2, <1>3, <1>4
    <2>2. b[3 * n + 1] = Escape /\ b[3 * n + 2] = d /\ b[3 * (n + 1)] = e
      <3>1. n + 1 \in 1..L /\ 3 * (n + 1) - 2 = 3 * n + 1 /\ 3 * (n + 1) - 1 = 3 * n + 2
        BY <1>2, <1>4
      <3>2. b[3 * (n + 1) - 2] = Escape /\ b[3 * (n + 1) - 1] = d /\ b[3 * (n + 1)] = e
        BY <3>1 DEF IsEscaped
      <3> QED
        BY <3>1, <3>2
    <2>3. Digits(m[n + 1]) = <<d, e>> /\ d \in Digit /\ e \in Digit /\ d # Escape /\ e # Escape
      <3>1. m[n + 1] \in Byte
        BY <1>2, <1>4
      <3>2. Digits(m[n + 1])[1] \in Digit /\ Digits(m[n + 1])[2] \in Digit
        BY <3>1, DigitsOfByte DEF Digits
      <3> QED
        BY <3>2, DigitsAreCharacters DEF Digits
    <2> HIDE DEF d, e
    <2>4. parts[3 * n + 1] = [last |-> <<>>, before |-> w]
      BY <1>1, <2>1, <2>2
    <2> HIDE DEF w
    <2>5. parts[3 * n + 2] = [last |-> <<d>>, before |-> w]
      <3>1. parts[3 * n + 2] = [parts[3 * n + 1] EXCEPT !.last = Append(@, d)]
        BY <1>1, <2>1, <2>2, <2>3
      <3>2. Append(<<>>, d) = <<d>>
        OBVIOUS
      <3> QED
        BY <2>4, <3>1, <3>2
    <2>6. parts[3 * (n + 1)] = [last |-> <<d, e>>, before |-> w]
      <3>1. parts[3 * (n + 1)] = [parts[3 * n + 2] EXCEPT !.last = Append(@, e)]
        BY <1>1, <2>1, <2>2, <2>3
      <3>2. Append(<<d>>, e) = <<d, e>>
        BY <2>3, ShortTexts
      <3> QED
        BY <2>5, <3>1, <3>2
    <2>7. parts[3 * (n + 1)].last = <<d, e>> /\ parts[3 * (n + 1)].before = w
      BY <2>6
    <2>8. W(n + 1) = <<d, e>> \o w
      BY <2>7
    <2> QED
      BY <2>3, <2>8 DEF w
  <1>5. W(L) = RandomText(m)
    <2> DEFINE R(n) == [j \in 1..(2 * n) |-> Digits(m[n - (j - 1) \div 2])[2 - (j % 2)]]
               T == {n \in Nat : n <= L => W(n) = R(n)}
    <2>1. 0 \in T
      <3>1. R(0) = <<>>
        OBVIOUS
      <3>2. W(0) = <<>>
        <4>1. 3 * 0 = 0 /\ parts[0].last = <<>> /\ parts[0].before = <<>>
          BY <1>1
        <4> QED
          BY <4>1
      <3> QED
        BY <3>1, <3>2
    <2>4. ASSUME NEW n \in Nat, n + 1 <= L
          PROVE  W(n + 1) = Digits(m[n + 1]) \o W(n)
      BY <1>4, <2>4
    <2> HIDE DEF R, W
    <2>2. ASSUME NEW n \in Nat, n \in T
          PROVE  n + 1 \in T
      <3> SUFFICES ASSUME n + 1 <= L
                   PROVE  W(n + 1) = R(n + 1)
        OBVIOUS
      <3>1. W(n) = R(n)
        BY <1>2, <2>2
      <3>2. W(n + 1) = Digits(m[n + 1]) \o R(n)
        BY <2>4, <3>1
      <3>3. ASSUME NEW j \in 1..(2 * n)
            PROVE  R(n)[j] = R(n + 1)[j + 2]
        <4> USE DEF R
        <4>1. j + 2 \in 1..(2 * (n + 1))
          OBVIOUS
        <4>2. n - (j - 1) \div 2 = (n + 1) - ((j + 2) - 1) \div 2
          OBVIOUS
        <4>3. 2 - (j % 2) = 2 - ((j + 2) % 2)
          OBVIOUS
        <4> QED
          BY <4>1, <4>2, <4>3
      <3>4. R(n + 1)[1] = Digits(m[n + 1])[1] /\ R(n + 1)[2] = Digits(m[n + 1])[2]
        <4> USE DEF R
        <4>1. 1 \in 1..(2 * (n + 1)) /\ 2 \in 1..(2 * (n + 1))
          OBVIOUS
        <4>2. (n + 1) - (1 - 1) \div 2 = n + 1 /\ (n + 1) - (2 - 1) \div 2 = n + 1
          OBVIOUS
        <4>3. 2 - (1 % 2) = 1 /\ 2 - (2 % 2) = 2
          OBVIOUS
        <4> QED
          BY <4>1, <4>2, <4>3
      <3> DEFINE D == Digits(m[n + 1])
                 A == R(n)
                 B == R(n + 1)
      <3>5. A \in Seq(Digit) /\ Len(A) = 2 * n
        <4> USE DEF R
        <4>2. \A k \in 1..n : m[k] \in Byte
          BY <1>2
        <4>3. \A j \in 1..(2 * n) : n - (j - 1) \div 2 \in 1..n /\ 2 - (j % 2) \in {1, 2}
          <5> SUFFICES ASSUME NEW j \in 1..(2 * n)
                       PROVE  n - (j - 1) \div 2 \in 1..n /\ 2 - (j % 2) \in {1, 2}
            OBVIOUS
          <5>1. (j - 1) \div 2 \in Int /\ 0 <= (j - 1) \div 2 /\ (j - 1) \div 2 <= n - 1
            OBVIOUS
          <5>2. j % 2 \in {0, 1}
            OBVIOUS
          <5> QED
            BY <5>1, <5>2
        <4>4. \A byte \in Byte, k \in {1, 2} : Digits(byte)[k] \in Digit
          BY DigitsOfByte DEF Digits
        <4>5. \A j \in 1..(2 * n) : Digits(m[n - (j - 1) \div 2])[2 - (j % 2)] \in Digit
          BY <4>2, <4>3, <4>4
        <4> QED
          BY <4>5
      <3>6. D \in Seq(Digit) /\ Len(D) = 2
        <4>1. m[n + 1] \in Byte
          BY <1>2
        <4> QED
          BY <4>1, DigitsOfByte DEF Digits
      <3>7. B = [j \in 1..(2 * (n + 1)) |-> B[j]]
        BY DEF R
      <3> HIDE DEF D, A, B
      <3>8. /\ D \o A \in Seq(Digit) /\ Len(D \o A) = 2 + 2 * n
            /\ \A j \in 1..(2 + 2 * n) : (D \o A)[j] = IF j <= 2 THEN D[j] ELSE A[j - 2]
        <4>1. /\ D \o A \in Seq(Digit) /\ Len(D \o A) = Len(D) + Len(A)
              /\ \A j \in 1..(Len(D) + Len(A)) :
                     (D \o A)[j] = IF j <= Len(D) THEN D[j] ELSE A[j - Len(D)]
          BY <3>5, <3>6, ConcatProperties
        <4> QED
          BY <3>5, <3>6, <4>1
      <3>9. \A j \in 1..(2 * (n + 1)) : B[j] = IF j <= 2 THEN D[j] ELSE A[j - 2]
        <4> SUFFICES ASSUME NEW j \in 1..(2 * (n + 1))
                     PROVE  B[j] = IF j <= 2 THEN D[j] ELSE A[j - 2]
          OBVIOUS
        <4>1. CASE j <= 2
          BY <3>4, <4>1 DEF B, D
        <4>2. CASE j > 2
          <5>1. j - 2 \in 1..(2 * n) /\ (j - 2) + 2 = j
            BY <4>2
          <5> QED
            BY <3>3, <4>2, <5>1 DEF A, B
        <4> QED
          BY <4>1, <4>2
      <3>10. 2 + 2 * n = 2 * (n + 1)
        OBVIOUS
      <3>11. D \o A = B
        <4> DEFINE C == D \o A
        <4>3. C \in Seq(Digit) /\ Len(C) = 2 * (n + 1)
          BY <3>8, <3>10
        <4> HIDE DEF C
        <4>4. C = [j \in 1..Len(C) |-> C[j]]
          BY <4>3
        <4>1. D \o A = [j \in 1..(2 * (n + 1)) |-> (D \o A)[j]]
          BY <4>3, <4>4 DEF C
        <4>2. \A j \in 1..(2 * (n + 1)) : (D \o A)[j] = B[j]
          BY <3>8, <3>9, <3>10
        <4> QED
          BY <3>7, <4>1, <4>2
      <3> QED
        BY <3>2, <3>11 DEF A, B, D
    <2> HIDE DEF T
    <2>3. L \in T
      BY <1>2, <2>1, <2>2, SetInduction
    <2>5. W(L) = R(L)
      BY <1>2, <2>3 DEF T
    <2>6. R(L) = RandomText(m)
      BY DEF R, RandomText
    <2> QED
      BY <2>5, <2>6
  <1> QED
    BY <1>1, <1>3, <1>5 DEF W

\* If repr() shows no byte otherwise than as \x and two digits, the text is the one that
\* the random tester would write.
LEMMA KleeTextIsRandomText ==
  ASSUME NEW m \in Seq(Byte), m # <<>>, \A i \in 1..Len(m) : m[i] \notin Shown
  PROVE  KleeText(m) = RandomText(m)
  <1>1. PICK b : IsEscaped(b, m) /\ repr(m) = <<LetterB, Apostrophe>> \o b \o <<Apostrophe>>
    BY ReprIsEscaped
  <1>2. _get_value(repr(m)) = b
    <2>1. b \in Seq(Digit \cup {Escape})
      BY <1>1 DEF IsEscaped
    <2> QED
      BY <1>1, <2>1, GetValueOfQuoted
  <1>3. RandomText(m) # <<>>
    <2>1. Len(m) \in Nat \ {0}
      OBVIOUS
    <2>2. RandomText(m) \in Seq(Digit) /\ Len(RandomText(m)) = 2 * Len(m)
      BY RandomTextDigits
    <2>3. Len(RandomText(m)) > 0
      BY <2>1, <2>2
    <2> QED
      BY <2>2, <2>3
  <1>4. _convert_bytestring_to_hex(b) = RandomText(m)
    BY <1>1, <1>3, ConversionOfEscaped
  <1> QED
    BY <1>2, <1>4 DEF KleeText

\* KLEE's values survive as well, if repr() shows each of their bytes as \x and two digits:
\* not if one is printable, a tab, a newline or a carriage return (ktest-tool, _get_value,
\* _convert_bytestring_to_hex).
THEOREM KleeRoundTrip ==
  ASSUME NEW m \in Seq(Byte), m # <<>>, Len(m) <= LongLong,
         \A i \in 1..Len(m) : m[i] \notin Shown
  PROVE  ParsedBytes(KleeText(m), Len(m)) = {m}
  BY KleeTextIsRandomText, RandomRoundTrip

-----------------------------------------------------------------------------
(* Numbers written in decimal notation *)

\* There is only one number for digits.
LEMMA ValueIsUnique ==
  ASSUME NEW t \in Seq(Digit), NEW u, NEW v, IsValue(u, t), IsValue(v, t)
  PROVE  u[Len(t)] = v[Len(t)]
  <1> DEFINE T == {n \in Nat : n <= Len(t) => u[n] = v[n]}
  <1>1. 0 \in T
    BY DEF IsValue
  <1>2. ASSUME NEW n \in Nat, n \in T
        PROVE  n + 1 \in T
    <2> SUFFICES ASSUME n + 1 <= Len(t)
                 PROVE  u[n + 1] = v[n + 1]
      OBVIOUS
    <2>1. n \in 0..(Len(t) - 1) /\ u[n] = v[n]
      BY <1>2
    <2> QED
      BY <2>1 DEF IsValue
  <1> HIDE DEF T
  <1>3. Len(t) \in T
    BY <1>1, <1>2, SetInduction
  <1> QED
    BY <1>3 DEF T

\* The digits of a number below a power of the base, the most significant one first.
LEMMA DigitsOfNumber ==
  ASSUME NEW n \in Nat, NEW l \in Nat, n < Power[l]
  PROVE  LET t == [i \in 1..l |-> (n \div Power[l - i]) % Base]
         IN t \in Seq(Digit) /\ Len(t) = l /\ \A v : IsValue(v, t) => v[l] = n
  <1> DEFINE t == [i \in 1..l |-> (n \div Power[l - i]) % Base]
             u == [i \in 0..l |-> n \div Power[l - i]]
  <1>1. \A k \in Nat : Power[k] \in Nat \ {0} /\ n \div Power[k] \in Nat
    BY PowerProperties, DivMod
  <1>2. \A i \in 0..l : l - i \in Nat
    OBVIOUS
  <1>3. \A i \in 0..l : u[i] \in Nat
    BY <1>1, <1>2
  <1>4. \A i \in 1..l : t[i] \in Digit
    <2> SUFFICES ASSUME NEW i \in 1..l
                 PROVE  (n \div Power[l - i]) % Base \in Digit
      OBVIOUS
    <2>1. n \div Power[l - i] \in Nat
      BY <1>1, <1>2
    <2> QED
      BY <2>1, BaseIsNumber, DivMod DEF Digit
  <1>5. t \in Seq(Digit) /\ Len(t) = l
    BY <1>4
  <1>6. u[0] = 0
    <2> DEFINE p == Power[l]
    <2>1. p \in Nat \ {0}
      BY <1>1
    <2> HIDE DEF p
    <2>2. p * 0 + n = n /\ n \in 0..(p - 1)
      BY <2>1 DEF p
    <2>3. (p * 0 + n) \div p = 0
      BY <2>1, <2>2, DivUnique
    <2>4. n \div p = 0
      BY <2>2, <2>3
    <2> QED
      BY <2>4 DEF p
  <1>7. ASSUME NEW i \in 0..(l - 1)
        PROVE  u[i + 1] = Base * u[i] + t[i + 1]
    <2> DEFINE k == l - (i + 1)
               p == Power[k]
               q == n \div p
               c == q \div Base
               d == q % Base
    <2>1. k \in Nat /\ l - i = k + 1
      OBVIOUS
    <2>2. p \in Nat \ {0} /\ Power[l - i] = Base * p
      BY <2>1, PowerProperties
    <2>3. u[i + 1] = q /\ u[i] = n \div (Base * p) /\ t[i + 1] = d
      BY <2>2
    <2> HIDE DEF p, k
    <2>4. q \in Nat /\ n % p \in 0..(p - 1) /\ n = p * q + (n % p)
      BY <2>2, DivMod
    <2> DEFINE r == n % p
    <2>5. r \in 0..(p - 1) /\ n = p * q + r
      BY <2>4
    <2> HIDE DEF q, r
    <2>6. c \in Nat /\ d \in 0..(Base - 1) /\ q = Base * c + d
      BY <2>4, BaseIsNumber, DivMod
    <2> HIDE DEF c, d
    <2>7. n = (Base * p) * c + (p * d + r)
      BY <2>2, <2>5, <2>6, BaseIsNumber
    <2>8. Base * p \in Nat \ {0} /\ p * d + r \in 0..(Base * p - 1)
      BY <2>2, <2>5, <2>6, BaseIsNumber, Shift
    <2>9. n \div (Base * p) = c
      BY <2>6, <2>7, <2>8, DivUnique
    <2> QED
      BY <2>3, <2>6, <2>9
  <1>8. u[l] = n
    <2>1. u[l] = n \div 1
      BY PowerProperties
    <2> QED
      BY <2>1
  <1>9. IsValue(u, t)
    BY <1>3, <1>5, <1>6, <1>7 DEF IsValue
  <1> HIDE DEF u, t
  <1>10. \A v : IsValue(v, t) => v[l] = n
    BY <1>5, <1>8, <1>9, ValueIsUnique
  <1> QED
    BY <1>5, <1>10 DEF t

\* The decimal notation of a number: a sign, if it is negative, and digits, at least one.
LEMMA DecimalDigits ==
  ASSUME NEW v \in (-ULLONG_MAX)..ULLONG_MAX
  PROVE  \E digits \in Seq(Digit) :
           /\ Len(digits) \in 1..(2 * LongLong)
           /\ DecimalText(v) = IF v < 0 THEN <<Minus>> \o digits ELSE digits
           /\ \A u : IsValue(u, digits) => u[Len(digits)] = IF v < 0 THEN -v ELSE v
  <1> DEFINE n == IF v < 0 THEN -v ELSE v
             Fits(l) == n < Power[l] /\ (l = 1 \/ n >= Power[l - 1])
             length == CHOOSE l \in 1..(2 * LongLong) : Fits(l)
             digits == [i \in 1..length |-> (n \div Power[length - i]) % Base]
  <1>1. Power[2 * LongLong] \in Nat \ {0} /\ 2 * LongLong \in Nat \ {0}
    BY BaseIsNumber, PowerProperties
  <1>2. v \in Int /\ n \in Nat /\ n < Power[2 * LongLong]
    BY <1>1 DEF ULLONG_MAX
  <1>3. length \in 1..(2 * LongLong) /\ n < Power[length]
    <2> DEFINE S == {l \in 1..(2 * LongLong) : n < Power[l]}
    <2>1. 2 * LongLong \in S
      BY <1>1, <1>2
    <2>2. PICK l \in S : \A k \in S : l <= k
      <3>1. S \subseteq Nat /\ S # {}
        BY <2>1
      <3> HIDE DEF S
      <3> QED
        BY <3>1, LeastNumber
    <2>3. l \in 1..(2 * LongLong) /\ n < Power[l]
      OBVIOUS
    <2>4. l = 1 \/ n >= Power[l - 1]
      <3> SUFFICES ASSUME l # 1
                   PROVE  n >= Power[l - 1]
        OBVIOUS
      <3>1. l - 1 \in 1..(2 * LongLong) /\ l - 1 \in Nat /\ ~(l <= l - 1)
        BY <1>1, <2>3
      <3>2. ~(n < Power[l - 1])
        BY <2>2, <3>1
      <3>3. Power[l - 1] \in Nat
        BY <3>1, PowerProperties
      <3> QED
        BY <1>2, <3>2, <3>3
    <2>5. \E k \in 1..(2 * LongLong) : Fits(k)
      BY <2>3, <2>4
    <2>6. length \in 1..(2 * LongLong) /\ Fits(length)
      BY <2>5
    <2> QED
      BY <2>6
  <1>4. DecimalText(v) = IF v < 0 THEN <<Minus>> \o digits ELSE digits
    BY DEF DecimalText
  <1> HIDE DEF length
  <1>5. length \in Nat /\ length <= 2 * LongLong
    BY <1>1, <1>3
  <1> HIDE DEF n
  <1>6. digits \in Seq(Digit) /\ Len(digits) = length /\ \A u : IsValue(u, digits) => u[length] = n
    BY <1>2, <1>3, <1>5, DigitsOfNumber
  <1> HIDE DEF digits
  <1> QED
    BY <1>3, <1>4, <1>6 DEF n

\* A sign before digits is the head of the text, and the digits are its tail.
LEMMA SignBeforeDigits ==
  ASSUME NEW digits \in Seq(Digit)
  PROVE  LET t == <<Minus>> \o digits
         IN t # <<>> /\ Head(t) = Minus /\ Tail(t) = digits /\ Len(t) = Len(digits) + 1
  <1> DEFINE S == Digit \cup {Minus}
             t == <<Minus>> \o digits
  <1>1. digits \in Seq(S) /\ <<Minus>> \in Seq(S)
    OBVIOUS
  <1>2. Len(t) = Len(digits) + 1 /\ t[1] = Minus /\ t \in Seq(S)
    BY <1>1
  <1>3. t # <<>> /\ Head(t) = Minus
    BY <1>1, <1>2
  <1>4. Tail(t) \in Seq(S) /\ Len(Tail(t)) = Len(digits)
    BY <1>1, <1>2
  <1>5. \A i \in 1..Len(digits) : Tail(t)[i] = digits[i]
    BY <1>1, <1>2, <1>4
  <1>6. Tail(t) = digits
    BY <1>1, <1>4, <1>5, SeqEqual
  <1> QED
    BY <1>2, <1>3, <1>6

\* What strtoull reads from the decimal notation of a number is the number, as unsigned
\* long long has it: a negative one is taken modulo its range.
LEMMA DecimalIsRead ==
  ASSUME NEW v \in (-ULLONG_MAX)..ULLONG_MAX
  PROVE  strtoull(DecimalText(v)) = v % (ULLONG_MAX + 1)
  <1> DEFINE n == IF v < 0 THEN -v ELSE v
             N == ULLONG_MAX + 1
  <1>1. N \in Nat \ {0} /\ ULLONG_MAX \in Nat
    BY LargestIsNumber
  <1>2. v \in Int /\ n \in Nat /\ n <= ULLONG_MAX
    BY <1>1
  <1>3. PICK digits \in Seq(Digit) :
          /\ Len(digits) \in 1..(2 * LongLong)
          /\ DecimalText(v) = IF v < 0 THEN <<Minus>> \o digits ELSE digits
          /\ \A u : IsValue(u, digits) => u[Len(digits)] = n
    BY DecimalDigits
  <1> HIDE DEF n
  <1>4. CASE v >= 0
    <2>1. DecimalText(v) = digits /\ n = v
      BY <1>2, <1>3, <1>4 DEF n
    <2>2. strtoull(digits) = n
      <3>1. Len(digits) <= 2 * LongLong
        BY <1>3, BaseIsNumber
      <3>2. PICK u : IsValue(u, digits) /\ strtoull(digits) = u[Len(digits)]
        BY <3>1, DigitsAreRead
      <3> QED
        BY <1>3, <3>2
    <2>3. v % N = v
      BY <1>1, <1>2, <1>4, <2>1
    <2> QED
      BY <2>1, <2>2, <2>3
  <1>5. CASE v < 0
    <2> DEFINE t == <<Minus>> \o digits
    <2>1. DecimalText(v) = t /\ n = -v
      BY <1>2, <1>3, <1>5 DEF n
    <2>2. t # <<>> /\ Head(t) = Minus /\ Tail(t) = digits
      BY SignBeforeDigits
    <2> HIDE DEF t
    <2>3. ~(n > ULLONG_MAX) /\ n <= ULLONG_MAX
      BY <1>1, <1>2
    <2>4. Number(digits) = n
      BY <1>3, NumberIsValue
    <2>5. strtoull(t) = (-n) % (ULLONG_MAX + 1)
      BY <2>2, <2>3, <2>4 DEF strtoull
    <2>6. -n = v
      BY <1>2, <2>1
    <2> QED
      BY <2>1, <2>5, <2>6
  <1> QED
    BY <1>2, <1>4, <1>5

\* A number that CREST or CPATiger chooses survives the way through its decimal notation
\* to the memory of the harness: its bytes are those of the number after a cast to a type
\* of this size, for negative numbers as well.
THEOREM DecimalRoundTrip ==
  ASSUME NEW v \in (-ULLONG_MAX)..ULLONG_MAX, NEW size \in 1..LongLong
  PROVE  ParsedBytes(DecimalText(v), size) =
             {[i \in 1..size |-> ByteOf(v % (ULLONG_MAX + 1), i)]}
  <1>1. strtoull(DecimalText(v)) = v % (ULLONG_MAX + 1)
    BY DecimalIsRead
  <1>2. \A i \in 1..size : i <= LongLong
    BY BaseIsNumber
  <1> DEFINE bytes(garbage) ==
                 [i \in 1..size |->
                     IF i <= LongLong THEN ByteOf(strtoull(DecimalText(v)), i) ELSE garbage]
             result == [i \in 1..size |-> ByteOf(v % (ULLONG_MAX + 1), i)]
  <1>3. \A garbage : bytes(garbage) = result
    BY <1>1, <1>2
  <1>4. ParsedBytes(DecimalText(v), size) = {bytes(garbage) : garbage \in {0, Base}}
    BY DEF ParsedBytes
  <1> HIDE DEF bytes, result
  <1>5. ParsedBytes(DecimalText(v), size) = {result}
    BY <1>3, <1>4
  <1> QED
    BY <1>5 DEF result

-----------------------------------------------------------------------------
(* Texts *)

\* A byte of a number is a byte.
LEMMA ByteIsByte ==
  ASSUME NEW value \in Nat, NEW i \in Nat \ {0}
  PROVE  ByteOf(value, i) \in Byte
  <1> DEFINE q == value \div Power[2 * (i - 1)]
  <1>1. 2 * (i - 1) \in Nat
    OBVIOUS
  <1>2. q \in Nat
    BY <1>1, PowerProperties, DivMod
  <1>3. Base * Base \in Nat \ {0}
    BY BaseIsNumber
  <1> HIDE DEF q
  <1>4. q % (Base * Base) \in 0..(Base * Base - 1)
    BY <1>2, <1>3, DivMod
  <1> QED
    BY <1>4 DEF ByteOf, Byte, q

\* Text that parse_inp accepts is digits, with a sign or without.
LEMMA NumberIsDigits ==
  ASSUME NEW text \in Seq(Characters), IsNumber(text)
  PROVE  \/ text \in Seq(Digit)
         \/ text # <<>> /\ Head(text) = Minus /\ Tail(text) \in Seq(Digit)
  <1>1. ASSUME NEW s \in Seq(Characters), ToSet(s) \subseteq 0..(Base - 1)
        PROVE  s \in Seq(Digit)
    <2>1. \A i \in 1..Len(s) : s[i] \in Digit
      BY <1>1 DEF ToSet, Digit
    <2> QED
      BY <2>1
  <1>2. CASE Len(text) > 1 /\ Head(text) = Minus
    <2>1. Tail(text) \in Seq(Characters) /\ text # <<>>
      BY <1>2
    <2>2. ToSet(Tail(text)) \subseteq 0..(Base - 1)
      BY <1>2 DEF IsNumber
    <2> QED
      BY <1>1, <1>2, <2>1, <2>2
  <1>3. CASE ~(Len(text) > 1 /\ Head(text) = Minus)
    <2>1. ToSet(text) \subseteq 0..(Base - 1)
      BY <1>3 DEF IsNumber
    <2> QED
      BY <1>1, <2>1
  <1> QED
    BY <1>2, <1>3

\* What strtoull reads is a number.
LEMMA ReadIsNumber ==
  ASSUME NEW text \in Seq(Characters), IsNumber(text)
  PROVE  strtoull(text) \in Nat
  <1>1. ULLONG_MAX \in Nat
    BY LargestIsNumber
  <1>2. ASSUME NEW t \in Seq(Digit)
        PROVE  Number(t) \in Nat
    BY <1>2, NumberIsValue DEF IsValue
  <1> DEFINE signed == text # <<>> /\ Head(text) = Minus
             value == Number(IF signed THEN Tail(text) ELSE text)
  <1>3. value \in Nat
    <2>1. CASE text \in Seq(Digit)
      <3>1. ~signed
        BY <2>1, DigitsAreCharacters
      <3> QED
        BY <1>2, <2>1, <3>1
    <2>2. CASE text # <<>> /\ Head(text) = Minus /\ Tail(text) \in Seq(Digit)
      BY <1>2, <2>2
    <2> QED
      BY <2>1, <2>2, NumberIsDigits
  <1>4. strtoull(text) = CASE value > ULLONG_MAX -> ULLONG_MAX
                           [] value <= ULLONG_MAX /\ signed -> (-value) % (ULLONG_MAX + 1)
                           [] OTHER -> value
    BY DEF strtoull
  <1> HIDE DEF value, signed
  <1>5. (-value) % (ULLONG_MAX + 1) \in Nat
    BY <1>1, <1>3
  <1> QED
    BY <1>1, <1>3, <1>4, <1>5

\* parse_inp of a number returns bytes, and there is only one outcome if the variable is
\* not larger than unsigned long long.
LEMMA ParsedIsMemory ==
  ASSUME NEW text \in Seq(Characters), IsNumber(text), NEW size \in Nat
  PROVE  /\ ParsedBytes(text, size) \subseteq Seq(Byte)
         /\ size <= LongLong => \E m : ParsedBytes(text, size) = {m}
  <1> DEFINE bytes(garbage) ==
               [i \in 1..size |-> IF i <= LongLong THEN ByteOf(strtoull(text), i) ELSE garbage]
  <1>1. \A i \in 1..size : ByteOf(strtoull(text), i) \in Byte
    BY ReadIsNumber, ByteIsByte
  <1>2. 0 \in Byte /\ Base \in Byte
    <2>1. Base <= Base * Base - 1
      BY BaseIsNumber
    <2> QED
      BY <2>1, BaseIsNumber DEF Byte
  <1>3. \A garbage \in {0, Base} : bytes(garbage) \in Seq(Byte)
    BY <1>1, <1>2
  <1>4. size <= LongLong => \A garbage \in {0, Base} : bytes(garbage) = bytes(0)
    BY BaseIsNumber
  <1>5. ParsedBytes(text, size) = {bytes(garbage) : garbage \in {0, Base}}
    BY DEF ParsedBytes
  <1> HIDE DEF bytes
  <1> QED
    BY <1>3, <1>4, <1>5

\* So does parse_inp of a number that is no integer.
LEMMA FloatIsMemory ==
  ASSUME NEW text \in DOMAIN LongDouble, NEW size \in Nat
  PROVE  /\ FloatBytes(text, size) \subseteq Seq(Byte)
         /\ size <= LongLong => \E m : FloatBytes(text, size) = {m}
  <1> DEFINE float == LongDouble[text]
             bytes(garbage) == [i \in 1..size |-> IF i <= Len(float) THEN float[i] ELSE garbage]
  <1>1. float \in Seq(Byte) /\ Len(float) \in Nat /\ Len(float) >= LongLong
    BY ValuesAssumption
  <1>2. 0 \in Byte /\ Base \in Byte
    <2>1. Base <= Base * Base - 1
      BY BaseIsNumber
    <2> QED
      BY <2>1, BaseIsNumber DEF Byte
  <1>3. FloatBytes(text, size) = {bytes(garbage) : garbage \in {0, Base}}
    BY DEF FloatBytes
  <1> HIDE DEF float
  <1>4. \A garbage \in {0, Base} : bytes(garbage) \in Seq(Byte)
    BY <1>1, <1>2
  <1>5. size <= LongLong => \A garbage \in {0, Base} : bytes(garbage) = bytes(0)
    BY <1>1, BaseIsNumber
  <1> HIDE DEF bytes
  <1> QED
    BY <1>3, <1>4, <1>5

\* A row of the random tester holds at least one digit, and all of them if there is room.
LEMMA RowTextProperties ==
  ASSUME NEW m \in Seq(Byte), m # <<>>, NEW r \in Rooms
  PROVE  /\ RowText(m, r) \in Seq(Digit) /\ RowText(m, r) # <<>>
         /\ 2 * Len(m) <= r => RowText(m, r) = RandomText(m)
  <1> DEFINE t == RandomText(m)
             n == IF 2 * Len(m) < r THEN 2 * Len(m) ELSE r
  <1>1. t \in Seq(Digit) /\ Len(t) = 2 * Len(m)
    BY RandomTextDigits
  <1>2. r \in Nat \ {0} /\ Len(m) \in Nat \ {0}
    BY HarnessAssumption
  <1>3. n \in 1..Len(t) /\ (2 * Len(m) <= r => n = Len(t))
    BY <1>1, <1>2
  <1>4. RowText(m, r) = SubSeq(t, 1, n)
    BY DEF RowText
  <1> HIDE DEF t, n
  <1>5. SubSeq(t, 1, n) \in Seq(Digit) /\ Len(SubSeq(t, 1, n)) = n
    BY <1>1, <1>3
  <1>6. SubSeq(t, 1, n) # <<>>
    BY <1>3, <1>5
  <1>7. SubSeq(t, 1, Len(t)) = t
    BY <1>1, SubSeqFull
  <1> QED
    BY <1>3, <1>4, <1>5, <1>6, <1>7 DEF t

\* A number in decimal notation is never an empty text, has neither quote nor backslash,
\* and parse_inp accepts it.
LEMMA DecimalTextProperties ==
  ASSUME NEW v \in (-ULLONG_MAX)..ULLONG_MAX
  PROVE  /\ DecimalText(v) \in Seq(Characters) /\ DecimalText(v) # <<>>
         /\ Quote \notin ToSet(DecimalText(v))
         /\ IsNumber(DecimalText(v))
         /\ Len(DecimalText(v)) <= 2 * LongLong + 1
  <1>1. PICK digits \in Seq(Digit) :
          /\ Len(digits) \in 1..(2 * LongLong)
          /\ DecimalText(v) = IF v < 0 THEN <<Minus>> \o digits ELSE digits
    BY DecimalDigits
  <1>2. Len(digits) \in Nat \ {0} /\ Len(digits) <= 2 * LongLong /\ digits \in Seq(Characters)
    BY <1>1, BaseIsNumber, DigitsAreCharacters
  <1>3. ToSet(digits) \subseteq 0..(Base - 1) /\ Quote \notin ToSet(digits)
    <2>1. \A i \in 1..Len(digits) : digits[i] \in Digit
      OBVIOUS
    <2> QED
      BY <2>1, DigitsAreCharacters DEF ToSet, Digit
  <1>4. CASE DecimalText(v) = digits
    <2>1. digits # <<>> /\ Head(digits) # Minus
      BY <1>2, DigitsAreCharacters
    <2>2. Len(digits) <= 2 * LongLong + 1
      BY <1>2, BaseIsNumber
    <2> QED
      BY <1>2, <1>3, <1>4, <2>1, <2>2 DEF IsNumber
  <1>5. CASE DecimalText(v) = <<Minus>> \o digits
    <2> DEFINE t == <<Minus>> \o digits
    <2>1. t # <<>> /\ Head(t) = Minus /\ Tail(t) = digits /\ Len(t) = Len(digits) + 1
      BY SignBeforeDigits
    <2>2. t \in Seq(Characters) /\ \A i \in 1..Len(t) : t[i] = Minus \/ t[i] \in Digit
      <3>1. <<Minus>> \in Seq(Characters)
        BY DigitsAreCharacters
      <3>2. t \in Seq(Characters)
        BY <1>2, <3>1
      <3>3. <<Minus>> \in Seq(Digit \cup {Minus}) /\ digits \in Seq(Digit \cup {Minus})
        OBVIOUS
      <3>4. t \in Seq(Digit \cup {Minus})
        BY <3>3
      <3> QED
        BY <3>2, <3>4
    <2> HIDE DEF t
    <2>3. Quote \notin ToSet(t)
      BY <2>2, DigitsAreCharacters DEF ToSet
    <2>4. Len(t) > 1
      BY <1>2, <2>1
    <2>5. IsNumber(t)
      BY <1>3, <2>1, <2>4 DEF IsNumber
    <2>6. Len(t) <= 2 * LongLong + 1
      BY <1>2, <2>1, BaseIsNumber
    <2> QED
      BY <1>5, <2>1, <2>2, <2>3, <2>5, <2>6 DEF t
  <1> QED
    BY <1>1, <1>4, <1>5

\* The texts that a converter for CREST reads from lines that are not empty, and an empty
\* one at the end, are these lines.
LEMMA CrestVectorOfTexts ==
  ASSUME NEW S, NEW texts \in Seq(S), <<>> \in S, \A i \in 1..Len(texts) : texts[i] # <<>>
  PROVE  CrestVector(Append(texts, <<>>)) = texts
  <1> DEFINE lines == Append(texts, <<>>)
             L == Len(lines)
             a == <<>>
             step(n, x) == IF lines[n] = <<>> THEN x ELSE Append(x, lines[n])
             F(u) == [n \in 0..L |-> IF n = 0 THEN a ELSE step(n, u[n - 1])]
             h == [n \in 0..L |-> SubSeq(texts, 1, IF n = L THEN n - 1 ELSE n)]
  <1>1. /\ lines \in Seq(S) /\ L = Len(texts) + 1 /\ Len(texts) \in Nat
        /\ \A n \in 1..Len(texts) : lines[n] = texts[n] /\ texts[n] \in S
        /\ lines[L] = <<>>
    OBVIOUS
  <1> HIDE DEF lines
  <1>2. \A n \in 0..L : h[n] = IF n = 0 THEN a ELSE step(n, h[n - 1])
    <2> SUFFICES ASSUME NEW n \in 0..L
                 PROVE  h[n] = IF n = 0 THEN a ELSE step(n, h[n - 1])
      OBVIOUS
    <2>1. CASE n = 0
      BY <1>1, <2>1
    <2>2. CASE n = L
      <3>1. h[n] = SubSeq(texts, 1, n - 1) /\ h[n - 1] = SubSeq(texts, 1, n - 1) /\ lines[n] = <<>>
        BY <1>1, <2>2
      <3> QED
        BY <1>1, <2>2, <3>1
    <2>3. CASE n \in 1..Len(texts)
      <3>1. h[n] = SubSeq(texts, 1, n) /\ h[n - 1] = SubSeq(texts, 1, n - 1)
        BY <1>1, <2>3
      <3>2. SubSeq(texts, 1, n) = Append(SubSeq(texts, 1, n - 1), texts[n])
        <4>1. SubSeq(texts, 1, n) = SubSeq(texts, 1, n - 1) \o <<texts[n]>>
          <5>1. 1 \in 1..Len(texts) /\ n \in 1..Len(texts)
            BY <1>1, <2>3
          <5> QED
            BY <5>1, SubSeqRecursiveSecond
        <4>2. SubSeq(texts, 1, n - 1) \in Seq(S) /\ texts[n] \in S
          BY <1>1, <2>3
        <4> QED
          BY <4>1, <4>2, AppendIsConcat
      <3>3. n # 0 /\ lines[n] = texts[n] /\ lines[n] # <<>>
        BY <1>1, <2>3
      <3> QED
        BY <3>1, <3>2, <3>3
    <2>4. n = 0 \/ n = L \/ n \in 1..Len(texts)
      BY <1>1
    <2> HIDE DEF h, step, a
    <2> QED
      BY <2>1, <2>2, <2>3, <2>4
  <1>3. h = F(h)
    <2>1. h = [n \in 0..L |-> h[n]]
      OBVIOUS
    <2> HIDE DEF h
    <2> QED
      BY <1>2, <2>1
  <1> DEFINE values == CHOOSE u : u = F(u)
  <1>4. values = F(values)
    BY <1>3
  <1>5. CrestVector(lines) = values[L]
    BY DEF CrestVector
  <1>6. h[L] = texts
    <2>1. L \in 0..L /\ L - 1 = Len(texts)
      BY <1>1
    <2>2. h[L] = SubSeq(texts, 1, Len(texts))
      BY <2>1
    <2> QED
      BY <2>2, SubSeqFull
  <1> HIDE DEF values, h
  <1>7. \A n \in 0..L : values[n] = IF n = 0 THEN a ELSE step(n, values[n - 1])
    BY <1>4
  <1> HIDE DEF step, a
  <1> DEFINE T == {n \in Nat : n <= L => values[n] = h[n]}
  <1>8. 0 \in T
    BY <1>1, <1>2, <1>7
  <1>9. ASSUME NEW n \in Nat, n \in T
        PROVE  n + 1 \in T
    <2> SUFFICES ASSUME n + 1 <= L
                 PROVE  values[n + 1] = h[n + 1]
      OBVIOUS
    <2>1. n + 1 \in 0..L /\ n + 1 # 0 /\ (n + 1) - 1 = n /\ values[n] = h[n]
      BY <1>1, <1>9
    <2> QED
      BY <1>2, <1>7, <2>1
  <1> HIDE DEF T
  <1>10. L \in T
    BY <1>1, <1>8, <1>9, SetInduction
  <1> QED
    BY <1>1, <1>5, <1>6, <1>10 DEF T, lines

-----------------------------------------------------------------------------
(* What is read is what was chosen *)

\* The numbers of every type are in the range of long long and unsigned long long.
LEMMA NumbersFit ==
  ASSUME NEW t \in Types, NEW v \in Numbers(t)
  PROVE  v \in (-ULLONG_MAX)..ULLONG_MAX
  <1> DEFINE n == Power[2 * SizeOf[t]]
  <1>1. SizeOf[t] \in Nat \ {0} /\ SizeOf[t] <= LongLong
    <2>1. SizeOf[t] \in {1, LongLong}
      BY DEF SizeOf
    <2> QED
      BY <2>1, BaseIsNumber
  <1>2. 2 * SizeOf[t] \in Nat /\ 2 * LongLong \in Nat /\ 2 * SizeOf[t] <= 2 * LongLong
    BY <1>1, BaseIsNumber
  <1>3. n \in Nat \ {0} /\ n <= ULLONG_MAX + 1
    BY <1>2, PowerProperties, PowerIncreases, LargestIsNumber
  <1>4. v \in -(n \div 2)..(n \div 2 - 1) \/ v \in 0..(n - 1)
    BY DEF Numbers
  <1> HIDE DEF n
  <1>5. ULLONG_MAX \in Nat
    BY LargestIsNumber
  <1>6. n \div 2 \in Nat /\ n \div 2 <= n - 1
    BY <1>3
  <1> QED
    BY <1>3, <1>4, <1>5, <1>6

\* The types whose numbers the generators choose are types.
LEMMA NumberTypeIsType ==
  ASSUME NEW t \in Types
  PROVE  NumberType(t) \in Types
  BY DEF NumberType, internal_type, Types

\* A truth value that is given as a number of one digit.
LEMMA TruthValueIsRead ==
  ASSUME NEW v \in (-ULLONG_MAX)..ULLONG_MAX, NEW d \in {0, 1}, DecimalText(v) = <<d>>
  PROVE  v = d /\ ParsedBytes(<<d>>, 1) = {<<d>>}
  <1>1. d \in Digit /\ d \in Nat /\ <<d>> \in Seq(Digit) /\ Len(<<d>>) = 1
    BY BaseIsNumber DEF Digit
  <1>2. strtoull(<<d>>) = d
    <2>1. PICK u : IsValue(u, <<d>>) /\ strtoull(<<d>>) = u[Len(<<d>>)]
      <3>1. Len(<<d>>) <= 2 * LongLong
        BY <1>1, BaseIsNumber
      <3> QED
        BY <1>1, <3>1, DigitsAreRead
    <2>2. u[0 + 1] = Base * u[0] + <<d>>[0 + 1] /\ u[0] = 0
      BY <1>1, <2>1 DEF IsValue
    <2>3. u[1] = d
      BY <1>1, <2>2, BaseIsNumber
    <2> QED
      BY <1>1, <2>1, <2>3
  <1>3. v \in Int /\ ULLONG_MAX \in Nat /\ v <= ULLONG_MAX
    BY LargestIsNumber
  <1>4. v >= 0
    <2> SUFFICES ASSUME v < 0
                 PROVE  FALSE
      BY <1>3
    <2>1. PICK digits \in Seq(Digit) : DecimalText(v) = <<Minus>> \o digits
      BY DecimalDigits
    <2>2. Head(<<Minus>> \o digits) = Minus
      BY SignBeforeDigits
    <2>3. Head(<<d>>) = d
      OBVIOUS
    <2> QED
      BY <1>1, <2>1, <2>2, <2>3, DigitsAreCharacters
  <1>5. v = d
    <2>1. strtoull(<<d>>) = v % (ULLONG_MAX + 1)
      BY DecimalIsRead
    <2>2. v % (ULLONG_MAX + 1) = v
      BY <1>3, <1>4
    <2> QED
      BY <1>2, <2>1, <2>2
  <1>6. ParsedBytes(<<d>>, 1) = {[i \in 1..1 |-> ByteOf(v % (ULLONG_MAX + 1), i)]}
    <2>1. 1 \in 1..LongLong
      BY BaseIsNumber
    <2> QED
      BY <2>1, DecimalRoundTrip
  <1>7. v % (ULLONG_MAX + 1) = d
    BY <1>3, <1>4, <1>5
  <1>8. ByteOf(d, 1) = d
    <2> DEFINE square == Base * Base
    <2>1. Power[2 * (1 - 1)] = 1
      BY PowerProperties
    <2>2. square \in Nat \ {0} /\ d < square
      <3>1. 1 * Base <= Base * Base /\ Base > 1 /\ square \in Nat
        BY BaseIsNumber, Products
      <3> HIDE DEF square
      <3>2. Base \in Nat /\ Base <= square
        BY <3>1, BaseIsNumber DEF square
      <3> QED
        BY <3>1, <3>2
    <2>3. ByteOf(d, 1) = d % square
      BY <1>1, <2>1 DEF ByteOf
    <2> HIDE DEF square
    <2> QED
      BY <1>1, <2>2, <2>3
  <1>9. [i \in 1..1 |-> ByteOf(v % (ULLONG_MAX + 1), i)] = <<d>>
    BY <1>7, <1>8
  <1> QED
    BY <1>5, <1>6, <1>9

\* What parse_inp makes of the text of a variable is the memory that the generator chose,
\* with the exceptions that ValuesSurvive names.
LEMMA ChosenIsRead ==
  ASSUME TypeOK, VectorIsWritten, FitsLongLong, NEW i \in DOMAIN chosen,
         CanBeRead(i)
  PROVE  /\ i \in DOMAIN vector /\ vector[i] # <<>> /\ Quote \notin ToSet(vector[i])
         /\ IsNumber(vector[i]) /\ ~IsTooLong(vector[i])
         /\ ParsedBytes(vector[i], Len(chosen[i])) = {chosen[i]}
  <1>1. /\ chosen[i] \in Seq(Byte) /\ Len(chosen[i]) <= LongLong
        /\ i \in 1..Len(chosen)
    BY DEF TypeOK, FitsLongLong
  <1>6. ASSUME NEW t, Len(t) \in Nat, Len(t) <= 2 * LongLong + 1
        PROVE  ~IsTooLong(t)
    <2>1. InpSize \in Nat /\ 2 * LongLong + 4 <= InpSize
      BY HarnessAssumption
    <2> QED
      BY <1>6, <2>1, BaseIsNumber DEF IsTooLong
  <1>2. ASSUME NEW t \in Seq(Digit), t # <<>>
        PROVE  Quote \notin ToSet(t) /\ IsNumber(t)
    <2>1. \A j \in 1..Len(t) : t[j] \in Digit
      OBVIOUS
    <2>2. ToSet(t) \subseteq 0..(Base - 1) /\ Quote \notin ToSet(t)
      BY <2>1, DigitsAreCharacters DEF ToSet, Digit
    <2>3. Head(t) # Minus
      BY <1>2, DigitsAreCharacters
    <2> QED
      BY <2>2, <2>3 DEF IsNumber
  <1>3. CASE generator \in {"random", "klee"}
    <2>1. Len(vector) = Len(chosen) /\ chosen[i] # <<>>
      BY <1>3 DEF VectorIsWritten
    <2>2. i \in DOMAIN vector
      BY <1>1, <2>1 DEF TypeOK
    <2>3. vector[i] = RandomText(chosen[i])
      <3>1. CASE generator = "random"
        <4>1. room \in Rooms /\ vector[i] = RowText(chosen[i], room)
          BY <3>1 DEF VectorIsWritten
        <4> QED
          BY <1>1, <2>1, <3>1, <4>1, RowTextProperties DEF CanBeRead
      <3>2. CASE generator = "klee"
        <4>1. vector[i] = KleeText(chosen[i])
          BY <3>2 DEF VectorIsWritten
        <4>2. \A j \in 1..Len(chosen[i]) : chosen[i][j] \notin Shown
          BY <1>1, <3>2 DEF ToSet, CanBeRead
        <4> QED
          BY <1>1, <2>1, <4>1, <4>2, KleeTextIsRandomText
      <3> QED
        BY <1>3, <3>1, <3>2
    <2>4. /\ vector[i] \in Seq(Digit) /\ vector[i] # <<>>
          /\ Len(vector[i]) \in Nat /\ Len(vector[i]) <= 2 * LongLong + 1
      <3>1. Len(chosen[i]) \in Nat \ {0}
        BY <1>1, <2>1
      <3>2. RandomText(chosen[i]) \in Seq(Digit) /\ Len(RandomText(chosen[i])) = 2 * Len(chosen[i])
        BY <1>1, RandomTextDigits
      <3>3. Len(RandomText(chosen[i])) > 0 /\ Len(RandomText(chosen[i])) <= 2 * LongLong + 1
        BY <1>1, <3>1, <3>2, BaseIsNumber
      <3> QED
        BY <2>3, <3>2, <3>3
    <2> QED
      BY <1>1, <1>2, <1>6, <2>1, <2>2, <2>3, <2>4, RandomRoundTrip
  <1>4. CASE generator \in {"crest", "cpatiger"}
    <2>1. /\ Len(types) = Len(chosen) /\ Len(vector) = Len(chosen)
      BY <1>1, <1>4 DEF VectorIsWritten
    <2>2. i \in DOMAIN vector /\ i \in DOMAIN types /\ types[i] \in Types
      BY <1>1, <2>1 DEF TypeOK
    <2>3. PICK v \in Values : /\ v \in Numbers(NumberType(types[i]))
                              /\ vector[i] = DecimalText(v)
                              /\ chosen[i] = Cast(v, types[i])
      BY <1>4 DEF VectorIsWritten
    <2>4. v \in (-ULLONG_MAX)..ULLONG_MAX
      BY <2>2, <2>3, NumbersFit, NumberTypeIsType
    <2>5. ParsedBytes(vector[i], Len(chosen[i])) = {chosen[i]}
      <3>1. CASE types[i] = "_Bool"
        <4>1. PICK d \in {0, 1} : vector[i] = <<d>>
          BY <2>2, <3>1 DEF CanBeRead
        <4>2. v = d /\ ParsedBytes(<<d>>, 1) = {<<d>>}
          BY <2>3, <2>4, <4>1, TruthValueIsRead
        <4>3. chosen[i] = <<d>> /\ Len(chosen[i]) = 1
          BY <2>3, <3>1, <4>2 DEF Cast
        <4> QED
          BY <4>1, <4>2, <4>3
      <3>2. CASE types[i] # "_Bool"
        <4> DEFINE size == SizeOf[types[i]]
        <4>1. chosen[i] = [j \in 1..size |-> ByteOf(v % (ULLONG_MAX + 1), j)]
          BY <2>3, <3>2 DEF Cast
        <4>2. size \in 1..LongLong
          BY <2>2, BaseIsNumber DEF SizeOf
        <4> HIDE DEF size
        <4>3. Len(chosen[i]) = size
          BY <4>1, <4>2, BaseIsNumber
        <4>4. ParsedBytes(DecimalText(v), size) =
                {[j \in 1..size |-> ByteOf(v % (ULLONG_MAX + 1), j)]}
          BY <2>4, <4>2, DecimalRoundTrip
        <4> QED
          BY <2>3, <4>1, <4>3, <4>4
      <3> QED
        BY <3>1, <3>2
    <2>6. ~IsTooLong(vector[i])
      <3>1. DecimalText(v) \in Seq(Characters) /\ Len(DecimalText(v)) <= 2 * LongLong + 1
        BY <2>4, DecimalTextProperties
      <3> QED
        BY <1>6, <2>3, <3>1
    <2> QED
      BY <2>2, <2>3, <2>4, <2>5, <2>6, DecimalTextProperties
  <1>5. CASE generator = "afl"
    BY <1>1, <1>5 DEF VectorIsWritten
  <1> QED
    BY <1>3, <1>4, <1>5, HarnessAssumption DEF TypeOK

\* With these exceptions, the buffer has room for every text.
LEMMA TextsFit ==
  ASSUME TypeOK, VectorIsWritten, FitsLongLong, chosen # <<>>, \A i \in DOMAIN chosen : CanBeRead(i)
  PROVE  AllFit
  <1>1. Len(vector) = Len(chosen)
    BY HarnessAssumption DEF TypeOK, VectorIsWritten
  <1>2. DOMAIN vector = DOMAIN chosen
    BY <1>1 DEF TypeOK
  <1> QED
    BY <1>2, ChosenIsRead DEF AllFit

\* A value is empty only if AFL or CPATiger leave it empty.
LEMMA EmptyValues ==
  ASSUME TypeOK, VectorIsWritten, NEW i \in DOMAIN vector, generator \notin {"afl", "cpatiger"}
  PROVE  vector[i] # <<>>
  <1>1. generator \in {"random", "klee", "crest"}
    BY HarnessAssumption DEF TypeOK
  <1>2. i \in DOMAIN chosen /\ Len(vector) = Len(chosen)
    BY <1>1 DEF TypeOK, VectorIsWritten
  <1>3. chosen[i] \in Seq(Byte)
    BY <1>2 DEF TypeOK
  <1>4. CASE generator = "random"
    <2>1. room \in Rooms /\ chosen[i] # <<>> /\ vector[i] = RowText(chosen[i], room)
      BY <1>2, <1>4 DEF VectorIsWritten
    <2> QED
      BY <1>3, <2>1, RowTextProperties
  <1>5. CASE generator = "klee"
    <2>1. chosen[i] # <<>> /\ vector[i] = KleeText(chosen[i])
      BY <1>2, <1>5 DEF VectorIsWritten
    <2> QED
      BY <1>3, <2>1, KleeTextIsText
  <1>6. CASE generator = "crest"
    <2>1. PICK v \in Values : v \in Numbers(NumberType(types[i])) /\ vector[i] = DecimalText(v)
      BY <1>2, <1>6 DEF VectorIsWritten
    <2>2. types[i] \in Types
      BY <1>2, <1>6 DEF TypeOK, VectorIsWritten
    <2> QED
      BY <2>1, <2>2, NumbersFit, NumberTypeIsType, DecimalTextProperties
  <1> QED
    BY <1>1, <1>4, <1>5, <1>6

-----------------------------------------------------------------------------
(* Counting *)

\* How many outcomes are none of X.
Count(outcomes, X) == Cardinality({i \in DOMAIN outcomes : outcomes[i] \notin X})

\* One more outcome is counted, or it is not.
LEMMA CountAppend ==
  ASSUME NEW S, NEW s \in Seq(S), NEW o \in S, NEW X
  PROVE  /\ Count(s, X) \in Nat
         /\ Count(Append(s, o), X) = IF o \in X THEN Count(s, X) ELSE Count(s, X) + 1
  <1> DEFINE C(t) == {i \in DOMAIN t : t[i] \notin X}
             L == Len(s)
             t == Append(s, o)
  <1>1. /\ L \in Nat /\ DOMAIN s = 1..L /\ DOMAIN t = 1..(L + 1)
        /\ t[L + 1] = o /\ \A i \in 1..L : t[i] = s[i]
    OBVIOUS
  <1>2. IsFiniteSet(C(s))
    <2>1. IsFiniteSet(1..L)
      BY <1>1, FS_Interval
    <2>2. C(s) \subseteq 1..L
      BY <1>1
    <2> HIDE DEF C
    <2> QED
      BY <2>1, <2>2, FS_Subset
  <1>3. C(t) = IF o \in X THEN C(s) ELSE C(s) \cup {L + 1}
    BY <1>1
  <1>4. L + 1 \notin C(s)
    BY <1>1
  <1> HIDE DEF C, t
  <1>5. Cardinality(C(s)) \in Nat
    BY <1>2, FS_CardinalityType
  <1>6. Cardinality(C(s) \cup {L + 1}) = Cardinality(C(s)) + 1
    BY <1>2, <1>4, FS_AddElement
  <1>7. Cardinality(C(t)) = IF o \in X THEN Cardinality(C(s)) ELSE Cardinality(C(s)) + 1
    BY <1>3, <1>6
  <1> QED
    BY <1>5, <1>7 DEF Count, C, t

\* The values that the program got.
LEMMA NumberAppend ==
  ASSUME NEW S, NEW s \in Seq(S), NEW o \in S
  PROVE  /\ NumberOfValues(s) \in Nat
         /\ NumberOfValues(Append(s, o)) =
              IF o = Void THEN NumberOfValues(s) ELSE NumberOfValues(s) + 1
  <1>1. ASSUME NEW t
        PROVE  NumberOfValues(t) = Count(t, {Void})
    <2>1. {i \in DOMAIN t : t[i] # Void} = {i \in DOMAIN t : t[i] \notin {Void}}
      OBVIOUS
    <2> QED
      BY <2>1 DEF NumberOfValues, Count
  <1> QED
    BY <1>1, CountAppend

\* One more outcome is the chosen one, and the others still are.
LEMMA ChosenAppend ==
  ASSUME NEW S, NEW s \in Seq(S), NEW o \in S, AreChosen(s),
         LET n == NumberOfValues(s) + 1
         IN o # Void /\ n \in DOMAIN chosen => o = Value(chosen[n])
  PROVE  AreChosen(Append(s, o))
  <1> DEFINE t == Append(s, o)
             L == Len(s)
  <1>1. /\ L \in Nat /\ DOMAIN s = 1..L /\ DOMAIN t = 1..(L + 1)
        /\ t[L + 1] = o /\ \A i \in 1..L : t[i] = s[i]
    OBVIOUS
  <1>2. \A i \in 1..L : SubSeq(t, 1, i) = SubSeq(s, 1, i)
    BY <1>1
  <1>3. SubSeq(t, 1, L + 1) = t
    BY <1>1, SubSeqFull
  <1>4. o # Void => NumberOfValues(t) = NumberOfValues(s) + 1
    BY NumberAppend
  <1> SUFFICES ASSUME NEW i \in 1..(L + 1), t[i] # Void, NumberOfValues(SubSeq(t, 1, i)) \in DOMAIN chosen
               PROVE  t[i] = Value(chosen[NumberOfValues(SubSeq(t, 1, i))])
    BY <1>1 DEF AreChosen
  <1> HIDE DEF t
  <1>5. CASE i \in 1..L
    BY <1>1, <1>2, <1>5 DEF AreChosen
  <1>6. CASE i = L + 1
    BY <1>1, <1>3, <1>4, <1>6
  <1> QED
    BY <1>1, <1>5, <1>6

-----------------------------------------------------------------------------
(* The invariant holds at the beginning *)

\* PRTest's and KLEE's texts.
LEMMA MemoryImpliesInv ==
  ASSUME ChooseMemory
  PROVE  /\ chosen \in Seq(Seq(Byte)) /\ types \in Seq(Types) /\ room \in Rooms \cup {0}
         /\ vector \in Seq(Seq(Characters))
         /\ VectorIsWritten
  <1>1. generator \in {"random", "klee"} /\ types = <<>>
    BY DEF ChooseMemory
  <1>2. room \in IF generator = "random" THEN Rooms ELSE {0}
    BY DEF ChooseMemory
  <1>3. PICK n \in 1..MaxValues : chosen \in [1..n -> Memories]
    BY DEF ChooseMemory
  <1>4. n \in Nat
    BY HarnessAssumption
  <1>5. \A i \in 1..n : chosen[i] \in Seq(Byte) /\ chosen[i] # <<>>
    BY <1>3, HarnessAssumption
  <1>6. chosen \in Seq(Seq(Byte)) /\ DOMAIN chosen = 1..n /\ Len(chosen) = n
    BY <1>3, <1>4, <1>5
  <1> DEFINE text(i) == IF generator = "random" THEN RowText(chosen[i], room) ELSE KleeText(chosen[i])
  <1>7. vector = [i \in DOMAIN chosen |-> text(i)]
    BY DEF ChooseMemory
  <1>8. \A i \in 1..n : text(i) \in Seq(Characters)
    <2> SUFFICES ASSUME NEW i \in 1..n
                 PROVE  text(i) \in Seq(Characters)
      OBVIOUS
    <2>1. CASE generator = "random"
      <3>1. RowText(chosen[i], room) \in Seq(Digit)
        BY <1>2, <1>5, <2>1, RowTextProperties
      <3> QED
        BY <2>1, <3>1, DigitsAreCharacters
    <2>2. CASE generator # "random"
      <3>1. KleeText(chosen[i]) \in Seq(Characters)
        BY <1>5, KleeTextIsText
      <3> QED
        BY <2>2, <3>1
    <2> QED
      BY <2>1, <2>2
  <1> HIDE DEF text
  <1>9. vector \in Seq(Seq(Characters)) /\ Len(vector) = n /\ \A i \in 1..n : vector[i] = text(i)
    BY <1>4, <1>6, <1>7, <1>8
  <1>10. VectorIsWritten
    BY <1>1, <1>2, <1>5, <1>6, <1>9 DEF VectorIsWritten, text
  <1> QED
    BY <1>1, <1>2, <1>6, <1>9, <1>10

\* CREST's and CPATiger's texts.
LEMMA NumbersImplyInv ==
  ASSUME ChooseNumbers
  PROVE  /\ chosen \in Seq(Seq(Byte)) /\ types \in Seq(Types) /\ room \in Rooms \cup {0}
         /\ vector \in Seq(Seq(Characters))
         /\ VectorIsWritten
  <1>1. generator \in {"crest", "cpatiger"} /\ room = 0
    BY DEF ChooseNumbers
  <1>2. PICK n \in 0..MaxValues :
          /\ types \in [1..n -> Types]
          /\ \E numbers \in [1..n -> Values] :
               LET texts == [i \in 1..n |-> DecimalText(numbers[i])]
               IN /\ \A i \in 1..n : numbers[i] \in Numbers(NumberType(types[i]))
                  /\ chosen = [i \in 1..n |-> Cast(numbers[i], types[i])]
                  /\ vector = IF generator = "crest" THEN CrestVector(Append(texts, <<>>))
                              ELSE CpaTigerVector(texts)
    BY DEF ChooseNumbers
  <1>3. n \in Nat
    BY HarnessAssumption
  <1>4. PICK numbers \in [1..n -> Values] :
          /\ \A i \in 1..n : numbers[i] \in Numbers(NumberType(types[i]))
          /\ chosen = [i \in 1..n |-> Cast(numbers[i], types[i])]
          /\ vector = IF generator = "crest"
                      THEN CrestVector(Append([i \in 1..n |-> DecimalText(numbers[i])], <<>>))
                      ELSE CpaTigerVector([i \in 1..n |-> DecimalText(numbers[i])])
    BY <1>2
  <1> DEFINE texts == [i \in 1..n |-> DecimalText(numbers[i])]
  <1>5. types \in Seq(Types) /\ Len(types) = n /\ \A i \in 1..n : types[i] \in Types
    BY <1>2, <1>3
  <1>6. \A i \in 1..n : numbers[i] \in (-ULLONG_MAX)..ULLONG_MAX
    BY <1>4, <1>5, NumbersFit, NumberTypeIsType
  <1>7. texts \in Seq(Seq(Characters)) /\ Len(texts) = n
        /\ \A i \in 1..n : texts[i] = DecimalText(numbers[i]) /\ texts[i] # <<>>
    <2>1. \A i \in 1..n : DecimalText(numbers[i]) \in Seq(Characters) /\ DecimalText(numbers[i]) # <<>>
      BY <1>6, DecimalTextProperties
    <2> QED
      BY <1>3, <2>1
  <1>8. \A i \in 1..n : Cast(numbers[i], types[i]) \in Seq(Byte)
    <2> SUFFICES ASSUME NEW i \in 1..n
                 PROVE  Cast(numbers[i], types[i]) \in Seq(Byte)
      OBVIOUS
    <2> DEFINE v == numbers[i]
               size == SizeOf[types[i]]
    <2>1. size \in Nat
      <3>1. size \in {1, LongLong}
        BY <1>5 DEF SizeOf
      <3> QED
        BY <3>1, BaseIsNumber
    <2>2. v % (ULLONG_MAX + 1) \in Nat
      <3>1. v \in Int /\ ULLONG_MAX \in Nat
        BY <1>6, LargestIsNumber
      <3> HIDE DEF v
      <3> QED
        BY <3>1
    <2>3. 0 \in Byte /\ 1 \in Byte
      <3>1. Base \in Nat /\ Base > 1 /\ 1 * Base <= Base * Base /\ Base * Base \in Nat
        BY BaseIsNumber, Products
      <3> QED
        BY <3>1 DEF Byte
    <2>4. [j \in 1..size |-> ByteOf(v % (ULLONG_MAX + 1), j)] \in Seq(Byte)
      <3> HIDE DEF v, size
      <3>1. \A j \in 1..size : ByteOf(v % (ULLONG_MAX + 1), j) \in Byte
        BY <2>1, <2>2, ByteIsByte
      <3> QED
        BY <2>1, <3>1
    <2> QED
      BY <2>3, <2>4 DEF Cast
  <1>9. chosen \in Seq(Seq(Byte)) /\ Len(chosen) = n
    BY <1>3, <1>4, <1>8
  <1> HIDE DEF texts
  <1>10. vector = texts \/ (generator = "cpatiger" /\ texts = <<>> /\ vector = <<<<>>>>)
    <2>1. CASE generator = "crest"
      <3>1. vector = CrestVector(Append(texts, <<>>))
        BY <1>4, <2>1 DEF texts
      <3>2. <<>> \in Seq(Characters) /\ \A i \in 1..Len(texts) : texts[i] # <<>>
        BY <1>7
      <3> QED
        BY <1>7, <3>1, <3>2, CrestVectorOfTexts
    <2>2. CASE generator = "cpatiger"
      BY <1>4, <2>2 DEF texts, CpaTigerVector
    <2> QED
      BY <1>1, <2>1, <2>2
  <1>11. vector \in Seq(Seq(Characters))
    <2>1. <<>> \in Seq(Characters)
      OBVIOUS
    <2>2. <<<<>>>> \in Seq(Seq(Characters))
      BY <2>1
    <2> QED
      BY <1>7, <1>10, <2>2
  <1>12. Len(vector) = Len(chosen) \/ (generator = "cpatiger" /\ chosen = <<>>)
    BY <1>7, <1>9, <1>10
  <1>13. ASSUME NEW i \in DOMAIN chosen
         PROVE  \E v \in Values : /\ v \in Numbers(NumberType(types[i]))
                                  /\ vector[i] = DecimalText(v)
                                  /\ chosen[i] = Cast(v, types[i])
    <2>1. i \in 1..n
      BY <1>9
    <2>2. vector = texts
      BY <1>7, <1>10, <2>1
    <2>3. /\ numbers[i] \in Values /\ numbers[i] \in Numbers(NumberType(types[i]))
          /\ vector[i] = DecimalText(numbers[i]) /\ chosen[i] = Cast(numbers[i], types[i])
      BY <1>4, <1>7, <2>1, <2>2
    <2> QED
      BY <2>3
  <1> QED
    BY <1>1, <1>5, <1>9, <1>11, <1>12, <1>13 DEF VectorIsWritten

\* AFL's texts.
LEMMA LinesImplyInv ==
  ASSUME ChooseLines
  PROVE  /\ chosen \in Seq(Seq(Byte)) /\ types \in Seq(Types) /\ room \in Rooms \cup {0}
         /\ vector \in Seq(Seq(Characters))
         /\ VectorIsWritten
  <1>1. generator = "afl" /\ room = 0 /\ chosen = <<>> /\ types = <<>>
    BY DEF ChooseLines
  <1>2. PICK n \in 1..MaxLines : vector \in [1..n -> Lines]
    BY DEF ChooseLines, AflVector
  <1>3. n \in Nat /\ Lines \subseteq Seq(Characters)
    BY HarnessAssumption
  <1>4. vector \in [1..n -> Seq(Characters)]
    BY <1>2, <1>3
  <1>5. vector \in Seq(Seq(Characters))
    BY <1>3, <1>4
  <1> QED
    BY <1>1, <1>5 DEF VectorIsWritten

LEMMA InitImpliesInv == Init => HarnessInv
  <1> SUFFICES ASSUME Init
               PROVE  HarnessInv
    OBVIOUS
  <1>1. /\ chosen \in Seq(Seq(Byte)) /\ types \in Seq(Types) /\ room \in Rooms \cup {0}
        /\ vector \in Seq(Seq(Characters))
        /\ VectorIsWritten
    BY MemoryImpliesInv, NumbersImplyInv, LinesImplyInv DEF Init
  <1>2. generator \in Generators /\ stdin = vector /\ access_counter = 0 /\ generic = <<>> /\ embedded = <<>>
    BY DEF Init
  <1>4. Cardinality({i \in DOMAIN embedded : embedded[i] \notin {Void, Aborted}}) = 0
    <2>1. {i \in DOMAIN embedded : embedded[i] \notin {Void, Aborted}} = {}
      BY <1>2
    <2> QED
      BY <2>1, FS_EmptySet
  <1>5. NumberOfValues(generic) = 0
    <2>1. {i \in DOMAIN generic : generic[i] # Void} = {}
      BY <1>2
    <2> QED
      BY <2>1, FS_EmptySet DEF NumberOfValues
  <1>6. TypeOK
    BY <1>1, <1>2, <1>4 DEF TypeOK
  <1>7. CallsAreSame
    BY <1>2 DEF CallsAreSame
  <1>8. StdinIsRest
    BY <1>1, <1>2, <1>5, SubSeqFull DEF StdinIsRest
  <1>9. AreChosen(generic) /\ AreChosen(embedded)
    BY <1>2 DEF AreChosen
  <1>10. ValuesSurvive
    BY <1>9 DEF ValuesSurvive
  <1>11. SameValues
    BY <1>2 DEF SameValues
  <1> QED
    BY <1>1, <1>6, <1>7, <1>8, <1>10, <1>11 DEF HarnessInv

-----------------------------------------------------------------------------
(* Every call preserves the invariant *)

\* How many values the program got only depends on which calls were void.
LEMMA SameNumber ==
  ASSUME TypeOK, CallsAreSame
  PROVE  NumberOfValues(generic) = NumberOfValues(embedded)
  <1>1. DOMAIN generic = DOMAIN embedded
    BY DEF TypeOK, CallsAreSame
  <1>2. {i \in DOMAIN generic : generic[i] # Void} = {i \in DOMAIN embedded : embedded[i] # Void}
    BY <1>1 DEF CallsAreSame
  <1> QED
    BY <1>2 DEF NumberOfValues

\* While the program runs, the counter of the embedded harness counts its values.
LEMMA CounterIsNumber ==
  ASSUME TypeOK, Running
  PROVE  access_counter = NumberOfValues(generic)
  <1>1. \A i \in DOMAIN embedded : embedded[i] # Aborted
    BY DEF Running, ToSet
  <1>2. {i \in DOMAIN embedded : embedded[i] \notin {Void, Aborted}} = {i \in DOMAIN generic : generic[i] # Void}
    BY <1>1 DEF Running
  <1> QED
    BY <1>2 DEF TypeOK, NumberOfValues

\* The kinds of outcomes differ.
LEMMA Outcomes ==
  /\ Void \in Outcome /\ Aborted \in Outcome /\ Garbage \in Outcome
  /\ Void # Aborted /\ Void # Garbage /\ Aborted # Garbage
  /\ \A m : Value(m) # Void /\ Value(m) # Aborted
  /\ \A m \in Seq(Byte) : Value(m) \in Outcome
  BY DEF Void, Aborted, Garbage, Value, Outcome

\* What a call can return in the generic and the embedded harness.
LineOutcomes == IF stdin = <<>> THEN {Garbage} ELSE ParseLine(ReadLine(Head(stdin)), NextSize)

LiteralOutcomes ==
    IF CaseOf(access_counter) \in DOMAIN vector
    THEN ParseLiteral(vector[CaseOf(access_counter)], NextSize)
    ELSE {Aborted}

\* The size of a variable is a number, and small if all variables are.
LEMMA NextSizeIsNumber ==
  ASSUME TypeOK
  PROVE  /\ NextSize \in Nat
         /\ FitsLongLong => NextSize <= LongLong
         /\ NumberOfValues(generic) + 1 \in DOMAIN chosen =>
              NextSize = Len(chosen[NumberOfValues(generic) + 1])
  <1> DEFINE n == NumberOfValues(generic) + 1
  <1>1. NextSize = IF n \in DOMAIN chosen THEN Len(chosen[n]) ELSE 1
    BY DEF NextSize
  <1>2. n \in DOMAIN chosen => Len(chosen[n]) \in Nat
    BY DEF TypeOK
  <1>3. FitsLongLong /\ n \in DOMAIN chosen => Len(chosen[n]) <= LongLong
    BY DEF FitsLongLong
  <1> HIDE DEF n
  <1>4. NextSize \in Nat
    BY <1>1, <1>2
  <1>5. FitsLongLong => NextSize <= LongLong
    BY <1>1, <1>3, BaseIsNumber
  <1> QED
    BY <1>1, <1>4, <1>5 DEF n

\* What is read of stdin is text, and so is what is left.
LEMMA ReadIsText ==
  ASSUME TypeOK
  PROVE  /\ stdin # <<>> => ReadLine(Head(stdin)) \in Seq(Characters)
         /\ AfterRead(stdin) \in Seq(Seq(Characters))
  <1>1. CASE stdin = <<>>
    BY <1>1 DEF AfterRead, TypeOK
  <1>2. CASE stdin # <<>>
    <2> DEFINE line == Head(stdin)
    <2>1. line \in Seq(Characters) /\ Tail(stdin) \in Seq(Seq(Characters))
      BY <1>2 DEF TypeOK
    <2>2. InpSize \in Nat
      BY HarnessAssumption
    <2> HIDE DEF line
    <2>3. ReadLine(line) \in Seq(Characters)
      <3>1. CASE IsTooLong(line)
        <4>1. \A i \in 1..(InpSize - 1) : i \in 1..Len(line)
          BY <2>1, <2>2, <3>1 DEF IsTooLong
        <4>2. \A i \in 1..(InpSize - 1) : line[i] \in Characters
          BY <2>1, <4>1
        <4>3. SubSeq(line, 1, InpSize - 1) \in Seq(Characters)
          BY <2>2, <4>2, SubSeqProperties
        <4> QED
          BY <3>1, <4>3 DEF ReadLine
      <3>2. CASE ~IsTooLong(line)
        BY <2>1, <3>2 DEF ReadLine
      <3> QED
        BY <3>1, <3>2
    <2>4. AfterRead(stdin) \in Seq(Seq(Characters))
      <3>1. CASE IsTooLong(line)
        <4> DEFINE rest == SubSeq(line, InpSize, Len(line))
        <4>1. InpSize \in Nat \ {0}
          BY <2>2, BaseIsNumber, HarnessAssumption
        <4>2. \A i \in InpSize..Len(line) : line[i] \in Characters
          BY <2>1, <4>1
        <4>3. rest \in Seq(Characters)
          <5>1. Len(line) \in Int
            BY <2>1
          <5> QED
            BY <2>2, <4>2, <5>1, SubSeqProperties
        <4> HIDE DEF rest
        <4>4. <<rest>> \in Seq(Seq(Characters))
          BY <4>3
        <4>5. <<rest>> \o Tail(stdin) \in Seq(Seq(Characters))
          BY <2>1, <4>4, ConcatProperties
        <4> QED
          BY <1>2, <3>1, <4>5 DEF AfterRead, line, rest
      <3>2. CASE ~IsTooLong(line)
        BY <1>2, <2>1, <3>2 DEF AfterRead, line
      <3> QED
        BY <3>1, <3>2
    <2> QED
      BY <2>3, <2>4 DEF line
  <1> QED
    BY <1>1, <1>2

\* parse_inp returns an outcome, and there is only one if the variable is not larger than
\* unsigned long long.
LEMMA ParsedIsOutcome ==
  ASSUME NEW text \in Seq(Characters), NEW size \in Nat
  PROVE  /\ \A o \in ParseLine(text, size) : o \in Outcome /\ o # Void
         /\ size <= LongLong => \E o : ParseLine(text, size) = {o}
  <1> DEFINE P == ParsedBytes(text, size)
             F == FloatBytes(text, size)
  <1>1. CASE IsNumber(text)
    <2>1. P \subseteq Seq(Byte) /\ (size <= LongLong => \E m : P = {m})
      BY <1>1, ParsedIsMemory
    <2>2. ParseLine(text, size) = {Value(m) : m \in P}
      BY <1>1 DEF ParseLine
    <2> HIDE DEF P
    <2>3. \A m \in P : Value(m) \in Outcome /\ Value(m) # Void
      BY <2>1, Outcomes
    <2>4. ASSUME NEW m, P = {m}
          PROVE  ParseLine(text, size) = {Value(m)}
      BY <2>2, <2>4
    <2> QED
      BY <2>1, <2>2, <2>3, <2>4
  <1>2. CASE ~IsNumber(text) /\ text \in DOMAIN LongDouble
    <2>1. F \subseteq Seq(Byte) /\ (size <= LongLong => \E m : F = {m})
      BY <1>2, FloatIsMemory
    <2>2. ParseLine(text, size) = {Value(m) : m \in F}
      BY <1>2 DEF ParseLine
    <2> HIDE DEF F
    <2>3. \A m \in F : Value(m) \in Outcome /\ Value(m) # Void
      BY <2>1, Outcomes
    <2>4. ASSUME NEW m, F = {m}
          PROVE  ParseLine(text, size) = {Value(m)}
      BY <2>2, <2>4
    <2> QED
      BY <2>1, <2>2, <2>3, <2>4
  <1>3. CASE ~IsNumber(text) /\ text \notin DOMAIN LongDouble
    <2>1. ParseLine(text, size) = {Aborted}
      BY <1>3 DEF ParseLine
    <2> QED
      BY <2>1, Outcomes
  <1> QED
    BY <1>1, <1>2, <1>3

\* The text that is parsed next is that of the next value, in both harnesses.
LEMMA NextText ==
  ASSUME TypeOK, StdinIsRest, AllFit, Running
  PROVE  LET n == NumberOfValues(generic) + 1
         IN /\ n \in Nat \ {0}
            /\ CaseOf(access_counter) = n
            /\ n \in DOMAIN vector <=> stdin # <<>>
            /\ n \in DOMAIN vector =>
                 /\ ReadLine(Head(stdin)) = vector[n] /\ vector[n] \in Seq(Characters)
                 /\ Len(vector[n]) < InpSize
            /\ AfterRead(stdin) = SubSeq(vector, n + 1, Len(vector))
  <1> DEFINE n == NumberOfValues(generic) + 1
             S == Seq(Characters)
             L == Len(vector)
  <1>1. NumberOfValues(generic) \in Nat
    BY NumberAppend, Outcomes DEF TypeOK
  <1>2. n \in Nat \ {0} /\ L \in Nat /\ DOMAIN vector = 1..L /\ \A i \in 1..L : vector[i] \in S
    BY <1>1 DEF TypeOK
  <1>3. CaseOf(access_counter) = n
    BY CounterIsNumber DEF CaseOf
  <1>4. stdin = SubSeq(vector, n, L)
    BY DEF StdinIsRest
  <1> HIDE DEF n, L
  <1>5. stdin \in Seq(S) /\ Len(stdin) = IF n <= L THEN L - n + 1 ELSE 0
    <2>1. \A i \in n..L : vector[i] \in S
      BY <1>2
    <2> QED
      BY <1>2, <1>4, <2>1, SubSeqProperties
  <1>6. n \in 1..L <=> stdin # <<>>
    BY <1>2, <1>5
  <1>7. n \in 1..L => Head(stdin) = vector[n] /\ Tail(stdin) = SubSeq(vector, n + 1, L)
    <2> SUFFICES ASSUME n \in 1..L
                 PROVE  Head(stdin) = vector[n] /\ Tail(stdin) = SubSeq(vector, n + 1, L)
      OBVIOUS
    <2>1. vector \in Seq(S) /\ L \in n..L /\ n \in 1..Len(vector) /\ L \in n..Len(vector)
      BY <1>2 DEF TypeOK, L
    <2> QED
      BY <1>4, <2>1, HeadTailOfSubSeq
  <1>8. n \notin 1..L => SubSeq(vector, n + 1, L) = <<>>
    BY <1>2, SubSeqEmpty
  <1>9. n \in 1..L => ReadLine(Head(stdin)) = vector[n] /\ Len(vector[n]) < InpSize
    <2> SUFFICES ASSUME n \in 1..L
                 PROVE  ReadLine(Head(stdin)) = vector[n] /\ Len(vector[n]) < InpSize
      OBVIOUS
    <2>1. ~IsTooLong(vector[n])
      BY <1>2 DEF AllFit
    <2>2. InpSize \in Nat /\ Len(vector[n]) \in Nat
      BY <1>2, HarnessAssumption
    <2> QED
      BY <1>7, <2>1, <2>2 DEF ReadLine, IsTooLong
  <1>10. AfterRead(stdin) = SubSeq(vector, n + 1, L)
    <2>1. CASE n \in 1..L
      <3>1. ~IsTooLong(Head(stdin)) /\ stdin # <<>>
        BY <1>2, <1>6, <1>7, <2>1 DEF AllFit
      <3> QED
        BY <1>7, <2>1, <3>1 DEF AfterRead
    <2>2. CASE n \notin 1..L
      BY <1>6, <1>8, <2>2 DEF AfterRead
    <2> QED
      BY <2>1, <2>2
  <1> QED
    BY <1>2, <1>3, <1>6, <1>9, <1>10 DEF n, L

\* Calls of the generic harness return an outcome.
LEMMA LineIsOutcome ==
  ASSUME TypeOK, NEW line \in LineOutcomes
  PROVE  line \in Outcome /\ line # Void
  <1>1. CASE stdin = <<>>
    BY <1>1, Outcomes DEF LineOutcomes
  <1>2. CASE stdin # <<>>
    BY <1>2, ReadIsText, ParsedIsOutcome, NextSizeIsNumber DEF LineOutcomes
  <1> QED
    BY <1>1, <1>2

\* Calls of the embedded harness return an outcome.
LEMMA LiteralIsOutcome ==
  ASSUME TypeOK, NEW literal \in LiteralOutcomes
  PROVE  literal \in Outcome /\ literal # Void
  <1> DEFINE n == CaseOf(access_counter)
  <1>1. CASE n \notin DOMAIN vector
    BY <1>1, Outcomes DEF LiteralOutcomes
  <1>2. CASE n \in DOMAIN vector
    <2>1. vector[n] \in Seq(Characters)
      BY <1>2 DEF TypeOK
    <2>2. literal \in ParseLiteral(vector[n], NextSize)
      BY <1>2 DEF LiteralOutcomes
    <2> HIDE DEF n
    <2>3. literal = Garbage \/ literal \in ParseLine(vector[n], NextSize)
      BY <2>2 DEF ParseLiteral
    <2> QED
      BY <2>1, <2>3, Outcomes, ParsedIsOutcome, NextSizeIsNumber
  <1> QED
    BY <1>1, <1>2

\* Both harnesses return the same value if there is one that both can parse.
LEMMA SameOutcome ==
  ASSUME TypeOK, StdinIsRest, AllFit, Running, FitsLongLong,
         NumberOfValues(generic) + 1 \in DOMAIN vector,
         vector[NumberOfValues(generic) + 1] # <<>>,
         Quote \notin ToSet(vector[NumberOfValues(generic) + 1]),
         NEW line \in LineOutcomes, NEW literal \in LiteralOutcomes
  PROVE  line = literal
  <1> DEFINE n == NumberOfValues(generic) + 1
             text == vector[n]
  <1>1. text \in Seq(Characters) /\ ~(Len(text) >= InpSize)
    BY NextText, HarnessAssumption DEF TypeOK
  <1>2. line \in ParseLine(text, NextSize)
    BY NextText DEF LineOutcomes
  <1>3. literal \in ParseLine(text, NextSize)
    BY <1>1, NextText DEF LiteralOutcomes, ParseLiteral
  <1> HIDE DEF text
  <1> QED
    BY <1>1, <1>2, <1>3, NextSizeIsNumber, ParsedIsOutcome

\* Both harnesses return what the generator chose, with the exceptions that ValuesSurvive
\* names.
LEMMA ChosenOutcome ==
  ASSUME TypeOK, VectorIsWritten, StdinIsRest, AllFit, Running, FitsLongLong,
         NEW i \in DOMAIN chosen, i = NumberOfValues(generic) + 1,
         CanBeRead(i),
         NEW line \in LineOutcomes, NEW literal \in LiteralOutcomes
  PROVE  line = Value(chosen[i]) /\ literal = Value(chosen[i])
  <1>1. /\ i \in DOMAIN vector /\ vector[i] # <<>> /\ Quote \notin ToSet(vector[i])
        /\ IsNumber(vector[i])
        /\ ParsedBytes(vector[i], Len(chosen[i])) = {chosen[i]}
    BY ChosenIsRead
  <1>2. NextSize = Len(chosen[i])
    BY NextSizeIsNumber
  <1>3. ParseLine(vector[i], NextSize) = {Value(chosen[i])}
    BY <1>1, <1>2 DEF ParseLine
  <1>4. line \in ParseLine(vector[i], NextSize)
    BY <1>1, NextText DEF LineOutcomes
  <1>6. ~(Len(vector[i]) >= InpSize)
    BY <1>1, NextText, HarnessAssumption DEF TypeOK
  <1>5. literal \in ParseLine(vector[i], NextSize)
    BY <1>1, <1>6, NextText DEF LiteralOutcomes, ParseLiteral
  <1> QED
    BY <1>3, <1>4, <1>5

\* A method with a value.
LEMMA CallValuePreservesInv ==
  ASSUME HarnessInv, CallValue
  PROVE  HarnessInv'
  <1> DEFINE n == NumberOfValues(generic)
  <1>1. TypeOK /\ VectorIsWritten /\ CallsAreSame /\ StdinIsRest /\ Running
    BY DEF HarnessInv, CallValue
  <1>2. PICK line \in LineOutcomes : generic' = Append(generic, line)
    BY DEF CallValue, LineOutcomes
  <1>3. PICK literal \in LiteralOutcomes :
          /\ embedded' = Append(embedded, literal)
          /\ access_counter' = access_counter + (IF literal = Aborted THEN 0 ELSE 1)
    BY DEF CallValue, LiteralOutcomes
  <1>4. /\ stdin' = AfterRead(stdin)
        /\ UNCHANGED <<generator, chosen, types, room, vector>>
    BY DEF CallValue
  <1>5. line \in Outcome /\ line # Void /\ literal \in Outcome /\ literal # Void
    BY <1>1, LineIsOutcome, LiteralIsOutcome
  <1>6. generic = embedded /\ generic \in Seq(Outcome)
    BY <1>1 DEF Running, TypeOK
  <1>7. n \in Nat /\ NumberOfValues(generic') = n + 1
    BY <1>2, <1>5, <1>6, NumberAppend
  <1>8. /\ Len(generic') = Len(generic) + 1 /\ Len(embedded') = Len(generic) + 1
        /\ Len(generic) \in Nat
        /\ \A i \in 1..Len(generic) : generic'[i] = generic[i] /\ embedded'[i] = generic[i]
        /\ generic'[Len(generic) + 1] = line /\ embedded'[Len(generic) + 1] = literal
        /\ generic' \in Seq(Outcome) /\ embedded' \in Seq(Outcome)
    BY <1>2, <1>3, <1>5, <1>6
  <1>9. TypeOK'
    <2>1. stdin' \in Seq(Seq(Characters))
      BY <1>1, <1>4, ReadIsText
    <2>2. access_counter' = Count(embedded', {Void, Aborted})
      <3>1. access_counter = Count(embedded, {Void, Aborted})
        BY <1>1 DEF TypeOK, Count
      <3>2. /\ Count(embedded, {Void, Aborted}) \in Nat
            /\ Count(embedded', {Void, Aborted}) =
                 IF literal \in {Void, Aborted} THEN Count(embedded, {Void, Aborted})
                 ELSE Count(embedded, {Void, Aborted}) + 1
        BY <1>3, <1>5, <1>6, CountAppend
      <3> QED
        BY <1>3, <1>5, <3>1, <3>2
    <2> QED
      BY <1>1, <1>4, <1>8, <2>1, <2>2 DEF TypeOK, Count
  <1>10. VectorIsWritten'
    BY <1>1, <1>4 DEF VectorIsWritten, NumberType
  <1>11. CallsAreSame'
    <2>1. DOMAIN generic' = 1..(Len(generic) + 1)
      BY <1>8
    <2> QED
      BY <1>5, <1>8, <2>1 DEF CallsAreSame
  <1>12. StdinIsRest'
    <2> SUFFICES ASSUME AllFit
                 PROVE  stdin' = SubSeq(vector, n + 2, Len(vector))
      BY <1>4, <1>7 DEF StdinIsRest, AllFit
    <2>1. AfterRead(stdin) = SubSeq(vector, (n + 1) + 1, Len(vector))
      BY <1>1, NextText
    <2>2. (n + 1) + 1 = n + 2
      BY <1>7
    <2> QED
      BY <1>4, <2>1, <2>2
  <1>13. ValuesSurvive'
    <2> SUFFICES ASSUME /\ n + 1 <= Len(chosen)
                        /\ FitsLongLong
                        /\ \A i \in DOMAIN chosen : CanBeRead(i)
                 PROVE  AreChosen(generic)' /\ AreChosen(embedded)'
      BY <1>4, <1>7 DEF ValuesSurvive, FitsLongLong, CanBeRead
    <2>1. n + 1 \in DOMAIN chosen
      BY <1>1, <1>7 DEF TypeOK
    <2>2. line = Value(chosen[n + 1]) /\ literal = Value(chosen[n + 1])
      <3>1. AllFit
        BY <1>1, <2>1, TextsFit
      <3> QED
        BY <1>1, <2>1, <3>1, ChosenOutcome
    <2>3. AreChosen(generic)
      <3>1. generator # "afl"
        BY <1>1, <2>1 DEF VectorIsWritten
      <3> QED
        BY <1>1, <3>1 DEF Running
    <2>4. AreChosen(Append(generic, line)) /\ AreChosen(Append(generic, literal))
      BY <1>5, <1>6, <2>2, <2>3, ChosenAppend
    <2> QED
      BY <1>2, <1>3, <1>4, <1>6, <2>4 DEF AreChosen
  <1>14. SameValues'
    <2> SUFFICES ASSUME /\ n + 1 <= Len(vector)
                        /\ FitsLongLong
                        /\ AllFit
                        /\ \A i \in DOMAIN vector : Quote \notin ToSet(vector[i])
                        /\ generator \in {"afl", "cpatiger"} => <<>> \notin ToSet(vector)
                 PROVE  generic' = embedded'
      BY <1>4, <1>7 DEF SameValues, WithinVector, FitsLongLong, AllFit
    <2>1. n + 1 \in DOMAIN vector
      BY <1>1, <1>7 DEF TypeOK
    <2>2. vector[n + 1] # <<>>
      BY <1>1, <2>1, EmptyValues DEF ToSet
    <2>3. line = literal
      BY <1>1, <2>1, <2>2, SameOutcome
    <2> QED
      BY <1>2, <1>3, <1>6, <2>3
  <1> QED
    BY <1>9, <1>10, <1>11, <1>12, <1>13, <1>14 DEF HarnessInv

\* A void method.
LEMMA CallVoidPreservesInv ==
  ASSUME HarnessInv, CallVoid
  PROVE  HarnessInv'
  <1> DEFINE n == NumberOfValues(generic)
  <1>1. TypeOK /\ VectorIsWritten /\ CallsAreSame /\ StdinIsRest /\ Running /\ ValuesSurvive
    BY DEF HarnessInv, CallVoid
  <1>2. generic' = Append(generic, Void) /\ embedded' = Append(embedded, Void)
    BY DEF CallVoid
  <1>3. UNCHANGED <<generator, chosen, types, room, vector, stdin, access_counter>>
    BY DEF CallVoid
  <1>4. generic = embedded /\ generic \in Seq(Outcome)
    BY <1>1 DEF Running, TypeOK
  <1>5. generic' = embedded' /\ generic' \in Seq(Outcome)
    BY <1>2, <1>4, Outcomes
  <1>6. n \in Nat /\ NumberOfValues(generic') = n
    BY <1>2, <1>4, NumberAppend, Outcomes
  <1>7. TypeOK'
    <2>1. access_counter' = Count(embedded', {Void, Aborted})
      <3>1. access_counter = Count(embedded, {Void, Aborted})
        BY <1>1 DEF TypeOK, Count
      <3>2. Count(embedded', {Void, Aborted}) = Count(embedded, {Void, Aborted})
        BY <1>2, <1>4, CountAppend, Outcomes
      <3> QED
        BY <1>3, <3>1, <3>2
    <2> QED
      BY <1>1, <1>3, <1>5, <2>1 DEF TypeOK, Count
  <1>8. VectorIsWritten'
    BY <1>1, <1>3 DEF VectorIsWritten, NumberType
  <1>9. CallsAreSame'
    BY <1>5 DEF CallsAreSame
  <1>10. StdinIsRest'
    BY <1>1, <1>3, <1>6 DEF StdinIsRest, AllFit
  <1>11. ValuesSurvive'
    <2> SUFFICES ASSUME /\ n <= Len(chosen)
                        /\ FitsLongLong
                        /\ \A i \in DOMAIN chosen : CanBeRead(i)
                 PROVE  AreChosen(generic)' /\ AreChosen(embedded)'
      BY <1>3, <1>6 DEF ValuesSurvive, FitsLongLong, CanBeRead
    <2>1. AreChosen(generic)
      BY <1>1 DEF ValuesSurvive
    <2>2. AreChosen(Append(generic, Void))
      BY <1>4, <2>1, ChosenAppend, Outcomes
    <2> QED
      BY <1>2, <1>3, <1>4, <2>2 DEF AreChosen
  <1>12. SameValues'
    BY <1>5 DEF SameValues
  <1> QED
    BY <1>7, <1>8, <1>9, <1>10, <1>11, <1>12 DEF HarnessInv

LEMMA NextPreservesInv == HarnessInv /\ [Next]_vars => HarnessInv'
  <1> SUFFICES ASSUME HarnessInv, [Next]_vars
               PROVE  HarnessInv'
    OBVIOUS
  <1>1. CASE CallValue
    BY <1>1, CallValuePreservesInv
  <1>2. CASE CallVoid
    BY <1>2, CallVoidPreservesInv
  <1>3. CASE UNCHANGED vars
    BY <1>3, ZenonT(30) DEF HarnessInv, TypeOK, VectorIsWritten, CallsAreSame, StdinIsRest,
       ValuesSurvive, SameValues, vars, NumberType, NumberOfValues, AreChosen, FitsLongLong, WithinVector,
       AllFit, CanBeRead
  <1> QED
    BY <1>1, <1>2, <1>3 DEF Next

-----------------------------------------------------------------------------
(* Theorems *)

\* The inductive invariant holds, whatever the program calls and however often.
THEOREM HarnessCorrect == Spec => []HarnessInv
  <1>1. Init => HarnessInv
    BY InitImpliesInv
  <1>2. HarnessInv /\ [Next]_vars => HarnessInv'
    BY NextPreservesInv
  <1> QED
    BY <1>1, <1>2, PTL DEF Spec

\* The program gets from both harnesses what it got from the generator (the preprocessors,
\* input, _convert_bytestring_to_hex, get_test_vector, create_harness, parse_inp).
THEOREM ChosenValuesSurvive == Spec => []ValuesSurvive
  <1>1. HarnessInv => ValuesSurvive
    BY DEF HarnessInv
  <1> QED
    BY <1>1, HarnessCorrect, PTL

\* The generic harness and the embedded one give the program the same values, as long as
\* it asks for no more than there are and each can be parsed.
THEOREM HarnessesAgree == Spec => []SameValues
  <1>1. HarnessInv => SameValues
    BY DEF HarnessInv
  <1> QED
    BY <1>1, HarnessCorrect, PTL
=============================================================================
