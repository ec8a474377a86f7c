---------------------------- MODULE FoldTheorems ----------------------------
(***************************************************************************)
(* Quotients and remainders, powers of two, sums over finite sets,         *)
(* sequences put one after the other, in order or folded from one end, and *)
(* the inductions behind them.  The induction is over the set of numbers   *)
(* for which a formula holds, so that theorems have no operator as a       *)
(* parameter and can be cited for any formula.                             *)
(***************************************************************************)
EXTENDS SequencesExt, SequenceTheorems, FiniteSetTheorems, NaturalsInduction, WellFoundedInduction, TLAPS

\* Every set of natural numbers that is not empty has a least element.
LEMMA Least ==
  ASSUME NEW T, T \subseteq Nat, T # {}
  PROVE  \E x \in T : \A y \in T : x <= y
<1>1. PICK x \in T : \A y \in T : ~(<<y, x>> \in OpToRel(<, Nat))
  BY NatLessThanWellFounded, WFMin, Zenon
<1>2. \A y \in T : ~(y < x)
  BY <1>1 DEF OpToRel
<1>3. QED BY <1>2

\* A set of numbers that has 0, and n + 1 whenever it has n, has them all.
LEMMA AllNumbers ==
  ASSUME NEW A, 0 \in A, \A k \in Nat : k \in A => k + 1 \in A
  PROVE  \A k \in Nat : k \in A
<1>1. SUFFICES ASSUME NEW k \in Nat, k \notin A
               PROVE  FALSE
  OBVIOUS
<1> DEFINE T == {j \in Nat : j \notin A}
<1>2. T \subseteq Nat /\ T # {}
  BY <1>1
<1>3. PICK x \in T : \A y \in T : x <= y
  <2> HIDE DEF T
  <2>1. QED BY <1>2, Least
<1>4. x # 0 /\ x - 1 \in Nat
  BY <1>3
<1>5. x - 1 \in A
  BY <1>3, <1>4
<1>6. QED BY <1>3, <1>4, <1>5

-----------------------------------------------------------------------------
(* Numbers.                                                                *)

\* Quotient and remainder are the only ones
LEMMA DivUnique ==
  ASSUME NEW N \in Nat, N >= 1, NEW a \in Int, NEW q \in Int, NEW r \in 0 .. N - 1, a = N * q + r
  PROVE  a \div N = q /\ a % N = r
<1> DEFINE p == a \div N
           z == a % N
<1>1. p \in Int /\ z \in 0 .. N - 1 /\ a = N * p + z
  OBVIOUS
<1> HIDE DEF p, z
<1>2. PICK d \in Int : d = p - q
  BY <1>1
<1>3. N * d = N * p - N * q
  BY <1>1, <1>2
<1>4. N * d > -N /\ N * d < N
  BY <1>1, <1>3
<1>5. CASE d >= 1
  <2>1. N * d >= N
    BY <1>5
  <2>2. QED BY <1>4, <2>1
<1>6. CASE d <= -1
  <2>1. N * d <= -N
    BY <1>6
  <2>2. QED BY <1>4, <2>1
<1>7. CASE d = 0
  <2>1. p = q
    BY <1>1, <1>2, <1>7
  <2>2. z = r
    BY <1>1, <2>1
  <2>3. QED BY <2>1, <2>2 DEF p, z
<1>8. QED BY <1>2, <1>5, <1>6, <1>7

\* A number and its quotient
LEMMA DivMod ==
  ASSUME NEW N \in Nat, N >= 1, NEW a \in Int
  PROVE  a \div N \in Int /\ a % N \in 0 .. N - 1 /\ a = N * (a \div N) + (a % N)
         /\ (a >= 0 => a \div N >= 0)
<1> DEFINE p == a \div N
           z == a % N
<1>1. p \in Int /\ z \in 0 .. N - 1 /\ a = N * p + z
  OBVIOUS
<1> HIDE DEF p, z
<1>2. ASSUME a >= 0, p <= -1 PROVE FALSE
  <2>1. N * p <= -N
    BY <1>1, <1>2
  <2>2. QED BY <1>1, <1>2, <2>1
<1>3. a >= 0 => p >= 0
  BY <1>1, <1>2
<1>4. QED BY <1>1, <1>3 DEF p, z

\* Multiples of N
LEMMA Multiple ==
  ASSUME NEW N \in Nat, N >= 1, NEW q \in Int
  PROVE  (N * q) % N = 0 /\ (q * N) % N = 0
<1>1. N * q = N * q + 0 /\ q * N = N * q /\ N * q \in Int /\ 0 \in 0 .. N - 1
  OBVIOUS
<1> DEFINE a == N * q
<1>2. a \in Int /\ a = N * q + 0
  BY <1>1
<1> HIDE DEF a
<1>3. a % N = 0
  BY <1>1, <1>2, DivUnique
<1>4. QED BY <1>1, <1>3 DEF a

LEMMA MultipleIs ==
  ASSUME NEW N \in Nat, N >= 1, NEW a \in Int, a % N = 0
  PROVE  \E q \in Int : a = N * q
<1> DEFINE p == a \div N
<1>1. p \in Int /\ a = N * p + 0
  BY DivMod
<1> HIDE DEF p
<1>2. a = N * p
  BY <1>1
<1>3. QED BY <1>1, <1>2

LEMMA MultipleSum ==
  ASSUME NEW N \in Nat, N >= 1, NEW a \in Int, NEW b \in Int, a % N = 0, b % N = 0
  PROVE  (a + b) % N = 0 /\ (a - b) % N = 0
<1>1. PICK p \in Int : a = N * p
  BY MultipleIs
<1>2. PICK q \in Int : b = N * q
  BY MultipleIs
<1> DEFINE c == p + q
           d == p - q
<1>3. c \in Int /\ d \in Int /\ a + b = N * c /\ a - b = N * d
  BY <1>1, <1>2
<1> HIDE DEF c, d
<1>4. (N * c) % N = 0 /\ (N * d) % N = 0
  BY <1>3, Multiple
<1>5. QED BY <1>3, <1>4

\* Different multiples of N are N apart
LEMMA MultipleGap ==
  ASSUME NEW N \in Nat, N >= 1, NEW a \in Int, NEW b \in Int, a % N = 0, b % N = 0, a < b
  PROVE  a + N <= b
<1> DEFINE c == b - a
<1>5. c \in Int /\ c % N = 0
  <2>1. (b + a) % N = 0 /\ (b - a) % N = 0
    BY MultipleSum, Zenon
  <2>2. QED BY <2>1
<1> HIDE DEF c
<1>6. PICK d \in Int : c = N * d
  BY <1>5, MultipleIs
<1>1. b - a = N * d
  BY <1>6 DEF c
<1>2. d >= 1
  <2>1. CASE d <= 0
    <3>1. N * d <= 0
      BY <2>1
    <3>2. QED BY <1>1, <3>1
  <2>2. QED BY <2>1
<1>3. N * d >= N
  BY <1>2
<1>4. QED BY <1>1, <1>3

\* What N divides is divided by all that divide N
LEMMA MultipleOf ==
  ASSUME NEW N \in Nat, N >= 1, NEW M \in Nat, M >= 1, M % N = 0, NEW a \in Int, a % M = 0
  PROVE  a % N = 0
<1>1. PICK p \in Int : M = N * p
  BY MultipleIs
<1>2. PICK q \in Int : a = M * q
  BY MultipleIs
<1> DEFINE c == p * q
<1>3. c \in Int /\ a = N * c
  BY <1>1, <1>2
<1> HIDE DEF c
<1>4. QED BY <1>3, Multiple

LEMMA Min2 ==
  ASSUME NEW a \in Int, NEW b \in Int
  PROVE  Min({a, b}) = IF a <= b THEN a ELSE b
BY DEF Min

LEMMA Max2 ==
  ASSUME NEW a \in Int, NEW b \in Int
  PROVE  Max({a, b}) = IF a >= b THEN a ELSE b
BY DEF Max

LEMMA MinIs ==
  ASSUME NEW S, S \subseteq Nat, S # {}
  PROVE  Min(S) \in S /\ \A y \in S : Min(S) <= y
<1>1. \E x \in S : \A y \in S : x <= y
  BY Least
<1>2. QED BY <1>1 DEF Min

LEMMA MaxIs ==
  ASSUME NEW S, S \subseteq Nat, S # {}, NEW bound \in Nat, \A y \in S : y <= bound
  PROVE  Max(S) \in S /\ \A y \in S : y <= Max(S)
<1> DEFINE T == {bound - y : y \in S}
<1>1. T \subseteq Nat /\ T # {}
  <2>1. \A y \in S : y \in Nat /\ bound - y \in Nat
    OBVIOUS
  <2>2. PICK x : x \in S
    OBVIOUS
  <2>3. bound - x \in T
    BY <2>2
  <2>4. QED BY <2>1, <2>3
<1>2. PICK z \in T : \A y \in T : z <= y
  <2> HIDE DEF T
  <2>1. QED BY <1>1, Least
<1>3. PICK x \in S : z = bound - x
  BY <1>2
<1>4. \A y \in S : y <= x
  BY <1>2, <1>3
<1>5. QED BY <1>3, <1>4 DEF Max

-----------------------------------------------------------------------------
(* Powers of two.  The provers know nothing of exponents: what is needed is   *)
(* taken from the number of subsets of a set.                                 *)

\* 2 ^ n is the number of subsets of n elements
LEMMA PowerIs == \A n \in Nat : 2 ^ n = Cardinality(SUBSET (1 .. n)) /\ 2 ^ n \in Nat
<1>1. SUFFICES ASSUME NEW n \in Nat PROVE 2 ^ n = Cardinality(SUBSET (1 .. n)) /\ 2 ^ n \in Nat
  OBVIOUS
<1>2. IsFiniteSet(1 .. n) /\ Cardinality(1 .. n) = n
  BY FS_Interval
<1>3. IsFiniteSet(SUBSET (1 .. n)) /\ Cardinality(SUBSET (1 .. n)) = 2 ^ n
  BY <1>2, FS_SUBSET, Zenon
<1>4. QED BY <1>3, FS_CardinalityType

\* With one more element there are twice as many
LEMMA PowerStep ==
  ASSUME NEW n \in Nat
  PROVE  2 ^ (n + 1) = 2 * 2 ^ n
<1> DEFINE A == SUBSET (1 .. n)
           B == {T \cup {n + 1} : T \in A}
<1>1. SUBSET (1 .. (n + 1)) = A \cup B /\ A \cap B = {}
  <2>1. 1 .. (n + 1) = (1 .. n) \cup {n + 1} /\ n + 1 \notin 1 .. n
    OBVIOUS
  <2>2. ASSUME NEW T \in SUBSET (1 .. (n + 1)), T \notin A
        PROVE  T \in B
    <3>1. n + 1 \in T /\ T \ {n + 1} \in A
      BY <2>1, <2>2, Zenon
    <3>2. T = (T \ {n + 1}) \cup {n + 1}
      BY <3>1
    <3>3. QED BY <3>1, <3>2, Zenon
  <2>3. \A T \in A : T \in SUBSET (1 .. (n + 1)) /\ T \cup {n + 1} \in SUBSET (1 .. (n + 1))
    BY <2>1, Zenon
  <2>4. \A T \in B : n + 1 \in T
    BY Zenon
  <2>5. \A T \in A : n + 1 \notin T
    OBVIOUS
  <2>6. \A T \in B : T \in SUBSET (1 .. (n + 1))
    BY <2>3, Zenon
  <2> HIDE DEF B
  <2>7. A \cap B = {}
    BY <2>4, <2>5, Zenon
  <2>8. \A T \in A : T \in SUBSET (1 .. (n + 1))
    BY <2>3, Zenon
  <2> HIDE DEF A
  <2>9. QED BY <2>2, <2>6, <2>7, <2>8
<1>2. IsFiniteSet(A) /\ Cardinality(A) = 2 ^ n
  <2>1. IsFiniteSet(1 .. n)
    BY FS_Interval
  <2>2. QED BY <2>1, PowerIs, FS_SUBSET
<1>3. IsFiniteSet(B) /\ Cardinality(B) = Cardinality(A)
  <2> DEFINE f == [T \in A |-> T \cup {n + 1}]
  <2>1. f \in Bijection(A, B)
    <3>1. \A T \in A : n + 1 \notin T
      OBVIOUS
    <3>2. \A T, U \in A : f[T] = f[U] => T = U
      <4>1. SUFFICES ASSUME NEW T \in A, NEW U \in A, T \cup {n + 1} = U \cup {n + 1}
                     PROVE  T = U
        OBVIOUS
      <4>2. n + 1 \notin T /\ n + 1 \notin U
        BY <3>1, Zenon
      <4>3. QED BY <4>1, <4>2
    <3>3. f \in [A -> B] /\ \A y \in B : \E T \in A : f[T] = y
      BY Zenon
    <3> HIDE DEF A, B, f
    <3>4. f \in Injection(A, B)
      BY <3>2, <3>3 DEF Injection, IsInjective
    <3>5. f \in Surjection(A, B)
      BY <3>3, Zenon DEF Surjection
    <3>6. QED BY <3>4, <3>5 DEF Bijection
  <2> HIDE DEF A, B, f
  <2>2. QED BY <1>2, <2>1, FS_Bijection DEF ExistsBijection
<1> HIDE DEF A, B
<1>4. Cardinality(SUBSET (1 .. (n + 1))) = Cardinality(A) + Cardinality(B) - Cardinality(A \cap B)
  BY <1>1, <1>2, <1>3, FS_Union
<1>5. Cardinality(SUBSET (1 .. (n + 1))) = 2 ^ n + 2 ^ n
  BY <1>1, <1>2, <1>3, <1>4, FS_EmptySet, PowerIs
<1>6. QED BY <1>5, PowerIs

\* They are positive, and grow with the exponent
LEMMA PowerPositive == \A n \in Nat : 2 ^ n \in Nat /\ 2 ^ n >= 1
<1> DEFINE A == {n \in Nat : 2 ^ n >= 1}
<1>1. 0 \in A
  OBVIOUS
<1>2. ASSUME NEW n \in Nat, n \in A PROVE n + 1 \in A
  BY <1>2, PowerIs, PowerStep
<1> HIDE DEF A
<1>3. \A n \in Nat : n \in A
  BY <1>1, <1>2, AllNumbers
<1>4. QED BY <1>3, PowerIs DEF A

LEMMA PowerGrows ==
  ASSUME NEW m \in Nat, NEW n \in Nat, m < n
  PROVE  2 ^ m < 2 ^ n
<1> DEFINE A == {k \in Nat : 2 ^ m < 2 ^ (m + k + 1)}
<1>0. 2 ^ m \in Nat /\ 2 ^ m >= 1
  BY PowerPositive
<1>1. 0 \in A
  <2>1. 2 ^ (m + 1) = 2 * 2 ^ m
    BY PowerStep
  <2>2. m + 0 + 1 = m + 1
    OBVIOUS
  <2>3. QED BY <1>0, <2>1, <2>2
<1>2. ASSUME NEW k \in Nat, k \in A PROVE k + 1 \in A
  <2>1. m + k + 1 \in Nat /\ m + (k + 1) + 1 = (m + k + 1) + 1
    OBVIOUS
  <2>2. 2 ^ (m + (k + 1) + 1) = 2 * 2 ^ (m + k + 1)
    BY <2>1, PowerStep
  <2>3. 2 ^ (m + k + 1) \in Nat
    BY <2>1, PowerPositive
  <2>4. QED BY <1>0, <1>2, <2>2, <2>3
<1> HIDE DEF A
<1>3. \A k \in Nat : k \in A
  BY <1>1, <1>2, AllNumbers
<1>4. n - m - 1 \in A
  BY <1>3
<1>5. m + (n - m - 1) + 1 = n
  OBVIOUS
<1>6. QED BY <1>4, <1>5 DEF A

-----------------------------------------------------------------------------
(* Numbers kept in words of V values.                                      *)

\* A number that fits in two words is the sum of them
LEMMA WordPair ==
  ASSUME NEW V \in Nat, V >= 1, NEW a \in 0 .. V * V - 1
  PROVE  (a % V) + ((a \div V) % V) * V = a
<1>1. a \div V \in Int /\ a % V \in 0 .. V - 1 /\ a = V * (a \div V) + (a % V) /\ a \div V >= 0
  <2>1. a \in Int /\ a >= 0
    BY Z3
  <2>2. QED BY <2>1, DivMod, Zenon
<1> DEFINE q == a \div V
           r == a % V
<1>2. q \in Int /\ r \in 0 .. V - 1 /\ a = V * q + r /\ q >= 0 /\ a < V * V
  BY <1>1
<1> HIDE DEF q, r
<1>3. q < V
  <2>1. SUFFICES ASSUME q >= V PROVE FALSE
    BY <1>2
  <2>2. V * q >= V * V
    BY <1>2, <2>1
  <2>3. QED BY <1>2, <2>2
<1>4. q % V = q
  <2>1. q = V * 0 + q /\ q \in 0 .. V - 1
    BY <1>2, <1>3
  <2>2. QED BY <2>1, DivUnique
<1>5. r + (q % V) * V = a
  BY <1>2, <1>4
<1>6. QED BY <1>5 DEF q, r

\* Source and length are whole units of B, and in such units distance and length
\* fit in a word
UnitsFit(V, B, dest, src, len) ==
  /\ V \in Nat /\ V >= 1 /\ B \in Nat /\ B >= 1 /\ dest \in Nat /\ src \in Nat
  /\ len \in 0 .. V - 1 /\ len >= B /\ dest - src \in 0 .. V * B - 1
  /\ src % B = 0 /\ len % B = 0

\* The units give back the source and the length
LEMMA RoundedUnits ==
  ASSUME NEW V, NEW B, NEW dest, NEW src, NEW len, UnitsFit(V, B, dest, src, len)
  PROVE  /\ (len - B) \div B \in 0 .. V - 1 /\ ((len - B) \div B) * B + B = len
         /\ (dest - src) \div B \in 0 .. V - 1
         /\ (dest \div B) * B - ((dest - src) \div B) * B = src
<1>0. /\ V \in Nat /\ V >= 1 /\ B \in Nat /\ B >= 1 /\ dest \in Nat /\ src \in Nat
      /\ len \in 0 .. V - 1 /\ len >= B /\ dest - src \in 0 .. V * B - 1
      /\ src % B = 0 /\ len % B = 0
  BY DEF UnitsFit
<1> USE <1>0
<1>1. PICK q \in Int : src = B * q
  <2>1. src \in Int
    OBVIOUS
  <2>2. QED BY <2>1, MultipleIs, Zenon
<1>2. PICK m \in Int : len - B = B * m
  <2>1. B % B = 0
    BY DivUnique
  <2> DEFINE c == len - B
  <2>2. c \in Int /\ c % B = 0
    <3>1. len \in Int /\ B \in Int /\ len - B \in Int
      OBVIOUS
    <3>2. QED BY <2>1, <3>1, MultipleSum, Zenon
  <2> HIDE DEF c
  <2>3. PICK d \in Int : c = B * d
    BY <2>2, MultipleIs
  <2>4. QED BY <2>3 DEF c
<1>3. (len - B) \div B = m /\ m \in 0 .. V - 1
  <2>1. len - B \in Nat /\ len - B = B * m + 0 /\ len - B < V
    BY <1>2
  <2>2. (len - B) \div B = m
    BY <2>1, DivUnique
  <2>3. m >= 0
    <3>1. CASE m <= -1
      <4>1. B * m <= -B
        BY <3>1
      <4>2. QED BY <2>1, <4>1
    <3>2. QED BY <3>1
  <2>4. B * m >= m
    BY <2>3
  <2>5. QED BY <1>2, <2>1, <2>2, <2>3, <2>4
<1> DEFINE u == (dest - src) \div B
           r == (dest - src) % B
<1>4. u \in Int /\ r \in 0 .. B - 1 /\ dest - src = B * u + r /\ u >= 0
  <2> DEFINE c == dest - src
  <2>1. c \in Int /\ c >= 0
    OBVIOUS
  <2> HIDE DEF c
  <2>2. c \div B \in Int /\ c % B \in 0 .. B - 1 /\ c = B * (c \div B) + (c % B) /\ c \div B >= 0
    BY <2>1, DivMod
  <2>3. QED BY <2>2 DEF c
<1> HIDE DEF u, r
<1>5. u \in 0 .. V - 1
  <2>1. CASE u >= V
    <3>1. B * u >= B * V
      BY <1>4, <2>1
    <3>2. QED BY <1>4, <3>1
  <2>2. QED BY <1>4, <2>1
<1>6. dest \div B = q + u
  <2>1. dest = B * (q + u) + r
    BY <1>1, <1>4
  <2>2. q + u \in Int
    BY <1>4
  <2> DEFINE c == q + u
  <2>4. c \in Int /\ dest = B * c + r /\ dest \in Int
    BY <2>1, <2>2
  <2> HIDE DEF c
  <2>3. dest \div B = c
    BY <1>4, <2>4, DivUnique
  <2>5. QED BY <2>3 DEF c
<1>7. m * B + B = len /\ (q + u) * B - u * B = src
  BY <1>1, <1>2, <1>4
<1>8. QED BY <1>3, <1>5, <1>6, <1>7 DEF u

-----------------------------------------------------------------------------
(* SumFunctionOnSet chooses an order of the elements.  Its recursion has a *)
(* solution for every finite set; what it sums up does not depend on it.   *)

Some(s) == CHOOSE x \in s : TRUE

\* One step of the recursion, for subsets s of S
Step(f, g, s) == IF s = {} THEN 0 ELSE f[Some(s)] + g[s \ {Some(s)}]

Sums(f, S) == CHOOSE g : g = [s \in SUBSET S |-> Step(f, g, s)]

LEMMA SumIs ==
  ASSUME NEW f, NEW S
  PROVE  SumFunctionOnSet(f, S) = Sums(f, S)[S]
BY DEF SumFunctionOnSet, FoldFunctionOnSet, MapThenFoldSet, Sums, Step, Some

LEMMA SomeIn ==
  ASSUME NEW s, s # {}
  PROVE  Some(s) \in s
BY DEF Some

\* The recursion is solved on the subsets of up to k elements, for every k
LEMMA SumsExist ==
  ASSUME NEW f, NEW S, IsFiniteSet(S)
  PROVE  \E g : g = [s \in SUBSET S |-> Step(f, g, s)]
<1> DEFINE Small(k) == {s \in SUBSET S : Cardinality(s) <= k}
<1> DEFINE A == {k \in Nat : \E g : g = [s \in Small(k) |-> Step(f, g, s)]}
<1>1. \A s \in SUBSET S : IsFiniteSet(s) /\ Cardinality(s) \in Nat
                             /\ Cardinality(s) <= Cardinality(S)
                             /\ (Cardinality(s) = 0 <=> s = {})
  BY FS_Subset, FS_CardinalityType, FS_EmptySet
<1>2. 0 \in A
  <2> DEFINE g == [s \in Small(0) |-> 0]
  <2>1. \A s \in Small(0) : s = {}
    BY <1>1
  <2>2. g = [s \in Small(0) |-> Step(f, g, s)]
    BY <2>1 DEF Step
  <2> HIDE DEF g, Small
  <2>3. QED BY <2>2
<1>3. ASSUME NEW k \in Nat, k \in A
      PROVE  k + 1 \in A
  <2>1. PICK g : g = [s \in Small(k) |-> Step(f, g, s)]
    BY <1>3
  <2> DEFINE h == [s \in Small(k + 1) |-> IF Cardinality(s) <= k THEN g[s]
                                          ELSE Step(f, g, s)]
  <2>2. ASSUME NEW s \in Small(k + 1)
        PROVE  h[s] = Step(f, h, s)
    <3>1. CASE s = {}
      <4>1. Cardinality(s) = 0 /\ s \in Small(k)
        BY <1>1, <3>1
      <4>2. QED BY <2>1, <3>1, <4>1 DEF Step
    <3>2. CASE s # {}
      <4> DEFINE r == s \ {Some(s)}
      <4>1. Cardinality(r) = Cardinality(s) - 1 /\ r \in SUBSET S
        BY <1>1, <3>2, SomeIn, FS_RemoveElement
      <4>2. Cardinality(r) <= k /\ r \in Small(k) /\ r \in Small(k + 1)
        BY <1>1, <4>1
      <4>3. h[r] = g[r]
        BY <4>2
      <4>4. h[s] = Step(f, g, s)
        <5>1. CASE Cardinality(s) <= k
          <6>1. s \in Small(k) /\ h[s] = g[s]
            BY <5>1
          <6> HIDE DEF h, Small
          <6>2. QED BY <2>1, <6>1
        <5>2. CASE ~(Cardinality(s) <= k)
          BY <5>2
        <5>3. QED BY <5>1, <5>2
      <4>5. QED BY <3>2, <4>3, <4>4 DEF Step
    <3>3. QED BY <3>1, <3>2
  <2>3. h = [s \in Small(k + 1) |-> Step(f, h, s)]
    <3>1. h = [s \in Small(k + 1) |-> h[s]]
      OBVIOUS
    <3> HIDE DEF h, Small
    <3>2. QED BY <2>2, <3>1
  <2> HIDE DEF h, Small
  <2>4. QED BY <2>3
<1>4. Cardinality(S) \in Nat /\ Small(Cardinality(S)) = SUBSET S
  BY <1>1
<1>5. Cardinality(S) \in A
  <2> HIDE DEF A
  <2>1. QED BY <1>2, <1>3, <1>4, AllNumbers
<1>6. QED
  <2> HIDE DEF Small
  <2>1. QED BY <1>4, <1>5

LEMMA SumsStep ==
  ASSUME NEW f, NEW S, IsFiniteSet(S), NEW T \in SUBSET S
  PROVE  Sums(f, S)[T] = Step(f, Sums(f, S), T)
<1>1. Sums(f, S) = [s \in SUBSET S |-> Step(f, Sums(f, S), s)]
  BY SumsExist DEF Sums
<1> DEFINE g == Sums(f, S)
<1>2. g = [s \in SUBSET S |-> Step(f, g, s)]
  BY <1>1
<1> HIDE DEF g
<1>3. g[T] = Step(f, g, T)
  BY <1>2
<1>4. QED BY <1>3 DEF g

\* The sum over a subset is the same, computed on its own
LEMMA SumsOfSubset ==
  ASSUME NEW f, NEW S, IsFiniteSet(S), NEW T \in SUBSET S
  PROVE  Sums(f, S)[T] = SumFunctionOnSet(f, T)
<1> DEFINE A == {k \in Nat : \A U, V : IsFiniteSet(U) /\ V \subseteq U /\ Cardinality(V) = k
                                => Sums(f, U)[V] = Sums(f, V)[V]}
<1>1. 0 \in A
  <2>1. SUFFICES ASSUME NEW U, NEW V, IsFiniteSet(U), V \subseteq U, Cardinality(V) = 0
                 PROVE  Sums(f, U)[V] = Sums(f, V)[V]
    OBVIOUS
  <2>2. V = {} /\ IsFiniteSet(V)
    BY <2>1, FS_Subset, FS_EmptySet
  <2>3. QED BY <2>1, <2>2, SumsStep DEF Step
<1>2. ASSUME NEW k \in Nat, k \in A
      PROVE  k + 1 \in A
  <2>1. SUFFICES ASSUME NEW U, NEW V, IsFiniteSet(U), V \subseteq U, Cardinality(V) = k + 1
                 PROVE  Sums(f, U)[V] = Sums(f, V)[V]
    OBVIOUS
  <2>2. IsFiniteSet(V) /\ V # {}
    BY <2>1, FS_Subset, FS_EmptySet
  <2> DEFINE W == V \ {Some(V)}
  <2>3. Cardinality(W) = k /\ W \subseteq V /\ W \subseteq U
    <3>1. Some(V) \in V
      BY <2>2, SomeIn
    <3>2. Cardinality(W) = Cardinality(V) - 1
      BY <2>2, <3>1, FS_RemoveElement
    <3>3. QED BY <1>2, <2>1, <3>2
  <2>4. Sums(f, U)[W] = Sums(f, W)[W] /\ Sums(f, V)[W] = Sums(f, W)[W]
    BY <1>2, <2>1, <2>2, <2>3
  <2>5. Sums(f, U)[V] = Step(f, Sums(f, U), V) /\ Sums(f, V)[V] = Step(f, Sums(f, V), V)
    BY <2>1, <2>2, SumsStep
  <2>6. QED BY <2>2, <2>4, <2>5 DEF Step
<1>3. IsFiniteSet(T) /\ Cardinality(T) \in Nat
  BY FS_Subset, FS_CardinalityType
<1>4. Cardinality(T) \in A
  <2> HIDE DEF A
  <2>1. QED BY <1>1, <1>2, <1>3, AllNumbers
<1>5. QED BY <1>4, SumIs

LEMMA SumEmpty ==
  ASSUME NEW f
  PROVE  SumFunctionOnSet(f, {}) = 0
BY SumIs, SumsStep, FS_EmptySet DEF Step

LEMMA SumSome ==
  ASSUME NEW f, NEW S, IsFiniteSet(S), S # {}
  PROVE  SumFunctionOnSet(f, S) = f[Some(S)] + SumFunctionOnSet(f, S \ {Some(S)})
<1>1. SumFunctionOnSet(f, S) = Step(f, Sums(f, S), S)
  BY SumIs, SumsStep
<1>2. Sums(f, S)[S \ {Some(S)}] = SumFunctionOnSet(f, S \ {Some(S)})
  BY SumsOfSubset
<1>3. QED BY <1>1, <1>2 DEF Step

\* A sum of integers is one
THEOREM SumType ==
  ASSUME NEW f, NEW S, IsFiniteSet(S), \A x \in S : f[x] \in Int
  PROVE  SumFunctionOnSet(f, S) \in Int
<1> DEFINE A == {k \in Nat : \A V \in SUBSET S : Cardinality(V) = k => SumFunctionOnSet(f, V) \in Int}
<1>1. \A V \in SUBSET S : IsFiniteSet(V) /\ Cardinality(V) \in Nat /\ (Cardinality(V) = 0 <=> V = {})
  BY FS_Subset, FS_CardinalityType, FS_EmptySet
<1>2. 0 \in A
  BY <1>1, SumEmpty
<1>3. ASSUME NEW k \in Nat, k \in A
      PROVE  k + 1 \in A
  <2>1. SUFFICES ASSUME NEW V \in SUBSET S, Cardinality(V) = k + 1
                 PROVE  SumFunctionOnSet(f, V) \in Int
    OBVIOUS
  <2>2. V # {} /\ Some(V) \in V
    BY <1>1, <2>1, SomeIn
  <2>3. Cardinality(V \ {Some(V)}) = k
    <3>1. Cardinality(V \ {Some(V)}) = Cardinality(V) - 1
      BY <1>1, <2>2, FS_RemoveElement
    <3>2. QED BY <2>1, <3>1
  <2>4. SumFunctionOnSet(f, V \ {Some(V)}) \in Int
    BY <1>3, <2>3
  <2>5. QED BY <1>1, <2>2, <2>4, SumSome
<1>4. Cardinality(S) \in A
  <2> HIDE DEF A
  <2>1. QED BY <1>1, <1>2, <1>3, AllNumbers
<1>5. QED BY <1>4

\* Any element can be taken out of a sum
THEOREM SumRemove ==
  ASSUME NEW f, NEW S, IsFiniteSet(S), \A x \in S : f[x] \in Int, NEW y \in S
  PROVE  SumFunctionOnSet(f, S) = f[y] + SumFunctionOnSet(f, S \ {y})
<1> DEFINE Sum(V) == SumFunctionOnSet(f, V)
<1> DEFINE A == {k \in Nat : \A V \in SUBSET S : Cardinality(V) = k =>
                                 \A x \in V : Sum(V) = f[x] + Sum(V \ {x})}
<1>1. \A V \in SUBSET S : IsFiniteSet(V) /\ Cardinality(V) \in Nat /\ (Cardinality(V) = 0 <=> V = {})
  BY FS_Subset, FS_CardinalityType, FS_EmptySet
<1>2. \A V \in SUBSET S : Sum(V) \in Int
  BY <1>1, SumType
<1>3. 0 \in A
  BY <1>1
<1>4. ASSUME NEW k \in Nat, k \in A
      PROVE  k + 1 \in A
  <2>1. SUFFICES ASSUME NEW V \in SUBSET S, Cardinality(V) = k + 1, NEW x \in V
                 PROVE  Sum(V) = f[x] + Sum(V \ {x})
    OBVIOUS
  <2> DEFINE c == Some(V)
  <2>2. c \in V /\ Sum(V) = f[c] + Sum(V \ {c})
    BY <1>1, SomeIn, SumSome
  <2> HIDE DEF c
  <2>3. CASE x = c
    BY <2>2, <2>3
  <2>4. CASE x # c
    <3>1. Cardinality(V \ {c}) = k /\ Cardinality(V \ {x}) = k
      BY <1>1, <2>1, <2>2, FS_RemoveElement
    <3>2. Sum(V \ {c}) = f[x] + Sum((V \ {c}) \ {x}) /\ Sum(V \ {x}) = f[c] + Sum((V \ {x}) \ {c})
      <4> HIDE DEF Sum
      <4>1. V \ {c} \in SUBSET S /\ x \in V \ {c} /\ V \ {x} \in SUBSET S /\ c \in V \ {x}
        BY <2>2, <2>4
      <4>2. QED BY <1>4, <3>1, <4>1
    <3>3. (V \ {c}) \ {x} = (V \ {x}) \ {c}
      OBVIOUS
    <3>4. Sum((V \ {c}) \ {x}) \in Int /\ f[x] \in Int /\ f[c] \in Int
      <4> HIDE DEF Sum
      <4>1. QED BY <1>2, <2>2
    <3>5. Sum(V) = f[c] + (f[x] + Sum((V \ {c}) \ {x}))
      BY <2>2, <3>2
    <3>6. Sum(V \ {x}) = f[c] + Sum((V \ {c}) \ {x})
      BY <3>2, <3>3
    <3>7. QED
      <4> DEFINE r == Sum((V \ {c}) \ {x})
      <4>1. r \in Int /\ Sum(V) = f[c] + (f[x] + r) /\ Sum(V \ {x}) = f[c] + r
        BY <3>4, <3>5, <3>6
      <4> HIDE DEF Sum, r
      <4>2. QED BY <3>4, <4>1
  <2>5. QED BY <2>3, <2>4
<1>5. Cardinality(S) \in A
  <2> HIDE DEF A
  <2>1. QED BY <1>1, <1>3, <1>4, AllNumbers
<1>6. QED BY <1>5

\* The sum over two sets with nothing in common
THEOREM SumUnion ==
  ASSUME NEW f, NEW S, NEW T, IsFiniteSet(S), IsFiniteSet(T), S \cap T = {},
         \A x \in S \cup T : f[x] \in Int
  PROVE  SumFunctionOnSet(f, S \cup T) = SumFunctionOnSet(f, S) + SumFunctionOnSet(f, T)
<1> DEFINE Sum(V) == SumFunctionOnSet(f, V)
<1> DEFINE A == {k \in Nat : \A V \in SUBSET T : Cardinality(V) = k => Sum(S \cup V) = Sum(S) + Sum(V)}
<1>1. \A V \in SUBSET T : IsFiniteSet(V) /\ Cardinality(V) \in Nat /\ (Cardinality(V) = 0 <=> V = {})
  BY FS_Subset, FS_CardinalityType, FS_EmptySet
<1>2. \A V \in SUBSET T : IsFiniteSet(S \cup V) /\ Sum(V) \in Int /\ Sum(S \cup V) \in Int
  BY <1>1, SumType, FS_Union
<1>3. Sum(S) \in Int
  BY SumType
<1>4. 0 \in A
  <2>1. SUFFICES ASSUME NEW V \in SUBSET T, Cardinality(V) = 0
                 PROVE  Sum(S \cup V) = Sum(S) + Sum(V)
    OBVIOUS
  <2>2. V = {} /\ S \cup V = S
    BY <1>1, <2>1
  <2>3. QED BY <1>3, <2>2, SumEmpty
<1>5. ASSUME NEW k \in Nat, k \in A
      PROVE  k + 1 \in A
  <2>1. SUFFICES ASSUME NEW V \in SUBSET T, Cardinality(V) = k + 1
                 PROVE  Sum(S \cup V) = Sum(S) + Sum(V)
    OBVIOUS
  <2>2. PICK x : x \in V
    BY <1>1, <2>1
  <2>3. Cardinality(V \ {x}) = k /\ V \ {x} \in SUBSET T
    <3>1. Cardinality(V \ {x}) = Cardinality(V) - 1
      BY <1>1, <2>2, FS_RemoveElement
    <3>2. QED BY <2>1, <3>1
  <2>4. Sum(V) = f[x] + Sum(V \ {x})
    BY <1>1, <2>2, SumRemove
  <2>5. Sum(S \cup V) = f[x] + Sum((S \cup V) \ {x})
    BY <1>2, <2>2, SumRemove
  <2>6. (S \cup V) \ {x} = S \cup (V \ {x})
    BY <2>2
  <2>7. Sum(S \cup (V \ {x})) = Sum(S) + Sum(V \ {x})
    BY <1>5, <2>3
  <2>8. f[x] \in Int /\ Sum(V \ {x}) \in Int
    BY <1>2, <2>2, <2>3
  <2>9. Sum(S \cup V) = f[x] + (Sum(S) + Sum(V \ {x}))
    BY <2>5, <2>6, <2>7
  <2>10. QED
    <3> DEFINE r == Sum(V \ {x})
    <3> DEFINE t == Sum(S)
    <3>1. r \in Int /\ t \in Int /\ Sum(V) = f[x] + r /\ Sum(S \cup V) = f[x] + (t + r)
      BY <1>3, <2>4, <2>8, <2>9
    <3> HIDE DEF Sum, r, t
    <3>2. Sum(S \cup V) = t + Sum(V)
      BY <2>8, <3>1
    <3>3. QED BY <3>2 DEF t
<1>6. Cardinality(T) \in A
  <2> HIDE DEF A
  <2>1. QED BY <1>1, <1>4, <1>5, AllNumbers
<1>7. QED BY <1>6

\* Functions that agree on a set have the same sum
THEOREM SumSame ==
  ASSUME NEW f, NEW g, NEW S, IsFiniteSet(S), \A x \in S : f[x] = g[x]
  PROVE  SumFunctionOnSet(f, S) = SumFunctionOnSet(g, S)
<1> DEFINE A == {k \in Nat : \A V \in SUBSET S : Cardinality(V) = k =>
                                 SumFunctionOnSet(f, V) = SumFunctionOnSet(g, V)}
<1>1. \A V \in SUBSET S : IsFiniteSet(V) /\ Cardinality(V) \in Nat /\ (Cardinality(V) = 0 <=> V = {})
  BY FS_Subset, FS_CardinalityType, FS_EmptySet
<1>2. 0 \in A
  BY <1>1, SumEmpty
<1>3. ASSUME NEW k \in Nat, k \in A
      PROVE  k + 1 \in A
  <2>1. SUFFICES ASSUME NEW V \in SUBSET S, Cardinality(V) = k + 1
                 PROVE  SumFunctionOnSet(f, V) = SumFunctionOnSet(g, V)
    OBVIOUS
  <2>2. V # {} /\ Some(V) \in V
    BY <1>1, <2>1, SomeIn
  <2>3. Cardinality(V \ {Some(V)}) = k
    <3>1. Cardinality(V \ {Some(V)}) = Cardinality(V) - 1
      BY <1>1, <2>2, FS_RemoveElement
    <3>2. QED BY <2>1, <3>1
  <2>4. SumFunctionOnSet(f, V \ {Some(V)}) = SumFunctionOnSet(g, V \ {Some(V)})
    BY <1>3, <2>3
  <2>5. QED BY <1>1, <2>2, <2>4, SumSome
<1>4. Cardinality(S) \in A
  <2> HIDE DEF A
  <2>1. QED BY <1>1, <1>2, <1>3, AllNumbers
<1>5. QED BY <1>4

\* A sum of larger numbers is larger
THEOREM SumBound ==
  ASSUME NEW f, NEW g, NEW S, IsFiniteSet(S),
         \A x \in S : f[x] \in Int /\ g[x] \in Int /\ f[x] <= g[x]
  PROVE  SumFunctionOnSet(f, S) <= SumFunctionOnSet(g, S)
<1> DEFINE A == {k \in Nat : \A V \in SUBSET S : Cardinality(V) = k =>
                                 SumFunctionOnSet(f, V) <= SumFunctionOnSet(g, V)}
<1>1. \A V \in SUBSET S : IsFiniteSet(V) /\ Cardinality(V) \in Nat /\ (Cardinality(V) = 0 <=> V = {})
  BY FS_Subset, FS_CardinalityType, FS_EmptySet
<1>2. \A V \in SUBSET S : SumFunctionOnSet(f, V) \in Int /\ SumFunctionOnSet(g, V) \in Int
  BY <1>1, SumType
<1>3. 0 \in A
  BY <1>1, SumEmpty
<1>4. ASSUME NEW k \in Nat, k \in A
      PROVE  k + 1 \in A
  <2>1. SUFFICES ASSUME NEW V \in SUBSET S, Cardinality(V) = k + 1
                 PROVE  SumFunctionOnSet(f, V) <= SumFunctionOnSet(g, V)
    OBVIOUS
  <2>2. V # {} /\ Some(V) \in V
    BY <1>1, <2>1, SomeIn
  <2>3. Cardinality(V \ {Some(V)}) = k
    <3>1. Cardinality(V \ {Some(V)}) = Cardinality(V) - 1
      BY <1>1, <2>2, FS_RemoveElement
    <3>2. QED BY <2>1, <3>1
  <2>4. SumFunctionOnSet(f, V \ {Some(V)}) <= SumFunctionOnSet(g, V \ {Some(V)})
    BY <1>4, <2>3
  <2>5. /\ SumFunctionOnSet(f, V) = f[Some(V)] + SumFunctionOnSet(f, V \ {Some(V)})
        /\ SumFunctionOnSet(g, V) = g[Some(V)] + SumFunctionOnSet(g, V \ {Some(V)})
    BY <1>1, <2>2, SumSome
  <2>6. QED BY <1>2, <2>2, <2>4, <2>5
<1>5. Cardinality(S) \in A
  <2> HIDE DEF A
  <2>1. QED BY <1>1, <1>3, <1>4, AllNumbers
<1>6. QED BY <1>5

\* Sums of natural numbers grow with the set
THEOREM SumGrows ==
  ASSUME NEW f, NEW T, IsFiniteSet(T), \A x \in T : f[x] \in Nat, NEW S \in SUBSET T
  PROVE  /\ IsFiniteSet(S)
         /\ SumFunctionOnSet(f, S) \in Nat
         /\ SumFunctionOnSet(f, T) \in Nat
         /\ SumFunctionOnSet(f, S) <= SumFunctionOnSet(f, T)
<1>1. IsFiniteSet(S) /\ IsFiniteSet(T \ S)
  BY FS_Subset
<1>2. ASSUME NEW V \in SUBSET T, IsFiniteSet(V)
      PROVE  SumFunctionOnSet(f, V) \in Nat
  <2> DEFINE z == [x \in T |-> 0]
  <2>1. SumFunctionOnSet(z, V) <= SumFunctionOnSet(f, V)
    <3>1. \A x \in V : z[x] \in Int /\ f[x] \in Int /\ z[x] <= f[x]
      OBVIOUS
    <3> HIDE DEF z
    <3>2. QED BY <1>2, <3>1, SumBound
  <2>2. SumFunctionOnSet(z, V) = 0
    <3> DEFINE A == {k \in Nat : \A W \in SUBSET V : Cardinality(W) = k => SumFunctionOnSet(z, W) = 0}
    <3>1. \A W \in SUBSET V : IsFiniteSet(W) /\ Cardinality(W) \in Nat /\ (Cardinality(W) = 0 <=> W = {})
      BY <1>2, FS_Subset, FS_CardinalityType, FS_EmptySet
    <3>2. 0 \in A
      BY <3>1, SumEmpty
    <3>3. ASSUME NEW k \in Nat, k \in A PROVE k + 1 \in A
      <4>1. SUFFICES ASSUME NEW W \in SUBSET V, Cardinality(W) = k + 1
                     PROVE  SumFunctionOnSet(z, W) = 0
        OBVIOUS
      <4>2. W # {} /\ Some(W) \in W /\ z[Some(W)] = 0
        BY <3>1, <4>1, SomeIn
      <4>3. Cardinality(W \ {Some(W)}) = k
        <5>1. Cardinality(W \ {Some(W)}) = Cardinality(W) - 1
          BY <3>1, <4>2, FS_RemoveElement
        <5>2. QED BY <4>1, <5>1
      <4>4. SumFunctionOnSet(z, W \ {Some(W)}) = 0
        BY <3>3, <4>3
      <4> HIDE DEF z
      <4>5. SumFunctionOnSet(z, W) = z[Some(W)] + SumFunctionOnSet(z, W \ {Some(W)})
        BY <3>1, <4>2, SumSome
      <4>6. QED BY <4>2, <4>4, <4>5
    <3>4. Cardinality(V) \in A
      <4> HIDE DEF A
      <4>1. QED BY <3>1, <3>2, <3>3, AllNumbers
    <3>5. QED BY <3>4
  <2>3. SumFunctionOnSet(f, V) \in Int
    <3>1. \A x \in V : f[x] \in Int
      OBVIOUS
    <3>2. QED BY <1>2, <3>1, SumType
  <2>4. QED BY <2>1, <2>2, <2>3
<1>3. SumFunctionOnSet(f, S \cup (T \ S)) = SumFunctionOnSet(f, S) + SumFunctionOnSet(f, T \ S)
  <2>1. \A x \in S \cup (T \ S) : f[x] \in Int
    OBVIOUS
  <2>2. S \cap (T \ S) = {}
    OBVIOUS
  <2>3. QED BY <1>1, <2>1, <2>2, SumUnion
<1>4. S \cup (T \ S) = T
  OBVIOUS
<1>5. SumFunctionOnSet(f, S) \in Nat /\ SumFunctionOnSet(f, T \ S) \in Nat /\ SumFunctionOnSet(f, T) \in Nat
  BY <1>1, <1>2
<1>6. QED BY <1>1, <1>3, <1>4, <1>5

\* The values of a function on a finite set are finitely many
LEMMA ImageFinite ==
  ASSUME NEW S, IsFiniteSet(S), NEW f, f = [x \in S |-> f[x]]
  PROVE  IsFiniteSet({f[x] : x \in S})
<1> DEFINE T == {f[x] : x \in S}
<1>1. f \in Surjection(S, T)
  BY DEF Surjection
<1> HIDE DEF T
<1>2. QED BY <1>1, FS_Surjection DEF T

-----------------------------------------------------------------------------
(* FlattenSeq.  Its recursion has a solution for every sequence, which is  *)
(* the same for all sequences that continue it.                            *)

JoinAt(g, s, k) == IF k = 1 THEN s[k] ELSE g[k - 1] \o s[k]

Joined(s) == CHOOSE g : g = [k \in 1 .. Len(s) |-> JoinAt(g, s, k)]

LEMMA FlattenIs ==
  ASSUME NEW s, Len(s) # 0
  PROVE  FlattenSeq(s) = Joined(s)[Len(s)]
BY DEF FlattenSeq, Joined, JoinAt

LEMMA JoinedExists ==
  ASSUME NEW T, NEW s \in Seq(T)
  PROVE  Joined(s) = [k \in 1 .. Len(s) |-> JoinAt(Joined(s), s, k)]
<1> DEFINE A == {n \in Nat : \E g : g = [k \in 1 .. n |-> JoinAt(g, s, k)]}
<1>1. 0 \in A
  <2> DEFINE g == [k \in 1 .. 0 |-> 0]
  <2>1. g = [k \in 1 .. 0 |-> JoinAt(g, s, k)]
    OBVIOUS
  <2> HIDE DEF g
  <2>2. QED BY <2>1
<1>2. ASSUME NEW n \in Nat, n \in A
      PROVE  n + 1 \in A
  <2>1. PICK g : g = [k \in 1 .. n |-> JoinAt(g, s, k)]
    BY <1>2
  <2> DEFINE h == [k \in 1 .. n + 1 |-> IF k <= n THEN g[k] ELSE JoinAt(g, s, k)]
  <2>2. ASSUME NEW k \in 1 .. n + 1
        PROVE  h[k] = JoinAt(h, s, k)
    <3>1. h[k] = JoinAt(g, s, k)
      <4>1. CASE k <= n
        <5>1. k \in 1 .. n /\ h[k] = g[k]
          BY <4>1
        <5> HIDE DEF h
        <5>2. QED BY <2>1, <5>1
      <4>2. CASE ~(k <= n)
        BY <4>2
      <4>3. QED BY <4>1, <4>2
    <3>2. k # 1 => k - 1 \in 1 .. n + 1 /\ h[k - 1] = g[k - 1]
      OBVIOUS
    <3> HIDE DEF h
    <3>3. QED BY <3>1, <3>2 DEF JoinAt
  <2>3. h = [k \in 1 .. n + 1 |-> JoinAt(h, s, k)]
    <3>1. h = [k \in 1 .. n + 1 |-> h[k]]
      OBVIOUS
    <3> HIDE DEF h
    <3>2. QED BY <2>2, <3>1
  <2> HIDE DEF h
  <2>4. QED BY <2>3
<1>3. Len(s) \in A
  <2> HIDE DEF A
  <2>1. QED BY <1>1, <1>2, AllNumbers, LenProperties
<1>4. QED BY <1>3 DEF Joined

LEMMA JoinedStep ==
  ASSUME NEW T, NEW s \in Seq(T), NEW k \in 1 .. Len(s)
  PROVE  Joined(s)[k] = JoinAt(Joined(s), s, k)
<1> DEFINE g == Joined(s)
<1>1. g = [j \in 1 .. Len(s) |-> JoinAt(g, s, j)]
  BY JoinedExists
<1> HIDE DEF g
<1>2. g[k] = JoinAt(g, s, k)
  BY <1>1
<1>3. QED BY <1>2 DEF g

\* Nothing gives nothing
LEMMA FlattenNone == FlattenSeq(<<>>) = <<>>
BY DEF FlattenSeq

\* Flattening one more sequence
THEOREM FlattenAppend ==
  ASSUME NEW T, NEW s \in Seq(Seq(T)), NEW e \in Seq(T)
  PROVE  FlattenSeq(Append(s, e)) = FlattenSeq(s) \o e
<1> DEFINE t == Append(s, e)
<1>1. /\ Len(s) \in Nat /\ t \in Seq(Seq(T)) /\ Len(t) = Len(s) + 1 /\ t[Len(t)] = e
      /\ \A k \in 1 .. Len(s) : t[k] = s[k]
  BY LenProperties, AppendProperties
<1> HIDE DEF t
<1> DEFINE A == {n \in Nat : n + 1 <= Len(s) => Joined(t)[n + 1] = Joined(s)[n + 1]}
<1>2. 0 \in A
  <2>1. SUFFICES ASSUME 1 <= Len(s)
                 PROVE  Joined(t)[1] = Joined(s)[1]
    OBVIOUS
  <2>2. Joined(t)[1] = JoinAt(Joined(t), t, 1) /\ Joined(s)[1] = JoinAt(Joined(s), s, 1)
    BY <1>1, <2>1, JoinedStep
  <2>3. QED BY <1>1, <2>1, <2>2 DEF JoinAt
<1>3. ASSUME NEW n \in Nat, n \in A
      PROVE  n + 1 \in A
  <2>1. SUFFICES ASSUME n + 2 <= Len(s)
                 PROVE  Joined(t)[n + 2] = Joined(s)[n + 2]
    OBVIOUS
  <2>2. /\ Joined(t)[n + 2] = JoinAt(Joined(t), t, n + 2)
        /\ Joined(s)[n + 2] = JoinAt(Joined(s), s, n + 2)
    <3>1. n + 2 \in 1 .. Len(t) /\ n + 2 \in 1 .. Len(s)
      BY <1>1, <2>1
    <3>2. QED BY <1>1, <3>1, JoinedStep
  <2>3. Joined(t)[n + 1] = Joined(s)[n + 1] /\ t[n + 2] = s[n + 2]
    BY <1>1, <1>3, <2>1
  <2>4. (n + 2) - 1 = n + 1 /\ n + 2 # 1
    OBVIOUS
  <2>5. QED BY <2>2, <2>3, <2>4 DEF JoinAt
<1>4. \A n \in Nat : n \in A
  <2> HIDE DEF A
  <2>1. QED BY <1>2, <1>3, AllNumbers
<1>5. FlattenSeq(t) = JoinAt(Joined(t), t, Len(t))
  BY <1>1, FlattenIs, JoinedStep
<1>6. CASE Len(s) = 0
  <2>1. s = <<>> /\ <<>> \o e = e
    BY <1>6
  <2>2. QED BY <1>1, <1>5, <1>6, <2>1, FlattenNone DEF JoinAt, t
<1>7. CASE Len(s) # 0
  <2>1. Len(s) - 1 \in Nat /\ (Len(s) - 1) + 1 = Len(s) /\ Len(t) # 1 /\ Len(t) - 1 = Len(s)
    BY <1>1, <1>7
  <2>2. Joined(t)[Len(s)] = Joined(s)[Len(s)]
    <3>1. Len(s) - 1 \in A
      <4> HIDE DEF A
      <4>1. QED BY <1>4, <2>1
    <3>2. QED BY <2>1, <3>1
  <2>3. FlattenSeq(t) = Joined(s)[Len(s)] \o e
    BY <1>1, <1>5, <2>1, <2>2 DEF JoinAt
  <2>4. QED BY <1>7, <2>3, FlattenIs DEF t
<1>8. QED BY <1>6, <1>7

\* Flattening keeps the elements
THEOREM FlattenRange ==
  ASSUME NEW T, NEW s \in Seq(Seq(T))
  PROVE  /\ FlattenSeq(s) \in Seq(T)
         /\ \A x \in 1 .. Len(FlattenSeq(s)) :
              \E n \in 1 .. Len(s) : \E j \in 1 .. Len(s[n]) : FlattenSeq(s)[x] = s[n][j]
         /\ \A n \in 1 .. Len(s) : \A j \in 1 .. Len(s[n]) :
              \E x \in 1 .. Len(FlattenSeq(s)) : FlattenSeq(s)[x] = s[n][j]
<1> DEFINE J == Joined(s)
           Has(f, k) ==
             /\ f \in Seq(T)
             /\ \A x \in 1 .. Len(f) :
                  \E n \in 1 .. k : \E j \in 1 .. Len(s[n]) : f[x] = s[n][j]
             /\ \A n \in 1 .. k : \A j \in 1 .. Len(s[n]) :
                  \E x \in 1 .. Len(f) : f[x] = s[n][j]
           A == {k \in Nat : k + 1 <= Len(s) => Has(J[k + 1], k + 1)}
<1>1. Len(s) \in Nat
  BY LenProperties
<1>2. ASSUME NEW k \in 1 .. Len(s)
      PROVE  s[k] \in Seq(T) /\ Len(s[k]) \in Nat
  BY <1>2, ElementOfSeq, LenProperties
<1>3. 0 \in A
  <2>1. SUFFICES ASSUME 1 <= Len(s)
                 PROVE  Has(J[1], 1)
    OBVIOUS
  <2>2. 1 \in 1 .. Len(s) /\ \A n \in 1 .. 1 : n = 1
    BY <1>1, <2>1
  <2>3. J[1] = s[1]
    BY <2>2, JoinedStep DEF JoinAt
  <2> HIDE DEF J
  <2>4. QED BY <1>2, <2>2, <2>3
<1>4. ASSUME NEW k \in Nat, k \in A
      PROVE  k + 1 \in A
  <2>1. SUFFICES ASSUME k + 2 <= Len(s)
                 PROVE  Has(J[k + 2], k + 2)
    <3>1. k + 1 + 1 = k + 2 /\ k + 1 \in Nat
      OBVIOUS
    <3> HIDE DEF Has, J
    <3>2. QED BY <3>1
  <2> DEFINE f == J[k + 1]
             e == s[k + 2]
             g == f \o e
  <2>2. k + 2 \in 1 .. Len(s) /\ (k + 2) - 1 = k + 1 /\ k + 2 # 1
    BY <1>1, <2>1
  <2>3. J[k + 2] = g
    BY <2>2, JoinedStep DEF JoinAt
  <2>4. Has(f, k + 1)
    <3>1. k + 1 <= Len(s)
      BY <1>1, <2>1
    <3> HIDE DEF Has, J
    <3>2. QED BY <1>4, <3>1
  <2> HIDE DEF J
  <2>5. e \in Seq(T) /\ f \in Seq(T) /\ Len(f) \in Nat /\ Len(e) \in Nat
    BY <1>2, <2>2, <2>4, LenProperties
  <2>6. /\ g \in Seq(T) /\ Len(g) = Len(f) + Len(e)
        /\ \A x \in 1 .. Len(f) + Len(e) : g[x] = IF x <= Len(f) THEN f[x] ELSE e[x - Len(f)]
    BY <2>5, ConcatProperties
  <2>7. 1 .. k + 2 = 1 .. k + 1 \union {k + 2}
    OBVIOUS
  <2> HIDE DEF f, e, g
  <2>8. ASSUME NEW x \in 1 .. Len(g)
        PROVE  \E n \in 1 .. k + 2 : \E j \in 1 .. Len(s[n]) : g[x] = s[n][j]
    <3>1. CASE x <= Len(f)
      <4>1. x \in 1 .. Len(f) /\ g[x] = f[x]
        BY <2>5, <2>6, <3>1
      <4>2. PICK n \in 1 .. k + 1 : \E j \in 1 .. Len(s[n]) : f[x] = s[n][j]
        BY <2>4, <4>1
      <4>3. QED BY <2>7, <4>1, <4>2
    <3>2. CASE ~(x <= Len(f))
      <4>1. x - Len(f) \in 1 .. Len(e) /\ g[x] = e[x - Len(f)]
        BY <2>5, <2>6, <3>2
      <4>2. QED BY <2>7, <4>1 DEF e
    <3>3. QED BY <3>1, <3>2
  <2>9. ASSUME NEW n \in 1 .. k + 2, NEW j \in 1 .. Len(s[n])
        PROVE  \E x \in 1 .. Len(g) : g[x] = s[n][j]
    <3>1. CASE n \in 1 .. k + 1
      <4>1. PICK x \in 1 .. Len(f) : f[x] = s[n][j]
        BY <2>4, <3>1
      <4>2. x \in 1 .. Len(g) /\ g[x] = f[x]
        BY <2>5, <2>6
      <4>3. QED BY <4>1, <4>2
    <3>2. CASE n = k + 2
      <4>1. j \in 1 .. Len(e)
        BY <3>2 DEF e
      <4>2. Len(f) + j \in 1 .. Len(g) /\ g[Len(f) + j] = e[j]
        <5>1. Len(f) + j \in 1 .. Len(f) + Len(e) /\ ~(Len(f) + j <= Len(f)) /\ (Len(f) + j) - Len(f) = j
          BY <2>5, <4>1
        <5>2. QED BY <2>6, <5>1
      <4>3. QED BY <3>2, <4>2 DEF e
    <3>3. QED BY <2>7, <3>1, <3>2
  <2>10. Has(g, k + 2)
    BY <2>6, <2>8, <2>9
  <2>11. QED BY <2>3, <2>10
<1>5. \A k \in Nat : k \in A
  <2> HIDE DEF A
  <2>1. QED BY <1>3, <1>4, AllNumbers
<1>6. CASE Len(s) = 0
  <2>1. s = <<>>
    BY <1>6
  <2>2. FlattenSeq(s) = <<>> /\ Len(<<>>) = 0 /\ <<>> \in Seq(T)
    BY <2>1, FlattenNone, EmptySeq
  <2>3. \A n \in 1 .. Len(s) : FALSE
    BY <1>6
  <2>4. \A n \in 1 .. Len(FlattenSeq(s)) : FALSE
    BY <2>2
  <2>5. QED BY <2>2, <2>3, <2>4
<1>7. CASE Len(s) # 0
  <2>1. Len(s) - 1 \in A /\ Len(s) - 1 \in Nat /\ (Len(s) - 1) + 1 = Len(s)
    <3> HIDE DEF A
    <3>1. QED BY <1>1, <1>5, <1>7
  <2>2. Has(J[Len(s)], Len(s))
    BY <2>1
  <2>3. FlattenSeq(s) = J[Len(s)]
    BY <1>7, FlattenIs
  <2> HIDE DEF J
  <2>4. QED BY <2>2, <2>3
<1>8. QED BY <1>6, <1>7

-----------------------------------------------------------------------------
(* FoldLeft takes a sequence from its end, by a recursion over sets of places *)

LEMMA MaxOf ==
  ASSUME NEW i \in Nat, i >= 1, NEW s, s \subseteq 1 .. i, i \in s
  PROVE  Max(s) = i
<1>1. s \subseteq Nat /\ s # {} /\ \A y \in s : y <= i
  OBVIOUS
<1>2. Max(s) \in s /\ \A y \in s : y <= Max(s)
  BY <1>1, MaxIs
<1>3. Max(s) <= i /\ i <= Max(s) /\ Max(s) \in Nat
  BY <1>1, <1>2
<1>4. QED BY <1>3

FoldAt(base, H, it, s) == IF s = {} THEN base ELSE H[Max(s)][it[s \ {Max(s)}]]

FoldOn(base, H, it, n) == \A s \in SUBSET (1 .. n) : it[s] = FoldAt(base, H, it, s)

LEMMA FoldExists ==
  ASSUME NEW A, NEW base \in A, NEW n \in Nat, NEW H, \A i \in 1 .. n : \A a \in A : H[i][a] \in A
  PROVE  \E it \in [SUBSET (1 .. n) -> A] : FoldOn(base, H, it, n)
<1> DEFINE Solved(i) == \E it \in [SUBSET (1 .. i) -> A] : FoldOn(base, H, it, i)
           B == {i \in Nat : i <= n => Solved(i)}
<1>1. 0 \in B
  <2> DEFINE it == [s \in SUBSET (1 .. 0) |-> base]
  <2>1. \A s \in SUBSET (1 .. 0) : s = {}
    OBVIOUS
  <2>2. it \in [SUBSET (1 .. 0) -> A]
    OBVIOUS
  <2>3. FoldOn(base, H, it, 0)
    BY <2>1 DEF FoldOn, FoldAt
  <2> HIDE DEF it
  <2>4. Solved(0)
    BY <2>2, <2>3
  <2>5. QED BY <2>4
<1>2. ASSUME NEW i \in Nat, i \in B PROVE i + 1 \in B
  <2>1. SUFFICES ASSUME i + 1 <= n PROVE Solved(i + 1)
    <3> HIDE DEF Solved
    <3>1. QED OBVIOUS
  <2>2. Solved(i)
    <3> HIDE DEF Solved
    <3>1. i <= n
      BY <2>1
    <3>2. QED BY <1>2, <3>1
  <2>3. PICK u \in [SUBSET (1 .. i) -> A] : FoldOn(base, H, u, i)
    BY <2>2
  <2>4. PICK j \in Nat : j = i + 1 /\ j \in 1 .. n /\ j \notin 1 .. i /\ j >= 1
    BY <2>1
  <2>5. \A r \in SUBSET (1 .. i) : r \in SUBSET (1 .. j) /\ j \notin r
    <3>1. 1 .. i \subseteq 1 .. j
      BY <2>4
    <3>2. QED BY <2>4, <3>1
  <2>6. \A s \in SUBSET (1 .. j) : s \ {j} \in SUBSET (1 .. i)
    BY <2>4
  <2> DEFINE it == [s \in SUBSET (1 .. j) |-> IF j \in s THEN H[j][u[s \ {j}]] ELSE u[s]]
  <2>7. it \in [SUBSET (1 .. j) -> A]
    <3>1. ASSUME NEW s \in SUBSET (1 .. j) PROVE (IF j \in s THEN H[j][u[s \ {j}]] ELSE u[s]) \in A
      <4>1. CASE j \in s
        <5>1. u[s \ {j}] \in A
          <6>1. PICK r : r = s \ {j} /\ r \in SUBSET (1 .. i)
            BY <2>6
          <6>2. u[r] \in A
            BY <6>1, Zenon
          <6>3. QED BY <6>1, <6>2, Zenon
        <5>2. H[j][u[s \ {j}]] \in A
          BY <2>4, <5>1, Zenon
        <5>3. QED BY <4>1, <5>2
      <4>2. CASE j \notin s
        <5>1. s \ {j} = s
          BY <4>2
        <5>2. QED BY <2>6, <4>2, <5>1
      <4>3. QED BY <4>1, <4>2
    <3>2. QED BY <3>1
  <2>8. ASSUME NEW s \in SUBSET (1 .. j) PROVE it[s] = FoldAt(base, H, it, s)
    <3>1. it[s] = IF j \in s THEN H[j][u[s \ {j}]] ELSE u[s]
      OBVIOUS
    <3>2. CASE j \in s
      <4>1. Max(s) = j
        BY <2>4, <3>2, MaxOf
      <4>2. PICK r : r = s \ {j} /\ r \in SUBSET (1 .. i) /\ r \in SUBSET (1 .. j) /\ j \notin r
        BY <2>5, <2>6
      <4>3. it[r] = u[r]
        BY <4>2
      <4> HIDE DEF it
      <4>4. QED BY <3>1, <3>2, <4>1, <4>2, <4>3, Zenon DEF FoldAt
    <3>3. CASE j \notin s
      <4>1. s \in SUBSET (1 .. i)
        BY <2>4, <3>3
      <4>2. u[s] = FoldAt(base, H, u, s)
        BY <2>3, <4>1, Zenon DEF FoldOn
      <4>3. PICK r : r = s \ {Max(s)} /\ r \in SUBSET (1 .. i) /\ r \in SUBSET (1 .. j) /\ j \notin r
        <5>1. s \ {Max(s)} \in SUBSET (1 .. i)
          BY <4>1
        <5>2. QED BY <2>5, <5>1, Zenon
      <4>4. it[r] = u[r]
        BY <4>3
      <4> HIDE DEF it
      <4>5. FoldAt(base, H, u, s) = FoldAt(base, H, it, s)
        BY <4>3, <4>4, Zenon DEF FoldAt
      <4>6. QED BY <3>1, <3>3, <4>2, <4>5, Zenon
    <3>4. QED BY <3>2, <3>3
  <2> HIDE DEF it
  <2>9. FoldOn(base, H, it, j) /\ it \in [SUBSET (1 .. j) -> A]
    BY <2>7, <2>8, Zenon DEF FoldOn
  <2>10. QED BY <2>4, <2>9, Zenon
<1> HIDE DEF B, Solved
<1>3. n \in B
  BY <1>1, <1>2, AllNumbers
<1>4. Solved(n)
  BY <1>3 DEF B
<1>5. QED BY <1>4 DEF Solved

\* The places of the first elements, and the last of them
LEMMA SomeMax ==
  ASSUME NEW n \in Nat, NEW s \in SUBSET (1 .. n), s # {}
  PROVE  Max(s) \in s
<1>1. s \subseteq Nat /\ \A y \in s : y <= n
  OBVIOUS
<1>2. QED BY <1>1, MaxIs

LEMMA PlacesIs ==
  ASSUME NEW n \in Nat, NEW i \in 0 .. n
  PROVE  /\ 1 .. i \in SUBSET (1 .. n) /\ (i = 0 <=> 1 .. i = {})
         /\ i # 0 => Max(1 .. i) = i /\ (1 .. i) \ {i} = 1 .. i - 1
<1>1. 1 .. i \in SUBSET (1 .. n) /\ (i = 0 <=> 1 .. i = {})
  OBVIOUS
<1>2. ASSUME i # 0 PROVE Max(1 .. i) = i
  <2>1. i \in Nat /\ i >= 1 /\ i \in 1 .. i
    BY <1>2
  <2>2. QED BY <2>1, MaxOf
<1>3. ASSUME i # 0 PROVE (1 .. i) \ {i} = 1 .. i - 1
  OBVIOUS
<1>4. QED BY <1>1, <1>2, <1>3

\* Sums, which FoldLeft takes in the same way
GrowOn(z, g, n) ==
  \A s \in SUBSET (1 .. n) : z[s] = IF s = {} THEN 0 ELSE z[s \ {Max(s)}] + g[Max(s)]

GrowsBy(z, g, n) == z[1 .. 0] = 0 /\ \A i \in 1 .. n : z[1 .. i] = z[1 .. i - 1] + g[i]

LEMMA GrowRun ==
  ASSUME NEW n \in Nat, NEW z, NEW g, GrowOn(z, g, n)
  PROVE  GrowsBy(z, g, n)
<1>1. z[1 .. 0] = 0
  <2>1. 1 .. 0 \in SUBSET (1 .. n) /\ 1 .. 0 = {}
    OBVIOUS
  <2>2. QED BY <2>1, Zenon DEF GrowOn
<1>2. ASSUME NEW i \in 1 .. n PROVE z[1 .. i] = z[1 .. i - 1] + g[i]
  <2>1. i \in 0 .. n /\ i # 0
    OBVIOUS
  <2>2. 1 .. i \in SUBSET (1 .. n) /\ Max(1 .. i) = i /\ (1 .. i) \ {i} = 1 .. i - 1 /\ 1 .. i # {}
    BY <2>1, PlacesIs
  <2>3. QED BY <2>2, Zenon DEF GrowOn
<1>3. QED BY <1>1, <1>2, Zenon DEF GrowsBy

LEMMA GrowMore ==
  ASSUME NEW n \in Nat, NEW z, NEW g, GrowsBy(z, g, n), NEW y, NEW h, GrowsBy(y, h, n + 1),
         \A i \in 1 .. n : g[i] = h[i] /\ g[i] \in Int
  PROVE  z[1 .. n] \in Int /\ y[1 .. n + 1] = z[1 .. n] + h[n + 1]
<1> DEFINE A == {i \in Nat : i <= n => z[1 .. i] = y[1 .. i] /\ z[1 .. i] \in Int}
<1>1. z[1 .. 0] = 0 /\ \A i \in 1 .. n : z[1 .. i] = z[1 .. i - 1] + g[i]
  BY Zenon DEF GrowsBy
<1>2. y[1 .. 0] = 0 /\ \A i \in 1 .. n + 1 : y[1 .. i] = y[1 .. i - 1] + h[i]
  BY Zenon DEF GrowsBy
<1>3. 0 \in A
  BY <1>1, <1>2
<1>4. ASSUME NEW i \in Nat, i \in A PROVE i + 1 \in A
  <2>1. SUFFICES ASSUME i + 1 <= n PROVE z[1 .. i + 1] = y[1 .. i + 1] /\ z[1 .. i + 1] \in Int
    OBVIOUS
  <2>2. z[1 .. i] = y[1 .. i] /\ z[1 .. i] \in Int
    BY <1>4, <2>1
  <2>3. PICK j : j = i + 1 /\ j \in 1 .. n /\ j \in 1 .. n + 1 /\ j - 1 = i
    BY <2>1
  <2>4. z[1 .. j] = z[1 .. i] + g[j] /\ y[1 .. j] = y[1 .. i] + h[j]
    <3>1. z[1 .. j] = z[1 .. j - 1] + g[j] /\ y[1 .. j] = y[1 .. j - 1] + h[j]
      BY <1>1, <1>2, <2>3, Zenon
    <3>2. QED BY <2>3, <3>1, Zenon
  <2>5. g[j] = h[j] /\ g[j] \in Int
    BY <2>3, Zenon
  <2>6. z[1 .. j] = y[1 .. j] /\ z[1 .. j] \in Int
    BY <2>2, <2>4, <2>5
  <2>7. QED BY <2>3, <2>6, Zenon
<1> HIDE DEF A
<1>5. z[1 .. n] = y[1 .. n] /\ z[1 .. n] \in Int
  <2>1. n \in A
    BY <1>3, <1>4, AllNumbers
  <2>2. QED BY <2>1 DEF A
<1>6. y[1 .. n + 1] = y[1 .. n] + h[n + 1]
  <2>1. PICK j : j = n + 1 /\ j \in 1 .. n + 1 /\ j - 1 = n
    OBVIOUS
  <2>2. y[1 .. j] = y[1 .. j - 1] + h[j]
    BY <1>2, <2>1, Zenon
  <2>3. QED BY <2>1, <2>2, Zenon
<1>7. QED BY <1>5, <1>6

LEMMA GrowExists ==
  ASSUME NEW n \in Nat, NEW g, \A i \in 1 .. n : g[i] \in Int
  PROVE  \E z \in [SUBSET (1 .. n) -> Int] : GrowOn(z, g, n)
<1> DEFINE H == [i \in 1 .. n |-> [a \in Int |-> a + g[i]]]
<1>1. \A i \in 1 .. n : \A a \in Int : H[i][a] = a + g[i] /\ H[i][a] \in Int
  OBVIOUS
<1> HIDE DEF H
<1>2. PICK f \in [SUBSET (1 .. n) -> Int] : FoldOn(0, H, f, n)
  <2>1. 0 \in Int
    OBVIOUS
  <2>2. QED BY <1>1, <2>1, FoldExists, Zenon
<1>3. ASSUME NEW s \in SUBSET (1 .. n)
      PROVE  f[s] = IF s = {} THEN 0 ELSE f[s \ {Max(s)}] + g[Max(s)]
  <2>1. f[s] = FoldAt(0, H, f, s)
    BY <1>2, Zenon DEF FoldOn
  <2>2. CASE s = {}
    BY <2>1, <2>2, Zenon DEF FoldAt
  <2>3. CASE s # {}
    <3>1. Max(s) \in s /\ s \ {Max(s)} \in SUBSET (1 .. n)
      BY <2>3, SomeMax
    <3>2. PICK i, r : i = Max(s) /\ r = s \ {Max(s)} /\ i \in 1 .. n /\ r \in SUBSET (1 .. n)
      BY <3>1
    <3>3. f[r] \in Int
      BY <3>2, Zenon
    <3>4. f[s] = H[i][f[r]]
      BY <2>1, <2>3, <3>2, Zenon DEF FoldAt
    <3>5. f[s] = f[r] + g[i]
      BY <1>1, <3>2, <3>3, <3>4, Zenon
    <3>6. QED BY <2>3, <3>2, <3>5, Zenon
  <2>4. QED BY <2>2, <2>3
<1>4. QED BY <1>2, <1>3, Zenon DEF GrowOn

-----------------------------------------------------------------------------
(* Stretches of a sequence, and sequences that lie one after the other in a  *)
(* longer one.                                                               *)

\* What follows the first a elements of a sequence, up to the b-th
Stretch(s, a, b) == SubSeq(s, a + 1, b)

\* The elements of p are those of s after the first a
ElementsFrom(p, s, a) == \A j \in 1 .. Len(p) : p[j] = s[a + j]

LEMMA StretchIs ==
  ASSUME NEW T, NEW s \in Seq(T), NEW a \in Nat, NEW b \in Nat, a <= b, b <= Len(s)
  PROVE  /\ Stretch(s, a, b) \in Seq(T) /\ Len(Stretch(s, a, b)) = b - a
         /\ ElementsFrom(Stretch(s, a, b), s, a)
<1>1. Len(s) \in Nat /\ s \in [1 .. Len(s) -> T]
  BY LenProperties
<1>2. \A j \in a + 1 .. b : s[j] \in T
  BY <1>1
<1>3. /\ SubSeq(s, a + 1, b) \in Seq(T)
      /\ Len(SubSeq(s, a + 1, b)) = IF a + 1 <= b THEN b - (a + 1) + 1 ELSE 0
      /\ \A j \in 1 .. b - (a + 1) + 1 : SubSeq(s, a + 1, b)[j] = s[(a + 1) + j - 1]
  <2>1. a + 1 \in Int /\ b \in Int
    OBVIOUS
  <2>2. QED BY <1>2, <2>1, SubSeqProperties
<1>4. b - (a + 1) + 1 = b - a /\ \A j \in 1 .. b - a : (a + 1) + j - 1 = a + j
  OBVIOUS
<1> DEFINE p == SubSeq(s, a + 1, b)
<1> HIDE DEF p
<1>5. Len(p) = b - a
  BY <1>3 DEF p
<1>6. QED BY <1>3, <1>4, <1>5 DEF p, Stretch, ElementsFrom

\* n elements of s that follow the first a, and n of w that follow the first c
SameFrom(s, a, w, c, n) == \A j \in 1 .. n : s[a + j] = w[c + j]

LEMMA SameStretch ==
  ASSUME NEW T, NEW s \in Seq(T), NEW w \in Seq(T), NEW a \in Nat, NEW b \in Nat,
         NEW c \in Nat, NEW d \in Nat, a <= b, b <= Len(s), c <= d, d <= Len(w), b - a = d - c,
         SameFrom(s, a, w, c, b - a)
  PROVE  Stretch(s, a, b) = Stretch(w, c, d)
<1> DEFINE p == Stretch(s, a, b)
           q == Stretch(w, c, d)
<1>1. p \in Seq(T) /\ Len(p) = b - a /\ ElementsFrom(p, s, a)
  BY StretchIs
<1>2. q \in Seq(T) /\ Len(q) = b - a /\ ElementsFrom(q, w, c)
  BY StretchIs
<1> HIDE DEF p, q
<1>3. ASSUME NEW j \in 1 .. b - a PROVE p[j] = q[j]
  <2>1. p[j] = s[a + j] /\ q[j] = w[c + j] /\ s[a + j] = w[c + j]
    BY <1>1, <1>2, Zenon DEF SameFrom, ElementsFrom
  <2>2. QED BY <2>1
<1>4. p = q
  BY <1>1, <1>2, <1>3, SeqEqual
<1>5. QED BY <1>4 DEF p, q

\* A stretch of a stretch, and two that meet
LEMMA StretchOfStretch ==
  ASSUME NEW T, NEW s \in Seq(T), NEW a \in Nat, NEW b \in Nat, a <= b, b <= Len(s),
         NEW c \in Nat, NEW d \in Nat, c <= d, a + d <= b
  PROVE  Stretch(Stretch(s, a, b), c, d) = Stretch(s, a + c, a + d)
<1> DEFINE p == Stretch(s, a, b)
<1>1. p \in Seq(T) /\ Len(p) = b - a /\ ElementsFrom(p, s, a)
  BY StretchIs
<1> HIDE DEF p
<1>2. PICK e \in Nat, f \in Nat : e = a + c /\ f = a + d /\ e <= f /\ f <= Len(s) /\ d - c = f - e /\ d <= Len(p)
  BY <1>1
<1>3. SameFrom(p, c, s, e, d - c)
  <2>1. SUFFICES ASSUME NEW j \in 1 .. d - c PROVE p[c + j] = s[e + j]
    BY Zenon DEF SameFrom
  <2>2. PICK k : k = c + j /\ k \in 1 .. Len(p) /\ a + k = e + j
    BY <1>1, <1>2
  <2>3. p[k] = s[a + k]
    BY <1>1, <2>2, Zenon DEF ElementsFrom
  <2>4. QED BY <2>2, <2>3, Zenon
<1>4. Stretch(p, c, d) = Stretch(s, e, f)
  BY ONLY <1>1, <1>2, <1>3, c <= d, s \in Seq(T), c \in Nat, d \in Nat, e \in Nat, f \in Nat, SameStretch
<1>5. QED BY <1>2, <1>4, Zenon DEF p

LEMMA StretchJoin ==
  ASSUME NEW T, NEW s \in Seq(T), NEW a \in Nat, NEW b \in Nat, NEW c \in Nat,
         a <= b, b <= c, c <= Len(s)
  PROVE  Stretch(s, a, b) \o Stretch(s, b, c) = Stretch(s, a, c)
<1> DEFINE p == Stretch(s, a, b)
           q == Stretch(s, b, c)
           w == Stretch(s, a, c)
<1>0. Len(s) \in Nat /\ b <= Len(s)
  <2>1. Len(s) \in Nat
    BY LenProperties
  <2>2. QED BY ONLY <2>1, b \in Nat, c \in Nat, b <= c, c <= Len(s)
<1>1. p \in Seq(T) /\ Len(p) = b - a /\ ElementsFrom(p, s, a)
  BY ONLY <1>0, s \in Seq(T), a \in Nat, b \in Nat, a <= b, StretchIs
<1>2. q \in Seq(T) /\ Len(q) = c - b /\ ElementsFrom(q, s, b)
  BY ONLY s \in Seq(T), b \in Nat, c \in Nat, b <= c, c <= Len(s), StretchIs
<1>3. w \in Seq(T) /\ Len(w) = c - a /\ ElementsFrom(w, s, a)
  <2>1. a <= c
    BY ONLY <1>0, a \in Nat, b \in Nat, c \in Nat, a <= b, b <= c
  <2>2. QED BY ONLY <2>1, s \in Seq(T), a \in Nat, c \in Nat, c <= Len(s), StretchIs
<1> HIDE DEF p, q, w
<1>4. /\ p \o q \in Seq(T) /\ Len(p \o q) = Len(p) + Len(q)
      /\ \A i \in 1 .. Len(p) + Len(q) : (p \o q)[i] = IF i <= Len(p) THEN p[i] ELSE q[i - Len(p)]
  BY <1>1, <1>2, ConcatProperties
<1>5. ASSUME NEW i \in 1 .. Len(w) PROVE (p \o q)[i] = w[i]
  <2>1. w[i] = s[a + i]
    BY <1>3, Zenon DEF ElementsFrom
  <2>2. i \in 1 .. Len(p) + Len(q)
    BY <1>1, <1>2, <1>3
  <2>3. CASE i <= Len(p)
    <3>1. i \in 1 .. Len(p) /\ (p \o q)[i] = p[i]
      BY <1>1, <1>4, <2>2, <2>3
    <3>2. p[i] = s[a + i]
      BY <1>1, <3>1, Zenon DEF ElementsFrom
    <3>3. QED BY <2>1, <3>1, <3>2
  <2>4. CASE ~(i <= Len(p))
    <3>1. PICK k : k = i - Len(p) /\ k \in 1 .. Len(q) /\ b + k = a + i
      BY <1>1, <1>2, <2>2, <2>4
    <3>2. (p \o q)[i] = q[k]
      BY <1>4, <2>2, <2>4, <3>1, Zenon
    <3>3. q[k] = s[b + k]
      BY <1>2, <3>1, Zenon DEF ElementsFrom
    <3>4. QED BY <2>1, <3>1, <3>2, <3>3, Zenon
  <2>5. QED BY <2>3, <2>4
<1>6. Len(p \o q) = Len(w)
  BY <1>1, <1>2, <1>3, <1>4
<1>7. p \o q = w
  BY <1>3, <1>4, <1>5, <1>6, SeqEqual
<1>8. QED BY <1>7 DEF p, q, w

\* The pieces lie one after the other from a place in the text to its end
Lies(ps, from, text) ==
  \E cut \in [0 .. Len(ps) -> Nat] :
    /\ cut[0] = from /\ cut[Len(ps)] = Len(text)
    /\ \A i \in 1 .. Len(ps) : cut[i - 1] <= cut[i] /\ ps[i] = Stretch(text, cut[i - 1], cut[i])

\* No piece goes beyond the end of the text
LEMMA LiesWithin ==
  ASSUME NEW n \in Nat, NEW cut \in [0 .. n -> Nat], NEW top \in Nat, cut[n] = top,
         \A i \in 1 .. n : cut[i - 1] <= cut[i]
  PROVE  \A i \in 0 .. n : cut[i] \in Nat /\ cut[i] <= top
<1> DEFINE A == {k \in Nat : k <= n => cut[n - k] <= top}
<1>1. 0 \in A
  OBVIOUS
<1>2. ASSUME NEW k \in Nat, k \in A PROVE k + 1 \in A
  <2>1. SUFFICES ASSUME k + 1 <= n PROVE cut[n - (k + 1)] <= top
    OBVIOUS
  <2>2. PICK i : i = n - k /\ i \in 1 .. n /\ n - (k + 1) = i - 1 /\ i - 1 \in 0 .. n /\ i \in 0 .. n
    BY <2>1
  <2>3. cut[i] <= top /\ cut[i - 1] <= cut[i] /\ cut[i] \in Nat /\ cut[i - 1] \in Nat
    BY <1>2, <2>1, <2>2
  <2>4. QED BY <2>2, <2>3
<1> HIDE DEF A
<1>3. SUFFICES ASSUME NEW i \in 0 .. n PROVE cut[i] \in Nat /\ cut[i] <= top
  OBVIOUS
<1>4. n - i \in Nat /\ n - (n - i) = i /\ n - i <= n
  OBVIOUS
<1>5. n - i \in A
  BY <1>1, <1>2, <1>4, AllNumbers
<1>6. QED BY <1>4, <1>5 DEF A

LEMMA LiesMore ==
  ASSUME NEW T, NEW s \in Seq(Seq(T)), NEW e \in Seq(T), NEW text \in Seq(T),
         Lies(s, 0, text)
  PROVE  Lies(Append(s, e), 0, text \o e)
<1> DEFINE n == Len(s)
           t == Append(s, e)
           whole == text \o e
<1>1. n \in Nat /\ Len(text) \in Nat /\ Len(e) \in Nat
  BY LenProperties
<1>2. /\ t \in Seq(Seq(T)) /\ Len(t) = n + 1 /\ t[n + 1] = e
      /\ \A i \in 1 .. n : t[i] = s[i]
  BY LenProperties, AppendProperties
<1>3. /\ whole \in Seq(T) /\ Len(whole) = Len(text) + Len(e)
      /\ \A i \in 1 .. Len(text) + Len(e) : whole[i] = IF i <= Len(text) THEN text[i] ELSE e[i - Len(text)]
  BY ConcatProperties
<1>4. PICK cut \in [0 .. n -> Nat] :
        /\ cut[0] = 0 /\ cut[n] = Len(text)
        /\ \A i \in 1 .. n : cut[i - 1] <= cut[i] /\ s[i] = Stretch(text, cut[i - 1], cut[i])
  BY DEF Lies
<1> HIDE DEF n, t, whole
<1> DEFINE new == [i \in 0 .. n + 1 |-> IF i <= n THEN cut[i] ELSE Len(whole)]
<1>5. /\ new \in [0 .. n + 1 -> Nat] /\ new[0] = 0 /\ new[n + 1] = Len(whole)
      /\ \A i \in 0 .. n : new[i] = cut[i]
  BY <1>1, <1>3, <1>4
<1> HIDE DEF new
<1>6. \A i \in 0 .. n : cut[i] \in Nat /\ cut[i] <= Len(text)
  <2>1. cut[n] = Len(text) /\ \A i \in 1 .. n : cut[i - 1] <= cut[i]
    BY <1>4
  <2>2. QED BY <1>1, <2>1, LiesWithin
<1>7. ASSUME NEW i \in 1 .. n + 1
      PROVE  new[i - 1] <= new[i] /\ t[i] = Stretch(whole, new[i - 1], new[i])
  <2>1. CASE i \in 1 .. n
    <3>0. i - 1 \in 0 .. n /\ i \in 0 .. n
      BY <1>1, <2>1
    <3>1. PICK a \in Nat, b \in Nat : a = cut[i - 1] /\ b = cut[i] /\ a <= b /\ b <= Len(text)
                                      /\ s[i] = Stretch(text, a, b)
      BY <1>4, <1>6, <2>1, <3>0, Zenon
    <3>2. new[i - 1] = a /\ new[i] = b /\ t[i] = s[i]
      BY <1>2, <1>5, <2>1, <3>0, <3>1, Zenon
    <3>3. Stretch(text, a, b) = Stretch(whole, a, b)
      <4>1. ASSUME NEW j \in 1 .. b - a PROVE text[a + j] = whole[a + j]
        <5>a. a <= b /\ b <= Len(text)
          BY <3>1, Zenon
        <5>1. a + j \in 1 .. Len(text) + Len(e) /\ a + j <= Len(text)
          BY ONLY <1>1, <5>a, a \in Nat, b \in Nat, j \in 1 .. b - a
        <5>2. QED BY <1>3, <5>1
      <4>c. SameFrom(text, a, whole, a, b - a)
        BY <4>1, Zenon DEF SameFrom
      <4>2. b <= Len(whole)
        BY <1>1, <1>3, <3>1
      <4>a. a <= b /\ b <= Len(text) /\ b - a = b - a
        BY <3>1, Zenon
      <4>b. whole \in Seq(T) /\ text \in Seq(T)
        BY <1>3
      <4>3. QED BY ONLY <4>a, <4>b, <4>c, <4>2, a \in Nat, b \in Nat, SameStretch
    <3>4. QED BY <3>1, <3>2, <3>3
  <2>2. CASE i = n + 1
    <3>1. new[i - 1] = Len(text) /\ new[i] = Len(whole) /\ t[i] = e
      BY <1>1, <1>2, <1>4, <1>5, <2>2
    <3>2. Stretch(whole, Len(text), Len(whole)) = e
      <4> DEFINE p == Stretch(whole, Len(text), Len(whole))
      <4>1. p \in Seq(T) /\ Len(p) = Len(e) /\ \A j \in 1 .. Len(e) : p[j] = whole[Len(text) + j]
        <5>1. Len(whole) \in Nat /\ Len(text) <= Len(whole) /\ Len(whole) - Len(text) = Len(e)
          BY <1>1, <1>3
        <5>a. whole \in Seq(T) /\ Len(text) \in Nat /\ Len(whole) <= Len(whole)
          BY <1>1, <1>3, <5>1
        <5>b. p \in Seq(T) /\ Len(p) = Len(whole) - Len(text) /\ ElementsFrom(p, whole, Len(text))
          BY ONLY <5>1, <5>a, StretchIs
        <5> HIDE DEF p
        <5>2. QED BY <5>1, <5>b DEF ElementsFrom
      <4> HIDE DEF p
      <4>2. ASSUME NEW j \in 1 .. Len(e) PROVE p[j] = e[j]
        <5>1. Len(text) + j \in 1 .. Len(text) + Len(e) /\ ~(Len(text) + j <= Len(text)) /\ (Len(text) + j) - Len(text) = j
          BY <1>1
        <5>2. QED BY <1>3, <4>1, <5>1
      <4>3. p = e
        BY <4>1, <4>2, SeqEqual
      <4>4. QED BY <4>3 DEF p
    <3>3. QED BY <1>1, <1>3, <3>1, <3>2
  <2>3. QED BY <1>1, <2>1, <2>2
<1>8. Lies(t, 0, whole)
  BY <1>2, <1>5, <1>7 DEF Lies
<1>9. QED BY <1>8 DEF t, whole

\* What is flattened lies in the result from its start
LEMMA FlattenLies ==
  ASSUME NEW T, NEW s \in Seq(Seq(T))
  PROVE  Lies(s, 0, FlattenSeq(s))
<1> DEFINE first(k) == SubSeq(s, 1, k)
           A == {k \in Nat : k <= Len(s) => Lies(first(k), 0, FlattenSeq(first(k)))}
<1>1. Len(s) \in Nat /\ \A k \in 0 .. Len(s) : first(k) \in Seq(Seq(T)) /\ Len(first(k)) = k
  <2>1. Len(s) \in Nat
    BY LenProperties
  <2>2. QED BY <2>1
<1>2. 0 \in A
  <2>1. first(0) = <<>> /\ FlattenSeq(<<>>) = <<>> /\ Len(<<>>) = 0
    BY FlattenNone
  <2> DEFINE cut == [i \in 0 .. 0 |-> 0]
  <2>2. cut \in [0 .. 0 -> Nat] /\ cut[0] = 0
    OBVIOUS
  <2> HIDE DEF cut
  <2>3. Lies(<<>>, 0, <<>>)
    BY <2>1, <2>2 DEF Lies
  <2>4. QED BY <2>1, <2>3
<1>3. ASSUME NEW k \in Nat, k \in A PROVE k + 1 \in A
  <2>1. SUFFICES ASSUME k + 1 <= Len(s) PROVE Lies(first(k + 1), 0, FlattenSeq(first(k + 1)))
    OBVIOUS
  <2>2. first(k + 1) = Append(first(k), s[k + 1])
    BY <1>1, <2>1
  <2>3. s[k + 1] \in Seq(T) /\ first(k) \in Seq(Seq(T))
    BY <1>1, <2>1, ElementOfSeq
  <2>4. Lies(first(k), 0, FlattenSeq(first(k)))
    BY <1>1, <1>3, <2>1
  <2> HIDE DEF first
  <2>5. FlattenSeq(first(k)) \in Seq(T)
    BY <2>3, FlattenRange
  <2>6. FlattenSeq(Append(first(k), s[k + 1])) = FlattenSeq(first(k)) \o s[k + 1]
    BY <2>3, FlattenAppend
  <2>7. Lies(Append(first(k), s[k + 1]), 0, FlattenSeq(first(k)) \o s[k + 1])
    BY <2>3, <2>4, <2>5, LiesMore
  <2>8. QED BY <2>2, <2>6, <2>7
<1>4. Lies(first(Len(s)), 0, FlattenSeq(first(Len(s))))
  <2>1. Len(s) \in A
    <3> HIDE DEF A
    <3>1. QED BY <1>1, <1>2, <1>3, AllNumbers
  <2>2. QED BY <1>1, <2>1
<1>5. first(Len(s)) = s
  BY SubSeqFull
<1>6. QED BY <1>4, <1>5

\* Nothing is left of the text when there is no piece
LEMMA LiesNone ==
  ASSUME NEW text, NEW from, Lies(<<>>, from, text)
  PROVE  from = Len(text)
<1>1. Len(<<>>) = 0
  OBVIOUS
<1>2. QED BY <1>1 DEF Lies

\* Taking k elements of the first piece
Rest(ps, k) == IF k = Len(ps[1]) THEN Tail(ps)
               ELSE <<SubSeq(ps[1], k + 1, Len(ps[1]))>> \o Tail(ps)

LEMMA LiesTaken ==
  ASSUME NEW T, NEW text \in Seq(T), NEW ps \in Seq(Seq(T)), ps # <<>>, NEW from \in Nat,
         Lies(ps, from, text), NEW k \in Nat, k <= Len(ps[1])
  PROVE  /\ from + k <= Len(text) /\ SubSeq(ps[1], 1, k) = Stretch(text, from, from + k)
         /\ Rest(ps, k) \in Seq(Seq(T)) /\ Lies(Rest(ps, k), from + k, text)
<1> DEFINE n == Len(ps)
           p == ps[1]
           f == from + k
<1>1. n \in Nat /\ n >= 1 /\ Len(text) \in Nat /\ p \in Seq(T) /\ f \in Nat
  <2>1. n \in Nat /\ n # 0
    BY EmptySeq, LenProperties
  <2>2. 1 \in 1 .. n
    BY <2>1
  <2>3. p \in Seq(T)
    BY <2>2, ElementOfSeq
  <2>4. QED BY <2>1, <2>3
<1>2. PICK cut \in [0 .. n -> Nat] :
        /\ cut[0] = from /\ cut[n] = Len(text)
        /\ \A i \in 1 .. n : cut[i - 1] <= cut[i] /\ ps[i] = Stretch(text, cut[i - 1], cut[i])
  BY DEF Lies
<1>3. \A i \in 0 .. n : cut[i] \in Nat /\ cut[i] <= Len(text)
  <2>1. cut[n] = Len(text) /\ \A i \in 1 .. n : cut[i - 1] <= cut[i]
    BY <1>2
  <2> HIDE DEF n
  <2>2. QED BY <1>1, <2>1, LiesWithin
<1>4. PICK c \in Nat : c = cut[1] /\ from <= c /\ c <= Len(text) /\ p = Stretch(text, from, c)
  <2>1. 1 \in 1 .. n /\ 1 \in 0 .. n /\ 1 - 1 = 0
    BY <1>1
  <2>2. cut[1] \in Nat /\ cut[1] <= Len(text)
    BY <1>3, <2>1, Zenon
  <2>3. from <= cut[1] /\ p = Stretch(text, from, cut[1])
    BY <1>2, <2>1
  <2>4. QED BY <2>2, <2>3
<1> HIDE DEF p
<1>5. Len(p) = c - from /\ k <= Len(p) /\ f <= c /\ f <= Len(text)
  <2>1. Len(p) = c - from
    BY <1>4, StretchIs
  <2>2. k <= Len(p)
    BY DEF p
  <2>3. QED BY <1>1, <1>4, <2>1, <2>2
<1>6. SubSeq(p, 1, k) = Stretch(text, from, f)
  <2>1. Stretch(p, 0, k) = Stretch(text, from + 0, from + k)
    <3>1. 0 \in Nat /\ 0 <= k /\ from + k <= c
      BY <1>5
    <3>2. QED BY ONLY <1>4, <3>1, text \in Seq(T), from \in Nat, c \in Nat, k \in Nat, StretchOfStretch
  <2>2. 0 + 1 = 1 /\ from + 0 = from
    OBVIOUS
  <2>3. QED BY <2>1, <2>2 DEF Stretch
<1>7. Tail(ps) \in Seq(Seq(T)) /\ Len(Tail(ps)) = n - 1 /\ \A i \in 1 .. n - 1 : Tail(ps)[i] = ps[i + 1]
  BY HeadTailProperties
<1>8. CASE k = Len(p)
  <2> DEFINE r == Tail(ps)
             new == [i \in 0 .. n - 1 |-> cut[i + 1]]
  <2>1. r \in Seq(Seq(T)) /\ Len(r) = n - 1 /\ \A i \in 1 .. n - 1 : r[i] = ps[i + 1]
    BY <1>7
  <2>2. new \in [0 .. n - 1 -> Nat] /\ \A i \in 0 .. n - 1 : new[i] = cut[i + 1]
    BY <1>1
  <2> HIDE DEF r, new, n
  <2>3. new[0] = f /\ new[n - 1] = Len(text)
    <3>1. 0 \in 0 .. n - 1 /\ 0 + 1 = 1 /\ n - 1 \in 0 .. n - 1 /\ (n - 1) + 1 = n
      BY <1>1
    <3>2. new[0] = cut[1] /\ new[n - 1] = cut[n]
      BY <2>2, <3>1, Zenon
    <3>3. cut[1] = f
      BY <1>4, <1>5, <1>8
    <3>4. QED BY <1>2, <3>2, <3>3
  <2>4. ASSUME NEW i \in 1 .. n - 1
        PROVE  new[i - 1] <= new[i] /\ r[i] = Stretch(text, new[i - 1], new[i])
    <3>1. PICK j : j = i + 1 /\ j \in 1 .. n /\ j - 1 = i /\ i \in 0 .. n - 1 /\ i - 1 \in 0 .. n - 1 /\ (i - 1) + 1 = i
      BY <1>1
    <3>2. cut[j - 1] <= cut[j] /\ ps[j] = Stretch(text, cut[j - 1], cut[j])
      BY <1>2, <3>1, Zenon
    <3>3. new[i - 1] = cut[j - 1] /\ new[i] = cut[j] /\ r[i] = ps[j]
      BY <2>1, <2>2, <3>1, Zenon
    <3>4. QED BY <3>2, <3>3, Zenon
  <2>5. Lies(r, f, text)
    BY <2>1, <2>2, <2>3, <2>4 DEF Lies
  <2>6. Rest(ps, k) = r
    BY <1>8 DEF Rest, r, p
  <2>7. QED BY <1>5, <1>6, <2>1, <2>5, <2>6 DEF p
<1>9. CASE k # Len(p)
  <2> DEFINE e == SubSeq(p, k + 1, Len(p))
             r == <<e>> \o Tail(ps)
             new == [cut EXCEPT ![0] = f]
  <2>1. e \in Seq(T) /\ e = Stretch(text, f, c)
    <3>1. PICK d \in Nat : d = Len(p) /\ k <= d /\ from + d = c
      BY <1>4, <1>5
    <3>2. Stretch(p, k, d) = Stretch(text, from + k, from + d)
      <4>1. k <= d /\ from + d <= c
        BY <3>1
      <4>2. QED BY ONLY <1>4, <4>1, text \in Seq(T), from \in Nat, c \in Nat, k \in Nat, d \in Nat, StretchOfStretch
    <3>3. e = Stretch(text, f, c)
      BY <3>1, <3>2 DEF Stretch
    <3>4. Stretch(text, f, c) \in Seq(T)
      <4>1. f \in Nat /\ f <= c /\ c <= Len(text)
        BY <1>1, <1>4, <1>5
      <4> HIDE DEF f
      <4>2. QED BY ONLY <4>1, text \in Seq(T), c \in Nat, StretchIs
    <3>5. QED BY <3>3, <3>4
  <2> HIDE DEF e
  <2>2. <<e>> \in Seq(Seq(T)) /\ Len(<<e>>) = 1 /\ <<e>>[1] = e
    BY <2>1
  <2>3. /\ r \in Seq(Seq(T)) /\ Len(r) = 1 + (n - 1)
        /\ \A i \in 1 .. 1 + (n - 1) : r[i] = IF i <= 1 THEN <<e>>[i] ELSE Tail(ps)[i - 1]
    <3>1. Tail(ps) \in Seq(Seq(T)) /\ Len(Tail(ps)) = n - 1
      BY <1>7
    <3>2. QED BY <2>2, <3>1, ConcatProperties
  <2>4. new \in [0 .. n -> Nat] /\ new[0] = f /\ \A i \in 1 .. n : new[i] = cut[i]
    <3> HIDE DEF f, n
    <3>1. QED BY <1>1
  <2>5. 1 + (n - 1) = n
    BY <1>1
  <2> HIDE DEF r, new, n, f
  <2>6. ASSUME NEW i \in 1 .. n
        PROVE  new[i - 1] <= new[i] /\ r[i] = Stretch(text, new[i - 1], new[i])
    <3>1. CASE i = 1
      <4>1. new[i - 1] = f /\ new[i] = c /\ r[i] = e
        BY <1>1, <1>4, <2>2, <2>3, <2>4, <2>5, <3>1
      <4>2. QED BY <1>1, <1>4, <1>5, <2>1, <4>1
    <3>2. CASE i # 1
      <4>1. PICK j : j = i - 1 /\ j \in 1 .. n /\ j \in 1 .. n - 1 /\ j + 1 = i /\ ~(i <= 1)
        BY <1>1, <3>2
      <4>2. new[j] = cut[j] /\ new[i] = cut[i] /\ cut[i - 1] <= cut[i] /\ ps[i] = Stretch(text, cut[i - 1], cut[i])
        BY <1>2, <2>4, <4>1, Zenon
      <4>3. r[i] = Tail(ps)[j] /\ Tail(ps)[j] = ps[i]
        BY <1>7, <2>3, <2>5, <4>1, Zenon DEF n
      <4>4. QED BY <4>1, <4>2, <4>3, Zenon
    <3>3. QED BY <3>1, <3>2
  <2>7. new[n] = Len(text)
    BY <1>1, <1>2, <2>4
  <2>8. Lies(r, f, text)
    BY <2>3, <2>4, <2>5, <2>6, <2>7 DEF Lies
  <2>9. Rest(ps, k) = r
    BY <1>9 DEF Rest, r, p, e
  <2>10. QED BY <1>5, <1>6, <2>3, <2>8, <2>9 DEF p, f
<1>10. QED BY <1>8, <1>9
-----------------------------------------------------------------------------
(* Sequences of numbers in order.                                            *)

\* In order, above lo and up to hi
Ordered(s, lo, hi) ==
  /\ s \in Seq(Int) /\ \A j \in 1 .. Len(s) : lo < s[j] /\ s[j] <= hi
  /\ \A j \in 2 .. Len(s) : s[j - 1] < s[j]

LEMMA OrderedAppend ==
  ASSUME NEW s, NEW lo \in Int, NEW hi \in Int, Ordered(s, lo, hi), NEW p \in Int, lo < p, hi < p
  PROVE  Ordered(Append(s, p), lo, p) /\ Len(Append(s, p)) = Len(s) + 1
<1>1. /\ s \in Seq(Int) /\ Len(s) \in Nat /\ \A j \in 1 .. Len(s) : s[j] \in Int /\ lo < s[j] /\ s[j] <= hi
      /\ \A j \in 2 .. Len(s) : s[j - 1] < s[j]
  BY DEF Ordered
<1> DEFINE u == Append(s, p)
<1>2. u \in Seq(Int) /\ Len(u) = Len(s) + 1 /\ u[Len(s) + 1] = p /\ \A j \in 1 .. Len(s) : u[j] = s[j]
  BY <1>1
<1> HIDE DEF u
<1>3. ASSUME NEW j \in 1 .. Len(u) PROVE lo < u[j] /\ u[j] <= p
  <2>1. j \in 1 .. Len(s) \/ j = Len(s) + 1
    BY <1>1, <1>2
  <2>2. QED BY <1>1, <1>2, <2>1
<1>4. ASSUME NEW j \in 2 .. Len(u) PROVE u[j - 1] < u[j]
  <2>1. CASE j = Len(s) + 1
    <3>1. j - 1 \in 1 .. Len(s)
      BY <1>1, <2>1
    <3>2. QED BY <1>1, <1>2, <2>1, <3>1
  <2>2. CASE j # Len(s) + 1
    <3>1. j \in 2 .. Len(s) /\ j \in 1 .. Len(s) /\ j - 1 \in 1 .. Len(s)
      BY <1>1, <1>2, <2>2
    <3>2. QED BY <1>1, <1>2, <3>1
  <2>3. QED BY <2>1, <2>2
<1>5. QED BY <1>2, <1>3, <1>4 DEF u, Ordered

LEMMA OrderedJoin ==
  ASSUME NEW s, NEW t, NEW lo \in Int, NEW mid \in Int, NEW hi \in Int,
         Ordered(s, lo, mid), Ordered(t, mid, hi), lo <= mid, mid <= hi
  PROVE  Ordered(s \o t, lo, hi) /\ Len(s \o t) = Len(s) + Len(t)
<1>1. /\ s \in Seq(Int) /\ Len(s) \in Nat /\ \A j \in 1 .. Len(s) : s[j] \in Int /\ lo < s[j] /\ s[j] <= mid
      /\ \A j \in 2 .. Len(s) : s[j - 1] < s[j]
  BY DEF Ordered
<1>2. /\ t \in Seq(Int) /\ Len(t) \in Nat /\ \A j \in 1 .. Len(t) : t[j] \in Int /\ mid < t[j] /\ t[j] <= hi
      /\ \A j \in 2 .. Len(t) : t[j - 1] < t[j]
  BY DEF Ordered
<1> DEFINE u == s \o t
<1>3. /\ u \in Seq(Int) /\ Len(u) = Len(s) + Len(t) /\ \A j \in 1 .. Len(s) : u[j] = s[j]
      /\ \A j \in 1 .. Len(t) : u[Len(s) + j] = t[j]
  BY <1>1, <1>2
<1> HIDE DEF u
<1>4. \A j \in 1 .. Len(u) : j \in 1 .. Len(s) \/ \E i \in 1 .. Len(t) : j = Len(s) + i
  <2>1. ASSUME NEW j \in 1 .. Len(u), j \notin 1 .. Len(s) PROVE \E i \in 1 .. Len(t) : j = Len(s) + i
    <3>1. j - Len(s) \in 1 .. Len(t) /\ j = Len(s) + (j - Len(s))
      BY <1>1, <1>2, <1>3, <2>1
    <3>2. QED BY <3>1
  <2>2. QED BY <2>1
<1>5. ASSUME NEW j \in 1 .. Len(u) PROVE lo < u[j] /\ u[j] <= hi
  <2>1. CASE j \in 1 .. Len(s)
    <3>1. u[j] = s[j] /\ s[j] \in Int /\ lo < s[j] /\ s[j] <= mid
      BY <1>1, <1>3, <2>1, Zenon
    <3>2. QED BY <3>1
  <2>2. ASSUME NEW i \in 1 .. Len(t), j = Len(s) + i PROVE lo < u[j] /\ u[j] <= hi
    BY <1>2, <1>3, <2>2
  <2>3. QED BY <1>4, <2>1, <2>2
<1>6. ASSUME NEW j \in 2 .. Len(u) PROVE u[j - 1] < u[j]
  <2>1. j \in 1 .. Len(u)
    BY <1>1, <1>2, <1>3
  <2>2. CASE j \in 1 .. Len(s)
    <3>1. j \in 2 .. Len(s) /\ j - 1 \in 1 .. Len(s)
      BY <1>1, <2>2
    <3>2. u[j] = s[j] /\ u[j - 1] = s[j - 1]
      BY <1>3, <2>2, <3>1, Zenon
    <3>3. s[j - 1] < s[j]
      BY <1>1, <3>1, Zenon
    <3>4. QED BY <3>2, <3>3
  <2>3. ASSUME NEW i \in 1 .. Len(t), j = Len(s) + i, i = 1 PROVE u[j - 1] < u[j]
    <3>1. j - 1 = Len(s) /\ j - 1 \in 1 .. Len(s)
      BY <1>1, <2>3
    <3>2. u[j - 1] = s[j - 1] /\ s[j - 1] \in Int /\ s[j - 1] <= mid
      BY <1>1, <1>3, <3>1
    <3>3. u[j] = t[i] /\ t[i] \in Int /\ mid < t[i]
      BY <1>2, <1>3, <2>3
    <3>4. QED BY <3>2, <3>3
  <2>4. ASSUME NEW i \in 1 .. Len(t), j = Len(s) + i, i # 1 PROVE u[j - 1] < u[j]
    <3>1. i \in 2 .. Len(t) /\ i - 1 \in 1 .. Len(t) /\ j - 1 = Len(s) + (i - 1)
      BY <1>1, <1>2, <2>4
    <3>2. u[j - 1] = t[i - 1]
      BY <1>3, <3>1, Zenon
    <3>3. u[j] = t[i]
      BY <1>3, <2>4, Zenon
    <3>4. QED BY <1>2, <3>1, <3>2, <3>3
  <2>5. QED BY <1>4, <2>1, <2>2, <2>3, <2>4
<1>7. QED BY <1>3, <1>5, <1>6 DEF u, Ordered

LEMMA OrderedWider ==
  ASSUME NEW s, NEW lo \in Int, NEW hi \in Int, NEW l \in Int, NEW h \in Int,
         Ordered(s, lo, hi), l <= lo, Len(s) = 0 \/ hi <= h
  PROVE  Ordered(s, l, h)
BY DEF Ordered

LEMMA OrderedNone ==
  ASSUME NEW s \in Seq(Int), Len(s) = 0, NEW lo \in Int, NEW hi \in Int
  PROVE  Ordered(s, lo, hi)
BY DEF Ordered

LEMMA OrderedPairs ==
  ASSUME NEW s, NEW lo \in Int, NEW hi \in Int, Ordered(s, lo, hi), NEW i \in 1 .. Len(s), NEW j \in 1 .. Len(s), i < j
  PROVE  s[i] < s[j]
<1>1. /\ Len(s) \in Nat /\ \A x \in 1 .. Len(s) : s[x] \in Int
      /\ \A x \in 2 .. Len(s) : s[x - 1] < s[x]
  BY DEF Ordered
<1>2. PICK n \in Nat : n = Len(s)
  BY <1>1
<1> DEFINE A == {d \in Nat : \A x \in 1 .. n : x + d + 1 <= n => s[x] < s[x + d + 1]}
<1>3. 0 \in A
  <2>1. ASSUME NEW x \in 1 .. n, x + 0 + 1 <= n PROVE s[x] < s[x + 0 + 1]
    <3>1. PICK y \in 2 .. n : y = x + 0 + 1 /\ y - 1 = x
      BY <2>1
    <3>2. QED BY <1>1, <1>2, <3>1
  <2>2. QED BY <2>1
<1>4. ASSUME NEW d \in Nat, d \in A PROVE d + 1 \in A
  <2>1. ASSUME NEW x \in 1 .. n, x + (d + 1) + 1 <= n PROVE s[x] < s[x + (d + 1) + 1]
    <3>1. PICK y \in 2 .. n : y = x + (d + 1) + 1 /\ y - 1 = x + d + 1 /\ y - 1 \in 1 .. n
      BY <2>1
    <3>2. s[x] < s[y - 1]
      BY <1>4, <3>1
    <3>3. s[y - 1] < s[y] /\ s[x] \in Int /\ s[y] \in Int /\ s[y - 1] \in Int
      BY <1>1, <1>2, <3>1
    <3>4. s[x] < s[y]
      BY <3>2, <3>3
    <3>5. QED BY <3>1, <3>4, Zenon
  <2>2. QED BY <2>1
<1> HIDE DEF A
<1>5. PICK d \in Nat : i + d + 1 = j
  <2>1. j - i - 1 \in Nat /\ i + (j - i - 1) + 1 = j
    BY <1>1
  <2>2. QED BY <2>1
<1>6. d \in A
  BY <1>3, <1>4, AllNumbers
<1>7. i + d + 1 <= n /\ i \in 1 .. n
  BY <1>2, <1>5
<1>8. QED BY <1>5, <1>6, <1>7, Zenon DEF A

-----------------------------------------------------------------------------
(* Sums over a sequence of matches, of one field or of two.                  *)

\* Bytes the matches stand for, and with the literals before them
LenSum(ms) == FoldLeft(LAMBDA sum, m : sum + m.len, 0, ms)
WaySum(ms) == FoldLeft(LAMBDA sum, m : sum + m.lit_len + m.len, 0, ms)

LenFolded(it, ms, s) == IF s = {} THEN 0 ELSE it[s \ {Max(s)}] + ms[Max(s)].len
LenFold(ms) == CHOOSE it : it = [s \in SUBSET DOMAIN ms |-> LenFolded(it, ms, s)]
WayFolded(it, ms, s) == IF s = {} THEN 0 ELSE it[s \ {Max(s)}] + ms[Max(s)].lit_len + ms[Max(s)].len
WayFold(ms) == CHOOSE it : it = [s \in SUBSET DOMAIN ms |-> WayFolded(it, ms, s)]

LEMMA LenIs == \A ms : LenSum(ms) = LenFold(ms)[DOMAIN ms]
BY DEF LenSum, FoldLeft, MapThenFoldSet, LenFold, LenFolded

LEMMA WayIs == \A ms : WaySum(ms) = WayFold(ms)[DOMAIN ms]
BY DEF WaySum, FoldLeft, MapThenFoldSet, WayFold, WayFolded

FoundMatches == [lit_len : Int, offset : Int, len : Int]

LEMMA LenGrows ==
  ASSUME NEW ms, NEW n \in Nat, DOMAIN ms = 1 .. n, NEW g, \A i \in 1 .. n : g[i] = ms[i].len /\ g[i] \in Int
  PROVE  GrowsBy(LenFold(ms), g, n)
<1>1. DOMAIN ms = 1 .. n /\ \A i \in 1 .. n : g[i] = ms[i].len /\ g[i] \in Int
  OBVIOUS
<1>2. PICK f \in [SUBSET (1 .. n) -> Int] : GrowOn(f, g, n)
  BY <1>1, GrowExists
<1>3. \A z : \A s \in SUBSET (1 .. n) :
        LenFolded(z, ms, s) = IF s = {} THEN 0 ELSE z[s \ {Max(s)}] + g[Max(s)]
  <2>1. ASSUME NEW z, NEW s \in SUBSET (1 .. n)
        PROVE  LenFolded(z, ms, s) = IF s = {} THEN 0 ELSE z[s \ {Max(s)}] + g[Max(s)]
    <3>1. CASE s = {}
      BY <3>1, Zenon DEF LenFolded
    <3>2. CASE s # {}
      <4>1. Max(s) \in 1 .. n
        BY <3>2, SomeMax
      <4>2. g[Max(s)] = ms[Max(s)].len
        BY <1>1, <4>1, Zenon
      <4>3. QED BY <3>2, <4>2, Zenon DEF LenFolded
    <3>3. QED BY <3>1, <3>2
  <2>2. QED BY <2>1
<1>4. f = [s \in SUBSET DOMAIN ms |-> LenFolded(f, ms, s)]
  <2>1. f = [s \in SUBSET (1 .. n) |-> f[s]]
    BY Zenon
  <2>2. ASSUME NEW s \in SUBSET (1 .. n) PROVE f[s] = LenFolded(f, ms, s)
    BY <1>2, <1>3, Zenon DEF GrowOn
  <2>3. QED BY <1>1, <2>1, <2>2, Zenon
<1>5. PICK z : z = LenFold(ms)
  OBVIOUS
<1>6. z = [s \in SUBSET DOMAIN ms |-> LenFolded(z, ms, s)]
  BY <1>4, <1>5, Zenon DEF LenFold
<1>7. ASSUME NEW s \in SUBSET (1 .. n)
      PROVE  z[s] = IF s = {} THEN 0 ELSE z[s \ {Max(s)}] + g[Max(s)]
  <2>1. z[s] = LenFolded(z, ms, s)
    BY <1>1, <1>6, Zenon
  <2>2. QED BY <1>3, <2>1, Zenon
<1>8. GrowOn(z, g, n)
  BY <1>7, Zenon DEF GrowOn
<1>9. QED BY <1>5, <1>8, GrowRun

LEMMA WayGrows ==
  ASSUME NEW ms, NEW n \in Nat, DOMAIN ms = 1 .. n, NEW g,
         \A i \in 1 .. n : ms[i] \in FoundMatches /\ g[i] = ms[i].lit_len + ms[i].len
  PROVE  GrowsBy(WayFold(ms), g, n)
<1>1. DOMAIN ms = 1 .. n /\ \A i \in 1 .. n : ms[i] \in FoundMatches /\ g[i] = ms[i].lit_len + ms[i].len
  OBVIOUS
<1>2. \A i \in 1 .. n : ms[i].lit_len \in Int /\ ms[i].len \in Int /\ g[i] \in Int
  BY <1>1 DEF FoundMatches
<1>3. PICK f \in [SUBSET (1 .. n) -> Int] : GrowOn(f, g, n)
  BY <1>2, GrowExists
<1>4. ASSUME NEW s \in SUBSET (1 .. n) PROVE f[s] = WayFolded(f, ms, s)
  <2>1. f[s] = IF s = {} THEN 0 ELSE f[s \ {Max(s)}] + g[Max(s)]
    BY <1>3, Zenon DEF GrowOn
  <2>2. CASE s = {}
    BY <2>1, <2>2, Zenon DEF WayFolded
  <2>3. CASE s # {}
    <3>1. Max(s) \in s /\ s \ {Max(s)} \in SUBSET (1 .. n)
      BY <2>3, SomeMax
    <3>2. PICK i, r : i = Max(s) /\ r = s \ {Max(s)} /\ i \in 1 .. n /\ r \in SUBSET (1 .. n)
      BY <3>1
    <3>3. PICK x \in Int : x = f[r]
      BY <3>2
    <3>4. PICK y \in Int, z \in Int : y = ms[i].lit_len /\ z = ms[i].len /\ g[i] = y + z
      BY <1>1, <1>2, <3>2
    <3>5. f[s] = x + (y + z)
      BY <2>1, <2>3, <3>2, <3>3, <3>4, Zenon
    <3>6. WayFolded(f, ms, s) = x + y + z
      BY <2>3, <3>2, <3>3, <3>4, Zenon DEF WayFolded
    <3>7. x + (y + z) = x + y + z
      OBVIOUS
    <3>8. QED BY <3>5, <3>6, <3>7, Zenon
  <2>4. QED BY <2>2, <2>3
<1>5. f = [s \in SUBSET DOMAIN ms |-> WayFolded(f, ms, s)]
  <2>1. f = [s \in SUBSET (1 .. n) |-> f[s]]
    BY Zenon
  <2>2. QED BY <1>1, <1>4, <2>1, Zenon
<1>6. PICK z : z = WayFold(ms)
  OBVIOUS
<1>7. z = [s \in SUBSET DOMAIN ms |-> WayFolded(z, ms, s)]
  BY <1>5, <1>6, Zenon DEF WayFold
<1>8. \A s \in SUBSET (1 .. n) : z[s] = WayFolded(z, ms, s)
  BY <1>1, <1>7, Zenon
<1>9. z[1 .. 0] = 0
  <2>1. 1 .. 0 \in SUBSET (1 .. n) /\ 1 .. 0 = {}
    OBVIOUS
  <2>2. QED BY <1>8, <2>1, Zenon DEF WayFolded
<1>10. ASSUME NEW i \in 1 .. n PROVE z[1 .. i] = z[1 .. i - 1] + ms[i].lit_len + ms[i].len
  <2>1. i \in 0 .. n /\ i # 0
    OBVIOUS
  <2>2. 1 .. i \in SUBSET (1 .. n) /\ Max(1 .. i) = i /\ (1 .. i) \ {i} = 1 .. i - 1 /\ 1 .. i # {}
    BY <2>1, PlacesIs
  <2>3. z[1 .. i] = WayFolded(z, ms, 1 .. i)
    BY <1>8, <2>2, Zenon
  <2>4. QED BY <2>2, <2>3, Zenon DEF WayFolded
<1> DEFINE A == {i \in Nat : i <= n => z[1 .. i] \in Int}
<1>11. 0 \in A
  BY <1>9
<1>12. ASSUME NEW i \in Nat, i \in A PROVE i + 1 \in A
  <2>1. SUFFICES ASSUME i + 1 <= n PROVE z[1 .. i + 1] \in Int
    OBVIOUS
  <2>2. z[1 .. i] \in Int
    BY <1>12, <2>1
  <2>3. PICK j : j = i + 1 /\ j \in 1 .. n /\ j - 1 = i
    BY <2>1
  <2>4. z[1 .. j] = z[1 .. j - 1] + ms[j].lit_len + ms[j].len
    BY <1>10, <2>3, Zenon
  <2>5. z[1 .. j - 1] \in Int /\ ms[j].lit_len \in Int /\ ms[j].len \in Int
    BY <1>2, <2>2, <2>3, Zenon
  <2>6. z[1 .. j] \in Int
    BY <2>4, <2>5
  <2>7. QED BY <2>3, <2>6, Zenon
<1> HIDE DEF A
<1>13. \A i \in Nat : i \in A
  BY <1>11, <1>12, AllNumbers
<1>14. ASSUME NEW i \in 1 .. n PROVE z[1 .. i] = z[1 .. i - 1] + g[i]
  <2>1. PICK j \in Nat : j = i - 1 /\ j \in A /\ j <= n
    BY <1>13
  <2>2. PICK x \in Int : x = z[1 .. i - 1]
    BY <2>1 DEF A
  <2>3. PICK y \in Int, u \in Int : y = ms[i].lit_len /\ u = ms[i].len /\ g[i] = y + u
    BY <1>1, <1>2
  <2>4. z[1 .. i] = x + y + u
    BY <1>10, <2>2, <2>3, Zenon
  <2>5. x + y + u = x + (y + u)
    OBVIOUS
  <2>6. QED BY <2>2, <2>3, <2>4, <2>5, Zenon
<1>15. QED BY <1>6, <1>9, <1>14, Zenon DEF GrowsBy

\* One more match
LEMMA SumsAppend ==
  ASSUME NEW ms \in Seq(FoundMatches), NEW m \in FoundMatches
  PROVE  /\ LenSum(ms) \in Int /\ LenSum(Append(ms, m)) = LenSum(ms) + m.len
         /\ WaySum(ms) \in Int /\ WaySum(Append(ms, m)) = WaySum(ms) + (m.lit_len + m.len)
<1>1. PICK n \in Nat : n = Len(ms) /\ DOMAIN ms = 1 .. n /\ \A i \in 1 .. n : ms[i] \in FoundMatches
  OBVIOUS
<1>2. PICK u : u = Append(ms, m)
  OBVIOUS
<1>3. DOMAIN u = 1 .. n + 1 /\ u[n + 1] = m /\ \A i \in 1 .. n : u[i] = ms[i]
  BY <1>1, <1>2
<1>4. \A i \in 1 .. n + 1 : u[i] \in FoundMatches
  BY <1>1, <1>3
<1>5. \A x \in FoundMatches : x.len \in Int /\ x.lit_len \in Int
  BY DEF FoundMatches
<1>6. n + 1 \in Nat /\ n + 1 \in 1 .. n + 1 /\ 1 .. n \subseteq 1 .. n + 1
  OBVIOUS
<1>7. LenSum(ms) \in Int /\ LenSum(u) = LenSum(ms) + m.len
  <2> DEFINE g == [i \in 1 .. n |-> ms[i].len]
             h == [i \in 1 .. n + 1 |-> u[i].len]
  <2>1. \A i \in 1 .. n : g[i] = ms[i].len /\ g[i] \in Int
    BY <1>1, <1>5
  <2>2. \A i \in 1 .. n + 1 : h[i] = u[i].len /\ h[i] \in Int
    BY <1>4, <1>5
  <2>3. \A i \in 1 .. n : g[i] = h[i] /\ g[i] \in Int
    BY <1>3, <1>6, <2>1, <2>2
  <2>4. h[n + 1] = m.len
    BY <1>3, <1>6, <2>2
  <2> HIDE DEF g, h
  <2>5. GrowsBy(LenFold(ms), g, n)
    BY <1>1, <2>1, LenGrows
  <2>6. GrowsBy(LenFold(u), h, n + 1)
    BY <1>3, <1>6, <2>2, LenGrows
  <2>7. LenFold(ms)[1 .. n] \in Int /\ LenFold(u)[1 .. n + 1] = LenFold(ms)[1 .. n] + h[n + 1]
    BY <2>3, <2>5, <2>6, GrowMore
  <2>8. QED BY <1>1, <1>3, <2>4, <2>7, LenIs, Zenon
<1>8. WaySum(ms) \in Int /\ WaySum(u) = WaySum(ms) + (m.lit_len + m.len)
  <2> DEFINE g == [i \in 1 .. n |-> ms[i].lit_len + ms[i].len]
             h == [i \in 1 .. n + 1 |-> u[i].lit_len + u[i].len]
  <2>1. \A i \in 1 .. n : ms[i] \in FoundMatches /\ g[i] = ms[i].lit_len + ms[i].len
    BY <1>1
  <2>2. \A i \in 1 .. n + 1 : u[i] \in FoundMatches /\ h[i] = u[i].lit_len + u[i].len
    BY <1>4
  <2>3. \A i \in 1 .. n : g[i] = h[i] /\ g[i] \in Int
    <3>1. \A i \in 1 .. n : g[i] = h[i]
      BY <1>3, <1>6, <2>1, <2>2
    <3>2. \A i \in 1 .. n : ms[i].lit_len \in Int /\ ms[i].len \in Int
      BY <1>1, <1>5
    <3> HIDE DEF g, h
    <3>3. ASSUME NEW i \in 1 .. n PROVE g[i] \in Int
      <4>1. PICK x \in Int, y \in Int : x = ms[i].lit_len /\ y = ms[i].len
        BY <3>2
      <4>2. g[i] = x + y
        BY <2>1, <4>1, Zenon
      <4>3. QED BY <4>2
    <3>4. QED BY <3>1, <3>3
  <2>4. h[n + 1] = m.lit_len + m.len
    BY <1>3, <1>6, <2>2
  <2> HIDE DEF g, h
  <2>5. GrowsBy(WayFold(ms), g, n)
    BY <1>1, <2>1, WayGrows
  <2>6. GrowsBy(WayFold(u), h, n + 1)
    BY <1>3, <1>6, <2>2, WayGrows
  <2>7. WayFold(ms)[1 .. n] \in Int /\ WayFold(u)[1 .. n + 1] = WayFold(ms)[1 .. n] + h[n + 1]
    BY <2>3, <2>5, <2>6, GrowMore
  <2>8. QED BY <1>1, <1>3, <2>4, <2>7, WayIs, Zenon
<1>9. QED BY <1>2, <1>7, <1>8

LEMMA SumsNone == LenSum(<<>>) = 0 /\ WaySum(<<>>) = 0
<1>1. PICK ms, g, n : n \in Nat /\ ms = <<>> /\ n = 0
  OBVIOUS
<1>2. n \in Nat /\ DOMAIN ms = 1 .. n /\ 1 .. n = 1 .. 0 /\ \A i \in 1 .. n : FALSE
  BY <1>1
<1>3. GrowsBy(LenFold(ms), g, n) /\ GrowsBy(WayFold(ms), g, n)
  BY <1>2, LenGrows, WayGrows
<1>4. LenFold(ms)[1 .. 0] = 0 /\ WayFold(ms)[1 .. 0] = 0
  BY <1>3, Zenon DEF GrowsBy
<1>5. QED BY <1>1, <1>2, <1>4, LenIs, WayIs, Zenon
=============================================================================
