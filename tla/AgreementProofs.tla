--------------------------- MODULE AgreementProofs ---------------------------
(***************************************************************************)
(* What is proved of the parts that Agreement puts side by side.           *)
(***************************************************************************)
EXTENDS Agreement, FoldTheorems

-----------------------------------------------------------------------------
(* Random numbers.  Entropy is dealt to the pools in turn, so the share of a *)
(* pool in n pieces is every Pools-th of them.  A pool keeps its share until *)
(* the reseed with number 2^x, which empties it for good.                    *)

Share(n, x) == [m \in 1 .. (n - x + Pools - 1) \div Pools |-> x + (m - 1) * Pools + 1]

LEMMA TimesOrder ==
  ASSUME NEW a \in Int, NEW b \in Int, NEW c \in Nat, a <= b
  PROVE  a * c <= b * c /\ a * c \in Int /\ b * c \in Int
<1> DEFINE d == b - a
<1>1. d \in Nat /\ b = a + d
  OBVIOUS
<1> HIDE DEF d
<1>2. d * c \in Nat
  BY <1>1
<1>3. b * c = a * c + d * c
  BY <1>1
<1>4. a * c \in Int /\ b * c \in Int
  OBVIOUS
<1>5. QED BY <1>2, <1>3, <1>4

LEMMA ShareSize ==
  ASSUME NEW n \in Nat, NEW x \in 0 .. Pools - 1
  PROVE  \E q \in Nat, r \in 0 .. Pools - 1 :
           /\ q = (n - x + Pools - 1) \div Pools
           /\ n - x + Pools - 1 = Pools * q + r
           /\ Share(n, x) = [m \in 1 .. q |-> x + (m - 1) * Pools + 1]
<1>1. Pools \in Nat /\ Pools >= 1 /\ x \in Nat /\ x <= Pools - 1
  BY FortunaAssumption
<1> DEFINE a == n - x + Pools - 1
<1>2. a \in Int /\ a >= 0
  BY <1>1
<1>3. Share(n, x) = [m \in 1 .. a \div Pools |-> x + (m - 1) * Pools + 1]
  BY DEF Share
<1> HIDE DEF a
<1>4. a \div Pools \in Nat /\ a % Pools \in 0 .. Pools - 1 /\ a = Pools * (a \div Pools) + (a % Pools)
  <2>1. /\ a \div Pools \in Int /\ a % Pools \in 0 .. Pools - 1 /\ a = Pools * (a \div Pools) + (a % Pools)
        /\ (a >= 0 => a \div Pools >= 0)
    BY <1>1, <1>2, DivMod, Zenon
  <2>2. QED BY <1>2, <2>1
<1>5. QED BY <1>3, <1>4 DEF a

\* A pool's share: pieces in the order of their arrival, none of them twice
LEMMA ShareType ==
  ASSUME NEW n \in Nat, NEW x \in 0 .. Pools - 1
  PROVE  /\ Share(n, x) \in Seq(Nat) /\ Share(n, x) \in Seq(1 .. n) /\ Len(Share(n, x)) \in 0 .. n
         /\ DOMAIN Share(n, x) = 1 .. Len(Share(n, x))
         /\ \A i, j \in DOMAIN Share(n, x) : Share(n, x)[i] = Share(n, x)[j] => i = j
<1>1. Pools \in Nat /\ Pools >= 1 /\ x \in Nat /\ x <= Pools - 1
  BY FortunaAssumption
<1>2. PICK q \in Nat, r \in 0 .. Pools - 1 :
           /\ n - x + Pools - 1 = Pools * q + r
           /\ Share(n, x) = [m \in 1 .. q |-> x + (m - 1) * Pools + 1]
  BY ShareSize
<1>3. q <= n
  <2>1. Pools * q <= n - x + Pools - 1 /\ Pools * q = q * Pools /\ q * Pools \in Nat
    BY <1>1, <1>2
  <2>2. SUFFICES ASSUME n + 1 <= q PROVE FALSE
    OBVIOUS
  <2>3. (n + 1) * Pools <= q * Pools /\ (n + 1) * Pools = n * Pools + Pools
    BY <1>1, <2>2, TimesOrder
  <2>4. n * 1 <= n * Pools
    <3>1. 1 * n <= Pools * n
      BY <1>1, TimesOrder
    <3>2. QED BY <1>1, <3>1
  <2>5. QED BY <1>1, <2>1, <2>3, <2>4
<1>4. \A m \in 1 .. q : (m - 1) * Pools \in Nat
  BY <1>1
<1>5. ASSUME NEW i \in 1 .. q, NEW j \in 1 .. q, i < j
      PROVE  (i - 1) * Pools < (j - 1) * Pools
  <2>1. i * Pools <= (j - 1) * Pools /\ i * Pools = (i - 1) * Pools + Pools
    BY <1>1, <1>5, TimesOrder
  <2>2. QED BY <1>1, <1>4, <1>5, <2>1
<1>6. \A i, j \in 1 .. q : x + (i - 1) * Pools + 1 = x + (j - 1) * Pools + 1 => i = j
  <2>1. SUFFICES ASSUME NEW i \in 1 .. q, NEW j \in 1 .. q, (i - 1) * Pools = (j - 1) * Pools
                 PROVE  i = j
    BY <1>1, <1>4
  <2>2. ~ (i < j) /\ ~ (j < i)
    BY <1>4, <1>5, <2>1
  <2>3. QED BY <2>2
<1> DEFINE s == Share(n, x)
<1>7. s = [m \in 1 .. q |-> x + (m - 1) * Pools + 1]
  BY <1>2
<1> HIDE DEF s
<1>8. \A m \in 1 .. q : x + (m - 1) * Pools + 1 \in Nat
  BY <1>1, <1>4
<1>9. s \in Seq(Nat) /\ Len(s) = q /\ DOMAIN s = 1 .. q
  BY <1>7, <1>8
<1>10. \A i, j \in 1 .. q : s[i] = s[j] => i = j
  BY <1>6, <1>7
<1>11. ASSUME NEW m \in 1 .. q
       PROVE  s[m] \in 1 .. n
  <2>1. m * Pools <= q * Pools /\ q * Pools = Pools * q /\ m * Pools = (m - 1) * Pools + Pools
    BY <1>1, TimesOrder
  <2>2. PICK u \in Nat, w \in Int : u = (m - 1) * Pools /\ w = Pools * q
    BY <1>1, <1>4
  <2>3. u + Pools <= w /\ n - x + Pools - 1 = w + r /\ r \in Int /\ r >= 0
    BY <1>1, <1>2, <2>1, <2>2
  <2>4. x + u + 1 \in 1 .. n
    BY ONLY <1>1, <2>3, <2>2, n \in Nat
  <2>5. s[m] = x + u + 1
    BY <1>7, <2>2
  <2>6. QED BY <2>4, <2>5
<1>12. s \in Seq(1 .. n)
  BY <1>9, <1>11
<1>13. QED BY <1>3, <1>9, <1>10, <1>12 DEF s

\* Piece p is in the share of the pool whose turn it was
LEMMA ShareHas ==
  ASSUME NEW n \in Nat, NEW x \in 0 .. Pools - 1, NEW p \in 1 .. n
  PROVE  (\E m \in DOMAIN Share(n, x) : Share(n, x)[m] = p) <=> x = (p - 1) % Pools
<1>1. Pools \in Nat /\ Pools >= 1 /\ x \in Nat /\ x <= Pools - 1 /\ p - 1 \in Nat
  BY FortunaAssumption
<1>2. PICK q \in Nat, r \in 0 .. Pools - 1 :
           /\ n - x + Pools - 1 = Pools * q + r
           /\ Share(n, x) = [m \in 1 .. q |-> x + (m - 1) * Pools + 1]
  BY ShareSize
<1>3. ASSUME NEW m \in 1 .. q, x + (m - 1) * Pools + 1 = p
      PROVE  x = (p - 1) % Pools
  <2>1. p - 1 = Pools * (m - 1) + x
    BY <1>1, <1>3
  <2>2. p - 1 \in Int /\ m - 1 \in Int
    OBVIOUS
  <2>3. QED BY <1>1, <2>1, <2>2, DivUnique
<1>4. ASSUME x = (p - 1) % Pools
      PROVE  \E m \in 1 .. q : x + (m - 1) * Pools + 1 = p
  <2> DEFINE o == p - 1
  <2>0. o \in Nat /\ x = o % Pools
    BY <1>1, <1>4
  <2> HIDE DEF o
  <2>a. /\ o \div Pools \in Int /\ o = Pools * (o \div Pools) + (o % Pools)
        /\ (o >= 0 => o \div Pools >= 0)
    <3>1. o \in Int
      BY <2>0
    <3>2. QED BY <1>1, <3>1, DivMod, Zenon
  <2>b. PICK z \in Nat : o = Pools * z + x
    BY <2>0, <2>a
  <2>1. p - 1 = Pools * z + x
    BY <2>b DEF o
  <2>2. Pools * z \in Nat /\ Pools * z = z * Pools /\ Pools * q = q * Pools
    BY <1>1
  <2>3. z + 1 <= q
    <3>1. SUFFICES ASSUME q <= z PROVE FALSE
      BY <2>1
    <3>2. q * Pools <= z * Pools /\ q * Pools \in Int
      BY <1>1, <3>1, TimesOrder
    <3>3. Pools * q = n - x + Pools - 1 - r /\ Pools * z = p - 1 - x /\ Pools * q <= Pools * z
      BY <1>1, <1>2, <2>1, <2>2, <3>2
    <3>4. n - x + Pools - 1 - r <= p - 1 - x
      BY <3>3
    <3>5. QED BY <1>1, <3>4
  <2>4. x + (z + 1 - 1) * Pools + 1 = p
    BY <1>1, <2>1, <2>2
  <2>5. QED BY <2>1, <2>3, <2>4
<1>5. QED BY <1>2, <1>3, <1>4

\* Dealing c pieces more, from the pool whose turn it is
Before(n, x, b) == b = (x - (n % Pools)) % Pools
Dealt(n, c, b) == [m \in 1 .. (c - b + Pools - 1) \div Pools |-> n + b + (m - 1) * Pools + 1]

LEMMA ShareGrows ==
  ASSUME NEW n \in Nat, NEW c \in Nat, NEW x \in 0 .. Pools - 1, NEW b, Before(n, x, b)
  PROVE  Share(n, x) \o Dealt(n, c, b) = Share(n + c, x)
<1>1. Pools \in Nat /\ Pools >= 1 /\ x \in Nat /\ x <= Pools - 1
  BY FortunaAssumption
<1>2. PICK u \in Int, k \in 0 .. Pools - 1 : n = Pools * u + k /\ k = n % Pools
  <2>1. n \in Int
    OBVIOUS
  <2>2. n \div Pools \in Int /\ n % Pools \in 0 .. Pools - 1 /\ n = Pools * (n \div Pools) + (n % Pools)
    BY <1>1, <2>1, DivMod, Zenon
  <2>3. QED BY <2>2, Zenon
<1> DEFINE y == x - k
<1>3. y \in Int
  BY <1>1, <1>2
<1>4. b = y % Pools
  BY <1>2 DEF Before
<1>a. y = x - k
  OBVIOUS
<1> HIDE DEF y
<1>5. PICK v \in Int : y = Pools * v + b /\ b \in 0 .. Pools - 1
  <2>1. y \div Pools \in Int /\ y % Pools \in 0 .. Pools - 1 /\ y = Pools * (y \div Pools) + (y % Pools)
    BY <1>1, <1>3, DivMod, Zenon
  <2>2. QED BY <1>4, <2>1, Zenon
<1>6. PICK q \in Int : q = u - v
  BY <1>2, <1>5
<1>7. n - x = Pools * q - b /\ Pools * q \in Int
  <2>1. Pools * q = Pools * u - Pools * v /\ Pools * u \in Int /\ Pools * v \in Int
    BY <1>1, <1>6
  <2>2. n = Pools * u + k /\ y = Pools * v + b /\ b \in Int /\ k \in Int
    BY <1>1, <1>2, <1>5
  <2>3. PICK qp \in Int, up \in Int, vp \in Int : qp = Pools * q /\ up = Pools * u /\ vp = Pools * v
    BY <1>1, <1>6
  <2>4. qp = up - vp /\ n = up + k /\ y = vp + b
    BY <2>1, <2>2, <2>3
  <2>5. n - x = qp - b
    BY <1>1, <1>a, <2>2, <2>4
  <2>6. QED BY <2>3, <2>5
<1>8. q \in Nat
  <2>1. SUFFICES ASSUME q <= -1 PROVE FALSE
    BY <1>6
  <2>2. q * Pools <= (-1) * Pools /\ q * Pools = Pools * q
    BY <1>1, <1>6, <2>1, TimesOrder
  <2>3. QED BY <1>1, <1>5, <1>7, <2>2
<1> DEFINE a == c - b + Pools - 1
<1>9. a \in Int /\ a >= 0
  BY <1>1, <1>5
<1> HIDE DEF a
<1>10. PICK e \in Nat, r \in 0 .. Pools - 1 : e = a \div Pools /\ a = Pools * e + r
  <2>1. /\ a \div Pools \in Int /\ a % Pools \in 0 .. Pools - 1 /\ a = Pools * (a \div Pools) + (a % Pools)
        /\ (a >= 0 => a \div Pools >= 0)
    BY <1>1, <1>9, DivMod, Zenon
  <2>2. QED BY <1>9, <2>1
<1>b. e \in Nat /\ q + e \in Nat
  BY <1>8, <1>10
<1> USE DEF a
<1>11. (c - b + Pools - 1) \div Pools = e
  BY <1>10
<1>12. c - b + Pools - 1 = Pools * e + r
  BY <1>10
<1> HIDE DEF a
<1>13. (n - x + Pools - 1) \div Pools = q
  <2> DEFINE w == n - x + Pools - 1
             s == Pools - 1 - b
  <2>1. w \in Int /\ s \in 0 .. Pools - 1 /\ w = Pools * q + s
    BY <1>1, <1>5, <1>7
  <2> HIDE DEF w, s
  <2>2. w \div Pools = q
    BY <1>1, <1>6, <2>1, DivUnique
  <2>3. QED BY <2>2 DEF w
<1>14. (n + c - x + Pools - 1) \div Pools = q + e
  <2> DEFINE w == n + c - x + Pools - 1
             z == q + e
  <2>1. w \in Int /\ z \in Int /\ w = Pools * z + r
    BY <1>1, <1>5, <1>6, <1>7, <1>12
  <2> HIDE DEF w, z
  <2>2. w \div Pools = z
    BY <1>1, <2>1, DivUnique
  <2>3. QED BY <2>2 DEF w, z
<1> DEFINE s == Share(n, x)
           d == [m \in 1 .. e |-> n + b + (m - 1) * Pools + 1]
           t == Share(n + c, x)
<1>15. s = [m \in 1 .. q |-> x + (m - 1) * Pools + 1]
  BY <1>13 DEF Share
<1>16. t = [m \in 1 .. q + e |-> x + (m - 1) * Pools + 1]
  BY <1>14 DEF Share
<1> HIDE DEF s, t
<1>17. s \in Seq(Int) /\ d \in Seq(Int) /\ t \in Seq(Int) /\ Len(s) = q /\ Len(d) = e /\ Len(t) = q + e
  <2>1. \A m \in Nat : (m - 1) * Pools \in Int
    BY <1>1
  <2>2. \A m \in Nat : x + (m - 1) * Pools + 1 \in Int /\ n + b + (m - 1) * Pools + 1 \in Int
    BY <1>1, <1>5, <2>1
  <2>3. s \in Seq(Int) /\ Len(s) = q
    BY <1>8, <1>15, <2>2
  <2>4. d \in Seq(Int) /\ Len(d) = e
    BY <1>b, <2>2
  <2>5. t \in Seq(Int) /\ Len(t) = q + e
    BY <1>b, <1>16, <2>2
  <2>6. QED BY <2>3, <2>4, <2>5
<1>21. d = [m \in 1 .. e |-> n + b + (m - 1) * Pools + 1]
  OBVIOUS
<1> HIDE DEF d
<1>18. ASSUME NEW m \in 1 .. q + e
       PROVE  (s \o d)[m] = t[m]
  <2>1. CASE m <= q
    <3>1. (s \o d)[m] = s[m]
      BY <1>8, <1>10, <1>17, <2>1
    <3>2. m \in 1 .. q
      BY <1>8, <2>1
    <3>3. QED BY <1>15, <1>16, <3>1, <3>2
  <2>2. CASE m > q
    <3>0. m \in Nat /\ m - q \in 1 .. e /\ m <= q + e
      BY <1>8, <1>b, <2>2
    <3>1. (s \o d)[m] = d[m - q] /\ m - q \in 1 .. e
      <4>1. m \in 1 .. Len(s) + Len(d) /\ ~ (m <= Len(s)) /\ m - Len(s) = m - q
        BY <1>8, <1>b, <1>17, <2>2, <3>0
      <4>2. QED BY <1>17, <3>0, <4>1, ConcatProperties, Zenon
    <3>2. d[m - q] = n + b + (m - q - 1) * Pools + 1
      BY <1>21, <3>1
    <3>3. (m - 1) * Pools = (m - q - 1) * Pools + Pools * q
      BY <1>1, <1>8
    <3>4. (m - q - 1) * Pools \in Int
      BY <1>1, <1>8
    <3>5. t[m] = x + (m - 1) * Pools + 1
      BY <1>16
    <3>6. PICK g \in Int : g = (m - q - 1) * Pools
      BY <3>4
    <3>7. x + Pools * q = n + b
      <4>1. b \in Int /\ x \in Int
        BY <1>1, <1>5
      <4>2. PICK qp \in Int : qp = Pools * q
        BY <1>7
      <4>3. n - x = qp - b
        BY <1>7, <4>2
      <4>4. x + qp = n + b
        BY <4>1, <4>3
      <4>5. QED BY <4>2, <4>4
    <3>8. (s \o d)[m] = n + b + g + 1 /\ t[m] = x + (g + Pools * q) + 1
      BY <3>1, <3>2, <3>3, <3>5, <3>6
    <3>9. QED BY <1>1, <1>5, <1>7, <3>6, <3>7, <3>8
  <2>3. m \in Int /\ q \in Int
    BY <1>8, <1>b
  <2>4. m <= q \/ m > q
    BY <2>3
  <2>5. QED BY <2>1, <2>2, <2>4
<1>19. s \o d = t
  <2>1. s \o d \in Seq(Int) /\ Len(s \o d) = q + e
    BY <1>17, ConcatProperties
  <2>2. QED BY <1>17, <1>18, <2>1, SeqEqual
<1>20. QED BY <1>11, <1>19 DEF s, d, t, Dealt

-----------------------------------------------------------------------------
(* The generator.  Only the fields that the properties are about are typed.  *)

IsPrng(f) == f = [pool |-> f.pool, pool_idx |-> f.pool_idx, pool0_len |-> f.pool0_len, wd |-> f.wd,
                  reset_cnt |-> f.reset_cnt, K |-> f.K, IV |-> f.IV]

LEMMA PiecesType == \A size \in Nat : Pieces(size) \in Nat /\ Pieces(size) >= 1
<1>1. SUFFICES ASSUME NEW size \in Nat, size # 0
               PROVE  (size + 64 - 1) \div 64 \in Nat /\ (size + 64 - 1) \div 64 >= 1
  BY DEF Pieces, HASH_SIZE
<1>2. QED BY <1>1

Dealing(f, n) ==
  /\ IsPrng(f) /\ f.pool = [x \in 0 .. Pools - 1 |-> Share(n, x)] /\ f.pool_idx = n % Pools

Added(f, g, n) == Dealing(g, n) /\ g.K = f.K /\ g.reset_cnt = f.reset_cnt /\ g.IV = f.IV

\* Dealing to the pools goes on where it stopped
LEMMA AddEntropy ==
  ASSUME NEW n \in Nat, NEW size \in Nat, NEW f, Dealing(f, n)
  PROVE  Added(f, fortuna_add_entropy(f, n, size), n + Pieces(size))
<1> PICK g : g = fortuna_add_entropy(f, n, size)
  OBVIOUS
<1>0. IsPrng(f) /\ f.pool = [x \in 0 .. Pools - 1 |-> Share(n, x)] /\ f.pool_idx = n % Pools
  BY DEF Dealing
<1> USE <1>0
<1> DEFINE count == Pieces(size)
           before(x) == (x - f.pool_idx) % Pools
           dealt(x) == [m \in 1 .. (count - before(x) + Pools - 1) \div Pools |->
                          n + before(x) + (m - 1) * Pools + 1]
<1>1. \E p0 : g = [f EXCEPT !.pool = [x \in DOMAIN @ |-> @[x] \o dealt(x)],
                            !.pool0_len = p0,
                            !.pool_idx = (@ + count) % Pools]
  BY Zenon DEF fortuna_add_entropy
<1>2. PICK p0 : g = [f EXCEPT !.pool = [x \in DOMAIN @ |-> @[x] \o dealt(x)],
                              !.pool0_len = p0,
                              !.pool_idx = (@ + count) % Pools]
  BY <1>1
<1>3. count \in Nat
  BY PiecesType
<1> DEFINE pool == [x \in DOMAIN f.pool |-> f.pool[x] \o dealt(x)]
           idx == (f.pool_idx + count) % Pools
<1>4. g = [f EXCEPT !.pool = pool, !.pool0_len = p0, !.pool_idx = idx]
  BY <1>2, Zenon
<1>5. pool = [x \in 0 .. Pools - 1 |-> Share(n + count, x)]
  <2>1. SUFFICES ASSUME NEW x \in 0 .. Pools - 1
                 PROVE  f.pool[x] \o dealt(x) = Share(n + count, x)
    OBVIOUS
  <2>2. Before(n, x, before(x))
    BY DEF Before
  <2>3. f.pool[x] = Share(n, x)
    OBVIOUS
  <2>4. PICK b : b = before(x)
    OBVIOUS
  <2>5. dealt(x) = Dealt(n, count, b)
    BY <2>4, Zenon DEF Dealt
  <2> HIDE DEF before, count, dealt
  <2>6. Before(n, x, b)
    BY <2>2, <2>4
  <2>7. Share(n, x) \o Dealt(n, count, b) = Share(n + count, x)
    <3>1. count \in Nat /\ x \in 0 .. Pools - 1 /\ n \in Nat
      BY <1>3
    <3>2. QED BY <2>6, <3>1, ShareGrows, Zenon
  <2>8. QED BY <2>3, <2>5, <2>7, Zenon
<1>6. idx = (n + count) % Pools
  <2>1. PICK q \in Int, r \in 0 .. Pools - 1 : r \in Int /\ n = Pools * q + r /\ r = n % Pools
    <3>1. Pools \in Nat /\ Pools >= 1 /\ n \in Int
      BY FortunaAssumption
    <3>2. n \div Pools \in Int /\ n % Pools \in 0 .. Pools - 1 /\ n = Pools * (n \div Pools) + (n % Pools)
      BY <3>1, DivMod, Zenon
    <3>3. \A r \in 0 .. Pools - 1 : r \in Int
      BY <3>1
    <3>4. QED BY <3>2, <3>3, Zenon
  <2>2. PICK v \in Int, s \in 0 .. Pools - 1 : s \in Int /\ r + count = Pools * v + s /\ s = (r + count) % Pools
    <3> DEFINE a == r + count
    <3>1. Pools \in Nat /\ Pools >= 1 /\ a \in Int
      BY FortunaAssumption, <1>3, <2>1
    <3>2. a \div Pools \in Int /\ a % Pools \in 0 .. Pools - 1 /\ a = Pools * (a \div Pools) + (a % Pools)
      BY <3>1, DivMod, Zenon
    <3>3. \A s \in 0 .. Pools - 1 : s \in Int
      BY <3>1
    <3>4. QED BY <3>2, <3>3, Zenon
  <2>3. (n + count) % Pools = s
    <3> DEFINE a == n + count
               z == q + v
    <3>1. a \in Int /\ z \in Int /\ a = Pools * z + s
      <4>1. Pools * z = Pools * q + Pools * v /\ Pools * q \in Int /\ Pools * v \in Int
        BY FortunaAssumption
      <4>2. PICK qp \in Int, vp \in Int : qp = Pools * q /\ vp = Pools * v
        BY <4>1
      <4>3. n = qp + r /\ r + count = vp + s /\ r \in Int /\ s \in Int
        BY <2>1, <2>2, <4>2
      <4>4. n + count = qp + vp + s
        BY ONLY <1>3, <4>2, <4>3
      <4>5. n + count = Pools * z + s
        BY <4>1, <4>2, <4>4
      <4>6. QED BY <1>3, <4>5
    <3> HIDE DEF a, z
    <3>2. Pools \in Nat /\ Pools >= 1
      BY FortunaAssumption
    <3>4. a % Pools = s
      BY <3>1, <3>2, DivUnique, Zenon
    <3>3. QED BY <3>4 DEF a
  <2>4. QED BY <2>1, <2>2, <2>3
<1> HIDE DEF pool, idx, count
<1>7. /\ g.pool = pool /\ g.pool_idx = idx /\ g.K = f.K /\ g.reset_cnt = f.reset_cnt /\ g.IV = f.IV
      /\ IsPrng(g)
  BY <1>4 DEF IsPrng
<1>8. Added(f, g, n + Pieces(size))
  BY <1>5, <1>6, <1>7 DEF count, Dealing, Added
<1>9. QED BY <1>8

\* What pool x adds to a key
Drawn(pool, drained, x) == IF x \in drained THEN pool[x] ELSE <<>>
Gather(s, pool, drained, x) == (IF x = 0 THEN <<>> ELSE s[x - 1]) \o Drawn(pool, drained, x)
Gathered(pool, drained) == CHOOSE s : s = [x \in DOMAIN pool |-> Gather(s, pool, drained, x)]

LEMMA ReseedingIs ==
  ASSUME NEW pool, NEW drained
  PROVE  Reseeding(pool, drained)
           = [kind |-> "sha512", iv |-> 0, entropy |-> Gathered(pool, drained)[Pools - 1]]
BY DEF Reseeding, Gathered, Gather, Drawn

\* If no more than one of the pools drained holds anything, this is what the key gets
LEMMA GatheredIs ==
  ASSUME NEW pool, DOMAIN pool = 0 .. Pools - 1, NEW drained, NEW e \in Seq(Nat), NEW x0 \in 0 .. Pools,
         \A x \in 0 .. Pools - 1 : Drawn(pool, drained, x) = IF x = x0 THEN e ELSE <<>>
  PROVE  Gathered(pool, drained)[Pools - 1] = IF x0 <= Pools - 1 THEN e ELSE <<>>
<1>1. Pools \in Nat /\ Pools >= 1 /\ x0 \in Nat
  BY FortunaAssumption
<1> DEFINE s0 == [x \in 0 .. Pools - 1 |-> IF x0 <= x THEN e ELSE <<>>]
<1>2. ASSUME NEW s, NEW x \in 0 .. Pools - 1, x # 0 => s[x - 1] = s0[x - 1]
      PROVE  Gather(s, pool, drained, x) = s0[x]
  <2>1. <<>> \o <<>> = <<>> /\ <<>> \o e = e /\ e \o <<>> = e
    BY ConcatEmptySeq, EmptySeq
  <2>2. Drawn(pool, drained, x) = IF x = x0 THEN e ELSE <<>>
    OBVIOUS
  <2>3. x # 0 => x - 1 \in 0 .. Pools - 1
    BY <1>1
  <2>4. x # 0 => s[x - 1] = IF x0 <= x - 1 THEN e ELSE <<>>
    BY <1>2, <2>3
  <2>5. s0[x] = IF x0 <= x THEN e ELSE <<>>
    OBVIOUS
  <2> HIDE DEF s0
  <2>6. CASE x = 0
    BY <1>1, <2>1, <2>2, <2>5, <2>6 DEF Gather
  <2>7. CASE x # 0 /\ x0 <= x - 1
    <3>1. x # 0 /\ x # x0 /\ x0 <= x
      BY <1>1, <2>7
    <3>2. s[x - 1] = e /\ Drawn(pool, drained, x) = <<>> /\ s0[x] = e
      BY <2>2, <2>4, <2>5, <2>7, <3>1
    <3>3. QED BY <2>1, <3>1, <3>2 DEF Gather
  <2>8. CASE x # 0 /\ ~ (x0 <= x - 1)
    <3>1. s[x - 1] = <<>>
      BY <2>4, <2>8, Zenon
    <3>2. CASE x = x0
      <4>1. x0 <= x
        BY <1>1, <3>2
      <4>2. Drawn(pool, drained, x) = e /\ s0[x] = e
        BY <2>2, <2>5, <3>2, <4>1, Zenon
      <4>3. QED BY <2>1, <2>8, <3>1, <4>2, Zenon DEF Gather
    <3>3. CASE x # x0
      <4>1. ~ (x0 <= x)
        BY <1>1, <2>8, <3>3
      <4>2. Drawn(pool, drained, x) = <<>> /\ s0[x] = <<>>
        BY <2>2, <2>5, <3>3, <4>1, Zenon
      <4>3. QED BY <2>1, <2>8, <3>1, <4>2, Zenon DEF Gather
    <3>4. QED BY <3>2, <3>3
  <2>9. QED BY <2>6, <2>7, <2>8
<1>3. s0 = [x \in DOMAIN pool |-> Gather(s0, pool, drained, x)]
  <2>1. \A x \in 0 .. Pools - 1 : Gather(s0, pool, drained, x) = s0[x]
    BY <1>2
  <2>2. s0 = [x \in 0 .. Pools - 1 |-> s0[x]]
    OBVIOUS
  <2> HIDE DEF s0
  <2>3. QED BY <2>1, <2>2
<1> DEFINE s == Gathered(pool, drained)
<1>4. s = [x \in DOMAIN pool |-> Gather(s, pool, drained, x)]
  BY <1>3 DEF Gathered
<1> HIDE DEF s
<1> DEFINE A == {n \in Nat : n <= Pools - 1 => s[n] = s0[n]}
<1>5. \A x \in 0 .. Pools - 1 : s[x] = Gather(s, pool, drained, x)
  BY <1>4
<1>6. 0 \in A
  <2> HIDE DEF s0
  <2>1. 0 \in 0 .. Pools - 1
    BY <1>1
  <2>2. Gather(s, pool, drained, 0) = s0[0]
    BY <1>2, <2>1
  <2>3. QED BY <1>5, <2>1, <2>2
<1>7. ASSUME NEW n \in Nat, n \in A PROVE n + 1 \in A
  <2>1. SUFFICES ASSUME n + 1 <= Pools - 1 PROVE s[n + 1] = s0[n + 1]
    OBVIOUS
  <2>2. s[n] = s0[n] /\ n + 1 \in 0 .. Pools - 1 /\ n + 1 - 1 = n
    BY <1>1, <1>7, <2>1
  <2> HIDE DEF s0
  <2>3. Gather(s, pool, drained, n + 1) = s0[n + 1]
    BY <1>2, <2>2
  <2>4. QED BY <1>5, <2>2, <2>3
<1> HIDE DEF A
<1>8. \A n \in Nat : n \in A
  BY <1>6, <1>7, AllNumbers
<1>9. s[Pools - 1] = s0[Pools - 1]
  <2>1. Pools - 1 \in Nat /\ Pools - 1 <= Pools - 1
    BY <1>1
  <2> HIDE DEF s0
  <2>2. QED BY <1>8, <2>1 DEF A
<1>10. s0[Pools - 1] = IF x0 <= Pools - 1 THEN e ELSE <<>>
  BY <1>1
<1>11. QED BY <1>9, <1>10 DEF s

-----------------------------------------------------------------------------
(* When a pool is due.  The bits looked at are all 0 if 2^x divides the count. *)

LEMMA BitsOfMultiple ==
  ASSUME NEW count \in Nat, NEW x \in Nat
  PROVE  (\A y \in 0 .. x : Due(y, count)) <=> count % 2 ^ x = 0
<1> DEFINE P(k) == (\A y \in 0 .. k : Due(y, count)) <=> count % 2 ^ k = 0
           A == {k \in Nat : P(k)}
<1>1. 0 \in A
  <2>1. 2 ^ 0 = 1 /\ count % 1 = 0
    OBVIOUS
  <2>2. \A y \in 0 .. 0 : Due(y, count)
    BY DEF Due
  <2>3. QED BY <2>1, <2>2
<1>2. ASSUME NEW k \in Nat, k \in A PROVE k + 1 \in A
  <2>1. PICK p \in Nat : p = 2 ^ k /\ p >= 1 /\ 2 ^ (k + 1) = 2 * p
    BY PowerPositive, PowerStep
  <2>2. Due(k + 1, count) <=> (count \div p) % 2 = 0
    <3>1. k + 1 # 0 /\ k + 1 - 1 = k
      OBVIOUS
    <3>2. QED BY <2>1, <3>1 DEF Due
  <2>3. (\A y \in 0 .. k + 1 : Due(y, count)) <=> (\A y \in 0 .. k : Due(y, count)) /\ Due(k + 1, count)
    <3>1. \A y \in 0 .. k + 1 : y \in 0 .. k \/ y = k + 1
      OBVIOUS
    <3>2. \A y \in 0 .. k : y \in 0 .. k + 1
      OBVIOUS
    <3>3. k + 1 \in 0 .. k + 1
      OBVIOUS
    <3>4. QED BY <3>1, <3>2, <3>3, Zenon
  <2>4. count % p = 0 /\ (count \div p) % 2 = 0 <=> count % (2 * p) = 0
    <3>1. PICK q \in Int, r \in 0 .. p - 1 : q = count \div p /\ r = count % p /\ count = p * q + r
      <4>1. count \in Int
        OBVIOUS
      <4>2. count \div p \in Int /\ count % p \in 0 .. p - 1 /\ count = p * (count \div p) + (count % p)
        BY <2>1, <4>1, DivMod, Zenon
      <4>3. QED BY <4>2, Zenon
    <3>2. ASSUME r = 0, q % 2 = 0 PROVE count % (2 * p) = 0
      <4>1. PICK h \in Int : q = 2 * h
        BY <3>2
      <4>2. count = (2 * p) * h /\ 2 * p \in Nat /\ 2 * p >= 1
        <5>1. count = p * q
          BY <2>1, <3>1, <3>2
        <5>2. p * q = p * (2 * h) /\ p * (2 * h) = (2 * p) * h
          BY <2>1, <4>1
        <5>3. QED BY <2>1, <5>1, <5>2
      <4>3. QED BY <4>2, Multiple
    <3>3. ASSUME count % (2 * p) = 0 PROVE r = 0 /\ q % 2 = 0
      <4>1. 2 * p \in Nat /\ 2 * p >= 1 /\ count \in Int
        BY <2>1
      <4>2. PICK h \in Int : count = (2 * p) * h
        BY <3>3, <4>1, MultipleIs
      <4>3. count = p * (2 * h) + 0 /\ 2 * h \in Int /\ 0 \in 0 .. p - 1
        BY <2>1, <4>2
      <4>4. count \div p = 2 * h /\ count % p = 0
        BY <2>1, <4>1, <4>3, DivUnique
      <4>5. QED BY <3>1, <4>4
    <3>4. QED BY <3>1, <3>2, <3>3
  <2>5. QED BY <1>2, <2>1, <2>2, <2>3, <2>4
<1> HIDE DEF A
<1>3. \A k \in Nat : k \in A
  BY <1>1, <1>2, AllNumbers
<1>4. QED BY <1>3 DEF A

-----------------------------------------------------------------------------
(* The generator between two calls, after n pieces of entropy *)

Keys == [kind : {"sha512", "aes"}, iv : Nat, entropy : Seq(Nat)]

\* No other key has the entropy of key k, if there is any
OnlyIn(keys, k, e) == keys[k].entropy = e /\ \A j \in 1 .. Len(keys) : keys[j].entropy = e => j = k \/ e = <<>>

\* After count reseeds the pools up to the one numbered log2 of it are in keys
KeysGiven(keys, count, n) ==
  /\ keys \in Seq(Keys)
  /\ \A k \in 1 .. Len(keys) :
       \/ keys[k].entropy = <<>>
       \/ \E x \in 0 .. Pools - 1 : 2 ^ x <= count /\ keys[k].entropy = Share(n, x)
  /\ \A x \in 0 .. Pools - 1 : 2 ^ x <= count => \E k \in 1 .. Len(keys) : OnlyIn(keys, k, Share(n, x))
PoolsGiven(f, n) ==
  /\ IsPrng(f) /\ f.reset_cnt \in Nat /\ KeysGiven(f.K, f.reset_cnt, n)
  /\ f.pool = [x \in 0 .. Pools - 1 |-> IF 2 ^ x <= f.reset_cnt THEN <<>> ELSE Share(n, x)]

LEMMA SharesApart ==
  ASSUME NEW n \in Nat, NEW x \in 0 .. Pools - 1, NEW y \in 0 .. Pools - 1, x # y,
         Share(n, x) = Share(n, y)
  PROVE  Share(n, x) = <<>>
<1>1. SUFFICES ASSUME Len(Share(n, x)) # 0 PROVE FALSE
  <2> DEFINE s == Share(n, x)
  <2>1. s \in Seq(Nat)
    BY ShareType
  <2> HIDE DEF s
  <2>2. Len(s) = 0 => s = <<>>
    BY <2>1
  <2>3. QED BY <2>2 DEF s
<1>2. Share(n, x) \in Seq(1 .. n) /\ DOMAIN Share(n, x) = 1 .. Len(Share(n, x)) /\ Len(Share(n, x)) \in Nat
  BY ShareType
<1>3. 1 \in DOMAIN Share(n, x) /\ Share(n, x)[1] \in 1 .. n
  BY <1>1, <1>2
<1>4. PICK p \in 1 .. n : p = Share(n, x)[1]
  BY <1>3
<1>5. /\ \E m \in DOMAIN Share(n, x) : Share(n, x)[m] = p
      /\ \E m \in DOMAIN Share(n, y) : Share(n, y)[m] = p
  BY <1>3, <1>4
<1>6. x = (p - 1) % Pools /\ y = (p - 1) % Pools
  BY <1>5, ShareHas
<1>7. QED BY <1>6

LEMMA PowerOnce ==
  ASSUME NEW x \in Nat, NEW y \in Nat, 2 ^ x = 2 ^ y
  PROVE  x = y
<1>1. 2 ^ x \in Nat /\ 2 ^ y \in Nat
  BY PowerPositive
<1>2. ~ (x < y) /\ ~ (y < x)
  BY <1>1, PowerGrows
<1>3. QED BY <1>2

\* One key more, whose entropy is that of a pool now due or nothing
NewKeyOf(f, n, key, count, x0) ==
  /\ key \in Keys /\ count \in Nat /\ count >= f.reset_cnt /\ x0 \in 0 .. Pools
  /\ key.entropy = IF x0 <= Pools - 1 THEN Share(n, x0) ELSE <<>>
  /\ x0 <= Pools - 1 => f.reset_cnt < 2 ^ x0 /\ 2 ^ x0 <= count
  /\ \A x \in 0 .. Pools - 1 : 2 ^ x <= count => 2 ^ x <= f.reset_cnt \/ x = x0

LEMMA KeyAdded ==
  ASSUME NEW f, NEW n \in Nat, PoolsGiven(f, n), NEW key, NEW count, NEW x0,
         NewKeyOf(f, n, key, count, x0), NEW keys, keys = Append(f.K, key)
  PROVE  KeysGiven(keys, count, n)
<1>0. /\ key \in Keys /\ count \in Nat /\ count >= f.reset_cnt /\ x0 \in 0 .. Pools
      /\ key.entropy = IF x0 <= Pools - 1 THEN Share(n, x0) ELSE <<>>
      /\ x0 <= Pools - 1 => f.reset_cnt < 2 ^ x0 /\ 2 ^ x0 <= count
      /\ \A x \in 0 .. Pools - 1 : 2 ^ x <= count => 2 ^ x <= f.reset_cnt \/ x = x0
  BY DEF NewKeyOf
<1>1. /\ f.reset_cnt \in Nat /\ f.K \in Seq(Keys)
      /\ \A k \in 1 .. Len(f.K) :
           \/ f.K[k].entropy = <<>>
           \/ \E x \in 0 .. Pools - 1 : 2 ^ x <= f.reset_cnt /\ f.K[k].entropy = Share(n, x)
      /\ \A x \in 0 .. Pools - 1 :
           2 ^ x <= f.reset_cnt => \E k \in 1 .. Len(f.K) : OnlyIn(f.K, k, Share(n, x))
  BY DEF PoolsGiven, KeysGiven
<1>2. \A x \in 0 .. Pools - 1 : x \in Nat /\ 2 ^ x \in Nat
  BY FortunaAssumption, PowerPositive
<1>3. PICK m \in Nat : m = Len(f.K)
  BY <1>1
<1>4. /\ keys \in Seq(Keys) /\ Len(keys) = m + 1 /\ keys[m + 1] = key
      /\ \A k \in 1 .. m : keys[k] = f.K[k]
  BY <1>0, <1>1, <1>3, AppendProperties
<1>5. ASSUME NEW k \in 1 .. m + 1
      PROVE  \/ keys[k].entropy = <<>>
             \/ \E x \in 0 .. Pools - 1 : 2 ^ x <= count /\ keys[k].entropy = Share(n, x)
  <2>1. CASE k = m + 1
    <3>1. x0 <= Pools - 1 => x0 \in 0 .. Pools - 1
      BY <1>0, FortunaAssumption
    <3>2. QED BY <1>0, <1>4, <2>1, <3>1
  <2>2. CASE k # m + 1
    <3>1. k \in 1 .. m /\ keys[k] = f.K[k]
      BY <1>3, <1>4, <2>2
    <3>2. \A x \in 0 .. Pools - 1 : 2 ^ x <= f.reset_cnt => 2 ^ x <= count
      BY <1>0, <1>1, <1>2
    <3>3. QED BY <1>1, <1>3, <3>1, <3>2
  <2>3. QED BY <2>1, <2>2
<1>6. ASSUME NEW x \in 0 .. Pools - 1, 2 ^ x <= f.reset_cnt
      PROVE  \E k \in 1 .. m + 1 : OnlyIn(keys, k, Share(n, x))
  <2>1. PICK k \in 1 .. m : OnlyIn(f.K, k, Share(n, x))
    BY <1>1, <1>3, <1>6
  <2>2. keys[k].entropy = Share(n, x) /\ k \in 1 .. m + 1
    BY <1>4, <2>1 DEF OnlyIn
  <2>3. ASSUME NEW j \in 1 .. m + 1, keys[j].entropy = Share(n, x), j # k
        PROVE  Share(n, x) = <<>>
    <3>1. CASE j \in 1 .. m
      BY <1>3, <1>4, <2>1, <2>3, <3>1 DEF OnlyIn
    <3>2. CASE j = m + 1
      <4>1. key.entropy = Share(n, x)
        BY <1>4, <2>3, <3>2
      <4>2. CASE x0 <= Pools - 1
        <5>1. x0 \in 0 .. Pools - 1 /\ Share(n, x0) = Share(n, x)
          BY <1>0, <4>1, <4>2, FortunaAssumption
        <5>2. x0 # x
          BY <1>0, <1>1, <1>2, <1>6, <4>2
        <5>3. QED BY <5>1, <5>2, SharesApart
      <4>3. CASE ~ (x0 <= Pools - 1)
        BY <1>0, <4>1, <4>3
      <4>4. QED BY <4>2, <4>3
    <3>3. QED BY <3>1, <3>2
  <2>4. QED BY <1>4, <2>2, <2>3 DEF OnlyIn
<1>7. ASSUME x0 <= Pools - 1
      PROVE  OnlyIn(keys, m + 1, Share(n, x0))
  <2>1. x0 \in 0 .. Pools - 1
    BY <1>0, <1>7, FortunaAssumption
  <2>2. keys[m + 1].entropy = Share(n, x0)
    BY <1>0, <1>4, <1>7
  <2>3. ASSUME NEW j \in 1 .. m + 1, keys[j].entropy = Share(n, x0), j # m + 1
        PROVE  Share(n, x0) = <<>>
    <3>1. j \in 1 .. m /\ f.K[j].entropy = Share(n, x0)
      BY <1>3, <1>4, <2>3
    <3>2. SUFFICES ASSUME NEW x \in 0 .. Pools - 1, 2 ^ x <= f.reset_cnt, Share(n, x0) = Share(n, x)
                   PROVE  Share(n, x0) = <<>>
      BY <1>1, <1>3, <3>1
    <3>3. x # x0
      BY <1>0, <1>1, <1>2, <1>7, <3>2
    <3>4. QED BY <2>1, <3>2, <3>3, SharesApart
  <2>4. QED BY <1>4, <2>2, <2>3 DEF OnlyIn
<1>8. m + 1 \in 1 .. m + 1
  BY <1>3
<1>9. \A x \in 0 .. Pools - 1 : x = x0 => x0 <= Pools - 1
  BY <1>0, FortunaAssumption
<1>10. QED BY <1>0, <1>4, <1>5, <1>6, <1>7, <1>8, <1>9 DEF KeysGiven

\* A key of which no pool is part
LEMMA KeyRead ==
  ASSUME NEW f, NEW n \in Nat, PoolsGiven(f, n), NEW key \in Keys, key.entropy = <<>>,
         NEW g, IsPrng(g), g.pool = f.pool, g.reset_cnt = f.reset_cnt, g.K = Append(f.K, key)
  PROVE  PoolsGiven(g, n)
<1> DEFINE count == f.reset_cnt
           keys == g.K
           x0 == Pools
<1>1. Pools \in Nat /\ Pools >= 1 /\ count \in Nat
  BY FortunaAssumption DEF PoolsGiven
<1>2. x0 \in 0 .. Pools /\ ~ (x0 <= Pools - 1)
  BY <1>1
<1>3. keys = Append(f.K, key)
  OBVIOUS
<1> HIDE DEF x0, keys, count
<1>4. KeysGiven(keys, count, n)
  <2>1. NewKeyOf(f, n, key, count, x0)
    BY <1>1, <1>2 DEF NewKeyOf, count
  <2>2. QED BY <1>3, <2>1, KeyAdded, Zenon
<1>5. QED BY <1>1, <1>4 DEF PoolsGiven, keys, count

\* The reseed that empties the pools that are due
LEMMA ReseedGiven ==
  ASSUME NEW f, NEW n \in Nat, PoolsGiven(f, n), NEW g, g = fortuna_reseed(f)
  PROVE  /\ PoolsGiven(g, n) /\ g.IV = f.IV + 1
         /\ \E key \in Keys : g.K = Append(f.K, key) /\ key.kind = "sha512"
<1>1. /\ IsPrng(f) /\ f.reset_cnt \in Nat /\ f.K \in Seq(Keys)
      /\ f.pool = [x \in 0 .. Pools - 1 |-> IF 2 ^ x <= f.reset_cnt THEN <<>> ELSE Share(n, x)]
  BY DEF PoolsGiven, KeysGiven
<1> DEFINE count == f.reset_cnt + 1
           drained == {x \in 0 .. Pools - 1 : \A y \in 0 .. x : Due(y, count)}
           key == Reseeding(f.pool, drained)
<1>2. count \in Nat /\ count >= 1
  BY <1>1
<1>3. g = [f EXCEPT !.reset_cnt = count, !.K = Append(@, key),
                    !.pool = [x \in DOMAIN @ |-> IF x \in drained THEN ResetPool(@[x]) ELSE @[x]],
                    !.IV = @ + 1, !.pool0_len = 0, !.wd = 0]
  <2>1. DOMAIN f.pool = 0 .. Pools - 1
    BY <1>1
  <2>2. QED BY <2>1, Zenon DEF fortuna_reseed
<1> DEFINE pool == [x \in DOMAIN f.pool |-> IF x \in drained THEN ResetPool(f.pool[x]) ELSE f.pool[x]]
<1>4. /\ IsPrng(g) /\ g.reset_cnt = count /\ g.K = Append(f.K, key) /\ g.pool = pool /\ g.IV = f.IV + 1
  <2>1. g = [f EXCEPT !.reset_cnt = count, !.K = Append(f.K, key), !.pool = pool,
                      !.IV = f.IV + 1, !.pool0_len = 0, !.wd = 0]
    BY <1>3, Zenon
  <2> HIDE DEF count, key, pool
  <2>2. QED BY <1>1, <2>1 DEF IsPrng
<1>5. \A x \in 0 .. Pools - 1 : x \in Nat /\ 2 ^ x \in Nat /\ 2 ^ x >= 1
  BY FortunaAssumption, PowerPositive
<1>6. \A x \in 0 .. Pools - 1 : x \in drained <=> count % 2 ^ x = 0
  BY <1>2, <1>5, BitsOfMultiple, Zenon
<1> HIDE DEF drained, count
<1>7. \A x \in 0 .. Pools - 1 : x \in drained => 2 ^ x <= count
  <2>1. SUFFICES ASSUME NEW x \in 0 .. Pools - 1, count % 2 ^ x = 0
                 PROVE  2 ^ x <= count
    BY <1>6
  <2>2. PICK p \in Nat : p = 2 ^ x /\ p >= 1
    BY <1>5
  <2>3. 0 % p = 0 /\ count % p = 0 /\ 0 < count /\ count \in Int /\ 0 \in Int
    <3>1. p * 0 = 0 /\ (p * 0) % p = 0
      BY <2>2, Multiple
    <3>2. QED BY <1>2, <2>1, <2>2, <3>1
  <2>4. 0 + p <= count
    BY <2>2, <2>3, MultipleGap
  <2>5. QED BY <1>2, <2>2, <2>4
<1>8. \A x \in 0 .. Pools - 1 : 2 ^ x = count => x \in drained
  <2>1. SUFFICES ASSUME NEW x \in 0 .. Pools - 1, 2 ^ x = count
                 PROVE  count % count = 0
    BY <1>6
  <2>2. count * 1 = count /\ (count * 1) % count = 0
    BY <1>2, Multiple
  <2>3. QED BY <2>2
<1>9. \E x0 \in 0 .. Pools : /\ x0 <= Pools - 1 => 2 ^ x0 = count
                             /\ \A x \in 0 .. Pools - 1 : 2 ^ x = count => x = x0
  <2>1. CASE \E x \in 0 .. Pools - 1 : 2 ^ x = count
    <3>1. PICK x0 \in 0 .. Pools - 1 : 2 ^ x0 = count
      BY <2>1
    <3>2. \A x \in 0 .. Pools - 1 : 2 ^ x = count => x = x0
      BY <1>5, <3>1, PowerOnce
    <3>3. x0 \in 0 .. Pools
      BY FortunaAssumption
    <3>4. QED BY <3>1, <3>2, <3>3
  <2>2. CASE ~ \E x \in 0 .. Pools - 1 : 2 ^ x = count
    <3>1. Pools \in 0 .. Pools /\ ~ (Pools <= Pools - 1)
      BY FortunaAssumption
    <3>2. QED BY <2>2, <3>1
  <2>3. QED BY <2>1, <2>2
<1>10. PICK x0 \in 0 .. Pools : /\ x0 <= Pools - 1 => 2 ^ x0 = count
                                /\ \A x \in 0 .. Pools - 1 : 2 ^ x = count => x = x0
  BY <1>9
<1> DEFINE e == IF x0 <= Pools - 1 THEN Share(n, x0) ELSE <<>>
<1>11. x0 <= Pools - 1 => x0 \in 0 .. Pools - 1
  BY FortunaAssumption
<1>12. e \in Seq(Nat)
  BY <1>11, ShareType, EmptySeq
<1>13. \A x \in 0 .. Pools - 1 : 2 ^ x <= f.reset_cnt <=> (2 ^ x <= count /\ 2 ^ x # count)
  BY <1>1, <1>5 DEF count
<1>14. ASSUME NEW x \in 0 .. Pools - 1
       PROVE  Drawn(f.pool, drained, x) = IF x = x0 THEN e ELSE <<>>
  <2>1. CASE x = x0
    <3>1. x0 <= Pools - 1
      BY <2>1, FortunaAssumption
    <3>2. 2 ^ x = count /\ x \in drained
      BY <1>8, <1>10, <2>1, <3>1
    <3>3. f.pool[x] = Share(n, x)
      BY <1>1, <1>13, <3>2
    <3>4. QED BY <2>1, <3>1, <3>2, <3>3 DEF Drawn
  <2>2. CASE x # x0
    <3>1. SUFFICES ASSUME x \in drained PROVE f.pool[x] = <<>>
      BY <2>2 DEF Drawn
    <3>2. 2 ^ x <= count /\ 2 ^ x # count
      BY <1>7, <1>10, <2>2, <3>1
    <3>3. QED BY <1>1, <1>13, <3>2
  <2>3. QED BY <2>1, <2>2
<1>15. key = [kind |-> "sha512", iv |-> 0, entropy |-> e]
  <2>1. Gathered(f.pool, drained)[Pools - 1] = e
    <3>1. DOMAIN f.pool = 0 .. Pools - 1
      BY <1>1
    <3> DEFINE p == f.pool
    <3>2. \A x \in 0 .. Pools - 1 : Drawn(p, drained, x) = IF x = x0 THEN e ELSE <<>>
      BY <1>14
    <3>3. DOMAIN p = 0 .. Pools - 1
      BY <3>1
    <3> HIDE DEF p, e
    <3>4. Gathered(p, drained)[Pools - 1] = IF x0 <= Pools - 1 THEN e ELSE <<>>
      BY <1>12, <3>2, <3>3, GatheredIs
    <3>5. QED BY <3>4 DEF p, e
  <2>2. QED BY <2>1, ReseedingIs, Zenon
<1> HIDE DEF key
<1>16. key \in Keys /\ key.kind = "sha512" /\ key.entropy = e
  <2> HIDE DEF e
  <2>1. QED BY <1>12, <1>15 DEF Keys
<1>17. pool = [x \in 0 .. Pools - 1 |-> IF 2 ^ x <= count THEN <<>> ELSE Share(n, x)]
  <2>1. ASSUME NEW x \in 0 .. Pools - 1
        PROVE  (IF x \in drained THEN ResetPool(f.pool[x]) ELSE f.pool[x])
                 = IF 2 ^ x <= count THEN <<>> ELSE Share(n, x)
    <3>1. CASE x \in drained
      BY <1>7, <3>1 DEF ResetPool
    <3>2. CASE x \notin drained
      <4>1. 2 ^ x <= f.reset_cnt <=> 2 ^ x <= count
        BY <1>8, <1>13, <3>2
      <4>2. QED BY <1>1, <3>2, <4>1
    <3>3. QED BY <3>1, <3>2
  <2>2. DOMAIN f.pool = 0 .. Pools - 1
    BY <1>1
  <2>3. QED BY <2>1, <2>2
<1> HIDE DEF pool
<1>18. PICK keys : keys = Append(f.K, key)
  OBVIOUS
<1>19. KeysGiven(keys, count, n)
  <2>1. count >= f.reset_cnt
    BY <1>1 DEF count
  <2>2. x0 <= Pools - 1 => f.reset_cnt < 2 ^ x0 /\ 2 ^ x0 <= count
    BY <1>1, <1>2, <1>10, <1>11, <1>13 DEF count
  <2>3. \A x \in 0 .. Pools - 1 : 2 ^ x <= count => 2 ^ x <= f.reset_cnt \/ x = x0
    BY <1>10, <1>13
  <2>4. key.entropy = IF x0 <= Pools - 1 THEN Share(n, x0) ELSE <<>>
    BY <1>16
  <2> HIDE DEF e
  <2>5. NewKeyOf(f, n, key, count, x0)
    BY <1>2, <1>16, <2>1, <2>2, <2>3, <2>4 DEF NewKeyOf
  <2>6. QED BY <1>18, <2>5, KeyAdded, Zenon
<1>20. PoolsGiven(g, n)
  BY <1>2, <1>4, <1>17, <1>18, <1>19 DEF PoolsGiven
<1>21. QED BY <1>4, <1>16, <1>20

-----------------------------------------------------------------------------
(* The counters: a block given out and the two halves of a key each take one *)
(* of their own, because IV only grows.                                      *)

Given == Seq(Keys) \X Nat
Fresh(f, out) ==
  /\ f.IV \in Nat /\ f.K \in Seq(Keys) /\ out \in Seq(Given)
  /\ \A x \in 1 .. Len(out) : out[x][2] < f.IV
  /\ \A x, y \in 1 .. Len(out) : out[x][2] = out[y][2] => x = y
  /\ \A k \in 1 .. Len(f.K) : f.K[k].kind = "aes" =>
       /\ f.K[k].iv + 1 < f.IV
       /\ \A x \in 1 .. Len(out) : out[x][2] # f.K[k].iv /\ out[x][2] # f.K[k].iv + 1

LEMMA KeyIv == \A key \in Keys : key.iv \in Nat
  BY DEF Keys

LEMMA GivenIv == \A block \in Given : block[2] \in Nat
  BY DEF Given

LEMMA FreshReseeded ==
  ASSUME NEW f, NEW out, Fresh(f, out), NEW key \in Keys, key.kind = "sha512",
         NEW g, g.K = Append(f.K, key), g.IV = f.IV + 1
  PROVE  Fresh(g, out)
<1>1. /\ f.IV \in Nat /\ f.K \in Seq(Keys) /\ out \in Seq(Given)
      /\ \A x \in 1 .. Len(out) : out[x][2] < f.IV
      /\ \A x, y \in 1 .. Len(out) : out[x][2] = out[y][2] => x = y
      /\ \A k \in 1 .. Len(f.K) : f.K[k].kind = "aes" =>
           /\ f.K[k].iv + 1 < f.IV
           /\ \A x \in 1 .. Len(out) : out[x][2] # f.K[k].iv /\ out[x][2] # f.K[k].iv + 1
  BY DEF Fresh
<1>2. /\ g.K \in Seq(Keys) /\ Len(g.K) = Len(f.K) + 1 /\ g.K[Len(f.K) + 1] = key
      /\ \A k \in 1 .. Len(f.K) : g.K[k] = f.K[k]
  BY <1>1, AppendProperties
<1>3. \A x \in 1 .. Len(out) : out[x][2] \in Nat
  <2>1. \A x \in 1 .. Len(out) : out[x] \in Given
    BY <1>1
  <2>2. QED BY <2>1, GivenIv
<1>4. ASSUME NEW k \in 1 .. Len(g.K), g.K[k].kind = "aes"
      PROVE  /\ g.K[k].iv + 1 < g.IV
             /\ \A x \in 1 .. Len(out) : out[x][2] # g.K[k].iv /\ out[x][2] # g.K[k].iv + 1
  <2>1. k # Len(f.K) + 1
    BY <1>2, <1>4
  <2>2. k \in 1 .. Len(f.K)
    BY <1>1, <1>2, <2>1
  <2>3. g.K[k] = f.K[k] /\ f.K[k].iv \in Nat
    <3>1. f.K[k] \in Keys
      BY <1>1, <2>2
    <3>2. QED BY <1>2, <2>2, <3>1, KeyIv
  <2>4. QED BY <1>1, <1>4, <2>2, <2>3
<1>5. \A x \in 1 .. Len(out) : out[x][2] < g.IV
  BY <1>1, <1>3
<1>6. g.IV \in Nat
  BY <1>1
<1>7. QED BY <1>1, <1>2, <1>4, <1>5, <1>6 DEF Fresh

LEMMA FreshRead ==
  ASSUME NEW f, NEW out, Fresh(f, out), NEW n \in Nat,
         NEW g, g.K = Append(f.K, NewKey(f.IV + n)), g.IV = f.IV + n + 2
  PROVE  Fresh(g, out \o [j \in 1 .. n |-> Encrypted(f, f.IV + j - 1)])
<1>1. f.IV \in Nat /\ f.K \in Seq(Keys) /\ out \in Seq(Given)
  BY DEF Fresh
<1>b. /\ \A x \in 1 .. Len(out) : out[x][2] < f.IV
      /\ \A x, y \in 1 .. Len(out) : out[x][2] = out[y][2] => x = y
      /\ \A k \in 1 .. Len(f.K) : f.K[k].kind = "aes" =>
           /\ f.K[k].iv + 1 < f.IV
           /\ \A x \in 1 .. Len(out) : out[x][2] # f.K[k].iv /\ out[x][2] # f.K[k].iv + 1
  BY DEF Fresh
<1> DEFINE key == NewKey(f.IV + n)
           new == [j \in 1 .. n |-> <<f.K, f.IV + j - 1>>]
           all == out \o new
<1>2. key \in Keys /\ key.iv = f.IV + n
  <2>1. <<>> \in Seq(Nat)
    BY EmptySeq
  <2>2. QED BY <1>1, <2>1 DEF NewKey, Keys
<1>a. g.K = Append(f.K, key)
  OBVIOUS
<1> HIDE DEF key
<1>3. /\ g.K \in Seq(Keys) /\ Len(g.K) = Len(f.K) + 1 /\ g.K[Len(f.K) + 1] = key
      /\ \A k \in 1 .. Len(f.K) : g.K[k] = f.K[k]
  BY <1>1, <1>2, <1>a, AppendProperties
<1>4. new \in Seq(Given) /\ Len(new) = n /\ \A j \in 1 .. n : new[j][2] = f.IV + j - 1
  <2>1. \A j \in 1 .. n : <<f.K, f.IV + j - 1>> \in Seq(Keys) \X Nat
    <3>1. \A j \in 1 .. n : f.IV + j - 1 \in Nat
      BY <1>1
    <3>2. QED BY <1>1, <3>1
  <2>2. new \in [1 .. n -> Given]
    BY <2>1 DEF Given
  <2>3. new \in Seq(Given) /\ Len(new) = n
    <3> HIDE DEF new
    <3>1. QED BY <2>2
  <2>4. QED BY <2>3
<1> HIDE DEF new
<1>5. PICK m \in Nat : m = Len(out)
  BY <1>1
<1>6. /\ all \in Seq(Given) /\ Len(all) = m + n
      /\ \A x \in 1 .. m + n : all[x] = IF x <= m THEN out[x] ELSE new[x - m]
  <2>1. /\ all \in Seq(Given) /\ Len(all) = Len(out) + Len(new)
        /\ \A x \in 1 .. Len(out) + Len(new) : all[x] = IF x <= Len(out) THEN out[x] ELSE new[x - Len(out)]
    BY <1>1, <1>4, ConcatProperties, Zenon
  <2>2. QED BY <1>4, <1>5, <2>1
<1> HIDE DEF all
<1>c. /\ \A x \in 1 .. m : out[x][2] \in Nat /\ out[x][2] < f.IV
      /\ \A x, y \in 1 .. m : out[x][2] = out[y][2] => x = y
  <2>1. \A x \in 1 .. m : out[x] \in Given
    BY <1>1, <1>5
  <2>2. QED BY <1>b, <1>5, <2>1, GivenIv
<1>7. ASSUME NEW x \in 1 .. m + n
      PROVE  \/ x \in 1 .. m /\ all[x][2] = out[x][2] /\ out[x][2] \in Nat /\ out[x][2] < f.IV
             \/ x \in m + 1 .. m + n /\ all[x][2] = f.IV + (x - m) - 1
  <2>1. CASE x <= m
    BY <1>6, <1>c, <2>1
  <2>2. CASE ~ (x <= m)
    <3>1. x - m \in 1 .. n /\ x \in m + 1 .. m + n
      BY <1>5, <2>2
    <3>2. QED BY <1>4, <1>6, <2>2, <3>1
  <2>3. QED BY <2>1, <2>2
<1>8. \A x \in 1 .. m + n : all[x][2] \in Nat /\ all[x][2] < f.IV + n
  <2>1. SUFFICES ASSUME NEW x \in 1 .. m + n PROVE all[x][2] \in Nat /\ all[x][2] < f.IV + n
    OBVIOUS
  <2>2. CASE x \in 1 .. m /\ all[x][2] = out[x][2] /\ out[x][2] \in Nat /\ out[x][2] < f.IV
    BY <1>1, <2>2
  <2>3. CASE x \in m + 1 .. m + n /\ all[x][2] = f.IV + (x - m) - 1
    BY <1>1, <2>3
  <2>4. QED BY <1>7, <2>2, <2>3
<1>9. ASSUME NEW x \in 1 .. m + n, NEW y \in 1 .. m + n, all[x][2] = all[y][2]
      PROVE  x = y
  <2>1. CASE x \in 1 .. m /\ y \in 1 .. m
    <3>1. all[x][2] = out[x][2] /\ all[y][2] = out[y][2]
      BY <1>6, <2>1
    <3>2. QED BY <1>9, <1>c, <2>1, <3>1
  <2>2. CASE ~ (x \in 1 .. m /\ y \in 1 .. m)
    BY <1>1, <1>7, <1>9, <2>2
  <2>3. QED BY <2>1, <2>2
<1>10. ASSUME NEW k \in 1 .. Len(g.K), g.K[k].kind = "aes"
       PROVE  /\ g.K[k].iv + 1 < g.IV
              /\ \A x \in 1 .. m + n : all[x][2] # g.K[k].iv /\ all[x][2] # g.K[k].iv + 1
  <2>1. CASE k = Len(f.K) + 1
    <3>1. PICK v \in Nat : v = f.IV
      BY <1>1
    <3>2. PICK i : i = g.K[k].iv /\ i = v + n
      BY <1>2, <1>3, <2>1, <3>1
    <3>3. \A x \in 1 .. m + n : all[x][2] # i /\ all[x][2] # i + 1
      BY <1>8, <3>1, <3>2
    <3>4. i + 1 < g.IV
      BY <3>1, <3>2
    <3>5. QED BY <3>2, <3>3, <3>4
  <2>2. CASE k # Len(f.K) + 1
    <3>1. k \in 1 .. Len(f.K)
      BY <1>1, <1>3, <2>2
    <3>2. PICK i \in Nat : i = f.K[k].iv /\ i = g.K[k].iv
      <4>1. f.K[k] \in Keys
        BY <1>1, <3>1
      <4>2. QED BY <1>3, <3>1, <4>1, KeyIv
    <3>3. i + 1 < f.IV /\ \A x \in 1 .. m : out[x][2] # i /\ out[x][2] # i + 1
      BY <1>b, <1>3, <1>5, <1>10, <3>1, <3>2
    <3>4. ASSUME NEW x \in 1 .. m + n PROVE all[x][2] # i /\ all[x][2] # i + 1
      <4>1. CASE x \in 1 .. m
        <5>1. all[x] = out[x]
          BY <1>6, <4>1
        <5>2. QED BY <3>3, <4>1, <5>1
      <4>2. CASE x \notin 1 .. m
        <5>1. x \in m + 1 .. m + n /\ all[x][2] = f.IV + (x - m) - 1
          BY <1>7, <4>2
        <5>2. PICK v \in Nat : v = f.IV
          BY <1>1
        <5>3. all[x][2] \in Nat /\ all[x][2] >= v
          BY <5>1, <5>2
        <5>4. i + 1 < v
          BY <3>3, <5>2
        <5>5. PICK w \in Nat : w = all[x][2] /\ w >= v
          BY <5>3
        <5>6. w # i /\ w # i + 1
          BY ONLY <5>4, <5>5, i \in Nat, v \in Nat, w \in Nat
        <5>7. QED BY <5>5, <5>6
      <4>3. QED BY <4>1, <4>2
    <3>5. i + 1 < g.IV
      <4>1. PICK v \in Nat, w \in Nat : v = f.IV /\ w = g.IV /\ v <= w
        BY <1>1
      <4>2. i + 1 < v
        BY <3>3, <4>1
      <4>3. i + 1 < w
        BY ONLY <4>1, <4>2, i \in Nat, v \in Nat, w \in Nat
      <4>4. QED BY <4>1, <4>3
    <3>6. QED BY <3>2, <3>4, <3>5
  <2>3. QED BY <2>1, <2>2
<1>11. g.IV \in Nat /\ \A x \in 1 .. m + n : all[x][2] < g.IV
  BY <1>1, <1>8
<1>12. Fresh(g, all)
  BY <1>3, <1>6, <1>9, <1>10, <1>11 DEF Fresh
<1>13. QED BY <1>12 DEF all, new, Encrypted

-----------------------------------------------------------------------------
(* The invariant: the generator after all the entropy it was ever given, and *)
(* everything it gave out                                                    *)

FortunaInv ==
  /\ initialized \in BOOLEAN /\ chunks \in Seq({0})
  /\ PoolsGiven(fortuna, Len(chunks)) /\ Fresh(fortuna, produced)
  /\ ~ initialized => fortuna = Started /\ chunks = <<>> /\ produced = <<>>

LEMMA NoShare == \A x \in 0 .. Pools - 1 : Share(0, x) = <<>>
<1>1. SUFFICES ASSUME NEW x \in 0 .. Pools - 1 PROVE Share(0, x) = <<>>
  OBVIOUS
<1> DEFINE s == Share(0, x)
<1>2. s \in Seq(Nat) /\ Len(s) = 0
  BY ShareType
<1> HIDE DEF s
<1>3. s = <<>>
  BY <1>2
<1>4. QED BY <1>3 DEF s

LEMMA StartedGiven == /\ PoolsGiven(Started, 0) /\ Fresh(Started, <<>>)
                      /\ Started.pool = [x \in 0 .. Pools - 1 |-> Share(0, x)]
                      /\ Started.pool_idx = 0 % Pools
<1>1. /\ IsPrng(Started) /\ Started.reset_cnt = 0 /\ Started.K = <<>> /\ Started.IV = 0
      /\ Started.pool = [x \in 0 .. Pools - 1 |-> <<>>] /\ Started.pool_idx = 0
  BY DEF Started, IsPrng
<1>2. \A x \in 0 .. Pools - 1 : 2 ^ x \in Nat /\ 2 ^ x >= 1
  BY FortunaAssumption, PowerPositive
<1>3. KeysGiven(<<>>, 0, 0)
  <2>1. \A x \in 0 .. Pools - 1 : ~ (2 ^ x <= 0)
    BY <1>2
  <2>2. <<>> \in Seq(Keys) /\ Len(<<>>) = 0
    BY EmptySeq
  <2>3. QED BY <2>1, <2>2 DEF KeysGiven
<1>4. Started.pool = [x \in 0 .. Pools - 1 |-> IF 2 ^ x <= 0 THEN <<>> ELSE Share(0, x)]
  BY <1>1, NoShare
<1>5. PoolsGiven(Started, 0)
  BY <1>1, <1>3, <1>4 DEF PoolsGiven
<1>6. Fresh(Started, <<>>)
  <2>1. <<>> \in Seq(Keys) /\ <<>> \in Seq(Given) /\ Len(<<>>) = 0
    BY EmptySeq
  <2>2. QED BY <1>1, <2>1 DEF Fresh
<1>7. 0 % Pools = 0
  <2>1. Pools \in Nat /\ Pools >= 1
    BY FortunaAssumption
  <2>2. Pools * 0 = 0 /\ (Pools * 0) % Pools = 0
    BY <2>1, Multiple
  <2>3. QED BY <2>2
<1>8. QED BY <1>1, <1>5, <1>6, <1>7, NoShare

\* The first call of cryptographic_prng
LEMMA Begun ==
  ASSUME NEW got \in Nat, NEW f,
         f = fortuna_reseed(fortuna_add_entropy(fortuna_add_entropy(Started, 0, got),
                                                Pieces(got), TimeSize))
  PROVE  PoolsGiven(f, Pieces(got) + 1) /\ Fresh(f, <<>>)
<1>1. PICK p \in Nat : p = Pieces(got)
  BY PiecesType
<1>2. PICK r : r = fortuna_add_entropy(Started, 0, got)
  OBVIOUS
<1>3. Dealing(r, p) /\ r.K = <<>> /\ r.reset_cnt = 0 /\ r.IV = 0
  <2>1. IsPrng(Started) /\ Started.K = <<>> /\ Started.reset_cnt = 0 /\ Started.IV = 0
    BY DEF Started, IsPrng
  <2>2. PICK z, s : z \in Nat /\ z = 0 /\ s = Started
    OBVIOUS
  <2>3. Dealing(r, z + Pieces(got)) /\ r.K = s.K /\ r.reset_cnt = s.reset_cnt /\ r.IV = s.IV
    <3>1. Dealing(s, z) /\ r = fortuna_add_entropy(s, z, got)
      BY <1>2, <2>1, <2>2, StartedGiven DEF Dealing
    <3>2. Added(s, r, z + Pieces(got))
      BY <2>2, <3>1, AddEntropy, Zenon
    <3>3. QED BY <3>2 DEF Added
  <2>4. z + Pieces(got) = p
    BY <1>1, <2>2
  <2>5. QED BY <2>1, <2>2, <2>3, <2>4
<1>4. PICK e : e = fortuna_add_entropy(r, p, TimeSize)
  OBVIOUS
<1>5. Pieces(TimeSize) = 1 /\ TimeSize \in Nat
  BY DEF Pieces, TimeSize, HASH_SIZE
<1>6. /\ IsPrng(e) /\ e.pool = [x \in 0 .. Pools - 1 |-> Share(p + 1, x)]
      /\ e.K = <<>> /\ e.reset_cnt = 0 /\ e.IV = 0
  <2>1. /\ Dealing(e, p + Pieces(TimeSize))
        /\ e.K = r.K /\ e.reset_cnt = r.reset_cnt /\ e.IV = r.IV
    <3>1. TimeSize \in Nat
      BY <1>5
    <3>2. Added(r, e, p + Pieces(TimeSize))
      BY <1>3, <1>4, <3>1, AddEntropy, Zenon
    <3>3. QED BY <3>2 DEF Added
  <2>2. QED BY <1>3, <1>5, <2>1 DEF Dealing
<1>7. f = fortuna_reseed(e)
  BY <1>1, <1>2, <1>4
<1>8. PoolsGiven(e, p + 1)
  <2>1. \A x \in 0 .. Pools - 1 : 2 ^ x \in Nat /\ 2 ^ x >= 1
    BY FortunaAssumption, PowerPositive
  <2>2. \A x \in 0 .. Pools - 1 : ~ (2 ^ x <= 0)
    BY <2>1
  <2>3. KeysGiven(<<>>, 0, p + 1)
    <3>1. <<>> \in Seq(Keys) /\ Len(<<>>) = 0
      BY EmptySeq
    <3>2. QED BY <2>2, <3>1 DEF KeysGiven
  <2>4. e.pool = [x \in 0 .. Pools - 1 |-> IF 2 ^ x <= 0 THEN <<>> ELSE Share(p + 1, x)]
    BY <1>6, <2>2
  <2>5. QED BY <1>6, <2>3, <2>4 DEF PoolsGiven
<1>9. Fresh(e, <<>>)
  <2>1. <<>> \in Seq(Keys) /\ <<>> \in Seq(Given) /\ Len(<<>>) = 0
    BY EmptySeq
  <2>2. QED BY <1>6, <2>1 DEF Fresh
<1>10. p + 1 \in Nat
  OBVIOUS
<1>11. PoolsGiven(f, p + 1) /\ f.IV = e.IV + 1
       /\ \E key \in Keys : f.K = Append(e.K, key) /\ key.kind = "sha512"
  BY <1>7, <1>8, <1>10, ReseedGiven, Zenon
<1>12. Fresh(f, <<>>)
  BY <1>9, <1>11, FreshReseeded, Zenon
<1>13. QED BY <1>1, <1>11, <1>12

\* Reseeding or not, a read keeps what the generator guarantees
LEMMA ReadGiven ==
  ASSUME NEW f, NEW n \in Nat, PoolsGiven(f, n), NEW out, Fresh(f, out), NEW size \in Nat,
         NEW r, r = fortuna_read(f, size)
  PROVE  PoolsGiven(r.prng, n) /\ Fresh(r.prng, out \o r.out)
<1>1. PICK p \in Nat : p = Produced(size)
  <2>1. (size + 16 - 1) \div 16 \in Nat
    OBVIOUS
  <2>2. QED BY <2>1 DEF Produced, BLOCK_SIZE
<1> DEFINE counted == [f EXCEPT !.wd = @ + 1]
           made == IF counted.wd = WD \/ counted.pool0_len >= 64 THEN fortuna_reseed(counted) ELSE counted
<1>a. r = [prng |-> [made EXCEPT !.K = Append(@, NewKey(made.IV + Produced(size))),
                                 !.IV = @ + Produced(size) + 2],
           out |-> [j \in 1 .. Produced(size) |-> Encrypted(made, made.IV + j - 1)]]
  BY Zenon DEF fortuna_read, Advanced
<1>2. PICK c : c = [f EXCEPT !.wd = f.wd + 1] /\ c = counted
  OBVIOUS
<1>3. /\ IsPrng(c) /\ c.pool = f.pool /\ c.reset_cnt = f.reset_cnt /\ c.K = f.K /\ c.IV = f.IV
  BY <1>2 DEF PoolsGiven, IsPrng
<1>4. PoolsGiven(c, n) /\ Fresh(c, out)
  BY <1>3 DEF PoolsGiven, Fresh
<1>5. PICK g : g = made /\ (g = fortuna_reseed(c) \/ g = c)
  BY <1>2
<1> HIDE DEF made, counted
<1>6. PoolsGiven(g, n) /\ Fresh(g, out)
  <2>1. CASE g = c
    BY <1>4, <2>1
  <2>2. CASE g = fortuna_reseed(c)
    <3>1. PoolsGiven(g, n) /\ g.IV = c.IV + 1
          /\ \E key \in Keys : g.K = Append(c.K, key) /\ key.kind = "sha512"
      BY <1>4, <2>2, ReseedGiven, Zenon
    <3>2. QED BY <1>4, <3>1, FreshReseeded, Zenon
  <2>3. QED BY <1>5, <2>1, <2>2
<1>7. r = [prng |-> [g EXCEPT !.K = Append(g.K, NewKey(g.IV + p)), !.IV = g.IV + p + 2],
           out |-> [j \in 1 .. p |-> Encrypted(g, g.IV + j - 1)]]
  BY <1>1, <1>5, <1>a, Zenon
<1>8. PICK h, o : /\ h = [g EXCEPT !.K = Append(g.K, NewKey(g.IV + p)), !.IV = g.IV + p + 2]
                  /\ o = [j \in 1 .. p |-> Encrypted(g, g.IV + j - 1)]
                  /\ r = [prng |-> h, out |-> o]
  BY <1>7, Zenon
<1>9. r.prng = h /\ r.out = [j \in 1 .. p |-> Encrypted(g, g.IV + j - 1)]
  <2>1. r.prng = h /\ r.out = o
    BY <1>8
  <2>2. QED BY <1>8, <2>1, Zenon
<1>10. /\ IsPrng(h) /\ h.pool = g.pool /\ h.reset_cnt = g.reset_cnt
       /\ h.K = Append(g.K, NewKey(g.IV + p)) /\ h.IV = g.IV + p + 2
  <2>1. IsPrng(g)
    BY <1>6 DEF PoolsGiven
  <2>2. PICK k, i : k = Append(g.K, NewKey(g.IV + p)) /\ i = g.IV + p + 2
    OBVIOUS
  <2>3. h = [g EXCEPT !.K = k, !.IV = i]
    BY <1>8, <2>2
  <2>4. QED BY <2>1, <2>2, <2>3 DEF IsPrng
<1>11. PICK key : key = NewKey(g.IV + p)
  OBVIOUS
<1>12. key \in Keys /\ key.entropy = <<>>
  <2>1. g.IV \in Nat /\ <<>> \in Seq(Nat)
    BY <1>6, EmptySeq DEF Fresh
  <2>2. QED BY <1>11, <2>1 DEF NewKey, Keys
<1>13. PoolsGiven(h, n)
  BY <1>6, <1>10, <1>11, <1>12, KeyRead, Zenon
<1>14. Fresh(h, out \o [j \in 1 .. p |-> Encrypted(g, g.IV + j - 1)])
  BY <1>6, <1>10, FreshRead, Zenon
<1>15. QED BY <1>9, <1>13, <1>14

LEMMA FortunaInitial == FortunaInit => FortunaInv
<1>1. <<>> \in Seq({0}) /\ Len(<<>>) = 0
  BY EmptySeq
<1>2. QED BY <1>1, StartedGiven DEF FortunaInit, FortunaInv

LEMMA FortunaStep == FortunaInv /\ [FortunaNext]_fortunaVars => FortunaInv'
<1>1. SUFFICES ASSUME FortunaInv, [FortunaNext]_fortunaVars PROVE FortunaInv'
  OBVIOUS
<1>2. CASE UNCHANGED fortunaVars
  BY <1>1, <1>2 DEF FortunaInv, fortunaVars
<1>3. CASE FortunaNext
  <2>1. PICK size \in ReadSizes : cryptographic_prng(size)
    BY <1>3 DEF FortunaNext
  <2>2. PICK got \in IF initialized THEN {0} ELSE SystemRandom :
          LET random == fortuna_add_entropy(Started, 0, got)
              begun == IF initialized THEN fortuna
                       ELSE fortuna_reseed(fortuna_add_entropy(random, Pieces(got), TimeSize))
              read == fortuna_read(begun, size)
          IN  /\ chunks' = IF initialized THEN chunks ELSE [n \in 1 .. (Pieces(got) + 1) |-> 0]
              /\ fortuna' = read.prng
              /\ produced' = produced \o read.out
    BY <2>1, Zenon DEF cryptographic_prng
  <2>3. initialized' = TRUE
    BY <2>1 DEF cryptographic_prng
  <2>4. PICK begun : begun = IF initialized THEN fortuna
                             ELSE fortuna_reseed(fortuna_add_entropy(fortuna_add_entropy(Started, 0, got),
                                                                     Pieces(got), TimeSize))
    OBVIOUS
  <2>5. PICK read : read = fortuna_read(begun, size)
    OBVIOUS
  <2>6. /\ chunks' = IF initialized THEN chunks ELSE [n \in 1 .. (Pieces(got) + 1) |-> 0]
        /\ fortuna' = read.prng /\ produced' = produced \o read.out
    BY <2>2, <2>4, <2>5, Zenon
  <2>7. PICK n \in Nat : n = Len(chunks') /\ chunks' \in Seq({0}) /\ PoolsGiven(begun, n) /\ Fresh(begun, produced)
    <3>1. CASE initialized
      <4>1. chunks' = chunks /\ begun = fortuna /\ Len(chunks) \in Nat
        BY <1>1, <2>4, <2>6, <3>1 DEF FortunaInv
      <4>2. QED BY <1>1, <4>1 DEF FortunaInv
    <3>2. CASE ~ initialized
      <4>1. got \in Nat /\ produced = <<>>
        BY <1>1, <3>2, FortunaAssumption DEF FortunaInv
      <4>2. PICK p \in Nat : p = Pieces(got) + 1
        BY <4>1, PiecesType
      <4>3. chunks' = [j \in 1 .. p |-> 0]
        BY <2>6, <3>2, <4>2
      <4>4. chunks' \in Seq({0}) /\ Len(chunks') = p
        BY <4>3
      <4>5. PoolsGiven(begun, Pieces(got) + 1) /\ Fresh(begun, <<>>)
        <5>1. begun = fortuna_reseed(fortuna_add_entropy(fortuna_add_entropy(Started, 0, got),
                                                         Pieces(got), TimeSize))
          BY <2>4, <3>2, Zenon
        <5>2. QED BY <4>1, <5>1, Begun, Zenon
      <4>6. QED BY <4>1, <4>2, <4>4, <4>5
    <3>3. QED BY <1>1, <3>1, <3>2 DEF FortunaInv
  <2>8. size \in Nat
    BY FortunaAssumption
  <2>9. PoolsGiven(read.prng, n) /\ Fresh(read.prng, produced \o read.out)
    BY <2>5, <2>7, <2>8, ReadGiven, Zenon
  <2>10. PoolsGiven(fortuna', Len(chunks')) /\ Fresh(fortuna', produced')
    BY <2>6, <2>7, <2>9, Zenon
  <2>11. FortunaInv'
    <3>1. /\ initialized' \in BOOLEAN /\ chunks' \in Seq({0})
          /\ PoolsGiven(fortuna', Len(chunks')) /\ Fresh(fortuna', produced')
          /\ initialized'
      BY <2>3, <2>7, <2>10
    <3>2. QED BY <3>1 DEF FortunaInv
  <2>12. QED BY <2>11
<1>4. QED BY <1>1, <1>2, <1>3

-----------------------------------------------------------------------------
(* What the invariant says of every piece of entropy and of every block      *)

LEMMA RoundsDue ==
  ASSUME NEW p \in Nat, p >= 1, NEW c \in Nat
  PROVE  (\E r \in 1 .. c : r % p = 0) <=> p <= c
<1>1. ASSUME p <= c PROVE \E r \in 1 .. c : r % p = 0
  <2>1. p * 1 = p /\ (p * 1) % p = 0
    BY Multiple
  <2>2. p \in 1 .. c
    BY <1>1
  <2>3. QED BY <2>1, <2>2
<1>2. ASSUME NEW r \in 1 .. c, r % p = 0 PROVE p <= c
  <2>1. 0 % p = 0 /\ r % p = 0 /\ 0 < r /\ r \in Int /\ 0 \in Int
    <3>1. p * 0 = 0 /\ (p * 0) % p = 0
      BY Multiple
    <3>2. QED BY <1>2, <3>1
  <2>2. 0 + p <= r
    BY <2>1, MultipleGap
  <2>3. QED BY <2>2
<1>3. QED BY <1>1, <1>2

LEMMA FoldedOnce ==
  ASSUME NEW keys, NEW c \in Nat, NEW n \in Nat, KeysGiven(keys, c, n), NEW p \in 1 .. n,
         NEW x \in 0 .. Pools - 1, x = (p - 1) % Pools,
         NEW S, S = {e \in (DOMAIN keys) \X (1 .. n) :
                       LET entropy == keys[e[1]].entropy
                       IN  e[2] \in DOMAIN entropy /\ entropy[e[2]] = p}
  PROVE  Cardinality(S) = IF 2 ^ x <= c THEN 1 ELSE 0
<1>1. /\ keys \in Seq(Keys) /\ DOMAIN keys = 1 .. Len(keys)
      /\ \A k \in 1 .. Len(keys) :
           \/ keys[k].entropy = <<>>
           \/ \E y \in 0 .. Pools - 1 : 2 ^ y <= c /\ keys[k].entropy = Share(n, y)
  BY DEF KeysGiven
<1>2. ASSUME NEW k \in 1 .. Len(keys), NEW j \in DOMAIN keys[k].entropy, keys[k].entropy[j] = p
      PROVE  2 ^ x <= c /\ keys[k].entropy = Share(n, x) /\ keys[k].entropy # <<>>
  <2>1. keys[k].entropy # <<>>
    BY <1>2
  <2>2. PICK y \in 0 .. Pools - 1 : 2 ^ y <= c /\ keys[k].entropy = Share(n, y)
    BY <1>1, <2>1
  <2>3. \E m \in DOMAIN Share(n, y) : Share(n, y)[m] = p
    BY <1>2, <2>2, Zenon
  <2>4. y = (p - 1) % Pools
    BY <2>3, ShareHas, Zenon
  <2>5. y = x
    BY <2>4
  <2>6. QED BY <2>1, <2>2, <2>5
<1>3. \A e \in S : /\ e[1] \in 1 .. Len(keys) /\ e[2] \in 1 .. n /\ e = <<e[1], e[2]>>
                   /\ e[2] \in DOMAIN keys[e[1]].entropy /\ keys[e[1]].entropy[e[2]] = p
  BY <1>1
<1>4. CASE ~ (2 ^ x <= c)
  <2>1. S = {}
    BY <1>2, <1>3, <1>4
  <2>2. QED BY <1>4, <2>1, FS_EmptySet
<1>5. CASE 2 ^ x <= c
  <2>1. PICK k \in 1 .. Len(keys) : OnlyIn(keys, k, Share(n, x))
    BY <1>5 DEF KeysGiven
  <2>2. PICK j \in DOMAIN Share(n, x) : Share(n, x)[j] = p
    BY ShareHas
  <2>3. j \in 1 .. n
    <3>1. DOMAIN Share(n, x) = 1 .. Len(Share(n, x)) /\ Len(Share(n, x)) \in 0 .. n
      BY ShareType
    <3>2. QED BY <3>1
  <2>4. <<k, j>> \in S
    <3>1. keys[k].entropy = Share(n, x)
      BY <2>1 DEF OnlyIn
    <3>2. <<k, j>> \in (DOMAIN keys) \X (1 .. n) /\ <<k, j>>[1] = k /\ <<k, j>>[2] = j
      BY <1>1, <2>3
    <3>3. QED BY <2>2, <3>1, <3>2
  <2>5. ASSUME NEW e \in S PROVE e = <<k, j>>
    <3>1. keys[e[1]].entropy = Share(n, x) /\ keys[e[1]].entropy # <<>>
      BY <1>2, <1>3
    <3>2. e[1] = k
      BY <1>3, <2>1, <3>1 DEF OnlyIn
    <3>3. e[2] \in DOMAIN Share(n, x) /\ Share(n, x)[e[2]] = p
      BY <1>3, <3>1
    <3>4. \A a, b \in DOMAIN Share(n, x) : Share(n, x)[a] = Share(n, x)[b] => a = b
      BY ShareType
    <3>5. e[2] = j
      BY <2>2, <3>3, <3>4
    <3>6. QED BY <1>3, <3>2, <3>5
  <2>6. S = {<<k, j>>}
    BY <2>4, <2>5
  <2>7. QED BY <1>5, <2>6, FS_Singleton
<1>6. QED BY <1>4, <1>5

LEMMA ScheduleKept == FortunaInv => PoolSchedule
<1>1. SUFFICES ASSUME FortunaInv, NEW p \in DOMAIN chunks
               PROVE  LET x == (p - 1) % Pools
                          due == \E r \in (chunks[p] + 1) .. fortuna.reset_cnt : r % 2^x = 0
                      IN  /\ \A y \in DOMAIN fortuna.pool :
                               (\E j \in DOMAIN fortuna.pool[y] : fortuna.pool[y][j] = p)
                                 <=> (y = x /\ ~due)
                          /\ Cardinality(Folded(p)) = IF due THEN 1 ELSE 0
  BY DEF PoolSchedule
<1>2. PICK n \in Nat : n = Len(chunks) /\ DOMAIN chunks = 1 .. n /\ p \in 1 .. n /\ chunks[p] = 0
  BY <1>1 DEF FortunaInv
<1>3. PoolsGiven(fortuna, n)
  BY <1>1, <1>2 DEF FortunaInv
<1>4. PICK c \in Nat : /\ c = fortuna.reset_cnt /\ KeysGiven(fortuna.K, c, n)
                       /\ fortuna.pool = [x \in 0 .. Pools - 1 |-> IF 2 ^ x <= c THEN <<>> ELSE Share(n, x)]
  BY <1>3 DEF PoolsGiven
<1>5. PICK x \in 0 .. Pools - 1 : x = (p - 1) % Pools
  <2>1. Pools \in Nat /\ Pools >= 1 /\ p - 1 \in Int
    BY <1>2, FortunaAssumption
  <2>2. (p - 1) % Pools \in 0 .. Pools - 1
    BY <2>1
  <2>3. QED BY <2>2
<1>6. PICK w \in Nat : w = 2 ^ x /\ w >= 1
  BY FortunaAssumption, PowerPositive
<1> DEFINE due == \E r \in (chunks[p] + 1) .. fortuna.reset_cnt : r % 2^x = 0
<1>7. due <=> 2 ^ x <= c
  <2>1. due <=> \E r \in 1 .. c : r % w = 0
    BY <1>2, <1>4, <1>6
  <2>2. (\E r \in 1 .. c : r % w = 0) <=> w <= c
    BY <1>6, RoundsDue, Zenon
  <2>3. QED BY <1>6, <2>1, <2>2
<1> HIDE DEF due
<1>8. ASSUME NEW y \in DOMAIN fortuna.pool
      PROVE  (\E j \in DOMAIN fortuna.pool[y] : fortuna.pool[y][j] = p) <=> (y = x /\ ~due)
  <2>1. y \in 0 .. Pools - 1
    BY <1>4, <1>8
  <2>2. (\E m \in DOMAIN Share(n, y) : Share(n, y)[m] = p) <=> y = x
    BY <1>2, <1>5, <2>1, ShareHas
  <2>3. CASE 2 ^ y <= c
    <3>1. fortuna.pool[y] = <<>>
      BY <1>4, <2>1, <2>3
    <3>2. QED BY <1>7, <2>3, <3>1
  <2>4. CASE ~ (2 ^ y <= c)
    <3>1. fortuna.pool[y] = Share(n, y)
      BY <1>4, <2>1, <2>4
    <3>2. QED BY <1>7, <2>2, <2>4, <3>1
  <2>5. QED BY <2>3, <2>4
<1>9. Cardinality(Folded(p)) = IF due THEN 1 ELSE 0
  <2>1. PICK keys, S : keys = fortuna.K /\ S = Folded(p)
    OBVIOUS
  <2>2. S = {e \in (DOMAIN keys) \X (1 .. n) :
               LET entropy == keys[e[1]].entropy
               IN  e[2] \in DOMAIN entropy /\ entropy[e[2]] = p}
    BY <1>2, <2>1 DEF Folded
  <2>3. Cardinality(S) = IF 2 ^ x <= c THEN 1 ELSE 0
    <3>1. KeysGiven(keys, c, n) /\ p \in 1 .. n
      BY <1>2, <1>4, <2>1
    <3>2. QED BY <1>5, <2>2, <3>1, FoldedOnce
  <2>4. QED BY <1>7, <2>1, <2>3
<1>10. QED BY <1>5, <1>8, <1>9 DEF due

LEMMA FreshSeeds == FortunaInv => SeedsFresh
<1>1. SUFFICES ASSUME FortunaInv PROVE SeedsFresh
  OBVIOUS
<1>2. PoolSchedule
  BY <1>1, ScheduleKept
<1>3. Fresh(fortuna, produced)
  BY <1>1 DEF FortunaInv
<1>4. /\ DOMAIN produced = 1 .. Len(produced) /\ DOMAIN fortuna.K = 1 .. Len(fortuna.K)
      /\ fortuna.K \in Seq(Keys)
  BY <1>3 DEF Fresh
<1>5. \A x, y \in DOMAIN produced : produced[x] = produced[y] => x = y
  <2>1. \A x, y \in DOMAIN produced : produced[x][2] = produced[y][2] => x = y
    BY <1>3, <1>4 DEF Fresh
  <2>2. QED BY <2>1, Zenon
<1>6. ASSUME NEW k \in DOMAIN fortuna.K, fortuna.K[k].kind = "aes", NEW x \in DOMAIN produced, NEW half \in 0 .. 1
      PROVE  produced[x] # KeyHalf(k, half)
  <2>1. produced[x][2] # fortuna.K[k].iv /\ produced[x][2] # fortuna.K[k].iv + 1
    BY <1>3, <1>4, <1>6 DEF Fresh
  <2>2. fortuna.K[k].iv \in Nat
    <3>1. fortuna.K[k] \in Keys
      BY <1>4, <1>6
    <3>2. QED BY <3>1, KeyIv
  <2>3. KeyHalf(k, half)[2] = fortuna.K[k].iv + half
    BY DEF KeyHalf
  <2>4. half = 0 \/ half = 1
    BY <1>6
  <2>5. QED BY <2>1, <2>2, <2>3, <2>4
<1>7. QED BY <1>2, <1>5, <1>6 DEF SeedsFresh

\* Seeds of keyed hashes never repeat and never give away a key: for any number of
\* pools, any period of reseeding and whatever the system returns as randomness
THEOREM SeedsStayFresh == AgreementSpec => []SeedsFresh
<1>1. AgreementInit => FortunaInv
  <2>1. AgreementInit => FortunaInit
    BY DEF AgreementInit, HashInit, HashesIdle
  <2>2. QED BY <2>1, FortunaInitial
<1>2. FortunaInv /\ [AgreementNext]_<<vars, hashVars, tableVars, chunkVars>> => FortunaInv'
  <2>1. [AgreementNext]_<<vars, hashVars, tableVars, chunkVars>> => [FortunaNext]_fortunaVars
    <3>1. UNCHANGED hashVars => UNCHANGED fortunaVars
      BY DEF hashVars
    <3>2. HashNext => [FortunaNext]_fortunaVars
      BY DEF HashNext
    <3>3. QED BY <3>1, <3>2 DEF AgreementNext
  <2>2. QED BY <2>1, FortunaStep
<1>3. QED BY <1>1, <1>2, FreshSeeds, PTL DEF AgreementSpec

-----------------------------------------------------------------------------
(* The hash table of chunks.  First its sizes and its arithmetic.            *)

JobGiven ==
  /\ table.text \in Seq(Nat) /\ Len(table.text) \in Nat
  /\ table.L \in Nat /\ table.L >= 1 /\ table.CYCLES \in Nat /\ table.CYCLES >= 1
  /\ table.block \in Nat /\ table.block >= 1 /\ table.MIN_MATCH \in Nat /\ table.MIN_MATCH >= table.L
  /\ table.block % table.L = 0 /\ table.L % table.CYCLES = 0 /\ table.L % SlicesInBlock = 0

LEMMA JobIs == table \in TableJobs => JobGiven
<1>1. SUFFICES ASSUME table \in TableJobs PROVE JobGiven
  OBVIOUS
<1>2. /\ table.text \in Seq(Nat) /\ {table.block, table.L, table.MIN_MATCH, table.CYCLES} \subseteq Nat \ {0}
      /\ table.block % table.L = 0 /\ table.L % table.CYCLES = 0 /\ table.L % SlicesInBlock = 0
      /\ table.MIN_MATCH >= table.L
  BY <1>1, TableAssumption, Zenon
<1>3. /\ table.block \in Nat /\ table.block # 0 /\ table.L \in Nat /\ table.L # 0
      /\ table.MIN_MATCH \in Nat /\ table.CYCLES \in Nat /\ table.CYCLES # 0
  BY <1>2, Zenon
<1>4. table.block >= 1 /\ table.L >= 1 /\ table.CYCLES >= 1
  BY <1>3
<1>5. Len(table.text) \in Nat
  BY <1>2, LenProperties
<1>6. QED BY <1>2, <1>3, <1>4, <1>5, Zenon DEF JobGiven

LEMMA RoundUp ==
  ASSUME NEW n \in Nat, n >= 1, n <= 2 ^ HashBits
  PROVE  roundup_to_power_of(n) \in Nat /\ roundup_to_power_of(n) >= n
<1> DEFINE Q == {q \in {2 ^ k : k \in 0 .. HashBits} : q >= n}
<1>1. HashBits \in Nat
  BY TableAssumption
<1>2. \A k \in 0 .. HashBits : 2 ^ k \in Nat
  BY <1>1, PowerPositive
<1>3. Q \subseteq Nat
  BY <1>2
<1>4. 2 ^ HashBits \in Q
  BY <1>1
<1>5. \A q \in Q : q >= n
  OBVIOUS
<1>6. roundup_to_power_of(n) = Min(Q)
  BY DEF roundup_to_power_of
<1> HIDE DEF Q
<1>7. Min(Q) \in Q
  BY <1>3, <1>4, MinIs
<1>8. QED BY <1>3, <1>5, <1>6, <1>7

\* How many numbers of chunks and how many slots there are
Sized(m, h) ==
  /\ m \in Nat /\ m >= 1 /\ m = chunknum_mask(FALSE) + 1
  /\ h \in Nat /\ h >= 1 /\ h = hashsize(FALSE)
  /\ \A k \in Nat : (k + 1) * table.L <= Len(table.text) => k < m

LEMMA TableSizes ==
  ASSUME table \in TableJobs
  PROVE  \E m, h : Sized(m, h)
<1>1. JobGiven
  BY JobIs
<1>2. min_hash_size(Max({Len(table.text), table.L}) \div table.L) <= 2 ^ HashBits
  BY TableAssumption, Zenon
<1>3. PICK N \in Nat, l \in Nat : N = Len(table.text) /\ l = table.L /\ l >= 1
  BY <1>1 DEF JobGiven
<1>4. PICK s \in Nat : s = Max({N, l}) /\ s >= N
  BY Max2
<1>5. PICK q \in Nat, r \in 0 .. l - 1 : q = s \div l /\ s = l * q + r
  <2>1. s \in Int /\ s >= 0
    OBVIOUS
  <2>2. s \div l \in Int /\ s % l \in 0 .. l - 1 /\ s = l * (s \div l) + (s % l) /\ (s >= 0 => s \div l >= 0)
    BY <1>3, <2>1, DivMod, Zenon
  <2>3. PICK d \in Int, e \in 0 .. l - 1 : d = s \div l /\ s = l * d + e /\ d >= 0
    BY <2>1, <2>2, Zenon
  <2>4. d \in Nat
    BY <2>3
  <2>5. QED BY <2>3, <2>4, Zenon
<1>6. total_chunks(FALSE) = q
  <2>1. Chunks1024 = q
    BY <1>3, <1>4, <1>5, Zenon DEF Chunks1024, filesize
  <2>2. QED BY <2>1 DEF total_chunks
<1>7. min_hash_size(q) <= 2 ^ HashBits
  BY <1>2, <1>3, <1>4, <1>5, Zenon
<1>8. PICK a \in Nat : a = min_hash_size(q) /\ a >= q + 2 /\ a >= 1
  <2>1. (q \div 4 + 1) * 5 \in Nat /\ (q \div 4 + 1) * 5 >= q + 2 /\ (q \div 4 + 1) * 5 >= 1
    OBVIOUS
  <2>2. QED BY <2>1 DEF min_hash_size
<1>9. 2 ^ HashBits \in Nat
  BY PowerPositive, TableAssumption
<1>10. PICK h \in Nat : h >= 1 /\ h = hashsize(FALSE)
  <2>1. PICK u \in Nat : u = roundup_to_power_of(a) /\ u >= a
    BY <1>7, <1>8, RoundUp
  <2>2. u = hashsize(FALSE)
    BY <1>6, <1>8, <2>1, Zenon DEF hashsize
  <2>3. u >= 1
    BY <1>8, <2>1
  <2>4. QED BY <2>2, <2>3, Zenon
<1>11. PICK m \in Nat : m = chunknum_mask(FALSE) + 1 /\ m >= q + 2
  <2>1. q + 2 \in Nat /\ q + 2 >= 1 /\ q + 2 <= 2 ^ HashBits
    BY <1>7, <1>8, <1>9
  <2>2. PICK u \in Nat : u = q + 2
    OBVIOUS
  <2>3. PICK w \in Nat : w = roundup_to_power_of(u) /\ w >= u
    BY <2>1, <2>2, RoundUp
  <2>4. chunknum_mask(FALSE) = w - 1
    BY <1>6, <2>2, <2>3, Zenon DEF chunknum_mask
  <2>5. chunknum_mask(FALSE) + 1 = w - 1 + 1
    BY <2>4, Zenon
  <2>6. w - 1 + 1 = w /\ w >= q + 2
    BY <2>2, <2>3
  <2>7. QED BY <2>5, <2>6, Zenon
<1>12. ASSUME NEW k \in Nat, (k + 1) * l <= N
       PROVE  k < m
  <2>0. m \in Nat /\ m >= q + 2
    BY <1>11, Zenon
  <2>1. SUFFICES ASSUME q + 1 <= k + 1 PROVE FALSE
    BY <2>0
  <2>2. (q + 1) * l <= (k + 1) * l /\ (q + 1) * l = l * q + l
    BY <2>1, TimesOrder
  <2>3. PICK u \in Int, w \in Int : u = (k + 1) * l /\ w = l * q
    OBVIOUS
  <2>4. w + l <= u /\ u <= N /\ N <= s /\ s = w + r
    BY <1>4, <1>5, <1>12, <2>2, <2>3
  <2>5. QED BY <2>4
<1>13. m >= 1
  <2>1. m \in Nat /\ m >= q + 2
    BY <1>11, Zenon
  <2>2. QED BY <2>1
<1>14. QED BY <1>3, <1>10, <1>11, <1>12, <1>13, Zenon DEF Sized

LEMMA SlotValue ==
  ASSUME NEW m, NEW h, Sized(m, h), NEW x \in Int, NEW k \in Nat, k < m
  PROVE  /\ get_chunk(FALSE, chunkarr_value(FALSE, x, k)) = k
         /\ get_hash(FALSE, chunkarr_value(FALSE, x, k)) = chunkarr_value(FALSE, x, 0)
         /\ k # 0 => chunkarr_value(FALSE, x, k) # NOT_FOUND
<1>1. m \in Nat /\ m >= 1 /\ chunknum_mask(FALSE) + 1 = m
  BY DEF Sized
<1>2. PICK y \in Nat : y = x % ChunkValues
  <2>1. ChunkValues \in Nat /\ ChunkValues >= 1
    BY PowerPositive, TableAssumption DEF ChunkValues
  <2>2. x % ChunkValues \in 0 .. ChunkValues - 1
    BY <2>1, DivMod, Zenon
  <2>3. QED BY <2>1, <2>2
<1>3. PICK q \in Nat, r \in 0 .. m - 1 : r = y % m /\ y = m * q + r
  <2>0. y \in Int /\ y >= 0
    OBVIOUS
  <2>1. y \div m \in Int /\ y % m \in 0 .. m - 1 /\ y = m * (y \div m) + (y % m) /\ (y >= 0 => y \div m >= 0)
    BY <1>1, <2>0, DivMod, Zenon
  <2>2. PICK d \in Int, e \in 0 .. m - 1 : d = y \div m /\ e = y % m /\ y = m * d + e /\ d >= 0
    BY <2>0, <2>1, Zenon
  <2>3. d \in Nat
    BY <2>2
  <2>4. QED BY <2>2, <2>3, Zenon
<1>4. PICK w \in Nat : w = m * q /\ w = y - r
  BY <1>1, <1>3
<1>5. chunkarr_value(FALSE, x, k) = w + k /\ chunkarr_value(FALSE, x, 0) = w
  <2>1. get_chunk(FALSE, y) = r
    BY <1>1, <1>3, Zenon DEF get_chunk
  <2>2. get_hash(FALSE, y) = w
    BY <1>4, <2>1, Zenon DEF get_hash
  <2>3. chunkarr_value(FALSE, x, k) = w + k /\ chunkarr_value(FALSE, x, 0) = w + 0
    BY <1>2, <2>2, Zenon DEF chunkarr_value
  <2>4. w + 0 = w
    OBVIOUS
  <2>5. QED BY <2>3, <2>4, Zenon
<1>6. PICK v \in Nat : v = w + k
  OBVIOUS
<1>7. v % m = k
  <2>1. v = m * q + k /\ k \in 0 .. m - 1 /\ v \in Int /\ q \in Int
    <3>1. m * q + k = w + k /\ m \in Nat
      BY <1>1, <1>4, Zenon
    <3>2. QED BY <1>6, <3>1
  <2>2. m \in Nat /\ m >= 1
    BY <1>1, Zenon
  <2>3. QED BY <2>1, <2>2, DivUnique, Zenon
<1>8. get_chunk(FALSE, v) = k
  BY <1>1, <1>7, Zenon DEF get_chunk
<1>9. get_hash(FALSE, v) = v - k
  BY <1>8, Zenon DEF get_hash
<1>10. v - k = w /\ (k # 0 => v # 0)
  BY <1>6
<1>11. QED BY <1>5, <1>6, <1>8, <1>9, <1>10 DEF NOT_FOUND

-----------------------------------------------------------------------------
(* Bytes and their hashes *)

LEMMA BytesType ==
  ASSUME JobGiven, NEW p \in Nat, NEW n \in Nat, p + n <= Len(table.text)
  PROVE  /\ BytesAt(p, n) \in Seq(Nat) /\ Len(BytesAt(p, n)) = n
         /\ \A i \in 1 .. n : BytesAt(p, n)[i] = table.text[p + i]
<1> DEFINE s == table.text
           t == SubSeq(s, p + 1, p + n)
<1>1. s \in Seq(Nat) /\ Len(s) \in Nat /\ p + n <= Len(s)
  BY DEF JobGiven
<1> HIDE DEF s
<1>2. t \in Seq(Nat) /\ Len(t) = n /\ \A i \in 1 .. n : t[i] = s[p + i]
  <2>1. p + 1 \in 1 .. Len(s) + 1 /\ p + n \in (p + 1) - 1 .. Len(s)
    BY <1>1
  <2>2. /\ t \in Seq(Nat)
        /\ Len(t) = IF p + 1 <= p + n THEN (p + n) - (p + 1) + 1 ELSE 0
        /\ \A i \in 1 .. (p + n) - (p + 1) + 1 : t[i] = s[(p + 1) + i - 1]
    BY <1>1, <2>1, SubSeqProperties
  <2> HIDE DEF t
  <2>3. (p + n) - (p + 1) + 1 = n /\ \A i \in 1 .. n : (p + 1) + i - 1 = p + i
    OBVIOUS
  <2>4. Len(t) = n
    BY <2>2, <2>3
  <2>5. QED BY <2>2, <2>3, <2>4
<1>3. QED BY <1>2 DEF t, s, BytesAt

LEMMA PartSame ==
  ASSUME JobGiven, NEW p \in Nat, NEW q \in Nat, NEW n \in Nat,
         p + n <= Len(table.text), q + n <= Len(table.text), BytesAt(p, n) = BytesAt(q, n),
         NEW s \in Nat, NEW m \in Nat, s + m <= n
  PROVE  BytesAt(p + s, m) = BytesAt(q + s, m)
<1>1. PICK N \in Nat : N = Len(table.text) /\ p + n <= N /\ q + n <= N
  BY DEF JobGiven
<1>2. PICK a \in Nat, b \in Nat : a = p + s /\ b = q + s /\ a + m <= N /\ b + m <= N
  BY <1>1
<1>3. /\ BytesAt(a, m) \in Seq(Nat) /\ Len(BytesAt(a, m)) = m
      /\ \A i \in 1 .. m : BytesAt(a, m)[i] = table.text[a + i]
  BY <1>1, <1>2, BytesType
<1>4. /\ BytesAt(b, m) \in Seq(Nat) /\ Len(BytesAt(b, m)) = m
      /\ \A i \in 1 .. m : BytesAt(b, m)[i] = table.text[b + i]
  BY <1>1, <1>2, BytesType
<1>5. \A i \in 1 .. n : table.text[p + i] = table.text[q + i]
  <2>1. /\ \A i \in 1 .. n : BytesAt(p, n)[i] = table.text[p + i]
        /\ \A i \in 1 .. n : BytesAt(q, n)[i] = table.text[q + i]
    BY BytesType, Zenon
  <2>2. QED BY <2>1, Zenon
<1>6. ASSUME NEW i \in 1 .. m PROVE table.text[a + i] = table.text[b + i]
  <2>1. s + i \in 1 .. n /\ a + i = p + (s + i) /\ b + i = q + (s + i)
    BY <1>2
  <2>2. QED BY <1>5, <2>1
<1>7. BytesAt(a, m) = BytesAt(b, m)
  BY <1>3, <1>4, <1>6, SeqEqual
<1>8. QED BY <1>2, <1>7

\* The recursion of a polynomial hash
HashOn(sum, b) == (sum * (PRIME1 % BigValues) + b) % BigValues
HashStep(v, bytes, j) == IF j = 0 THEN 0 ELSE HashOn(v[j - 1], bytes[j])
HashSteps(bytes, n) == CHOOSE v : v = [j \in 0 .. n |-> HashStep(v, bytes, j)]

LEMMA HashOnType == \A sum, b \in Nat : HashOn(sum, b) \in Nat
<1>1. SUFFICES ASSUME NEW sum \in Nat, NEW b \in Nat PROVE HashOn(sum, b) \in Nat
  OBVIOUS
<1>2. PICK big \in Nat : big = BigValues /\ big >= 1
  BY PowerPositive, TableAssumption DEF BigValues
<1>3. PICK prime \in Nat : prime = PRIME1 % BigValues
  <2>1. PRIME1 \in Int /\ BigValues \in Nat /\ BigValues >= 1
    BY <1>2 DEF PRIME1
  <2>2. PRIME1 % BigValues \in 0 .. BigValues - 1
    BY <2>1, DivMod, Zenon
  <2>3. QED BY <2>1, <2>2
<1>4. PICK c \in Int : c = sum * prime + b
  OBVIOUS
<1>5. c % big \in 0 .. big - 1
  BY <1>2, DivMod, Zenon
<1>6. c % big \in Nat
  BY <1>2, <1>5
<1>7. QED BY <1>2, <1>3, <1>4, <1>6, Zenon DEF HashOn

LEMMA HashType ==
  ASSUME JobGiven, NEW p \in Nat, NEW n \in Nat, p + n <= Len(table.text)
  PROVE  Poly1(p, n) \in Nat
<1>1. PICK bytes : bytes = BytesAt(p, n)
  OBVIOUS
<1>2. bytes \in Seq(Nat) /\ Len(bytes) = n
  BY <1>1, BytesType
<1>5. Poly1(p, n) = HashSteps(bytes, n)[n]
  BY <1>1 DEF Poly1, HashSteps, HashStep, HashOn
<1> DEFINE A == {k \in Nat : k <= n => \E v \in [0 .. k -> Nat] : \A j \in 0 .. k : v[j] = HashStep(v, bytes, j)}
<1>6. 0 \in A
  <2> DEFINE v == [j \in 0 .. 0 |-> 0]
  <2>1. v \in [0 .. 0 -> Nat]
    OBVIOUS
  <2>2. \A j \in 0 .. 0 : v[j] = HashStep(v, bytes, j)
    BY DEF HashStep
  <2>3. QED BY <2>1, <2>2, Zenon
<1>7. ASSUME NEW k \in Nat, k \in A PROVE k + 1 \in A
  <2>1. SUFFICES ASSUME k + 1 <= n
                 PROVE  \E v \in [0 .. k + 1 -> Nat] : \A j \in 0 .. k + 1 : v[j] = HashStep(v, bytes, j)
    OBVIOUS
  <2>2. PICK u \in [0 .. k -> Nat] : \A j \in 0 .. k : u[j] = HashStep(u, bytes, j)
    BY <1>7, <2>1
  <2>3. PICK b \in Nat : b = bytes[k + 1]
    BY <1>2, <2>1
  <2>4. u[k] \in Nat
    OBVIOUS
  <2>5. PICK w \in Nat : w = HashOn(u[k], b)
    BY <2>4, HashOnType
  <2> DEFINE v == [j \in 0 .. k + 1 |-> IF j = k + 1 THEN w ELSE u[j]]
  <2>6. v \in [0 .. k + 1 -> Nat]
    OBVIOUS
  <2>7. v[k + 1] = HashStep(v, bytes, k + 1)
    <3>1. v[k + 1] = w /\ v[k] = u[k] /\ k + 1 # 0 /\ k + 1 - 1 = k
      OBVIOUS
    <3> HIDE DEF v
    <3>2. HashStep(v, bytes, k + 1) = HashOn(v[k], bytes[k + 1])
      BY <3>1 DEF HashStep
    <3>3. QED BY <2>3, <2>5, <3>1, <3>2, Zenon
  <2>8. ASSUME NEW j \in 0 .. k PROVE v[j] = HashStep(v, bytes, j)
    <3>1. v[j] = u[j] /\ (j # 0 => v[j - 1] = u[j - 1])
      OBVIOUS
    <3> HIDE DEF v
    <3>2. u[j] = HashStep(u, bytes, j)
      BY <2>2
    <3>3. HashStep(u, bytes, j) = HashStep(v, bytes, j)
      BY <3>1, Zenon DEF HashStep
    <3>4. QED BY <3>1, <3>2, <3>3
  <2>9. \A j \in 0 .. k + 1 : j = k + 1 \/ j \in 0 .. k
    OBVIOUS
  <2> HIDE DEF v
  <2>10. QED BY <2>6, <2>7, <2>8, <2>9, Zenon
<1>8. PICK v \in [0 .. n -> Nat] : \A j \in 0 .. n : v[j] = HashStep(v, bytes, j)
  <2> HIDE DEF A
  <2>1. \A k \in Nat : k \in A
    BY <1>6, <1>7, AllNumbers
  <2>2. n \in A
    BY <2>1
  <2>3. QED BY <2>2 DEF A
<1>9. v = [j \in 0 .. n |-> HashStep(v, bytes, j)]
  <2>1. v = [j \in 0 .. n |-> v[j]]
    OBVIOUS
  <2>2. QED BY <1>8, <2>1, Zenon
<1> HIDE DEF A
<1>10. HashSteps(bytes, n) = [j \in 0 .. n |-> HashStep(HashSteps(bytes, n), bytes, j)]
  BY <1>9, Zenon DEF HashSteps
<1>11. PICK z : z = HashSteps(bytes, n)
  OBVIOUS
<1>12. z = [j \in 0 .. n |-> HashStep(z, bytes, j)]
  BY <1>10, <1>11, Zenon
<1> DEFINE B == {k \in Nat : k <= n => z[k] \in Nat}
<1>13. 0 \in B
  <2>0. 0 \in 0 .. n
    OBVIOUS
  <2>1. z[0] = HashStep(z, bytes, 0)
    BY <1>12, <2>0, Zenon
  <2>2. QED BY <2>1 DEF HashStep
<1>14. ASSUME NEW k \in Nat, k \in B PROVE k + 1 \in B
  <2>1. SUFFICES ASSUME k + 1 <= n PROVE z[k + 1] \in Nat
    OBVIOUS
  <2>2. z[k] \in Nat /\ k + 1 \in 0 .. n
    BY <1>14, <2>1
  <2>3. z[k + 1] = HashStep(z, bytes, k + 1)
    BY <1>12, <2>2, Zenon
  <2>4. PICK b \in Nat : b = bytes[k + 1]
    BY <1>2, <2>1
  <2>5. k + 1 # 0 /\ k + 1 - 1 = k
    OBVIOUS
  <2>6. HashStep(z, bytes, k + 1) = HashOn(z[k], b)
    BY <2>4, <2>5 DEF HashStep
  <2>7. HashOn(z[k], b) \in Nat
    BY <2>2, HashOnType
  <2>8. QED BY <2>3, <2>6, <2>7
<1> HIDE DEF B
<1>15. \A k \in Nat : k \in B
  BY <1>13, <1>14, AllNumbers
<1>16. z[n] \in Nat
  BY <1>15 DEF B
<1>17. QED BY <1>5, <1>11, <1>16

-----------------------------------------------------------------------------
(* The chain of slots of a hash, and where a walk along it stops             *)

ChainStep(chain, index, k) ==
  IF k = 1 THEN index
  ELSE IF (MAX_HASH_CHAIN - (k - 1)) % 4 = 0 THEN next_hash_slot(chain[k - 1] + 1)
  ELSE (chain[k - 1] + 1) % BigValues
Chain(index) == CHOOSE chain : chain = [k \in 1 .. MAX_HASH_CHAIN |-> ChainStep(chain, index, k)]

LEMMA ChainStepType ==
  ASSUME NEW chain, NEW index \in Int, NEW k \in Nat, k # 0, k = 1 \/ chain[k - 1] \in Int
  PROVE  ChainStep(chain, index, k) \in Int
<1>1. PICK big \in Nat : big = BigValues /\ big >= 1
  BY PowerPositive, TableAssumption DEF BigValues
<1>2. \A c \in Int : c % big \in Int
  <2>1. \A c \in Int : c % big \in 0 .. big - 1
    BY <1>1, DivMod, Zenon
  <2>2. QED BY <1>1, <2>1
<1>3. CASE k = 1
  BY <1>3 DEF ChainStep
<1>4. CASE k # 1
  <2>1. PICK c \in Int : c = chain[k - 1] + 1
    BY <1>4
  <2>2. c % BigValues \in Int
    BY <1>1, <1>2
  <2>3. next_hash_slot(c) \in Int
    <3>1. \A e \in Int : e % BigValues \in Int
      BY <1>1, <1>2
    <3>2. PICK a \in Int, b \in Int : a = 123456791 % BigValues /\ b = 462782923 % BigValues
      BY <3>1, SMT
    <3>3. PICK d \in Int : d = c \div 2 ^ (HashBits \div 4)
      <4>1. HashBits \div 4 \in Nat
        <5>1. HashBits \in Nat
          BY TableAssumption
        <5>2. QED BY <5>1
      <4>2. PICK u \in Nat : u = 2 ^ (HashBits \div 4) /\ u >= 1
        BY <4>1, PowerPositive
      <4>3. c \div u \in Int
        BY <4>2, DivMod, Zenon
      <4>4. QED BY <4>2, <4>3
    <3>4. PICK e \in Int : e = c * a + d + b
      OBVIOUS
    <3>5. e % BigValues \in Int
      BY <3>1
    <3>6. next_hash_slot(c) = e % BigValues
      BY <3>2, <3>3, <3>4, SMT DEF next_hash_slot
    <3>7. QED BY <3>5, <3>6
  <2>4. \/ ChainStep(chain, index, k) = next_hash_slot(c)
        \/ ChainStep(chain, index, k) = c % BigValues
    BY <1>4, <2>1, Zenon DEF ChainStep
  <2>5. QED BY <2>2, <2>3, <2>4
<1>5. QED BY <1>3, <1>4

LEMMA ChainType ==
  ASSUME NEW index \in Int, NEW k \in 1 .. MAX_HASH_CHAIN
  PROVE  Chain(index)[k] \in Int
<1>0. PICK last \in Nat : last = MAX_HASH_CHAIN /\ last >= 1
  BY TableAssumption
<1> DEFINE A == {n \in Nat : n + 1 <= last =>
                   \E v \in [1 .. n + 1 -> Int] : \A j \in 1 .. n + 1 : v[j] = ChainStep(v, index, j)}
<1>1. 0 \in A
  <2> DEFINE v == [j \in 1 .. 1 |-> index]
  <2>1. v \in [1 .. 0 + 1 -> Int]
    OBVIOUS
  <2>2. \A j \in 1 .. 0 + 1 : v[j] = ChainStep(v, index, j)
    BY DEF ChainStep
  <2> HIDE DEF v
  <2>3. QED BY <2>1, <2>2, Zenon
<1>2. ASSUME NEW n \in Nat, n \in A PROVE n + 1 \in A
  <2>1. PICK m \in Nat : m = n + 1 /\ m # 0 /\ m + 1 # 1 /\ m + 1 - 1 = m /\ m + 1 # 0
    OBVIOUS
  <2>2. SUFFICES ASSUME m + 1 <= last
                 PROVE  \E v \in [1 .. m + 1 -> Int] : \A j \in 1 .. m + 1 : v[j] = ChainStep(v, index, j)
    BY <2>1
  <2>3. PICK u \in [1 .. m -> Int] : \A j \in 1 .. m : u[j] = ChainStep(u, index, j)
    BY <1>2, <2>1, <2>2
  <2>4. PICK w \in Int : w = ChainStep(u, index, m + 1)
    <3>1. u[m] \in Int
      BY <2>1, <2>3
    <3>2. u[m + 1 - 1] \in Int
      BY <2>1, <3>1
    <3>3. m + 1 \in Nat
      OBVIOUS
    <3>4. ChainStep(u, index, m + 1) \in Int
      BY <2>1, <3>2, <3>3, ChainStepType
    <3>5. QED BY <3>4
  <2> DEFINE v == [j \in 1 .. m + 1 |-> IF j = m + 1 THEN w ELSE u[j]]
  <2>5. v \in [1 .. m + 1 -> Int]
    BY <2>3
  <2>6. \A j \in 1 .. m : v[j] = u[j]
    OBVIOUS
  <2>7. v[m + 1] = w
    OBVIOUS
  <2> HIDE DEF v
  <2>8. ASSUME NEW j \in 1 .. m + 1 PROVE ChainStep(v, index, j) = ChainStep(u, index, j)
    <3>1. CASE j = 1
      BY <3>1 DEF ChainStep
    <3>2. CASE j # 1
      <4>1. j - 1 \in 1 .. m
        BY <3>2
      <4>2. v[j - 1] = u[j - 1]
        BY <2>6, <4>1
      <4>3. QED BY <4>2, Zenon DEF ChainStep
    <3>3. QED BY <3>1, <3>2
  <2>9. ASSUME NEW j \in 1 .. m + 1 PROVE v[j] = ChainStep(v, index, j)
    <3>1. CASE j = m + 1
      BY <2>4, <2>7, <2>8, <3>1
    <3>2. CASE j # m + 1
      <4>1. j \in 1 .. m
        BY <3>2
      <4>2. QED BY <2>3, <2>6, <2>8, <4>1
    <3>3. QED BY <3>1, <3>2
  <2>10. QED BY <2>5, <2>9, Zenon
<1>3. PICK u : u \in [1 .. last -> Int] /\ \A j \in 1 .. last : u[j] = ChainStep(u, index, j)
  <2> HIDE DEF A
  <2>1. \A n \in Nat : n \in A
    BY <1>1, <1>2, AllNumbers
  <2>2. PICK n \in Nat : n + 1 = last
    BY <1>0
  <2>3. n \in A /\ n + 1 <= last
    BY <1>0, <2>1, <2>2
  <2>4. \E v \in [1 .. n + 1 -> Int] : \A j \in 1 .. n + 1 : v[j] = ChainStep(v, index, j)
    BY <2>3 DEF A
  <2>5. QED BY <2>2, <2>4
<1> HIDE DEF A
<1>4. u = [j \in 1 .. MAX_HASH_CHAIN |-> ChainStep(u, index, j)]
  <2>1. u = [j \in 1 .. last |-> u[j]]
    BY <1>3
  <2>2. QED BY <1>0, <1>3, <2>1, Zenon
<1>5. Chain(index) = [j \in 1 .. MAX_HASH_CHAIN |-> ChainStep(Chain(index), index, j)]
  BY <1>4, Zenon DEF Chain
<1>6. PICK z : z = Chain(index)
  OBVIOUS
<1>7. \A j \in 1 .. last : z[j] = ChainStep(z, index, j)
  <2>1. z = [j \in 1 .. last |-> ChainStep(z, index, j)]
    BY <1>0, <1>5, <1>6, Zenon
  <2>2. QED BY <2>1, Zenon
<1> DEFINE B == {n \in Nat : n + 1 <= last => z[n + 1] \in Int}
<1>8. 0 \in B
  <2>1. 1 \in 1 .. last /\ 0 + 1 = 1
    BY <1>0
  <2>2. z[1] = index
    BY <1>7, <2>1 DEF ChainStep
  <2>3. QED BY <2>1, <2>2
<1>9. ASSUME NEW n \in Nat, n \in B PROVE n + 1 \in B
  <2>1. PICK m \in Nat : m = n + 1 /\ m + 1 # 0 /\ m + 1 - 1 = m
    OBVIOUS
  <2>2. SUFFICES ASSUME m + 1 <= last PROVE z[m + 1] \in Int
    BY <2>1
  <2>3. z[m] \in Int /\ m + 1 \in 1 .. last /\ m + 1 \in Nat
    BY <1>9, <2>1, <2>2
  <2>4. z[m + 1 - 1] \in Int
    BY <2>1, <2>3
  <2>5. ChainStep(z, index, m + 1) \in Int
    BY <2>1, <2>3, <2>4, ChainStepType
  <2>6. QED BY <1>7, <2>3, <2>5
<1> HIDE DEF B
<1>10. \A n \in Nat : n \in B
  BY <1>8, <1>9, AllNumbers
<1>11. PICK n \in Nat : n + 1 = k /\ n + 1 <= last
  BY <1>0
<1>12. z[n + 1] \in Int
  BY <1>10, <1>11 DEF B
<1>13. QED BY <1>6, <1>11, <1>12

LEMMA SlotsIs ==
  ASSUME NEW index
  PROVE  Slots(FALSE, index) = [j \in 1 .. MAX_HASH_CHAIN |-> Chain(index)[j] % hashsize(FALSE)]
BY SMT DEF Slots, Chain, ChainStep

LEMMA SlotsType ==
  ASSUME NEW m, NEW h, Sized(m, h), NEW index \in Int
  PROVE  \A k \in 1 .. MAX_HASH_CHAIN : Slots(FALSE, index)[k] \in 0 .. h - 1
<1>1. SUFFICES ASSUME NEW k \in 1 .. MAX_HASH_CHAIN PROVE Slots(FALSE, index)[k] \in 0 .. h - 1
  OBVIOUS
<1>2. Slots(FALSE, index) = [j \in 1 .. MAX_HASH_CHAIN |-> Chain(index)[j] % hashsize(FALSE)]
  BY SlotsIs, Zenon
<1>3. h \in Nat /\ h >= 1 /\ h = hashsize(FALSE)
  BY DEF Sized
<1>4. PICK c \in Int : c = Chain(index)[k]
  BY ChainType
<1>5. c % h \in 0 .. h - 1
  BY <1>3, DivMod, Zenon
<1>6. Slots(FALSE, index)[k] = c % h
  BY <1>2, <1>3, <1>4, Zenon
<1>7. QED BY <1>5, <1>6

\* What stops a walk that looks for a chunk of same
Ends(index, same, entry) ==
  \/ entry = NOT_FOUND
  \/ /\ get_hash(FALSE, entry) = chunkarr_value(FALSE, index, 0)
     /\ get_chunk(FALSE, entry) \in same
StopsIn(stop, index, same, k) ==
  /\ k \in 1 .. MAX_HASH_CHAIN /\ stop.slot = Slots(FALSE, index)[k] /\ (stop.full <=> k = MAX_HASH_CHAIN)
  /\ stop.found = IF k = MAX_HASH_CHAIN THEN NOT_FOUND ELSE get_chunk(FALSE, chunkarr[Slots(FALSE, index)[k]])
  /\ k = MAX_HASH_CHAIN \/ Ends(index, same, chunkarr[Slots(FALSE, index)[k]])
  /\ \A j \in 1 .. MAX_HASH_CHAIN : j < k => ~ Ends(index, same, chunkarr[Slots(FALSE, index)[j]])

LEMMA StopIs ==
  ASSUME NEW index, NEW same
  PROVE  \E k : StopsIn(StopAt(FALSE, index, same), index, same, k)
<1> DEFINE slot == Slots(FALSE, index)
           S == {k \in 1 .. MAX_HASH_CHAIN : k = MAX_HASH_CHAIN \/ Ends(index, same, chunkarr[slot[k]])}
<1>1. StopAt(FALSE, index, same) =
        [slot |-> slot[Min(S)],
         found |-> IF Min(S) = MAX_HASH_CHAIN THEN NOT_FOUND ELSE get_chunk(FALSE, chunkarr[slot[Min(S)]]),
         full |-> Min(S) = MAX_HASH_CHAIN]
  BY DEF StopAt, Ends
<1>2. PICK last \in Nat : last = MAX_HASH_CHAIN /\ last >= 1
  BY TableAssumption
<1>3. S \subseteq Nat /\ last \in S
  <2>1. last \in 1 .. MAX_HASH_CHAIN /\ 1 .. MAX_HASH_CHAIN \subseteq Nat
    BY <1>2
  <2>2. S \subseteq 1 .. MAX_HASH_CHAIN
    OBVIOUS
  <2>3. last \in S
    BY <1>2, <2>1
  <2> HIDE DEF S
  <2>4. QED BY <2>1, <2>2, <2>3, Zenon
<1>4. \A k : k \in S <=> k \in 1 .. MAX_HASH_CHAIN /\ (k = MAX_HASH_CHAIN \/ Ends(index, same, chunkarr[slot[k]]))
  OBVIOUS
<1> HIDE DEF S, slot
<1>5. Min(S) \in S /\ \A j \in S : Min(S) <= j
  BY <1>3, MinIs
<1>6. PICK k : k = Min(S) /\ k \in S /\ k \in Nat
  BY <1>3, <1>5
<1>7. \A j \in 1 .. MAX_HASH_CHAIN : j < k => ~ Ends(index, same, chunkarr[slot[j]])
  <2>1. SUFFICES ASSUME NEW j \in 1 .. MAX_HASH_CHAIN, j < k, j \in S PROVE FALSE
    BY <1>4
  <2>2. k <= j
    BY <1>5, <1>6, <2>1
  <2>3. j \in Nat
    BY <1>3, <2>1
  <2>4. QED BY <1>6, <2>1, <2>2, <2>3
<1>8. PICK f, e : /\ f = (IF k = MAX_HASH_CHAIN THEN NOT_FOUND ELSE get_chunk(FALSE, chunkarr[slot[k]]))
                  /\ e = slot[k]
  OBVIOUS
<1>9. StopAt(FALSE, index, same) = [slot |-> e, found |-> f, full |-> k = MAX_HASH_CHAIN]
  BY <1>1, <1>6, <1>8, Zenon
<1>10. PICK stop : stop = StopAt(FALSE, index, same)
  OBVIOUS
<1>11. stop.slot = e /\ stop.found = f /\ (stop.full <=> k = MAX_HASH_CHAIN)
  <2>1. stop = [slot |-> e, found |-> f, full |-> k = MAX_HASH_CHAIN]
    BY <1>9, <1>10, Zenon
  <2>2. QED BY <2>1, Zenon
<1>12. StopsIn(stop, index, same, k)
  BY <1>4, <1>6, <1>7, <1>8, <1>11, Zenon DEF StopsIn, slot
<1>13. QED BY <1>10, <1>12, Zenon

-----------------------------------------------------------------------------
(* Chunk c is found as long as some slot of its chain, but not the last, has *)
(* a chunk that is the same for all the table knows, and none before is empty *)

IndexOf(c) == hash2(c * table.L)
Alike(c, d) ==
  /\ stored_hash(IndexOf(c)) = stored_hash(IndexOf(d))
  /\ table.digests => ChunkDigest(c) = ChunkDigest(d)
StandsFor(entry, c, known) ==
  /\ get_hash(FALSE, entry) = chunkarr_value(FALSE, IndexOf(c), 0)
  /\ get_chunk(FALSE, entry) \in known /\ Alike(get_chunk(FALSE, entry), c)
Findable(arr, known, c) ==
  \E j \in 1 .. MAX_HASH_CHAIN :
    /\ j < MAX_HASH_CHAIN /\ StandsFor(arr[Slots(FALSE, IndexOf(c))[j]], c, known)
    /\ \A i \in 1 .. MAX_HASH_CHAIN : i <= j => arr[Slots(FALSE, IndexOf(c))[i]] # NOT_FOUND

\* What the slots hold, and the hashes that are kept of the chunks in them
Stocked(arr, hashes, gone) ==
  /\ arr = [s \in 0 .. hashsize(FALSE) - 1 |-> arr[s]]
  /\ \A s \in 0 .. hashsize(FALSE) - 1 :
       arr[s] # NOT_FOUND => get_chunk(FALSE, arr[s]) \in DOMAIN hashes /\ get_chunk(FALSE, arr[s]) # 0
  /\ \A c \in DOMAIN hashes :
       c \in Nat /\ (c + 1) * table.L <= Len(table.text) /\ hashes[c] = stored_hash(IndexOf(c))
  /\ \A c \in DOMAIN hashes \ gone : Findable(arr, DOMAIN hashes, c)

LEMMA StockKept ==
  ASSUME table' = table, NEW arr, NEW hashes, NEW gone
  PROVE  Stocked(arr, hashes, gone)' <=> Stocked(arr, hashes, gone)
BY DEF Stocked, Findable, StandsFor, Alike, IndexOf, hash2, Poly1, BytesAt, ChunkDigest, get_hash, get_chunk,
       chunkarr_value, chunknum_mask, total_chunks, Chunks1024, filesize, Slots, hashsize

\* What add_hash0 and find_match0 compare, without the arrays they compare it in
Digested(known) == \A c \in known : digestarr[c] = ChunkDigest(c)

LEMMA AddedSameIs ==
  ASSUME NEW gone, Stocked(chunkarr, hasharr, gone), NEW k, Digested(DOMAIN hasharr \cup {k})
  PROVE  AddedSame(k) = {c \in DOMAIN hasharr : Alike(c, k)}
<1>1. ASSUME NEW c \in DOMAIN hasharr
      PROVE  /\ hasharr[c] = stored_hash(IndexOf(c)) /\ digestarr[c] = ChunkDigest(c)
             /\ digestarr[k] = ChunkDigest(k)
  BY DEF Stocked, Digested
<1>2. \A c \in DOMAIN hasharr :
        /\ hasharr[c] = stored_hash(hash2(k * table.L))
        /\ table.digests => digestarr[c] = digestarr[k]
        <=> Alike(c, k)
  BY <1>1, Zenon DEF Alike, IndexOf
<1>3. QED BY <1>2, Zenon DEF AddedSame

LEMMA AlikeAll ==
  ASSUME NEW a, NEW b
  PROVE  /\ Alike(a, a) /\ (Alike(a, b) => Alike(b, a))
         /\ \A c : Alike(a, b) /\ Alike(b, c) => Alike(a, c)
BY Zenon DEF Alike

LEMMA IndexType ==
  ASSUME JobGiven, NEW k \in Nat, (k + 1) * table.L <= Len(table.text)
  PROVE  IndexOf(k) \in Nat /\ k * table.L \in Nat /\ k * table.L + table.L <= Len(table.text)
<1>1. PICK n \in Nat : n = table.L
  BY DEF JobGiven
<1>2. PICK p \in Nat : p = k * table.L /\ p + n = (k + 1) * n
  <2>1. k * n \in Nat /\ (k + 1) * n = k * n + n
    OBVIOUS
  <2>2. QED BY <1>1, <2>1
<1>3. p + n <= Len(table.text)
  BY <1>1, <1>2
<1>4. Poly1(p, n) \in Nat
  BY <1>3, HashType
<1>5. IndexOf(k) = Poly1(p, n)
  BY <1>1, <1>2, Zenon DEF IndexOf, hash2
<1>6. QED BY <1>1, <1>2, <1>3, <1>4, <1>5

\* A chunk that is added is found from then on, or is lost with those it hides
LEMMA ChunkAdded ==
  ASSUME table \in TableJobs, Stocked(chunkarr, hasharr, lost),
         NEW k \in Nat, (k + 1) * table.L <= Len(table.text),
         Digested(DOMAIN hasharr \cup {k}),
         NEW stop, stop = StopAt(FALSE, IndexOf(k), AddedSame(k)),
         NEW arr, arr = AddedTo(chunkarr, FALSE, IndexOf(k), k, stop),
         NEW hashes, hashes = [c \in DOMAIN hasharr \cup {k} |->
                                 IF c = k THEN stored_hash(IndexOf(k)) ELSE hasharr[c]],
         NEW gone, gone = lost \cup (IF k = NOT_FOUND THEN {k}
                                     ELSE IF stop.full THEN {k} \cup StoodFor(chunkarr[stop.slot])
                                     ELSE {})
  PROVE  Stocked(arr, hashes, gone)
<1> DEFINE known == DOMAIN hasharr
<1>1. /\ JobGiven /\ IndexOf(k) \in Nat
  BY JobIs, IndexType
<1>2. PICK m, h : Sized(m, h)
  BY TableSizes
<1>3. h \in Nat /\ h = hashsize(FALSE) /\ k < m
  BY <1>2 DEF Sized
<1>4. /\ chunkarr = [s \in 0 .. h - 1 |-> chunkarr[s]]
      /\ \A s \in 0 .. h - 1 :
           chunkarr[s] # NOT_FOUND => get_chunk(FALSE, chunkarr[s]) \in known /\ get_chunk(FALSE, chunkarr[s]) # 0
      /\ \A c \in known :
           c \in Nat /\ (c + 1) * table.L <= Len(table.text) /\ hasharr[c] = stored_hash(IndexOf(c))
      /\ \A c \in known \ lost : Findable(chunkarr, known, c)
  BY <1>3, Zenon DEF Stocked
<1>5. PICK kk : StopsIn(stop, IndexOf(k), AddedSame(k), kk)
  BY StopIs
<1>a. ASSUME NEW c \in known, NEW i \in 1 .. MAX_HASH_CHAIN
      PROVE  Slots(FALSE, IndexOf(c))[i] \in 0 .. h - 1
  <2>1. IndexOf(c) \in Nat
    BY <1>1, <1>4, IndexType, Zenon
  <2>2. IndexOf(c) \in Int
    BY <2>1
  <2>3. QED BY <1>2, <2>2, SlotsType, Zenon
<1>6. DOMAIN hashes = known \cup {k}
      /\ \A c \in DOMAIN hashes :
           c \in Nat /\ (c + 1) * table.L <= Len(table.text) /\ hashes[c] = stored_hash(IndexOf(c))
  BY <1>4
<1>7. CASE k = NOT_FOUND
  <2>1. arr = chunkarr /\ gone = lost \cup {k}
    BY <1>7, Zenon DEF AddedTo
  <2>2. ASSUME NEW c \in DOMAIN hashes \ gone PROVE Findable(arr, DOMAIN hashes, c)
    <3>1. c \in known \ lost
      BY <1>6, <2>1, <2>2
    <3>2. Findable(chunkarr, known, c)
      BY <1>4, <3>1
    <3>3. known \subseteq DOMAIN hashes
      BY <1>6
    <3>4. QED BY <2>1, <3>2, <3>3, Zenon DEF Findable, StandsFor
  <2>3. \A s \in 0 .. h - 1 :
          arr[s] # NOT_FOUND => get_chunk(FALSE, arr[s]) \in DOMAIN hashes /\ get_chunk(FALSE, arr[s]) # 0
    BY <1>4, <1>6, <2>1
  <2>4. arr = [s \in 0 .. h - 1 |-> arr[s]]
    BY <1>4, <2>1
  <2>5. QED BY <1>3, <1>6, <2>2, <2>3, <2>4, Zenon DEF Stocked
<1>8. CASE k # NOT_FOUND
  <2>1. PICK slot, new : /\ slot = stop.slot /\ new = chunkarr_value(FALSE, IndexOf(k), k)
                         /\ arr = [chunkarr EXCEPT ![slot] = new]
    BY <1>8, Zenon DEF AddedTo
  <2>2. /\ kk \in 1 .. MAX_HASH_CHAIN /\ slot = Slots(FALSE, IndexOf(k))[kk] /\ (stop.full <=> kk = MAX_HASH_CHAIN)
        /\ kk = MAX_HASH_CHAIN \/ Ends(IndexOf(k), AddedSame(k), chunkarr[slot])
        /\ \A j \in 1 .. MAX_HASH_CHAIN :
             j < kk => ~ Ends(IndexOf(k), AddedSame(k), chunkarr[Slots(FALSE, IndexOf(k))[j]])
    BY <1>5, <2>1, Zenon DEF StopsIn
  <2>3. slot \in 0 .. h - 1
    <3>1. IndexOf(k) \in Int
      BY <1>1
    <3>2. QED BY <1>2, <2>2, <3>1, SlotsType, Zenon
  <2>4. /\ get_chunk(FALSE, new) = k /\ get_hash(FALSE, new) = chunkarr_value(FALSE, IndexOf(k), 0)
        /\ new # NOT_FOUND
    <3>1. IndexOf(k) \in Int /\ k # 0
      BY <1>1, <1>8 DEF NOT_FOUND
    <3>2. QED BY <1>2, <1>3, <2>1, <3>1, SlotValue, Zenon
  <2>5. /\ arr = [s \in 0 .. h - 1 |-> arr[s]] /\ arr[slot] = new
        /\ \A s \in 0 .. h - 1 : s # slot => arr[s] = chunkarr[s]
    <3>1. \A s \in 0 .. h - 1 : arr[s] = IF s = slot THEN new ELSE chunkarr[s]
      BY <1>4, <2>1
    <3>2. DOMAIN chunkarr = 0 .. h - 1
      BY <1>4
    <3>3. \A s \in 0 .. h - 1 : s # slot => arr[s] = chunkarr[s]
      BY <3>1
    <3>4. QED BY <1>4, <2>1, <2>3, <3>1, <3>3
  <2>6. \A s \in 0 .. h - 1 :
          arr[s] # NOT_FOUND => get_chunk(FALSE, arr[s]) \in DOMAIN hashes /\ get_chunk(FALSE, arr[s]) # 0
    BY <1>4, <1>6, <1>8, <2>4, <2>5 DEF NOT_FOUND
  <2>7. \A s \in 0 .. h - 1 : chunkarr[s] # NOT_FOUND => arr[s] # NOT_FOUND
    BY <2>4, <2>5, Zenon
  <2>8. ASSUME NEW c \in DOMAIN hashes \ gone PROVE Findable(arr, DOMAIN hashes, c)
    <3>1. CASE c = k
      <4>1. ~ stop.full /\ kk # MAX_HASH_CHAIN
        BY <1>8, <2>2, <2>8, <3>1
      <4>2. kk < MAX_HASH_CHAIN
        BY <2>2, <4>1, TableAssumption
      <4>3. StandsFor(arr[Slots(FALSE, IndexOf(k))[kk]], k, DOMAIN hashes)
        BY <1>6, <2>2, <2>4, <2>5, AlikeAll, Zenon DEF StandsFor
      <4>4. ASSUME NEW i \in 1 .. MAX_HASH_CHAIN, i <= kk
            PROVE  arr[Slots(FALSE, IndexOf(k))[i]] # NOT_FOUND
        <5>1. CASE i = kk
          BY <2>2, <2>4, <2>5, <5>1
        <5>2. CASE i # kk
          <6>1. i < kk
            BY <2>2, <4>4, <5>2
          <6>2. chunkarr[Slots(FALSE, IndexOf(k))[i]] # NOT_FOUND
            BY <2>2, <6>1, Zenon DEF Ends
          <6>3. Slots(FALSE, IndexOf(k))[i] \in 0 .. h - 1
            <7>1. IndexOf(k) \in Int
              BY <1>1
            <7>2. QED BY <1>2, <7>1, SlotsType, Zenon
          <6>4. QED BY <2>7, <6>2, <6>3, Zenon
        <5>3. QED BY <5>1, <5>2
      <4>5. QED BY <2>2, <3>1, <4>2, <4>3, <4>4, Zenon DEF Findable
    <3>2. CASE c # k
      <4>1. c \in known \ lost
        BY <1>6, <2>8, <3>2
      <4>2. PICK j \in 1 .. MAX_HASH_CHAIN :
              /\ j < MAX_HASH_CHAIN /\ StandsFor(chunkarr[Slots(FALSE, IndexOf(c))[j]], c, known)
              /\ \A i \in 1 .. MAX_HASH_CHAIN : i <= j => chunkarr[Slots(FALSE, IndexOf(c))[i]] # NOT_FOUND
        BY <1>4, <4>1, Zenon DEF Findable
      <4>3. PICK t : t = Slots(FALSE, IndexOf(c))[j] /\ t \in 0 .. h - 1
        BY <1>a, <4>1
      <4>4. StandsFor(arr[t], c, DOMAIN hashes)
        <5>1. CASE t # slot
          <6>1. arr[t] = chunkarr[t] /\ known \subseteq DOMAIN hashes
            BY <1>6, <2>5, <4>3, <5>1
          <6>2. QED BY <4>2, <4>3, <6>1, Zenon DEF StandsFor
        <5>2. CASE t = slot
          <6>1. PICK d : d = get_chunk(FALSE, chunkarr[slot])
            OBVIOUS
          <6>2. /\ get_hash(FALSE, chunkarr[slot]) = chunkarr_value(FALSE, IndexOf(c), 0)
                /\ d \in known /\ Alike(d, c)
            BY <4>2, <4>3, <5>2, <6>1, Zenon DEF StandsFor
          <6>3. chunkarr[slot] # NOT_FOUND
            <7>1. j <= j
              OBVIOUS
            <7>2. QED BY <4>2, <4>3, <5>2, <7>1, Zenon
          <6>4. ~ stop.full
            <7>1. SUFFICES ASSUME stop.full PROVE FALSE
              OBVIOUS
            <7>2. gone = lost \cup ({k} \cup AddedSame(d))
              BY <1>8, <2>1, <6>1, <6>3, <7>1, Zenon DEF StoodFor
            <7>3. Digested(DOMAIN hasharr \cup {d})
              BY <6>2, Zenon DEF Digested
            <7>4. AddedSame(d) = {e \in DOMAIN hasharr : Alike(e, d)}
              BY <7>3, AddedSameIs, Zenon
            <7>5. c \in AddedSame(d)
              BY <4>1, <6>2, <7>4, AlikeAll, Zenon
            <7>6. QED BY <2>8, <7>2, <7>5, Zenon
          <6>5. Ends(IndexOf(k), AddedSame(k), chunkarr[slot])
            BY <2>2, <6>4, Zenon
          <6>6. /\ get_hash(FALSE, chunkarr[slot]) = chunkarr_value(FALSE, IndexOf(k), 0)
                /\ d \in AddedSame(k)
            BY <6>1, <6>3, <6>5, Zenon DEF Ends
          <6>7. Alike(d, k)
            BY <6>6, AddedSameIs
          <6>8. Alike(k, c)
            BY <6>2, <6>7, AlikeAll, Zenon
          <6>9. k \in DOMAIN hashes
            BY <1>6
          <6>10. QED BY <2>4, <2>5, <5>2, <6>2, <6>6, <6>8, <6>9, Zenon DEF StandsFor
        <5>3. QED BY <5>1, <5>2
      <4>5. \A i \in 1 .. MAX_HASH_CHAIN : i <= j => arr[Slots(FALSE, IndexOf(c))[i]] # NOT_FOUND
        BY <1>a, <2>7, <4>1, <4>2, Zenon
      <4>6. QED BY <4>2, <4>3, <4>4, <4>5, Zenon DEF Findable
    <3>3. QED BY <3>1, <3>2
  <2>9. QED BY <1>3, <1>6, <2>5, <2>6, <2>8, Zenon DEF Stocked
<1>9. QED BY <1>7, <1>8

\* A lookup of the bytes of a chunk that can be found finds a chunk
LEMMA LookupFinds ==
  ASSUME table \in TableJobs, Stocked(chunkarr, hasharr, lost), Digested(DOMAIN hasharr),
         NEW k \in DOMAIN hasharr \ lost, NEW p \in Nat, digestarr[k] = BytesAt(p, table.L),
         NEW hit, hit = StopAt(FALSE, hash2(p), FoundSame(p)).found
  PROVE  /\ hit \in DOMAIN hasharr /\ hit # NOT_FOUND
         /\ table.digests => digestarr[hit] = BytesAt(p, table.L)
<1>1. JobGiven /\ k \in Nat /\ (k + 1) * table.L <= Len(table.text)
  BY JobIs DEF Stocked
<1>2. BytesAt(p, table.L) = ChunkDigest(k)
  BY DEF Digested
<1>3. hash2(p) = IndexOf(k)
  BY <1>2, Zenon DEF hash2, IndexOf, ChunkDigest, Poly1
<1>4. FoundSame(p) = {c \in DOMAIN hasharr : Alike(c, k)}
  <2>1. ASSUME NEW c \in DOMAIN hasharr
        PROVE  hasharr[c] = stored_hash(IndexOf(c)) /\ digestarr[c] = ChunkDigest(c)
    BY DEF Stocked, Digested
  <2>2. \A c \in DOMAIN hasharr :
          /\ hasharr[c] = stored_hash(hash2(p))
          /\ table.digests => digestarr[c] = BytesAt(p, table.L)
          <=> Alike(c, k)
    BY <1>2, <1>3, <2>1, Zenon DEF Alike
  <2>3. QED BY <2>2, Zenon DEF FoundSame
<1>5. PICK kk : StopsIn(StopAt(FALSE, IndexOf(k), FoundSame(p)), IndexOf(k), FoundSame(p), kk)
  BY StopIs
<1> DEFINE slot(j) == Slots(FALSE, IndexOf(k))[j]
<1>6. /\ kk \in 1 .. MAX_HASH_CHAIN
      /\ hit = IF kk = MAX_HASH_CHAIN THEN NOT_FOUND ELSE get_chunk(FALSE, chunkarr[slot(kk)])
      /\ kk = MAX_HASH_CHAIN \/ Ends(IndexOf(k), FoundSame(p), chunkarr[slot(kk)])
      /\ \A j \in 1 .. MAX_HASH_CHAIN : j < kk => ~ Ends(IndexOf(k), FoundSame(p), chunkarr[slot(j)])
  BY <1>3, <1>5, Zenon DEF StopsIn
<1>7. PICK j \in 1 .. MAX_HASH_CHAIN :
        /\ j < MAX_HASH_CHAIN /\ StandsFor(chunkarr[slot(j)], k, DOMAIN hasharr)
        /\ \A i \in 1 .. MAX_HASH_CHAIN : i <= j => chunkarr[slot(i)] # NOT_FOUND
  BY Zenon DEF Stocked, Findable
<1>8. Ends(IndexOf(k), FoundSame(p), chunkarr[slot(j)])
  BY <1>4, <1>7, Zenon DEF Ends, StandsFor
<1> HIDE DEF slot
<1>9. kk <= j
  <2>1. ~ (j < kk)
    BY <1>6, <1>8, Zenon
  <2>2. QED BY <1>6, <1>7, <2>1
<1>10. kk # MAX_HASH_CHAIN
  BY <1>6, <1>7, <1>9, TableAssumption
<1>11. chunkarr[slot(kk)] # NOT_FOUND
  BY <1>6, <1>7, <1>9, Zenon
<1>12. hit = get_chunk(FALSE, chunkarr[slot(kk)]) /\ hit \in FoundSame(p)
  BY <1>6, <1>10, <1>11, Zenon DEF Ends
<1>13. hit \in DOMAIN hasharr /\ Alike(hit, k)
  BY <1>4, <1>12
<1>14. hit # NOT_FOUND
  <2>1. PICK m, h : Sized(m, h)
    BY TableSizes
  <2>2. slot(kk) \in 0 .. hashsize(FALSE) - 1
    <3>1. IndexOf(k) \in Int
      BY <1>1, IndexType
    <3>2. slot(kk) \in 0 .. h - 1 /\ h = hashsize(FALSE)
      BY <1>6, <2>1, <3>1, SlotsType, Zenon DEF slot, Sized
    <3>3. QED BY <3>2, Zenon
  <2>3. get_chunk(FALSE, chunkarr[slot(kk)]) # 0
    BY <1>11, <2>2, Zenon DEF Stocked
  <2>4. QED BY <1>12, <2>3 DEF NOT_FOUND
<1>15. table.digests => digestarr[hit] = BytesAt(p, table.L)
  BY <1>2, <1>13, Zenon DEF Alike, Digested
<1>16. QED BY <1>13, <1>14, <1>15

-----------------------------------------------------------------------------
(* The slices: whatever they refuse would have been too short                *)

LEMMA BytesDiffer ==
  ASSUME JobGiven, NEW x \in Nat, NEW y \in Nat, NEW n \in Nat,
         x + n <= Len(table.text), y + n <= Len(table.text), BytesAt(x, n) # BytesAt(y, n)
  PROVE  \E i \in 1 .. n : table.text[x + i] # table.text[y + i]
<1>1. SUFFICES ASSUME \A i \in 1 .. n : table.text[x + i] = table.text[y + i] PROVE FALSE
  OBVIOUS
<1>2. /\ BytesAt(x, n) \in Seq(Nat) /\ Len(BytesAt(x, n)) = n
      /\ \A i \in 1 .. n : BytesAt(x, n)[i] = table.text[x + i]
  BY BytesType
<1>3. /\ BytesAt(y, n) \in Seq(Nat) /\ Len(BytesAt(y, n)) = n
      /\ \A i \in 1 .. n : BytesAt(y, n)[i] = table.text[y + i]
  BY BytesType
<1>4. BytesAt(x, n) = BytesAt(y, n)
  BY <1>1, <1>2, <1>3, SeqEqual
<1>5. QED BY <1>4

Runs(q, p, bf, len) ==
  /\ bf \in Nat /\ len \in Nat
  /\ \A t \in 1 .. bf : table.text[q - t + 1] = table.text[p - t + 1]
  /\ \A t \in 0 .. len - 1 : table.text[q + t + 1] = table.text[p + t + 1]

LEMMA ExtentIs ==
  ASSUME JobGiven, NEW k \in Nat, NEW p \in Nat, blockStart \in Nat, blockStart <= p,
         BlockEnd \in Nat, p <= BlockEnd
  PROVE  \E bf, len : Runs(k * table.L, p, bf, len) /\ Extent(k, p) = bf + len
<1> DEFINE q == k * table.L
           alike(t) == table.text[q + t + 1] = table.text[p + t + 1]
           cap == Min({q, table.L, p - blockStart})
           B == {n \in 0 .. cap : \A t \in 1 .. n : alike(-t)}
           A == {n \in 0 .. BlockEnd - p : \A t \in 0 .. n - 1 : alike(t)}
<1>1. Extent(k, p) = Max(B) + Max(A)
  BY DEF Extent
<1>2. q \in Nat
  BY DEF JobGiven
<1>3. cap \in Nat
  <2>1. {q, table.L, p - blockStart} \subseteq Nat /\ {q, table.L, p - blockStart} # {}
    BY <1>2 DEF JobGiven
  <2>2. QED BY <2>1, MinIs
<1>4. PICK c \in Nat : c = cap
  BY <1>3
<1>5. PICK e \in Nat : e = BlockEnd - p
  OBVIOUS
<1>6. /\ 0 \in B /\ \A n \in B : n \in Nat /\ n <= c /\ \A t \in 1 .. n : alike(-t)
  BY <1>4
<1>7. /\ 0 \in A /\ \A n \in A : n \in Nat /\ n <= e /\ \A t \in 0 .. n - 1 : alike(t)
  BY <1>5
<1> HIDE DEF A, B, cap
<1>8. PICK bf \in Nat : bf = Max(B) /\ bf \in B
  <2>1. B \subseteq Nat /\ B # {} /\ \A y \in B : y <= c
    BY <1>6
  <2>2. Max(B) \in B
    BY <2>1, MaxIs
  <2>3. QED BY <2>1, <2>2
<1>9. PICK len \in Nat : len = Max(A) /\ len \in A
  <2>1. A \subseteq Nat /\ A # {} /\ \A y \in A : y <= e
    BY <1>7
  <2>2. Max(A) \in A
    BY <2>1, MaxIs
  <2>3. QED BY <2>1, <2>2
<1>10. \A t \in 1 .. bf : table.text[q - t + 1] = table.text[p - t + 1]
  <2>1. SUFFICES ASSUME NEW t \in 1 .. bf PROVE table.text[q - t + 1] = table.text[p - t + 1]
    OBVIOUS
  <2>2. alike(-t)
    BY <1>6, <1>8
  <2>3. q + (-t) + 1 = q - t + 1 /\ p + (-t) + 1 = p - t + 1
    BY <1>2
  <2>4. QED BY <2>2, <2>3
<1>11. \A t \in 0 .. len - 1 : table.text[q + t + 1] = table.text[p + t + 1]
  BY <1>7, <1>9
<1> HIDE DEF q
<1>12. Runs(q, p, bf, len)
  BY <1>10, <1>11 DEF Runs
<1>13. QED BY <1>1, <1>8, <1>9, <1>12 DEF q

SlicesSized(ss, cs) ==
  /\ ss \in Nat /\ ss >= 1 /\ ss = slice_size /\ ss * SlicesInBlock = table.L
  /\ cs \in Int /\ cs = check_slices /\ cs <= SlicesInBlock
  /\ (cs + 1) * ss <= table.MIN_MATCH - table.L

LEMMA SliceSizes ==
  ASSUME table \in TableJobs
  PROVE  \E ss, cs : SlicesSized(ss, cs)
<1>1. JobGiven
  BY JobIs
<1>2. PICK n \in Nat, l \in Nat : n = SlicesInBlock /\ n >= 1 /\ l = table.L /\ l >= 1 /\ l % n = 0
  <2>1. SlicesInBlock \in Nat /\ SlicesInBlock # 0
    BY TableAssumption, Zenon
  <2>2. SlicesInBlock >= 1
    BY <2>1
  <2>3. QED BY <1>1, <2>1, <2>2, Zenon DEF JobGiven
<1>3. PICK z \in Int : l = n * z
  <2>1. l \in Int
    OBVIOUS
  <2>2. QED BY <1>2, <2>1, MultipleIs, Zenon
<1>15. n >= 1 /\ l >= 1
  BY <1>2, Zenon
<1>4. z >= 1
  <2>1. SUFFICES ASSUME z <= 0 PROVE FALSE
    BY <1>3
  <2>2. z * n <= 0 * n /\ z * n = n * z /\ 0 * n = 0
    BY <2>1, TimesOrder
  <2>3. QED BY <1>15, <1>3, <2>2
<1>5. l \div n = z
  <2>1. l = n * z + 0 /\ 0 \in 0 .. n - 1 /\ l \in Int
    BY <1>15, <1>3
  <2>2. QED BY <1>15, <2>1, DivUnique, Zenon
<1>6. slice_size = z
  BY <1>2, <1>5, Zenon DEF slice_size
<1>7. PICK g \in Nat : g = table.MIN_MATCH - table.L
  BY <1>1 DEF JobGiven
<1>8. PICK d \in Int, r \in 0 .. z - 1 : d = g \div z /\ g = z * d + r
  <2>1. z \in Nat /\ g \in Int
    BY <1>4
  <2>2. g \div z \in Int /\ g % z \in 0 .. z - 1 /\ g = z * (g \div z) + (g % z)
    BY <1>4, <2>1, DivMod, Zenon
  <2>3. QED BY <2>2, Zenon
<1>9. PICK c \in Int : c = d - 1 /\ c + 1 = d
  OBVIOUS
<1>10. check_slices = c
  BY <1>6, <1>7, <1>8, <1>9, Zenon DEF check_slices
<1>11. c <= n
  <2>1. (table.MIN_MATCH - table.L) \div (table.L \div SlicesInBlock) - 1 <= SlicesInBlock
    BY TableAssumption, Zenon
  <2>2. QED BY <1>2, <1>5, <1>7, <1>8, <1>9, <2>1, Zenon
<1>12. (c + 1) * z <= g
  <2>1. (c + 1) * z = z * d /\ z * d \in Int
    BY <1>9
  <2>2. r \in Int /\ r >= 0
    BY <1>4
  <2>3. QED BY <1>8, <2>1, <2>2
<1>13. z * n = l /\ z \in Nat
  BY <1>3, <1>4
<1>14. QED BY <1>2, <1>4, <1>6, <1>7, <1>10, <1>11, <1>12, <1>13, Zenon DEF SlicesSized

\* The whole numbers of one lookup: the match at q, the block from b to e, its slices
Placed(hit, p, q, n, e, last) ==
  /\ hit \in Nat /\ hit # 0 /\ p \in Nat /\ n = table.L /\ n \in Nat /\ q \in Nat /\ q = hit * n /\ q <= p
  /\ blockStart \in Nat /\ blockStart <= p /\ e = BlockEnd /\ e \in Nat /\ p <= e /\ e <= Len(table.text)
  /\ last \in Int /\ slices = [c \in 0 .. last |-> SlicesOf(c * n)]
  /\ \A c \in Nat : (c + 1) * n <= e => c <= last

\* Slice j of the chunk after the match, slice k before its end of the chunk before it
LEMMA SliceAfter ==
  ASSUME JobGiven, NEW hit, NEW p, NEW q, NEW n, NEW e, NEW last, Placed(hit, p, q, n, e, last),
         NEW ss, NEW cs, SlicesSized(ss, cs), p + 2 * n <= e,
         NEW j \in 0 .. SlicesInBlock - 1,
         slices[hit + 1][j] # SliceOf(p + table.L + j * slice_size)
  PROVE  \E t \in Nat : /\ t <= n + (j + 1) * ss - 1
                        /\ table.text[q + t + 1] # table.text[p + t + 1]
<1>1. p \in Nat /\ n \in Nat /\ q \in Nat /\ q <= p /\ e \in Nat
  BY Zenon DEF Placed
<1>16. hit \in Nat /\ hit # 0 /\ q = hit * n
  BY Zenon DEF Placed
<1>17. last \in Int /\ slices = [c \in 0 .. last |-> SlicesOf(c * n)]
  BY Zenon DEF Placed
<1>18. \A c \in Nat : (c + 1) * n <= e => c <= last
  BY Zenon DEF Placed
<1>19. n = table.L /\ e <= Len(table.text)
  BY Zenon DEF Placed
<1>20. PICK z \in Nat : z = Len(table.text) /\ e <= z
  BY <1>19 DEF JobGiven
<1>2. ss \in Nat /\ ss >= 1
  BY Zenon DEF SlicesSized
<1>21. ss = slice_size /\ ss * SlicesInBlock = n
  BY <1>19, Zenon DEF SlicesSized
<1>3. PICK m \in Nat : m = SlicesInBlock /\ m >= 1
  BY TableAssumption
<1>4. PICK u \in Nat : u = j * ss /\ (j + 1) * ss = u + ss /\ u + ss <= n
  <2>1. (j + 1) * ss <= m * ss /\ m * ss = ss * m /\ (j + 1) * ss = j * ss + ss
    BY <1>2, <1>3, TimesOrder
  <2>2. j * ss \in Nat
    BY <1>2, <1>3
  <2>4. m * ss = n
    BY <1>21, <1>3, <1>2
  <2>3. QED BY <1>1, <1>2, <2>1, <2>2, <2>4
<1>5. (hit + 1) * n = q + n /\ (hit + 1 + 1) * n = q + 2 * n
  BY <1>1, <1>16
<1>6. hit + 1 \in 0 .. last
  <2>1. hit + 1 \in Nat /\ q + 2 * n <= e
    BY <1>1, <1>16
  <2>2. hit + 1 <= last
    BY <1>5, <1>18, <2>1
  <2>3. QED BY <1>16, <1>17, <2>1, <2>2
<1>7. slices[hit + 1][j] = SliceOf(q + n + u)
  <2>1. slices[hit + 1] = SlicesOf((hit + 1) * n)
    BY <1>6, <1>17
  <2>2. SlicesOf((hit + 1) * n)[j] = SliceOf((hit + 1) * n + j * slice_size)
    BY DEF SlicesOf
  <2>3. (hit + 1) * n + j * slice_size = q + n + u
    BY <1>21, <1>4, <1>5
  <2>4. QED BY <2>1, <2>2, <2>3, Zenon
<1>8. PICK x \in Nat, y \in Nat : x = q + n + u /\ y = p + n + u /\ x + ss <= e /\ y + ss <= e
  BY <1>1, <1>2, <1>4
<1>9. p + table.L + j * slice_size = y
  BY <1>19, <1>21, <1>4, <1>8
<1>10. SliceOf(x) # SliceOf(y)
  BY <1>7, <1>8, <1>9, Zenon
<1>11. BytesAt(x, ss) # BytesAt(y, ss)
  BY <1>21, <1>10, Zenon DEF SliceOf
<1>12. PICK i \in 1 .. ss : table.text[x + i] # table.text[y + i]
  <2>1. x + ss <= Len(table.text) /\ y + ss <= Len(table.text)
    BY <1>1, <1>2, <1>8, <1>20
  <2>2. QED BY <1>2, <1>11, <2>1, BytesDiffer
<1>13. PICK t \in Nat : t = n + u + i - 1
  BY <1>1, <1>2, <1>4
<1>14. t <= n + (j + 1) * ss - 1 /\ q + t + 1 = x + i /\ p + t + 1 = y + i
  BY <1>1, <1>2, <1>4, <1>8, <1>13
<1>15. QED BY <1>12, <1>14

LEMMA SliceBefore ==
  ASSUME JobGiven, NEW hit, NEW p, NEW q, NEW n, NEW e, NEW last, Placed(hit, p, q, n, e, last),
         NEW ss, NEW cs, SlicesSized(ss, cs), p + 2 * n <= e, p >= n,
         NEW k \in 0 .. SlicesInBlock - 1,
         slices[hit - 1][SlicesInBlock - (k + 1)] # SliceOf(p - (k + 1) * slice_size)
  PROVE  \E t \in 1 .. (k + 1) * ss : table.text[q - t + 1] # table.text[p - t + 1]
<1>1. p \in Nat /\ n \in Nat /\ q \in Nat /\ q <= p /\ e \in Nat
  BY Zenon DEF Placed
<1>16. hit \in Nat /\ hit # 0 /\ q = hit * n
  BY Zenon DEF Placed
<1>17. last \in Int /\ slices = [c \in 0 .. last |-> SlicesOf(c * n)]
  BY Zenon DEF Placed
<1>18. \A c \in Nat : (c + 1) * n <= e => c <= last
  BY Zenon DEF Placed
<1>19. n = table.L /\ e <= Len(table.text)
  BY Zenon DEF Placed
<1>20. PICK z \in Nat : z = Len(table.text) /\ e <= z
  BY <1>19 DEF JobGiven
<1>2. ss \in Nat /\ ss >= 1
  BY Zenon DEF SlicesSized
<1>21. ss = slice_size /\ ss * SlicesInBlock = n
  BY <1>19, Zenon DEF SlicesSized
<1>3. PICK m \in Nat : m = SlicesInBlock /\ m >= 1
  BY TableAssumption
<1>4. PICK u \in Nat : u = (k + 1) * ss /\ u <= n /\ u >= ss
  <2>1. (k + 1) * ss <= m * ss /\ m * ss = ss * m /\ 1 * ss <= (k + 1) * ss /\ 1 * ss = ss
    BY <1>2, <1>3, TimesOrder
  <2>2. (k + 1) * ss \in Nat
    BY <1>2, <1>3
  <2>4. m * ss = n
    BY <1>21, <1>3, <1>2
  <2>3. QED BY <1>1, <1>2, <2>1, <2>2, <2>4
<1>5. PICK g \in Nat : g = hit - 1 /\ hit = g + 1 /\ g * n + n = q /\ g * n \in Nat
  <2>1. hit - 1 \in Nat
    BY <1>16
  <2>2. PICK g \in Nat : g = hit - 1 /\ hit = g + 1
    BY <1>16, <2>1
  <2>3. (g + 1) * n = g * n + n /\ g * n \in Nat
    BY <1>1
  <2>4. QED BY <1>16, <2>2, <2>3
<1>6. g \in 0 .. last
  <2>1. (g + 1) * n <= e
    <3>1. (g + 1) * n = g * n + n
      BY <1>1
    <3>2. QED BY <1>1, <1>5, <3>1
  <2>2. g <= last
    BY <1>18, <2>1
  <2>3. QED BY <1>17, <2>2
<1>7. PICK x \in Nat, y \in Nat : x = q - u /\ y = p - u /\ x + ss <= e /\ y + ss <= e
  <2>1. n <= q
    BY <1>1, <1>5
  <2>2. q - u \in Nat /\ p - u \in Nat
    BY <1>1, <1>4, <2>1
  <2>3. PICK x \in Nat, y \in Nat : x = q - u /\ y = p - u
    BY <2>2
  <2>4. x + ss <= e /\ y + ss <= e
    BY <1>1, <1>2, <1>4, <2>3
  <2>5. QED BY <2>3, <2>4
<1>8. slices[hit - 1][SlicesInBlock - (k + 1)] = SliceOf(x)
  <2>1. PICK w \in Nat : w = SlicesInBlock - (k + 1) /\ w \in 0 .. SlicesInBlock - 1
    BY <1>3
  <2>2. slices[g] = SlicesOf(g * n)
    BY <1>6, <1>17
  <2>3. SlicesOf(g * n)[w] = SliceOf(g * n + w * slice_size)
    BY <2>1 DEF SlicesOf
  <2>4. g * n + w * slice_size = x
    <3>1. w * ss = ss * m - (k + 1) * ss
      BY <1>2, <1>3, <2>1
    <3>2. w * ss = n - u /\ w * slice_size = w * ss
      BY <1>21, <1>3, <1>4, <3>1
    <3>3. QED BY <1>1, <1>4, <1>5, <1>7, <3>2
  <2>5. QED BY <1>5, <2>1, <2>2, <2>3, <2>4, Zenon
<1>9. p - (k + 1) * slice_size = y
  BY <1>21, <1>4, <1>7
<1>10. SliceOf(x) # SliceOf(y)
  BY <1>8, <1>9, Zenon
<1>11. BytesAt(x, ss) # BytesAt(y, ss)
  BY <1>21, <1>10, Zenon DEF SliceOf
<1>12. PICK i \in 1 .. ss : table.text[x + i] # table.text[y + i]
  <2>1. x + ss <= Len(table.text) /\ y + ss <= Len(table.text)
    BY <1>1, <1>2, <1>7, <1>20
  <2>2. QED BY <1>2, <1>11, <2>1, BytesDiffer
<1>13. PICK t \in Nat : t = u - i + 1 /\ t \in 1 .. u
  BY <1>2, <1>4
<1>14. q - t + 1 = x + i /\ p - t + 1 = y + i
  BY <1>1, <1>2, <1>4, <1>7, <1>13
<1>15. QED BY <1>4, <1>12, <1>13, <1>14

\* check of SliceHash refuses no match that is long enough
LEMMA SliceHolds ==
  ASSUME table \in TableJobs, NEW hit, NEW p, NEW q, NEW n, NEW e, NEW last,
         Placed(hit, p, q, n, e, last), Extent(hit, p) >= table.MIN_MATCH
  PROVE  SliceCheck(hit, p)
<1>1. JobGiven
  BY JobIs
<1>2. PICK ss, cs : SlicesSized(ss, cs)
  BY SliceSizes
<1>3. SUFFICES ASSUME check_slices >= 1, p - blockStart >= table.L, BlockEnd - p >= 2 * table.L,
                      ~ SliceCheck(hit, p)
               PROVE  FALSE
  <2>1. ~ SliceCheck(hit, p) => /\ ~ (check_slices <= 0) /\ ~ (p - blockStart < table.L)
                                /\ ~ (BlockEnd - p < 2 * table.L)
    BY DEF SliceCheck
  <2>2. cs = check_slices /\ cs \in Int
    BY <1>2, Zenon DEF SlicesSized
  <2>3. check_slices \in Int
    BY <2>2
  <2>4. blockStart \in Nat /\ p \in Nat /\ BlockEnd \in Nat /\ table.L \in Nat
    BY Zenon DEF Placed
  <2>5. PICK g \in Int, l \in Nat, f \in Int :
          g = p - blockStart /\ l = table.L /\ f = BlockEnd - p
    BY <2>4
  <2>6. ~ (check_slices <= 0) => check_slices >= 1
    BY <2>3
  <2>7. ~ (g < l) => g >= l
    OBVIOUS
  <2>8. ~ (f < 2 * l) => f >= 2 * l
    OBVIOUS
  <2>9. QED BY <2>1, <2>5, <2>6, <2>7, <2>8, Zenon
<1>4. p \in Nat /\ n \in Nat /\ e \in Nat /\ blockStart \in Nat
  BY Zenon DEF Placed
<1>5. ss \in Nat /\ ss >= 1 /\ cs \in Int
  BY <1>2, Zenon DEF SlicesSized
<1>6. cs >= 1 /\ cs = check_slices
  <2>1. cs = check_slices
    BY <1>2, Zenon DEF SlicesSized
  <2>2. QED BY <1>3, <2>1, Zenon
<1>7. n = table.L /\ e = BlockEnd /\ hit \in Nat /\ q = hit * n
  BY Zenon DEF Placed
<1>8. p >= n /\ p + 2 * n <= e
  <2>1. p - blockStart >= n /\ e - p >= 2 * n
    BY <1>3, <1>7, Zenon
  <2>2. QED BY <1>4, <2>1
<1>9. PICK m \in Nat : m = SlicesInBlock /\ cs <= m
  <2>1. SlicesInBlock \in Nat
    BY TableAssumption
  <2>2. cs <= SlicesInBlock
    BY <1>2, Zenon DEF SlicesSized
  <2>3. QED BY <2>1, <2>2, Zenon
<1> DEFINE A == {j \in 0 .. check_slices : j = check_slices
                   \/ slices[hit + 1][j] # SliceOf(p + table.L + j * slice_size)}
           a == Min(A)
           B == {k \in 0 .. check_slices - a : k + a = check_slices
                   \/ slices[hit - 1][SlicesInBlock - (k + 1)] # SliceOf(p - (k + 1) * slice_size)}
           b == Min(B)
<1>10. a # check_slices /\ b + a # check_slices
  <2>1. ~ SliceCheck(hit, p)
    BY <1>3
  <2>2. QED BY <2>1 DEF SliceCheck
<1>11. A \subseteq Nat /\ check_slices \in A
  BY <1>5, <1>6
<1>12. a \in A
  <2> HIDE DEF A
  <2>1. QED BY <1>11, MinIs
<1>13. /\ a \in 0 .. cs /\ a # cs
       /\ slices[hit + 1][a] # SliceOf(p + table.L + a * slice_size)
  <2>1. a \in 0 .. check_slices
    BY <1>12
  <2>2. slices[hit + 1][a] # SliceOf(p + table.L + a * slice_size)
    BY <1>10, <1>12
  <2>3. QED BY <1>6, <1>10, <2>1, <2>2, Zenon
<1> HIDE DEF a
<1>14. B \subseteq Nat /\ check_slices - a \in B
  BY <1>5, <1>6, <1>13
<1>15. b \in B
  <2> HIDE DEF B
  <2>1. QED BY <1>14, MinIs
<1>16. /\ b \in 0 .. cs - a /\ b + a # cs
       /\ slices[hit - 1][SlicesInBlock - (b + 1)] # SliceOf(p - (b + 1) * slice_size)
  <2>1. b \in 0 .. check_slices - a
    BY <1>15
  <2>2. slices[hit - 1][SlicesInBlock - (b + 1)] # SliceOf(p - (b + 1) * slice_size)
    BY <1>10, <1>15
  <2>3. QED BY <1>6, <1>10, <2>1, <2>2, Zenon
<1> HIDE DEF b
<1>17. a \in 0 .. SlicesInBlock - 1 /\ b \in 0 .. SlicesInBlock - 1
  BY <1>5, <1>9, <1>13, <1>16
<1>18. PICK t \in Nat : t <= n + (a + 1) * ss - 1 /\ table.text[q + t + 1] # table.text[p + t + 1]
  <2>1. ASSUME NEW j \in 0 .. SlicesInBlock - 1,
               slices[hit + 1][j] # SliceOf(p + table.L + j * slice_size)
        PROVE  \E i \in Nat : /\ i <= n + (j + 1) * ss - 1
                              /\ table.text[q + i + 1] # table.text[p + i + 1]
    <3>1. p + 2 * n <= e
      BY <1>8
    <3>2. QED BY ONLY <1>1, <1>2, <2>1, <3>1, Placed(hit, p, q, n, e, last), SliceAfter
  <2>2. QED BY <1>13, <1>17, <2>1, Zenon
<1>19. PICK u \in 1 .. (b + 1) * ss : table.text[q - u + 1] # table.text[p - u + 1]
  <2>1. ASSUME NEW k \in 0 .. SlicesInBlock - 1,
               slices[hit - 1][SlicesInBlock - (k + 1)] # SliceOf(p - (k + 1) * slice_size)
        PROVE  \E i \in 1 .. (k + 1) * ss : table.text[q - i + 1] # table.text[p - i + 1]
    <3>1. p + 2 * n <= e /\ p >= n
      BY <1>8
    <3>2. QED BY ONLY <1>1, <1>2, <2>1, <3>1, Placed(hit, p, q, n, e, last), SliceBefore
  <2>2. QED BY <1>16, <1>17, <2>1, Zenon
<1>20. PICK bf, len : Runs(q, p, bf, len) /\ Extent(hit, p) = bf + len
  <2>1. blockStart <= p /\ BlockEnd \in Nat /\ p <= BlockEnd /\ q = hit * table.L
    BY Zenon DEF Placed
  <2>2. \E bf, len : Runs(hit * table.L, p, bf, len) /\ Extent(hit, p) = bf + len
    BY <1>1, <1>4, <1>7, <2>1, ExtentIs
  <2>3. QED BY <2>1, <2>2, Zenon
<1>21. bf \in Nat /\ len \in Nat
  BY <1>20 DEF Runs
<1>22. len <= t
  <2>1. \A i \in 0 .. len - 1 : table.text[q + i + 1] = table.text[p + i + 1]
    BY <1>20 DEF Runs
  <2>2. ~ (t \in 0 .. len - 1)
    BY <1>18, <2>1, Zenon
  <2>3. QED BY <1>21, <2>2
<1>23. bf < u
  <2>1. \A i \in 1 .. bf : table.text[q - i + 1] = table.text[p - i + 1]
    BY <1>20 DEF Runs
  <2>2. ~ (u \in 1 .. bf)
    BY <1>19, <2>1, Zenon
  <2>3. u \in Nat /\ u >= 1
    BY <1>5, <1>16
  <2>4. QED BY <1>21, <2>2, <2>3
<1>24. PICK x \in Nat, y \in Nat, z \in Nat :
         x = (a + 1) * ss /\ y = (b + 1) * ss /\ z = (cs + 1) * ss /\ x + y <= z
  <2>1. (a + 1) * ss + (b + 1) * ss = (a + b + 2) * ss
    BY <1>5, <1>13, <1>16
  <2>2. a + b + 2 <= cs + 1 /\ a + b + 2 \in Int /\ cs + 1 \in Int /\ cs + 1 >= 0
    BY <1>5, <1>6, <1>13, <1>16
  <2>3. (a + b + 2) * ss <= (cs + 1) * ss
    BY <1>5, <2>2, TimesOrder
  <2>4. (a + 1) * ss \in Nat /\ (b + 1) * ss \in Nat /\ (cs + 1) * ss \in Nat
    BY <1>5, <1>6, <1>13, <1>16
  <2>5. QED BY <2>1, <2>3, <2>4
<1>25. bf + len < n + z
  <2>1. t <= n + x - 1 /\ u \in 1 .. y
    BY <1>18, <1>19, <1>24
  <2>2. QED BY <1>4, <1>21, <1>22, <1>23, <1>24, <2>1
<1>26. PICK mm \in Nat : mm = table.MIN_MATCH /\ z <= mm - n
  BY <1>1, <1>2, <1>7, <1>24 DEF SlicesSized, JobGiven
<1>27. bf + len >= mm
  BY <1>20, <1>26
<1>28. QED BY <1>4, <1>21, <1>25, <1>26, <1>27

-----------------------------------------------------------------------------
(* What is known between two steps, of values: see TableInv for the variables *)

End(start) == Min({start + table.block, Len(table.text)})
DigestsUpTo(e) == [c \in 0 .. (e \div table.L) - 1 |-> ChunkDigest(c)]
SlicesUpTo(e) == [c \in 0 .. (e \div table.L) - 1 |-> SlicesOf(c * table.L)]

\* Block by block: what was added is behind, and the block is whole chunks
Between(start, hashes) ==
  /\ start \in Nat /\ start <= Len(table.text) /\ (start % table.L = 0 \/ start = Len(table.text))
  /\ \A c \in DOMAIN hashes : (c + 1) * table.L <= start
Within(start, spot, hashes, digests, sl) ==
  /\ start \in Nat /\ start < Len(table.text) /\ start % table.L = 0 /\ spot \in Nat /\ start <= spot
  /\ digests = DigestsUpTo(End(start)) /\ sl = SlicesUpTo(End(start))
  /\ \A c \in DOMAIN hashes : (c + 1) * table.L <= End(start) /\ c * table.L <= spot
AtChunk(start, spot) == spot % table.L = 0 /\ spot + table.L <= End(start)
AtProbe(start, spot, next) ==
  /\ next \in Nat /\ spot < next /\ spot % table.CYCLES = 0
  /\ next % table.L = 0 /\ next + table.L <= End(start)
AllMarked(hashes, bits) == \A c \in DOMAIN hashes : Marked(c * table.L) \subseteq bits

Held(pc, start, spot, next, arr, hashes, digests, bits, sl, gone) ==
  /\ table \in TableJobs /\ pc \in {"read", "add", "scan"}
  /\ Stocked(arr, hashes, gone) /\ AllMarked(hashes, bits)
  /\ pc = "read" => Between(start, hashes)
  /\ pc # "read" => Within(start, spot, hashes, digests, sl)
  /\ pc = "add" => AtChunk(start, spot)
  /\ pc = "scan" => AtProbe(start, spot, next)

TableInv ==
  tablePc \in {"read", "add", "scan"} =>
    Held(tablePc, blockStart, place, upto, chunkarr, hasharr, digestarr, bitarr, slices, lost)

LEMMA HeldKept ==
  ASSUME table' = table,
         NEW pc, NEW start, NEW spot, NEW next, NEW arr, NEW hashes, NEW digests, NEW bits, NEW sl, NEW gone,
         pc = tablePc', start = blockStart', spot = place', next = upto', arr = chunkarr',
         hashes = hasharr', digests = digestarr', bits = bitarr', sl = slices', gone = lost',
         Held(pc, start, spot, next, arr, hashes, digests, bits, sl, gone)
  PROVE  TableInv'
<1>1. Stocked(chunkarr, hasharr, lost)' <=> Stocked(arr, hashes, gone)
  BY DEF Stocked, Findable, StandsFor, Alike, IndexOf, hash2, Poly1, BytesAt, ChunkDigest, get_hash, get_chunk,
         chunkarr_value, chunknum_mask, total_chunks, Chunks1024, filesize, Slots, hashsize
<1>2. AllMarked(hasharr, bitarr)' <=> AllMarked(hashes, bits)
  BY DEF AllMarked, Marked, OFFSET, BitOf, bitarrsize, hash1, Poly1, BytesAt, total_chunks, Chunks1024, filesize
<1>3. Between(blockStart, hasharr)' <=> Between(start, hashes)
  BY DEF Between
<1>4. Within(blockStart, place, hasharr, digestarr, slices)' <=> Within(start, spot, hashes, digests, sl)
  BY DEF Within, End, DigestsUpTo, SlicesUpTo, ChunkDigest, BytesAt, SlicesOf, SliceOf, slice_size
<1>5. AtChunk(blockStart, place)' <=> AtChunk(start, spot)
  BY DEF AtChunk, End
<1>6. AtProbe(blockStart, place, upto)' <=> AtProbe(start, spot, next)
  BY DEF AtProbe, End
<1>7. QED BY <1>1, <1>2, <1>3, <1>4, <1>5, <1>6 DEF TableInv, Held

LEMMA EndOf ==
  ASSUME Len(table.text) \in Nat, table.block \in Nat, NEW start \in Nat, start <= Len(table.text)
  PROVE  /\ End(start) \in Nat /\ start <= End(start) /\ End(start) <= Len(table.text)
         /\ End(start) = start + table.block \/ End(start) = Len(table.text)
<1>1. PICK N \in Nat, b \in Nat : N = Len(table.text) /\ b = table.block
  OBVIOUS
<1>2. PICK s \in Nat : s = start + b
  OBVIOUS
<1>3. Min({s, N}) \in {s, N} /\ Min({s, N}) <= s /\ Min({s, N}) <= N
  <2>1. {s, N} \subseteq Nat /\ {s, N} # {}
    OBVIOUS
  <2>2. Min({s, N}) \in {s, N} /\ \A y \in {s, N} : Min({s, N}) <= y
    BY <2>1, MinIs
  <2>3. QED BY <2>2
<1>4. PICK e \in Nat : e = End(start) /\ (e = s \/ e = N) /\ e <= N
  BY <1>1, <1>2, <1>3, Zenon DEF End
<1>5. start <= e
  BY <1>1, <1>2, <1>4
<1>6. QED BY <1>1, <1>2, <1>4, <1>5

LEMMA EndIs ==
  ASSUME JobGiven, NEW start \in Nat, start <= Len(table.text)
  PROVE  /\ End(start) \in Nat /\ start <= End(start) /\ End(start) <= Len(table.text)
         /\ End(start) = start + table.block \/ End(start) = Len(table.text)
BY EndOf DEF JobGiven

\* A chunk that ends by e is one of those up to e
LEMMA ChunksUpTo ==
  ASSUME JobGiven, NEW e \in Nat
  PROVE  \E last \in Int : /\ last = (e \div table.L) - 1
                           /\ \A c \in Nat : (c + 1) * table.L <= e => c \in 0 .. last
<1>1. PICK n \in Nat : n = table.L /\ n >= 1
  BY DEF JobGiven
<1>2. PICK d \in Int, r \in 0 .. n - 1 : d = e \div n /\ e = n * d + r
  <2>1. e \in Int
    OBVIOUS
  <2>2. e \div n \in Int /\ e % n \in 0 .. n - 1 /\ e = n * (e \div n) + (e % n)
    BY <1>1, <2>1, DivMod, Zenon
  <2>3. QED BY <2>2, Zenon
<1>3. PICK last \in Int : last = d - 1
  OBVIOUS
<1>4. ASSUME NEW c \in Nat, (c + 1) * n <= e PROVE c \in 0 .. last
  <2>1. SUFFICES ASSUME d <= c PROVE FALSE
    BY <1>3
  <2>2. d * n <= c * n
    BY <1>1, <2>1, TimesOrder
  <2>3. d * n = n * d /\ (c + 1) * n = c * n + n /\ c * n \in Int /\ n * d \in Int
    OBVIOUS
  <2>4. r < n /\ r \in Int
    OBVIOUS
  <2>5. QED BY <1>2, <1>4, <2>2, <2>3, <2>4
<1>5. last = (e \div table.L) - 1
  BY <1>1, <1>2, <1>3, Zenon
<1>6. \A c \in Nat : (c + 1) * table.L <= e => c \in 0 .. last
  BY <1>1, <1>4, Zenon
<1>7. QED BY <1>5, <1>6

LEMMA DigestsKnown ==
  ASSUME JobGiven, NEW e \in Nat, digestarr = DigestsUpTo(e),
         NEW known, \A c \in known : c \in Nat /\ (c + 1) * table.L <= e
  PROVE  Digested(known)
<1>1. PICK last \in Int : /\ last = (e \div table.L) - 1
                          /\ \A c \in Nat : (c + 1) * table.L <= e => c \in 0 .. last
  BY ChunksUpTo
<1>2. digestarr = [c \in 0 .. last |-> ChunkDigest(c)]
  BY <1>1, Zenon DEF DigestsUpTo
<1>3. \A c \in known : c \in 0 .. last
  BY <1>1
<1>4. QED BY <1>2, <1>3, Zenon DEF Digested

\* One probe answers for CYCLES positions: it is a window of the chunk at each of them
LEMMA ProbeHolds ==
  ASSUME JobGiven, NEW k \in Nat, (k + 1) * table.L <= Len(table.text),
         place \in Nat, NEW p \in place + 1 .. place + table.CYCLES, p + table.L <= Len(table.text),
         BytesAt(p, table.L) = BytesAt(k * table.L, table.L), Marked(k * table.L) \subseteq bitarr
  PROVE  Probe
<1>1. PICK n \in Nat, c \in Nat : n = table.L /\ n >= 1 /\ c = table.CYCLES /\ c >= 1 /\ n % c = 0
  BY DEF JobGiven
<1>2. c <= n
  <2>1. 0 % c = 0
    <3>1. c * 0 = 0 /\ 0 \in Int
      OBVIOUS
    <3>2. (c * 0) % c = 0
      BY <1>1, <3>1, Multiple, Zenon
    <3>3. QED BY <3>1, <3>2, Zenon
  <2>4. n >= 1
    BY <1>1, Zenon
  <2>5. 0 \in Int /\ n \in Int /\ 0 < n
    BY <2>4
  <2>2. 0 + c <= n
    BY <1>1, <2>1, <2>5, MultipleGap, Zenon
  <2>3. QED BY <2>2
<1>3. PICK w \in Nat : w = place
  OBVIOUS
<1>4. PICK s \in Nat, m \in Nat, o \in Nat :
        s = w + c - p /\ o = c - 1 /\ m = n - o /\ s <= o /\ s + m <= n /\ p + s = w + c /\ w + 1 + o = w + c
  <2>1. p \in w + 1 .. w + c
    BY <1>1, <1>3, Zenon
  <2>2. c >= 1
    BY <1>1, Zenon
  <2>3. w + c - p \in Nat /\ c - 1 \in Nat /\ n - (c - 1) \in Nat
    BY <1>2, <2>1, <2>2
  <2>4. PICK s \in Nat, m \in Nat, o \in Nat : s = w + c - p /\ o = c - 1 /\ m = n - o
    BY <2>3
  <2>5. QED BY <1>2, <2>1, <2>4
<1>5. p \in Nat
  BY <1>3
<1>6. PICK q \in Nat : q = k * n /\ q + n <= Len(table.text)
  <2>1. k * n \in Nat /\ (k + 1) * n = k * n + n
    OBVIOUS
  <2>2. QED BY <1>1, <2>1
<1>7. BytesAt(p + s, m) = BytesAt(q + s, m)
  <2>1. BytesAt(p, n) = BytesAt(q, n) /\ p + n <= Len(table.text)
    BY <1>1, <1>6
  <2>2. s + m <= n
    BY <1>4, Zenon
  <2>3. q + n <= Len(table.text)
    BY <1>6, Zenon
  <2>4. ASSUME NEW i \in Nat, NEW j \in Nat, i + j <= n PROVE BytesAt(p + i, j) = BytesAt(q + i, j)
    BY ONLY JobGiven, p \in Nat, q \in Nat, n \in Nat, <2>1, <2>3, <2>4, PartSame
  <2>5. QED BY <2>2, <2>4, Zenon
<1>8. OFFSET = o /\ table.L - OFFSET = m
  BY <1>1, <1>4 DEF OFFSET
<1>9. hash1(p + s) = hash1(q + s)
  BY <1>7, <1>8, Zenon DEF hash1, Poly1
<1>10. BitOf(hash1(q + s)) \in Marked(q)
  <2>1. s \in 0 .. OFFSET
    BY <1>4, <1>8
  <2>2. QED BY <2>1 DEF Marked
<1>11. Marked(q) \subseteq bitarr
  BY <1>1, <1>6, Zenon
<1>12. place + 1 + OFFSET = p + s
  BY <1>3, <1>4, <1>8
<1>13. QED BY <1>9, <1>10, <1>11, <1>12, Zenon DEF Probe, check_match_possibility

LEMMA MissesNone == TableInv => NothingMissed
<1>1. SUFFICES ASSUME TableInv, tablePc = "scan",
                      NEW p \in place + 1 .. place + table.CYCLES, NEW k \in DOMAIN hasharr \ lost,
                      digestarr[k] = BytesAt(p, table.L),
                      NEW hit, hit = StopAt(FALSE, hash2(p), FoundSame(p)).found
               PROVE  /\ p \in LookedUp
                      /\ hit # NOT_FOUND
                      /\ table.digests => digestarr[hit] = BytesAt(p, table.L)
                      /\ Extent(hit, p) >= table.MIN_MATCH => find_match0(p) = hit
  BY Zenon DEF NothingMissed
<1>2. /\ table \in TableJobs /\ Stocked(chunkarr, hasharr, lost) /\ AllMarked(hasharr, bitarr)
      /\ Within(blockStart, place, hasharr, digestarr, slices) /\ AtProbe(blockStart, place, upto)
  BY <1>1, Zenon DEF TableInv, Held
<1>3. JobGiven
  BY <1>2, JobIs
<1>4. PICK n \in Nat, c \in Nat, N \in Nat : /\ n = table.L /\ n >= 1 /\ c = table.CYCLES /\ c >= 1 /\ n % c = 0
                                             /\ N = Len(table.text)
  BY <1>3 DEF JobGiven
<1>5. PICK b \in Nat, w \in Nat, u \in Nat :
        b = blockStart /\ w = place /\ u = upto /\ b < N /\ b <= w /\ w < u /\ w % c = 0 /\ u % n = 0
  BY <1>2, <1>4 DEF Within, AtProbe
<1>6. PICK e \in Nat : e = BlockEnd /\ e = End(blockStart) /\ e <= N /\ u + n <= e
  <2>1. blockStart \in Nat /\ blockStart <= Len(table.text)
    BY <1>4, <1>5
  <2>2. End(blockStart) \in Nat /\ End(blockStart) <= Len(table.text)
    BY <1>3, <2>1, EndIs
  <2>3. upto + table.L <= End(blockStart)
    BY <1>2, Zenon DEF AtProbe
  <2>4. QED BY <1>4, <1>5, <2>2, <2>3 DEF BlockEnd, End
<1>7. p \in w + 1 .. w + c /\ p \in Nat /\ p + n <= e /\ b <= p
  <2>1. u % c = 0
    <3>1. u \in Int
      OBVIOUS
    <3>2. QED BY <1>4, <1>5, <3>1, MultipleOf, Zenon
  <2>2. w + c <= u
    <3>1. w \in Int /\ u \in Int
      OBVIOUS
    <3>2. QED BY <1>4, <1>5, <2>1, <3>1, MultipleGap, Zenon
  <2>3. p \in w + 1 .. w + c
    BY <1>4, <1>5
  <2>4. QED BY <1>5, <1>6, <2>2, <2>3
<1>8. Digested(DOMAIN hasharr)
  <2>1. \A d \in DOMAIN hasharr : d \in Nat /\ (d + 1) * table.L <= e
    BY <1>2, <1>6, Zenon DEF Stocked, Within
  <2>2. digestarr = DigestsUpTo(e)
    BY <1>2, <1>6, Zenon DEF Within
  <2>3. QED BY <1>3, <2>1, <2>2, DigestsKnown, Zenon
<1>9. /\ hit \in DOMAIN hasharr /\ hit # NOT_FOUND
      /\ table.digests => digestarr[hit] = BytesAt(p, table.L)
  BY <1>1, <1>2, <1>7, <1>8, LookupFinds
<1>10. p \in LookedUp
  <2>1. k \in Nat /\ (k + 1) * table.L <= Len(table.text) /\ Marked(k * table.L) \subseteq bitarr
    BY <1>2, Zenon DEF Stocked, AllMarked
  <2>2. p + table.L <= Len(table.text)
    BY <1>4, <1>6, <1>7
  <2>3. BytesAt(p, table.L) = BytesAt(k * table.L, table.L)
    BY <1>1, <1>8, Zenon DEF Digested, ChunkDigest
  <2>4. place \in Nat
    BY <1>5
  <2>5. Probe
    BY <1>3, <2>1, <2>2, <2>3, <2>4, ProbeHolds
  <2>6. QED BY <1>1, <2>5 DEF LookedUp
<1>11. ASSUME Extent(hit, p) >= table.MIN_MATCH PROVE SliceCheck(hit, p)
  <2>1. PICK last \in Int : /\ last = (e \div table.L) - 1
                            /\ \A d \in Nat : (d + 1) * table.L <= e => d \in 0 .. last
    BY <1>3, ChunksUpTo
  <2>2. hit \in Nat /\ hit # 0 /\ hit * table.L <= place
    <3>1. hit \in Nat /\ hit * table.L <= place
      BY <1>2, <1>9, Zenon DEF Stocked, Within
    <3>2. QED BY <1>9, <3>1 DEF NOT_FOUND
  <2>3. PICK q \in Nat : q = hit * n /\ q <= p
    <3>1. hit * n \in Nat /\ hit * n <= w
      BY <1>4, <1>5, <2>2
    <3>2. QED BY <1>7, <3>1
  <2>4. slices = [d \in 0 .. last |-> SlicesOf(d * n)]
    BY <1>2, <1>4, <1>6, <2>1, Zenon DEF Within, SlicesUpTo
  <2>5. \A d \in Nat : (d + 1) * n <= e => d <= last
    BY <1>4, <2>1
  <2>6. blockStart \in Nat /\ blockStart <= p /\ p <= e /\ e <= Len(table.text)
    BY <1>4, <1>5, <1>6, <1>7
  <2>7. Placed(hit, p, q, n, e, last)
    BY <1>4, <1>6, <1>7, <2>1, <2>2, <2>3, <2>4, <2>5, <2>6, Zenon DEF Placed
  <2>8. QED BY <1>2, <1>11, <2>7, SliceHolds
<1>12. Extent(hit, p) >= table.MIN_MATCH => find_match0(p) = hit
  BY <1>1, <1>11, Zenon DEF find_match0
<1>13. QED BY <1>9, <1>10, <1>12

LEMMA TableInitial == TableInit => TableInv
<1>1. SUFFICES ASSUME TableInit PROVE TableInv
  OBVIOUS
<1>2. table \in TableJobs /\ tablePc = "read" /\ blockStart = 0 /\ hasharr = <<>> /\ lost = {}
      /\ chunkarr = EmptyTable(FALSE)
  BY <1>1, Zenon DEF TableInit
<1>3. DOMAIN hasharr = {}
  BY <1>2
<1>4. Stocked(chunkarr, hasharr, lost)
  <2>1. chunkarr = [s \in 0 .. hashsize(FALSE) - 1 |-> NOT_FOUND]
    BY <1>2, Zenon DEF EmptyTable
  <2>2. \A s \in 0 .. hashsize(FALSE) - 1 : chunkarr[s] = NOT_FOUND
    BY <2>1
  <2>3. chunkarr = [s \in 0 .. hashsize(FALSE) - 1 |-> chunkarr[s]]
    BY <2>1
  <2>4. QED BY <1>3, <2>2, <2>3, Zenon DEF Stocked
<1>5. AllMarked(hasharr, bitarr)
  BY <1>3, Zenon DEF AllMarked
<1>6. Between(blockStart, hasharr)
  <2>1. JobGiven
    BY <1>2, JobIs
  <2>2. PICK n \in Nat : n = table.L /\ n >= 1
    BY <2>1 DEF JobGiven
  <2>3. 0 % table.L = 0
    <3>1. n * 0 = 0 /\ 0 \in Int
      OBVIOUS
    <3>2. (n * 0) % n = 0
      BY <2>2, <3>1, Multiple, Zenon
    <3>3. QED BY <2>2, <3>1, <3>2, Zenon
  <2>4. 0 <= Len(table.text) /\ 0 \in Nat
    BY <2>1 DEF JobGiven
  <2>5. QED BY <1>2, <1>3, <2>3, <2>4, Zenon DEF Between
<1>7. QED BY <1>2, <1>4, <1>5, <1>6, Zenon DEF TableInv, Held

\* The next block starts with a whole chunk, or there is none
LEMMA NextStart ==
  ASSUME JobGiven, NEW start \in Nat, start < Len(table.text), start % table.L = 0,
         NEW hashes, \A c \in DOMAIN hashes : (c + 1) * table.L <= End(start)
  PROVE  Between(End(start), hashes)
<1>1. PICK n \in Nat, b \in Nat, N \in Nat : n = table.L /\ n >= 1 /\ b = table.block /\ b % n = 0 /\ N = Len(table.text)
  BY DEF JobGiven
<1>2. PICK e \in Nat : e = End(start) /\ e <= N /\ (e = start + b \/ e = N)
  <2>1. start <= Len(table.text)
    BY <1>1
  <2>2. QED BY <1>1, <2>1, EndIs
<1>3. e % n = 0 \/ e = N
  <2>1. start \in Int /\ b \in Int /\ start % n = 0
    BY <1>1
  <2>2. (start + b) % n = 0
    BY <1>1, <2>1, MultipleSum, Zenon
  <2>3. QED BY <1>2, <2>2, Zenon
<1>4. \A c \in DOMAIN hashes : (c + 1) * table.L <= e
  BY <1>2, Zenon
<1>5. QED BY <1>1, <1>2, <1>3, <1>4, Zenon DEF Between

LEMMA BufferPrepared == TableInv /\ PrepareBuffer => TableInv'
<1>1. SUFFICES ASSUME TableInv, PrepareBuffer PROVE TableInv'
  OBVIOUS
<1>2. /\ tablePc = "read" /\ blockStart < Len(table.text) /\ table' = table
      /\ chunkarr' = chunkarr /\ hasharr' = hasharr /\ bitarr' = bitarr /\ lost' = lost
  BY <1>1, Zenon DEF PrepareBuffer
<1>3. /\ table \in TableJobs /\ Stocked(chunkarr, hasharr, lost) /\ AllMarked(hasharr, bitarr)
      /\ Between(blockStart, hasharr)
  BY <1>1, <1>2, Zenon DEF TableInv, Held
<1>4. JobGiven
  BY <1>3, JobIs
<1>5. PICK n \in Nat, N \in Nat, b \in Nat :
        n = table.L /\ n >= 1 /\ N = Len(table.text) /\ b = blockStart /\ b < N
  BY <1>2, <1>3, <1>4 DEF JobGiven, Between
<1>6. b % n = 0
  <2>1. b = N \/ b % n = 0
    BY <1>3, <1>5, Zenon DEF Between
  <2>2. b # N
    BY <1>5
  <2>3. QED BY <2>1, <2>2
<1>7. PICK e \in Nat : e = BlockEnd /\ e = End(b) /\ b <= e
  <2>1. b \in Nat /\ b <= Len(table.text)
    BY <1>5
  <2>2. End(b) \in Nat /\ b <= End(b)
    BY <1>4, <2>1, EndIs
  <2>3. BlockEnd = End(b)
    BY <1>5, Zenon DEF BlockEnd, End
  <2>4. QED BY <2>2, <2>3, Zenon
<1>8. \A c \in DOMAIN hasharr : /\ (c + 1) * table.L <= e
                                /\ c * table.L <= b
  <2>1. SUFFICES ASSUME NEW c \in DOMAIN hasharr PROVE (c + 1) * n <= e /\ c * n <= b
    BY <1>5, Zenon
  <2>2. c \in Nat /\ (c + 1) * n <= b
    BY <1>3, <1>5, Zenon DEF Between, Stocked
  <2>3. (c + 1) * n = c * n + n /\ c * n \in Nat
    BY <2>2
  <2>4. QED BY <1>7, <2>2, <2>3
<1>9. digestarr' = DigestsUpTo(e) /\ slices' = SlicesUpTo(e)
  BY <1>1, <1>7, Zenon DEF PrepareBuffer, DigestsUpTo, SlicesUpTo
<1>10. CASE blockStart + 2 * table.L <= BlockEnd
  <2>1. tablePc' = "add" /\ place' = b /\ blockStart' = b
    BY <1>1, <1>5, <1>10, Zenon DEF PrepareBuffer
  <2>2. b + n <= e
    BY <1>5, <1>7, <1>10
  <2>3. AtChunk(b, b)
    BY <1>5, <1>6, <1>7, <2>2, Zenon DEF AtChunk
  <2>4. PICK digests, sl, next :
          digests = digestarr' /\ sl = slices' /\ next = upto'
    OBVIOUS
  <2>5. Within(b, b, hasharr, digests, sl)
    <3>1. b \in Nat /\ b <= b
      OBVIOUS
    <3>2. QED BY <1>5, <1>6, <1>7, <1>8, <1>9, <2>4, <3>1, Zenon DEF Within
  <2>6. PICK arr, hashes, bits, gone : arr = chunkarr /\ hashes = hasharr /\ bits = bitarr /\ gone = lost
    OBVIOUS
  <2>7. Held("add", b, b, next, arr, hashes, digests, bits, sl, gone)
    BY <1>3, <2>3, <2>5, <2>6, Zenon DEF Held
  <2>8. QED BY <1>2, <2>1, <2>4, <2>6, <2>7, HeldKept
<1>11. CASE ~ (blockStart + 2 * table.L <= BlockEnd)
  <2>1. tablePc' = "read" /\ blockStart' = e
    BY <1>1, <1>7, <1>11, Zenon DEF PrepareBuffer
  <2>2. Between(e, hasharr)
    <3>1. b < Len(table.text) /\ b % table.L = 0 /\ \A c \in DOMAIN hasharr : (c + 1) * table.L <= End(b)
      BY <1>5, <1>6, <1>7, <1>8, Zenon
    <3>2. Between(End(b), hasharr)
      BY <1>4, <3>1, NextStart
    <3>3. QED BY <1>7, <3>2, Zenon
  <2>3. PICK spot, next, arr, hashes, digests, bits, sl, gone :
          /\ spot = place' /\ next = upto' /\ digests = digestarr' /\ sl = slices'
          /\ arr = chunkarr /\ hashes = hasharr /\ bits = bitarr /\ gone = lost
    OBVIOUS
  <2>4. Held("read", e, spot, next, arr, hashes, digests, bits, sl, gone)
    BY <1>3, <2>2, <2>3, Zenon DEF Held
  <2>5. QED BY <1>2, <2>1, <2>3, <2>4, HeldKept
<1>12. QED BY <1>10, <1>11

LEMMA HashAdded == TableInv /\ AddHash => TableInv'
<1>1. SUFFICES ASSUME TableInv, AddHash PROVE TableInv'
  OBVIOUS
<1>2. /\ tablePc = "add" /\ table' = table /\ place' = place /\ digestarr' = digestarr /\ slices' = slices
      /\ bitarr' = bitarr \cup Marked(place)
  BY <1>1, Zenon DEF AddHash
<1>3. /\ table \in TableJobs /\ Stocked(chunkarr, hasharr, lost) /\ AllMarked(hasharr, bitarr)
      /\ Within(blockStart, place, hasharr, digestarr, slices) /\ AtChunk(blockStart, place)
  <2>1. "add" # "read"
    OBVIOUS
  <2>2. QED BY <1>1, <1>2, <2>1, Zenon DEF TableInv, Held
<1>4. JobGiven
  BY <1>3, JobIs
<1>5. PICK n \in Nat, N \in Nat : n = table.L /\ n >= 1 /\ N = Len(table.text)
  BY <1>4 DEF JobGiven
<1>6. PICK b \in Nat, w \in Nat :
        b = blockStart /\ w = place /\ b < N /\ b <= w /\ b % n = 0 /\ w % n = 0
  BY <1>3, <1>5, Zenon DEF Within, AtChunk
<1>7. PICK e \in Nat : e = BlockEnd /\ e = End(b) /\ e <= N /\ w + n <= e
  <2>1. b \in Nat /\ b <= Len(table.text)
    BY <1>5, <1>6
  <2>2. End(b) \in Nat /\ End(b) <= Len(table.text)
    BY <1>4, <2>1, EndIs
  <2>3. BlockEnd = End(b)
    BY <1>6, Zenon DEF BlockEnd, End
  <2>4. w + n <= End(b)
    BY <1>3, <1>5, <1>6, Zenon DEF AtChunk
  <2>5. QED BY <1>5, <2>2, <2>3, <2>4, Zenon
<1>8. PICK k \in Nat : k = place \div table.L /\ k * n = w /\ (k + 1) * n = w + n
  <2>1. PICK z \in Int : w = n * z
    <3>1. w \in Int
      OBVIOUS
    <3>2. QED BY <1>5, <1>6, <3>1, MultipleIs, Zenon
  <2>2. z \in Nat
    <3>1. SUFFICES ASSUME z <= -1 PROVE FALSE
      OBVIOUS
    <3>2. z * n <= (-1) * n /\ z * n = n * z /\ (-1) * n = -n
      BY <1>5, <3>1, TimesOrder
    <3>3. QED BY <1>5, <2>1, <3>2
  <2>3. w \div n = z
    <3>1. w = n * z + 0 /\ 0 \in 0 .. n - 1 /\ w \in Int
      BY <1>5, <2>1
    <3>2. QED BY <1>5, <3>1, DivUnique, Zenon
  <2>4. z * n = w /\ (z + 1) * n = w + n
    BY <2>1
  <2>5. QED BY <1>5, <1>6, <2>2, <2>3, <2>4, Zenon
<1>9. \A c \in DOMAIN hasharr : c \in Nat /\ (c + 1) * table.L <= e /\ c * table.L <= w
  BY <1>3, <1>6, <1>7, Zenon DEF Within, Stocked
<1>10. \A c \in DOMAIN hasharr \cup {k} : c \in Nat /\ (c + 1) * table.L <= e /\ c * table.L <= w
  <2>1. (k + 1) * table.L <= e /\ k * table.L <= w
    <3>1. w <= w
      OBVIOUS
    <3>2. QED BY <1>5, <1>7, <1>8, <3>1, Zenon
  <2>2. QED BY <1>9, <2>1, Zenon
<1>11. Digested(DOMAIN hasharr \cup {k})
  <2>1. digestarr = DigestsUpTo(e)
    BY <1>3, <1>6, <1>7, Zenon DEF Within
  <2>2. QED BY <1>4, <1>10, <2>1, DigestsKnown, Zenon
<1>12. IndexOf(k) = hash2(place)
  BY <1>5, <1>6, <1>8, Zenon DEF IndexOf
<1>13. PICK stop : stop = StopAt(FALSE, IndexOf(k), AddedSame(k))
  OBVIOUS
<1>14. PICK arr, hashes, gone :
         /\ arr = AddedTo(chunkarr, FALSE, IndexOf(k), k, stop)
         /\ hashes = [c \in DOMAIN hasharr \cup {k} |-> IF c = k THEN stored_hash(IndexOf(k)) ELSE hasharr[c]]
         /\ gone = lost \cup (IF k = NOT_FOUND THEN {k}
                              ELSE IF stop.full THEN {k} \cup StoodFor(chunkarr[stop.slot])
                              ELSE {})
  OBVIOUS
<1>15. arr = chunkarr' /\ hashes = hasharr' /\ gone = lost'
  BY <1>1, <1>8, <1>12, <1>13, <1>14, Zenon DEF AddHash
<1>16. Stocked(arr, hashes, gone)
  <2>1. (k + 1) * table.L <= Len(table.text)
    <3>1. w + n <= N
      BY <1>7
    <3>2. QED BY <1>5, <1>8, <3>1, Zenon
  <2>2. QED BY <1>3, <1>11, <1>13, <1>14, <2>1, ChunkAdded, Zenon
<1>17. DOMAIN hashes = DOMAIN hasharr \cup {k}
  BY <1>14
<1>18. PICK bits : bits = bitarr'
  OBVIOUS
<1>19. AllMarked(hashes, bits)
  <2>1. SUFFICES ASSUME NEW c \in DOMAIN hasharr \cup {k} PROVE Marked(c * table.L) \subseteq bits
    BY <1>17, Zenon DEF AllMarked
  <2>2. CASE c = k
    <3>1. k * table.L = place
      BY <1>5, <1>6, <1>8, Zenon
    <3>2. bits = bitarr \cup Marked(place)
      BY <1>2, <1>18, Zenon
    <3>3. QED BY <2>2, <3>1, <3>2, Zenon
  <2>3. CASE c \in DOMAIN hasharr
    <3>1. Marked(c * table.L) \subseteq bitarr
      BY <1>3, <2>3, Zenon DEF AllMarked
    <3>2. QED BY <1>2, <1>18, <3>1, Zenon
  <2>4. QED BY <2>1, <2>2, <2>3, Zenon
<1>20. PICK digests, sl : digests = digestarr' /\ sl = slices' /\ digests = digestarr /\ sl = slices
  BY <1>2
<1>21. Within(b, w, hashes, digests, sl)
  BY <1>3, <1>6, <1>7, <1>10, <1>17, <1>20, Zenon DEF Within
<1>22. CASE place + 2 * table.L <= BlockEnd
  <2>1. PICK next \in Nat : next = w + n
    OBVIOUS
  <2>2. tablePc' = "scan" /\ upto' = next /\ blockStart' = b
    BY <1>1, <1>5, <1>6, <1>22, <2>1, Zenon DEF AddHash
  <2>3. w + 2 * n <= e
    BY <1>5, <1>6, <1>7, <1>22, Zenon
  <2>4. w < next /\ next + n <= e
    <3>1. n >= 1
      BY <1>5, Zenon
    <3>2. QED BY <2>1, <2>3, <3>1
  <2>5. next % n = 0
    <3>1. w \in Int /\ n \in Int
      OBVIOUS
    <3>2. n % n = 0
      <4>1. n * 1 = n /\ 1 \in Int
        OBVIOUS
      <4>2. (n * 1) % n = 0
        BY <1>5, <4>1, Multiple, Zenon
      <4>3. QED BY <4>1, <4>2, Zenon
    <3>3. (w + n) % n = 0
      BY <1>5, <1>6, <3>1, <3>2, MultipleSum, Zenon
    <3>4. QED BY <2>1, <3>3, Zenon
  <2>6. w % table.CYCLES = 0
    <3>1. PICK m \in Nat : m = table.CYCLES /\ m >= 1 /\ n % m = 0
      BY <1>4, <1>5 DEF JobGiven
    <3>2. w \in Int
      OBVIOUS
    <3>3. QED BY <1>5, <1>6, <3>1, <3>2, MultipleOf, Zenon
  <2>7. AtProbe(b, w, next)
    BY <1>5, <1>7, <2>4, <2>5, <2>6, Zenon DEF AtProbe
  <2>8. Held("scan", b, w, next, arr, hashes, digests, bits, sl, gone)
    <3>1. "scan" # "add" /\ "scan" # "read"
      OBVIOUS
    <3>2. QED BY <1>3, <1>16, <1>19, <1>21, <2>7, <3>1, Zenon DEF Held
  <2>9. QED BY <1>2, <1>6, <1>15, <1>18, <1>20, <2>2, <2>8, HeldKept
<1>23. CASE ~ (place + 2 * table.L <= BlockEnd)
  <2>1. tablePc' = "read" /\ blockStart' = e
    BY <1>1, <1>7, <1>23, Zenon DEF AddHash
  <2>2. Between(e, hashes)
    <3>1. b < Len(table.text) /\ b % table.L = 0 /\ \A c \in DOMAIN hashes : (c + 1) * table.L <= End(b)
      BY <1>5, <1>6, <1>7, <1>10, <1>17, Zenon
    <3>2. Between(End(b), hashes)
      BY <1>4, <3>1, NextStart
    <3>3. QED BY <1>7, <3>2, Zenon
  <2>3. PICK spot, next : spot = place' /\ next = upto'
    OBVIOUS
  <2>4. Held("read", e, spot, next, arr, hashes, digests, bits, sl, gone)
    <3>1. "read" # "add" /\ "read" # "scan"
      OBVIOUS
    <3>2. QED BY <1>3, <1>16, <1>19, <2>2, <3>1, Zenon DEF Held
  <2>5. QED BY <1>2, <1>15, <1>18, <1>20, <2>1, <2>3, <2>4, HeldKept
<1>24. QED BY <1>22, <1>23

\* Both ways to go on from a probe: to another one before the next chunk, or to that chunk
LEMMA ProbesOn ==
  ASSUME TableInv, tablePc = "scan", NEW spot \in Nat, place < spot, spot % table.CYCLES = 0,
         tablePc' \in {"scan", "add"}, place' = spot, tablePc' = "scan" => spot < upto,
         tablePc' = "add" => spot = upto,
         UNCHANGED <<table, blockStart, upto, chunkarr, hasharr, digestarr, bitarr, slices, lost>>
  PROVE  TableInv'
<1>1. /\ table \in TableJobs /\ Stocked(chunkarr, hasharr, lost) /\ AllMarked(hasharr, bitarr)
      /\ Within(blockStart, place, hasharr, digestarr, slices) /\ AtProbe(blockStart, place, upto)
  <2>1. "scan" # "read"
    OBVIOUS
  <2>2. QED BY <2>1, Zenon DEF TableInv, Held
<1>2. PICK pc, start, next, arr, hashes, digests, bits, sl, gone :
        /\ pc = tablePc' /\ start = blockStart' /\ next = upto' /\ arr = chunkarr' /\ hashes = hasharr'
        /\ digests = digestarr' /\ bits = bitarr' /\ sl = slices' /\ gone = lost'
  OBVIOUS
<1>3. /\ start = blockStart /\ next = upto /\ arr = chunkarr /\ hashes = hasharr
      /\ digests = digestarr /\ bits = bitarr /\ sl = slices /\ gone = lost
  BY <1>2
<1>4. PICK n \in Nat, w \in Nat, b \in Nat : n = table.L /\ w = place /\ b = start /\ b <= w /\ w < spot
  BY <1>1, <1>3, JobIs DEF Within, JobGiven
<1>5. b <= spot /\ w <= spot
  BY <1>4
<1>6. ASSUME NEW c \in DOMAIN hashes PROVE (c + 1) * n <= End(start) /\ c * n <= spot
  <2>1. c \in Nat /\ (c + 1) * n <= End(start) /\ c * n <= w
    BY <1>1, <1>3, <1>4, Zenon DEF Within, Stocked
  <2>2. c * n \in Nat
    BY <2>1
  <2>3. QED BY <1>5, <2>1, <2>2
<1>7. Within(start, spot, hashes, digests, sl)
  BY <1>1, <1>3, <1>4, <1>5, <1>6, Zenon DEF Within
<1>8. pc = "scan" => AtProbe(start, spot, next)
  BY <1>1, <1>2, <1>3, Zenon DEF AtProbe
<1>9. pc = "add" => AtChunk(start, spot)
  BY <1>1, <1>2, <1>3, Zenon DEF AtProbe, AtChunk
<1>10. Held(pc, start, spot, next, arr, hashes, digests, bits, sl, gone)
  <2>1. "scan" # "read" /\ "add" # "read" /\ {"scan", "add"} \subseteq {"read", "add", "scan"}
    OBVIOUS
  <2>2. pc \in {"read", "add", "scan"} /\ pc # "read"
    BY <1>2
  <2>3. QED BY <1>1, <1>3, <1>7, <1>8, <1>9, <2>2, Zenon DEF Held
<1>11. QED BY <1>2, <1>10, HeldKept

LEMMA ProbeDone == TableInv /\ (SkipCovered \/ ScanOn) => TableInv'
<1>1. SUFFICES ASSUME TableInv, SkipCovered \/ ScanOn PROVE TableInv'
  OBVIOUS
<1>2. tablePc = "scan"
  BY <1>1, Zenon DEF SkipCovered, ScanOn
<1>3. /\ table \in TableJobs
      /\ Within(blockStart, place, hasharr, digestarr, slices) /\ AtProbe(blockStart, place, upto)
  <2>1. "scan" # "read"
    OBVIOUS
  <2>2. QED BY <1>1, <1>2, <2>1, Zenon DEF TableInv, Held
<1>4. PICK n \in Nat, c \in Nat : n = table.L /\ n >= 1 /\ c = table.CYCLES /\ c >= 1 /\ n % c = 0
  BY <1>3, JobIs DEF JobGiven
<1>5. PICK w \in Nat, u \in Nat : w = place /\ u = upto /\ w < u /\ w % c = 0 /\ u % n = 0
  BY <1>3, <1>4, Zenon DEF Within, AtProbe
<1>6. CASE SkipCovered
  <2>1. PICK p \in place + 1 .. upto - table.CYCLES : p % table.CYCLES = 0 /\ place' = p
    BY <1>6 DEF SkipCovered
  <2>2. p \in w + 1 .. u - c
    BY <1>4, <1>5, <2>1
  <2>3. p \in Nat /\ w < p /\ p < u
    <3>1. c >= 1
      BY <1>4, Zenon
    <3>2. QED BY <2>2, <3>1
  <2>4. tablePc' = "scan" /\ place < p /\ p < upto
    BY <1>2, <1>5, <1>6, <2>3, Zenon DEF SkipCovered
  <2>5. tablePc' \in {"scan", "add"} /\ tablePc' # "add"
    BY <2>4
  <2>6. UNCHANGED <<table, blockStart, upto, chunkarr, hasharr, digestarr, bitarr, slices, lost>>
    BY <1>6 DEF SkipCovered
  <2>7. p % table.CYCLES = 0 /\ place' = p
    BY <2>1
  <2>8. QED BY <1>1, <1>2, <2>3, <2>4, <2>5, <2>6, <2>7, ProbesOn, Zenon
<1>7. CASE ScanOn
  <2>1. PICK p \in Nat : p = w + c
    OBVIOUS
  <2>2. place' = p
    BY <1>4, <1>5, <1>7, <2>1, Zenon DEF ScanOn
  <2>3. w < p /\ p <= u
    <3>1. u % c = 0
      <4>1. u \in Int
        OBVIOUS
      <4>2. QED BY <1>4, <1>5, <4>1, MultipleOf, Zenon
    <3>2. w + c <= u
      <4>1. w \in Int /\ u \in Int
        OBVIOUS
      <4>2. QED BY <1>4, <1>5, <3>1, <4>1, MultipleGap, Zenon
    <3>3. c >= 1
      BY <1>4, Zenon
    <3>4. QED BY <2>1, <3>2, <3>3
  <2>4. p % c = 0
    <3>1. w \in Int /\ c \in Int
      OBVIOUS
    <3>2. c % c = 0
      <4>1. c * 1 = c /\ 1 \in Int
        OBVIOUS
      <4>2. (c * 1) % c = 0
        BY <1>4, <4>1, Multiple, Zenon
      <4>3. QED BY <4>1, <4>2, Zenon
    <3>3. (w + c) % c = 0
      BY <1>4, <1>5, <3>1, <3>2, MultipleSum, Zenon
    <3>4. QED BY <2>1, <3>3, Zenon
  <2>5. tablePc' = IF p < u THEN "scan" ELSE "add"
    BY <1>5, <1>7, <2>2, Zenon DEF ScanOn
  <2>6. tablePc' \in {"scan", "add"} /\ (tablePc' = "scan" => p < u) /\ (tablePc' = "add" => p = u)
    BY <2>3, <2>5
  <2>7. (tablePc' = "scan" => p < upto) /\ (tablePc' = "add" => p = upto) /\ place < p /\ p % table.CYCLES = 0
    BY <1>4, <1>5, <2>3, <2>4, <2>6, Zenon
  <2>8. UNCHANGED <<table, blockStart, upto, chunkarr, hasharr, digestarr, bitarr, slices, lost>>
    BY <1>7 DEF ScanOn
  <2>9. QED BY <1>1, <1>2, <2>2, <2>6, <2>7, <2>8, ProbesOn, Zenon
<1>8. QED BY <1>1, <1>6, <1>7

LEMMA TableStep == TableInv /\ [TableNext]_tableVars => TableInv'
<1>1. SUFFICES ASSUME TableInv, [TableNext]_tableVars PROVE TableInv'
  OBVIOUS
<1>2. CASE TableNext
  BY <1>1, <1>2, BufferPrepared, HashAdded, ProbeDone, Zenon DEF TableNext
<1>3. CASE UNCHANGED tableVars
  <2>1. SUFFICES ASSUME tablePc \in {"read", "add", "scan"} PROVE TableInv'
    BY <1>3 DEF tableVars, TableInv
  <2>2. PICK pc, start, spot, next, arr, hashes, digests, bits, sl, gone :
          /\ pc = tablePc' /\ start = blockStart' /\ spot = place' /\ next = upto' /\ arr = chunkarr'
          /\ hashes = hasharr' /\ digests = digestarr' /\ bits = bitarr' /\ sl = slices' /\ gone = lost'
    OBVIOUS
  <2>3. /\ pc = tablePc /\ start = blockStart /\ spot = place /\ next = upto /\ arr = chunkarr
        /\ hashes = hasharr /\ digests = digestarr /\ bits = bitarr /\ sl = slices /\ gone = lost
        /\ table' = table
    BY <1>3, <2>1, <2>2 DEF tableVars
  <2>4. Held(pc, start, spot, next, arr, hashes, digests, bits, sl, gone)
    BY <1>1, <2>1, <2>3, Zenon DEF TableInv
  <2>5. QED BY <2>2, <2>3, <2>4, HeldKept
<1>4. QED BY <1>1, <1>2, <1>3

\* No lookup misses a chunk that repeats: hash_table.cpp and the loop of compress<>, for any text,
\* any sizes the assumption allows and any width of the words
THEOREM TableMissesNothing == AgreementSpec => []NothingMissed
<1>1. AgreementInit => TableInv
  <2>1. AgreementInit => TableInit \/ TableIdle \/ ChunksInit
    BY Zenon DEF AgreementInit
  <2>2. TableIdle => TableInv
    BY DEF TableIdle, TableInv
  <2>3. ChunksInit => TableInv
    BY DEF ChunksInit, TableInv
  <2>4. QED BY <2>1, <2>2, <2>3, TableInitial
<1>2. TableInv /\ [AgreementNext]_<<vars, hashVars, tableVars, chunkVars>> => TableInv'
  <2>1. ChunksNext => TableInv'
    BY DEF ChunksNext, FindChunks, CheckChunk, NextBlock, TableInv, tableVars
  <2>2. [AgreementNext]_<<vars, hashVars, tableVars, chunkVars>> => [TableNext]_tableVars \/ ChunksNext
    <3>1. AgreementNext => TableNext \/ UNCHANGED tableVars \/ ChunksNext
      BY DEF AgreementNext
    <3>2. QED BY <3>1
  <2>3. QED BY <2>1, <2>2, TableStep
<1>3. QED BY <1>1, <1>2, MissesNone, PTL DEF AgreementSpec

-----------------------------------------------------------------------------
(* Chunk boundaries of -m1: one piece *)

CutAt(acc, p) ==
  IF /\ Poly1(p + 1 - WINSIZE, WINSIZE) > maxhash(BigValues)
     /\ p - acc.lastp >= min_match
    THEN [lastp |-> p, marks |-> Append(acc.marks, p)] ELSE acc
CutPlaces(from, to) == [i \in 1 .. Max({0, to - from - WINSIZE}) |-> from + WINSIZE + i - 1]
CutStart(from) == [lastp |-> from, marks |-> <<>>]
CutFolded(it, from, ps, s) ==
  IF s = {} THEN CutStart(from) ELSE CutAt(it[s \ {Max(s)}], ps[Max(s)])
CutFold(from, ps) == CHOOSE it : it = [s \in SUBSET DOMAIN ps |-> CutFolded(it, from, ps, s)]

LEMMA PieceIs ==
  ASSUME NEW from, NEW to
  PROVE  PieceMarks(from, to) = CutFold(from, CutPlaces(from, to))[DOMAIN CutPlaces(from, to)].marks
BY DEF PieceMarks, FoldLeft, MapThenFoldSet, CutFold, CutPlaces, CutFolded, CutStart, CutAt

CutStates == [lastp : Int, marks : Seq(Int)]

LEMMA CutType ==
  ASSUME NEW acc \in CutStates, NEW p \in Int
  PROVE  CutAt(acc, p) \in CutStates
<1>1. acc.marks \in Seq(Int)
  BY DEF CutStates
<1>2. Append(acc.marks, p) \in Seq(Int)
  BY <1>1
<1>3. [lastp |-> p, marks |-> Append(acc.marks, p)] \in CutStates
  BY <1>2 DEF CutStates
<1>4. QED BY <1>3, Zenon DEF CutAt

\* The piece place by place
CutRuns(run, from, n, ps) ==
  /\ run[0] = CutStart(from) /\ run[n] = CutFold(from, ps)[DOMAIN ps]
  /\ \A i \in 1 .. n : run[i] = CutAt(run[i - 1], ps[i])

LEMMA CutRun ==
  ASSUME NEW from \in Int, NEW n \in Nat, NEW ps, DOMAIN ps = 1 .. n, \A i \in 1 .. n : ps[i] \in Int
  PROVE  \E run : CutRuns(run, from, n, ps)
<1> DEFINE H == [i \in 1 .. n |-> [a \in CutStates |-> CutAt(a, ps[i])]]
<1>1. DOMAIN ps = 1 .. n /\ \A i \in 1 .. n : ps[i] \in Int
  OBVIOUS
<1>2. CutStart(from) \in CutStates
  BY DEF CutStart, CutStates
<1>3. \A i \in 1 .. n : \A a \in CutStates : H[i][a] = CutAt(a, ps[i]) /\ H[i][a] \in CutStates
  BY <1>1, CutType
<1> HIDE DEF H
<1>4. PICK f \in [SUBSET (1 .. n) -> CutStates] : FoldOn(CutStart(from), H, f, n)
  BY <1>2, <1>3, FoldExists, Zenon
<1>5. ASSUME NEW s \in SUBSET (1 .. n) PROVE f[s] = CutFolded(f, from, ps, s)
  <2>1. f[s] = FoldAt(CutStart(from), H, f, s)
    BY <1>4, Zenon DEF FoldOn
  <2>2. CASE s = {}
    BY <2>1, <2>2, Zenon DEF FoldAt, CutFolded
  <2>3. CASE s # {}
    <3>1. Max(s) \in s /\ s \ {Max(s)} \in SUBSET (1 .. n)
      BY <2>3, SomeMax
    <3>2. PICK i, r : i = Max(s) /\ r = s \ {Max(s)} /\ i \in 1 .. n /\ r \in SUBSET (1 .. n)
      BY <3>1
    <3>3. f[r] \in CutStates
      BY <3>2, Zenon
    <3>4. f[s] = H[i][f[r]] /\ CutFolded(f, from, ps, s) = CutAt(f[r], ps[i])
      BY <2>1, <2>3, <3>2, Zenon DEF FoldAt, CutFolded
    <3>5. QED BY <1>3, <3>2, <3>3, <3>4, Zenon
  <2>4. QED BY <2>2, <2>3
<1>6. f = [s \in SUBSET DOMAIN ps |-> CutFolded(f, from, ps, s)]
  <2>1. f = [s \in SUBSET (1 .. n) |-> f[s]]
    BY Zenon
  <2>2. QED BY <1>1, <1>5, <2>1, Zenon
<1>7. PICK z : z = CutFold(from, ps)
  OBVIOUS
<1>8. z = [s \in SUBSET DOMAIN ps |-> CutFolded(z, from, ps, s)]
  BY <1>6, <1>7, Zenon DEF CutFold
<1> DEFINE run == [i \in 0 .. n |-> z[1 .. i]]
<1>9. \A i \in 0 .. n : run[i] = z[1 .. i] /\ run[i] = CutFolded(z, from, ps, 1 .. i)
  <2>1. ASSUME NEW i \in 0 .. n PROVE z[1 .. i] = CutFolded(z, from, ps, 1 .. i)
    <3>1. 1 .. i \in SUBSET DOMAIN ps
      BY <1>1, PlacesIs
    <3>2. QED BY <1>8, <3>1, Zenon
  <2>2. QED BY <2>1
<1>10. run[0] = CutStart(from)
  <2>1. 1 .. 0 = {} /\ 0 \in 0 .. n
    OBVIOUS
  <2>2. run[0] = CutFolded(z, from, ps, 1 .. 0)
    BY <1>9, <2>1
  <2> HIDE DEF run
  <2>3. QED BY <2>1, <2>2, Zenon DEF CutFolded
<1>11. run[n] = CutFold(from, ps)[DOMAIN ps]
  BY <1>1, <1>7
<1>12. ASSUME NEW i \in 1 .. n PROVE run[i] = CutAt(run[i - 1], ps[i])
  <2>1. i \in 0 .. n /\ i - 1 \in 0 .. n /\ i # 0
    OBVIOUS
  <2>2. Max(1 .. i) = i /\ (1 .. i) \ {i} = 1 .. i - 1 /\ 1 .. i # {}
    BY <2>1, PlacesIs
  <2>3. run[i] = CutFolded(z, from, ps, 1 .. i) /\ run[i - 1] = z[1 .. i - 1]
    BY <1>9, <2>1
  <2> HIDE DEF run
  <2>4. QED BY <2>2, <2>3, Zenon DEF CutFolded
<1> HIDE DEF run
<1>13. QED BY <1>10, <1>11, <1>12, Zenon DEF CutRuns

ChunkGiven ==
  /\ table.text \in Seq(Nat) /\ Len(table.text) \in Nat /\ Len(table.text) >= 1
  /\ table.L \in Nat /\ table.L >= 1 /\ table.block \in Nat /\ table.block >= 1 /\ table.MIN_MATCH \in Nat
  /\ WINSIZE \in Nat /\ WINSIZE >= 1 /\ MinimalMatch \in Nat /\ MinimalMatch >= 1
  /\ min_match \in Nat /\ min_match >= MinimalMatch

\* A piece has marks after its start and before its end, at least min_match apart
CutHeld(acc, i, from) ==
  /\ acc \in CutStates /\ from <= acc.lastp /\ Ordered(acc.marks, from, acc.lastp)
  /\ acc.lastp = from \/ acc.lastp < from + WINSIZE + i
  /\ Len(acc.marks) * MinimalMatch <= acc.lastp - from

LEMMA CutOn ==
  ASSUME ChunkGiven, NEW from \in Nat, NEW i \in Nat, NEW acc, CutHeld(acc, i, from)
  PROVE  CutHeld(CutAt(acc, from + WINSIZE + (i + 1) - 1), i + 1, from)
<1>1. PICK w \in Nat, M \in Nat, m \in Nat : w = WINSIZE /\ M = MinimalMatch /\ m = min_match /\ M >= 1 /\ m >= M
  BY DEF ChunkGiven
<1>2. PICK p \in Int : p = from + w + i
  OBVIOUS
<1>3. from + WINSIZE + (i + 1) - 1 = p
  BY <1>1, <1>2
<1>4. PICK last \in Int, s \in Seq(Int) :
        /\ last = acc.lastp /\ s = acc.marks /\ from <= last /\ Ordered(s, from, last)
        /\ last = from \/ last < from + w + i
        /\ Len(s) * M <= last - from
  BY <1>1 DEF CutHeld, CutStates
<1>5. CutAt(acc, p) \in CutStates
  BY CutType DEF CutHeld
<1>6. CASE CutAt(acc, p) = acc
  <2>1. last = from \/ last < from + w + (i + 1)
    BY <1>4
  <2>2. QED BY <1>1, <1>3, <1>4, <1>6, <2>1 DEF CutHeld
<1>7. CASE CutAt(acc, p) # acc
  <2>1. p - last >= m /\ CutAt(acc, p) = [lastp |-> p, marks |-> Append(s, p)]
    BY <1>1, <1>4, <1>7, Zenon DEF CutAt
  <2>2. from < p /\ last < p /\ p < from + w + (i + 1)
    BY <1>1, <1>2, <1>4, <2>1
  <2>3. PICK u : u = Append(s, p) /\ Ordered(u, from, p) /\ Len(u) = Len(s) + 1
    <3>1. from \in Int
      OBVIOUS
    <3>2. QED BY <1>4, <2>2, <3>1, OrderedAppend, Zenon
  <2>4. PICK c \in Nat : c = Len(s)
    OBVIOUS
  <2>5. Len(u) * M <= p - from
    <3>1. (c + 1) * M = c * M + M
      OBVIOUS
    <3>2. PICK d \in Int : d = c * M
      OBVIOUS
    <3>3. d <= last - from /\ (c + 1) * M = d + M /\ Len(u) = c + 1
      BY <1>4, <2>3, <2>4, <3>1, <3>2
    <3>4. d + M <= p - from
      BY <1>1, <2>1, <3>3
    <3>5. QED BY <3>3, <3>4
  <2>6. PICK b : b = CutAt(acc, p) /\ b.lastp = p /\ b.marks = u /\ b \in CutStates
    BY <1>5, <2>1, <2>3
  <2>7. from <= p /\ (p = from \/ p < from + WINSIZE + (i + 1)) /\ Len(u) * MinimalMatch <= p - from
    BY <1>1, <2>2, <2>5
  <2>8. CutHeld(b, i + 1, from)
    BY <2>3, <2>6, <2>7, Zenon DEF CutHeld
  <2>9. QED BY <1>3, <2>6, <2>8, Zenon
<1>8. QED BY <1>6, <1>7

LEMMA PieceMarked ==
  ASSUME ChunkGiven, NEW from \in Nat, NEW to \in Nat, from <= to
  PROVE  /\ Ordered(PieceMarks(from, to), from, to - 1)
         /\ Len(PieceMarks(from, to)) * MinimalMatch <= to - from
<1>1. PICK w \in Nat : w = WINSIZE /\ w >= 1
  BY DEF ChunkGiven
<1>2. PICK n \in Nat : n = Max({0, to - from - WINSIZE}) /\ (n # 0 => from + w + n = to)
  <2>1. to - from - w \in Int /\ 0 \in Int
    OBVIOUS
  <2>2. Max({0, to - from - w}) = IF 0 >= to - from - w THEN 0 ELSE to - from - w
    BY <2>1, Max2
  <2>3. QED BY <1>1, <2>2
<1>3. PICK ps : ps = CutPlaces(from, to) /\ ps = [i \in 1 .. n |-> from + WINSIZE + i - 1]
  BY <1>2, Zenon DEF CutPlaces
<1>4. PICK run : /\ run[0] = CutStart(from) /\ run[n] = CutFold(from, ps)[DOMAIN ps]
                 /\ \A i \in 1 .. n : run[i] = CutAt(run[i - 1], ps[i])
  <2>1. from \in Int
    OBVIOUS
  <2>2. DOMAIN ps = 1 .. n
    BY <1>3, Zenon
  <2>3. \A i \in 1 .. n : ps[i] \in Int
    BY <1>1, <1>3
  <2>4. \E run : CutRuns(run, from, n, ps)
    BY <2>1, <2>2, <2>3, CutRun
  <2>5. QED BY <2>4 DEF CutRuns
<1> DEFINE A == {i \in Nat : i <= n => CutHeld(run[i], i, from)}
<1>5. 0 \in A
  <2>1. Ordered(<<>>, from, from)
    BY DEF Ordered
  <2>2. 0 * MinimalMatch = 0
    BY DEF ChunkGiven
  <2>3. Len(<<>>) = 0
    OBVIOUS
  <2>4. CutHeld(CutStart(from), 0, from)
    BY <2>1, <2>2 DEF CutHeld, CutStart, CutStates
  <2>5. QED BY <1>4, <2>4
<1>6. ASSUME NEW i \in Nat, i \in A PROVE i + 1 \in A
  <2>1. SUFFICES ASSUME i + 1 <= n PROVE CutHeld(run[i + 1], i + 1, from)
    OBVIOUS
  <2>2. CutHeld(run[i], i, from)
    BY <1>6, <2>1
  <2>3. i + 1 \in 1 .. n /\ i + 1 - 1 = i
    BY <2>1
  <2>4. ps[i + 1] = from + WINSIZE + (i + 1) - 1
    <3>1. PICK j : j = i + 1 /\ j \in 1 .. n
      BY <2>3
    <3>2. ps[j] = from + WINSIZE + j - 1
      BY <1>3, <3>1, Zenon
    <3>3. QED BY <3>1, <3>2, Zenon
  <2>5. run[i + 1] = CutAt(run[i], from + WINSIZE + (i + 1) - 1)
    <3>1. PICK j : j = i + 1 /\ j \in 1 .. n /\ j - 1 = i
      BY <2>3
    <3>2. run[j] = CutAt(run[j - 1], ps[j])
      BY <1>4, <3>1, Zenon
    <3>3. QED BY <2>4, <3>1, <3>2, Zenon
  <2>6. QED BY <2>2, <2>5, CutOn
<1> HIDE DEF A
<1>7. CutHeld(run[n], n, from)
  <2>1. n \in A
    BY <1>5, <1>6, AllNumbers
  <2>2. QED BY <2>1 DEF A
<1>8. PICK acc : acc = run[n] /\ PieceMarks(from, to) = acc.marks
  BY <1>3, <1>4, PieceIs, Zenon
<1>9. PICK last \in Int, s \in Seq(Int), M \in Nat :
        /\ last = acc.lastp /\ s = acc.marks /\ from <= last /\ Ordered(s, from, last) /\ M = MinimalMatch
        /\ last = from \/ last < from + w + n
        /\ Len(s) * M <= last - from
  BY <1>1, <1>7, <1>8 DEF CutHeld, CutStates, ChunkGiven
<1>10. last = from => Len(s) = 0
  <2>1. SUFFICES ASSUME last = from, Len(s) # 0 PROVE FALSE
    OBVIOUS
  <2>2. 1 \in 1 .. Len(s)
    BY <2>1
  <2>3. from < s[1] /\ s[1] <= last /\ s[1] \in Int
    BY <1>9, <2>2 DEF Ordered
  <2>4. QED BY <2>1, <2>3
<1>11. n = 0 => Len(s) = 0
  BY <1>4, <1>8, <1>9 DEF CutStart
<1>12. Len(s) = 0 \/ last <= to - 1
  BY <1>2, <1>9, <1>10, <1>11
<1>13. Ordered(s, from, to - 1)
  BY <1>9, <1>12, OrderedWider
<1>14. Len(s) * M <= to - from
  <2>1. CASE Len(s) = 0
    <3>1. 0 * M = 0
      OBVIOUS
    <3>2. QED BY <2>1, <3>1
  <2>2. CASE last <= to - 1
    <3>1. PICK d \in Int : d = Len(s) * M
      OBVIOUS
    <3>2. QED BY <1>9, <2>2, <3>1
  <2>3. QED BY <1>12, <2>1, <2>2
<1>15. QED BY <1>8, <1>9, <1>13, <1>14, Zenon

-----------------------------------------------------------------------------
(* Chunk boundaries of -m2 *)

ZpaqFresh(p, marked) == [hash |-> 0, c1 |-> 0, o1 |-> {}, lastp |-> p, marks |-> marked]
ZpaqGuess(acc) ==
  IF \E b \in acc.o1 : b[1] = acc.c1 THEN (CHOOSE b \in acc.o1 : b[1] = acc.c1)[2] ELSE 0
ZpaqFactor(acc, c) == IF c # ZpaqGuess(acc) THEN 271828182 ELSE 314159265
ZpaqHash(acc, c) == ((acc.hash + c + 1) * (ZpaqFactor(acc, c) % ChunkValues)) % ChunkValues
ZpaqOrder(acc, c) == {b \in acc.o1 : b[1] # acc.c1} \cup {<<acc.c1, c>>}
ZpaqAt(from, acc, p) ==
  IF ZpaqHash(acc, table.text[p + 1]) > maxhash(ChunkValues) /\ p - acc.lastp >= min_match
    THEN ZpaqFresh(p, IF p > from THEN Append(acc.marks, p) ELSE acc.marks)
    ELSE [acc EXCEPT !.hash = ZpaqHash(acc, table.text[p + 1]), !.c1 = table.text[p + 1],
                     !.o1 = ZpaqOrder(acc, table.text[p + 1])]
ZpaqFrom(from) == Max({blockStart, from - Reach})
ZpaqPlaces(start, pend) == [i \in 1 .. pend - start |-> start + i - 1]
ZpaqFolded(it, from, ps, s) ==
  IF s = {} THEN ZpaqFresh(ZpaqFrom(from), <<>>) ELSE ZpaqAt(from, it[s \ {Max(s)}], ps[Max(s)])
ZpaqFold(from, ps) == CHOOSE it : it = [s \in SUBSET DOMAIN ps |-> ZpaqFolded(it, from, ps, s)]
ZpaqMarks(from, ps) == ZpaqFold(from, ps)[DOMAIN ps].marks

LEMMA ZpaqIs ==
  ASSUME NEW from, NEW pend
  PROVE  zpaq_find_chunks(from, pend) = ZpaqMarks(from, ZpaqPlaces(ZpaqFrom(from), pend)) \o EndMark(pend)
BY DEF zpaq_find_chunks, FoldLeft, MapThenFoldSet, ZpaqMarks, ZpaqFold, ZpaqPlaces, ZpaqFolded, ZpaqFresh,
       ZpaqAt, ZpaqHash, ZpaqFactor, ZpaqGuess, ZpaqOrder, ZpaqFrom

ZpaqStates ==
  [hash : Int, c1 : Int, o1 : SUBSET (Int \X Int), lastp : Int, marks : Seq(Int)]

LEMMA ZpaqType ==
  ASSUME ChunkGiven, NEW from, NEW acc \in ZpaqStates, NEW p \in Nat, p < Len(table.text)
  PROVE  ZpaqAt(from, acc, p) \in ZpaqStates
<1>1. PICK c \in Int : c = table.text[p + 1]
  <2>1. p + 1 \in 1 .. Len(table.text)
    BY DEF ChunkGiven
  <2>2. QED BY <2>1 DEF ChunkGiven
<1>2. ZpaqHash(acc, c) \in Int
  <2>1. PICK big \in Nat : big = ChunkValues /\ big >= 1
    BY PowerPositive, TableAssumption DEF ChunkValues
  <2>2. PICK u \in Int : u = acc.hash + c + 1
    <3>1. acc.hash \in Int
      BY DEF ZpaqStates
    <3>2. QED BY <3>1
  <2>3. PICK v \in Int : v = ZpaqFactor(acc, c) % big
    <3>1. PICK x \in Int : x = ZpaqFactor(acc, c)
      BY SMT DEF ZpaqFactor
    <3>2. x % big \in 0 .. big - 1
      BY <2>1, DivMod, Zenon
    <3>3. x % big \in Int
      BY <2>1, <3>2
    <3>4. QED BY <3>1, <3>3, Zenon
  <2>4. PICK w \in Int : w = u * v
    OBVIOUS
  <2>5. w % big \in 0 .. big - 1
    BY <2>1, DivMod, Zenon
  <2>6. w % big \in Int
    BY <2>1, <2>5
  <2>7. ZpaqHash(acc, c) = w % big
    BY <2>1, <2>2, <2>3, <2>4, Zenon DEF ZpaqHash
  <2>8. QED BY <2>6, <2>7, Zenon
<1>3. ZpaqOrder(acc, c) \in SUBSET (Int \X Int)
  BY DEF ZpaqOrder, ZpaqStates
<1>4. acc.marks \in Seq(Int) /\ Append(acc.marks, p) \in Seq(Int)
  BY DEF ZpaqStates
<1>5. \A s \in Seq(Int) : ZpaqFresh(p, s) \in ZpaqStates
  BY DEF ZpaqFresh, ZpaqStates
<1>6. ZpaqFresh(p, IF p > from THEN Append(acc.marks, p) ELSE acc.marks) \in ZpaqStates
  BY <1>4, <1>5, Zenon
<1>7. PICK x, o : x = ZpaqHash(acc, c) /\ o = ZpaqOrder(acc, c) /\ x \in Int /\ o \in SUBSET (Int \X Int)
  BY <1>2, <1>3
<1>8. [acc EXCEPT !.hash = x, !.c1 = c, !.o1 = o] \in ZpaqStates
  BY <1>7 DEF ZpaqStates
<1>9. QED BY <1>1, <1>6, <1>7, <1>8, Zenon DEF ZpaqAt

LEMMA ZpaqStarts ==
  ASSUME NEW start \in Int
  PROVE  ZpaqFresh(start, <<>>) \in ZpaqStates
BY DEF ZpaqFresh, ZpaqStates

LEMMA ZpaqFromIs ==
  ASSUME NEW from \in Nat, blockStart \in Nat, blockStart <= from
  PROVE  ZpaqFrom(from) \in Nat /\ ZpaqFrom(from) <= from
<1>1. PICK r \in Nat : r = Reach
  BY ChunkingAssumption
<1>2. from - r \in Int /\ blockStart \in Int
  OBVIOUS
<1>3. Max({blockStart, from - r}) = IF blockStart >= from - r THEN blockStart ELSE from - r
  BY <1>2, Max2
<1>4. QED BY <1>1, <1>3 DEF ZpaqFrom

ZpaqRuns(run, from, n, ps) ==
  /\ run[0] = ZpaqFresh(ZpaqFrom(from), <<>>) /\ run[n] = ZpaqFold(from, ps)[DOMAIN ps]
  /\ \A i \in 1 .. n : run[i] = ZpaqAt(from, run[i - 1], ps[i])

LEMMA ZpaqRun ==
  ASSUME ChunkGiven, NEW from \in Nat, blockStart \in Nat, blockStart <= from,
         NEW n \in Nat, NEW ps, DOMAIN ps = 1 .. n,
         \A i \in 1 .. n : ps[i] \in Nat /\ ps[i] < Len(table.text)
  PROVE  \E run : ZpaqRuns(run, from, n, ps)
<1> DEFINE H == [i \in 1 .. n |-> [a \in ZpaqStates |-> ZpaqAt(from, a, ps[i])]]
<1>1. DOMAIN ps = 1 .. n /\ \A i \in 1 .. n : ps[i] \in Nat /\ ps[i] < Len(table.text)
  OBVIOUS
<1>2. ZpaqFresh(ZpaqFrom(from), <<>>) \in ZpaqStates
  BY ZpaqStarts, ZpaqFromIs
<1>3. \A i \in 1 .. n : \A a \in ZpaqStates : H[i][a] = ZpaqAt(from, a, ps[i]) /\ H[i][a] \in ZpaqStates
  BY <1>1, ZpaqType
<1> HIDE DEF H
<1>4. PICK f \in [SUBSET (1 .. n) -> ZpaqStates] : FoldOn(ZpaqFresh(ZpaqFrom(from), <<>>), H, f, n)
  BY <1>2, <1>3, FoldExists, Zenon
<1>5. ASSUME NEW s \in SUBSET (1 .. n) PROVE f[s] = ZpaqFolded(f, from, ps, s)
  <2>1. f[s] = FoldAt(ZpaqFresh(ZpaqFrom(from), <<>>), H, f, s)
    BY <1>4, Zenon DEF FoldOn
  <2>2. CASE s = {}
    BY <2>1, <2>2, Zenon DEF FoldAt, ZpaqFolded
  <2>3. CASE s # {}
    <3>1. Max(s) \in s /\ s \ {Max(s)} \in SUBSET (1 .. n)
      BY <2>3, SomeMax
    <3>2. PICK i, r : i = Max(s) /\ r = s \ {Max(s)} /\ i \in 1 .. n /\ r \in SUBSET (1 .. n)
      BY <3>1
    <3>3. f[r] \in ZpaqStates
      BY <3>2, Zenon
    <3>4. f[s] = H[i][f[r]] /\ ZpaqFolded(f, from, ps, s) = ZpaqAt(from, f[r], ps[i])
      BY <2>1, <2>3, <3>2, Zenon DEF FoldAt, ZpaqFolded
    <3>5. QED BY <1>3, <3>2, <3>3, <3>4, Zenon
  <2>4. QED BY <2>2, <2>3
<1>6. f = [s \in SUBSET DOMAIN ps |-> ZpaqFolded(f, from, ps, s)]
  <2>1. f = [s \in SUBSET (1 .. n) |-> f[s]]
    BY Zenon
  <2>2. QED BY <1>1, <1>5, <2>1, Zenon
<1>7. PICK z : z = ZpaqFold(from, ps)
  OBVIOUS
<1>8. z = [s \in SUBSET DOMAIN ps |-> ZpaqFolded(z, from, ps, s)]
  BY <1>6, <1>7, Zenon DEF ZpaqFold
<1> DEFINE run == [i \in 0 .. n |-> z[1 .. i]]
<1>9. \A i \in 0 .. n : run[i] = z[1 .. i] /\ run[i] = ZpaqFolded(z, from, ps, 1 .. i)
  <2>1. ASSUME NEW i \in 0 .. n PROVE z[1 .. i] = ZpaqFolded(z, from, ps, 1 .. i)
    <3>1. 1 .. i \in SUBSET DOMAIN ps
      BY <1>1, PlacesIs
    <3>2. QED BY <1>8, <3>1, Zenon
  <2>2. QED BY <2>1
<1>10. run[0] = ZpaqFresh(ZpaqFrom(from), <<>>)
  <2>1. 1 .. 0 = {} /\ 0 \in 0 .. n
    OBVIOUS
  <2>2. run[0] = ZpaqFolded(z, from, ps, 1 .. 0)
    BY <1>9, <2>1
  <2> HIDE DEF run
  <2>3. QED BY <2>1, <2>2, Zenon DEF ZpaqFolded
<1>11. run[n] = ZpaqFold(from, ps)[DOMAIN ps]
  BY <1>1, <1>7
<1>12. ASSUME NEW i \in 1 .. n PROVE run[i] = ZpaqAt(from, run[i - 1], ps[i])
  <2>1. i \in 0 .. n /\ i - 1 \in 0 .. n /\ i # 0
    OBVIOUS
  <2>2. Max(1 .. i) = i /\ (1 .. i) \ {i} = 1 .. i - 1 /\ 1 .. i # {}
    BY <2>1, PlacesIs
  <2>3. run[i] = ZpaqFolded(z, from, ps, 1 .. i) /\ run[i - 1] = z[1 .. i - 1]
    BY <1>9, <2>1
  <2> HIDE DEF run
  <2>4. QED BY <2>2, <2>3, Zenon DEF ZpaqFolded
<1> HIDE DEF run
<1>13. QED BY <1>10, <1>11, <1>12, Zenon DEF ZpaqRuns

\* Marks after the stripe's start, and all but the first at least min_match apart
ZpaqHeld(acc, i, from, start) ==
  /\ acc \in ZpaqStates /\ start <= acc.lastp /\ (acc.lastp = start \/ acc.lastp < start + i)
  /\ Len(acc.marks) # 0 =>
       /\ from < acc.lastp /\ Ordered(acc.marks, from, acc.lastp)
       /\ (Len(acc.marks) - 1) * MinimalMatch < acc.lastp - from

LEMMA ZpaqOn ==
  ASSUME ChunkGiven, NEW from \in Nat, NEW start \in Nat, NEW i \in Nat, NEW acc,
         ZpaqHeld(acc, i, from, start), start + i < Len(table.text)
  PROVE  ZpaqHeld(ZpaqAt(from, acc, start + (i + 1) - 1), i + 1, from, start)
<1>1. PICK M \in Nat, m \in Nat : M = MinimalMatch /\ m = min_match /\ M >= 1 /\ m >= M
  BY DEF ChunkGiven
<1>2. PICK p \in Nat : p = start + i /\ start + (i + 1) - 1 = p /\ p < start + (i + 1)
  OBVIOUS
<1>3. PICK last \in Int, s \in Seq(Int) : last = acc.lastp /\ s = acc.marks
  BY DEF ZpaqHeld, ZpaqStates
<1>4. /\ start <= last /\ (last = start \/ last < start + i)
      /\ Len(s) # 0 => from < last /\ Ordered(s, from, last) /\ (Len(s) - 1) * M < last - from
  BY <1>1, <1>3 DEF ZpaqHeld
<1>5. PICK b : b = ZpaqAt(from, acc, p) /\ b \in ZpaqStates
  <2>1. p < Len(table.text) /\ acc \in ZpaqStates
    BY <1>2 DEF ZpaqHeld
  <2>2. QED BY <2>1, ZpaqType
<1>6. ASSUME p - last >= m, b = ZpaqFresh(p, IF p > from THEN Append(s, p) ELSE s)
      PROVE  ZpaqHeld(b, i + 1, from, start)
  <2>1. last < p /\ start <= p
    BY <1>1, <1>2, <1>4, <1>6
  <2>2. PICK u : u = (IF p > from THEN Append(s, p) ELSE s) /\ b.lastp = p /\ b.marks = u
    BY <1>6 DEF ZpaqFresh
  <2>3. CASE p <= from
    <3>1. u = s
      BY <2>2, <2>3
    <3>2. Len(s) = 0
      BY <1>4, <2>1, <2>3
    <3>3. QED BY <1>2, <1>5, <2>1, <2>2, <3>1, <3>2 DEF ZpaqHeld
  <2>4. CASE p > from
    <3>1. PICK k \in Int : k = IF Len(s) = 0 THEN from ELSE last
      BY SMT
    <3>2. Ordered(s, from, k) /\ k < p
      BY <1>4, <2>1, <2>4, <3>1, OrderedNone
    <3>3. Ordered(u, from, p) /\ Len(u) = Len(s) + 1
      <4>1. from \in Int /\ p \in Int /\ from < p /\ u = Append(s, p)
        BY <2>2, <2>4
      <4>2. QED BY <3>2, <4>1, OrderedAppend
    <3>4. PICK c \in Nat : c = Len(s)
      OBVIOUS
    <3>5. c * M < p - from
      <4>1. CASE c = 0
        <5>1. 0 * M = 0
          OBVIOUS
        <5>2. QED BY <2>4, <4>1, <5>1
      <4>2. CASE c # 0
        <5>1. c * M = (c - 1) * M + M
          OBVIOUS
        <5>2. PICK d \in Int : d = (c - 1) * M
          OBVIOUS
        <5>3. d < last - from
          BY <1>4, <3>4, <4>2, <5>2
        <5>4. d + M < p - from
          BY <1>1, <1>6, <5>3
        <5>5. QED BY <5>1, <5>2, <5>4
      <4>3. QED BY <4>1, <4>2
    <3>6. Len(u) - 1 = c
      BY <3>3, <3>4
    <3>7. QED BY <1>1, <1>2, <1>5, <2>1, <2>2, <2>4, <3>3, <3>5, <3>6 DEF ZpaqHeld
  <2>5. QED BY <1>2, <2>3, <2>4
<1>7. ASSUME b.lastp = last, b.marks = s PROVE ZpaqHeld(b, i + 1, from, start)
  <2>1. last = start \/ last < start + (i + 1)
    BY <1>4
  <2>2. start <= b.lastp /\ (b.lastp = start \/ b.lastp < start + (i + 1))
    BY <1>4, <1>7, <2>1
  <2>3. Len(b.marks) # 0 =>
          /\ from < b.lastp /\ Ordered(b.marks, from, b.lastp)
          /\ (Len(b.marks) - 1) * MinimalMatch < b.lastp - from
    BY <1>1, <1>4, <1>7, Zenon
  <2>4. QED BY <1>5, <2>2, <2>3, Zenon DEF ZpaqHeld
<1>8. \/ p - last >= m /\ b = ZpaqFresh(p, IF p > from THEN Append(s, p) ELSE s)
      \/ b.lastp = last /\ b.marks = s
  <2>1. CASE p - last >= m /\ b = ZpaqFresh(p, IF p > from THEN Append(s, p) ELSE s)
    BY <2>1
  <2>2. CASE \E x, o : b = [acc EXCEPT !.hash = x, !.c1 = table.text[p + 1], !.o1 = o]
    BY <1>3, <2>2 DEF ZpaqHeld, ZpaqStates
  <2>3. QED BY <1>1, <1>3, <1>5, <2>1, <2>2, Zenon DEF ZpaqAt
<1>9. ZpaqHeld(b, i + 1, from, start)
  BY <1>6, <1>7, <1>8, Zenon
<1>10. QED BY <1>2, <1>5, <1>9, Zenon

LEMMA ZpaqMarked ==
  ASSUME ChunkGiven, blockStart \in Nat, NEW from \in Nat, NEW pend \in Nat, blockStart <= from,
         from < pend, pend <= Len(table.text), NEW s, s = ZpaqMarks(from, ZpaqPlaces(ZpaqFrom(from), pend))
  PROVE  /\ Ordered(s, from, pend - 1)
         /\ Len(s) # 0 => (Len(s) - 1) * MinimalMatch < pend - from
<1>1. PICK start \in Nat : start = ZpaqFrom(from) /\ start <= from
  BY ZpaqFromIs
<1>2. PICK n \in Nat, N \in Nat : n = pend - start /\ start + n = pend /\ N = Len(table.text) /\ n # 0
  BY <1>1 DEF ChunkGiven
<1>3. PICK ps : ps = ZpaqPlaces(start, pend) /\ DOMAIN ps = 1 .. n
                /\ \A i \in 1 .. n : ps[i] = start + i - 1
  <2>1. ZpaqPlaces(start, pend) = [i \in 1 .. n |-> start + i - 1]
    BY <1>2, Zenon DEF ZpaqPlaces
  <2>2. QED BY <2>1
<1>4. PICK run : ZpaqRuns(run, from, n, ps)
  <2>1. ASSUME NEW i \in 1 .. n PROVE ps[i] \in Nat /\ ps[i] < Len(table.text)
    BY <1>2, <1>3
  <2>2. \E run : ZpaqRuns(run, from, n, ps)
    BY <1>3, <2>1, ZpaqRun
  <2>3. QED BY <2>2
<1>5. /\ run[0] = ZpaqFresh(start, <<>>) /\ run[n].marks = s
      /\ \A i \in 1 .. n : run[i] = ZpaqAt(from, run[i - 1], ps[i])
  BY <1>1, <1>3, <1>4, Zenon DEF ZpaqRuns, ZpaqMarks
<1> DEFINE A == {i \in Nat : i <= n => ZpaqHeld(run[i], i, from, start)}
<1>6. 0 \in A
  <2>1. ZpaqFresh(start, <<>>) \in ZpaqStates
    BY ZpaqStarts
  <2>2. PICK b : b = ZpaqFresh(start, <<>>)
    OBVIOUS
  <2>3. b.lastp = start /\ b.marks = <<>>
    BY <2>2 DEF ZpaqFresh
  <2>4. Len(b.marks) = 0
    BY <2>3
  <2>5. ZpaqHeld(b, 0, from, start)
    BY <2>1, <2>2, <2>3, <2>4 DEF ZpaqHeld
  <2>6. QED BY <1>5, <2>2, <2>5
<1>7. ASSUME NEW i \in Nat, i \in A PROVE i + 1 \in A
  <2>1. SUFFICES ASSUME i + 1 <= n PROVE ZpaqHeld(run[i + 1], i + 1, from, start)
    OBVIOUS
  <2>2. ZpaqHeld(run[i], i, from, start)
    BY <1>7, <2>1
  <2>3. PICK j : j = i + 1 /\ j \in 1 .. n /\ j - 1 = i
    BY <2>1
  <2>4. run[j] = ZpaqAt(from, run[i], start + (i + 1) - 1)
    BY <1>3, <1>5, <2>3, Zenon
  <2>5. start + i < Len(table.text)
    BY <1>2, <2>1
  <2>6. ZpaqHeld(ZpaqAt(from, run[i], start + (i + 1) - 1), i + 1, from, start)
    BY <2>2, <2>5, ZpaqOn
  <2>7. QED BY <2>3, <2>4, <2>6, Zenon
<1> HIDE DEF A
<1>8. ZpaqHeld(run[n], n, from, start)
  <2>1. n \in A
    BY <1>6, <1>7, AllNumbers
  <2>2. QED BY <2>1 DEF A
<1>9. PICK last \in Int, M \in Nat :
        /\ s \in Seq(Int) /\ M = MinimalMatch /\ last < pend
        /\ Len(s) # 0 => Ordered(s, from, last) /\ (Len(s) - 1) * M < last - from
  <2>1. PICK acc : acc = run[n] /\ acc.marks = s /\ ZpaqHeld(acc, n, from, start)
    BY <1>5, <1>8, Zenon
  <2>2. acc \in ZpaqStates
    BY <2>1, Zenon DEF ZpaqHeld
  <2>3. PICK last \in Int, M \in Nat : last = acc.lastp /\ M = MinimalMatch /\ acc.marks \in Seq(Int)
    BY <2>2 DEF ZpaqStates, ChunkGiven
  <2>4. start <= last /\ (last = start \/ last < start + n)
    BY <2>1, <2>3, Zenon DEF ZpaqHeld
  <2>5. /\ Len(s) # 0 => Ordered(s, from, last) /\ (Len(s) - 1) * M < last - from
    BY <2>1, <2>3, Zenon DEF ZpaqHeld
  <2>6. last < pend
    BY <1>1, <1>2, <2>4
  <2>7. QED BY <2>1, <2>3, <2>5, <2>6, Zenon
<1>10. CASE Len(s) = 0
  <2>1. from \in Int /\ pend - 1 \in Int /\ s \in Seq(Int)
    BY <1>9
  <2>2. QED BY <1>10, <2>1, OrderedNone
<1>11. CASE Len(s) # 0
  <2>1. last <= pend - 1 /\ from \in Int /\ pend - 1 \in Int
    BY <1>9
  <2>2. Ordered(s, from, pend - 1)
    BY <1>9, <1>11, <2>1, OrderedWider
  <2>3. PICK d \in Int : d = (Len(s) - 1) * M
    BY <1>9
  <2>4. QED BY <1>9, <1>11, <2>2, <2>3
<1>12. QED BY <1>10, <1>11

\* The marks of a stripe, by either search
LEMMA ChunkIs == table \in ChunkJobs => ChunkGiven
<1>1. SUFFICES ASSUME table \in ChunkJobs PROVE ChunkGiven
  OBVIOUS
<1>2. /\ table.text \in Seq(Nat) \ {<<>>} /\ {table.block, table.L} \subseteq Nat \ {0} /\ table.MIN_MATCH \in Nat
      /\ {WINSIZE, MinimalMatch} \subseteq Nat \ {0}
  BY <1>1, ChunkingAssumption, Zenon
<1>3. /\ table.block \in Nat /\ table.block # 0 /\ table.L \in Nat /\ table.L # 0
      /\ WINSIZE \in Nat /\ WINSIZE # 0 /\ MinimalMatch \in Nat /\ MinimalMatch # 0
      /\ table.text \in Seq(Nat) /\ table.text # <<>>
  BY <1>2, Zenon
<1>4. table.block >= 1 /\ table.L >= 1 /\ WINSIZE >= 1 /\ MinimalMatch >= 1
  BY <1>3
<1>5. Len(table.text) \in Nat /\ Len(table.text) >= 1
  <2>1. PICK t \in Seq(Nat) : t = table.text /\ t # <<>>
    BY <1>3
  <2>2. Len(t) \in Nat /\ Len(t) # 0
    BY <2>1, EmptySeq, LenProperties
  <2>3. QED BY <2>1, <2>2
<1>6. min_match \in Nat /\ min_match >= MinimalMatch
  <2>1. PICK u \in Nat, v \in Nat : u = table.MIN_MATCH /\ v = MinimalMatch
    BY <1>2, <1>3
  <2>2. Max({u, v}) = IF u >= v THEN u ELSE v
    <3>1. u \in Int /\ v \in Int
      OBVIOUS
    <3>2. QED BY <3>1, Max2
  <2>3. QED BY <2>1, <2>2 DEF min_match
<1>7. QED BY <1>2, <1>3, <1>4, <1>5, <1>6, Zenon DEF ChunkGiven

\* Between the ends of a stripe; the first mark need not be min_match after the start
Spaced(s, from, pend) ==
  /\ Ordered(s, from, pend - 1)
  /\ Len(s) # 0 => (Len(s) - 1) * MinimalMatch < pend - from

LEMMA MarkedFits ==
  ASSUME ChunkGiven, NEW from \in Nat, NEW to \in Nat, NEW pend \in Nat, from < pend, to <= pend, NEW s,
         Ordered(s, from, pend - 1), Len(s) * MinimalMatch <= to - from
  PROVE  Spaced(s, from, pend)
<1>1. PICK M \in Nat : M = MinimalMatch /\ M >= 1
  BY DEF ChunkGiven
<1>2. PICK c \in Nat : c = Len(s)
  BY DEF Ordered
<1>3. c * M <= to - from
  BY <1>1, <1>2, Zenon
<1>4. (c - 1) * M = c * M - M
  OBVIOUS
<1>5. PICK d \in Int, f \in Int : d = c * M /\ f = (c - 1) * M
  OBVIOUS
<1>6. f < pend - from
  <2>1. d <= to - from /\ f = d - M
    BY <1>3, <1>4, <1>5
  <2>2. QED BY <1>1, <2>1
<1>7. QED BY <1>1, <1>2, <1>5, <1>6, Zenon DEF Spaced

LEMMA FastMarked ==
  ASSUME ChunkGiven, NEW from \in Nat, NEW pend \in Nat, from < pend
  PROVE  \E s : fast_find_chunks(from, pend) = s \o EndMark(pend) /\ Spaced(s, from, pend)
<1>1. PICK third \in Nat : third = STRIPE \div 3 /\ third >= 1
  BY ChunkingAssumption
<1>2. PICK M \in Nat : M = MinimalMatch /\ M >= 1
  BY DEF ChunkGiven
<1> DEFINE three == [k \in 1 .. 3 |-> PieceMarks(from + (k - 1) * third, from + k * third)]
<1>3. fast_find_chunks(from, pend) =
        (IF pend - from >= 3 * third THEN FlattenSeq(three) ELSE PieceMarks(from, pend)) \o EndMark(pend)
  BY <1>1, Zenon DEF fast_find_chunks
<1>4. CASE pend - from < 3 * third
  <2>1. fast_find_chunks(from, pend) = PieceMarks(from, pend) \o EndMark(pend)
    <3>1. ~ (pend - from >= 3 * third)
      BY <1>4
    <3>2. QED BY <1>3, <3>1, Zenon
  <2>2. PICK s : s = PieceMarks(from, pend) /\ Ordered(s, from, pend - 1) /\ Len(s) * M <= pend - from
    BY <1>2, PieceMarked
  <2>3. Spaced(s, from, pend)
    <3>1. pend <= pend
      OBVIOUS
    <3>2. QED BY <1>2, <2>2, <3>1, MarkedFits
  <2>4. QED BY <2>1, <2>2, <2>3, Zenon
<1>5. CASE pend - from >= 3 * third
  <2>1. PICK x \in Nat, y \in Nat, z \in Nat :
          x = from + third /\ y = x + third /\ z = y + third /\ from <= x /\ x <= y /\ y <= z /\ z <= pend
    BY <1>5
  <2>2. PICK p : p = PieceMarks(from, x) /\ Ordered(p, from, x - 1) /\ Len(p) * M <= x - from
    BY <1>2, <2>1, PieceMarked
  <2>3. PICK q : q = PieceMarks(x, y) /\ Ordered(q, x, y - 1) /\ Len(q) * M <= y - x
    BY <1>2, <2>1, PieceMarked
  <2>4. PICK r : r = PieceMarks(y, z) /\ Ordered(r, y, z - 1) /\ Len(r) * M <= z - y
    BY <1>2, <2>1, PieceMarked
  <2>5. p \in Seq(Int) /\ q \in Seq(Int) /\ r \in Seq(Int)
    BY <2>2, <2>3, <2>4 DEF Ordered
  <2>6. three = <<p, q, r>>
    <3>1. three = <<PieceMarks(from + (1 - 1) * third, from + 1 * third),
                    PieceMarks(from + (2 - 1) * third, from + 2 * third),
                    PieceMarks(from + (3 - 1) * third, from + 3 * third)>>
      BY SMT
    <3>2. /\ from + (1 - 1) * third = from /\ from + 1 * third = x /\ from + (2 - 1) * third = x
          /\ from + 2 * third = y /\ from + (3 - 1) * third = y /\ from + 3 * third = z
      BY <2>1
    <3> HIDE DEF three
    <3>3. QED BY <2>2, <2>3, <2>4, <3>1, <3>2, Zenon
  <2> HIDE DEF three
  <2>7. /\ <<>> \in Seq(Seq(Int)) /\ Append(<<>>, p) \in Seq(Seq(Int)) /\ Append(Append(<<>>, p), q) \in Seq(Seq(Int))
        /\ three = Append(Append(Append(<<>>, p), q), r)
    BY <2>5, <2>6
  <2>8. PICK s : s = ((<<>> \o p) \o q) \o r
    OBVIOUS
  <2>9. FlattenSeq(three) = s
    <3>1. FlattenSeq(Append(<<>>, p)) = <<>> \o p
      BY <2>5, <2>7, FlattenAppend, FlattenNone
    <3>2. FlattenSeq(Append(Append(<<>>, p), q)) = (<<>> \o p) \o q
      BY <2>5, <2>7, <3>1, FlattenAppend
    <3>3. QED BY <2>5, <2>7, <2>8, <3>2, FlattenAppend
  <2>10. from \in Int /\ x \in Int /\ y \in Int /\ z \in Int /\ x - 1 <= x /\ y - 1 <= y /\ z - 1 <= z
    OBVIOUS
  <2>11. Ordered(p, from, x) /\ Ordered(q, x, y) /\ Ordered(r, y, z - 1)
    BY <2>2, <2>3, <2>4, <2>10, OrderedWider
  <2>12. Ordered(<<>>, from, from) /\ Len(<<>>) = 0
    <3>1. <<>> \in Seq(Int) /\ Len(<<>>) = 0
      OBVIOUS
    <3>2. QED BY <2>10, <3>1, OrderedNone
  <2>13. Ordered(<<>> \o p, from, x) /\ Len(<<>> \o p) = 0 + Len(p)
    <3>1. from <= from /\ from <= x
      BY <2>1
    <3>2. QED BY <2>10, <2>11, <2>12, <3>1, OrderedJoin
  <2>14. Ordered((<<>> \o p) \o q, from, y) /\ Len((<<>> \o p) \o q) = 0 + Len(p) + Len(q)
    <3>1. PICK u : u = <<>> \o p /\ Ordered(u, from, x) /\ Len(u) = 0 + Len(p)
      BY <2>13
    <3>2. QED BY <2>1, <2>10, <2>11, <3>1, OrderedJoin
  <2>15. Ordered(s, from, z - 1) /\ Len(s) = 0 + Len(p) + Len(q) + Len(r)
    <3>1. PICK u : u = (<<>> \o p) \o q /\ Ordered(u, from, y) /\ Len(u) = 0 + Len(p) + Len(q)
      BY <2>14
    <3>2. y <= z - 1 /\ z - 1 \in Int /\ from <= y
      BY <1>1, <2>1
    <3>3. QED BY <2>8, <2>10, <2>11, <3>1, <3>2, OrderedJoin
  <2>16. PICK a \in Nat, b \in Nat, c \in Nat : a = Len(p) /\ b = Len(q) /\ c = Len(r)
    BY <2>5
  <2>17. Len(s) * M <= z - from
    <3>1. Len(s) = a + b + c
      BY <2>15, <2>16
    <3>2. (a + b + c) * M = a * M + b * M + c * M
      OBVIOUS
    <3>3. PICK d \in Int, e \in Int, f \in Int : d = a * M /\ e = b * M /\ f = c * M
      OBVIOUS
    <3>4. d <= x - from /\ e <= y - x /\ f <= z - y
      BY <2>2, <2>3, <2>4, <2>16, <3>3, Zenon
    <3>5. d + e + f <= z - from
      BY <3>4
    <3>6. QED BY <3>1, <3>2, <3>3, <3>5
  <2>18. Spaced(s, from, pend)
    <3>1. z - 1 \in Int /\ pend - 1 \in Int /\ z - 1 <= pend - 1 /\ from <= from
      BY <2>1
    <3>2. Ordered(s, from, pend - 1)
      BY <2>10, <2>15, <3>1, OrderedWider
    <3>3. QED BY <1>2, <2>1, <2>17, <3>2, MarkedFits
  <2>19. QED BY <1>3, <1>5, <2>9, <2>18, Zenon
<1>6. QED BY <1>4, <1>5

\* A stripe's marks: in order, no more than the thread's array holds, and the end of the block one of them
StripeMarks(from, pend) ==
  IF table.ZPAQ_CDC THEN zpaq_find_chunks(from, pend) ELSE fast_find_chunks(from, pend)

LEMMA MarksFound ==
  ASSUME ChunkGiven, blockStart \in Nat, NEW from \in Nat, NEW pend \in Nat, blockStart <= from,
         from < pend, pend <= Len(table.text), pend - from <= STRIPE
  PROVE  /\ Ordered(StripeMarks(from, pend), from, pend) /\ Len(StripeMarks(from, pend)) <= MAX_CHUNKS
         /\ pend = bufend => /\ Len(StripeMarks(from, pend)) # 0
                             /\ StripeMarks(from, pend)[Len(StripeMarks(from, pend))] = pend
<1>1. PICK s : StripeMarks(from, pend) = s \o EndMark(pend) /\ Spaced(s, from, pend)
  <2>1. CASE table.ZPAQ_CDC
    <3>1. PICK s : s = ZpaqMarks(from, ZpaqPlaces(ZpaqFrom(from), pend))
      OBVIOUS
    <3>2. Spaced(s, from, pend)
      BY <3>1, ZpaqMarked DEF Spaced
    <3>3. StripeMarks(from, pend) = s \o EndMark(pend)
      BY <2>1, <3>1, ZpaqIs, Zenon DEF StripeMarks
    <3>4. QED BY <3>2, <3>3
  <2>2. CASE ~ table.ZPAQ_CDC
    <3>1. StripeMarks(from, pend) = fast_find_chunks(from, pend)
      BY <2>2, Zenon DEF StripeMarks
    <3>2. QED BY <3>1, FastMarked
  <2>3. QED BY <2>1, <2>2
<1>2. PICK M \in Nat, S \in Nat : M = MinimalMatch /\ M >= 1 /\ S = STRIPE /\ pend - from <= S
  BY ChunkingAssumption DEF ChunkGiven
<1>3. PICK q \in Nat, r \in 0 .. M - 1 : MAX_CHUNKS = q + 2 /\ S = M * q + r
  <2>1. S \in Int /\ S >= 0
    OBVIOUS
  <2>2. S \div M \in Int /\ S % M \in 0 .. M - 1 /\ S = M * (S \div M) + (S % M) /\ (S >= 0 => S \div M >= 0)
    BY <1>2, <2>1, DivMod, Zenon
  <2>3. PICK d \in Int, e \in 0 .. M - 1 : d = S \div M /\ S = M * d + e /\ d >= 0
    BY <2>1, <2>2, Zenon
  <2>4. MAX_CHUNKS = d + 2
    BY <1>2, <2>3, Zenon DEF MAX_CHUNKS
  <2>5. d \in Nat
    BY <2>3
  <2>6. QED BY <2>3, <2>4, <2>5, Zenon
<1>4. PICK c \in Nat : c = Len(s) /\ Ordered(s, from, pend - 1)
  BY <1>1 DEF Spaced, Ordered
<1>5. c <= q + 1
  <2>1. SUFFICES ASSUME c - 1 >= q + 1 PROVE FALSE
    OBVIOUS
  <2>2. c # 0 /\ (c - 1) * M < pend - from
    <3>1. c # 0
      BY <2>1
    <3>2. QED BY <1>1, <1>2, <1>4, <3>1, Zenon DEF Spaced
  <2>3. (c - 1) * M >= (q + 1) * M /\ (q + 1) * M = M * q + M
    <3>1. PICK u \in Nat, v \in Nat : u = c - 1 /\ v = q + 1 /\ v <= u
      BY <2>1
    <3>2. v * M <= u * M
      BY <3>1, TimesOrder
    <3>3. v * M = M * q + M
      BY <3>1
    <3>4. PICK a \in Int, b \in Int : a = u * M /\ b = v * M
      OBVIOUS
    <3>5. (c - 1) * M = a /\ (q + 1) * M = b
      BY <3>1, <3>4, Zenon
    <3>6. a >= b
      BY <3>2, <3>4
    <3>7. QED BY <3>3, <3>4, <3>5, <3>6, Zenon
  <2>4. PICK u \in Int, v \in Int : u = (c - 1) * M /\ v = M * q
    OBVIOUS
  <2>5. u >= v + M /\ u < pend - from /\ S = v + r
    BY <1>3, <2>2, <2>3, <2>4
  <2>6. QED BY <1>2, <2>5
<1>6. from \in Int /\ pend \in Int /\ pend - 1 \in Int /\ from <= pend - 1 /\ pend - 1 <= pend
  OBVIOUS
<1>7. PICK e, f : e = EndMark(pend) /\ f = s \o e /\ StripeMarks(from, pend) = f
  BY <1>1
<1>8. CASE pend = bufend
  <2>1. e = <<pend>>
    BY <1>7, <1>8, Zenon DEF EndMark
  <2>2. e \in Seq(Int) /\ Len(e) = 1 /\ e[1] = pend
    BY <2>1
  <2>3. Ordered(e, pend - 1, pend)
    BY <2>2 DEF Ordered
  <2>4. Ordered(f, from, pend) /\ Len(f) = c + 1
    BY <1>4, <1>6, <1>7, <2>2, <2>3, OrderedJoin
  <2>5. f[c + 1] = pend
    <3>1. s \in Seq(Int) /\ 1 \in 1 .. Len(e)
      BY <1>4, <2>2 DEF Ordered
    <3>2. \A j \in 1 .. Len(e) : (s \o e)[Len(s) + j] = e[j]
      BY <3>1, ConcatProperties
    <3>3. (s \o e)[Len(s) + 1] = e[1]
      BY <3>1, <3>2
    <3>4. QED BY <1>4, <1>7, <2>2, <3>3, Zenon
  <2>6. Len(f) <= q + 2 /\ Len(f) # 0 /\ f[Len(f)] = pend
    BY <1>5, <2>4, <2>5
  <2>7. QED BY <1>3, <1>7, <2>4, <2>6, Zenon
<1>9. CASE pend # bufend
  <2>1. e = <<>>
    BY <1>7, <1>9, Zenon DEF EndMark
  <2>2. e \in Seq(Int) /\ Len(e) = 0
    BY <2>1
  <2>3. Ordered(e, pend - 1, pend)
    BY <1>6, <2>2, OrderedNone
  <2>4. Ordered(f, from, pend) /\ Len(f) = c + 0
    BY <1>4, <1>6, <1>7, <2>2, <2>3, OrderedJoin
  <2>5. Len(f) <= q + 2
    BY <1>5, <2>4
  <2>6. QED BY <1>3, <1>7, <1>9, <2>4, <2>5, Zenon
<1>10. QED BY <1>8, <1>9

-----------------------------------------------------------------------------
(* The table of -m1 and -m2 *)

LEMMA CdcSizes ==
  ASSUME table \in ChunkJobs
  PROVE  /\ total_chunks(TRUE) \in Nat /\ total_chunks(TRUE) >= 1
         /\ chunknum_mask(TRUE) + 1 \in Nat /\ chunknum_mask(TRUE) + 1 >= 1
<1>1. PICK N \in Nat, l \in Nat : N = Len(table.text) /\ l = table.L /\ l >= 1
  BY ChunkIs DEF ChunkGiven
<1>2. PICK s \in Nat : s = Max({N, l}) /\ s >= l
  <2>1. N \in Int /\ l \in Int
    OBVIOUS
  <2>2. Max({N, l}) = IF N >= l THEN N ELSE l
    BY <2>1, Max2
  <2>3. QED BY <2>2
<1>3. PICK q \in Nat : q = s \div l /\ q >= 1
  <2>1. s \in Int /\ s >= 0
    OBVIOUS
  <2>2. s \div l \in Int /\ s % l \in 0 .. l - 1 /\ s = l * (s \div l) + (s % l) /\ (s >= 0 => s \div l >= 0)
    BY <1>1, <2>1, DivMod, Zenon
  <2>3. PICK d \in Int, e \in 0 .. l - 1 : d = s \div l /\ s = l * d + e /\ d >= 0
    BY <2>1, <2>2, Zenon
  <2>4. d # 0
    <3>1. SUFFICES ASSUME d = 0 PROVE FALSE
      OBVIOUS
    <3>2. l * 0 = 0
      OBVIOUS
    <3>3. s = 0 + e
      BY <2>3, <3>1, <3>2
    <3>4. QED BY <1>1, <1>2, <3>3
  <2>5. d \in Nat /\ d >= 1
    BY <2>3, <2>4
  <2>6. QED BY <2>3, <2>5, Zenon
<1>4. Chunks1024 = q
  BY <1>1, <1>2, <1>3, Zenon DEF Chunks1024, filesize
<1>5. 2 * q + 2 <= 2 ^ HashBits
  <2>1. 2 * (Max({Len(table.text), table.L}) \div table.L) + 2 <= 2 ^ HashBits
    BY ChunkingAssumption, Zenon
  <2>2. QED BY <1>1, <1>2, <1>3, <2>1, Zenon
<1>6. PICK x \in Nat : x = (IF TRUE THEN q \div (IF q > 1024 THEN 10 ELSE 1) ELSE 0) /\ x <= q
  <2>1. CASE q > 1024
    <3>1. q \div 10 \in Nat /\ q \div 10 <= q
      OBVIOUS
    <3>2. QED BY <2>1, <3>1
  <2>2. CASE ~ (q > 1024)
    <3>1. q \div 1 \in Nat /\ q \div 1 <= q
      OBVIOUS
    <3>2. QED BY <2>2, <3>1
  <2>3. QED BY <2>1, <2>2
<1>7. PICK n \in Nat : n = q + x /\ n >= 1 /\ n <= 2 * q
  BY <1>3, <1>6
<1>8. total_chunks(TRUE) = n
  BY <1>4, <1>6, <1>7, Zenon DEF total_chunks
<1>9. PICK u \in Nat : u = n + 2 /\ u >= 1 /\ u <= 2 ^ HashBits
  <2>1. 2 ^ HashBits \in Nat
    BY PowerPositive, TableAssumption
  <2>2. PICK big \in Nat : big = 2 ^ HashBits
    BY <2>1
  <2>3. 2 * q + 2 <= big
    BY <1>5, <2>2
  <2>4. n + 2 <= big /\ n + 2 \in Nat /\ n + 2 >= 1
    BY <1>7, <2>3
  <2>5. QED BY <2>2, <2>4
<1>10. PICK w \in Nat : w = roundup_to_power_of(u) /\ w >= u
  BY <1>9, RoundUp
<1>11. chunknum_mask(TRUE) = w - 1
  BY <1>8, <1>9, <1>10, Zenon DEF chunknum_mask
<1>12. w - 1 + 1 = w /\ w >= 1
  BY <1>9, <1>10
<1>13. chunknum_mask(TRUE) + 1 = w
  <2>1. chunknum_mask(TRUE) + 1 = w - 1 + 1
    BY <1>11, Zenon
  <2>2. QED BY <1>12, <2>1, Zenon
<1>14. QED BY <1>7, <1>8, <1>12, <1>13

\* A search ends at one of the chunks that are the same, or finds none
LEMMA StopFound ==
  ASSUME table \in ChunkJobs, NEW index, NEW same
  PROVE  StopAt(TRUE, index, same).found \in same \cup {NOT_FOUND}
<1> DEFINE slot == Slots(TRUE, index)
           Stops(val) == \/ val = NOT_FOUND
                           \/ /\ get_hash(TRUE, val) = chunkarr_value(TRUE, index, 0)
                              /\ get_chunk(TRUE, val) \in same
           S == {k \in 1 .. MAX_HASH_CHAIN : k = MAX_HASH_CHAIN \/ Stops(chunkarr[slot[k]])}
<1>1. StopAt(TRUE, index, same).found =
        IF Min(S) = MAX_HASH_CHAIN THEN NOT_FOUND ELSE get_chunk(TRUE, chunkarr[slot[Min(S)]])
  BY DEF StopAt
<1>2. PICK last \in Nat : last = MAX_HASH_CHAIN /\ last >= 1
  BY TableAssumption
<1>3. S \subseteq Nat /\ last \in S
  <2>1. last \in 1 .. MAX_HASH_CHAIN /\ 1 .. MAX_HASH_CHAIN \subseteq Nat
    BY <1>2
  <2>2. S \subseteq 1 .. MAX_HASH_CHAIN
    OBVIOUS
  <2>3. last \in S
    BY <1>2, <2>1
  <2> HIDE DEF S
  <2>4. QED BY <2>1, <2>2, <2>3, Zenon
<1>4. \A k \in S : k = MAX_HASH_CHAIN \/ Stops(chunkarr[slot[k]])
  OBVIOUS
<1> HIDE DEF S, slot
<1>5. Min(S) \in S
  BY <1>3, MinIs
<1>6. PICK val : val = chunkarr[slot[Min(S)]]
  OBVIOUS
<1>7. get_chunk(TRUE, NOT_FOUND) = NOT_FOUND
  <2>1. PICK m \in Nat : m = chunknum_mask(TRUE) + 1 /\ m >= 1
    BY CdcSizes
  <2>2. PICK z \in Int : z = 0 /\ z = m * z + z /\ z \in 0 .. m - 1
    <3>1. m \in Nat /\ m >= 1
      BY <2>1, Zenon
    <3>2. 0 = m * 0 + 0 /\ 0 \in 0 .. m - 1 /\ 0 \in Int
      BY <3>1
    <3>3. QED BY <3>2, Zenon
  <2>3. m \in Nat /\ m >= 1
    BY <2>1, Zenon
  <2>4. z % m = z
    BY <2>2, <2>3, DivUnique, Zenon
  <2>5. QED BY <2>1, <2>2, <2>4, Zenon DEF get_chunk, NOT_FOUND
<1>8. CASE Min(S) = MAX_HASH_CHAIN
  BY <1>1, <1>8
<1>9. CASE Min(S) # MAX_HASH_CHAIN
  <2>1. Stops(val)
    BY <1>4, <1>5, <1>6, <1>9, Zenon
  <2>2. StopAt(TRUE, index, same).found = get_chunk(TRUE, val)
    BY <1>1, <1>6, <1>9, Zenon
  <2>3. QED BY <1>7, <2>1, <2>2, Zenon
<1>10. QED BY <1>8, <1>9

-----------------------------------------------------------------------------
(* What is known between two steps: see ChunkInv for the variables *)

Span(from, to) == BytesAt(from, to - from)
Spans == {Span(z[1], z[2]) : z \in Nat \X Nat}

\* Chunks tile the block up to the last one taken, and the marks ahead lie in one stripe
Spots(start, end, ms, cur, last) ==
  /\ start \in Nat /\ start <= Len(table.text) /\ end \in Nat /\ start <= end /\ end <= End(start)
  /\ \E from \in Nat : start <= from /\ from <= end /\ end - from <= STRIPE /\ Ordered(ms, from, end)
  /\ Len(ms) <= MAX_CHUNKS /\ cur \in Nat /\ cur >= 1 /\ cur <= Len(ms) + 1
  /\ last \in Nat /\ start <= last /\ last <= end
  /\ \A j \in 1 .. Len(ms) : j >= cur => last < ms[j]
  /\ cur > Len(ms) /\ Len(ms) # 0 => last = ms[Len(ms)]
  /\ end = End(start) /\ end > start => Len(ms) # 0 /\ ms[Len(ms)] = end

\* The hash of a mark is that of the bytes from the mark before it
Hashed(ms, hs, cur, last) ==
  /\ Len(hs) = Len(ms)
  /\ \A j \in 1 .. Len(ms) :
       j >= cur => hs[j].digest = Span(IF j = cur THEN last ELSE ms[j - 1], ms[j])

\* The table knows where its chunks start, and their bytes
Stocks(starts, digests, num, last) ==
  /\ starts \in Seq(Nat) /\ digests \in Seq(Spans) /\ Len(digests) = Len(starts)
  /\ num \in Nat /\ Len(starts) < total_chunks(TRUE) /\ (num + 1 < total_chunks(TRUE) => Len(starts) = num)
  /\ \A c \in 1 .. Len(starts) : starts[c] < last
  /\ \A c \in 1 .. Len(starts) : c + 1 <= Len(starts) => digests[c] = Span(starts[c], starts[c + 1])
  /\ Len(starts) = num /\ num # 0 => digests[num] = Span(starts[num], last)

Repeats(m, dest, e) ==
  /\ m.len >= min_match /\ m.offset >= m.len /\ m.offset <= dest /\ dest + m.len <= e
  /\ BytesAt(dest, m.len) = BytesAt(dest - m.offset, m.len)
DestIn(start, ms, n) == start + WaySum(SubSeq(ms, 1, n - 1)) + ms[n].lit_len
Matched(start, ms, lits, last, lastm) ==
  /\ ms \in Seq(FoundMatches) /\ lits \in Int /\ lastm \in Nat /\ start <= lastm /\ lastm <= last
  /\ start + WaySum(ms) = lastm /\ lits + LenSum(ms) = last - start
  /\ \A n \in 1 .. Len(ms) : Repeats(ms[n], DestIn(start, ms, n), lastm)

ChunkInv ==
  tablePc = "chunks" =>
    /\ table \in ChunkJobs /\ Spots(blockStart, ptr, marks, curmark, last_chunk)
    /\ Hashed(marks, vhashes, curmark, last_chunk)
    /\ Stocks(startarr, digestarr, curchunk, last_chunk)
    /\ Matched(blockStart, found_matches, literals, last_chunk, last_match)

LEMMA ChunkKept ==
  ASSUME table' = table, table \in ChunkJobs,
         NEW start, NEW end, NEW ms, NEW hs, NEW cur, NEW last, NEW starts, NEW digests, NEW num, NEW found_,
         NEW lits, NEW lastm,
         start = blockStart', end = ptr', ms = marks', hs = vhashes', cur = curmark', last = last_chunk',
         starts = startarr', digests = digestarr', num = curchunk', found_ = found_matches',
         lits = literals', lastm = last_match',
         Spots(start, end, ms, cur, last), Hashed(ms, hs, cur, last), Stocks(starts, digests, num, last),
         Matched(start, found_, lits, last, lastm)
  PROVE  ChunkInv'
<1>1. Spots(blockStart, ptr, marks, curmark, last_chunk)' <=> Spots(start, end, ms, cur, last)
  BY DEF Spots, End, Ordered, MAX_CHUNKS
<1>2. Hashed(marks, vhashes, curmark, last_chunk)' <=> Hashed(ms, hs, cur, last)
  BY DEF Hashed, Span, BytesAt
<1>3. Stocks(startarr, digestarr, curchunk, last_chunk)' <=> Stocks(starts, digests, num, last)
  BY DEF Stocks, Spans, Span, BytesAt, total_chunks, Chunks1024, filesize
<1>4. Matched(blockStart, found_matches, literals, last_chunk, last_match)' <=> Matched(start, found_, lits, last, lastm)
  <2>1. found_matches' = found_ /\ blockStart' = start /\ literals' = lits /\ last_chunk' = last /\ last_match' = lastm
    OBVIOUS
  <2>2. QED BY <2>1 DEF Matched, Repeats, BytesAt, min_match, DestIn
<1>5. QED BY <1>1, <1>2, <1>3, <1>4, Zenon DEF ChunkInv

LEMMA ChunkRepeats == ChunkInv => ChunksRepeat
<1>1. SUFFICES ASSUME ChunkInv, tablePc = "chunks" PROVE ChunksRepeat
  BY DEF ChunksRepeat
<1>2. /\ table \in ChunkJobs /\ Spots(blockStart, ptr, marks, curmark, last_chunk)
      /\ Stocks(startarr, digestarr, curchunk, last_chunk)
      /\ Matched(blockStart, found_matches, literals, last_chunk, last_match)
  BY <1>1 DEF ChunkInv
<1>3. PICK e \in Int, S \in Int : e = ptr /\ S = STRIPE
  BY <1>2, ChunkingAssumption DEF Spots
<1>4. PICK from \in Nat : from <= e /\ e - from <= S /\ Ordered(marks, from, e)
  BY <1>2, <1>3 DEF Spots
<1>5. PICK c \in Nat : c = Len(marks)
  BY <1>4 DEF Ordered
<1>6. Len(marks) <= MAX_CHUNKS /\ \A j \in 2 .. Len(marks) : marks[j - 1] < marks[j]
  BY <1>2, <1>4 DEF Spots, Ordered
<1>7. ASSUME marks # <<>> PROVE last_chunk <= marks[Len(marks)] /\ marks[1] > ptr - STRIPE
  <2>1. c # 0
    <3>1. marks \in Seq(Int)
      BY <1>4 DEF Ordered
    <3>2. QED BY <1>5, <1>7, <3>1, EmptySeq
  <2>2. 1 \in 1 .. Len(marks) /\ c \in 1 .. Len(marks)
    BY <1>5, <2>1
  <2>3. PICK f \in Int, l \in Int : f = marks[1] /\ l = marks[c] /\ from < f
    BY <1>4, <2>2 DEF Ordered
  <2>4. PICK last \in Nat, cur \in Nat : last = last_chunk /\ cur = curmark
    BY <1>2 DEF Spots
  <2>5. /\ \A j \in 1 .. Len(marks) : j >= cur => last < marks[j]
        /\ cur > Len(marks) /\ Len(marks) # 0 => last = marks[Len(marks)]
    BY <1>2, <2>4, Zenon DEF Spots
  <2>6. last <= l
    <3>1. CASE cur > c
      BY <1>5, <2>1, <2>3, <2>5, <3>1
    <3>2. CASE c >= cur
      BY <2>2, <2>3, <2>5, <3>2
    <3>3. QED BY <3>1, <3>2
  <2>7. f > e - S
    BY <1>4, <2>3
  <2>8. QED BY <1>3, <1>5, <2>3, <2>4, <2>6, <2>7
<1>8. Len(digestarr) = Len(startarr) /\ Len(startarr) < total_chunks(TRUE)
  BY <1>2, Zenon DEF Stocks
<1>9. ASSUME NEW n \in 1 .. Len(found_matches)
      PROVE  /\ found_matches[n].len >= min_match /\ found_matches[n].offset >= found_matches[n].len
             /\ found_matches[n].offset <= DestOf(n) /\ DestOf(n) + found_matches[n].len <= ptr
             /\ BytesAt(DestOf(n), found_matches[n].len)
                  = BytesAt(DestOf(n) - found_matches[n].offset, found_matches[n].len)
  <2>1. PICK m : m = found_matches[n]
    OBVIOUS
  <2>2. PICK dest : dest = DestOf(n)
    OBVIOUS
  <2>3. DestIn(blockStart, found_matches, n) = dest
    BY <2>2 DEF DestIn, DestOf, WaySum
  <2>4. Repeats(m, dest, last_match)
    BY <1>2, <2>1, <2>3, Zenon DEF Matched
  <2>5. dest + m.len <= ptr
    <3>1. m \in FoundMatches
      BY <1>2, <2>1 DEF Matched
    <3>2. PICK x \in Int : x = m.len
      BY <3>1 DEF FoundMatches
    <3>3. PICK y \in Int, z \in Int : y = last_match /\ z = last_chunk /\ y <= z /\ z <= e
      BY <1>2, <1>3 DEF Matched, Spots
    <3>4. dest + x <= y
      BY <2>4, <3>2, <3>3, Zenon DEF Repeats
    <3>5. dest \in Int
      <4>1. found_matches \in Seq(FoundMatches) /\ blockStart \in Int
        BY <1>2 DEF Matched, Spots
      <4>2. SubSeq(found_matches, 1, n - 1) \in Seq(FoundMatches)
        BY <4>1
      <4>3. WaySum(SubSeq(found_matches, 1, n - 1)) \in Int
        BY <2>1, <3>1, <4>2, SumsAppend
      <4>4. found_matches[n].lit_len \in Int
        BY <2>1, <3>1 DEF FoundMatches
      <4>5. QED BY <2>3, <4>1, <4>3, <4>4 DEF DestIn
    <3>6. QED BY <1>3, <3>2, <3>3, <3>4, <3>5
  <2>6. QED BY <2>1, <2>2, <2>4, <2>5, Zenon DEF Repeats
<1>10. literals + FoldLeft(LAMBDA sum, m : sum + m.len, 0, found_matches) = last_chunk - blockStart
  BY <1>2 DEF Matched, LenSum
<1>11. BlockDone /\ ptr > blockStart => last_chunk = bufend
  <2>1. SUFFICES ASSUME curmark > Len(marks), ptr = bufend, ptr > blockStart PROVE last_chunk = bufend
    BY Zenon DEF BlockDone
  <2>2. ptr = End(blockStart)
    BY <2>1, Zenon DEF bufend, BlockEnd, End
  <2>3. Len(marks) # 0 /\ marks[Len(marks)] = ptr
    BY <1>2, <2>1, <2>2, Zenon DEF Spots
  <2>4. last_chunk = marks[Len(marks)]
    BY <1>2, <2>1, <2>3, Zenon DEF Spots
  <2>5. QED BY <2>1, <2>3, <2>4, Zenon
<1>12. QED BY <1>6, <1>7, <1>8, <1>9, <1>10, <1>11, Zenon DEF ChunksRepeat

\* A block begins
LEMMA BlockBegins ==
  ASSUME table \in ChunkJobs, NEW start \in Nat, start <= Len(table.text)
  PROVE  /\ Spots(start, start, <<>>, 1, start) /\ Hashed(<<>>, <<>>, 1, start)
         /\ Matched(start, <<>>, 0, start, start)
<1>1. PICK N \in Nat : N = Len(table.text) /\ table.block \in Nat
  BY ChunkIs DEF ChunkGiven
<1>2. End(start) \in Nat /\ start <= End(start)
  BY <1>1, EndOf
<1>3. PICK none : none = <<>>
  OBVIOUS
<1>4. none \in Seq(Int) /\ Len(none) = 0 /\ none \in Seq(FoundMatches)
  BY <1>3
<1>5. Ordered(none, start, start)
  <2>1. start \in Int
    OBVIOUS
  <2>2. QED BY <1>4, <2>1, OrderedNone
<1>6. PICK big \in Nat : big = MAX_CHUNKS
  <2>1. PICK M \in Nat, S \in Nat : M = MinimalMatch /\ M >= 1 /\ S = STRIPE
    BY ChunkIs, ChunkingAssumption DEF ChunkGiven
  <2>2. S \div M \in Int /\ S \div M >= 0
    <3>1. S \in Int /\ S >= 0
      OBVIOUS
    <3>2. S \div M \in Int /\ (S >= 0 => S \div M >= 0)
      BY <2>1, <3>1, DivMod, Zenon
    <3>3. QED BY <3>1, <3>2, Zenon
  <2>3. PICK d \in Nat : d = S \div M
    BY <2>2
  <2>4. d + 2 \in Nat
    OBVIOUS
  <2>5. MAX_CHUNKS = d + 2
    BY <2>1, <2>3, Zenon DEF MAX_CHUNKS
  <2>6. QED BY <2>4, <2>5
<1>7. Spots(start, start, none, 1, start)
  <2>1. STRIPE \in Nat
    BY ChunkingAssumption
  <2>2. \E from \in Nat : start <= from /\ from <= start /\ start - from <= STRIPE /\ Ordered(none, from, start)
    <3>1. start <= start /\ start - start <= STRIPE
      BY <2>1
    <3>2. QED BY <1>5, <3>1
  <2>3. QED BY <1>1, <1>2, <1>4, <1>6, <2>2 DEF Spots
<1>8. Hashed(none, none, 1, start)
  BY <1>4 DEF Hashed
<1>9. Matched(start, none, 0, start, start)
  <2>1. LenSum(none) = 0 /\ WaySum(none) = 0
    BY <1>3, SumsNone
  <2>2. QED BY <1>4, <2>1 DEF Matched
<1>10. QED BY <1>3, <1>7, <1>8, <1>9, Zenon

LEMMA ChunkInitial == ChunksInit => ChunkInv
<1>1. SUFFICES ASSUME ChunksInit PROVE ChunkInv
  OBVIOUS
<1>2. /\ table \in ChunkJobs /\ blockStart = 0 /\ ptr = 0 /\ marks = <<>> /\ vhashes = <<>> /\ curmark = 1
      /\ last_chunk = 0 /\ last_match = 0 /\ found_matches = <<>> /\ literals = 0 /\ startarr = <<>>
      /\ curchunk = 0 /\ digestarr = <<>>
  BY <1>1 DEF ChunksInit, ChunksIdle
<1>3. /\ Spots(0, 0, <<>>, 1, 0) /\ Hashed(<<>>, <<>>, 1, 0) /\ Matched(0, <<>>, 0, 0, 0)
  <2>1. 0 \in Nat /\ 0 <= Len(table.text)
    BY <1>2, ChunkIs DEF ChunkGiven
  <2>2. QED BY <1>2, <2>1, BlockBegins
<1>4. Stocks(<<>>, <<>>, 0, 0)
  <2>1. PICK total \in Nat : total = total_chunks(TRUE) /\ total >= 1
    BY <1>2, CdcSizes
  <2>2. PICK none : none = <<>>
    OBVIOUS
  <2>3. none \in Seq(Nat) /\ none \in Seq(Spans) /\ Len(none) = 0
    BY <2>2
  <2>4. Stocks(none, none, 0, 0)
    <3>1. total >= 1
      BY <2>1, Zenon
    <3>2. Len(none) < total /\ ~ (0 # 0) /\ 0 \in Nat
      BY <2>3, <3>1
    <3>3. \A c \in 1 .. Len(none) : FALSE
      BY <2>3
    <3>4. QED BY <2>1, <2>3, <3>2, <3>3, Zenon DEF Stocks
  <2>5. QED BY <2>2, <2>4
<1>5. QED BY <1>2, <1>3, <1>4, Zenon DEF ChunkInv

LEMMA BlockNext == ChunkInv /\ NextBlock => ChunkInv'
<1>1. SUFFICES ASSUME ChunkInv, NextBlock PROVE ChunkInv'
  OBVIOUS
<1>2. /\ tablePc = "chunks" /\ curmark > Len(marks) /\ ptr = bufend /\ bufend < Len(table.text)
  BY <1>1, Zenon DEF NextBlock, BlockDone
<1>3. /\ table \in ChunkJobs /\ Spots(blockStart, ptr, marks, curmark, last_chunk)
      /\ Stocks(startarr, digestarr, curchunk, last_chunk)
  BY <1>1, <1>2 DEF ChunkInv
<1>4. PICK e : e = bufend /\ e = End(blockStart) /\ ptr = e
  BY <1>2 DEF bufend, BlockEnd, End
<1>5. PICK N \in Nat, b \in Nat : N = Len(table.text) /\ b = table.block /\ b >= 1
  BY <1>3, ChunkIs DEF ChunkGiven
<1>6. PICK s \in Nat : s = blockStart /\ s <= N
  BY <1>3, <1>5 DEF Spots
<1>7. e \in Nat /\ (e = s + b \/ e = N) /\ e < N
  <2>1. Len(table.text) \in Nat /\ table.block \in Nat /\ s <= Len(table.text)
    BY <1>5, <1>6
  <2>2. End(s) \in Nat /\ (End(s) = s + table.block \/ End(s) = Len(table.text))
    BY <2>1, EndOf
  <2>3. QED BY <1>2, <1>4, <1>5, <1>6, <2>2, Zenon
<1>8. last_chunk = e
  <2>1. e > s
    BY <1>5, <1>7
  <2>2. Len(marks) # 0 /\ marks[Len(marks)] = ptr
    BY <1>3, <1>4, <1>6, <2>1, Zenon DEF Spots
  <2>3. last_chunk = marks[Len(marks)]
    BY <1>2, <1>3, <2>2, Zenon DEF Spots
  <2>4. QED BY <1>4, <2>2, <2>3
<1>9. /\ Spots(e, e, <<>>, 1, e) /\ Hashed(<<>>, <<>>, 1, e) /\ Matched(e, <<>>, 0, e, e)
  <2>1. e <= Len(table.text)
    BY <1>5, <1>7
  <2>2. QED BY <1>3, <1>7, <2>1, BlockBegins
<1>10. Stocks(startarr, digestarr, curchunk, e)
  BY <1>3, <1>8
<1>11. /\ table' = table /\ blockStart' = e /\ ptr' = e /\ marks' = <<>> /\ vhashes' = <<>> /\ curmark' = 1
       /\ last_chunk' = e /\ startarr' = startarr /\ digestarr' = digestarr /\ curchunk' = curchunk
       /\ found_matches' = <<>> /\ literals' = 0 /\ last_match' = e
  BY <1>1, <1>4 DEF NextBlock
<1>12. QED BY <1>3, <1>9, <1>10, <1>11, ChunkKept

LEMMA StripeFound == ChunkInv /\ FindChunks => ChunkInv'
<1>1. SUFFICES ASSUME ChunkInv, FindChunks PROVE ChunkInv'
  OBVIOUS
<1>2. tablePc = "chunks" /\ curmark > Len(marks) /\ ptr < bufend
  BY <1>1, Zenon DEF FindChunks
<1>3. /\ table \in ChunkJobs /\ Spots(blockStart, ptr, marks, curmark, last_chunk)
      /\ Stocks(startarr, digestarr, curchunk, last_chunk)
      /\ Matched(blockStart, found_matches, literals, last_chunk, last_match)
  BY <1>1, <1>2 DEF ChunkInv
<1>4. ChunkGiven
  BY <1>3, ChunkIs
<1>5. PICK N \in Nat : N = Len(table.text) /\ table.block \in Nat
  BY <1>4 DEF ChunkGiven
<1>6. PICK s \in Nat, p \in Nat, last \in Nat :
        s = blockStart /\ s <= N /\ p = ptr /\ s <= p /\ last = last_chunk /\ s <= last /\ last <= p
  BY <1>3, <1>5 DEF Spots
<1>7. PICK e \in Nat : e = bufend /\ e = End(s) /\ e <= N /\ p < e
  <2>1. s <= Len(table.text)
    BY <1>5, <1>6
  <2>2. End(s) \in Nat /\ End(s) <= Len(table.text)
    BY <1>5, <2>1, EndOf
  <2>3. bufend = End(s)
    BY <1>6 DEF bufend, BlockEnd, End
  <2>4. QED BY <1>2, <1>5, <1>6, <2>2, <2>3
<1>8. PICK S \in Nat : S = STRIPE /\ S >= 1
  BY ChunkingAssumption
<1>9. PICK pend \in Nat : pend = Min({bufend, ptr + STRIPE}) /\ p < pend /\ pend <= e /\ pend - p <= S
  <2>1. PICK t \in Nat : t = p + S
    OBVIOUS
  <2>2. Min({e, t}) = IF e <= t THEN e ELSE t
    <3>1. e \in Int /\ t \in Int
      OBVIOUS
    <3>2. QED BY <3>1, Min2
  <2>3. PICK u \in Nat : u = Min({e, t}) /\ p < u /\ u <= e /\ u - p <= S
    BY <1>7, <1>8, <2>1, <2>2
  <2>4. Min({bufend, ptr + STRIPE}) = u
    BY <1>6, <1>7, <1>8, <2>1, <2>3, Zenon
  <2>5. QED BY <2>3, <2>4
<1>10. PICK found_ : found_ = StripeMarks(p, pend)
  OBVIOUS
<1>11. /\ Ordered(found_, p, pend) /\ Len(found_) <= MAX_CHUNKS
       /\ pend = e => Len(found_) # 0 /\ found_[Len(found_)] = pend
  <2>1. blockStart \in Nat /\ blockStart <= p /\ pend <= Len(table.text) /\ pend - p <= STRIPE
    BY <1>5, <1>6, <1>7, <1>8, <1>9
  <2>2. QED BY <1>4, <1>7, <1>9, <1>10, <2>1, MarksFound
<1>12. PICK hs : hs = IF found_ = <<>> THEN <<>>
                      ELSE compute_chunk_hashes(found_, single_chunk_hash(last_chunk, found_[1]))
  OBVIOUS
<1>13. /\ table' = table /\ blockStart' = s /\ ptr' = pend /\ marks' = found_ /\ curmark' = 1 /\ vhashes' = hs
       /\ last_chunk' = last /\ startarr' = startarr /\ digestarr' = digestarr /\ curchunk' = curchunk
       /\ found_matches' = found_matches /\ literals' = literals /\ last_match' = last_match
  <2>1. ptr' = pend /\ curmark' = 1
    BY <1>1, <1>9, Zenon DEF FindChunks
  <2>2. marks' = found_ /\ vhashes' = hs
    BY <1>1, <1>6, <1>9, <1>10, <1>12, Zenon DEF FindChunks, StripeMarks
  <2>3. QED BY <1>1, <1>6, <2>1, <2>2 DEF FindChunks, tableVars
<1>14. Spots(s, pend, found_, 1, last)
  <2>1. \E from \in Nat : s <= from /\ from <= pend /\ pend - from <= STRIPE /\ Ordered(found_, from, pend)
    <3>1. s <= p /\ p <= pend /\ pend - p <= STRIPE
      BY <1>6, <1>8, <1>9
    <3>2. QED BY <1>11, <3>1
  <2>2. Len(found_) \in Nat
    BY <1>11 DEF Ordered
  <2>3. \A j \in 1 .. Len(found_) : last < found_[j]
    BY <1>6, <1>11 DEF Ordered
  <2>4. ~ (1 > Len(found_) /\ Len(found_) # 0)
    BY <2>2
  <2>5. s <= Len(table.text) /\ s <= pend /\ pend <= End(s) /\ s <= last /\ last <= pend /\ 1 <= Len(found_) + 1 /\ 1 >= 1
    BY <1>5, <1>6, <1>7, <1>9, <2>2
  <2>6. 1 \in Nat /\ (pend = End(s) /\ pend > s => Len(found_) # 0 /\ found_[Len(found_)] = pend)
    BY <1>7, <1>11
  <2>7. QED BY <1>11, <2>1, <2>3, <2>4, <2>5, <2>6, Zenon DEF Spots
<1>15. Hashed(found_, hs, 1, last)
  <2>1. found_ \in Seq(Int)
    BY <1>11 DEF Ordered
  <2>2. CASE found_ = <<>>
    <3>1. hs = <<>> /\ Len(found_) = 0 /\ Len(hs) = 0
      BY <1>12, <2>2
    <3>2. QED BY <3>1 DEF Hashed
  <2>3. CASE found_ # <<>>
    <3>1. PICK n \in Nat : n = Len(found_) /\ n >= 1
      BY <2>1, <2>3, EmptySeq
    <3> DEFINE rest == [k \in 1 .. n - 1 |-> single_chunk_hash(found_[k], found_[k + 1])]
    <3>2. hs = <<single_chunk_hash(last, found_[1])>> \o rest
      BY <1>6, <1>12, <2>3, <3>1, Zenon DEF compute_chunk_hashes
    <3>3. PICK T : single_chunk_hash(last, found_[1]) \in T /\ \A k \in 1 .. n - 1 : rest[k] \in T
      <4>1. PICK T : T = {single_chunk_hash(last, found_[1])} \cup {rest[k] : k \in 1 .. n - 1}
        OBVIOUS
      <4> HIDE DEF rest
      <4>2. QED BY <4>1
    <3>4. PICK one : one = <<single_chunk_hash(last, found_[1])>>
      OBVIOUS
    <3>5. one \in Seq(T) /\ Len(one) = 1 /\ one[1] = single_chunk_hash(last, found_[1])
      BY <3>3, <3>4
    <3>6. n - 1 \in Nat
      BY <3>1
    <3>7. rest \in Seq(T) /\ Len(rest) = n - 1 /\ \A k \in 1 .. n - 1 : rest[k] = single_chunk_hash(found_[k], found_[k + 1])
      BY <3>3, <3>6
    <3> HIDE DEF rest
    <3>8. /\ Len(hs) = Len(one) + Len(rest)
          /\ \A i \in 1 .. Len(one) + Len(rest) : hs[i] = IF i <= Len(one) THEN one[i] ELSE rest[i - Len(one)]
      BY <3>2, <3>4, <3>5, <3>7, ConcatProperties
    <3>9. Len(hs) = n /\ hs[1] = single_chunk_hash(last, found_[1])
      BY <3>1, <3>5, <3>7, <3>8
    <3>10. ASSUME NEW j \in 1 .. n, j # 1 PROVE hs[j] = single_chunk_hash(found_[j - 1], found_[j])
      <4>1. PICK k \in 1 .. n - 1 : k = j - 1 /\ j = k + 1
        BY <3>1, <3>10
      <4>2. hs[j] = rest[k]
        BY <3>1, <3>5, <3>7, <3>8, <4>1
      <4>3. QED BY <3>7, <4>1, <4>2, Zenon
    <3>11. \A x, y : single_chunk_hash(x, y).digest = Span(x, y)
      BY DEF single_chunk_hash, Span
    <3>12. ASSUME NEW j \in 1 .. n PROVE hs[j].digest = Span(IF j = 1 THEN last ELSE found_[j - 1], found_[j])
      <4>1. CASE j = 1
        BY <3>9, <3>11, <4>1
      <4>2. CASE j # 1
        BY <3>10, <3>11, <4>2
      <4>3. QED BY <4>1, <4>2
    <3>13. QED BY <3>1, <3>9, <3>12, Zenon DEF Hashed
  <2>4. QED BY <2>2, <2>3
<1>16. Stocks(startarr, digestarr, curchunk, last) /\ Matched(s, found_matches, literals, last, last_match)
  BY <1>3, <1>6
<1>17. QED BY <1>3, <1>13, <1>14, <1>15, <1>16, ChunkKept

\* The next chunk, whether or not it is a match
LEMMA MatchedOn ==
  ASSUME NEW start \in Nat, NEW ms, NEW lits, NEW last \in Nat, NEW lastm, Matched(start, ms, lits, last, lastm),
         NEW e \in Nat, last <= e
  PROVE  Matched(start, ms, lits + (e - last), e, lastm)
<1>1. /\ ms \in Seq(FoundMatches) /\ lits \in Int /\ lastm \in Nat /\ start <= lastm /\ lastm <= last
      /\ start + WaySum(ms) = lastm /\ lits + LenSum(ms) = last - start
      /\ \A n \in 1 .. Len(ms) : Repeats(ms[n], DestIn(start, ms, n), lastm)
  BY Zenon DEF Matched
<1>2. PICK w \in Int : w = LenSum(ms)
  <2>1. PICK m : m \in FoundMatches
    <3>1. [lit_len |-> 0, offset |-> 0, len |-> 0] \in FoundMatches
      BY DEF FoundMatches
    <3>2. QED BY <3>1
  <2>2. LenSum(ms) \in Int
    BY <1>1, <2>1, SumsAppend
  <2>3. QED BY <2>2
<1>3. lits + (e - last) + w = e - start /\ lastm <= e /\ lits + (e - last) \in Int
  BY <1>1, <1>2
<1>4. QED BY <1>1, <1>2, <1>3, Zenon DEF Matched

LEMMA MatchTaken ==
  ASSUME NEW start \in Nat, NEW ms, NEW lits, NEW last \in Nat, NEW lastm, Matched(start, ms, lits, last, lastm),
         NEW e \in Nat, last <= e, NEW m \in FoundMatches, m.lit_len = last - lastm, m.len = e - last, Repeats(m, last, e)
  PROVE  Matched(start, Append(ms, m), lits, e, e)
<1>1. /\ ms \in Seq(FoundMatches) /\ lits \in Int /\ lastm \in Nat /\ start <= lastm /\ lastm <= last
      /\ start + WaySum(ms) = lastm /\ lits + LenSum(ms) = last - start
      /\ \A n \in 1 .. Len(ms) : Repeats(ms[n], DestIn(start, ms, n), lastm)
  BY Zenon DEF Matched
<1>2. PICK u : u = Append(ms, m)
  OBVIOUS
<1>3. PICK k \in Nat : k = Len(ms)
  BY <1>1
<1>4. u \in Seq(FoundMatches) /\ Len(u) = k + 1 /\ u[k + 1] = m /\ \A n \in 1 .. k : u[n] = ms[n]
  BY <1>1, <1>2, <1>3
<1>5. PICK w \in Int, l \in Int : /\ w = WaySum(ms) /\ l = LenSum(ms)
                                  /\ WaySum(u) = w + (m.lit_len + m.len) /\ LenSum(u) = l + m.len
  BY <1>1, <1>2, SumsAppend
<1>6. start + WaySum(u) = e /\ lits + LenSum(u) = e - start
  <2>1. start + w = lastm /\ lits + l = last - start
    BY <1>1, <1>5
  <2>2. WaySum(u) = w + (last - lastm + (e - last)) /\ LenSum(u) = l + (e - last)
    BY <1>5
  <2>3. QED BY <1>1, <2>1, <2>2
<1>7. ASSUME NEW n \in 1 .. k PROVE Repeats(u[n], DestIn(start, u, n), e)
  <2>1. PICK x, dest : x = ms[n] /\ dest = DestIn(start, ms, n)
    OBVIOUS
  <2>2. SubSeq(u, 1, n - 1) = SubSeq(ms, 1, n - 1)
    <3>1. n - 1 \in 0 .. k /\ n - 1 \in 0 .. k + 1
      BY <1>3
    <3>2. /\ SubSeq(u, 1, n - 1) \in Seq(FoundMatches) /\ Len(SubSeq(u, 1, n - 1)) = n - 1
          /\ \A i \in 1 .. n - 1 : SubSeq(u, 1, n - 1)[i] = u[i]
      BY <1>4, <3>1
    <3>3. /\ SubSeq(ms, 1, n - 1) \in Seq(FoundMatches) /\ Len(SubSeq(ms, 1, n - 1)) = n - 1
          /\ \A i \in 1 .. n - 1 : SubSeq(ms, 1, n - 1)[i] = ms[i]
      BY <1>1, <1>3, <3>1
    <3>4. \A i \in 1 .. n - 1 : SubSeq(u, 1, n - 1)[i] = SubSeq(ms, 1, n - 1)[i]
      BY <1>4, <3>1, <3>2, <3>3
    <3>5. QED BY <3>2, <3>3, <3>4, SeqEqual
  <2>3. u[n] = x /\ DestIn(start, u, n) = dest
    BY <1>4, <2>1, <2>2, Zenon DEF DestIn
  <2>4. Repeats(x, dest, lastm)
    BY <1>1, <1>3, <2>1, Zenon
  <2>5. dest + x.len <= e
    <3>1. x \in FoundMatches
      BY <1>1, <1>3, <2>1
    <3>2. PICK y \in Int : y = x.len
      BY <3>1 DEF FoundMatches
    <3>3. PICK f \in Int : f = dest
      <4>1. SubSeq(ms, 1, n - 1) \in Seq(FoundMatches)
        BY <1>1, <1>3
      <4>2. WaySum(SubSeq(ms, 1, n - 1)) \in Int
        BY <4>1, SumsAppend
      <4>3. ms[n].lit_len \in Int
        BY <2>1, <3>1 DEF FoundMatches
      <4>4. QED BY <2>1, <4>2, <4>3 DEF DestIn
    <3>4. f + y <= lastm
      BY <2>4, <3>2, <3>3, Zenon DEF Repeats
    <3>5. QED BY <1>1, <3>2, <3>3, <3>4
  <2>6. QED BY <2>3, <2>4, <2>5, Zenon DEF Repeats
<1>8. Repeats(u[k + 1], DestIn(start, u, k + 1), e)
  <2>1. SubSeq(u, 1, k) = ms
    <3>1. k \in 0 .. k + 1
      OBVIOUS
    <3>2. /\ SubSeq(u, 1, k) \in Seq(FoundMatches) /\ Len(SubSeq(u, 1, k)) = k
          /\ \A i \in 1 .. k : SubSeq(u, 1, k)[i] = u[i]
      BY <1>4, <3>1
    <3>3. \A i \in 1 .. k : SubSeq(u, 1, k)[i] = ms[i]
      BY <1>4, <3>2
    <3>4. QED BY <1>1, <1>3, <3>2, <3>3, SeqEqual
  <2>2. (k + 1) - 1 = k
    OBVIOUS
  <2>3. DestIn(start, u, k + 1) = start + w + (last - lastm)
    BY <1>4, <1>5, <2>1, <2>2, Zenon DEF DestIn
  <2>4. start + w + (last - lastm) = last
    BY <1>1, <1>5
  <2>5. QED BY <1>4, <2>3, <2>4, Zenon
<1>9. \A n \in 1 .. Len(u) : Repeats(u[n], DestIn(start, u, n), e)
  <2>1. ASSUME NEW n \in 1 .. Len(u) PROVE n \in 1 .. k \/ n = k + 1
    BY <1>4
  <2>2. QED BY <1>7, <1>8, <2>1, Zenon
<1>10. e \in Nat /\ start <= e /\ e <= e
  BY <1>1
<1>11. QED BY <1>1, <1>2, <1>4, <1>6, <1>9, <1>10, Zenon DEF Matched

LEMMA ChunkStored ==
  ASSUME table \in ChunkJobs, NEW starts, NEW digests, NEW num, NEW last \in Nat, Stocks(starts, digests, num, last),
         NEW e \in Nat, last < e
  PROVE  IF num + 1 < total_chunks(TRUE)
           THEN Stocks(Append(starts, last), Append(digests, Span(last, e)), num + 1, e)
           ELSE Stocks(starts, digests, num + 1, e)
<1>1. /\ starts \in Seq(Nat) /\ digests \in Seq(Spans) /\ Len(digests) = Len(starts)
      /\ num \in Nat
      /\ \A c \in 1 .. Len(starts) : starts[c] < last
      /\ \A c \in 1 .. Len(starts) : c + 1 <= Len(starts) => digests[c] = Span(starts[c], starts[c + 1])
      /\ Len(starts) = num /\ num # 0 => digests[num] = Span(starts[num], last)
  BY Zenon DEF Stocks
<1>2. PICK total : total = total_chunks(TRUE)
  OBVIOUS
<1>3. total \in Nat
  BY <1>2, CdcSizes, Zenon
<1>4. Len(starts) < total /\ (num + 1 < total => Len(starts) = num)
  BY <1>2, Zenon DEF Stocks
<1>5. PICK n \in Nat : n = Len(starts)
  BY <1>1
<1>6. CASE num + 1 < total
  <2>1. n = num
    BY <1>4, <1>5, <1>6
  <2>2. PICK s, d, x : s = Append(starts, last) /\ x = Span(last, e) /\ d = Append(digests, x)
    OBVIOUS
  <2>3. x \in Spans
    <3>1. PICK z \in Nat \X Nat : z = <<last, e>>
      OBVIOUS
    <3>2. z[1] = last /\ z[2] = e
      BY <3>1
    <3>3. x = Span(z[1], z[2])
      BY <2>2, <3>2, Zenon
    <3>4. QED BY <3>3, Zenon DEF Spans
  <2>4. s \in Seq(Nat) /\ Len(s) = n + 1 /\ s[n + 1] = last /\ \A c \in 1 .. n : s[c] = starts[c] /\ s[c] \in Nat
    BY <1>1, <1>5, <2>2
  <2>5. d \in Seq(Spans) /\ Len(d) = n + 1 /\ d[n + 1] = x /\ \A c \in 1 .. n : d[c] = digests[c]
    BY <1>1, <1>5, <2>2, <2>3
  <2>6. ASSUME NEW c \in 1 .. n + 1 PROVE s[c] < e
    <3>1. CASE c = n + 1
      BY <2>4, <3>1
    <3>2. CASE c # n + 1
      <4>1. c \in 1 .. n
        BY <3>2
      <4>2. starts[c] < last /\ s[c] = starts[c] /\ s[c] \in Nat
        BY <1>1, <1>5, <2>4, <4>1, Zenon
      <4>3. QED BY <4>2
    <3>3. QED BY <3>1, <3>2
  <2>7. ASSUME NEW c \in 1 .. n + 1, c + 1 <= n + 1 PROVE d[c] = Span(s[c], s[c + 1])
    <3>1. c \in 1 .. n
      BY <2>7
    <3>2. CASE c = n
      <4>1. n # 0
        BY <3>1, <3>2
      <4>2. digests[n] = Span(starts[n], last)
        BY <1>1, <1>5, <2>1, <4>1, Zenon
      <4>3. d[c] = digests[n] /\ s[c] = starts[n] /\ s[c + 1] = last
        BY <2>4, <2>5, <3>1, <3>2, Zenon
      <4>4. QED BY <4>2, <4>3, Zenon
    <3>3. CASE c # n
      <4>1. c + 1 \in 1 .. n /\ c + 1 <= n
        BY <3>1, <3>3
      <4>2. digests[c] = Span(starts[c], starts[c + 1])
        BY <1>1, <1>5, <3>1, <4>1, Zenon
      <4>3. QED BY <2>4, <2>5, <3>1, <4>1, <4>2, Zenon
    <3>4. QED BY <3>2, <3>3
  <2>8. PICK k \in Nat : k = num + 1 /\ k = n + 1 /\ k < total
    BY <1>6, <2>1
  <2>9. (k + 1 < total => Len(s) = k) /\ Len(d) = Len(s) /\ Len(s) < total /\ Len(s) = k
    BY <2>4, <2>5, <2>8
  <2>10. d[k] = Span(s[k], e)
    BY <2>2, <2>4, <2>5, <2>8, Zenon
  <2>11. Stocks(s, d, k, e)
    BY <1>2, <2>4, <2>5, <2>6, <2>7, <2>8, <2>9, <2>10, Zenon DEF Stocks
  <2>12. QED BY <1>2, <1>6, <2>2, <2>8, <2>11, Zenon
<1>7. CASE ~ (num + 1 < total)
  <2>1. PICK k \in Nat : k = num + 1 /\ ~ (k + 1 < total) /\ n # k
    <3>1. num \in Nat
      BY <1>1, Zenon
    <3>2. QED BY <1>3, <1>4, <1>5, <1>7, <3>1
  <2>2. \A c \in 1 .. Len(starts) : starts[c] < e
    <3>1. ASSUME NEW c \in 1 .. Len(starts) PROVE starts[c] < e
      <4>1. starts[c] \in Nat /\ starts[c] < last
        BY <1>1
      <4>2. QED BY <4>1
    <3>2. QED BY <3>1
  <2>3. Stocks(starts, digests, k, e)
    BY <1>1, <1>2, <1>4, <1>5, <2>1, <2>2, Zenon DEF Stocks
  <2>4. QED BY <1>2, <1>7, <2>1, <2>3, Zenon
<1>8. QED BY <1>6, <1>7

LEMMA ChunkChecked == ChunkInv /\ CheckChunk => ChunkInv'
<1>1. SUFFICES ASSUME ChunkInv, CheckChunk PROVE ChunkInv'
  OBVIOUS
<1>2. tablePc = "chunks" /\ curmark <= Len(marks)
  BY <1>1, Zenon DEF CheckChunk
<1>3. /\ table \in ChunkJobs /\ Spots(blockStart, ptr, marks, curmark, last_chunk)
      /\ Hashed(marks, vhashes, curmark, last_chunk)
      /\ Stocks(startarr, digestarr, curchunk, last_chunk)
      /\ Matched(blockStart, found_matches, literals, last_chunk, last_match)
  BY <1>1, <1>2 DEF ChunkInv
<1>4. PICK s \in Nat, p \in Nat, last \in Nat, cur \in Nat :
        /\ s = blockStart /\ p = ptr /\ s <= p /\ p <= End(s) /\ last = last_chunk /\ s <= last /\ last <= p
        /\ cur = curmark /\ cur >= 1
  BY <1>3 DEF Spots
<1>5. PICK from \in Nat : s <= from /\ from <= p /\ p - from <= STRIPE /\ Ordered(marks, from, p)
  BY <1>3, <1>4, Zenon DEF Spots
<1>6. PICK c \in Nat : c = Len(marks) /\ cur <= c /\ cur \in 1 .. Len(marks)
  BY <1>2, <1>4, <1>5 DEF Ordered
<1>7. PICK e \in Nat : e = marks[cur] /\ last < e /\ e <= p
  <2>1. cur >= cur
    OBVIOUS
  <2>2. last < marks[cur]
    BY <1>3, <1>4, <1>6, <2>1, Zenon DEF Spots
  <2>3. marks[cur] \in Int /\ marks[cur] <= p
    BY <1>5, <1>6 DEF Ordered
  <2>4. QED BY <2>2, <2>3
<1>8. PICK new : new = vhashes[curmark] /\ new.digest = Span(last, e)
  <2>1. cur >= cur
    OBVIOUS
  <2>2. vhashes[cur].digest = Span(IF cur = cur THEN last ELSE marks[cur - 1], marks[cur])
    BY <1>3, <1>4, <1>6, <2>1, Zenon DEF Hashed
  <2>3. QED BY <1>4, <1>7, <2>2, Zenon
<1>9. PICK k \in Nat : k = cur + 1
  OBVIOUS
<1>10. Spots(s, p, marks, k, e)
  <2>1. \A j \in 1 .. Len(marks) : j >= k => e < marks[j]
    <3>1. ASSUME NEW j \in 1 .. Len(marks), j >= k PROVE e < marks[j]
      <4>1. cur < j /\ from \in Int /\ p \in Int
        BY <1>9, <3>1
      <4>2. marks[cur] < marks[j]
        BY <1>5, <1>6, <4>1, OrderedPairs
      <4>3. QED BY <1>7, <4>2
    <3>2. QED BY <3>1
  <2>2. k > Len(marks) /\ Len(marks) # 0 => e = marks[Len(marks)]
    BY <1>6, <1>7, <1>9
  <2>3. k >= 1 /\ k <= Len(marks) + 1 /\ s <= e
    BY <1>4, <1>6, <1>7, <1>9
  <2>4. /\ s <= Len(table.text) /\ Len(marks) <= MAX_CHUNKS
        /\ p = End(s) /\ p > s => Len(marks) # 0 /\ marks[Len(marks)] = p
    BY <1>3, <1>4, Zenon DEF Spots
  <2>5. \E f \in Nat : s <= f /\ f <= p /\ p - f <= STRIPE /\ Ordered(marks, f, p)
    BY <1>5, Zenon
  <2>6. QED BY <1>4, <1>7, <1>9, <2>1, <2>2, <2>3, <2>4, <2>5, Zenon DEF Spots
<1>11. Hashed(marks, vhashes, k, e)
  <2>1. Len(vhashes) = Len(marks)
    BY <1>3, Zenon DEF Hashed
  <2>2. ASSUME NEW j \in 1 .. Len(marks), j >= k
        PROVE  vhashes[j].digest = Span(IF j = k THEN e ELSE marks[j - 1], marks[j])
    <3>1. j >= cur /\ j # cur
      BY <1>9, <2>2
    <3>2. vhashes[j].digest = Span(marks[j - 1], marks[j])
      BY <1>3, <1>4, <3>1, Zenon DEF Hashed
    <3>3. j = k => marks[j - 1] = e
      <4>1. j = k => j - 1 = cur
        BY <1>9
      <4>2. QED BY <1>7, <4>1, Zenon
    <3>4. QED BY <3>2, <3>3, Zenon
  <2>3. QED BY <2>1, <2>2, Zenon DEF Hashed
<1>12. PICK n \in Nat : n = curchunk /\ curchunk + 1 = n + 1
  BY <1>3 DEF Stocks
<1>13. PICK starts2, digests2 : starts2 = Append(startarr, last) /\ digests2 = Append(digestarr, Span(last, e))
  OBVIOUS
<1>14. PICK room : room = (n + 1 < total_chunks(TRUE))
  BY Zenon
<1>15. PICK stop : stop = StopAt(TRUE, new.index, {x \in DOMAIN digestarr : digestarr[x] = new.digest})
  OBVIOUS
<1>16. PICK len \in Nat : len = e - last
  BY <1>7
<1>17. PICK offset : offset = IF room /\ stop.found # NOT_FOUND /\ chunksize_CDC(starts2, stop.found) = len
                                THEN last - starts2[stop.found] ELSE 0
  OBVIOUS
<1>18. /\ table' = table /\ blockStart' = s /\ ptr' = p /\ marks' = marks /\ vhashes' = vhashes
       /\ curmark' = k /\ last_chunk' = e /\ curchunk' = n + 1
       /\ startarr' = IF room THEN starts2 ELSE startarr
       /\ digestarr' = IF room THEN digests2 ELSE digestarr
       /\ IF offset # 0 /\ len >= min_match
            THEN /\ found_matches' = Append(found_matches,
                      [lit_len |-> last - last_match, offset |-> offset, len |-> len])
                 /\ last_match' = e /\ literals' = literals
            ELSE literals' = literals + len /\ found_matches' = found_matches /\ last_match' = last_match
  <2>1. /\ table' = table /\ blockStart' = blockStart /\ ptr' = ptr /\ marks' = marks /\ vhashes' = vhashes
        /\ curmark' = curmark + 1 /\ last_chunk' = marks[curmark]
    BY <1>1 DEF CheckChunk
  <2>2. QED BY <1>1, <1>4, <1>7, <1>8, <1>9, <1>12, <1>13, <1>14, <1>15, <1>16, <1>17, <2>1, Zenon DEF CheckChunk
<1>19. PICK starts, digests : /\ starts = startarr' /\ digests = digestarr' /\ Stocks(starts, digests, n + 1, e)
  <2>1. IF n + 1 < total_chunks(TRUE) THEN Stocks(starts2, digests2, n + 1, e)
                                       ELSE Stocks(startarr, digestarr, n + 1, e)
    BY <1>3, <1>4, <1>7, <1>12, <1>13, ChunkStored
  <2>2. Stocks(IF room THEN starts2 ELSE startarr, IF room THEN digests2 ELSE digestarr, n + 1, e)
    BY <1>14, <2>1, Zenon
  <2>3. QED BY <1>18, <2>2, Zenon
<1>20. CASE offset # 0 /\ len >= min_match
  <2>1. /\ room /\ stop.found # NOT_FOUND /\ chunksize_CDC(starts2, stop.found) = len
        /\ offset = last - starts2[stop.found]
    BY <1>17, <1>20, Zenon
  <2>2. PICK f : f = stop.found /\ f \in DOMAIN digestarr /\ digestarr[f] = Span(last, e)
    <3>1. stop.found \in {x \in DOMAIN digestarr : digestarr[x] = new.digest} \cup {NOT_FOUND}
      BY <1>3, <1>15, StopFound
    <3>2. QED BY <1>8, <2>1, <3>1
  <2>3. /\ startarr \in Seq(Nat) /\ digestarr \in Seq(Spans) /\ Len(digestarr) = Len(startarr) /\ Len(startarr) = n
        /\ \A x \in 1 .. Len(startarr) : startarr[x] < last
        /\ \A x \in 1 .. Len(startarr) : x + 1 <= Len(startarr) => digestarr[x] = Span(startarr[x], startarr[x + 1])
        /\ n # 0 => digestarr[n] = Span(startarr[n], last)
    BY <1>3, <1>4, <1>12, <1>14, <2>1, Zenon DEF Stocks
  <2>4. f \in 1 .. n
    BY <2>2, <2>3
  <2>5. starts2[n + 1] = last /\ \A x \in 1 .. n : starts2[x] = startarr[x]
    BY <1>13, <2>3
  <2>6. PICK x \in Nat, y \in Nat : x = starts2[f] /\ y = starts2[f + 1] /\ y <= last /\ Span(last, e) = Span(x, y)
    <3>1. CASE f = n
      <4>1. n # 0
        BY <2>4, <3>1
      <4>2. digestarr[f] = Span(startarr[f], last) /\ starts2[f] = startarr[f] /\ starts2[f + 1] = last
        BY <2>3, <2>4, <2>5, <3>1, <4>1, Zenon
      <4>3. startarr[f] \in Nat
        BY <2>3, <2>4
      <4>4. last <= last
        OBVIOUS
      <4>5. QED BY <2>2, <4>2, <4>3, <4>4, Zenon
    <3>2. CASE f # n
      <4>1. f \in 1 .. Len(startarr) /\ f + 1 \in 1 .. n /\ f + 1 \in 1 .. Len(startarr) /\ f + 1 <= Len(startarr)
        BY <2>3, <2>4, <3>2
      <4>2. digestarr[f] = Span(startarr[f], startarr[f + 1]) /\ starts2[f] = startarr[f] /\ starts2[f + 1] = startarr[f + 1]
        BY <2>3, <2>4, <2>5, <4>1, Zenon
      <4>3. startarr[f] \in Nat /\ startarr[f + 1] \in Nat /\ startarr[f + 1] < last
        BY <2>3, <4>1
      <4>4. startarr[f + 1] <= last
        BY <4>3
      <4>5. QED BY <2>2, <4>2, <4>3, <4>4, Zenon
    <3>3. QED BY <3>1, <3>2
  <2>7. y - x = len /\ offset = last - x
    BY <2>1, <2>2, <2>6, Zenon DEF chunksize_CDC
  <2>8. BytesAt(last, len) = BytesAt(last - offset, len)
    <3>1. last - offset = x
      BY <2>7
    <3>2. Span(last, e) = BytesAt(last, len) /\ Span(x, y) = BytesAt(x, len)
      BY <1>16, <2>7, Zenon DEF Span
    <3>3. QED BY <2>6, <3>1, <3>2, Zenon
  <2>9. offset \in Int /\ offset >= len /\ offset <= last /\ last + len <= e
    BY <1>16, <2>6, <2>7
  <2>10. PICK lastm \in Nat : lastm = last_match
    BY <1>3 DEF Matched
  <2>11. PICK m : m = [lit_len |-> last - lastm, offset |-> offset, len |-> len]
    OBVIOUS
  <2>12. m \in FoundMatches /\ m.lit_len = last - lastm /\ m.len = e - last /\ m.len = len /\ m.offset = offset
    BY <1>16, <2>9, <2>11 DEF FoundMatches
  <2>13. Repeats(m, last, e)
    BY <1>20, <2>8, <2>9, <2>12, Zenon DEF Repeats
  <2>14. Matched(s, Append(found_matches, m), literals, e, e)
    <3>1. Matched(s, found_matches, literals, last, lastm) /\ last <= e
      BY <1>3, <1>4, <1>7, <2>10
    <3>2. QED BY <2>12, <2>13, <3>1, MatchTaken
  <2>15. found_matches' = Append(found_matches, m) /\ last_match' = e /\ literals' = literals
    BY <1>18, <1>20, <2>10, <2>11, Zenon
  <2>16. /\ table' = table /\ blockStart' = s /\ ptr' = p /\ marks' = marks /\ vhashes' = vhashes
         /\ curmark' = k /\ last_chunk' = e /\ curchunk' = n + 1
    BY <1>18, Zenon
  <2>17. QED BY <1>3, <1>10, <1>11, <1>19, <2>14, <2>15, <2>16, ChunkKept
<1>21. CASE ~ (offset # 0 /\ len >= min_match)
  <2>1. literals' = literals + len /\ found_matches' = found_matches /\ last_match' = last_match
    BY <1>18, <1>21, Zenon
  <2>2. Matched(s, found_matches, literals + (e - last), e, last_match)
    <3>1. Matched(s, found_matches, literals, last, last_match) /\ last <= e
      BY <1>3, <1>4, <1>7
    <3>2. QED BY <3>1, MatchedOn
  <2>3. literals' = literals + (e - last)
    BY <1>16, <2>1, Zenon
  <2>4. /\ table' = table /\ blockStart' = s /\ ptr' = p /\ marks' = marks /\ vhashes' = vhashes
        /\ curmark' = k /\ last_chunk' = e /\ curchunk' = n + 1
    BY <1>18, Zenon
  <2>5. QED BY <1>3, <1>10, <1>11, <1>19, <2>1, <2>2, <2>3, <2>4, ChunkKept
<1>22. QED BY <1>20, <1>21

\* Every match of -m1 and -m2 repeats older bytes, and the chunks tile the block: compress_CDC, for any
\* text, any options and any width of the words that can hold the numbers of its chunks
THEOREM ChunksAreRepeats == AgreementSpec => []ChunksRepeat
<1>1. AgreementInit => ChunkInv
  <2>1. AgreementInit => TableIdle \/ TableInit \/ ChunksInit
    BY Zenon DEF AgreementInit
  <2>2. TableIdle \/ TableInit => ChunkInv
    BY DEF TableIdle, TableInit, ChunkInv
  <2>3. QED BY <2>1, <2>2, ChunkInitial
<1>2. ChunkInv /\ [AgreementNext]_<<vars, hashVars, tableVars, chunkVars>> => ChunkInv'
  <2>1. ChunkInv /\ ChunksNext => ChunkInv'
    BY StripeFound, ChunkChecked, BlockNext, Zenon DEF ChunksNext
  <2>2. TableNext => ChunkInv'
    BY DEF TableNext, PrepareBuffer, AddHash, SkipCovered, ScanOn, ChunkInv
  <2>3. ChunkInv /\ UNCHANGED <<tableVars, chunkVars>> => ChunkInv'
    <3>1. SUFFICES ASSUME ChunkInv, UNCHANGED <<tableVars, chunkVars>>, tablePc = "chunks" PROVE ChunkInv'
      BY DEF ChunkInv, tableVars
    <3>2. /\ table \in ChunkJobs /\ Spots(blockStart, ptr, marks, curmark, last_chunk)
          /\ Hashed(marks, vhashes, curmark, last_chunk) /\ Stocks(startarr, digestarr, curchunk, last_chunk)
          /\ Matched(blockStart, found_matches, literals, last_chunk, last_match)
      BY <3>1 DEF ChunkInv
    <3>3. /\ table' = table /\ blockStart' = blockStart /\ ptr' = ptr /\ marks' = marks /\ vhashes' = vhashes
          /\ curmark' = curmark /\ last_chunk' = last_chunk /\ startarr' = startarr /\ digestarr' = digestarr
          /\ curchunk' = curchunk /\ found_matches' = found_matches /\ literals' = literals
          /\ last_match' = last_match
      BY <3>1 DEF tableVars, chunkVars, stripeVars
    <3>4. QED BY <3>2, <3>3, ChunkKept
  <2>4. [AgreementNext]_<<vars, hashVars, tableVars, chunkVars>> =>
          ChunksNext \/ TableNext \/ UNCHANGED <<tableVars, chunkVars>>
    <3>1. AgreementNext => ChunksNext \/ TableNext \/ UNCHANGED <<tableVars, chunkVars>>
      BY DEF AgreementNext
    <3>2. QED BY <3>1
  <2>5. QED BY <2>1, <2>2, <2>3, <2>4
<1>3. QED BY <1>1, <1>2, ChunkRepeats, PTL DEF AgreementSpec

-----------------------------------------------------------------------------
(* The header word.  Its bytes come back, whatever their values.             *)

FourBytes(B, a, b, c, d) == (a + b * B + c * (B * B) + d * (B * B * B)) % (B * B * B * B)

BytesAre(x, B, a, b, c, d) ==
  /\ (x \div 1) % B = a /\ (x \div B) % B = b
  /\ (x \div (B * B)) % B = c /\ (x \div (B * B * B)) % B = d

\* Four digits packed into a number are its digits, in any base
LEMMA BytesBack ==
  ASSUME NEW B \in Nat, B >= 1, NEW a \in 0 .. B - 1, NEW b \in 0 .. B - 1, NEW c \in 0 .. B - 1,
         NEW d \in 0 .. B - 1,
         NEW x, x = FourBytes(B, a, b, c, d)
  PROVE  BytesAre(x, B, a, b, c, d)
<1> DEFINE B2 == B * B
           B3 == B * B * B
           B4 == B * B * B * B
<1>1. /\ B2 \in Nat /\ B3 \in Nat /\ B4 \in Nat /\ B2 >= 1 /\ B3 >= 1 /\ B4 >= 1
      /\ B2 = B * B /\ B3 = B * B2 /\ B4 = B * B3 /\ B3 = B2 * B /\ B4 = B3 * B
  <2>1. B2 \in Nat /\ B2 >= 1
    OBVIOUS
  <2>2. B3 = B * B2 /\ B3 = B2 * B
    OBVIOUS
  <2> HIDE DEF B2
  <2>3. B3 \in Nat /\ B3 >= 1
    <3> HIDE DEF B3
    <3>1. QED BY <2>1, <2>2
  <2>4. B4 = B * B3 /\ B4 = B3 * B
    OBVIOUS
  <2> HIDE DEF B3
  <2>5. B4 \in Nat /\ B4 >= 1
    <3> HIDE DEF B4
    <3>1. QED BY <2>3, <2>4
  <2>6. QED BY <2>1, <2>2, <2>3, <2>4, <2>5 DEF B2
<1>2. x = (a + b * B + c * B2 + d * B3) % B4
  BY DEF FourBytes
<1> HIDE DEF B2, B3, B4
<1>3. PICK y \in Nat : y = a + b * B + c * B2 + d * B3
  BY <1>1
<1>4. PICK r2 \in Nat : r2 = a + b * B /\ r2 <= B2 - 1
  <2>1. b * B <= (B - 1) * B /\ (B - 1) * B = B2 - B /\ b * B \in Nat
    BY <1>1
  <2>2. QED BY <1>1, <2>1
<1>5. PICK r3 \in Nat : r3 = r2 + c * B2 /\ r3 <= B3 - 1
  <2>1. c * B2 <= (B - 1) * B2 /\ (B - 1) * B2 = B3 - B2 /\ c * B2 \in Nat
    BY <1>1
  <2>2. QED BY <1>1, <1>4, <2>1
<1>6. y = r3 + d * B3 /\ y <= B4 - 1
  <2>1. d * B3 <= (B - 1) * B3 /\ (B - 1) * B3 = B4 - B3 /\ d * B3 \in Nat
    BY <1>1
  <2>2. QED BY <1>1, <1>3, <1>4, <1>5, <2>1
<1>7. x = y
  <2>1. PICK z \in Int, r \in 0 .. B4 - 1 : y \in Int /\ y = B4 * z + r /\ r = y
    <3>1. 0 \in Int /\ y = B4 * 0 + y /\ y \in 0 .. B4 - 1
      BY <1>1, <1>6
    <3>2. QED BY <3>1
  <2>2. B4 \in Nat /\ B4 >= 1
    BY <1>1
  <2>3. y % B4 = y
    BY <2>1, <2>2, DivUnique, Zenon
  <2>4. QED BY <1>2, <1>3, <2>3, Zenon
<1>8. x % B = a /\ x \div 1 = x
  <2>1. PICK q \in Int : q = b + c * B + d * B2
    BY <1>1
  <2>2. y = B * q + a /\ y \in Int
    <3>1. B * q = b * B + c * B2 + d * B3
      <4>1. B * q = B * b + B * (c * B) + B * (d * B2)
        BY <1>1, <2>1
      <4>2. B * (c * B) = c * B2 /\ B * (d * B2) = d * B3 /\ B * b = b * B
        BY <1>1
      <4>3. QED BY <4>1, <4>2
    <3>2. PICK u, v, w, z : /\ u = b * B /\ v = c * B2 /\ w = d * B3 /\ z = B * q
                           /\ u \in Int /\ v \in Int /\ w \in Int
      BY <1>1
    <3>3. y = a + u + v + w /\ z = u + v + w
      BY <1>3, <3>1, <3>2, Zenon
    <3>4. y = z + a /\ y \in Int
      BY ONLY <3>2, <3>3, a \in Nat
    <3>5. QED BY <3>2, <3>4, Zenon
  <2>3. y % B = a
    BY <2>2, DivUnique, Zenon
  <2>4. QED BY <1>3, <1>7, <2>3
<1>9. (x \div B) % B = b
  <2>1. PICK q \in Int : q = b + c * B + d * B2
    BY <1>1
  <2>2. y = B * q + a /\ y \in Int
    <3>1. B * q = b * B + c * B2 + d * B3
      <4>1. B * q = B * b + B * (c * B) + B * (d * B2)
        BY <1>1, <2>1
      <4>2. B * (c * B) = c * B2 /\ B * (d * B2) = d * B3 /\ B * b = b * B
        BY <1>1
      <4>3. QED BY <4>1, <4>2
    <3>2. PICK u, v, w, z : /\ u = b * B /\ v = c * B2 /\ w = d * B3 /\ z = B * q
                           /\ u \in Int /\ v \in Int /\ w \in Int
      BY <1>1
    <3>3. y = a + u + v + w /\ z = u + v + w
      BY <1>3, <3>1, <3>2, Zenon
    <3>4. y = z + a /\ y \in Int
      BY ONLY <3>2, <3>3, a \in Nat
    <3>5. QED BY <3>2, <3>4, Zenon
  <2>3. y \div B = q
    BY <2>2, DivUnique, Zenon
  <2>4. PICK p \in Int : p = c + d * B
    OBVIOUS
  <2>5. q = B * p + b
    BY <1>1, <2>1, <2>4
  <2>6. q % B = b
    BY <2>5, DivUnique, Zenon
  <2>7. QED BY <1>7, <2>3, <2>6, Zenon
<1>10. (x \div B2) % B = c
  <2>1. PICK q \in Int : q = c + d * B
    OBVIOUS
  <2>2. y = B2 * q + r2 /\ y \in Int /\ r2 \in 0 .. B2 - 1 /\ B2 \in Nat /\ B2 >= 1
    <3>1. B2 * q = c * B2 + d * B3
      BY <1>1, <2>1
    <3>2. QED BY <1>1, <1>3, <1>4, <3>1
  <2>3. y \div B2 = q
    BY <2>2, DivUnique, Zenon
  <2>4. q = B * d + c /\ d \in Int
    BY <2>1
  <2>5. q % B = c
    BY <2>4, DivUnique, Zenon
  <2>6. QED BY <1>7, <2>3, <2>5, Zenon
<1>11. (x \div B3) % B = d
  <2>1. y = B3 * d + r3 /\ y \in Int /\ r3 \in 0 .. B3 - 1 /\ B3 \in Nat /\ B3 >= 1 /\ d \in Int
    BY <1>1, <1>5, <1>6
  <2>2. y \div B3 = d
    BY <2>1, DivUnique, Zenon
  <2>3. d = B * 0 + d /\ 0 \in Int
    OBVIOUS
  <2>4. d % B = d
    BY <2>1, <2>3, DivUnique, Zenon
  <2>5. QED BY <1>7, <2>2, <2>4, Zenon
<1>12. QED BY <1>8, <1>9, <1>10, <1>11 DEF B2, B3, BytesAre

-----------------------------------------------------------------------------
(* The hash functions: name and number each tell which one it is             *)

HashNames == {hash_descriptors[k].name : k \in 1 .. 6}
HashSizes(h) == h.num \in 0 .. 5 /\ h.seed \in 0 .. 32 /\ h.size \in 8 .. 64 /\ h.object \in BOOLEAN
NoName == ""

\* The table of hash functions, entry by entry
LEMMA SixHashes ==
  /\ hash_descriptors[1] = [name |-> "md5", num |-> 0, seed |-> 0, size |-> 16, object |-> FALSE, func |-> TRUE]
  /\ hash_descriptors[2] = [name |-> NoName, num |-> 1, seed |-> 0,  size |-> 16, object |-> FALSE, func |-> FALSE]
  /\ hash_descriptors[3] = [name |-> "sha1", num |-> 2, seed |-> 0, size |-> 20, object |-> FALSE, func |-> TRUE]
  /\ hash_descriptors[4] = [name |-> "sha512", num |-> 3, seed |-> 0, size |-> 64, object |-> FALSE, func |-> TRUE]
  /\ hash_descriptors[5] = [name |-> "vmac", num |-> 4, seed |-> 32, size |-> 16, object |-> TRUE, func |-> TRUE]
  /\ hash_descriptors[6] = [name |-> "siphash", num |-> 5, seed |-> 16, size |-> 8, object |-> TRUE, func |-> TRUE]
  /\ DOMAIN hash_descriptors = 1 .. 6
<1>1. DOMAIN hash_descriptors = 1 .. 6
  <2>1. PICK a, b, c, d, e, f : hash_descriptors = <<a, b, c, d, e, f>>
    BY Zenon DEF hash_descriptors
  <2>2. QED BY <2>1
<1>2. hash_descriptors[1] = [name |-> "md5", num |-> 0, seed |-> 0, size |-> 16, object |-> FALSE, func |-> TRUE]
  BY Zenon DEF hash_descriptors, NoName
<1>3. hash_descriptors[2] = [name |-> NoName, num |-> 1, seed |-> 0,  size |-> 16, object |-> FALSE, func |-> FALSE]
  BY Zenon DEF hash_descriptors, NoName
<1>4. hash_descriptors[3] = [name |-> "sha1", num |-> 2, seed |-> 0, size |-> 20, object |-> FALSE, func |-> TRUE]
  BY Zenon DEF hash_descriptors, NoName
<1>5. hash_descriptors[4] = [name |-> "sha512", num |-> 3, seed |-> 0, size |-> 64, object |-> FALSE, func |-> TRUE]
  BY Zenon DEF hash_descriptors, NoName
<1>6. hash_descriptors[5] = [name |-> "vmac", num |-> 4, seed |-> 32, size |-> 16, object |-> TRUE, func |-> TRUE]
  BY Zenon DEF hash_descriptors, NoName
<1>7. hash_descriptors[6] = [name |-> "siphash", num |-> 5, seed |-> 16, size |-> 8, object |-> TRUE, func |-> TRUE]
  BY Zenon DEF hash_descriptors, NoName
<1>8. QED BY <1>1, <1>2, <1>3, <1>4, <1>5, <1>6, <1>7

\* No name is empty
LEMMA NamesLong == /\ "md5" # NoName /\ "sha1" # NoName /\ "sha512" # NoName /\ "vmac" # NoName /\ "siphash" # NoName
BY Zenon DEF NoName

\* Their numbers, and the sizes of their keys and checksums
LEMMA Descriptors ==
  /\ DOMAIN hash_descriptors = 1 .. 6
  /\ \A k \in 1 .. 6 : /\ HashSizes(hash_descriptors[k]) /\ hash_descriptors[k].num = k - 1
                        /\ hash_descriptors[k] # NoHash
                        /\ (hash_descriptors[k].name = NoName => ~hash_descriptors[k].func)
<1> DEFINE h == hash_descriptors
<1>1. \A k \in 1 .. 6 : k = 1 \/ k = 2 \/ k = 3 \/ k = 4 \/ k = 5 \/ k = 6
  OBVIOUS
<1>2. \A k \in 1 .. 6 : HashSizes(h[k])
  <2>1. \A k \in 1 .. 6 : h[k].num \in 0 .. 5 /\ h[k].seed \in 0 .. 32 /\ h[k].size \in 8 .. 64
    BY <1>1, SixHashes
  <2>2. \A k \in 1 .. 6 : h[k].object \in BOOLEAN
    <3>1. h[1].object = FALSE /\ h[2].object = FALSE /\ h[3].object = FALSE /\ h[4].object = FALSE
      BY SixHashes
    <3>2. h[5].object = TRUE /\ h[6].object = TRUE
      BY SixHashes
    <3> HIDE DEF h
    <3>3. QED BY <1>1, <3>1, <3>2
  <2>3. QED BY <2>1, <2>2 DEF HashSizes
<1>3. \A k \in 1 .. 6 : h[k].num = k - 1
  BY <1>1, SixHashes
<1>4. \A k \in 1 .. 6 : h[k] # NoHash
  <2>1. NoHash.num = -1
    BY DEF NoHash
  <2>2. \A k \in 1 .. 6 : k - 1 # -1
    OBVIOUS
  <2>3. QED BY <1>3, <2>1, <2>2
<1>5. \A k \in 1 .. 6 : (h[k].name = NoName => ~h[k].func)
  BY <1>1, SixHashes, NamesLong
<1>6. QED BY <1>2, <1>3, <1>4, <1>5, SixHashes

\* A hash function is found by its name, and then by its number
LEMMA HashFound ==
  ASSUME NEW n \in HashNames
  PROVE  /\ HashSizes(hash_by_name(n)) /\ hash_by_num(hash_by_name(n).num) = hash_by_name(n)
         /\ hash_by_name(n) # NoHash /\ (n = NoName => ~hash_by_name(n).func)
<1>1. PICK h : h = hash_descriptors
  OBVIOUS
<1>2. /\ DOMAIN h = 1 .. 6
      /\ \A k \in 1 .. 6 : HashSizes(h[k]) /\ h[k].num = k - 1 /\ h[k] # NoHash /\ (h[k].name = NoName => ~h[k].func)
  BY <1>1, Descriptors
<1> DEFINE S == {k \in DOMAIN h : h[k].name = n}
<1>3. S \subseteq Nat /\ S # {}
  BY <1>1, <1>2 DEF HashNames
<1>4. PICK i : i = Min(S)
  OBVIOUS
<1>5. i \in 1 .. 6 /\ h[i].name = n
  <2>1. Min(S) \in S
    <3> HIDE DEF S
    <3>1. QED BY <1>3, MinIs
  <2>2. QED BY <1>2, <1>4, <2>1
<1>6. hash_by_name(n) = h[i]
  BY <1>1, <1>3, <1>4 DEF hash_by_name, FirstHash
<1>7. hash_by_num(h[i].num) = h[i]
  <2>1. {k \in DOMAIN h : h[k].num = h[i].num} = {i}
    BY <1>2, <1>5
  <2>2. Min({i}) = i /\ {i} # {}
    <3>1. {i} \subseteq Nat /\ {i} # {}
      BY <1>5
    <3>2. Min({i}) \in {i}
      BY <3>1, MinIs
    <3>3. QED BY <3>2
  <2>3. QED BY <1>1, <2>1, <2>2, Zenon DEF hash_by_num, FirstHash
<1>8. QED BY <1>2, <1>5, <1>6, <1>7

\* A name that has a hash function is one of the six
LEMMA NamedHash ==
  ASSUME NEW n, hash_by_name(n) # NoHash
  PROVE  n \in HashNames
<1>1. {k \in DOMAIN hash_descriptors : hash_descriptors[k].name = n} # {}
  BY DEF hash_by_name, FirstHash
<1>2. QED BY <1>1, Descriptors DEF HashNames

-----------------------------------------------------------------------------
(* The settings, after any options.  A switch sets what its text says.       *)

Formats == {"index", "future", "io"}
Words == UNION {{c.words[n] : n \in DOMAIN c.words} : c \in CommandLines}
Settings(s) ==
  /\ DOMAIN s = DOMAIN Defaults /\ s.method \in 0 .. 5 /\ s.format \in Formats /\ s.selected_hash \in HashNames

\* Before any option
LEMMA DefaultSettings == Settings(Defaults)
<1>1. Defaults.method = 3 /\ Defaults.format = "index" /\ Defaults.selected_hash = "vmac"
  <2>1. Defaults.method = 3
    BY Zenon DEF Defaults
  <2>2. Defaults.format = "index"
    BY Zenon DEF Defaults
  <2>3. Defaults.selected_hash = "vmac"
    BY Zenon DEF Defaults
  <2>4. QED BY <2>1, <2>2, <2>3
<1>2. "vmac" \in HashNames
  <2>1. hash_descriptors[5].name = "vmac" /\ 5 \in 1 .. 6
    BY SixHashes
  <2>2. QED BY <2>1, Zenon DEF HashNames
<1>3. QED BY <1>1, <1>2 DEF Settings, Formats

\* What is not looked at may be set to anything
LEMMA OtherSet ==
  ASSUME NEW s, Settings(s), NEW f, f \notin {"method", "format", "selected_hash"}, NEW v
  PROVE  Settings([s EXCEPT ![f] = v])
BY DEF Settings

\* What is looked at keeps its kind
LEMMA FormatSet ==
  ASSUME NEW s, Settings(s), NEW v \in Formats
  PROVE  Settings([s EXCEPT !["format"] = v])
<1>1. "format" \in DOMAIN s
  BY Zenon DEF Settings, Defaults
<1>2. QED BY <1>1 DEF Settings

LEMMA HashSet ==
  ASSUME NEW s, Settings(s), NEW v \in HashNames
  PROVE  Settings([s EXCEPT !["selected_hash"] = v])
<1>1. "selected_hash" \in DOMAIN s
  BY Zenon DEF Settings, Defaults
<1>2. QED BY <1>1 DEF Settings

Allowed(f, v) ==
  \/ f \notin {"method", "format", "selected_hash"}
  \/ f = "format" /\ v \in Formats
  \/ f = "selected_hash" /\ v \in HashNames

LEMMA AllowedSet ==
  ASSUME NEW s, Settings(s), NEW f, NEW v, Allowed(f, v)
  PROVE  Settings([s EXCEPT ![f] = v])
BY OtherSet, FormatSet, HashSet DEF Allowed

\* What the switches set it to
LEMMA SwitchSets == \A t \in DOMAIN Switches : Allowed(Switches[t][1], Switches[t][2])
<1>1. Switches["-d"][1] = "cmdmode"
  BY Zenon DEF Switches
<1>2. Switches["-i"][1] = "cmdmode"
  BY Zenon DEF Switches
<1>3. Switches["-delete"][1] = "delete"
  BY Zenon DEF Switches
<1>4. Switches["-mmap"][1] = "use_mmap"
  BY Zenon DEF Switches
<1>5. Switches["-nommap"][1] = "use_mmap"
  BY Zenon DEF Switches
<1>6. Switches["-s"][1] = "option_s"
  BY Zenon DEF Switches
<1>7. Switches["-s-"][1] = "option_s"
  BY Zenon DEF Switches
<1>8. Switches["-s+"][1] = "option_s"
  BY Zenon DEF Switches
<1>9. Switches["-sX.Y"][1] = "option_s"
  BY Zenon DEF Switches
<1>10. Switches["-f"][1] = "format" /\ Switches["-f"][2] = "future"
  BY Zenon DEF Switches
<1>11. Switches["-a-"][1] = "accel"
  BY Zenon DEF Switches
<1>12. Switches["-ia-"][1] = "io_accelerator"
  BY Zenon DEF Switches
<1>13. Switches["-ia+"][1] = "io_accelerator"
  BY Zenon DEF Switches
<1>14. Switches["-slp"][1] = "LargePageMode"
  BY Zenon DEF Switches
<1>15. Switches["-slp-"][1] = "LargePageMode"
  BY Zenon DEF Switches
<1>16. Switches["-slp+"][1] = "LargePageMode"
  BY Zenon DEF Switches
<1>17. Switches["-hash-"][1] = "selected_hash" /\ Switches["-hash-"][2] = NoName
  BY Zenon DEF Switches, NoName
<1>18. Switches["-nomd5"][1] = "selected_hash" /\ Switches["-nomd5"][2] = NoName
  BY Zenon DEF Switches, NoName
<1>19. Switches["-v"][1] = "verbosity"
  BY Zenon DEF Switches
<1>20. Switches["-d-"][1] = "dictsize"
  BY Zenon DEF Switches
<1>21. Switches["-d+"][1] = "dictsize"
  BY Zenon DEF Switches
<1>22. DOMAIN Switches = {"-d", "-i", "-delete", "-mmap", "-nommap", "-s", "-s-", "-s+", "-sX.Y", "-f", "-a-",
                          "-ia-", "-ia+", "-slp", "-slp-", "-slp+", "-hash-", "-nomd5", "-v", "-d-", "-d+"}
  BY Zenon DEF Switches
<1>23. NoName \in HashNames
  <2>1. hash_descriptors[2].name = NoName /\ 2 \in 1 .. 6
    BY SixHashes
  <2>2. QED BY <2>1, Zenon DEF HashNames
<1>24. QED BY <1>1, <1>2, <1>3, <1>4, <1>5, <1>6, <1>7, <1>8, <1>9, <1>10, <1>11, <1>12, <1>13, <1>14, <1>15,
              <1>16, <1>17, <1>18, <1>19, <1>20, <1>21, <1>22, <1>23 DEF Formats, Allowed

\* Every word that starts with a dash is taken by some branch
LEMMA BranchTexts ==
  /\ DOMAIN Branches = 1 .. 39
  /\ Branches[39] = [text |-> "-", exact |-> FALSE]
  /\ \A k \in 1 .. 39 : Branches[k].exact => Branches[k].text \in DOMAIN Switches
<1>1. Branches[1] = [text |-> "-d", exact |-> TRUE]
  BY DEF Branches
<1>2. Branches[2] = [text |-> "-i", exact |-> TRUE]
  BY DEF Branches
<1>3. Branches[3] = [text |-> "-delete", exact |-> TRUE]
  BY DEF Branches
<1>4. Branches[4] = [text |-> "-mmap", exact |-> TRUE]
  BY DEF Branches
<1>5. Branches[5] = [text |-> "-nommap", exact |-> TRUE]
  BY DEF Branches
<1>6. Branches[6] = [text |-> "-s", exact |-> TRUE]
  BY DEF Branches
<1>7. Branches[7] = [text |-> "-s-", exact |-> TRUE]
  BY DEF Branches
<1>8. Branches[8] = [text |-> "-s+", exact |-> TRUE]
  BY DEF Branches
<1>9. Branches[9] = [text |-> "-sX.Y", exact |-> TRUE]
  BY DEF Branches
<1>10. Branches[10] = [text |-> "-m", exact |-> FALSE]
  BY DEF Branches
<1>11. Branches[11] = [text |-> "-f", exact |-> TRUE]
  BY DEF Branches
<1>12. Branches[12] = [text |-> "-a-", exact |-> TRUE]
  BY DEF Branches
<1>13. Branches[13] = [text |-> "-a", exact |-> FALSE]
  BY DEF Branches
<1>14. Branches[14] = [text |-> "-ia-", exact |-> TRUE]
  BY DEF Branches
<1>15. Branches[15] = [text |-> "-ia+", exact |-> TRUE]
  BY DEF Branches
<1>16. Branches[16] = [text |-> "-slp", exact |-> TRUE]
  BY DEF Branches
<1>17. Branches[17] = [text |-> "-slp-", exact |-> TRUE]
  BY DEF Branches
<1>18. Branches[18] = [text |-> "-slp+", exact |-> TRUE]
  BY DEF Branches
<1>19. Branches[19] = [text |-> "-hash-", exact |-> TRUE]
  BY DEF Branches
<1>20. Branches[20] = [text |-> "-nomd5", exact |-> TRUE]
  BY DEF Branches
<1>21. Branches[21] = [text |-> "-hash=", exact |-> FALSE]
  BY DEF Branches
<1>22. Branches[22] = [text |-> "-v", exact |-> TRUE]
  BY DEF Branches
<1>23. Branches[23] = [text |-> "-v", exact |-> FALSE]
  BY DEF Branches
<1>24. Branches[24] = [text |-> "-pc", exact |-> FALSE]
  BY DEF Branches
<1>25. Branches[25] = [text |-> "-index=", exact |-> FALSE]
  BY DEF Branches
<1>26. Branches[26] = [text |-> "-temp=", exact |-> FALSE]
  BY DEF Branches
<1>27. Branches[27] = [text |-> "-vmfile=", exact |-> FALSE]
  BY DEF Branches
<1>28. Branches[28] = [text |-> "-vmblock=", exact |-> FALSE]
  BY DEF Branches
<1>29. Branches[29] = [text |-> "-mem", exact |-> FALSE]
  BY DEF Branches
<1>30. Branches[30] = [text |-> "-l", exact |-> FALSE]
  BY DEF Branches
<1>31. Branches[31] = [text |-> "-c", exact |-> FALSE]
  BY DEF Branches
<1>32. Branches[32] = [text |-> "-s", exact |-> FALSE]
  BY DEF Branches
<1>33. Branches[33] = [text |-> "-b", exact |-> FALSE]
  BY DEF Branches
<1>34. Branches[34] = [text |-> "-d-", exact |-> TRUE]
  BY DEF Branches
<1>35. Branches[35] = [text |-> "-d+", exact |-> TRUE]
  BY DEF Branches
<1>36. Branches[36] = [text |-> "-d", exact |-> FALSE]
  BY DEF Branches
<1>37. Branches[37] = [text |-> "-t", exact |-> FALSE]
  BY DEF Branches
<1>38. Branches[38] = [text |-> "-rem", exact |-> FALSE]
  BY DEF Branches
<1>39. Branches[39] = [text |-> "-", exact |-> FALSE]
  BY DEF Branches
<1>40. DOMAIN Branches = 1 .. 39
  BY DEF Branches
<1>41. \A k \in 1 .. 39 :
         \/ k = 1 \/ k = 2 \/ k = 3 \/ k = 4 \/ k = 5 \/ k = 6 \/ k = 7 \/ k = 8 \/ k = 9 \/ k = 10 \/ k = 11
         \/ k = 12 \/ k = 13 \/ k = 14 \/ k = 15 \/ k = 16 \/ k = 17 \/ k = 18 \/ k = 19 \/ k = 20 \/ k = 21
         \/ k = 22 \/ k = 23 \/ k = 24 \/ k = 25 \/ k = 26 \/ k = 27 \/ k = 28 \/ k = 29 \/ k = 30 \/ k = 31
         \/ k = 32 \/ k = 33 \/ k = 34 \/ k = 35 \/ k = 36 \/ k = 37 \/ k = 38 \/ k = 39
  OBVIOUS
<1>42. DOMAIN Switches = {"-d", "-i", "-delete", "-mmap", "-nommap", "-s", "-s-", "-s+", "-sX.Y", "-f", "-a-",
                          "-ia-", "-ia+", "-slp", "-slp-", "-slp+", "-hash-", "-nomd5", "-v", "-d-", "-d+"}
  BY Zenon DEF Switches
<1>43. QED BY <1>1, <1>2, <1>3, <1>4, <1>5, <1>6, <1>7, <1>8, <1>9, <1>10, <1>11, <1>12, <1>13, <1>14, <1>15,
              <1>16, <1>17, <1>18, <1>19, <1>20, <1>21, <1>22, <1>23, <1>24, <1>25, <1>26, <1>27, <1>28, <1>29,
              <1>30, <1>31, <1>32, <1>33, <1>34, <1>35, <1>36, <1>37, <1>38, <1>39, <1>40, <1>41, <1>42

\* A word goes to one of these branches
LEMMA BranchFound ==
  ASSUME NEW w, StartsWith(w.text, "-")
  PROVE  \E k \in 1 .. 39 : Branch(w) = Branches[k]
<1>1. PICK f : f = Branches
  OBVIOUS
<1>2. DOMAIN f = 1 .. 39 /\ f[39] = [text |-> "-", exact |-> FALSE]
  BY <1>1, BranchTexts
<1> DEFINE S == {k \in DOMAIN f : Applies(w, f[k])}
<1>3. Applies(w, f[39])
  BY <1>2 DEF Applies
<1>4. 39 \in S /\ S \subseteq Nat
  <2>1. 39 \in 1 .. 39 /\ 1 .. 39 \subseteq Nat
    OBVIOUS
  <2>2. QED BY <1>2, <1>3, <2>1, Zenon
<1>5. Branch(w) = f[Min(S)]
  BY <1>1 DEF Branch
<1>6. Min(S) \in S
  <2> HIDE DEF S
  <2>1. QED BY <1>4, MinIs
<1>7. Min(S) \in 1 .. 39
  BY <1>2, <1>6
<1> HIDE DEF S
<1>8. QED BY <1>1, <1>5, <1>7

\* What the branches do to the settings
LEMMA FailKeeps ==
  ASSUME NEW s, Settings(s)
  PROVE  Settings(Fail(s))
<1>1. "errcode" \notin {"method", "format", "selected_hash"}
  OBVIOUS
<1>2. QED BY <1>1, OtherSet DEF Fail

LEMMA SetsKeep ==
  ASSUME NEW s, Settings(s), NEW f, f \notin {"method", "format", "selected_hash"}, NEW arg, NEW spec
  PROVE  Settings(SetInt(s, f, arg)) /\ Settings(SetMem(s, f, arg, spec)) /\ Settings(SetMemOption(s, f, arg))
<1>1. Settings(Fail(s))
  BY FailKeeps
<1>2. \A v : Settings([s EXCEPT ![f] = v])
  BY OtherSet
<1>3. Settings(SetInt(s, f, arg))
  BY <1>1, <1>2, Zenon DEF SetInt
<1>4. Settings(SetMem(s, f, arg, spec))
  BY <1>1, <1>2, Zenon DEF SetMem
<1>5. Settings(SetMemOption(s, f, arg))
  BY <1>1, <1>2, Zenon DEF SetMemOption
<1>6. QED BY <1>3, <1>4, <1>5

LEMMA MethodKeeps ==
  ASSUME NEW s, Settings(s), NEW w
  PROVE  Settings(SetMethod(s, w))
<1> DEFINE method == IF w.text = "-mx" THEN 5 ELSE w.arg.n
           format == CASE w.arg.unit = "" -> "index" [] w.arg.unit = "f" -> "future"
                       [] w.arg.unit = "o" -> "io" [] OTHER -> "none"
<1>1. format \in Formats \/ format = "none"
  <2>1. format = "index" \/ format = "future" \/ format = "io" \/ format = "none"
    BY Zenon
  <2> HIDE DEF format
  <2>2. QED BY <2>1, Zenon DEF Formats
<1>2. SetMethod(s, w) = IF method \in 0 .. 5 /\ format # "none" THEN [s EXCEPT !.method = method, !.format = format]
                        ELSE IF w.text = "-mx" THEN Fail(s) ELSE SetMem(s, "maximum_save", w.arg, "b")
  BY Zenon DEF SetMethod
<1> HIDE DEF method, format
<1>3. ASSUME method \in 0 .. 5, format # "none"
      PROVE  Settings([s EXCEPT !.method = method, !.format = format])
  <2>1. format \in Formats
    BY <1>1, <1>3
  <2>2. "method" \in DOMAIN s /\ "format" \in DOMAIN s
    BY Zenon DEF Settings, Defaults
  <2>3. QED BY <1>3, <2>1, <2>2 DEF Settings
<1>4. Settings(Fail(s))
  BY FailKeeps
<1>5. Settings(SetMem(s, "maximum_save", w.arg, "b"))
  BY SetsKeep
<1>6. QED BY <1>2, <1>3, <1>4, <1>5, Zenon

LEMMA HashKeeps ==
  ASSUME NEW s, Settings(s), NEW name
  PROVE  Settings(SetHash(s, name))
<1>1. CASE hash_by_name(name) = NoHash
  BY <1>1, FailKeeps, Zenon DEF SetHash
<1>2. CASE hash_by_name(name) # NoHash
  <2>1. name \in HashNames
    BY <1>2, NamedHash
  <2>2. QED BY <1>2, <2>1, HashSet, Zenon DEF SetHash
<1>3. QED BY <1>1, <1>2

LEMMA DictKeeps ==
  ASSUME NEW s, Settings(s), NEW part_
  PROVE  Settings(SetDict(s, part_))
<1>1. \A v : Settings([s EXCEPT !.errcode = v])
  <2>1. "errcode" \notin {"method", "format", "selected_hash"}
    OBVIOUS
  <2>2. QED BY <2>1, OtherSet
<1>2. /\ "dict_chunk" \notin {"method", "format", "selected_hash"}
      /\ "dict_min_match" \notin {"method", "format", "selected_hash"}
      /\ "dictsize" \notin {"method", "format", "selected_hash"}
      /\ "dict_hashsize" \notin {"method", "format", "selected_hash"}
  OBVIOUS
<1>3. Settings(Fail(s))
  BY FailKeeps
<1>4. /\ Settings(SetMem(s, "dict_chunk", part_.arg, "b")) /\ Settings(SetMem(s, "dict_min_match", part_.arg, "b"))
      /\ Settings(SetMemOption(s, "dictsize", part_.arg)) /\ Settings(SetMemOption(s, "dict_hashsize", part_.arg))
  BY <1>2, SetsKeep
<1>5. QED BY <1>1, <1>3, <1>4, Zenon DEF SetDict

\* An option, right or wrong, leaves settings that the rest of the program knows
LEMMA ParseKeeps ==
  ASSUME NEW s, Settings(s), NEW w \in Words
  PROVE  Settings(ParseOption(s, w))
<1> DEFINE b == Branch(w)
           arg == IF w.text = b.text THEN w.arg ELSE NoArg
           special == {"method", "format", "selected_hash"}
           steps == IF w.arg.unit = "/" THEN w.arg.less ELSE 9000
           fault == IF w.arg.unit \in {"", "/"} THEN 0 ELSE 1
           ignored == IF arg = NoArg \/ IsMem(arg, "m") THEN 0 ELSE 1
           accel == [s EXCEPT !.accel = w.arg.n, !.ACCELERATOR = steps, !.errcode = fault]
           hashed == SetHash(s, w.arg.unit)
           verbosity == SetInt(s, "verbosity", arg)
           print_pc == [s EXCEPT !.print_pc = TRUE, !.errcode = ignored]
           index_file == [s EXCEPT !.index_file = w.arg.unit]
           tempfile == [s EXCEPT !.tempfile = w.arg.unit]
           vmfile == [s EXCEPT !.vmfile_name = w.arg.unit]
           vm_block == SetMem(s, "vm_block", arg, "m")
           vm_mem == SetMemOption(s, "vm_mem", arg)
           shortest == SetMem(s, "min_match", arg, "b")
           chunk == SetMem(s, "L", arg, "b")
           filesized == IF IsMem(arg, "b") THEN [s EXCEPT !.filesize = Mem(arg, "b")] ELSE Fail(s)
           bufsize == SetMem(s, "bufsize", arg, "m")
           dict == SetDict(s, [text |-> SubSeq(w.text, 3, Len(w.text)), arg |-> w.arg])
           threads == SetInt(s, "NumThreads", arg)
           branch ==
             CASE b.text = "-m" -> SetMethod(s, w) [] b.text = "-a" -> accel [] b.text = "-hash=" -> hashed
               [] b.text = "-v" -> verbosity [] b.text = "-pc" -> print_pc [] b.text = "-index=" -> index_file
               [] b.text = "-temp=" -> tempfile [] b.text = "-vmfile=" -> vmfile [] b.text = "-vmblock=" -> vm_block
               [] b.text = "-mem" -> vm_mem [] b.text = "-l" -> shortest [] b.text = "-c" -> chunk
               [] b.text = "-s" -> filesized [] b.text = "-b" -> bufsize [] b.text = "-d" -> dict
               [] b.text = "-t" -> threads [] b.text = "-rem" -> s [] OTHER -> Fail(s)
<1>1. ParseOption(s, w) =
        IF ~StartsWith(w.text, "-") \/ w.text = "-" THEN [s EXCEPT !.filenames = Append(@, w.text)]
        ELSE IF b.exact THEN [s EXCEPT ![Switches[b.text][1]] = Switches[b.text][2]]
        ELSE branch
  BY Zenon DEF ParseOption
<1>2. Settings([s EXCEPT !.filenames = Append(@, w.text)])
  <2>1. "filenames" \notin special
    OBVIOUS
  <2>2. QED BY <2>1, OtherSet
<1>3. ASSUME StartsWith(w.text, "-"), b.exact
      PROVE  Settings([s EXCEPT ![Switches[b.text][1]] = Switches[b.text][2]])
  <2>1. PICK k \in 1 .. 39 : b = Branches[k]
    BY <1>3, BranchFound
  <2>2. b.text \in DOMAIN Switches
    BY <1>3, <2>1, BranchTexts
  <2> HIDE DEF b
  <2>3. Allowed(Switches[b.text][1], Switches[b.text][2])
    BY <2>2, SwitchSets, Zenon
  <2>4. QED BY <2>3, AllowedSet
<1>4. Settings(branch)
  <2>1. /\ "accel" \notin special /\ "ACCELERATOR" \notin special /\ "errcode" \notin special /\ "verbosity" \notin special
        /\ "print_pc" \notin special /\ "index_file" \notin special /\ "tempfile" \notin special
        /\ "vmfile_name" \notin special /\ "vm_block" \notin special /\ "vm_mem" \notin special
        /\ "min_match" \notin special /\ "L" \notin special /\ "filesize" \notin special
        /\ "bufsize" \notin special /\ "NumThreads" \notin special
    OBVIOUS
  <2> HIDE DEF special
  <2>2. ASSUME NEW f, f \notin special
        PROVE  \A v : Settings([s EXCEPT ![f] = v])
    BY <2>2, OtherSet DEF special
  <2>3. ASSUME NEW f, f \notin special
        PROVE  \A x, d : Settings(SetInt(s, f, x)) /\ Settings(SetMem(s, f, x, d)) /\ Settings(SetMemOption(s, f, x))
    BY <2>3, SetsKeep DEF special
  <2>4. Settings(accel) /\ Settings(print_pc)
    <3> HIDE DEF steps, fault, ignored
    <3>1. Settings(accel)
      BY DEF Settings
    <3>2. Settings(print_pc)
      BY DEF Settings
    <3>3. QED BY <3>1, <3>2
  <2>5. Settings(Fail(s)) /\ Settings(SetMethod(s, w)) /\ Settings(hashed) /\ Settings(dict)
    BY FailKeeps, MethodKeeps, HashKeeps, DictKeeps, Zenon
  <2>6. Settings(index_file) /\ Settings(tempfile) /\ Settings(vmfile) /\ Settings(filesized)
    BY <2>1, <2>2, <2>5, Zenon
  <2>7. /\ Settings(verbosity) /\ Settings(threads) /\ Settings(vm_block) /\ Settings(vm_mem)
        /\ Settings(shortest) /\ Settings(chunk) /\ Settings(bufsize)
    BY <2>1, <2>3, Zenon
  <2> HIDE DEF b, arg, accel, hashed, verbosity, print_pc, index_file, tempfile, vmfile, vm_block, vm_mem,
               shortest, chunk, filesized, bufsize, dict, threads
  <2>8. QED BY <2>4, <2>5, <2>6, <2>7
<1> HIDE DEF branch, b
<1>5. QED BY <1>1, <1>2, <1>3, <1>4, Zenon
-----------------------------------------------------------------------------
(* The archive header                                                        *)

LEMMA PowersAre ==
  /\ Power(0) = 1 /\ Power(1) = ByteValues /\ Power(2) = ByteValues * ByteValues
  /\ Power(3) = ByteValues * ByteValues * ByteValues
  /\ Power(4) = ByteValues * ByteValues * ByteValues * ByteValues
BY DEF Power

\* The version is not zero and tells the formats apart
LEMMA VersionIs ==
  ASSUME Settings(opt), par.round \in BOOLEAN
  PROVE  /\ FormatVersion \in 1 .. 4
         /\ opt.format = "io" => FormatVersion <= 2 /\ (FormatVersion = 1) = par.round
         /\ opt.format = "future" => FormatVersion = 3
         /\ opt.format = "index" => FormatVersion = 4
<1>1. opt.format \in {"index", "future", "io"}
  BY DEF Settings, Formats
<1>2. FormatVersion = CASE opt.format = "index" -> 4 [] opt.format = "future" -> 3
                        [] opt.format = "io" -> IF par.round THEN 1 ELSE 2
  BY DEF FormatVersion
<1>3. CASE opt.format = "index"
  BY <1>2, <1>3
<1>4. CASE opt.format = "future"
  BY <1>2, <1>4
<1>5. CASE opt.format = "io"
  BY <1>2, <1>5
<1>6. QED BY <1>1, <1>3, <1>4, <1>5

\* What was put into the header word is taken out of it again
LEMMA HeaderBytes ==
  ASSUME Settings(opt), par.round \in BOOLEAN, header[1] = HeaderWord
  PROVE  /\ HeaderByte(0) = FormatVersion /\ HeaderByte(1) = hash.num /\ HeaderByte(2) = hash.seed
         /\ (HeaderByte(3) + 16) % ByteValues = hash.size
<1>1. PICK B \in Nat : B = ByteValues /\ B > 64
  BY OptionsAssumption
<1>2. PICK h : h = hash
  OBVIOUS
<1>3. h.num \in 0 .. 5 /\ h.seed \in 0 .. 32 /\ h.size \in 8 .. 64
  BY <1>2, HashFound DEF Settings, hash, HashSizes
<1>4. PICK a \in 1 .. 4 : a = FormatVersion
  BY VersionIs
<1>5. PICK b \in 0 .. 5, c \in 0 .. 32, n \in 8 .. 64 : b = h.num /\ c = h.seed /\ n = h.size
  BY <1>3
<1>6. PICK q \in Int, d \in 0 .. B - 1 : d = (n - 16) % B /\ n - 16 = B * q + d
  <2>1. B \in Nat /\ B >= 1 /\ n - 16 \in Int
    BY <1>1
  <2>2. PICK m \in Int : m = n - 16
    BY <2>1
  <2>3. m \div B \in Int /\ m % B \in 0 .. B - 1 /\ m = B * (m \div B) + (m % B)
    BY <2>1, <2>2, DivMod, Zenon
  <2>4. QED BY <2>2, <2>3, Zenon
<1>7. (d + 16) % B = n
  <2>1. PICK m \in Int, p \in Int : m = d + 16 /\ p = -q
    OBVIOUS
  <2>2. m = B * p + n /\ n \in 0 .. B - 1 /\ B >= 1
    <3>1. B * p = -(B * q)
      BY <2>1
    <3>2. B * q \in Int /\ B * p \in Int
      OBVIOUS
    <3>3. QED BY <1>1, <1>6, <2>1, <3>1, <3>2
  <2>3. m % B = n
    BY <2>2, DivUnique, Zenon
  <2>4. QED BY <2>1, <2>3
<1>8. PICK x : x = HeaderWord
  OBVIOUS
<1>9. x = FourBytes(B, a, b, c, d)
  BY <1>1, <1>2, <1>4, <1>5, <1>6, <1>8, PowersAre, Zenon DEF HeaderWord, FourBytes
<1>10. /\ a \in 0 .. B - 1 /\ b \in 0 .. B - 1 /\ c \in 0 .. B - 1 /\ B >= 1
  BY <1>1
<1>11. BytesAre(x, B, a, b, c, d)
  BY <1>9, <1>10, BytesBack, Zenon
<1>12. HeaderByte(0) = a /\ HeaderByte(1) = b /\ HeaderByte(2) = c /\ HeaderByte(3) = d
  BY <1>1, <1>8, <1>11, PowersAre, Zenon DEF HeaderByte, BytesAre
<1>13. QED BY <1>1, <1>2, <1>4, <1>5, <1>7, <1>12, Zenon

\* The decoder finds the same function and sizes
LEMMA HeaderIsKept ==
  ASSUME Settings(opt), par.round \in BOOLEAN, ReadHeader,
         header = <<HeaderWord, IF opt.format = "io" THEN par.BASE_LEN ELSE 0>>
  PROVE  HeaderKept'
<1>1. header[1] = HeaderWord /\ header[2] = IF opt.format = "io" THEN par.BASE_LEN ELSE 0
  OBVIOUS
<1>2. /\ HeaderByte(0) = FormatVersion /\ HeaderByte(1) = hash.num /\ HeaderByte(2) = hash.seed
      /\ (HeaderByte(3) + 16) % ByteValues = hash.size
  BY <1>1, HeaderBytes
<1>3. opt' = opt /\ par' = par /\ check' = check /\ hash' = hash
  BY DEF ReadHeader, command, hash
<1>4. PICK v, h : v = FormatVersion /\ h = hash
  OBVIOUS
<1>5. /\ HashSizes(h) /\ hash_by_num(h.num) = h /\ h # NoHash
  BY <1>4, HashFound DEF Settings, hash
<1>6. ~hash_by_name(NoName).func
  <2>1. NoName \in HashNames
    <3>1. hash_descriptors[2].name = NoName /\ 2 \in 1 .. 6
      BY SixHashes
    <3>2. QED BY <3>1, Zenon DEF HashNames
  <2>2. QED BY <2>1, HashFound
<1>7. h.seed <= h.seed /\ h.size <= h.size
  BY <1>5 DEF HashSizes
<1> DEFINE selected == IF check THEN h ELSE hash_by_name(NoName)
<1>8. dec' = [format |-> CASE v <= 2 -> "io" [] v = 3 -> "future" [] OTHER -> "index",
              round |-> v = 1, BASE_LEN |-> header[2],
              seed_size |-> h.seed, hash_size |-> h.size, hash |-> selected,
              object |-> selected.object /\ h.seed = selected.seed]
  <2>1. /\ HeaderByte(0) = v /\ hash_by_num(HeaderByte(1)) = h /\ HeaderByte(2) = h.seed
        /\ (HeaderByte(3) + 16) % ByteValues = h.size
    BY <1>2, <1>4, <1>5
  <2>2. h # NoHash /\ h.seed <= h.seed /\ h.size <= h.size
    BY <1>5, <1>7
  <2>3. QED BY <2>1, <2>2, Zenon DEF ReadHeader, NoName
<1>9. dec'.hash_size = hash'.size /\ dec'.seed_size = hash'.seed
  BY <1>3, <1>4, <1>8
<1>10. dec'.hash = selected /\ dec'.object = (selected.object /\ h.seed = selected.seed)
  BY <1>8
<1>11. dec'.BASE_LEN = header[2] /\ dec'.round = (v = 1)
  BY <1>8
<1>12. dec'.format = CASE v <= 2 -> "io" [] v = 3 -> "future" [] OTHER -> "index"
  BY <1>8
<1>13. /\ v \in 1 .. 4
       /\ opt.format = "io" => v <= 2 /\ (v = 1) = par.round
       /\ opt.format = "future" => v = 3
       /\ opt.format = "index" => v = 4
  BY <1>4, VersionIs
<1>14. opt.format \in {"index", "future", "io"}
  BY DEF Settings, Formats
<1>15. /\ dec'.format = opt'.format
       /\ opt'.format = "io" => dec'.round = par'.round /\ dec'.BASE_LEN = par'.BASE_LEN
       /\ opt'.format # "io" => ~dec'.round /\ dec'.BASE_LEN = 0
  <2>1. CASE opt.format = "io"
    <3>1. v <= 2 /\ (v = 1) = par.round /\ header[2] = par.BASE_LEN
      BY <1>1, <1>13, <2>1
    <3>2. QED BY <1>3, <1>11, <1>12, <2>1, <3>1
  <2>2. CASE opt.format = "future"
    <3>1. v = 3 /\ ~(v <= 2) /\ v # 1 /\ header[2] = 0
      BY <1>1, <1>13, <2>2
    <3>2. QED BY <1>3, <1>11, <1>12, <2>2, <3>1
  <2>3. CASE opt.format = "index"
    <3>1. v = 4 /\ ~(v <= 2) /\ v # 3 /\ v # 1 /\ header[2] = 0
      BY <1>1, <1>13, <2>3
    <3>2. QED BY <1>3, <1>11, <1>12, <2>3, <3>1
  <2>4. QED BY <1>14, <2>1, <2>2, <2>3
<1>16. /\ check' => dec'.hash = hash' /\ dec'.object = hash'.object
       /\ ~check' => ~dec'.hash.func
  <2>1. CASE check
    <3>1. selected = h /\ h.object \in BOOLEAN
      BY <1>5, <2>1 DEF HashSizes
    <3>2. QED BY <1>3, <1>4, <1>10, <2>1, <3>1
  <2>2. CASE ~check
    BY <1>3, <1>6, <1>10, <2>2
  <2>3. QED BY <2>1, <2>2
<1>17. QED BY <1>9, <1>15, <1>16, Zenon DEF HeaderKept
-----------------------------------------------------------------------------
(* What is known between two steps of the options                            *)

\* What is opened is known by now, and stdin is not to be read twice
FilesNamed ==
  /\ DOMAIN files = {"in", "out", "opened", "temp"}
  /\ files.in # files.out \/ files.in = Stdio
  /\ opt.cmdmode = "compress" /\ ~single_pass_compression /\ files.in = Stdio => files.temp # NoName

OptionsInv ==
  /\ Settings(opt) /\ args \in Seq(Words)
  /\ stage \in {"names", "open", "header", "decoder"} => par.round \in BOOLEAN
  /\ stage \in {"idle", "parse", "options", "names", "open", "header", "decoder"} => dec = Nothing
  /\ stage \in {"open", "header"} => FilesNamed
  /\ stage = "header" => files.opened = ToOpen /\ opt.cmdmode = "compress"
  /\ stage = "decoder" => header = <<HeaderWord, IF opt.format = "io" THEN par.BASE_LEN ELSE 0>>
  /\ HeaderKept

\* Until the header is read, and after it
LEMMA NotDecoded ==
  ASSUME dec' = Nothing
  PROVE  HeaderKept'
BY DEF HeaderKept, Nothing

LEMMA StaysKept ==
  ASSUME HeaderKept, UNCHANGED <<dec, opt, par, check>>
  PROVE  HeaderKept'
BY DEF HeaderKept, hash

\* One step at a time
LEMMA OptionsInitial == Init => OptionsInv
<1>1. SUFFICES ASSUME Init PROVE OptionsInv
  OBVIOUS
<1>2. PICK c \in CommandLines : args = c.words
  BY <1>1 DEF Init
<1>3. args \in Seq(Words)
  <2>1. PICK typed : typed = {c.words[n] : n \in DOMAIN c.words}
    OBVIOUS
  <2>2. args \in Seq(typed)
    BY <1>2, <2>1, OptionsAssumption
  <2>3. typed \subseteq Words
    BY <2>1 DEF Words
  <2>4. QED BY <2>2, <2>3, SeqMonotonic
<1>4. HeaderKept
  BY <1>1 DEF Init, HeaderKept
<1>5. QED BY <1>1, <1>3, <1>4, DefaultSettings DEF Init, OptionsInv

LEMMA OptionsParsed == OptionsInv /\ ParseNext => OptionsInv'
<1>1. SUFFICES ASSUME OptionsInv, ParseNext PROVE OptionsInv'
  OBVIOUS
<1>2. Settings(opt) /\ args \in Seq(Words) /\ args # <<>> /\ stage = "parse" /\ dec = Nothing
  BY <1>1 DEF OptionsInv, ParseNext
<1>3. Settings(opt') /\ args' \in Seq(Words) /\ stage' \in {"parse", "error"}
  <2>1. CASE Head(args).text = "--"
    <3>1. PICK v : v = opt.filenames \o [n \in 1 .. Len(args) - 1 |-> args[n + 1].text]
      OBVIOUS
    <3>2. opt' = [opt EXCEPT !.filenames = v] /\ args' = <<>> /\ stage' = stage
      BY <1>1, <2>1, <3>1 DEF ParseNext
    <3>3. Settings([opt EXCEPT !.filenames = v])
      <4>1. "filenames" \notin {"method", "format", "selected_hash"}
        OBVIOUS
      <4>2. QED BY <1>2, <4>1, OtherSet
    <3>4. QED BY <1>2, <3>2, <3>3
  <2>2. CASE Head(args).text # "--"
    <3>1. /\ opt' = ParseOption(opt, Head(args)) /\ args' = Tail(args)
          /\ stage' = IF opt'.errcode = 0 THEN "parse" ELSE "error"
      BY <1>1, <2>2 DEF ParseNext
    <3>2. Head(args) \in Words /\ Tail(args) \in Seq(Words)
      BY <1>2, HeadTailProperties
    <3>3. Settings(ParseOption(opt, Head(args)))
      BY <1>2, <3>2, ParseKeeps
    <3>4. QED BY <3>1, <3>2, <3>3, Zenon
  <2>3. QED BY <2>1, <2>2
<1>4. dec' = dec
  BY <1>1 DEF ParseNext
<1>5. HeaderKept'
  BY <1>2, <1>4, NotDecoded
<1>6. QED BY <1>2, <1>3, <1>4, <1>5, Zenon DEF OptionsInv

LEMMA LengthsDerived == OptionsInv /\ DeriveLengths => OptionsInv'
<1>1. SUFFICES ASSUME OptionsInv, DeriveLengths PROVE OptionsInv'
  OBVIOUS
<1>2. opt' = opt /\ args' = args /\ dec' = dec /\ dec = Nothing /\ Settings(opt) /\ args \in Seq(Words)
  BY <1>1 DEF OptionsInv, DeriveLengths, command
<1>3. stage' = "error" \/ (stage' = "names" /\ par'.round \in BOOLEAN)
  <2>1. \/ stage' = "error"
        \/ /\ stage' = "names"
           /\ \E a, b, c, d, e : \E f \in BOOLEAN : par' = [L |-> a, min_match |-> b, dict |-> c, dict_min_match |-> d,
                                                            BASE_LEN |-> e, round |-> f]
    BY <1>1, Zenon DEF DeriveLengths
  <2>2. QED BY <2>1
<1>4. HeaderKept'
  BY <1>2, NotDecoded
<1>5. QED BY <1>2, <1>3, <1>4, Zenon DEF OptionsInv

LEMMA FilesGetNames == OptionsInv /\ NameFiles => OptionsInv'
<1>1. SUFFICES ASSUME OptionsInv, NameFiles PROVE OptionsInv'
  OBVIOUS
<1>2. /\ Settings(opt) /\ args \in Seq(Words) /\ par.round \in BOOLEAN /\ dec = Nothing
      /\ args' = args /\ par' = par /\ dec' = dec
  BY <1>1, Zenon DEF OptionsInv, NameFiles, command
<1>3. PICK redirected \in BOOLEAN :
        LET names == FileNames(redirected)
            out   == OutputName(names)
        IN  IF names = <<>> THEN stage' = "usage" /\ UNCHANGED <<opt, files>>
            ELSE IF \/ Len(names) > IF opt.cmdmode = "info" THEN 1 ELSE 2
                    \/ MustCopy(names) /\ opt.tempfile = ""
                    \/ names[1] # Stdio /\ names[1] = out
              THEN stage' = "error" /\ UNCHANGED <<opt, files>>
            ELSE /\ opt' = [opt EXCEPT !.cmdmode = Command(names)]
                 /\ files' = [in |-> names[1], out |-> out, opened |-> <<>>,
                              temp |-> IF opt.tempfile # "default" THEN opt.tempfile
                                       ELSE IF MustCopy(names) THEN "srep-data.tmp" ELSE ""]
                 /\ stage' = "open"
  BY <1>1, Zenon DEF NameFiles
<1>4. PICK names, out, cmd : names = FileNames(redirected) /\ out = OutputName(names) /\ cmd = Command(names)
  OBVIOUS
<1> DEFINE copied == MustCopy(names)
           temp == IF opt.tempfile # "default" THEN opt.tempfile ELSE IF copied THEN "srep-data.tmp" ELSE NoName
<1>5. CASE stage' \in {"usage", "error"} /\ UNCHANGED <<opt, files>>
  <2>1. HeaderKept'
    BY <1>2, NotDecoded
  <2>2. stage' \in {"usage", "error"} /\ opt' = opt
    BY <1>5
  <2>3. QED BY <1>2, <2>1, <2>2, Zenon DEF OptionsInv
<1>6. CASE /\ ~(copied /\ opt.tempfile = NoName) /\ ~(names[1] # Stdio /\ names[1] = out)
           /\ opt' = [opt EXCEPT !.cmdmode = cmd]
           /\ files' = [in |-> names[1], out |-> out, opened |-> <<>>, temp |-> temp]
           /\ stage' = "open"
  <2>1. Settings(opt')
    <3>1. "cmdmode" \notin {"method", "format", "selected_hash"}
      OBVIOUS
    <3>2. QED BY <1>2, <1>6, <3>1, OtherSet
  <2>2. opt'.cmdmode = cmd /\ opt'.method = opt.method /\ opt'.format = opt.format
    <3>1. "cmdmode" \in DOMAIN opt
      BY <1>2, Zenon DEF Settings, Defaults
    <3>2. QED BY <1>2, <1>6, <3>1 DEF Settings
  <2>3. FilesNamed'
    <3>1. /\ DOMAIN files' = {"in", "out", "opened", "temp"} /\ files'.temp = temp
          /\ files'.in = names[1] /\ files'.out = out
      BY <1>6
    <3>2. single_pass_compression' = single_pass_compression
      BY <2>2 DEF single_pass_compression
    <3>3. ASSUME cmd = "compress", ~single_pass_compression, names[1] = Stdio PROVE temp # NoName
      <4>1. copied
        BY <1>4, <3>3, Zenon DEF MustCopy
      <4>2. opt.tempfile # NoName
        BY <1>6, <4>1
      <4>3. "srep-data.tmp" # NoName
        BY Zenon DEF NoName
      <4> HIDE DEF copied
      <4>4. QED BY <4>1, <4>2, <4>3, Zenon
    <3>4. names[1] # out \/ names[1] = Stdio
      BY <1>6
    <3> HIDE DEF temp, copied
    <3>5. QED BY <2>2, <3>1, <3>2, <3>3, <3>4, Zenon DEF FilesNamed
  <2>4. HeaderKept' /\ stage' = "open"
    BY <1>2, <1>6, NotDecoded
  <2>5. QED BY <1>2, <2>1, <2>3, <2>4, Zenon DEF OptionsInv
<1>7. QED BY <1>3, <1>4, <1>5, <1>6, Zenon DEF NoName

LEMMA FilesOpened == OptionsInv /\ OpenFiles => OptionsInv'
<1>1. SUFFICES ASSUME OptionsInv, OpenFiles PROVE OptionsInv'
  OBVIOUS
<1>2. /\ Settings(opt) /\ args \in Seq(Words) /\ par.round \in BOOLEAN /\ dec = Nothing /\ FilesNamed
      /\ args' = args /\ par' = par /\ dec' = dec
  BY <1>1, Zenon DEF OptionsInv, OpenFiles, command
<1> DEFINE a == DefaultAccel
           c == IF opt.ACCELERATOR = 9000 THEN Min({DefaultAccel, 16}) ELSE opt.ACCELERATOR
           n == IF opt.NumThreads = Unset THEN Processors ELSE opt.NumThreads
           u == opt.use_mmap /\ (opt.cmdmode = "compress" => files.temp = NoName)
<1>3. opt' = [opt EXCEPT !.accel = a, !.ACCELERATOR = c, !.NumThreads = n, !.use_mmap = u]
  BY <1>1, Zenon DEF OpenFiles, NoName
<1> HIDE DEF a, c, n, u
<1>4. Settings(opt') /\ opt'.cmdmode = opt.cmdmode /\ opt'.index_file = opt.index_file
      /\ opt'.method = opt.method /\ opt'.format = opt.format
  <2>1. "cmdmode" \in DOMAIN opt /\ "index_file" \in DOMAIN opt
    BY <1>2, Zenon DEF Settings, Defaults
  <2>2. QED BY <1>2, <1>3, <2>1 DEF Settings
<1>5. /\ files' = [files EXCEPT !.opened = ToOpen]
      /\ stage' = IF opt.cmdmode = "compress" THEN "header" ELSE "decompress"
  BY <1>1, Zenon DEF OpenFiles
<1>6. /\ DOMAIN files' = DOMAIN files /\ files'.opened = ToOpen
      /\ files'.in = files.in /\ files'.out = files.out /\ files'.temp = files.temp
  BY <1>2, <1>5 DEF FilesNamed
<1>7. ToOpen' = ToOpen
  BY <1>4, <1>6, Zenon DEF ToOpen
<1>8. FilesNamed'
  <2>1. single_pass_compression' = single_pass_compression
    BY <1>4 DEF single_pass_compression
  <2>2. QED BY <1>2, <1>4, <1>6, <2>1, Zenon DEF FilesNamed
<1>9. HeaderKept'
  BY <1>2, NotDecoded
<1>10. (stage' = "header" /\ opt.cmdmode = "compress") \/ stage' = "decompress"
  BY <1>5
<1>11. QED BY <1>2, <1>4, <1>6, <1>7, <1>8, <1>9, <1>10, Zenon DEF OptionsInv

LEMMA HeaderWritten == OptionsInv /\ WriteHeader => OptionsInv'
<1>1. SUFFICES ASSUME OptionsInv, WriteHeader PROVE OptionsInv'
  OBVIOUS
<1>2. /\ Settings(opt) /\ args \in Seq(Words) /\ par.round \in BOOLEAN /\ dec = Nothing
      /\ opt' = opt /\ args' = args /\ par' = par /\ dec' = dec
      /\ stage' = "decoder" /\ header' = <<HeaderWord, IF opt.format = "io" THEN par.BASE_LEN ELSE 0>>
  BY <1>1 DEF OptionsInv, WriteHeader, command
<1>3. HeaderWord' = HeaderWord
  BY <1>2 DEF HeaderWord, FormatVersion, hash
<1>4. HeaderKept'
  BY <1>2, NotDecoded
<1>5. QED BY <1>2, <1>3, <1>4, Zenon DEF OptionsInv

\* Everything else leaves the settings and what the decoder knows alone
LEMMA OptionsDone ==
  OptionsInv /\ (ParseEnds \/ OpenFails \/ FindInDictionary \/ FindChunk \/ FindCdcChunk \/ EncodeMatch \/ ReadMatch)
    => OptionsInv'
<1>1. SUFFICES ASSUME OptionsInv, ParseEnds \/ OpenFails \/ FindInDictionary \/ FindChunk \/ FindCdcChunk \/ EncodeMatch
                                    \/ ReadMatch
               PROVE  OptionsInv'
  OBVIOUS
<1>2. Settings(opt) /\ args \in Seq(Words) /\ HeaderKept
  BY <1>1 DEF OptionsInv
<1>3. UNCHANGED <<opt, args, par, dec, check, header>>
  BY <1>1 DEF ParseEnds, OpenFails, FindInDictionary, FindChunk, FindCdcChunk, EncodeMatch, ReadMatch, command
<1>4. \/ stage' = "options" /\ dec = Nothing
      \/ stage' \in {"encode", "read", "done", "error"}
  BY <1>1 DEF OptionsInv, ParseEnds, OpenFails, FindInDictionary, FindChunk, FindCdcChunk, EncodeMatch, ReadMatch
<1>5. HeaderKept'
  BY <1>2, <1>3, StaysKept
<1>6. QED BY <1>2, <1>3, <1>4, <1>5, Zenon DEF OptionsInv

LEMMA HeaderTaken == OptionsInv /\ ReadHeader => OptionsInv'
<1>1. SUFFICES ASSUME OptionsInv, ReadHeader PROVE OptionsInv'
  OBVIOUS
<1>2. /\ Settings(opt) /\ args \in Seq(Words) /\ par.round \in BOOLEAN
      /\ opt' = opt /\ args' = args /\ stage' = "search"
      /\ header = <<HeaderWord, IF opt.format = "io" THEN par.BASE_LEN ELSE 0>>
  BY <1>1, Zenon DEF OptionsInv, ReadHeader, command
<1>3. HeaderKept'
  BY <1>1, <1>2, HeaderIsKept
<1>4. QED BY <1>2, <1>3, Zenon DEF OptionsInv

LEMMA OptionsStep == OptionsInv /\ [Next]_vars => OptionsInv'
<1>1. SUFFICES ASSUME OptionsInv, [Next]_vars PROVE OptionsInv'
  OBVIOUS
<1>2. CASE UNCHANGED vars
  <2>1. UNCHANGED <<opt, args, par, dec, check, header, files, stage>>
    BY <1>2 DEF vars, command
  <2>2. HeaderKept'
    BY <1>1, <2>1, StaysKept DEF OptionsInv
  <2>3. /\ ToOpen' = ToOpen /\ HeaderWord' = HeaderWord /\ (FilesNamed' <=> FilesNamed)
    BY <2>1, Zenon DEF ToOpen, HeaderWord, FormatVersion, hash, FilesNamed, single_pass_compression
  <2>4. QED BY <1>1, <2>1, <2>2, <2>3, Zenon DEF OptionsInv
<1>3. CASE Next
  BY <1>1, <1>3, OptionsParsed, LengthsDerived, FilesGetNames, FilesOpened, HeaderWritten, HeaderTaken, OptionsDone, Zenon
     DEF Next
<1>4. QED BY <1>1, <1>2, <1>3

\* The parts side by side
LEMMA OptionsStart == AgreementInit => OptionsInv
<1>1. OptionsIdle => OptionsInv
  <2>1. SUFFICES ASSUME OptionsIdle PROVE OptionsInv
    OBVIOUS
  <2>2. /\ args = <<>> /\ opt = Defaults /\ dec = Nothing /\ stage = "idle"
    BY <2>1, Zenon DEF OptionsIdle
  <2>3. Settings(opt)
    BY <2>2, DefaultSettings, Zenon
  <2>4. args \in Seq(Words)
    BY <2>2
  <2>5. HeaderKept
    BY <2>2 DEF HeaderKept, Nothing
  <2>6. QED BY <2>2, <2>3, <2>4, <2>5 DEF OptionsInv
<1>2. AgreementInit => Init \/ OptionsIdle
  BY Zenon DEF AgreementInit
<1>3. QED BY <1>1, <1>2, OptionsInitial

LEMMA OptionsKept == OptionsInv /\ [AgreementNext]_<<vars, hashVars, tableVars, chunkVars>> => OptionsInv'
<1>1. AgreementNext => [Next]_vars
  BY DEF AgreementNext
<1>2. QED BY <1>1, OptionsStep, Zenon

\* The archive header tells the decoder what the encoder used, for any options: the format, the lengths
\* of the matches and the function and the sizes of the checksums survive the packing into bytes
THEOREM HeaderStaysKept == AgreementSpec => []HeaderKept
<1>1. OptionsInv => HeaderKept
  BY DEF OptionsInv
<1>2. QED BY <1>1, OptionsStart, OptionsKept, PTL DEF AgreementSpec

\* Four files in a row
LEMMA FourThings ==
  ASSUME NEW a, NEW b, NEW c, NEW d
  PROVE  <<a, b, c>> \o <<d>> = <<a, b, c, d>>
<1>1. PICK S : S = {a, b, c, d}
  OBVIOUS
<1>2. PICK s : s = <<a, b, c>>
  OBVIOUS
<1>3. PICK t : t = <<d>>
  OBVIOUS
<1>4. s \in Seq(S) /\ t \in Seq(S) /\ Len(s) = 3 /\ Len(t) = 1
  BY <1>1, <1>2, <1>3
<1>5. PICK u : u = s \o t
  OBVIOUS
<1>6. u \in Seq(S) /\ Len(u) = 4 /\ \A i \in 1 .. 4 : u[i] = IF i <= 3 THEN s[i] ELSE t[i - 3]
  <2>1. u \in Seq(S) /\ Len(u) = Len(s) + Len(t)
        /\ \A i \in 1 .. Len(s) + Len(t) : u[i] = IF i <= Len(s) THEN s[i] ELSE t[i - Len(s)]
    BY <1>4, <1>5, ConcatProperties, Zenon
  <2>2. QED BY <1>4, <2>1
<1>7. u[1] = a /\ u[2] = b /\ u[3] = c /\ u[4] = d
  BY <1>2, <1>3, <1>6
<1>8. u = <<a, b, c, d>>
  BY <1>6, <1>7
<1>9. QED BY <1>2, <1>3, <1>5, <1>8, Zenon

\* What is opened to compress: the input, the output, the index and the copy of the input
LEMMA OpenedFiles ==
  ASSUME opt.cmdmode = "compress"
  PROVE  \E fstat, ftemp :
           /\ ToOpen = <<Opened("fin", files.in, "rb"), Opened("fout", files.out, "w+b"), fstat, ftemp>>
           /\ fstat.name \in {opt.index_file, files.out}
           /\ IF files.temp # NoName THEN ftemp.name = files.temp /\ ftemp.mode = "w+b"
              ELSE ftemp.name = files.in /\ ftemp.mode = "rb"
<1> DEFINE fin   == Opened("fin", files.in, "rb")
           fout  == Opened("fout", files.out, "w+b")
           fstat == IF opt.index_file # NoName THEN Opened("fstat", opt.index_file, "wb") ELSE [fout EXCEPT !.file = "fstat"]
           ftemp == IF files.temp # NoName THEN Opened("ftemp", files.temp, "w+b") ELSE [fin EXCEPT !.file = "ftemp"]
<1>1. ToOpen = <<fin, fout, fstat>> \o <<ftemp>>
  BY Zenon DEF ToOpen, NoName
<1>2. fstat.name \in {opt.index_file, files.out}
  BY DEF Opened
<1>3. IF files.temp # NoName THEN ftemp.name = files.temp /\ ftemp.mode = "w+b"
      ELSE ftemp.name = files.in /\ ftemp.mode = "rb"
  BY DEF Opened
<1> HIDE DEF fstat, ftemp
<1>4. <<fin, fout, fstat>> \o <<ftemp>> = <<fin, fout, fstat, ftemp>>
  BY FourThings
<1>5. QED BY <1>1, <1>2, <1>3, <1>4, Zenon

\* What is read a second time is a file that can be, and opening the others has not emptied it, for any
\* command line: NameFiles asks for a copy of stdin exactly where ToOpen would else go back to it
THEOREM InputStaysRereadable == AgreementSpec => []InputRereadable
<1>1. OptionsInv => InputRereadable
  <2>1. SUFFICES ASSUME OptionsInv, stage = "header" PROVE InputRereadable
    BY DEF InputRereadable
  <2>2. Settings(opt) /\ FilesNamed /\ files.opened = ToOpen /\ opt.cmdmode = "compress"
    BY <2>1, Zenon DEF OptionsInv
  <2>3. PICK fstat, ftemp :
           /\ ToOpen = <<Opened("fin", files.in, "rb"), Opened("fout", files.out, "w+b"), fstat, ftemp>>
           /\ fstat.name \in {opt.index_file, files.out}
           /\ IF files.temp # NoName THEN ftemp.name = files.temp /\ ftemp.mode = "w+b"
              ELSE ftemp.name = files.in /\ ftemp.mode = "rb"
    BY <2>2, OpenedFiles
  <2>4. /\ DOMAIN files.opened = 1 .. 4
        /\ files.opened[1].mode = "rb" /\ files.opened[2].name = files.out
        /\ files.opened[3] = fstat /\ files.opened[4] = ftemp
    BY <2>2, <2>3 DEF Opened
  <2>5. opt.method > 3 \/ opt.format = "future" => ftemp.name # Stdio \/ ftemp.mode = "w+b"
    <3>1. SUFFICES ASSUME opt.method > 3 \/ opt.format = "future" PROVE ftemp.name # Stdio \/ ftemp.mode = "w+b"
      OBVIOUS
    <3>2. ~single_pass_compression
      BY <2>2, <3>1 DEF Settings, single_pass_compression
    <3>3. files.in = Stdio => files.temp # NoName
      BY <2>2, <3>2, Zenon DEF FilesNamed
    <3>4. QED BY <2>3, <3>3, Zenon
  <2>6. ftemp.name = files.in \/ (ftemp.name = files.temp /\ ftemp.mode = "w+b")
    BY <2>3, Zenon
  <2>7. ASSUME NEW k \in DOMAIN files.opened, files.opened[k].mode \in {"wb", "w+b"},
               files.opened[k].name \notin {opt.index_file, files.temp}
        PROVE  files.opened[k].name # files.in \/ files.in = Stdio
    <3>1. files.in # files.out \/ files.in = Stdio
      BY <2>2, Zenon DEF FilesNamed
    <3>2. k = 1 \/ k = 2 \/ k = 3 \/ k = 4
      BY <2>4, <2>7
    <3>3. CASE k = 1
      BY <2>4, <2>7, <3>3
    <3>4. CASE k = 2
      BY <2>4, <3>1, <3>4
    <3>5. CASE k = 3
      BY <2>3, <2>4, <2>7, <3>1, <3>5
    <3>6. CASE k = 4
      <4>1. ftemp.mode \in {"wb", "w+b"} /\ ftemp.name # files.temp
        BY <2>4, <2>7, <3>6
      <4>2. ftemp.mode = "rb"
        BY <2>3, <4>1, Zenon
      <4>3. QED BY <4>1, <4>2
    <3>7. QED BY <3>2, <3>3, <3>4, <3>5, <3>6
  <2>8. QED BY <2>4, <2>5, <2>6, <2>7, Zenon DEF InputRereadable
<1>2. QED BY <1>1, OptionsStart, OptionsKept, PTL DEF AgreementSpec

-----------------------------------------------------------------------------
(* A match, from the compressor that finds it to the reader of its record.   *)

\* A small number is stored as it is
LEMMA StatFits ==
  ASSUME NEW a \in 0 .. StatValues - 1
  PROVE  AsStat(a) = a
BY CodecAssumption DEF AsStat

\* The numbers of a match fit into a record, of whole units if it is rounded
MatchFits(round, B, pos, dest, src, len) ==
  /\ round \in BOOLEAN /\ B \in Nat /\ B >= 1 /\ pos \in Nat /\ dest \in Nat /\ src \in Nat
  /\ len \in 0 .. StatValues - 1 /\ len >= B /\ dest - pos \in 0 .. StatValues - 1 /\ src <= dest
  /\ IF round THEN src % B = 0 /\ len % B = 0 /\ dest - src <= StatValues * B - 1
              ELSE dest - src <= StatValues * StatValues - 1

\* A record is read as it was written
Reads(round, B, pos, dest, src, len) ==
  Decode(FALSE, round, B, pos, Encode(round, B, dest - pos, dest - src, len))
    = [lit |-> dest - pos, len |-> len, src |-> src, dest |-> dest]

LEMMA RecordRead ==
  ASSUME NEW round, NEW B, NEW pos, NEW dest, NEW src, NEW len, MatchFits(round, B, pos, dest, src, len)
  PROVE  Reads(round, B, pos, dest, src, len)
<1>1. /\ StatValues \in Nat /\ StatValues >= 1 /\ round \in BOOLEAN
      /\ B \in Nat /\ B >= 1 /\ pos \in Nat /\ dest \in Nat /\ src \in Nat /\ src <= dest
      /\ len \in 0 .. StatValues - 1 /\ len >= B /\ dest - pos \in 0 .. StatValues - 1
  BY CodecAssumption DEF MatchFits
<1>2. CASE round = FALSE
  <2>1. PICK a : a = dest - src
    OBVIOUS
  <2>2. a \in 0 .. StatValues * StatValues - 1
    <3>1. a \in Nat /\ a <= StatValues * StatValues - 1
      BY <1>1, <1>2, <2>1 DEF MatchFits
    <3>2. QED BY <1>1, <3>1
  <2>3. PICK low, high : low = AsStat(a) /\ high = AsStat(a \div StatValues)
    OBVIOUS
  <2>4. low + high * StatValues = a
    BY <1>1, <2>2, <2>3, WordPair DEF AsStat
  <2>5. PICK s : s = <<dest - pos, low, high, len - B>>
    OBVIOUS
  <2>6. Encode(round, B, dest - pos, dest - src, len) = s
    <3>1. len - B \in 0 .. StatValues - 1 /\ (len - B) \div 1 = len - B /\ a \div 1 = a
      BY <1>1, <2>2
    <3>2. QED BY <1>1, <1>2, <2>1, <2>3, <2>5, <3>1, StatFits DEF Encode, Unit
  <2>7. s[1] = dest - pos /\ s[2] = low /\ s[3] = high /\ s[4] = len - B
    BY <2>5
  <2>8. AsStat(s[4] * 1 + B) = len
    <3>1. s[4] * 1 + B = len
      BY <1>1, <2>7
    <3>2. QED BY <1>1, <3>1, StatFits
  <2>9. (s[2] + s[3] * StatValues) * 1 = a /\ pos + s[1] = dest /\ dest \div 1 = dest /\ dest * 1 - a = src
    BY <1>1, <2>1, <2>4, <2>7
  <2>10. QED BY <1>2, <2>6, <2>7, <2>8, <2>9 DEF Reads, Decode, Unit, StatsPerMatch
<1>3. CASE round = TRUE
  <2>1. PICK m, u, q : m = (len - B) \div B /\ u = (dest - src) \div B /\ q = dest \div B
    OBVIOUS
  <2>2. UnitsFit(StatValues, B, dest, src, len)
    BY <1>1, <1>3 DEF MatchFits, UnitsFit
  <2>3. m \in 0 .. StatValues - 1 /\ m * B + B = len /\ u \in 0 .. StatValues - 1 /\ q * B - u * B = src
    <3>1. /\ (len - B) \div B \in 0 .. StatValues - 1 /\ ((len - B) \div B) * B + B = len
          /\ (dest - src) \div B \in 0 .. StatValues - 1
          /\ (dest \div B) * B - ((dest - src) \div B) * B = src
      BY ONLY <2>2, RoundedUnits
    <3>2. QED BY <2>1, <3>1, Zenon
  <2>4. PICK s : s = <<dest - pos, u, m>>
    OBVIOUS
  <2>5. Encode(round, B, dest - pos, dest - src, len) = s
    <3>1. AsStat(dest - pos) = dest - pos /\ AsStat(u) = u /\ AsStat(m) = m
      BY <1>1, <2>3, StatFits
    <3>2. QED BY <1>3, <2>1, <2>4, <3>1, Zenon DEF Encode, Unit
  <2>6. s[1] = dest - pos /\ s[2] = u /\ s[3] = m
    BY <2>4
  <2>7. AsStat(s[3] * B + B) = len
    BY <1>1, <2>3, <2>6, StatFits
  <2>8. pos + s[1] = dest
    BY <1>1, <2>6
  <2>9. Decode(FALSE, round, B, pos, s) = [lit |-> s[1], len |-> len, src |-> q * B - u * B, dest |-> dest]
    BY <1>3, <2>1, <2>6, <2>7, <2>8 DEF Reads, Decode, Unit, StatsPerMatch
  <2>10. QED BY <2>3, <2>5, <2>6, <2>9 DEF Reads
<1>4. QED BY <1>1, <1>2, <1>3

\* The lengths as they were derived
Derived ==
  /\ par.BASE_LEN = Min({par.min_match, par.dict_min_match})
  /\ par.round = (opt.method = 3 /\ ~par.dict)

\* The base length the match is written with is the one it is read with, and the match can be written
Writable ==
  /\ WriterBase = par.BASE_LEN
  /\ MatchFits(par.round, par.BASE_LEN, match.pos, match.dest, match.src, match.len)

LengthInv ==
  /\ stage \in {"names", "open", "header", "decoder", "search", "encode", "read"} => par # Nothing /\ Derived
  /\ stage \in {"search", "encode", "read"} => dec # Nothing
  /\ stage \notin {"encode", "read", "done", "error"} => match = Nothing
  /\ stage = "error" /\ LengthsFit => match = Nothing
  /\ stage \in {"encode", "read"} /\ LengthsFit => Writable
  /\ stage = "read" /\ LengthsFit =>
       words = Encode(par.round, par.BASE_LEN, match.dest - match.pos, match.dest - match.src, match.len)
  /\ LengthsFit => ReadBack

\* Before anything is derived
LEMMA LengthsInitial == Init \/ OptionsIdle => LengthInv
BY DEF Init, OptionsIdle, LengthInv, ReadBack

\* While there is no match yet
LEMMA NoMatchYet ==
  ASSUME LengthInv, match' = match, stage \notin {"encode", "read", "done", "error"}, stage' \notin {"encode", "read", "done"},
         stage' = "search" => dec' # Nothing,
         stage' \in {"names", "open", "header", "decoder", "search"} => par' # Nothing /\ Derived'
  PROVE  LengthInv'
<1>1. match' = Nothing
  BY DEF LengthInv
<1>2. QED BY <1>1 DEF LengthInv, ReadBack

\* The shortest length is at least 1, and a match as long as any of the two can be written
LEMMA BaseIs ==
  ASSUME par # Nothing, Derived, LengthsFit
  PROVE  /\ par.BASE_LEN \in Nat /\ par.BASE_LEN >= 1
         /\ par.BASE_LEN <= par.min_match /\ par.BASE_LEN <= par.dict_min_match
         /\ par.L \in Nat /\ par.L >= 1 /\ par.min_match \in Nat /\ par.dict_min_match \in Nat
<1>1. par.L \in Nat \ {0} /\ par.min_match \in Nat \ {0} /\ par.dict_min_match \in Nat \ {0}
  BY DEF LengthsFit
<1>2. PICK a, b : a = par.min_match /\ b = par.dict_min_match
  OBVIOUS
<1>3. Min({a, b}) = IF a <= b THEN a ELSE b
  BY <1>1, <1>2, Min2
<1>4. QED BY <1>1, <1>2, <1>3 DEF Derived

\* The positions explored are those of the second block
LEMMA Positioned ==
  ASSUME NEW p \in Positions
  PROVE  p \in Nat /\ p >= BlockSize /\ p <= 2 * BlockSize - 1 /\ BlockSize \in Nat /\ BlockSize >= 1 /\ BlockSize < StatValues
         /\ StatValues \in Nat
BY OptionsAssumption, CodecAssumption DEF Positions

\* What is behind the start of the literals and ends in the block fits
LEMMA PlainFits ==
  ASSUME NEW B \in Nat, B >= 1, NEW pos \in Positions, NEW dest \in Nat, NEW src \in Nat, NEW len \in 1 .. BlockSize,
         pos <= dest, src <= dest, dest + len <= 2 * BlockSize, len >= B
  PROVE  MatchFits(FALSE, B, pos, dest, src, len)
<1>1. /\ pos \in Nat /\ pos >= BlockSize /\ BlockSize \in Nat /\ BlockSize >= 1 /\ BlockSize < StatValues /\ StatValues \in Nat
  BY Positioned
<1>2. len \in 0 .. StatValues - 1 /\ dest - pos \in 0 .. StatValues - 1 /\ dest - src <= 2 * BlockSize - 1
  BY <1>1
<1>3. 2 * BlockSize <= StatValues * StatValues
  <2>1. StatValues >= 2 /\ StatValues - 2 \in Nat
    BY <1>1
  <2>2. (StatValues - 2) * StatValues \in Nat /\ StatValues * StatValues = (StatValues - 2) * StatValues + 2 * StatValues
    BY <1>1, <2>1
  <2>3. QED BY <1>1, <2>2
<1>4. StatValues * StatValues \in Nat
  BY <1>1
<1>5. dest - src <= StatValues * StatValues - 1
  BY <1>2, <1>3, <1>4, <1>1
<1>6. QED BY <1>1, <1>2, <1>5 DEF MatchFits

\* The three compressors: what they find can be written and read
LEMMA DictionaryFits == OptionsInv /\ LengthInv /\ FindInDictionary => LengthInv'
<1>1. SUFFICES ASSUME OptionsInv, LengthInv, FindInDictionary PROVE LengthInv'
  OBVIOUS
<1>2. PICK pos \in Positions, dest \in Positions, src \in 0 .. 2 * BlockSize - 2, len \in 1 .. BlockSize :
        /\ pos <= dest /\ src < dest /\ dest + len <= 2 * BlockSize
        /\ len >= IF InMemory THEN par.dict_min_match ELSE par.BASE_LEN
        /\ match' = Match("dictionary", pos, dest, src, len)
  BY <1>1, Zenon DEF FindInDictionary
<1>3. /\ stage = "search" /\ par.dict /\ stage' = "encode" /\ opt' = opt /\ par' = par /\ dec' = dec
  BY <1>1 DEF FindInDictionary, command
<1>4. par # Nothing /\ Derived /\ dec # Nothing
  BY <1>1, <1>3, Zenon DEF LengthInv
<1>5. Derived' /\ LengthsFit' = LengthsFit
  BY <1>3, <1>4 DEF Derived, LengthsFit, CDC, CdcMinMatch
<1>6. /\ match'.by = "dictionary" /\ match'.pos = pos /\ match'.dest = dest /\ match'.src = src /\ match'.len = len
  BY <1>2 DEF Match
<1>7. ASSUME LengthsFit PROVE Writable'
  <2>1. /\ par.BASE_LEN \in Nat /\ par.BASE_LEN >= 1 /\ par.BASE_LEN <= par.dict_min_match /\ par.dict_min_match \in Nat
    BY <1>4, <1>7, BaseIs
  <2>2. len >= par.BASE_LEN
    BY <1>2, <2>1
  <2>3. /\ dest \in Nat /\ BlockSize \in Nat
    BY Positioned
  <2>4. src \in Nat /\ src <= dest
    BY <1>2, <2>3
  <2>5. MatchFits(FALSE, par.BASE_LEN, pos, dest, src, len)
    BY <1>2, <2>1, <2>2, <2>3, <2>4, PlainFits
  <2>6. par.round = FALSE
    BY <1>3, <1>4 DEF Derived
  <2>7. WriterBase' = par'.BASE_LEN
    BY <1>6 DEF WriterBase
  <2>8. QED BY <1>3, <1>6, <2>5, <2>6, <2>7, Zenon DEF Writable
<1>8. LengthsFit => ReadBack'
  BY <1>3 DEF ReadBack
<1>9. QED BY <1>3, <1>4, <1>5, <1>7, <1>8 DEF LengthInv

LEMMA CdcFits == OptionsInv /\ LengthInv /\ FindCdcChunk => LengthInv'
<1>1. SUFFICES ASSUME OptionsInv, LengthInv, FindCdcChunk PROVE LengthInv'
  OBVIOUS
<1>2. PICK pos \in Positions, dest \in Positions, src \in 0 .. 2 * BlockSize - 2, len \in 1 .. BlockSize :
        /\ pos <= dest /\ src < dest /\ dest + len <= 2 * BlockSize /\ len >= CdcMinMatch
        /\ match' = Match("cdc", pos, dest, src, len)
  BY <1>1, Zenon DEF FindCdcChunk
<1>3. /\ stage = "search" /\ CDC /\ stage' = "encode" /\ opt' = opt /\ par' = par /\ dec' = dec
  BY <1>1 DEF FindCdcChunk, command
<1>4. par # Nothing /\ Derived /\ dec # Nothing
  BY <1>1, <1>3, Zenon DEF LengthInv
<1>5. Derived' /\ LengthsFit' = LengthsFit /\ CdcMinMatch' = CdcMinMatch
  BY <1>3, <1>4 DEF Derived, LengthsFit, CDC, CdcMinMatch
<1>6. /\ match'.by = "cdc" /\ match'.pos = pos /\ match'.dest = dest /\ match'.src = src /\ match'.len = len
  BY <1>2 DEF Match
<1>7. ASSUME LengthsFit PROVE Writable'
  <2>1. par.BASE_LEN \in Nat /\ par.BASE_LEN >= 1
    BY <1>4, <1>7, BaseIs
  <2>2. CdcMinMatch = par.BASE_LEN
    BY <1>3, <1>4, <1>7, Zenon DEF LengthsFit
  <2>3. /\ dest \in Nat /\ BlockSize \in Nat
    BY Positioned
  <2>4. src \in Nat /\ src <= dest /\ len >= par.BASE_LEN
    BY <1>2, <2>2, <2>3
  <2>5. MatchFits(FALSE, par.BASE_LEN, pos, dest, src, len)
    BY <1>2, <2>1, <2>3, <2>4, PlainFits
  <2>6. par.round = FALSE
    <3>1. opt.method # 3
      BY <1>3 DEF CDC
    <3>2. QED BY <1>4, <3>1, Zenon DEF Derived
  <2>7. WriterBase' = par'.BASE_LEN
    BY <1>3, <1>5, <1>6, <2>2 DEF WriterBase
  <2>8. QED BY <1>3, <1>6, <2>5, <2>6, <2>7, Zenon DEF Writable
<1>8. LengthsFit => ReadBack'
  BY <1>3 DEF ReadBack
<1>9. QED BY <1>3, <1>4, <1>5, <1>7, <1>8 DEF LengthInv

\* Whole chunks are whole units
LEMMA WholeChunks ==
  ASSUME NEW B \in Nat, B >= 1, NEW L \in Nat, L >= 1, L % B = 0, NEW k \in Nat, NEW len \in Nat, len >= L
  PROVE  \E w \in Nat : /\ w = (len \div L) * L /\ w % B = 0 /\ w >= B /\ w <= len
                       /\ k * L \in Nat /\ (k * L) % B = 0
<1>1. PICK q \in Int, r \in 0 .. L - 1 : q = len \div L /\ len = L * q + r
  BY DivMod
<1>2. q >= 1
  <2>1. SUFFICES ASSUME q <= 0 PROVE FALSE
    BY <1>1
  <2>2. L * q <= 0
    BY <2>1
  <2>3. QED BY <1>1, <2>2
<1>3. PICK w : w = q * L
  OBVIOUS
<1>4. w = (len \div L) * L
  BY <1>1, <1>3
<1>5. w \in Nat /\ w >= L /\ w = L * q
  BY <1>2, <1>3
<1>6. w <= len
  BY <1>1, <1>5
<1>7. w % L = 0 /\ (k * L) % L = 0 /\ k * L \in Nat
  BY <1>3, Multiple
<1>8. w % B = 0 /\ (k * L) % B = 0
  <2>1. w \in Int /\ k * L \in Int
    BY <1>5, <1>7
  <2>2. QED BY <1>7, <2>1, MultipleOf, Zenon
<1>9. L >= B
  <2>1. PICK t \in Int : L = B * t
    BY MultipleIs
  <2>2. t >= 1
    <3>1. SUFFICES ASSUME t <= 0 PROVE FALSE
      OBVIOUS
    <3>2. B * t <= 0
      BY <3>1
    <3>3. QED BY <2>1, <3>2
  <2>3. B * t >= B
    BY <2>2
  <2>4. QED BY <2>1, <2>3
<1>10. QED BY <1>4, <1>5, <1>6, <1>7, <1>8, <1>9

LEMMA ChunkFits == OptionsInv /\ LengthInv /\ FindChunk => LengthInv'
<1>1. SUFFICES ASSUME OptionsInv, LengthInv, FindChunk PROVE LengthInv'
  OBVIOUS
<1>2. PICK pos \in Positions, i \in Positions, k \in 1 .. 2 * BlockSize, len \in 1 .. BlockSize,
           add_len \in IF opt.method = 3 THEN {0} ELSE {0, 1} :
        /\ pos <= i - add_len /\ k * par.L < i /\ k * par.L - add_len >= 0
        /\ i - add_len + len <= 2 * BlockSize /\ len >= par.min_match
        /\ opt.method = 3 => len >= par.L
        /\ match' = Match("chunk", pos, i - add_len, k * par.L - add_len,
                          IF par.round THEN (len \div par.L) * par.L ELSE len)
  BY <1>1, Zenon DEF FindChunk
<1>3. /\ stage = "search" /\ opt.method \in 3 .. 5 /\ stage' = "encode" /\ opt' = opt /\ par' = par /\ dec' = dec
  BY <1>1 DEF FindChunk, command
<1>4. par # Nothing /\ Derived /\ dec # Nothing
  BY <1>1, <1>3, Zenon DEF LengthInv
<1>5. Derived' /\ LengthsFit' = LengthsFit
  BY <1>3, <1>4 DEF Derived, LengthsFit, CDC, CdcMinMatch
<1>6. PICK dest, src, size : /\ dest = i - add_len /\ src = k * par.L - add_len
                             /\ size = IF par.round THEN (len \div par.L) * par.L ELSE len
  OBVIOUS
<1>7. match'.by = "chunk" /\ match'.pos = pos /\ match'.dest = dest /\ match'.src = src /\ match'.len = size
  BY <1>2, <1>6 DEF Match
<1>8. ASSUME LengthsFit PROVE Writable'
  <2>1. PICK B, L \in Nat : /\ B = par.BASE_LEN /\ L = par.L /\ L >= 1 /\ B \in Nat /\ B >= 1
                           /\ B <= par.min_match /\ par.min_match \in Nat
    BY <1>4, <1>8, BaseIs
  <2>2. /\ i \in Nat /\ i >= BlockSize /\ BlockSize \in Nat /\ BlockSize >= 1 /\ BlockSize < StatValues /\ StatValues \in Nat
        /\ pos \in Nat /\ pos >= BlockSize
    BY Positioned
  <2>3. PICK a \in 0 .. 1 : a = add_len
    BY <1>2
  <2>4. k * L \in Nat
    OBVIOUS
  <2>5. dest \in Nat /\ src \in Nat /\ src <= dest /\ pos <= dest /\ dest + len <= 2 * BlockSize /\ len >= B
    BY <1>2, <1>6, <2>1, <2>2, <2>3, <2>4
  <2>6. MatchFits(par.round, B, pos, dest, src, size)
    <3>1. CASE par.round = FALSE
      <4>1. size = len
        BY <1>6, <3>1
      <4>2. MatchFits(FALSE, B, pos, dest, src, len)
        BY <2>1, <2>5, PlainFits
      <4>3. QED BY <3>1, <4>1, <4>2
    <3>2. CASE par.round = TRUE
      <4>1. opt.method = 3 /\ add_len = 0 /\ len >= L
        <5>1. opt.method = 3
          BY <1>4, <3>2, Zenon DEF Derived
        <5>2. QED BY <1>2, <2>1, <5>1
      <4>2. L % B = 0 /\ 2 * BlockSize <= StatValues * B
        BY <1>4, <1>8, <2>1, <3>2, Zenon DEF LengthsFit
      <4>3. PICK w \in Nat : /\ w = (len \div L) * L /\ w % B = 0 /\ w >= B /\ w <= len
                            /\ k * L \in Nat /\ (k * L) % B = 0
        <5>1. k \in Nat /\ len \in Nat
          OBVIOUS
        <5>2. QED BY <2>1, <4>1, <4>2, <5>1, WholeChunks, Zenon
      <4>4. size = w
        BY <1>6, <2>1, <3>2, <4>3, Zenon
      <4>5. src = k * L
        BY <1>6, <2>1, <2>4, <4>1
      <4>6. w \in 0 .. StatValues - 1 /\ dest - pos \in 0 .. StatValues - 1
        BY <2>2, <2>5, <4>3
      <4>7. dest - src <= StatValues * B - 1
        <5>1. PICK z \in Nat : z = StatValues * B
          BY <2>1, <2>2
        <5>2. dest - src <= z - 1
          BY <2>2, <2>5, <4>2, <5>1
        <5>3. QED BY <5>1, <5>2
      <4>8. QED BY <2>1, <2>2, <2>5, <3>2, <4>3, <4>4, <4>5, <4>6, <4>7 DEF MatchFits
    <3>3. par.round \in BOOLEAN
      BY <1>4, Zenon DEF Derived
    <3>4. QED BY <3>1, <3>2, <3>3
  <2>7. WriterBase' = par'.BASE_LEN
    BY <1>7 DEF WriterBase
  <2>8. QED BY <1>3, <1>7, <2>1, <2>6, <2>7, Zenon DEF Writable
<1>9. LengthsFit => ReadBack'
  BY <1>3 DEF ReadBack
<1>10. QED BY <1>3, <1>4, <1>5, <1>8, <1>9 DEF LengthInv

\* ENCODE_LZ_MATCH accepts it, and DECODE_LZ_MATCH gives it back
LEMMA MatchWritten == OptionsInv /\ LengthInv /\ EncodeMatch => LengthInv'
<1>1. SUFFICES ASSUME OptionsInv, LengthInv, EncodeMatch PROVE LengthInv'
  OBVIOUS
<1>2. stage = "encode" /\ opt' = opt /\ par' = par /\ dec' = dec /\ match' = match
  BY <1>1 DEF EncodeMatch, command
<1>3. par # Nothing /\ Derived /\ dec # Nothing /\ (LengthsFit => Writable)
  BY <1>1, <1>2, Zenon DEF LengthInv
<1>4. Derived' /\ (LengthsFit' <=> LengthsFit) /\ (Writable' <=> Writable)
  BY <1>2, <1>3 DEF Derived, LengthsFit, CDC, CdcMinMatch, Writable, WriterBase
<1>5. ASSUME LengthsFit
      PROVE  /\ stage' = "read"
             /\ words' = Encode(par.round, par.BASE_LEN, match.dest - match.pos, match.dest - match.src, match.len)
  <2>1. Writable
    BY <1>3, <1>5
  <2>2. CanEncode(WriterBase, match.len) /\ WriterBase = par.BASE_LEN
    BY <2>1 DEF Writable, MatchFits, CanEncode
  <2>3. QED BY <1>1, <2>2, Zenon DEF EncodeMatch
<1>6. stage' \in {"read", "error"}
  BY <1>1 DEF EncodeMatch
<1>7. QED BY <1>2, <1>3, <1>4, <1>5, <1>6 DEF LengthInv, ReadBack

LEMMA MatchRead == OptionsInv /\ LengthInv /\ ReadMatch => LengthInv'
<1>1. SUFFICES ASSUME OptionsInv, LengthInv, ReadMatch PROVE LengthInv'
  OBVIOUS
<1>2. stage = "read" /\ stage' = "done" /\ opt' = opt /\ par' = par /\ dec' = dec /\ match' = match
  BY <1>1 DEF ReadMatch, command
<1>3. par # Nothing /\ dec # Nothing /\ HeaderKept
  BY <1>1, <1>2, Zenon DEF LengthInv, OptionsInv
<1>4. LengthsFit' <=> LengthsFit
  BY <1>2 DEF LengthsFit, CDC, CdcMinMatch
<1>5. ASSUME LengthsFit PROVE ReadBack'
  <2>1. /\ MatchFits(par.round, par.BASE_LEN, match.pos, match.dest, match.src, match.len)
        /\ words = Encode(par.round, par.BASE_LEN, match.dest - match.pos, match.dest - match.src, match.len)
    BY <1>1, <1>2, <1>5, Zenon DEF LengthInv, Writable
  <2>2. PICK r : r = IF opt.format = "io" THEN dec ELSE par
    OBVIOUS
  <2>3. r.round = par.round /\ r.BASE_LEN = par.BASE_LEN
    BY <1>3, <2>2 DEF HeaderKept
  <2>4. found' = Decode(FALSE, r.round, r.BASE_LEN, match.pos, words)
    BY <1>1, <2>2, Zenon DEF ReadMatch
  <2>5. found' = Decode(FALSE, par.round, par.BASE_LEN, match.pos,
                   Encode(par.round, par.BASE_LEN, match.dest - match.pos, match.dest - match.src, match.len))
    BY <2>1, <2>3, <2>4, Zenon
  <2>6. Reads(par.round, par.BASE_LEN, match.pos, match.dest, match.src, match.len)
    BY <2>1, RecordRead, Zenon
  <2>7. QED BY <1>2, <2>5, <2>6, Zenon DEF Reads, ReadBack
<1>6. QED BY <1>2, <1>4, <1>5 DEF LengthInv

\* The steps before a match is found
LEMMA LengthsEarly ==
  OptionsInv /\ LengthInv /\ (ParseNext \/ ParseEnds \/ DeriveLengths \/ NameFiles \/ OpenFails \/ OpenFiles
                             \/ WriteHeader \/ ReadHeader) => LengthInv'
<1>1. ASSUME OptionsInv, LengthInv, ParseNext \/ ParseEnds \/ OpenFails PROVE LengthInv'
  <2>1. stage \in {"parse", "open"} /\ stage' \in {"parse", "error", "options"} /\ match' = match
    BY <1>1 DEF ParseNext, ParseEnds, OpenFails
  <2>2. QED BY <1>1, <2>1, NoMatchYet
<1>2. ASSUME OptionsInv, LengthInv, DeriveLengths PROVE LengthInv'
  <2>1. stage = "options" /\ opt' = opt /\ match' = match
    BY <1>2 DEF DeriveLengths, command
  <2>2. \/ stage' = "error"
        \/ stage' = "names" /\ par' # Nothing /\ Derived'
    <3>1. \/ stage' = "error"
          \/ /\ stage' = "names"
             /\ \E a, b, c, d : par' = [L |-> a, min_match |-> b, dict |-> c, dict_min_match |-> d,
                                       BASE_LEN |-> Min({b, d}), round |-> opt.method = 3 /\ ~c]
      BY <1>2, Zenon DEF DeriveLengths
    <3>2. CASE stage' # "error"
      <4>1. PICK a, b, c, d : par' = [L |-> a, min_match |-> b, dict |-> c, dict_min_match |-> d,
                                      BASE_LEN |-> Min({b, d}), round |-> opt.method = 3 /\ ~c]
        BY <3>1, <3>2
      <4>2. PICK e, f : e = Min({b, d}) /\ f = (opt.method = 3 /\ ~c)
        OBVIOUS
      <4>3. par' = [L |-> a, min_match |-> b, dict |-> c, dict_min_match |-> d, BASE_LEN |-> e, round |-> f]
        BY <4>1, <4>2, Zenon
      <4>4. par'.min_match = b /\ par'.dict_min_match = d /\ par'.dict = c /\ par'.BASE_LEN = e /\ par'.round = f
            /\ par' # Nothing
        BY <4>3 DEF Nothing
      <4>5. par'.BASE_LEN = Min({par'.min_match, par'.dict_min_match})
        BY <4>2, <4>4, Zenon
      <4>6. par'.round = (opt'.method = 3 /\ ~par'.dict)
        BY <2>1, <4>2, <4>4, Zenon
      <4>7. QED BY <3>1, <3>2, <4>4, <4>5, <4>6, Zenon DEF Derived
    <3>3. QED BY <3>2
  <2>3. QED BY <1>2, <2>1, <2>2, NoMatchYet
<1>3. ASSUME OptionsInv, LengthInv, NameFiles \/ OpenFiles \/ WriteHeader PROVE LengthInv'
  <2>1. /\ stage \in {"names", "open", "header"} /\ stage' \in {"usage", "error", "open", "header", "decompress", "decoder"}
        /\ par' = par /\ match' = match
    <3>1. NameFiles => stage = "names" /\ stage' \in {"usage", "error", "open"} /\ par' = par /\ match' = match
      BY Zenon DEF NameFiles
    <3>2. OpenFiles => stage = "open" /\ stage' \in {"header", "decompress"} /\ par' = par /\ match' = match
      <4>1. OpenFiles => /\ stage = "open" /\ UNCHANGED <<command, par, header, dec, match, words, found>>
                         /\ stage' = IF opt.cmdmode = "compress" THEN "header" ELSE "decompress"
        BY Zenon DEF OpenFiles
      <4>2. QED BY <4>1
    <3>3. WriteHeader => stage = "header" /\ stage' = "decoder" /\ par' = par /\ match' = match
      BY Zenon DEF WriteHeader
    <3>4. QED BY <1>3, <3>1, <3>2, <3>3
  <2>2. par # Nothing /\ Derived /\ Settings(opt)
    BY <1>3, <2>1 DEF LengthInv, OptionsInv
  <2>3. opt'.method = opt.method
    <3>1. "cmdmode" \in DOMAIN opt
      BY <2>2, Zenon DEF Settings, Defaults
    <3>2. CASE \E c : opt' = [opt EXCEPT !.cmdmode = c]
      BY <2>2, <3>1, <3>2 DEF Settings
    <3>3. CASE \E a, c, n, u : opt' = [opt EXCEPT !.accel = a, !.ACCELERATOR = c, !.NumThreads = n, !.use_mmap = u]
      BY <2>2, <3>3 DEF Settings
    <3>4. NameFiles => opt' = opt \/ \E c : opt' = [opt EXCEPT !.cmdmode = c]
      BY Zenon DEF NameFiles
    <3>5. OpenFiles => \E a, c, n, u : opt' = [opt EXCEPT !.accel = a, !.ACCELERATOR = c, !.NumThreads = n, !.use_mmap = u]
      <4> DEFINE a == DefaultAccel
                 c == IF opt.ACCELERATOR = 9000 THEN Min({DefaultAccel, 16}) ELSE opt.ACCELERATOR
                 n == IF opt.NumThreads = Unset THEN Processors ELSE opt.NumThreads
                 u == opt.use_mmap /\ (opt.cmdmode = "compress" => files.temp = NoName)
      <4>1. OpenFiles => opt' = [opt EXCEPT !.accel = a, !.ACCELERATOR = c, !.NumThreads = n, !.use_mmap = u]
        BY Zenon DEF OpenFiles, NoName
      <4> HIDE DEF a, c, n, u
      <4>2. QED BY <4>1, Zenon
    <3>6. WriteHeader => opt' = opt
      BY DEF WriteHeader
    <3>7. QED BY <1>3, <3>2, <3>3, <3>4, <3>5, <3>6, Zenon
  <2>4. Derived'
    BY <2>1, <2>2, <2>3, Zenon DEF Derived
  <2>5. QED BY <1>3, <2>1, <2>2, <2>4, NoMatchYet
<1>4. ASSUME OptionsInv, LengthInv, ReadHeader PROVE LengthInv'
  <2>1. stage = "decoder" /\ stage' = "search" /\ opt' = opt /\ par' = par /\ match' = match
    BY <1>4, Zenon DEF ReadHeader
  <2>2. par' # Nothing /\ Derived'
    BY <1>4, <2>1, Zenon DEF LengthInv, Derived
  <2>3. "format" \in DOMAIN dec'
    BY <1>4, Zenon DEF ReadHeader
  <2>4. dec' # Nothing
    BY <2>3 DEF Nothing
  <2>5. QED BY <1>4, <2>1, <2>2, <2>4, NoMatchYet
<1>5. QED BY <1>1, <1>2, <1>3, <1>4, Zenon

\* One step, whatever it is
LEMMA LengthsStep == OptionsInv /\ LengthInv /\ [Next]_vars => LengthInv'
<1>1. SUFFICES ASSUME OptionsInv, LengthInv, [Next]_vars PROVE LengthInv'
  OBVIOUS
<1>2. CASE UNCHANGED vars
  <2>1. UNCHANGED <<opt, par, dec, match, words, found, stage>>
    BY <1>2 DEF vars
  <2>2. /\ (Derived' <=> Derived) /\ (LengthsFit' <=> LengthsFit) /\ (Writable' <=> Writable) /\ (ReadBack' <=> ReadBack)
    BY <2>1, Zenon DEF Derived, LengthsFit, CDC, CdcMinMatch, Writable, WriterBase, ReadBack
  <2>3. QED BY <1>1, <2>1, <2>2, Zenon DEF LengthInv
<1>3. CASE Next
  BY <1>1, <1>3, LengthsEarly, DictionaryFits, ChunkFits, CdcFits, MatchWritten, MatchRead, Zenon DEF Next
<1>4. QED BY <1>1, <1>2, <1>3

\* Where the derived lengths fit the method, no compressor records a match that is too short to be written,
\* and the readers of its record get the match that was found, for any options: record_match, ENCODE_LZ_MATCH
\* and DECODE_LZ_MATCH
THEOREM LengthsStayAgreed == AgreementSpec => []LengthsAgree
<1>1. AgreementInit => LengthInv
  BY LengthsInitial, Zenon DEF AgreementInit
<1>2. OptionsInv /\ LengthInv /\ [AgreementNext]_<<vars, hashVars, tableVars, chunkVars>> => LengthInv'
  <2>1. AgreementNext => [Next]_vars
    BY DEF AgreementNext
  <2>2. QED BY <2>1, LengthsStep, Zenon
<1>3. LengthInv => LengthsAgree
  BY DEF LengthInv, LengthsAgree, EncodeAccepts
<1>4. QED BY <1>1, <1>2, <1>3, OptionsStart, OptionsKept, PTL DEF AgreementSpec

-----------------------------------------------------------------------------
(* Message digests.  First the words and paddings they are made of.          *)

\* A function on 1 .. n is the tuple it stands for
LEMMA TupleIs ==
  ASSUME NEW n \in Nat, NEW S, NEW f, f \in [1 .. n -> S]
  PROVE  Tuple(f) = f /\ f \in Seq(S) /\ Len(f) = n
<1>1. f \in Seq(S) /\ Len(f) = n
  OBVIOUS
<1>2. f \o <<>> = f
  BY <1>1, ConcatEmptySeq
<1>3. QED BY <1>1, <1>2 DEF Tuple

LEMMA ZerosIs ==
  ASSUME NEW n \in Nat
  PROVE  Zeros(n) \in Seq({0}) /\ Len(Zeros(n)) = n /\ \A i \in 1 .. n : Zeros(n)[i] = 0
<1> DEFINE f == [i \in 1 .. n |-> 0]
<1>1. f \in [1 .. n -> {0}] /\ \A i \in 1 .. n : f[i] = 0
  OBVIOUS
<1>2. Zeros(n) = Tuple(f)
  BY DEF Zeros
<1> HIDE DEF f
<1>3. QED BY <1>1, <1>2, TupleIs

\* The bytes of a number, and those of its length in bits
Part(k, i) == IF i <= 4 THEN (k \div 256^(i - 1)) % 256 ELSE 0
Parts(k) == {Part(k, i) : i \in 1 .. 16}

LEMMA WordIs ==
  ASSUME NEW k, NEW w \in {8, 16}
  PROVE  Word(k, w) \in Seq(Parts(k)) /\ Len(Word(k, w)) = w /\ \A i \in 1 .. w : Word(k, w)[i] = Part(k, i)
<1> DEFINE f == [i \in 1 .. w |-> Part(k, i)]
<1>1. f \in [1 .. w -> Parts(k)] /\ w \in Nat /\ \A i \in 1 .. w : f[i] = Part(k, i)
  <2>1. \A i \in 1 .. w : Part(k, i) \in Parts(k)
    BY DEF Parts
  <2>2. QED BY <2>1
<1>2. Word(k, w) = Tuple(f)
  BY DEF Word, Part
<1> HIDE DEF f
<1>3. Tuple(f) = f /\ f \in Seq(Parts(k)) /\ Len(f) = w
  BY <1>1, TupleIs
<1>4. QED BY <1>1, <1>2, <1>3

LEMMA PartIsZero == \A k : \A i \in 5 .. 16 : Part(k, i) = 0
BY DEF Part

LEMMA ReverseIs ==
  ASSUME NEW S, NEW x \in Seq(S)
  PROVE  Reverse8(x) \in Seq(S) /\ Len(Reverse8(x)) = Len(x)
         /\ \A i \in 1 .. Len(x) : Reverse8(x)[i] = x[Len(x) + 1 - i]
<1> DEFINE f == [i \in 1 .. Len(x) |-> x[Len(x) + 1 - i]]
<1>1. Len(x) \in Nat /\ DOMAIN x = 1 .. Len(x) /\ x \in [1 .. Len(x) -> S]
  BY LenProperties
<1>2. \A i \in 1 .. Len(x) : Len(x) + 1 - i \in 1 .. Len(x)
  BY <1>1
<1>3. f \in [1 .. Len(x) -> S] /\ \A i \in 1 .. Len(x) : f[i] = x[Len(x) + 1 - i]
  BY <1>1, <1>2
<1>4. Reverse8(x) = Tuple(f)
  BY <1>1 DEF Reverse8
<1> HIDE DEF f
<1>5. QED BY <1>1, <1>3, <1>4, TupleIs

-----------------------------------------------------------------------------
(* The three functions: a block, and where the length lies in it.            *)

Room(h) == IF h = "sha512" THEN 16 ELSE 8
LengthBytes(h, bits, w) == IF h = "md5" THEN Word(bits, w) ELSE Reverse8(Word(bits, w))

LEMMA BlockSizes ==
  ASSUME NEW h \in DOMAIN block_size
  PROVE  /\ block_size[h] \in {64, 128} /\ Room(h) \in {8, 16}
         /\ LengthAt(h) = block_size[h] - Room(h)
         /\ h = "md5" => Room(h) = 8
BY DEF block_size, Room, LengthAt

\* The length fills the room for it, its eight low bytes at the end
LEMMA LengthBytesAre ==
  ASSUME NEW h \in DOMAIN block_size, NEW bits
  PROVE  /\ LengthBytes(h, bits, 8) \in Seq(Parts(bits)) /\ Len(LengthBytes(h, bits, 8)) = 8
         /\ LengthBytes(h, bits, Room(h)) \in Seq(Parts(bits)) /\ Len(LengthBytes(h, bits, Room(h))) = Room(h)
         /\ \A i \in 1 .. Room(h) - 8 : LengthBytes(h, bits, Room(h))[i] = 0
         /\ \A i \in 1 .. 8 : LengthBytes(h, bits, Room(h))[Room(h) - 8 + i] = LengthBytes(h, bits, 8)[i]
<1>1. \A w \in {8, 16} : /\ Word(bits, w) \in Seq(Parts(bits)) /\ Len(Word(bits, w)) = w
                         /\ \A i \in 1 .. w : Word(bits, w)[i] = Part(bits, i)
  BY WordIs
<1>2. ASSUME NEW w \in {8, 16}
      PROVE  /\ Reverse8(Word(bits, w)) \in Seq(Parts(bits)) /\ Len(Reverse8(Word(bits, w))) = w
             /\ \A i \in 1 .. w : Reverse8(Word(bits, w))[i] = Part(bits, w + 1 - i)
  <2> DEFINE x == Word(bits, w)
  <2>1. x \in Seq(Parts(bits)) /\ Len(x) = w /\ \A i \in 1 .. w : x[i] = Part(bits, i)
    BY <1>1
  <2> HIDE DEF x
  <2>2. /\ Reverse8(x) \in Seq(Parts(bits)) /\ Len(Reverse8(x)) = w
        /\ \A i \in 1 .. w : Reverse8(x)[i] = x[w + 1 - i]
    BY <2>1, ReverseIs
  <2>3. \A i \in 1 .. w : w + 1 - i \in 1 .. w
    OBVIOUS
  <2>4. \A i \in 1 .. w : Reverse8(x)[i] = Part(bits, w + 1 - i)
    BY <2>1, <2>2, <2>3, Zenon
  <2>5. QED BY <2>2, <2>4 DEF x
<1>3. CASE h = "md5"
  <2>1. Room(h) = 8 /\ \A w : LengthBytes(h, bits, w) = Word(bits, w)
    BY <1>3, BlockSizes DEF LengthBytes
  <2>2. QED BY <1>1, <2>1
<1>4. CASE h # "md5"
  <2>1. \A w : LengthBytes(h, bits, w) = Reverse8(Word(bits, w))
    BY <1>4 DEF LengthBytes
  <2>2. Room(h) \in {8, 16}
    BY BlockSizes
  <2>3. /\ LengthBytes(h, bits, 8) \in Seq(Parts(bits)) /\ Len(LengthBytes(h, bits, 8)) = 8
        /\ LengthBytes(h, bits, Room(h)) \in Seq(Parts(bits)) /\ Len(LengthBytes(h, bits, Room(h))) = Room(h)
    BY <1>2, <2>1, <2>2, Zenon
  <2>4. ASSUME NEW i \in 1 .. Room(h) - 8 PROVE LengthBytes(h, bits, Room(h))[i] = 0
    <3>1. i \in 1 .. Room(h) /\ Room(h) + 1 - i \in 5 .. 16
      BY <2>2
    <3>2. LengthBytes(h, bits, Room(h))[i] = Part(bits, Room(h) + 1 - i)
      BY <1>2, <2>1, <2>2, <3>1, Zenon
    <3>3. QED BY <3>1, <3>2, PartIsZero, Zenon
  <2>5. ASSUME NEW i \in 1 .. 8
        PROVE  LengthBytes(h, bits, Room(h))[Room(h) - 8 + i] = LengthBytes(h, bits, 8)[i]
    <3>1. Room(h) - 8 + i \in 1 .. Room(h) /\ Room(h) + 1 - (Room(h) - 8 + i) = 8 + 1 - i
      BY <2>2
    <3>2. LengthBytes(h, bits, Room(h))[Room(h) - 8 + i] = Part(bits, Room(h) + 1 - (Room(h) - 8 + i))
      BY <1>2, <2>1, <2>2, <3>1, Zenon
    <3>3. LengthBytes(h, bits, 8)[i] = Part(bits, 8 + 1 - i)
      BY <1>2, <2>1, Zenon
    <3>4. QED BY <3>1, <3>2, <3>3, Zenon
  <2>6. QED BY <2>3, <2>4, <2>5
<1>5. QED BY <1>3, <1>4

\* Zeros between two sequences
Padding(p, a, k, c) ==
  /\ Len(p) = Len(a) + k + Len(c)
  /\ \A i \in 1 .. Len(a) : p[i] = a[i]
  /\ \A i \in Len(a) + 1 .. Len(a) + k : p[i] = 0
  /\ \A i \in 1 .. Len(c) : p[Len(a) + k + i] = c[i]

LEMMA ZerosBetween ==
  ASSUME NEW U, 0 \in U, NEW a \in Seq(U), NEW c \in Seq(U), NEW k \in Nat
  PROVE  a \o Zeros(k) \o c \in Seq(U) /\ Padding(a \o Zeros(k) \o c, a, k, c)
<1> DEFINE z == Zeros(k)
           b == a \o z
           d == b \o c
<1>1. Len(a) \in Nat /\ Len(c) \in Nat
  BY LenProperties
<1>2. z \in Seq(U) /\ Len(z) = k /\ \A i \in 1 .. k : z[i] = 0
  <2>1. z \in Seq({0}) /\ {0} \subseteq U
    BY ZerosIs
  <2>2. z \in Seq(U)
    BY <2>1, SeqMonotonic
  <2>3. QED BY <2>2, ZerosIs
<1> HIDE DEF z
<1>3. /\ b \in Seq(U) /\ Len(b) = Len(a) + k
      /\ \A i \in 1 .. Len(a) + k : b[i] = IF i <= Len(a) THEN a[i] ELSE z[i - Len(a)]
  BY <1>2, ConcatProperties
<1> HIDE DEF b
<1>4. /\ d \in Seq(U) /\ Len(d) = Len(b) + Len(c)
      /\ \A i \in 1 .. Len(b) + Len(c) : d[i] = IF i <= Len(b) THEN b[i] ELSE c[i - Len(b)]
  BY <1>3, ConcatProperties
<1> HIDE DEF d
<1>5. ASSUME NEW i \in 1 .. Len(a) PROVE d[i] = a[i]
  <2>1. i \in 1 .. Len(a) + k /\ i \in 1 .. Len(b) + Len(c) /\ i <= Len(a) /\ i <= Len(b)
    BY <1>1, <1>3
  <2>2. QED BY <1>3, <1>4, <2>1
<1>6. ASSUME NEW i \in Len(a) + 1 .. Len(a) + k PROVE d[i] = 0
  <2>1. i \in 1 .. Len(a) + k /\ i \in 1 .. Len(b) + Len(c) /\ ~(i <= Len(a)) /\ i <= Len(b) /\ i - Len(a) \in 1 .. k
    BY <1>1, <1>3
  <2>2. d[i] = b[i] /\ b[i] = z[i - Len(a)]
    BY <1>3, <1>4, <2>1
  <2>3. QED BY <1>2, <2>1, <2>2
<1>7. ASSUME NEW i \in 1 .. Len(c) PROVE d[Len(a) + k + i] = c[i]
  <2>1. PICK j : j = Len(a) + k + i /\ j \in 1 .. Len(b) + Len(c) /\ ~(j <= Len(b)) /\ j - Len(b) = i
    BY <1>1, <1>3
  <2>2. QED BY <1>4, <2>1
<1>8. Len(d) = Len(a) + k + Len(c)
  BY <1>3, <1>4
<1>9. d = a \o Zeros(k) \o c
  BY DEF d, b, z
<1>10. QED BY <1>4, <1>5, <1>6, <1>7, <1>8, <1>9 DEF Padding

-----------------------------------------------------------------------------
(* The padded text of n = N blocks and r bytes: it ends a block, in the same  *)
(* block or, when there is no room for the length, in the next one.           *)

Symbols(bits) == Byte \cup Parts(bits)
EndOfText(h, N, r) == IF r + 1 > LengthAt(h) THEN (N + 2) * block_size[h] ELSE (N + 1) * block_size[h]

LEMMA PaddingFits ==
  ASSUME NEW h \in DOMAIN block_size, NEW N \in Nat, NEW r \in 0 .. block_size[h] - 1,
         NEW n, n = N * block_size[h] + r
  PROVE  /\ n \in Nat /\ EndOfText(h, N, r) \in Nat
         /\ EndOfText(h, N, r) - n - 1 - Room(h) \in 0 .. block_size[h] - 1
         /\ (CHOOSE z \in 0 .. (block_size[h] - 1) : (n + 1 + z + Room(h)) % block_size[h] = 0)
              = EndOfText(h, N, r) - n - 1 - Room(h)
<1> DEFINE B == block_size[h]
           R == Room(h)
           e == EndOfText(h, N, r)
           z == e - n - 1 - R
<1>1. B \in {64, 128} /\ R \in {8, 16} /\ LengthAt(h) = B - R
  BY BlockSizes
<1>2. PICK m \in Nat : m = N * B /\ (N + 1) * B = m + B /\ (N + 2) * B = m + B + B
  BY <1>1
<1>3. e = IF r + 1 > B - R THEN m + B + B ELSE m + B
  BY <1>1, <1>2 DEF EndOfText
<1>4. n = m + r /\ r \in 0 .. B - 1
  BY <1>2
<1>5. e % B = 0
  <2>1. (N + 1) % 1 = 0 /\ B \in Nat /\ B >= 1 /\ N + 1 \in Int /\ N + 2 \in Int
    BY <1>1
  <2>2. ((N + 1) * B) % B = 0 /\ ((N + 2) * B) % B = 0
    <3> HIDE DEF B
    <3>1. QED BY <2>1, Multiple
  <2>3. QED BY <2>2 DEF EndOfText
<1> HIDE DEF B, R, e, z
<1>6. n \in Nat /\ e \in Nat /\ z \in 0 .. B - 1 /\ n + 1 + z + R = e
  BY <1>1, <1>3, <1>4 DEF z
<1>7. ASSUME NEW x \in 0 .. B - 1, (n + 1 + x + R) % B = 0
      PROVE  x = z
  <2>1. n + 1 + x + R \in Int /\ e \in Int /\ B \in Nat /\ B >= 1
    BY <1>1, <1>6
  <2>2. PICK f : f = n + 1 + x + R /\ f \in Int /\ f % B = 0
    BY <1>7, <2>1
  <2>3. ~(f < e)
    <3>1. SUFFICES ASSUME f < e PROVE FALSE
      OBVIOUS
    <3>2. f + B <= e
      BY <1>5, <2>1, <2>2, <3>1, MultipleGap
    <3>3. QED BY <1>1, <1>6, <1>7, <2>2, <3>2
  <2>4. ~(e < f)
    <3>1. SUFFICES ASSUME e < f PROVE FALSE
      OBVIOUS
    <3>2. e + B <= f
      BY <1>5, <2>1, <2>2, <3>1, MultipleGap
    <3>3. QED BY <1>1, <1>6, <1>7, <2>2, <3>2
  <2>5. QED BY <1>1, <1>6, <1>7, <2>2, <2>3, <2>4
<1>8. (n + 1 + z + R) % B = 0
  BY <1>5, <1>6
<1>9. (CHOOSE x \in 0 .. (B - 1) : (n + 1 + x + R) % B = 0) = z
  BY <1>6, <1>7, <1>8
<1>10. QED BY <1>6, <1>9 DEF B, R, e, z

PaddedTo(p, text, h, e) ==
  /\ e \in Nat /\ Len(text) + 1 + Room(h) <= e
  /\ p \in Seq(Symbols(8 * Len(text))) /\ Len(p) = e
  /\ \A i \in 1 .. Len(text) : p[i] = text[i]
  /\ p[Len(text) + 1] = 128
  /\ \A i \in Len(text) + 2 .. e - 8 : p[i] = 0
  /\ \A i \in 1 .. 8 : p[e - 8 + i] = LengthBytes(h, 8 * Len(text), 8)[i]

LEMMA PaddedIs ==
  ASSUME NEW h \in DOMAIN block_size, NEW text \in Seq(Byte), NEW N \in Nat,
         NEW r \in 0 .. block_size[h] - 1, Len(text) = N * block_size[h] + r
  PROVE  PaddedTo(PaddedText(h, text), text, h, EndOfText(h, N, r))
<1> DEFINE e == EndOfText(h, N, r)
           n == Len(text)
           bits == 8 * n
           U == Symbols(bits)
           R == Room(h)
           z == e - n - 1 - R
           a == text \o <<128>>
           c == LengthBytes(h, bits, R)
           s == LengthBytes(h, bits, 8)
           P == a \o Zeros(z) \o c
<1>1. n \in Nat /\ e \in Nat /\ z \in Nat /\ R \in {8, 16}
  <2>1. e - n - 1 - R \in 0 .. block_size[h] - 1 /\ n \in Nat /\ e \in Nat
    BY PaddingFits
  <2>2. block_size[h] \in Nat /\ R \in {8, 16}
    BY BlockSizes
  <2>3. QED BY <2>1, <2>2
<1>2. PaddedText(h, text) = P
  <2>1. z = CHOOSE x \in 0 .. (block_size[h] - 1) : (n + 1 + x + R) % block_size[h] = 0
    BY PaddingFits
  <2>2. R = IF h = "sha512" THEN 16 ELSE 8
    BY DEF Room
  <2>3. c = IF h = "md5" THEN Word(8 * n, R) ELSE Reverse8(Word(8 * n, R))
    BY DEF LengthBytes
  <2> HIDE DEF z, R, c
  <2>4. QED BY <2>1, <2>2, <2>3, Zenon DEF PaddedText
<1>3. /\ c \in Seq(U) /\ Len(c) = R /\ s \in Seq(U) /\ Len(s) = 8
      /\ \A i \in 1 .. R - 8 : c[i] = 0
      /\ \A i \in 1 .. 8 : c[R - 8 + i] = s[i]
  <2>1. Parts(bits) \subseteq U
    BY DEF Symbols
  <2>2. /\ c \in Seq(Parts(bits)) /\ Len(c) = R /\ s \in Seq(Parts(bits)) /\ Len(s) = 8
        /\ \A i \in 1 .. R - 8 : c[i] = 0
        /\ \A i \in 1 .. 8 : c[R - 8 + i] = s[i]
    BY LengthBytesAre, Zenon
  <2> HIDE DEF c, s, U
  <2>3. c \in Seq(U) /\ s \in Seq(U)
    BY <2>1, <2>2, SeqMonotonic
  <2>4. QED BY <2>2, <2>3
<1>4. 0 \in U /\ a \in Seq(U) /\ Len(a) = n + 1 /\ a[n + 1] = 128 /\ \A i \in 1 .. n : a[i] = text[i]
  <2>1. Byte \subseteq U /\ 0 \in U /\ 128 \in U
    BY DEF Symbols, Byte
  <2>2. text \in Seq(U)
    BY <2>1, SeqMonotonic
  <2>3. <<128>> \in Seq(U) /\ Len(<<128>>) = 1 /\ <<128>>[1] = 128
    BY <2>1
  <2> HIDE DEF U
  <2>4. /\ a \in Seq(U) /\ Len(a) = n + 1
        /\ \A i \in 1 .. n + 1 : a[i] = IF i <= n THEN text[i] ELSE <<128>>[i - n]
    BY <2>2, <2>3, ConcatProperties
  <2> HIDE DEF a
  <2>5. n + 1 \in 1 .. n + 1 /\ ~(n + 1 <= n) /\ (n + 1) - n = 1 /\ \A i \in 1 .. n : i \in 1 .. n + 1 /\ i <= n
    BY <1>1
  <2>6. a[n + 1] = 128
    BY <2>3, <2>4, <2>5
  <2>7. QED BY <2>1, <2>4, <2>5, <2>6
<1> HIDE DEF e, U, n, bits, R, a, c, s
<1>5. z = e - n - 1 - R /\ n + 1 + R <= e
  BY <1>1
<1> HIDE DEF z
<1>6. /\ P \in Seq(U) /\ Len(P) = Len(a) + z + Len(c)
      /\ \A i \in 1 .. Len(a) : P[i] = a[i]
      /\ \A i \in Len(a) + 1 .. Len(a) + z : P[i] = 0
      /\ \A i \in 1 .. Len(c) : P[Len(a) + z + i] = c[i]
  <2>0. 0 \in U /\ a \in Seq(U) /\ c \in Seq(U) /\ z \in Nat
    BY <1>1, <1>3, <1>4, Zenon
  <2>1. P \in Seq(U) /\ Padding(P, a, z, c)
    BY ONLY <2>0, ZerosBetween
  <2>2. QED BY <2>1, Zenon DEF Padding
<1> HIDE DEF P
<1>a. /\ n \in Nat /\ e \in Nat /\ z \in Nat /\ R \in {8, 16} /\ z = e - n - 1 - R
      /\ Len(a) = n + 1 /\ Len(c) = R
  BY <1>1, <1>3, <1>4, <1>5
<1>7. Len(P) = e
  BY ONLY <1>a, <1>6
<1>8. P[n + 1] = 128 /\ \A i \in 1 .. n : P[i] = text[i]
  <2>1. n + 1 \in 1 .. Len(a) /\ \A i \in 1 .. n : i \in 1 .. Len(a)
    BY <1>1, <1>4
  <2>2. QED BY <1>4, <1>6, <2>1, Zenon
<1>9. ASSUME NEW i \in n + 2 .. e - 8 PROVE P[i] = 0
  <2>1. CASE i <= Len(a) + z
    <3>1. i \in Len(a) + 1 .. Len(a) + z
      BY <1>1, <1>4, <2>1
    <3>2. QED BY <1>6, <3>1
  <2>2. CASE ~(i <= Len(a) + z)
    <3>1. PICK j : j \in 1 .. R - 8 /\ j \in 1 .. Len(c) /\ Len(a) + z + j = i
      <4>1. i - (Len(a) + z) \in 1 .. R - 8 /\ Len(a) + z + (i - (Len(a) + z)) = i
        BY ONLY <1>a, <2>2, i \in n + 2 .. e - 8
      <4>2. i - (Len(a) + z) \in 1 .. Len(c)
        BY <1>1, <1>3, <4>1
      <4>3. QED BY <4>1, <4>2
    <3>2. P[i] = c[j] /\ c[j] = 0
      BY <1>3, <1>6, <3>1, Zenon
    <3>3. QED BY <3>2
  <2>3. QED BY <2>1, <2>2
<1>10. ASSUME NEW i \in 1 .. 8 PROVE P[e - 8 + i] = s[i]
  <2>1. PICK j : j = R - 8 + i /\ j \in 1 .. Len(c) /\ Len(a) + z + j = e - 8 + i
    BY ONLY <1>a, i \in 1 .. 8
  <2>2. P[e - 8 + i] = c[j] /\ c[j] = s[i]
    BY <1>3, <1>6, <2>1, Zenon
  <2>3. QED BY <2>2
<1>11. QED BY <1>1, <1>2, <1>5, <1>6, <1>7, <1>8, <1>9, <1>10 DEF PaddedTo, e, bits, U, n, s, R

\* The blocks of w bytes in M * w + q bytes
CutInto(c, s, w, M) ==
  /\ Len(c) = M
  /\ \A i \in 1 .. M : /\ c[i] = Stretch(s, (i - 1) * w, i * w)
                       /\ (i - 1) * w \in Nat /\ i * w \in Nat
                       /\ i * w = (i - 1) * w + w /\ i * w <= M * w /\ i * w <= Len(s)

LEMMA BlocksCut ==
  ASSUME NEW T, NEW s \in Seq(T), NEW w \in Nat, w >= 1, NEW M \in Nat, NEW q \in 0 .. w - 1,
         Len(s) = M * w + q
  PROVE  Cut(s, w) \in Seq(Seq(T)) /\ CutInto(Cut(s, w), s, w, M)
<1>1. Len(s) \div w = M
  <2>1. Len(s) = w * M + q /\ Len(s) \in Int
    OBVIOUS
  <2>2. QED BY <2>1, DivUnique
<1>2. ASSUME NEW i \in 1 .. M
      PROVE  /\ (i - 1) * w \in Nat /\ i * w \in Nat /\ i * w = (i - 1) * w + w
             /\ i * w <= M * w /\ i * w <= Len(s)
  <2>1. i * w <= M * w /\ i * w \in Int /\ M * w \in Int
    BY TimesOrder
  <2>2. i - 1 \in Nat
    OBVIOUS
  <2>3. (i - 1) * w \in Nat /\ i * w = (i - 1) * w + w
    BY <2>2
  <2>4. QED BY <2>1, <2>3
<1> DEFINE f == [i \in 1 .. M |-> SubSeq(s, (i - 1) * w + 1, i * w)]
<1>3. Cut(s, w) = Tuple(f)
  BY <1>1 DEF Cut
<1>4. \A i \in 1 .. M : f[i] = Stretch(s, (i - 1) * w, i * w)
  BY DEF Stretch
<1>5. ASSUME NEW i \in 1 .. M PROVE Stretch(s, (i - 1) * w, i * w) \in Seq(T)
  <2>1. PICK a \in Nat, b \in Nat : a = (i - 1) * w /\ b = i * w /\ a <= b /\ b <= Len(s)
    BY <1>2
  <2>2. Stretch(s, a, b) \in Seq(T)
    BY ONLY <2>1, s \in Seq(T), a \in Nat, b \in Nat, StretchIs
  <2>3. QED BY <2>1, <2>2
<1>6. f \in [1 .. M -> Seq(T)]
  <2>1. f = [i \in 1 .. M |-> f[i]]
    OBVIOUS
  <2> HIDE DEF f
  <2>2. QED BY <1>4, <1>5, <2>1
<1> HIDE DEF f
<1>7. Tuple(f) = f /\ f \in Seq(Seq(T)) /\ Len(f) = M
  BY <1>6, TupleIs
<1>8. QED BY <1>2, <1>3, <1>4, <1>7 DEF CutInto

Whole(h, text) == Cut(PaddedText(h, text), block_size[h])
One(text, from) == Stretch(text, from, Len(text)) \o <<128>>

\* What is left of the text and the bit after it
EndsText(o, text, m, r) ==
  Len(o) = r + 1 /\ o[r + 1] = 128 /\ \A j \in 1 .. r : o[j] = text[m + j]

LEMMA OneIs ==
  ASSUME NEW text \in Seq(Byte), NEW m \in Nat, NEW r \in Nat, Len(text) = m + r
  PROVE  One(text, m) \in Seq(Byte) /\ EndsText(One(text, m), text, m, r)
<1> DEFINE a == Stretch(text, m, Len(text))
           o == a \o <<128>>
<1>1. a \in Seq(Byte) /\ Len(a) = r /\ \A j \in 1 .. r : a[j] = text[m + j]
  <2>1. Len(text) \in Nat /\ m <= Len(text) /\ Len(text) <= Len(text) /\ Len(text) - m = r
    OBVIOUS
  <2>2. a \in Seq(Byte) /\ Len(a) = Len(text) - m /\ ElementsFrom(a, text, m)
    BY <2>1, StretchIs
  <2> HIDE DEF a
  <2>3. QED BY <2>1, <2>2 DEF ElementsFrom
<1> HIDE DEF a
<1>2. <<128>> \in Seq(Byte) /\ Len(<<128>>) = 1 /\ <<128>>[1] = 128
  BY DEF Byte
<1>3. /\ o \in Seq(Byte) /\ Len(o) = r + 1
      /\ \A i \in 1 .. r + 1 : o[i] = IF i <= r THEN a[i] ELSE <<128>>[i - r]
  BY <1>1, <1>2, ConcatProperties
<1> HIDE DEF o
<1>4. r + 1 \in 1 .. r + 1 /\ ~(r + 1 <= r) /\ (r + 1) - r = 1 /\ \A i \in 1 .. r : i \in 1 .. r + 1 /\ i <= r
  OBVIOUS
<1>5. o[r + 1] = 128
  BY <1>2, <1>3, <1>4
<1>6. \A j \in 1 .. r : o[j] = text[m + j]
  BY <1>1, <1>3, <1>4, Zenon
<1>7. QED BY <1>3, <1>5, <1>6 DEF o, a, One, EndsText

\* The last eight bytes of a block, and zeros before them
Ended(a, h, bits) == a \o Zeros(block_size[h] - 8 - Len(a)) \o LengthBytes(h, bits, 8)
EndsBlock(p, a, h, bits) ==
  /\ Len(p) = block_size[h]
  /\ \A i \in 1 .. Len(a) : p[i] = a[i]
  /\ \A i \in Len(a) + 1 .. block_size[h] - 8 : p[i] = 0
  /\ \A i \in 1 .. 8 : p[block_size[h] - 8 + i] = LengthBytes(h, bits, 8)[i]

LEMMA BlockEnds ==
  ASSUME NEW h \in DOMAIN block_size, NEW bits, NEW a \in Seq(Byte), Len(a) + 8 <= block_size[h]
  PROVE  Ended(a, h, bits) \in Seq(Symbols(bits)) /\ EndsBlock(Ended(a, h, bits), a, h, bits)
<1> DEFINE B == block_size[h]
           U == Symbols(bits)
           c == LengthBytes(h, bits, 8)
           k == B - 8 - Len(a)
           p == a \o Zeros(k) \o c
<1>1. B \in Nat /\ Len(a) \in Nat /\ k \in Nat /\ Len(a) + k = B - 8
  <2>1. B \in Nat /\ Len(a) \in Nat
    BY BlockSizes, LenProperties
  <2>2. QED BY <2>1
<1>2. 0 \in U /\ a \in Seq(U) /\ c \in Seq(U) /\ Len(c) = 8
  <2>1. Byte \subseteq U /\ Parts(bits) \subseteq U /\ 0 \in U
    BY DEF Symbols, Byte
  <2>2. c \in Seq(Parts(bits)) /\ Len(c) = 8
    BY LengthBytesAre
  <2> HIDE DEF U, c
  <2>3. a \in Seq(U) /\ c \in Seq(U)
    BY <2>1, <2>2, SeqMonotonic
  <2>4. QED BY <2>1, <2>2, <2>3
<1> HIDE DEF U, c, k
<1>3. p \in Seq(U) /\ Padding(p, a, k, c)
  BY ONLY <1>1, <1>2, ZerosBetween
<1> HIDE DEF p, B
<1>4. /\ Len(p) = B /\ \A i \in 1 .. Len(a) : p[i] = a[i]
      /\ \A i \in Len(a) + 1 .. B - 8 : p[i] = 0
      /\ \A i \in 1 .. 8 : p[B - 8 + i] = c[i]
  <2>1. /\ Len(p) = Len(a) + k + Len(c)
        /\ \A i \in 1 .. Len(a) : p[i] = a[i]
        /\ \A i \in Len(a) + 1 .. Len(a) + k : p[i] = 0
        /\ \A i \in 1 .. Len(c) : p[Len(a) + k + i] = c[i]
    BY <1>3, Zenon DEF Padding
  <2>2. Len(p) = B
    <3>1. Len(p) = Len(a) + k + Len(c)
      BY <2>1, Zenon
    <3>2. QED BY <1>1, <1>2, <3>1
  <2>3. QED BY <1>1, <1>2, <2>1, <2>2, Zenon
<1>5. QED BY <1>3, <1>4 DEF p, B, U, c, k, Ended, EndsBlock

\* A text of N blocks and r bytes
Split(h, text, N, r) ==
  N \in Nat /\ r \in 0 .. block_size[h] - 1 /\ Len(text) = N * block_size[h] + r

\* The blocks of its padded text: those of the text, then the rest of it with the
\* padding, in one block or in two
BlocksOf(h, text, N, r) ==
  LET B == block_size[h]
      all == Whole(h, text)
      one == One(text, N * B)
      bits == 8 * Len(text)
  IN  /\ all \in Seq(Seq(Symbols(bits)))
      /\ Len(all) = IF r + 1 > LengthAt(h) THEN N + 2 ELSE N + 1
      /\ \A i \in 1 .. N : all[i] = Stretch(text, (i - 1) * B, i * B)
      /\ ~(r + 1 > LengthAt(h)) =>
           all[N + 1] = Ended(one, h, bits)
      /\ r + 1 > LengthAt(h) =>
           /\ all[N + 1] = one \o Zeros(B - Len(one))
           /\ all[N + 2] = Ended(<<>>, h, bits)

LEMMA BlocksAre ==
  ASSUME NEW h \in DOMAIN block_size, NEW text \in Seq(Byte), NEW N \in Nat,
         NEW r \in 0 .. block_size[h] - 1, Split(h, text, N, r)
  PROVE  BlocksOf(h, text, N, r)
<1>0. Len(text) = N * block_size[h] + r
  BY DEF Split
<1> DEFINE B == block_size[h]
           R == Room(h)
           all == Whole(h, text)
           one == One(text, N * B)
           n == Len(text)
           bits == 8 * n
           U == Symbols(bits)
           P == PaddedText(h, text)
           s == LengthBytes(h, bits, 8)
           e == EndOfText(h, N, r)
           M == IF r + 1 > LengthAt(h) THEN N + 2 ELSE N + 1
<1>1. B \in {64, 128} /\ R \in {8, 16} /\ LengthAt(h) = B - R
  BY BlockSizes
<1>2. PICK m \in Nat : m = N * B /\ (N + 1) * B = m + B /\ (N + 2) * B = m + B + B
  <2>1. B \in Nat
    BY <1>1
  <2> HIDE DEF B
  <2>2. N * B \in Nat /\ (N + 1) * B = N * B + B /\ (N + 2) * B = N * B + B + B
    BY ONLY <2>1, N \in Nat
  <2>3. QED BY ONLY <2>2, Zenon
<1>3. e = M * B /\ e = IF r + 1 > B - R THEN m + B + B ELSE m + B
  BY <1>1, <1>2 DEF EndOfText
<1>4. n = m + r /\ r \in 0 .. B - 1 /\ M \in Nat /\ M = IF r + 1 > B - R THEN N + 2 ELSE N + 1
  BY <1>0, <1>1, <1>2
<1>5. /\ e \in Nat /\ n + 1 + R <= e
      /\ P \in Seq(U) /\ Len(P) = e
      /\ \A i \in 1 .. n : P[i] = text[i]
      /\ P[n + 1] = 128
      /\ \A i \in n + 2 .. e - 8 : P[i] = 0
      /\ \A i \in 1 .. 8 : P[e - 8 + i] = s[i]
  <2>1. PaddedTo(P, text, h, e)
    BY <1>0, PaddedIs
  <2>2. bits = 8 * Len(text) /\ n = Len(text)
    OBVIOUS
  <2> HIDE DEF P, e, n, bits
  <2>3. QED BY <2>1, <2>2 DEF PaddedTo
<1>6. /\ all \in Seq(Seq(U)) /\ Len(all) = M
      /\ \A i \in 1 .. M : /\ all[i] = Stretch(P, (i - 1) * B, i * B)
                           /\ (i - 1) * B \in Nat /\ i * B \in Nat
                           /\ i * B = (i - 1) * B + B /\ i * B <= M * B /\ i * B <= Len(P)
  <2> HIDE DEF P, e, bits, s, U, B, M
  <2>1. B \in Nat /\ B >= 1 /\ 0 \in 0 .. B - 1
    BY <1>1
  <2>2. Len(P) = M * B + 0
    <3>1. PICK x \in Nat : x = M * B /\ Len(P) = x
      BY <1>3, <1>5, Zenon
    <3>2. QED BY <3>1
  <2>3. P \in Seq(U) /\ M \in Nat
    BY <1>4, <1>5
  <2>4. Cut(P, B) \in Seq(Seq(U)) /\ CutInto(Cut(P, B), P, B, M)
    BY ONLY <2>1, <2>2, <2>3, BlocksCut
  <2>5. all = Cut(P, B)
    BY DEF Whole, P, B
  <2>6. QED BY <2>4, <2>5, Zenon DEF CutInto
<1>7. /\ one \in Seq(Byte) /\ Len(one) = r + 1 /\ one[r + 1] = 128
      /\ \A j \in 1 .. r : one[j] = text[m + j]
  <2>1. one = One(text, m) /\ r \in Nat /\ Len(text) = m + r
    BY <1>1, <1>2, <1>4
  <2>2. One(text, m) \in Seq(Byte) /\ EndsText(One(text, m), text, m, r)
    BY ONLY <2>1, text \in Seq(Byte), m \in Nat, OneIs
  <2> HIDE DEF one
  <2>3. QED BY <2>1, <2>2, Zenon DEF EndsText
<1>8. one \in Seq(U) /\ {0} \subseteq U /\ text \in Seq(U)
  <2>1. Byte \subseteq U /\ 0 \in U
    BY DEF Symbols, Byte
  <2> HIDE DEF U, one
  <2>2. QED BY <1>7, <2>1, SeqMonotonic
<1> HIDE DEF B, R, all, one, n, bits, U, P, s, e, M
\* A block of the padded text, place by place
<1>9. ASSUME NEW k \in Nat, k + B <= e
      PROVE  /\ Stretch(P, k, k + B) \in Seq(U) /\ Len(Stretch(P, k, k + B)) = B
             /\ \A j \in 1 .. B : Stretch(P, k, k + B)[j] = P[k + j]
  <2>1. PICK d \in Nat : d = k + B /\ k <= d /\ d <= Len(P) /\ d - k = B
    BY <1>1, <1>5, <1>9
  <2>2. P \in Seq(U)
    BY <1>5
  <2>3. Stretch(P, k, d) \in Seq(U) /\ Len(Stretch(P, k, d)) = d - k /\ ElementsFrom(Stretch(P, k, d), P, k)
    BY ONLY <2>1, <2>2, k \in Nat, d \in Nat, StretchIs
  <2>4. QED BY <2>1, <2>3 DEF ElementsFrom
\* What is known of places and sizes
<1>a. /\ B \in {64, 128} /\ R \in {8, 16} /\ m \in Nat /\ n = m + r /\ r \in 0 .. B - 1 /\ N \in Nat
      /\ e = IF r + 1 > B - R THEN m + B + B ELSE m + B
      /\ M = IF r + 1 > B - R THEN N + 2 ELSE N + 1
  BY <1>1, <1>3, <1>4
<1>10. ASSUME NEW i \in 1 .. N
       PROVE  all[i] = Stretch(text, (i - 1) * B, i * B)
  <2>1. i \in 1 .. M
    BY <1>a
  <2>2. PICK a \in Nat, b \in Nat : a = (i - 1) * B /\ b = i * B /\ a <= b /\ b <= Len(P) /\ b = a + B
    <3>1. (i - 1) * B \in Nat /\ i * B \in Nat /\ i * B = (i - 1) * B + B /\ i * B <= Len(P)
      BY <1>6, <2>1, Zenon
    <3>2. (i - 1) * B <= i * B
      BY <1>1, <3>1
    <3>3. QED BY <3>1, <3>2, Zenon
  <2>3. b <= m
    <3>1. B \in Nat /\ i \in Int /\ N \in Int /\ i <= N
      BY <1>1
    <3>2. i * B <= N * B
      BY ONLY <3>1, TimesOrder
    <3>3. m = N * B
      BY <1>2 DEF B
    <3>4. QED BY <2>2, <3>2, <3>3
  <2>4. all[i] = Stretch(P, a, b)
    BY <1>6, <2>1, <2>2, Zenon
  <2>5. SameFrom(P, a, text, a, b - a)
    <3>1. SUFFICES ASSUME NEW j \in 1 .. b - a PROVE P[a + j] = text[a + j]
      BY Zenon DEF SameFrom
    <3>2. a + j \in 1 .. n
      BY ONLY <1>a, <2>2, <2>3, a \in Nat, b \in Nat, j \in 1 .. b - a
    <3>3. QED BY <1>5, <3>2, Zenon
  <2>6. b <= Len(text) /\ b - a = b - a
    BY <1>a, <2>2, <2>3 DEF n
  <2>7. P \in Seq(U) /\ text \in Seq(U) /\ a <= b /\ b <= Len(P)
    BY <1>5, <1>8, <2>2
  <2>8. Stretch(P, a, b) = Stretch(text, a, b)
    BY ONLY <2>5, <2>6, <2>7, a \in Nat, b \in Nat, SameStretch
  <2>9. QED BY <2>2, <2>4, <2>8, Zenon
<1>11. ASSUME ~(r + 1 > B - R)
       PROVE  all[N + 1] = Ended(one, h, bits)
  <2> DEFINE q == Ended(one, h, bits)
             p == Stretch(P, m, m + B)
  <2>1. N + 1 \in 1 .. M /\ (N + 1) - 1 = N /\ m + B <= e /\ e = m + B
    BY <1>a, <1>11
  <2>2. all[N + 1] = p
    <3>1. all[N + 1] = Stretch(P, ((N + 1) - 1) * B, (N + 1) * B)
      BY <1>6, <2>1, Zenon
    <3>2. ((N + 1) - 1) * B = m /\ (N + 1) * B = m + B
      BY <1>2, <2>1 DEF B
    <3>3. QED BY <3>1, <3>2, Zenon
  <2>3. p \in Seq(U) /\ Len(p) = B /\ \A j \in 1 .. B : p[j] = P[m + j]
    BY <1>9, <2>1, Zenon
  <2>4. /\ q \in Seq(U) /\ Len(q) = B
        /\ \A i \in 1 .. Len(one) : q[i] = one[i]
        /\ \A i \in Len(one) + 1 .. B - 8 : q[i] = 0
        /\ \A i \in 1 .. 8 : q[B - 8 + i] = s[i]
    <3>1. Len(one) + 8 <= B
      BY <1>a, <1>7, <1>11
    <3>2. one \in Seq(Byte)
      BY <1>7
    <3>3. q \in Seq(U) /\ EndsBlock(q, one, h, bits)
      BY ONLY <3>1, <3>2, h \in DOMAIN block_size, BlockEnds DEF B, U
    <3> HIDE DEF q
    <3>4. QED BY <3>3, Zenon DEF EndsBlock, B, s
  <2> HIDE DEF p, q
  <2>5. ASSUME NEW j \in 1 .. B PROVE p[j] = q[j]
    <3>0. p[j] = P[m + j]
      BY <2>3
    <3>1. CASE j <= r
      <4>1. m + j \in 1 .. n /\ j \in 1 .. Len(one) /\ j \in 1 .. r
        BY <1>a, <1>7, <3>1
      <4>2. P[m + j] = text[m + j] /\ q[j] = one[j] /\ one[j] = text[m + j]
        BY <1>5, <1>7, <2>4, <4>1, Zenon
      <4>3. QED BY <3>0, <4>2
    <3>2. CASE j = r + 1
      <4>1. m + j = n + 1 /\ j \in 1 .. Len(one)
        BY <1>a, <1>7, <3>2
      <4>2. P[m + j] = 128 /\ q[j] = 128
        BY <1>5, <1>7, <2>4, <3>2, <4>1, Zenon
      <4>3. QED BY <3>0, <4>2
    <3>3. CASE j > r + 1 /\ j <= B - 8
      <4>1. m + j \in n + 2 .. e - 8 /\ j \in Len(one) + 1 .. B - 8
        BY <1>a, <1>7, <2>1, <3>3
      <4>2. P[m + j] = 0 /\ q[j] = 0
        BY <1>5, <2>4, <4>1, Zenon
      <4>3. QED BY <3>0, <4>2
    <3>4. CASE j > B - 8
      <4>1. PICK i : i \in 1 .. 8 /\ j = B - 8 + i /\ m + j = e - 8 + i
        <5>1. j - (B - 8) \in 1 .. 8 /\ j = B - 8 + (j - (B - 8)) /\ m + j = e - 8 + (j - (B - 8))
          BY <1>a, <2>1, <3>4
        <5>2. QED BY <5>1
      <4>2. P[m + j] = s[i] /\ q[j] = s[i]
        BY <1>5, <2>4, <4>1, Zenon
      <4>3. QED BY <3>0, <4>2
    <3>5. QED BY <1>a, <3>1, <3>2, <3>3, <3>4
  <2>6. p = q
    BY <2>3, <2>4, <2>5, SeqEqual
  <2>7. QED BY <2>2, <2>6 DEF q
<1>12. ASSUME r + 1 > B - R
       PROVE  all[N + 1] = one \o Zeros(B - Len(one))
  <2> DEFINE k == B - Len(one)
             q == one \o Zeros(k)
             p == Stretch(P, m, m + B)
  <2>1. N + 1 \in 1 .. M /\ (N + 1) - 1 = N /\ m + B <= e - 8 /\ e = m + B + B
    BY <1>a, <1>12
  <2>2. all[N + 1] = p
    <3>1. all[N + 1] = Stretch(P, ((N + 1) - 1) * B, (N + 1) * B)
      BY <1>6, <2>1, Zenon
    <3>2. ((N + 1) - 1) * B = m /\ (N + 1) * B = m + B
      BY <1>2, <2>1 DEF B
    <3>3. QED BY <3>1, <3>2, Zenon
  <2>3. p \in Seq(U) /\ Len(p) = B /\ \A j \in 1 .. B : p[j] = P[m + j]
    <3>1. m + B <= e
      BY <1>a, <2>1
    <3>2. QED BY <1>9, <3>1, Zenon
  <2>4. k \in Nat /\ Len(one) + k = B
    BY <1>a, <1>7
  <2>5. /\ q \in Seq(U) /\ Len(q) = B
        /\ \A i \in 1 .. B : q[i] = IF i <= r + 1 THEN one[i] ELSE 0
    <3> DEFINE z == Zeros(k)
    <3>1. z \in Seq(U) /\ Len(z) = k /\ \A i \in 1 .. k : z[i] = 0
      <4>1. z \in Seq({0}) /\ Len(z) = k /\ \A i \in 1 .. k : z[i] = 0
        BY <2>4, ZerosIs
      <4> HIDE DEF z
      <4>2. z \in Seq(U)
        BY <1>8, <4>1, SeqMonotonic
      <4>3. QED BY <4>1, <4>2
    <3> HIDE DEF z, k
    <3>2. /\ one \o z \in Seq(U) /\ Len(one \o z) = Len(one) + Len(z)
          /\ \A i \in 1 .. Len(one) + Len(z) : (one \o z)[i] = IF i <= Len(one) THEN one[i] ELSE z[i - Len(one)]
      BY <1>8, <3>1, ConcatProperties
    <3>3. Len(one) + Len(z) = B /\ Len(one) = r + 1
      BY <1>7, <2>4, <3>1
    <3>4. ASSUME NEW i \in 1 .. B, ~(i <= r + 1) PROVE z[i - Len(one)] = 0
      <4>1. i - Len(one) \in 1 .. k
        BY <1>a, <2>4, <3>3, <3>4
      <4>2. QED BY <3>1, <4>1
    <3>5. q = one \o z
      BY DEF z
    <3> HIDE DEF q
    <3>6. q \in Seq(U) /\ Len(q) = B
      BY <3>2, <3>3, <3>5
    <3>7. ASSUME NEW i \in 1 .. B PROVE q[i] = IF i <= r + 1 THEN one[i] ELSE 0
      <4>1. q[i] = IF i <= r + 1 THEN one[i] ELSE z[i - Len(one)]
        BY <3>2, <3>3, <3>5
      <4>2. QED BY <3>4, <4>1
    <3>8. QED BY <3>6, <3>7
  <2> HIDE DEF p, q, k
  <2>6. ASSUME NEW j \in 1 .. B PROVE p[j] = q[j]
    <3>0. p[j] = P[m + j] /\ q[j] = IF j <= r + 1 THEN one[j] ELSE 0
      BY <2>3, <2>5, Zenon
    <3>1. CASE j <= r
      <4>1. m + j \in 1 .. n /\ j \in 1 .. r /\ j <= r + 1
        BY <1>a, <3>1
      <4>2. P[m + j] = text[m + j] /\ one[j] = text[m + j]
        BY <1>5, <1>7, <4>1, Zenon
      <4>3. QED BY <3>0, <4>1, <4>2
    <3>2. CASE j = r + 1
      <4>1. m + j = n + 1 /\ j <= r + 1
        BY <1>a, <3>2
      <4>2. P[m + j] = 128 /\ one[j] = 128
        BY <1>5, <1>7, <3>2, <4>1, Zenon
      <4>3. QED BY <3>0, <4>1, <4>2
    <3>3. CASE j > r + 1
      <4>1. m + j \in n + 2 .. e - 8 /\ ~(j <= r + 1)
        BY <1>a, <2>1, <3>3
      <4>2. P[m + j] = 0
        BY <1>5, <4>1, Zenon
      <4>3. QED BY <3>0, <4>1, <4>2
    <3>4. QED BY <1>a, <3>1, <3>2, <3>3
  <2>7. p = q
    BY <2>3, <2>5, <2>6, SeqEqual
  <2>8. QED BY <2>2, <2>7 DEF q, k
<1>13. ASSUME r + 1 > B - R
       PROVE  all[N + 2] = Ended(<<>>, h, bits)
  <2> DEFINE q == Ended(<<>>, h, bits)
             p == Stretch(P, m + B, m + B + B)
  <2>1. N + 2 \in 1 .. M /\ (N + 2) - 1 = N + 1 /\ m + B + B <= e /\ e = m + B + B /\ m + B \in Nat
    BY <1>a, <1>13
  <2>2. all[N + 2] = p
    <3>1. all[N + 2] = Stretch(P, ((N + 2) - 1) * B, (N + 2) * B)
      BY <1>6, <2>1, Zenon
    <3>2. ((N + 2) - 1) * B = m + B /\ (N + 2) * B = m + B + B
      BY <1>2, <2>1 DEF B
    <3>3. QED BY <3>1, <3>2, Zenon
  <2>3. p \in Seq(U) /\ Len(p) = B /\ \A j \in 1 .. B : p[j] = P[m + B + j]
    BY <1>9, <2>1, Zenon
  <2>4. /\ q \in Seq(U) /\ Len(q) = B
        /\ \A i \in 1 .. B - 8 : q[i] = 0
        /\ \A i \in 1 .. 8 : q[B - 8 + i] = s[i]
    <3>1. <<>> \in Seq(Byte) /\ Len(<<>>) = 0 /\ Len(<<>>) + 8 <= B
      <4>1. <<>> \in Seq(Byte) /\ Len(<<>>) = 0
        BY EmptySeq
      <4>2. QED BY <1>a, <4>1
    <3>2. /\ q \in Seq(U) /\ Len(q) = B
          /\ \A i \in Len(<<>>) + 1 .. B - 8 : q[i] = 0
          /\ \A i \in 1 .. 8 : q[B - 8 + i] = s[i]
      <4>1. q \in Seq(U) /\ EndsBlock(q, <<>>, h, bits)
        BY ONLY <3>1, h \in DOMAIN block_size, BlockEnds DEF B, U
      <4> HIDE DEF q
      <4>2. QED BY <4>1, Zenon DEF EndsBlock, B, s
    <3> HIDE DEF q
    <3>3. Len(<<>>) + 1 = 1
      BY <3>1
    <3>4. QED BY <3>2, <3>3
  <2> HIDE DEF p, q
  <2>5. ASSUME NEW j \in 1 .. B PROVE p[j] = q[j]
    <3>0. p[j] = P[m + B + j]
      BY <2>3, Zenon
    <3>3. CASE j <= B - 8
      <4>1. m + B + j \in n + 2 .. e - 8 /\ j \in 1 .. B - 8
        BY <1>a, <2>1, <3>3
      <4>2. P[m + B + j] = 0 /\ q[j] = 0
        BY <1>5, <2>4, <4>1, Zenon
      <4>3. QED BY <3>0, <4>2
    <3>4. CASE j > B - 8
      <4>1. PICK i : i \in 1 .. 8 /\ j = B - 8 + i /\ m + B + j = e - 8 + i
        <5>1. j - (B - 8) \in 1 .. 8 /\ j = B - 8 + (j - (B - 8)) /\ m + B + j = e - 8 + (j - (B - 8))
          BY <1>a, <2>1, <3>4
        <5>2. QED BY <5>1
      <4>2. P[m + B + j] = s[i] /\ q[j] = s[i]
        BY <1>5, <2>4, <4>1, Zenon
      <4>3. QED BY <3>0, <4>2
    <3>5. QED BY <1>a, <3>3, <3>4
  <2>6. p = q
    BY <2>3, <2>4, <2>5, SeqEqual
  <2>7. QED BY <2>2, <2>6 DEF q
<1>14. LengthAt(h) = B - R
  BY <1>1
<1>15. QED BY <1>6, <1>10, <1>11, <1>12, <1>13, <1>14, Zenon DEF BlocksOf, B, all, one, n, bits, U, s, M

-----------------------------------------------------------------------------
(* The blocks compressed so far are the first of the padded text.  While the *)
(* text is read, they are those of its first Len(blocks) * B bytes, and the  *)
(* buffer and the pieces hold the bytes that follow.                          *)

MdIs == md = [state |-> md.state, buf |-> md.buf, length |-> md.length]
Begin(b, all) == Len(b) \in Nat /\ Len(b) <= Len(all) /\ b = SubSeq(all, 1, Len(b))
ReadUpTo(m, r) ==
  /\ m = Len(blocks) * block_size[job.h] /\ r \in 0 .. block_size[job.h] - 1
  /\ m + r <= Len(job.text)
  /\ md.length = 8 * m /\ md.buf = Stretch(job.text, m, m + r)
  /\ pieces \in Seq(Seq(Byte)) /\ Lies(pieces, m + r, job.text)
Reading == \E m \in Nat, r \in Nat : ReadUpTo(m, r)
Closing ==
  LET all == Whole(job.h, job.text)
  IN  /\ md.length = 8 * Len(job.text)
      /\ Len(all) = Len(blocks) + 1
      /\ all[Len(blocks) + 1] = Ended(<<>>, job.h, md.length)
AtEnd == Len(blocks) = Len(Whole(job.h, job.text))
Stage(a) == CASE a = "process" -> Reading [] a = "close" -> Closing [] a = "out" -> AtEnd
Where == IF at = "rounds" THEN back ELSE at
DigestInv ==
  \/ at = "idle" /\ job = [h |-> "none"]
  \/ /\ job \in Jobs /\ MdIs /\ Begin(blocks, Whole(job.h, job.text))
     /\ Where \in {"process", "close", "out"} /\ Stage(Where)

LEMMA BlockAdded ==
  ASSUME NEW S, NEW all \in Seq(S), NEW b, Begin(b, all), Len(b) + 1 <= Len(all)
  PROVE  Begin(Append(b, all[Len(b) + 1]), all) /\ Len(Append(b, all[Len(b) + 1])) = Len(b) + 1
<1>1. PICK k \in Nat : k = Len(b) /\ k + 1 <= Len(all) /\ b = SubSeq(all, 1, k)
  BY DEF Begin
<1>2. Append(SubSeq(all, 1, k), all[k + 1]) = SubSeq(all, 1, k + 1) /\ Len(SubSeq(all, 1, k + 1)) = k + 1
  BY <1>1
<1>3. QED BY <1>1, <1>2 DEF Begin

LEMMA JobTexts ==
  ASSUME job \in Jobs
  PROVE  /\ job.h \in DOMAIN block_size /\ block_size[job.h] \in {64, 128}
         /\ job.text \in Seq(Byte) /\ Len(job.text) \in Nat
         /\ job.pieces \in Seq(Seq(Byte)) /\ Lies(job.pieces, 0, job.text)
<1>1. /\ job.h \in DOMAIN block_size /\ job.text \in Seq(Byte) /\ job.pieces \in Seq(Seq(Byte))
      /\ FlattenSeq(job.pieces) = job.text
  BY DigestAssumption
<1>2. Lies(job.pieces, 0, FlattenSeq(job.pieces))
  BY <1>1, FlattenLies
<1>3. block_size[job.h] \in {64, 128}
  BY <1>1, BlockSizes
<1>4. Len(job.text) \in Nat
  BY <1>1, LenProperties
<1>5. QED BY <1>1, <1>2, <1>3, <1>4

\* The text is whole blocks and a rest
LEMMA Splits ==
  ASSUME NEW h \in DOMAIN block_size, NEW text \in Seq(Byte)
  PROVE  /\ \E M \in Nat, r \in 0 .. block_size[h] - 1 : Split(h, text, M, r)
         /\ \E S : Whole(h, text) \in Seq(S)
<1> DEFINE B == block_size[h]
           n == Len(text)
<1>1. B \in Nat /\ B >= 1 /\ n \in Nat
  BY BlockSizes, LenProperties
<1>2. PICK M \in Nat, r \in 0 .. B - 1 : n = M * B + r
  <2> HIDE DEF B, n
  <2>1. n \in Int /\ n >= 0
    BY <1>1
  <2>2. n \div B \in Int /\ n % B \in 0 .. B - 1 /\ n = B * (n \div B) + (n % B) /\ n \div B >= 0
    BY ONLY <1>1, <2>1, DivMod
  <2>3. PICK M \in Int, r \in 0 .. B - 1 : n = B * M + r /\ M >= 0
    BY <2>2
  <2>4. M \in Nat
    BY <2>3
  <2>5. n = M * B + r
    BY ONLY <1>1, <2>3, M \in Int
  <2>6. QED BY <2>4, <2>5
<1>a. Split(h, text, M, r)
  BY <1>2, Zenon DEF Split
<1>3. Whole(h, text) \in Seq(Seq(Symbols(8 * n)))
  <2>1. BlocksOf(h, text, M, r)
    BY <1>a, BlocksAre, Zenon
  <2>2. QED BY <2>1, Zenon DEF BlocksOf, n
<1>4. QED BY <1>a, <1>3, Zenon

\* A block of the text is a block of the padded text
LEMMA TextBlock ==
  ASSUME NEW h \in DOMAIN block_size, NEW text \in Seq(Byte), NEW N \in Nat, NEW m \in Nat,
         m = N * block_size[h], m + block_size[h] <= Len(text)
  PROVE  LET all == Whole(h, text)
         IN  /\ \E S : all \in Seq(S)
             /\ N + 1 <= Len(all) /\ all[N + 1] = Stretch(text, m, m + block_size[h])
             /\ m + block_size[h] = (N + 1) * block_size[h]
<1> DEFINE B == block_size[h]
           all == Whole(h, text)
           n == Len(text)
<1>1. B \in Nat /\ B >= 1 /\ n \in Nat
  BY BlockSizes, LenProperties
<1>2. PICK M \in Nat, r \in 0 .. B - 1 : Split(h, text, M, r) /\ n = M * B + r
  BY Splits, Zenon DEF Split
<1>3. (N + 1) * B = m + B /\ ((N + 1) - 1) * B = m
  <2>1. m = N * B
    OBVIOUS
  <2> HIDE DEF B
  <2>2. (N + 1) * B = N * B + B /\ (N + 1) - 1 = N
    BY ONLY <1>1, N \in Nat
  <2>3. QED BY ONLY <2>1, <2>2, Zenon
<1>4. N + 1 <= M
  <2> HIDE DEF B, n
  <2>1. SUFFICES ASSUME M < N + 1 PROVE FALSE
    BY <1>2
  <2>2. M <= N /\ M \in Int /\ N \in Int
    BY <1>2, <2>1
  <2>3. M * B <= N * B /\ M * B \in Int
    BY ONLY <1>1, <2>2, TimesOrder
  <2>4. m = N * B /\ m + B <= n
    BY DEF B, n
  <2>5. n = M * B + r
    BY <1>2
  <2>6. QED BY ONLY <1>1, <2>3, <2>4, <2>5, r \in 0 .. B - 1, m \in Nat
<1>6. /\ all \in Seq(Seq(Symbols(8 * n)))
      /\ Len(all) = IF r + 1 > LengthAt(h) THEN M + 2 ELSE M + 1
      /\ \A i \in 1 .. M : all[i] = Stretch(text, (i - 1) * B, i * B)
  <2>1. BlocksOf(h, text, M, r)
    BY <1>2, BlocksAre, Zenon
  <2>2. QED BY <2>1, Zenon DEF BlocksOf
<1> HIDE DEF all, B, n
<1>7. N + 1 \in 1 .. M /\ N + 1 <= Len(all)
  <2>1. N + 1 \in 1 .. M /\ N + 1 <= M
    BY ONLY <1>4, M \in Nat, N \in Nat
  <2>2. QED BY ONLY <1>6, <2>1, M \in Nat, N \in Nat
<1>8. all[N + 1] = Stretch(text, m, m + B)
  BY <1>3, <1>6, <1>7, Zenon
<1>9. QED BY <1>3, <1>6, <1>7, <1>8, Zenon DEF all, B, n

LEMMA DigestInitial == DigestInit => DigestInv
<1>1. SUFFICES ASSUME DigestInit PROVE DigestInv
  OBVIOUS
<1>2. job \in Jobs /\ pieces = job.pieces /\ at = "process" /\ blocks = <<>>
      /\ md = [state |-> InitialState[job.h], buf |-> <<>>, length |-> 0]
  BY <1>1 DEF DigestInit
<1>3. /\ job.h \in DOMAIN block_size /\ block_size[job.h] \in {64, 128}
      /\ job.text \in Seq(Byte) /\ Len(job.text) \in Nat
      /\ job.pieces \in Seq(Seq(Byte)) /\ Lies(job.pieces, 0, job.text)
  BY <1>2, JobTexts
<1>4. MdIs /\ md.buf = <<>> /\ md.length = 0
  BY <1>2 DEF MdIs
<1>5. Begin(blocks, Whole(job.h, job.text))
  <2>1. Len(<<>>) = 0 /\ \A q : SubSeq(q, 1, 0) = <<>>
    OBVIOUS
  <2>2. Len(Whole(job.h, job.text)) \in Nat
    BY <1>3, Splits, LenProperties
  <2>3. QED BY <1>2, <2>1, <2>2 DEF Begin
<1>6. ReadUpTo(0, 0)
  <2>1. Stretch(job.text, 0, 0 + 0) = <<>>
    BY <1>3 DEF Stretch
  <2>2. Len(blocks) = 0
    BY <1>2
  <2>3. QED BY <1>2, <1>3, <1>4, <2>1, <2>2 DEF ReadUpTo
<1>7. Where = "process" /\ Stage("process")
  BY <1>2, <1>6 DEF Where, Stage, Reading
<1>8. QED BY <1>2, <1>4, <1>5, <1>7 DEF DigestInv

\* What the invariant says of a job
Busy == /\ job \in Jobs /\ MdIs /\ Begin(blocks, Whole(job.h, job.text))
        /\ Where \in {"process", "close", "out"} /\ Stage(Where)

\* A block is compressed
LEMMA Compressed ==
  ASSUME Busy, NEW block, NEW to \in {"process", "close", "out"}, Compress(block, to), job' = job,
         Len(blocks) + 1 <= Len(Whole(job.h, job.text)),
         block = Whole(job.h, job.text)[Len(blocks) + 1]
  PROVE  /\ Begin(blocks, Whole(job.h, job.text))' /\ Len(blocks') = Len(blocks) + 1
         /\ Where' = to /\ job' \in Jobs
<1> DEFINE all == Whole(job.h, job.text)
<1>1. job \in Jobs /\ Begin(blocks, all)
  BY DEF Busy
<1>2. PICK S : all \in Seq(S)
  <2>1. job.h \in DOMAIN block_size /\ job.text \in Seq(Byte)
    BY <1>1, JobTexts
  <2>2. QED BY <2>1, Splits, Zenon
<1>3. blocks' = Append(blocks, all[Len(blocks) + 1]) /\ at' = "rounds" /\ back' = to
  BY DEF Compress
<1>4. all' = all
  BY DEF Whole
<1>5. Len(blocks) + 1 <= Len(all)
  OBVIOUS
<1> HIDE DEF all
<1>6. Begin(Append(blocks, all[Len(blocks) + 1]), all) /\ Len(Append(blocks, all[Len(blocks) + 1])) = Len(blocks) + 1
  BY <1>1, <1>2, <1>5, BlockAdded
<1>7. Begin(blocks', all') /\ Len(blocks') = Len(blocks) + 1
  BY <1>3, <1>4, <1>6
<1>8. Where' = to
  BY <1>3 DEF Where
<1>9. QED BY <1>1, <1>7, <1>8 DEF all

LEMMA ProcessStep == ASSUME Busy, Process PROVE Busy'
<1> DEFINE h == job.h
           text == job.text
           B == block_size[h]
           p == pieces[1]
           k == Taken
           filled == md.buf \o SubSeq(p, 1, k)
           all == Whole(h, text)
<1>1. /\ at = "process" /\ pieces # <<>> /\ job' = job
      /\ pieces' = Rest(pieces, k)
  BY DEF Process, Rest
<1>2. /\ Len(filled) = B => /\ Compress(filled, "process")
                            /\ md' = [md EXCEPT !.buf = <<>>, !.length = @ + 8 * B]
      /\ Len(filled) # B => /\ md' = [md EXCEPT !.buf = filled]
                         /\ UNCHANGED <<W, work, step, at, back, blocks>>
  BY DEF Process
<1>3. job \in Jobs /\ MdIs /\ Begin(blocks, all) /\ Where = "process" /\ Reading
  BY <1>1 DEF Busy, Where, Stage
<1>4. h \in DOMAIN block_size /\ B \in {64, 128} /\ text \in Seq(Byte) /\ Len(text) \in Nat
  BY <1>3, JobTexts
<1>5. PICK m \in Nat, r \in Nat : ReadUpTo(m, r)
  BY <1>3 DEF Reading
<1>6. /\ m = Len(blocks) * B /\ r \in 0 .. B - 1 /\ m + r <= Len(text) /\ Len(blocks) \in Nat
      /\ md.length = 8 * m /\ md.buf = Stretch(text, m, m + r)
      /\ pieces \in Seq(Seq(Byte)) /\ Lies(pieces, m + r, text)
  BY <1>3, <1>5 DEF ReadUpTo, Begin
<1> HIDE DEF h, text, B, all
<1>7. p \in Seq(Byte) /\ Len(p) \in Nat
  <2>1. Len(pieces) \in Nat /\ Len(pieces) # 0
    BY <1>1, <1>6, EmptySeq, LenProperties
  <2>2. 1 \in 1 .. Len(pieces)
    BY <2>1
  <2>3. p \in Seq(Byte)
    BY <1>6, <2>2, ElementOfSeq
  <2>4. QED BY <2>3, LenProperties
<1>8. md.buf \in Seq(Byte) /\ Len(md.buf) = r
  <2>1. m <= m + r /\ m + r \in Nat /\ (m + r) - m = r
    BY ONLY m \in Nat, r \in Nat
  <2>2. PICK x \in Nat : x = m + r /\ m <= x /\ x - m = r /\ x <= Len(text)
    BY <1>6, <2>1, Zenon
  <2>3. Stretch(text, m, x) \in Seq(Byte) /\ Len(Stretch(text, m, x)) = x - m
    BY ONLY <1>4, <2>2, m \in Nat, x \in Nat, StretchIs
  <2>4. QED BY <1>6, <2>2, <2>3, Zenon
<1>9. k \in Nat /\ k <= Len(p) /\ k <= B - r
  <2>1. k = IF Len(p) < B - r THEN Len(p) ELSE B - r
    BY <1>8 DEF Taken, B, h
  <2> HIDE DEF k, p
  <2>2. QED BY ONLY <1>4, <1>6, <1>7, <2>1
<1> HIDE DEF k
<1>10. PICK a \in Nat, b \in Nat : a = m + r /\ b = a + k /\ b = m + (r + k) /\ a <= b /\ m <= a /\ b - m = r + k
  <2>1. m + r \in Nat /\ m + r + k \in Nat /\ m + r + k = m + (r + k) /\ m + r <= m + r + k /\ m <= m + r
        /\ (m + r + k) - m = r + k
    BY ONLY <1>9, m \in Nat, r \in Nat
  <2>2. QED BY <2>1, Zenon
<1>11. /\ b <= Len(text) /\ SubSeq(p, 1, k) = Stretch(text, a, b)
       /\ Rest(pieces, k) \in Seq(Seq(Byte)) /\ Lies(Rest(pieces, k), b, text)
  <2>1. Lies(pieces, a, text) /\ pieces \in Seq(Seq(Byte)) /\ text \in Seq(Byte) /\ pieces # <<>>
        /\ k \in Nat /\ k <= Len(pieces[1])
    BY <1>1, <1>4, <1>6, <1>9, <1>10, Zenon
  <2>2. /\ a + k <= Len(text) /\ SubSeq(pieces[1], 1, k) = Stretch(text, a, a + k)
        /\ Rest(pieces, k) \in Seq(Seq(Byte)) /\ Lies(Rest(pieces, k), a + k, text)
    BY ONLY <2>1, a \in Nat, LiesTaken
  <2>3. QED BY <1>10, <2>2, Zenon
<1>12. filled = Stretch(text, m, b) /\ Len(filled) = r + k
  <2>1. md.buf = Stretch(text, m, a)
    BY <1>6, <1>10, Zenon
  <2>2. m <= a /\ a <= b /\ b <= Len(text) /\ text \in Seq(Byte)
    BY <1>4, <1>10, <1>11, Zenon
  <2>3. Stretch(text, m, a) \o Stretch(text, a, b) = Stretch(text, m, b)
    BY ONLY <2>2, m \in Nat, a \in Nat, b \in Nat, StretchJoin
  <2>4. m <= b
    BY ONLY <2>2, m \in Nat, a \in Nat, b \in Nat
  <2>5. Len(Stretch(text, m, b)) = b - m
    BY ONLY <2>2, <2>4, m \in Nat, b \in Nat, StretchIs
  <2>6. QED BY <1>10, <1>11, <2>1, <2>3, <2>5, Zenon
<1> HIDE DEF filled, p
<1>13. CASE Len(filled) = B
  <2>1. Compress(filled, "process") /\ md' = [md EXCEPT !.buf = <<>>, !.length = @ + 8 * B]
    BY <1>2, <1>13
  <2>2. m + B = b /\ m + B <= Len(text) /\ B \in Nat
    BY ONLY <1>4, <1>10, <1>11, <1>12, <1>13, m \in Nat
  <2>3. Len(blocks) + 1 <= Len(all) /\ all[Len(blocks) + 1] = filled /\ m + B = (Len(blocks) + 1) * B
    <3>1. PICK N \in Nat : N = Len(blocks)
      BY <1>6
    <3>2. m = N * block_size[h] /\ m + block_size[h] <= Len(text)
      BY <1>6, <2>2, <3>1, Zenon DEF B
    <3>3. /\ N + 1 <= Len(all) /\ all[N + 1] = Stretch(text, m, m + block_size[h])
          /\ m + block_size[h] = (N + 1) * block_size[h]
      BY ONLY <1>4, <3>2, m \in Nat, N \in Nat, TextBlock DEF all
    <3>4. QED BY <1>12, <2>2, <3>1, <3>3, Zenon DEF B
  <2>4. /\ Begin(blocks, Whole(job.h, job.text))' /\ Len(blocks') = Len(blocks) + 1
        /\ Where' = "process" /\ job' \in Jobs
    <3>1. Len(blocks) + 1 <= Len(Whole(job.h, job.text)) /\ filled = Whole(job.h, job.text)[Len(blocks) + 1]
      BY <2>3 DEF all, h, text
    <3>2. "process" \in {"process", "close", "out"}
      OBVIOUS
    <3>3. QED BY <1>1, <2>1, <3>1, <3>2, Compressed
  <2>5. MdIs' /\ md'.buf = <<>> /\ md'.length = 8 * m + 8 * B
    BY <1>3, <1>6, <2>1 DEF MdIs
  <2>6. ReadUpTo(b, 0)'
    <3>1. b = Len(blocks') * block_size[job'.h]
      BY <1>1, <2>2, <2>3, <2>4, Zenon DEF B, h
    <3>2. 0 \in 0 .. block_size[job'.h] - 1 /\ b + 0 = b /\ b + 0 <= Len(job'.text)
      BY <1>1, <1>4, <1>11 DEF B, h, text
    <3>3. md'.length = 8 * b
      BY ONLY <2>2, <2>5, m \in Nat
    <3>4. Stretch(job'.text, b, b + 0) = <<>>
      BY <1>1, <1>4, <3>2 DEF Stretch, text
    <3>5. pieces' \in Seq(Seq(Byte)) /\ Lies(pieces', b + 0, job'.text)
      BY <1>1, <1>11, <3>2 DEF text
    <3>6. QED BY <2>5, <3>1, <3>2, <3>3, <3>4, <3>5, Zenon DEF ReadUpTo
  <2>7. Stage("process")'
    <3>1. 0 \in Nat
      OBVIOUS
    <3>2. QED BY <2>6, <3>1 DEF Stage, Reading
  <2>8. QED BY <2>4, <2>5, <2>7 DEF Busy
<1>14. CASE Len(filled) # B
  <2>1. md' = [md EXCEPT !.buf = filled] /\ UNCHANGED <<W, work, step, at, back, blocks>>
    BY <1>2, <1>14
  <2>2. MdIs' /\ md'.buf = filled /\ md'.length = md.length
    BY <1>3, <2>1 DEF MdIs
  <2>3. r + k \in 0 .. B - 1
    BY ONLY <1>4, <1>9, <1>12, <1>14, r \in Nat
  <2>4. PICK q \in Nat : q = r + k
    BY ONLY <1>9, r \in Nat
  <2>5. ReadUpTo(m, q)'
    <3>1. /\ m = Len(blocks') * block_size[job'.h] /\ q \in 0 .. block_size[job'.h] - 1
          /\ m + (q) <= Len(job'.text)
      BY <1>1, <1>6, <1>10, <1>11, <2>1, <2>3, <2>4, Zenon DEF B, h, text
    <3>2. md'.length = 8 * m /\ md'.buf = Stretch(job'.text, m, m + (q))
      BY <1>1, <1>6, <1>10, <1>12, <2>2, <2>4, Zenon DEF text
    <3>3. pieces' \in Seq(Seq(Byte)) /\ Lies(pieces', m + (q), job'.text)
      BY <1>1, <1>10, <1>11, <2>4, Zenon DEF text
    <3>4. QED BY <3>1, <3>2, <3>3, Zenon DEF ReadUpTo
  <2>6. Where' = "process" /\ Stage("process")'
    <3>1. Reading'
      BY <2>5 DEF Reading
    <3>2. QED BY <1>1, <2>1, <3>1 DEF Stage, Where
  <2>7. Begin(blocks, Whole(job.h, job.text))'
    BY <1>1, <1>3, <2>1 DEF all, h, text, Begin, Whole
  <2>8. QED BY <1>1, <1>3, <2>2, <2>6, <2>7 DEF Busy
<1>15. QED BY <1>13, <1>14

\* What is left when the text is read
LEMMA RestOfText ==
  ASSUME Busy, at = "process", pieces = <<>>
  PROVE  \E m \in Nat, r \in 0 .. block_size[job.h] - 1 :
           /\ BlocksOf(job.h, job.text, Len(blocks), r) /\ m = Len(blocks) * block_size[job.h]
           /\ Len(job.text) = m + r /\ Len(blocks) \in Nat
           /\ md.buf \o <<128>> = One(job.text, m) /\ Len(md.buf \o <<128>>) = r + 1
           /\ md.length + 8 * Len(md.buf) = 8 * Len(job.text)
<1> DEFINE h == job.h
           text == job.text
           B == block_size[h]
<1>1. job \in Jobs /\ MdIs /\ Begin(blocks, Whole(h, text)) /\ Reading
  BY DEF Busy, Where, Stage
<1>2. h \in DOMAIN block_size /\ B \in {64, 128} /\ text \in Seq(Byte) /\ Len(text) \in Nat
  BY <1>1, JobTexts
<1>3. PICK m \in Nat, r \in Nat : ReadUpTo(m, r)
  BY <1>1 DEF Reading
<1>4. /\ m = Len(blocks) * B /\ r \in 0 .. B - 1 /\ m + r <= Len(text) /\ Len(blocks) \in Nat
      /\ md.length = 8 * m /\ md.buf = Stretch(text, m, m + r) /\ Lies(<<>>, m + r, text)
  BY <1>1, <1>3 DEF ReadUpTo, Begin
<1>5. Len(text) = m + r
  BY <1>4, LiesNone
<1> HIDE DEF h, text, B
<1>6. md.buf = Stretch(text, m, Len(text)) /\ Len(md.buf) = r
  <2>1. PICK x \in Nat : x = Len(text) /\ x = m + r
    BY <1>2, <1>5
  <2>2. m <= x /\ x <= Len(text) /\ x - m = r
    BY ONLY <2>1, m \in Nat, r \in Nat
  <2>3. Len(Stretch(text, m, x)) = x - m
    BY ONLY <1>2, <2>2, m \in Nat, x \in Nat, StretchIs
  <2>4. QED BY <1>4, <2>1, <2>2, <2>3, Zenon
<1>7. md.buf \o <<128>> = One(text, m)
  BY <1>6, Zenon DEF One
<1>8. Len(One(text, m)) = r + 1
  <2>1. One(text, m) \in Seq(Byte) /\ EndsText(One(text, m), text, m, r)
    BY ONLY <1>2, <1>5, m \in Nat, r \in Nat, OneIs
  <2>2. QED BY <2>1, Zenon DEF EndsText
<1>9. BlocksOf(h, text, Len(blocks), r)
  <2>1. Split(h, text, Len(blocks), r)
    BY <1>4, <1>5, Zenon DEF Split, B
  <2>2. r \in 0 .. block_size[h] - 1 /\ Len(blocks) \in Nat
    BY <1>4, Zenon DEF B
  <2>3. QED BY <1>2, <2>1, <2>2, BlocksAre, Zenon
<1>10. md.length + 8 * Len(md.buf) = 8 * Len(text)
  <2>1. md.length + 8 * r = 8 * (m + r)
    BY <1>4
  <2>2. QED BY <1>5, <1>6, <2>1
<1>11. QED BY <1>4, <1>5, <1>7, <1>8, <1>9, <1>10, Zenon DEF h, text, B

LEMMA DoneStep == ASSUME Busy, Done PROVE Busy'
<1> DEFINE h == job.h
           text == job.text
           all == Whole(h, text)
           one == md.buf \o <<128>>
           bits == md.length + 8 * Len(md.buf)
           N == Len(blocks)
<1>1. /\ at = "process" /\ pieces = <<>> /\ job' = job
      /\ md' = [md EXCEPT !.buf = <<>>, !.length = bits]
      /\ Spills(Len(one)) => Compress(one \o Zeros(block_size[job.h] - Len(one)), "close")
      /\ ~Spills(Len(one)) => Compress(Padded(one, bits), "out")
  BY DEF Done
<1>2. PICK m \in Nat, r \in 0 .. block_size[h] - 1 :
        /\ BlocksOf(h, text, N, r) /\ m = N * block_size[h]
        /\ Len(text) = m + r /\ N \in Nat
        /\ one = One(text, m) /\ Len(one) = r + 1
        /\ bits = 8 * Len(text)
  BY <1>1, RestOfText
<1>3. /\ Len(all) = IF r + 1 > LengthAt(h) THEN N + 2 ELSE N + 1
      /\ ~(r + 1 > LengthAt(h)) => all[N + 1] = Ended(one, h, bits)
      /\ r + 1 > LengthAt(h) => /\ all[N + 1] = one \o Zeros(block_size[h] - Len(one))
                                /\ all[N + 2] = Ended(<<>>, h, bits)
  <2>1. one = One(text, N * block_size[h]) /\ bits = 8 * Len(text)
    BY <1>2, Zenon
  <2> HIDE DEF one, bits, all, h, text, N
  <2>2. QED BY <1>2, <2>1, Zenon DEF BlocksOf, all
<1>4. Spills(Len(one)) <=> r + 1 > LengthAt(h)
  BY <1>2 DEF Spills
<1>5. MdIs' /\ md'.length = bits
  <2>1. MdIs
    BY DEF Busy
  <2>2. QED BY <1>1, <2>1 DEF MdIs
<1>6. all' = all /\ text' = text /\ h' = h
  BY <1>1 DEF Whole
<1> HIDE DEF h, text, all, one, bits, N
<1>7. CASE r + 1 > LengthAt(h)
  <2>1. Compress(one \o Zeros(block_size[job.h] - Len(one)), "close")
    BY <1>1, <1>4, <1>7
  <2>2. /\ Len(all) = N + 2 /\ N + 1 <= Len(all) /\ all[N + 2] = Ended(<<>>, h, bits)
        /\ all[N + 1] = one \o Zeros(block_size[h] - Len(one))
    BY <1>2, <1>3, <1>7
  <2>3. /\ Begin(blocks, Whole(job.h, job.text))' /\ Len(blocks') = Len(blocks) + 1
        /\ Where' = "close" /\ job' \in Jobs
    <3>1. Len(blocks) + 1 <= Len(Whole(job.h, job.text))
          /\ one \o Zeros(block_size[job.h] - Len(one)) = Whole(job.h, job.text)[Len(blocks) + 1]
      BY <2>2 DEF all, h, text, N
    <3>2. "close" \in {"process", "close", "out"}
      OBVIOUS
    <3>3. QED BY <1>1, <2>1, <3>1, <3>2, Compressed
  <2>4. Closing'
    <3>1. PICK n \in Nat : n = N
      BY <1>2
    <3>2. Len(blocks') = n + 1 /\ Len(all) = (n + 1) + 1 /\ all[(n + 1) + 1] = Ended(<<>>, h, bits)
      BY <2>2, <2>3, <3>1 DEF N
    <3>3. h' = h
      BY <1>6
    <3>4. Ended(<<>>, h, bits) = Ended(<<>>, job.h, bits) /\ job' = job
      BY <1>1 DEF h
    <3>5. md'.length = 8 * Len(job'.text)
      BY <1>1, <1>2, <1>5 DEF text
    <3>6. all = Whole(job'.h, job'.text) /\ h = job'.h
      BY <1>1 DEF all, h, text
    <3>7. \A x : Ended(<<>>, x, bits)' = Ended(<<>>, x, bits')
      OBVIOUS
    <3>8. QED BY <1>5, <3>2, <3>5, <3>6, Zenon DEF Closing, Ended, LengthBytes, Whole, PaddedText
  <2>5. QED BY <1>5, <2>3, <2>4 DEF Busy, Stage
<1>8. CASE ~(r + 1 > LengthAt(h))
  <2>1. Compress(Padded(one, bits), "out")
    BY <1>1, <1>4, <1>8
  <2>2. Len(all) = N + 1 /\ N + 1 <= Len(all) /\ all[N + 1] = Ended(one, h, bits)
    BY <1>2, <1>3, <1>8
  <2>3. Padded(one, bits) = Ended(one, h, bits)
    BY Zenon DEF Padded, Ended, LengthBytes, h
  <2>4. /\ Begin(blocks, Whole(job.h, job.text))' /\ Len(blocks') = Len(blocks) + 1
        /\ Where' = "out" /\ job' \in Jobs
    <3>1. Len(blocks) + 1 <= Len(Whole(job.h, job.text))
          /\ Padded(one, bits) = Whole(job.h, job.text)[Len(blocks) + 1]
      BY <2>2, <2>3 DEF all, h, text, N
    <3>2. "out" \in {"process", "close", "out"}
      OBVIOUS
    <3>3. QED BY <1>1, <2>1, <3>1, <3>2, Compressed
  <2>5. AtEnd'
    BY <1>6, <2>2, <2>4 DEF AtEnd, all, h, text, N
  <2>6. QED BY <1>5, <2>4, <2>5 DEF Busy, Stage
<1>9. QED BY <1>7, <1>8

LEMMA CloseStep == ASSUME Busy, Close PROVE Busy'
<1> DEFINE all == Whole(job.h, job.text)
<1>1. at = "close" /\ Compress(Padded(<<>>, md.length), "out") /\ job' = job /\ md' = md
  BY DEF Close
<1>2. Closing /\ MdIs /\ Len(blocks) \in Nat
  BY <1>1 DEF Busy, Where, Stage, Begin
<1>3. Len(all) = Len(blocks) + 1 /\ all[Len(blocks) + 1] = Ended(<<>>, job.h, md.length)
  BY <1>2, Zenon DEF Closing
<1>4. Padded(<<>>, md.length) = Ended(<<>>, job.h, md.length)
  BY Zenon DEF Padded, Ended, LengthBytes
<1>5. all' = all
  BY <1>1 DEF Whole
<1> HIDE DEF all
<1>6. /\ Begin(blocks, Whole(job.h, job.text))' /\ Len(blocks') = Len(blocks) + 1
      /\ Where' = "out" /\ job' \in Jobs
  <2>1. Len(blocks) + 1 <= Len(all)
    BY <1>2, <1>3
  <2>2. Len(blocks) + 1 <= Len(Whole(job.h, job.text))
        /\ Padded(<<>>, md.length) = Whole(job.h, job.text)[Len(blocks) + 1]
    BY <1>3, <1>4, <2>1 DEF all
  <2>3. "out" \in {"process", "close", "out"}
    OBVIOUS
  <2>4. QED BY <1>1, <2>2, <2>3, Compressed
<1>7. MdIs'
  BY <1>1, <1>2 DEF MdIs
<1>8. AtEnd'
  BY <1>3, <1>5, <1>6 DEF AtEnd, all
<1>9. QED BY <1>6, <1>7, <1>8 DEF Busy, Stage

\* The rounds of a compression move neither text nor blocks
LEMMA RoundsStep ==
  ASSUME Busy, \/ Round
               \/ Feedback
               \/ UNCHANGED digestVars
  PROVE  Busy'
<1>1. /\ UNCHANGED <<job, pieces, blocks>> /\ Where' = Where
      /\ MdIs' /\ md'.buf = md.buf /\ md'.length = md.length
  <2>1. MdIs /\ Where \in {"process", "close", "out"}
    BY DEF Busy
  <2>2. CASE Round
    BY <2>1, <2>2 DEF Round, Where, MdIs
  <2>3. CASE Feedback
    BY <2>1, <2>3 DEF Feedback, Where, MdIs
  <2>4. CASE UNCHANGED digestVars
    BY <2>1, <2>4 DEF digestVars, Where, MdIs
  <2>5. QED BY <2>2, <2>3, <2>4
<1>2. Begin(blocks, Whole(job.h, job.text))'
  BY <1>1 DEF Busy, Begin, Whole
<1>3. Stage(Where)'
  <2>1. Reading => Reading'
    <3>1. \A m, r \in Nat : ReadUpTo(m, r) => ReadUpTo(m, r)'
      BY <1>1, Zenon DEF ReadUpTo
    <3>2. QED BY <3>1 DEF Reading
  <2>2. Closing => Closing'
    BY <1>1, Zenon DEF Closing, Whole, Ended, LengthBytes, PaddedText
  <2>3. AtEnd => AtEnd'
    BY <1>1 DEF AtEnd, Whole
  <2>4. QED BY <1>1, <2>1, <2>2, <2>3 DEF Busy, Stage
<1>4. QED BY <1>1, <1>2, <1>3 DEF Busy

LEMMA DigestStep == DigestInv /\ [DigestNext]_digestVars => DigestInv'
<1>1. SUFFICES ASSUME DigestInv, [DigestNext]_digestVars PROVE DigestInv'
  OBVIOUS
<1>2. CASE at = "idle" /\ job = [h |-> "none"]
  <2>1. UNCHANGED digestVars
    BY <1>1, <1>2 DEF DigestNext, Process, Round, Feedback, Done, Close
  <2>2. QED BY <1>2, <2>1 DEF DigestInv, digestVars
<1>3. CASE Busy
  <2>1. Busy'
    BY <1>1, <1>3, ProcessStep, DoneStep, CloseStep, RoundsStep DEF DigestNext
  <2>2. QED BY <2>1 DEF Busy, DigestInv
<1>4. QED BY <1>1, <1>2, <1>3 DEF DigestInv, Busy

LEMMA BlocksFollow == DigestInv => BlocksOfText
<1>1. SUFFICES ASSUME DigestInv, job.h \in DOMAIN block_size
               PROVE  LET all == Whole(job.h, job.text)
                      IN  IF at = "out" THEN blocks = all ELSE blocks = SubSeq(all, 1, Len(blocks))
  BY DEF BlocksOfText, Whole
<1>2. Busy
  <2>1. job # [h |-> "none"]
    BY <1>1 DEF block_size
  <2>2. QED BY <1>1, <2>1 DEF DigestInv, Busy
<1> DEFINE all == Whole(job.h, job.text)
<1>3. blocks = SubSeq(all, 1, Len(blocks))
  BY <1>2 DEF Busy, Begin
<1>4. CASE at = "out"
  <2>1. Len(blocks) = Len(all)
    BY <1>2, <1>4 DEF Busy, Where, Stage, AtEnd
  <2>2. PICK S : all \in Seq(S)
    <3>1. job.h \in DOMAIN block_size /\ job.text \in Seq(Byte)
      BY <1>2, JobTexts DEF Busy
    <3>2. QED BY <3>1, Splits, Zenon
  <2> HIDE DEF all
  <2>3. SubSeq(all, 1, Len(all)) = all
    BY <2>2, SubSeqFull
  <2>4. QED BY <1>3, <1>4, <2>1, <2>3 DEF all
<1>5. QED BY <1>3, <1>4

\* The blocks compressed are, in order, those of the padded text, all of them when the digest is ready: for
\* MD5, SHA-1 and SHA-512, any text and any cutting of it into calls of md5_process and its like
THEOREM BlocksAreOfText == AgreementSpec => []BlocksOfText
<1>1. AgreementInit => DigestInv
  <2>1. DigestIdle => DigestInv
    BY DEF DigestIdle, DigestInv
  <2>2. QED BY <2>1, DigestInitial DEF AgreementInit, HashInit, HashesIdle
<1>2. DigestInv /\ [AgreementNext]_<<vars, hashVars, tableVars, chunkVars>> => DigestInv'
  <2>1. [AgreementNext]_<<vars, hashVars, tableVars, chunkVars>> => [DigestNext]_digestVars
    <3>1. UNCHANGED hashVars => UNCHANGED digestVars
      BY DEF hashVars
    <3>2. HashNext => [DigestNext]_digestVars
      BY DEF HashNext
    <3>3. QED BY <3>1, <3>2 DEF AgreementNext
  <2>2. QED BY <2>1, DigestStep
<1>3. QED BY <1>1, <1>2, BlocksFollow, PTL DEF AgreementSpec

-----------------------------------------------------------------------------
(* Keyed hashes.  The running hash of a text, block by block: that of vhash, *)
(* and that of vhash_update, which starts at any whole block.                *)

PartOf(m, j) == SubSeq(m, (j - 1) * NhBytes + 1, IF j * NhBytes < Len(m) THEN j * NhBytes ELSE Len(m))
NhParts(m) == Len(m) \div NhBytes + (IF Len(m) % NhBytes = 0 THEN 0 ELSE 1)
VhashAt(v, m, ctx, t, j) ==
  CASE j = 0 -> ctx.polykey[t]
    [] j = 1 -> Add(Nh(PartOf(m, 1), ctx, t), ctx.polykey[t])
    [] OTHER -> poly_step(v[j - 1], ctx.polykey[t], Nh(PartOf(m, j), ctx, t))
RunOf(v, m, ctx, t, n) == v = [j \in 0 .. n |-> VhashAt(v, m, ctx, t, j)]
Running(m, ctx, t) == CHOOSE v : v = [j \in 0 .. NhParts(m) |-> VhashAt(v, m, ctx, t, j)]

LEMMA RunExists ==
  ASSUME NEW m, NEW ctx, NEW t, NEW n \in Nat
  PROVE  \E v : RunOf(v, m, ctx, t, n)
<1> DEFINE A == {k \in Nat : \E v : v = [j \in 0 .. k |-> VhashAt(v, m, ctx, t, j)]}
<1>1. 0 \in A
  <2> DEFINE v == [j \in 0 .. 0 |-> ctx.polykey[t]]
  <2>1. v = [j \in 0 .. 0 |-> VhashAt(v, m, ctx, t, j)]
    <3>1. \A j \in 0 .. 0 : j = 0
      OBVIOUS
    <3>2. \A u : VhashAt(u, m, ctx, t, 0) = ctx.polykey[t]
      BY DEF VhashAt
    <3>3. QED BY <3>1, <3>2
  <2> HIDE DEF v
  <2>2. QED BY <2>1
<1>2. ASSUME NEW k \in Nat, k \in A PROVE k + 1 \in A
  <2>1. PICK v : v = [j \in 0 .. k |-> VhashAt(v, m, ctx, t, j)]
    BY <1>2
  <2> DEFINE S == 0 .. k + 1
             w == [j \in S |-> IF j <= k THEN v[j] ELSE VhashAt(v, m, ctx, t, j)]
  <2>2. ASSUME NEW j \in S PROVE w[j] = VhashAt(w, m, ctx, t, j)
    <3>1. w[j] = VhashAt(v, m, ctx, t, j)
      <4>1. CASE j <= k
        <5>1. j \in 0 .. k /\ w[j] = v[j]
          BY <4>1
        <5> HIDE DEF w
        <5>2. v[j] = VhashAt(v, m, ctx, t, j)
          BY <2>1, <5>1, Zenon
        <5>3. QED BY <5>1, <5>2
      <4>2. CASE ~(j <= k)
        BY <4>2
      <4>3. QED BY <4>1, <4>2
    <3>2. CASE j = 0 \/ j = 1
      <4>1. \A u : VhashAt(u, m, ctx, t, j) = VhashAt(v, m, ctx, t, j)
        BY <3>2 DEF VhashAt
      <4> HIDE DEF w
      <4>2. QED BY <3>1, <4>1
    <3>3. CASE ~(j = 0 \/ j = 1)
      <4>1. j - 1 \in S /\ j - 1 <= k
        BY <3>3
      <4>2. w[j - 1] = v[j - 1]
        BY <4>1
      <4> HIDE DEF w
      <4>3. QED BY <3>1, <3>3, <4>2 DEF VhashAt
    <3>4. QED BY <3>2, <3>3
  <2>3. w = [j \in S |-> w[j]]
    OBVIOUS
  <2> HIDE DEF w
  <2>4. w = [j \in S |-> VhashAt(w, m, ctx, t, j)]
    BY <2>2, <2>3
  <2>5. QED BY <2>4
<1>3. n \in A
  <2> HIDE DEF A
  <2>1. QED BY <1>1, <1>2, AllNumbers
<1>4. QED BY <1>3, Zenon DEF RunOf

\* What the running hash is after each block, and that vhash ends with it
RunLaw(v, m, ctx, t) ==
  /\ v[0] = ctx.polykey[t]
  /\ NhParts(m) >= 1 => v[1] = Add(Nh(PartOf(m, 1), ctx, t), ctx.polykey[t])
  /\ \A j \in 2 .. NhParts(m) : v[j] = poly_step(v[j - 1], ctx.polykey[t], Nh(PartOf(m, j), ctx, t))

LEMMA RunIs ==
  ASSUME NEW m \in Seq(Byte), NEW ctx, NEW t
  PROVE  RunLaw(Running(m, ctx, t), m, ctx, t) /\ NhParts(m) \in Nat
<1> DEFINE v == Running(m, ctx, t)
           n == NhParts(m)
<1>1. n \in Nat
  <2>1. Len(m) \in Int /\ Len(m) >= 0 /\ NhBytes \in Nat /\ NhBytes >= 1
    BY LenProperties, ObjectsAssumption
  <2>2. Len(m) \div NhBytes \in Int /\ Len(m) \div NhBytes >= 0
    BY ONLY <2>1, DivMod
  <2>3. QED BY <2>2 DEF NhParts
<1>2. v = [j \in 0 .. n |-> VhashAt(v, m, ctx, t, j)]
  <2>1. \E u : RunOf(u, m, ctx, t, n)
    <3> HIDE DEF n
    <3>1. QED BY <1>1, RunExists, Zenon
  <2>2. QED BY <2>1, Zenon DEF Running, RunOf
<1> HIDE DEF v, n
<1>3. \A j \in 0 .. n : v[j] = VhashAt(v, m, ctx, t, j)
  BY <1>2, Zenon
<1>4. v[0] = ctx.polykey[t]
  <2>1. 0 \in 0 .. n
    BY <1>1
  <2>2. QED BY <1>3, <2>1 DEF VhashAt
<1>5. ASSUME n >= 1 PROVE v[1] = Add(Nh(PartOf(m, 1), ctx, t), ctx.polykey[t])
  <2>1. 1 \in 0 .. n
    BY <1>1, <1>5
  <2>2. QED BY <1>3, <2>1 DEF VhashAt
<1>6. ASSUME NEW j \in 2 .. n PROVE v[j] = poly_step(v[j - 1], ctx.polykey[t], Nh(PartOf(m, j), ctx, t))
  <2>1. j \in 0 .. n /\ j # 0 /\ j # 1
    BY <1>1
  <2>2. QED BY <1>3, <2>1 DEF VhashAt
<1>7. QED BY <1>1, <1>4, <1>5, <1>6 DEF RunLaw, v, n

LEMMA VhashRuns ==
  ASSUME NEW m, NEW ctx, NEW t
  PROVE  VhashHalf(m, ctx, t) = l3hash(Running(m, ctx, t)[NhParts(m)], ctx.l3key[t], 8 * (Len(m) % NhBytes))
BY Zenon DEF VhashHalf, Running, VhashAt, NhParts, PartOf

UpdateAt(c, h, m, t, j) ==
  CASE j = 0 -> h.polytmp[t]
    [] j = 1 /\ ~h.first -> Add(Nh(Blocks(m)[1], h.ctx, t), h.polytmp[t])
    [] OTHER -> poly_step(c[j - 1], h.ctx.polykey[t], Nh(Blocks(m)[j], h.ctx, t))
FirstOf(h) == IF h.first THEN 0 ELSE 1
Updated(h, m, t) == CHOOSE c : c = [j \in FirstOf(h) .. Len(Blocks(m)) |-> UpdateAt(c, h, m, t, j)]

LEMMA UpdateRuns ==
  ASSUME NEW h, NEW m, NEW t
  PROVE  UpdateHalf(h, m, t) = Updated(h, m, t)[Len(Blocks(m))]
BY DEF UpdateHalf, Updated, UpdateAt, FirstOf

\* A run of vhash_update that starts where the running hash of the whole text is known, goes on like it
PartsFrom(c, m, N, M) == Len(c) = M /\ \A i \in 1 .. M : c[i] = PartOf(m, N + i)
GoesOn(h, ctx, v, m, N, M, t) ==
  /\ N \in Nat /\ M \in Nat /\ NhParts(m) \in Nat /\ N + M <= NhParts(m)
  /\ h.ctx = ctx /\ h.first \in BOOLEAN /\ h.polytmp[t] = v[N]
  /\ (h.first <=> N >= 1) /\ (h.first \/ M >= 1)
ComesTo(h, x, t, v, N, M) == UpdateHalf(h, x, t) = v[N + M]

LEMMA UpdatesGoOn ==
  ASSUME NEW m, NEW ctx, NEW t \in {1, 2}, NEW v, RunLaw(v, m, ctx, t),
         NEW h, NEW x, NEW N, NEW M, PartsFrom(Blocks(x), m, N, M), GoesOn(h, ctx, v, m, N, M, t)
  PROVE  ComesTo(h, x, t, v, N, M)
<1> DEFINE D == FirstOf(h) .. M
           f == [j \in D |-> v[N + j]]
           c == Updated(h, x, t)
<1>a. /\ N \in Nat /\ M \in Nat /\ NhParts(m) \in Nat /\ N + M <= NhParts(m)
      /\ h.ctx = ctx /\ h.first \in BOOLEAN /\ h.polytmp[t] = v[N]
      /\ (h.first <=> N >= 1) /\ (h.first \/ M >= 1)
      /\ Len(Blocks(x)) = M /\ \A i \in 1 .. M : Blocks(x)[i] = PartOf(m, N + i)
  BY Zenon DEF GoesOn, PartsFrom
<1>0. FirstOf(h) \in {0, 1} /\ (h.first <=> FirstOf(h) = 0) /\ M \in D
  BY <1>a DEF FirstOf
<1>1. ASSUME NEW u, NEW j \in D, j - 1 \in D => u[j - 1] = v[N + (j - 1)]
      PROVE  UpdateAt(u, h, x, t, j) = v[N + j]
  <2>1. CASE j = 0
    <3>1. UpdateAt(u, h, x, t, j) = h.polytmp[t] /\ N + j = N
      BY <1>a, <2>1 DEF UpdateAt
    <3>2. QED BY <1>a, <3>1
  <2>2. CASE j = 1 /\ ~h.first
    <3>1. N = 0 /\ 1 \in 1 .. M /\ NhParts(m) >= 1 /\ N + 1 = 1 /\ N + j = 1
      BY <1>a, <1>0, <2>2
    <3>2. UpdateAt(u, h, x, t, j) = Add(Nh(Blocks(x)[1], h.ctx, t), h.polytmp[t])
      BY <1>a, <2>2 DEF UpdateAt
    <3>3. Blocks(x)[1] = PartOf(m, 1) /\ h.polytmp[t] = ctx.polykey[t]
      BY <1>a, <3>1 DEF RunLaw
    <3>4. v[1] = Add(Nh(PartOf(m, 1), ctx, t), ctx.polykey[t])
      BY <3>1, Zenon DEF RunLaw
    <3>5. QED BY <1>a, <3>1, <3>2, <3>3, <3>4
  <2>3. CASE ~(j = 0) /\ ~(j = 1 /\ ~h.first)
    <3>0. N \in Nat /\ M \in Nat /\ j \in 1 .. M /\ j - 1 \in D /\ (N >= 1 \/ j >= 2)
      <4>1. N \in Nat /\ M \in Nat /\ FirstOf(h) \in {0, 1} /\ j \in FirstOf(h) .. M /\ j # 0
        BY <1>a, <1>0, <2>3
      <4>2. (FirstOf(h) = 0 /\ N >= 1) \/ (FirstOf(h) = 1 /\ j # 1)
        BY <1>a, <1>0, <2>3, <4>1, Zenon
      <4>3. QED BY ONLY <4>1, <4>2
    <3>a. NhParts(m) \in Nat /\ N + M <= NhParts(m)
      BY <1>a
    <3>b. N + j \in 2 .. NhParts(m) /\ (N + j) - 1 = N + (j - 1)
      BY ONLY <3>0, <3>a
    <3>1. PICK k : k = N + j /\ k \in 2 .. NhParts(m) /\ k - 1 = N + (j - 1) /\ j - 1 \in D /\ j \in 1 .. M
      BY ONLY <3>0, <3>b, Zenon
    <3>2. UpdateAt(u, h, x, t, j) = poly_step(u[j - 1], h.ctx.polykey[t], Nh(Blocks(x)[j], h.ctx, t))
      BY <2>3, Zenon DEF UpdateAt
    <3>3. Blocks(x)[j] = PartOf(m, k) /\ u[j - 1] = v[k - 1]
      BY <1>a, <1>1, <3>1
    <3>4. v[k] = poly_step(v[k - 1], ctx.polykey[t], Nh(PartOf(m, k), ctx, t))
      BY <3>1, Zenon DEF RunLaw
    <3>5. QED BY <1>a, <3>1, <3>2, <3>3, <3>4
  <2>4. QED BY <2>1, <2>2, <2>3
<1>2. c = [j \in D |-> UpdateAt(c, h, x, t, j)]
  <2>1. \A j \in D : f[j] = UpdateAt(f, h, x, t, j)
    <3>1. \A j \in D : f[j] = v[N + j]
      OBVIOUS
    <3> HIDE DEF f, D
    <3>2. QED BY <1>1, <3>1
  <2>2. f = [j \in D |-> f[j]]
    OBVIOUS
  <2> HIDE DEF f
  <2>3. f = [j \in D |-> UpdateAt(f, h, x, t, j)]
    BY <2>1, <2>2
  <2>4. QED BY <1>a, <2>3 DEF Updated
<1> HIDE DEF c, f
<1>3. \A j \in D : c[j] = UpdateAt(c, h, x, t, j)
  <2> HIDE DEF D
  <2>1. QED BY <1>2, Zenon
<1> DEFINE A == {k \in Nat : k \in D => c[k] = v[N + k]}
<1>4. 0 \in A
  <2>1. SUFFICES ASSUME 0 \in D PROVE c[0] = v[N + 0]
    OBVIOUS
  <2>2. 0 - 1 \notin D
    BY <1>0
  <2> HIDE DEF D
  <2>3. QED BY <1>1, <1>3, <2>1, <2>2
<1>5. ASSUME NEW k \in Nat, k \in A PROVE k + 1 \in A
  <2>1. SUFFICES ASSUME k + 1 \in D PROVE c[k + 1] = v[N + (k + 1)]
    OBVIOUS
  <2>2. PICK j : j = k + 1 /\ j \in D /\ j - 1 = k
    BY <2>1
  <2>3. j - 1 \in D => c[j - 1] = v[N + (j - 1)]
    BY <1>5, <2>2
  <2> HIDE DEF D, A
  <2>4. c[j] = v[N + j]
    BY <1>1, <1>3, <2>2, <2>3
  <2>5. QED BY <2>2, <2>4
<1>6. c[M] = v[N + M]
  <2>1. M \in A
    <3> HIDE DEF A
    <3>1. QED BY <1>a, <1>4, <1>5, AllNumbers
  <2>2. QED BY <1>a, <1>0, <2>1
<1>7. QED BY <1>a, <1>6, UpdateRuns DEF c, ComesTo

\* The blocks of a part of a text are parts of the text
PartAt(j, a, b, m) ==
  /\ a = (j - 1) * NhBytes /\ b <= Len(m)
  /\ j * NhBytes = b \/ (j * NhBytes > Len(m) /\ b = Len(m))

LEMMA PartIs ==
  ASSUME NEW m \in Seq(Byte), NEW j \in Nat, NEW a \in Nat, NEW b \in Nat, PartAt(j, a, b, m)
  PROVE  PartOf(m, j) = Stretch(m, a, b)
<1>1. PICK e : e = j * NhBytes /\ e \in Nat
  BY ObjectsAssumption
<1>2. Len(m) \in Nat
  BY LenProperties
<1>3. (IF e < Len(m) THEN e ELSE Len(m)) = b
  BY <1>1, <1>2 DEF PartAt
<1>4. PartOf(m, j) = SubSeq(m, a + 1, IF e < Len(m) THEN e ELSE Len(m))
  BY <1>1, Zenon DEF PartOf, PartAt
<1>5. QED BY <1>3, <1>4, Zenon DEF Stretch

LEMMA PartsAre ==
  ASSUME NEW m \in Seq(Byte), NEW N \in Nat, NEW M \in Nat, NEW q \in 0 .. NhBytes - 1,
         NEW a \in Nat, NEW b \in Nat, a = N * NhBytes, b = a + (M * NhBytes + q), b <= Len(m)
  PROVE  PartsFrom(Blocks(Stretch(m, a, b)), m, N, M)
<1> DEFINE B == NhBytes
           s == Stretch(m, a, b)
           c == Cut(s, B)
<1>1. B \in Nat /\ B >= 1
  BY ObjectsAssumption
<1>2. PICK w \in Nat : w = M * B + q /\ b = a + w /\ a <= b /\ b - a = w
  <2>1. M * B \in Nat
    BY <1>1
  <2>2. PICK z \in Nat : z = M * B
    BY <2>1
  <2>3. z + q \in Nat
    <3>1. q \in 0 .. B - 1
      OBVIOUS
    <3>2. QED BY ONLY <1>1, <3>1, z \in Nat
  <2>4. b = a + (z + q)
    BY <2>2, Zenon
  <2>5. z + q = M * B + q /\ a <= b /\ b - a = z + q
    <3>1. a <= b /\ b - a = z + q
      BY ONLY <2>3, <2>4, a \in Nat, b \in Nat
    <3>2. QED BY <2>2, <3>1, Zenon
  <2>6. QED BY ONLY <2>3, <2>4, <2>5, Zenon
<1>3. s \in Seq(Byte) /\ Len(s) = w
  BY ONLY <1>2, StretchIs, m \in Seq(Byte), a \in Nat, b \in Nat, b <= Len(m)
<1>4. CutInto(c, s, B, M)
  <2>1. Len(s) = M * B + q
    BY <1>2, <1>3
  <2> HIDE DEF s, B
  <2>2. q \in 0 .. B - 1
    BY DEF B
  <2>3. CutInto(Cut(s, B), s, B, M)
    BY ONLY <1>1, <1>3, <2>1, <2>2, M \in Nat, BlocksCut
  <2>4. QED BY <2>3
<1> HIDE DEF c, s, B
<1>5. ASSUME NEW i \in 1 .. M PROVE c[i] = PartOf(m, N + i)
  <2>1. PICK p \in Nat, r \in Nat : /\ p = (i - 1) * B /\ r = i * B /\ r = p + B /\ r <= Len(s)
                                    /\ c[i] = Stretch(s, p, r)
    BY <1>4, Zenon DEF CutInto
  <2>2. p <= r /\ a + r <= b /\ a + p \in Nat /\ a + r \in Nat
    BY ONLY <1>1, <1>2, <1>3, <2>1, a \in Nat
  <2>3. Stretch(s, p, r) = Stretch(m, a + p, a + r)
    <3>1. a <= b
      BY <1>2
    <3>2. Stretch(Stretch(m, a, b), p, r) = Stretch(m, a + p, a + r)
      BY ONLY <2>2, <3>1, StretchOfStretch, m \in Seq(Byte), a \in Nat, b \in Nat, b <= Len(m), p \in Nat, r \in Nat
    <3>3. QED BY <3>2 DEF s
  <2>4. a + p = (N + i - 1) * B /\ a + r = (N + i) * B
    <3>1. a = N * B
      BY DEF B
    <3>2. (N + i - 1) * B = N * B + (i - 1) * B /\ (N + i) * B = N * B + i * B
      BY ONLY <1>1, N \in Nat, i \in 1 .. M, M \in Nat
    <3>3. QED BY ONLY <2>1, <3>1, <3>2, Zenon
  <2>5. a + r <= Len(m)
    BY ONLY <2>2, b <= Len(m), a \in Nat, r \in Nat, b \in Nat, LenProperties, m \in Seq(Byte)
  <2>6. PartOf(m, N + i) = Stretch(m, a + p, a + r)
    <3>1. N + i \in Nat /\ N + i - 1 = (N + i) - 1
      OBVIOUS
    <3>2. a + p = ((N + i) - 1) * NhBytes /\ (N + i) * NhBytes = a + r
      BY <2>4, <3>1, Zenon DEF B
    <3>3. PartAt(N + i, a + p, a + r, m)
      BY ONLY <2>5, <3>2, Zenon DEF PartAt
    <3>4. a + p \in Nat /\ a + r \in Nat /\ m \in Seq(Byte)
      BY <2>2
    <3>5. PICK j \in Nat, d \in Nat, e \in Nat : /\ j = N + i /\ d = a + p /\ e = a + r
                                                 /\ PartAt(j, d, e, m)
      BY ONLY <3>1, <3>3, <3>4, Zenon
    <3>6. PartOf(m, j) = Stretch(m, d, e)
      BY ONLY <3>4, <3>5, PartIs, j \in Nat, d \in Nat, e \in Nat
    <3>7. QED BY ONLY <3>5, <3>6, Zenon
  <2>7. QED BY <2>1, <2>3, <2>6, Zenon
<1>6. Len(c) = M
  BY <1>4 DEF CutInto
<1>7. Blocks(s) = c
  BY DEF Blocks, c, B
<1>8. QED BY <1>5, <1>6, <1>7 DEF PartsFrom, s

\* A text whose first N blocks go through vhash_update; M blocks and q bytes are left
SplitAt(m, n, N, M, q) ==
  /\ N \in Nat /\ M \in Nat /\ n \in Nat /\ q \in 0 .. NhBytes - 1
  /\ n = N * NhBytes /\ Len(m) = n + (M * NhBytes + q) /\ n <= Len(m)
  /\ Len(m) % NhBytes = q /\ NhParts(m) = N + M + (IF q = 0 THEN 0 ELSE 1)

LEMMA SplitExists ==
  ASSUME NEW m \in Seq(Byte), NEW N \in 0 .. (Len(m) \div NhBytes)
  PROVE  \E M, q : SplitAt(m, NhBytes * N, N, M, q)
<1>1. PICK B, l : B = NhBytes /\ B \in Nat /\ B >= 1 /\ l = Len(m) /\ l \in Nat
  BY LenProperties, ObjectsAssumption
<1>2. PICK d, q : d = l \div B /\ q = l % B /\ d \in Int /\ d >= 0 /\ q \in 0 .. B - 1 /\ l = B * d + q
  <2>1. /\ l \div B \in Int /\ l % B \in 0 .. B - 1 /\ l = B * (l \div B) + (l % B)
        /\ l \div B >= 0
    BY ONLY <1>1, DivMod
  <2>2. QED BY ONLY <2>1
<1>3. PICK M \in Nat : d = N + M /\ N \in Nat
  <2>1. N \in 0 .. d
    BY <1>1, <1>2
  <2>2. d = N + (d - N) /\ d - N \in Nat /\ N \in Nat
    BY ONLY <1>2, <2>1
  <2>3. QED BY <2>2
<1>4. l = N * B + (M * B + q) /\ B * N = N * B /\ N * B \in Nat /\ N * B <= l
  <2>1. B * N = N * B /\ N * B \in Nat /\ M * B \in Nat
    BY ONLY <1>1, <1>3
  <2>2. B * (N + M) = N * B + M * B
    BY ONLY <1>1, <1>3
  <2>3. PICK x \in Nat, y \in Nat : x = N * B /\ y = M * B /\ l = (x + y) + q
    BY ONLY <1>2, <1>3, <2>1, <2>2, Zenon
  <2>4. l = x + (y + q) /\ x <= l
    <3>1. l = (x + y) + q
      BY <2>3
    <3>2. q \in 0 .. B - 1
      BY <1>2
    <3>3. B \in Nat
      BY <1>1
    <3>4. q \in Nat
      BY ONLY <3>2, <3>3
    <3>5. QED BY ONLY <3>1, <3>4, x \in Nat, y \in Nat
  <2>5. QED BY ONLY <2>1, <2>3, <2>4
<1>5. NhParts(m) = N + M + (IF q = 0 THEN 0 ELSE 1)
  BY ONLY <1>1, <1>2, <1>3 DEF NhParts
<1>6. SplitAt(m, NhBytes * N, N, M, q)
  BY ONLY <1>1, <1>2, <1>3, <1>4, <1>5, M \in Nat, Zenon DEF SplitAt
<1>7. QED BY <1>6

\* The blocks before, those behind and the incomplete one
Behind(m, n) == SubSeq(m, n + 1, Len(m))
Left(m, n, M) == SubSeq(Behind(m, n), NhBytes * M + 1, Len(Behind(m, n)))

LEMMA SplitParts ==
  ASSUME NEW m \in Seq(Byte), NEW n, NEW N, NEW M, NEW q, SplitAt(m, n, N, M, q)
  PROVE  /\ PartsFrom(Blocks(SubSeq(m, 1, n)), m, 0, N)
         /\ PartsFrom(Blocks(Behind(m, n)), m, N, M)
         /\ Left(m, n, M) \in Seq(Byte) /\ Len(Left(m, n, M)) = q
         /\ q # 0 => Left(m, n, M) = PartOf(m, N + M + 1)
<1>1. PICK B, l : B = NhBytes /\ B \in Nat /\ B >= 1 /\ l = Len(m) /\ l \in Nat
  BY LenProperties, ObjectsAssumption
<1>2. /\ N \in Nat /\ M \in Nat /\ n \in Nat /\ q \in 0 .. B - 1 /\ q \in Nat
      /\ n = N * B /\ l = n + (M * B + q) /\ n <= l
  BY <1>1 DEF SplitAt
<1>3. PICK k \in Nat : k = M * B /\ k = B * M /\ l = n + (k + q) /\ n + k <= l
  BY <1>1, <1>2
<1>4. PartsFrom(Blocks(Stretch(m, 0, n)), m, 0, N)
  <2>1. 0 = 0 * NhBytes /\ n = 0 + (N * NhBytes + 0) /\ 0 \in 0 .. NhBytes - 1 /\ n <= Len(m)
    BY <1>1, <1>2
  <2>2. QED BY <1>2, <2>1, PartsAre
<1>5. PartsFrom(Blocks(Stretch(m, n, l)), m, N, M)
  <2>1. n = N * NhBytes /\ l = n + (M * NhBytes + q) /\ q \in 0 .. NhBytes - 1 /\ l <= Len(m) /\ l \in Nat
    BY <1>1, <1>2
  <2>2. QED BY <1>2, <2>1, PartsAre
<1> DEFINE y == Stretch(m, n, l)
<1>a. /\ n \in Nat /\ l \in Nat /\ k \in Nat /\ k + q \in Nat /\ n <= l /\ l <= Len(m)
      /\ l - n = k + q /\ k <= k + q /\ n + (k + q) <= l
      /\ n + k \in Nat /\ n + k <= l /\ l - (n + k) = q
  <2>1. n \in Nat /\ l \in Nat /\ q \in Nat /\ l = n + (k + q)
    BY <1>1, <1>2, <1>3, Zenon
  <2>2. l <= Len(m)
    BY <1>1
  <2>3. QED BY ONLY <2>1, <2>2, k \in Nat
<1>6. Len(y) = k + q
  BY ONLY <1>a, StretchIs, m \in Seq(Byte)
<1>7. Stretch(y, k, k + q) = Stretch(m, n + k, n + (k + q))
  BY ONLY <1>a, StretchOfStretch, m \in Seq(Byte)
<1> DEFINE rest == Stretch(y, k, k + q)
<1>8. rest = Stretch(m, n + k, l) /\ rest \in Seq(Byte) /\ Len(rest) = q
  <2>1. n + k \in Nat /\ n + k <= l /\ l <= Len(m) /\ l - (n + k) = q
    BY <1>a, Zenon
  <2>2. Stretch(m, n + k, l) \in Seq(Byte) /\ Len(Stretch(m, n + k, l)) = l - (n + k)
    BY ONLY <1>a, StretchIs, m \in Seq(Byte)
  <2>3. rest = Stretch(m, n + k, l)
    BY <1>3, <1>7
  <2> HIDE DEF rest
  <2>4. QED BY <2>1, <2>2, <2>3
<1>9. ASSUME q # 0 PROVE rest = PartOf(m, N + M + 1)
  <2>1. PICK j \in Nat, d \in Nat : j = N + M + 1 /\ d = n + k
    <3>1. N + M + 1 \in Nat /\ n + k \in Nat
      <4>1. N \in Nat /\ M \in Nat
        BY <1>2
      <4>2. N + M + 1 \in Nat
        BY ONLY <4>1
      <4>3. QED BY <1>a, <4>2
    <3>2. QED BY ONLY <3>1, Zenon
  <2>2. d = (j - 1) * B /\ j * B > l
    <3>1. j - 1 = N + M /\ j = N + M + 1
      BY <1>2, <2>1
    <3>2. (N + M) * B = N * B + M * B /\ (N + M + 1) * B = N * B + M * B + B
      BY ONLY <1>1, <1>2
    <3>3. n + k + B > l
      BY <1>1, <1>2, <1>3
    <3>4. QED BY ONLY <1>2, <1>3, <2>1, <3>1, <3>2, <3>3
  <2>3. PartAt(j, d, l, m)
    <3>1. l <= Len(m)
      BY <1>1
    <3>2. d = (j - 1) * NhBytes /\ j * NhBytes > Len(m) /\ l = Len(m)
      BY <1>1, <2>2
    <3>3. QED BY ONLY <3>1, <3>2, Zenon DEF PartAt
  <2>4. PartOf(m, j) = Stretch(m, d, l)
    <3>1. l \in Nat
      BY <1>1
    <3>2. QED BY ONLY <2>3, <3>1, PartIs, m \in Seq(Byte), j \in Nat, d \in Nat
  <2> HIDE DEF rest
  <2>5. QED BY <1>8, <2>1, <2>4
<1>10. SubSeq(m, 1, n) = Stretch(m, 0, n) /\ Behind(m, n) = y /\ Left(m, n, M) = rest
  <2>1. SubSeq(m, 1, n) = Stretch(m, 0, n)
    BY DEF Stretch
  <2>2. Behind(m, n) = y
    BY <1>1 DEF Stretch, Behind
  <2>3. NhBytes * M = k
    BY <1>1, <1>3
  <2> HIDE DEF y
  <2>4. Left(m, n, M) = rest
    BY <1>6, <2>2, <2>3, Zenon DEF rest, Stretch, Left
  <2>5. QED BY <2>1, <2>2, <2>4
<1> HIDE DEF y, rest
<1>11. QED BY <1>4, <1>5, <1>8, <1>9, <1>10 DEF y

\* A vmac object between two texts
Ready(h, ctx) ==
  /\ DOMAIN h = {"alg", "ctx", "polytmp", "first"}
  /\ h.alg = "vmac" /\ h.ctx = ctx /\ h.polytmp = ctx.polykey /\ h.first = FALSE

\* Blocks through vhash_update, then the rest through vhash, give the hash of the whole
LEMMA RestRuns ==
  ASSUME NEW m \in Seq(Byte), NEW ctx, NEW n, NEW N, NEW M, NEW q, SplitAt(m, n, N, M, q), N >= 1,
         NEW t \in {1, 2}, NEW o, Ready(o, ctx)
  PROVE  RestHalf(vhash_update(o, SubSeq(m, 1, n)), Behind(m, n), t)
         = VhashHalf(m, ctx, t)
<1> DEFINE x == SubSeq(m, 1, n)
           y == Behind(m, n)
           rest == Left(m, n, M)
           h == vhash_update(o, x)
           v == Running(m, ctx, t)
<1>1. /\ N \in Nat /\ M \in Nat /\ q \in Nat /\ N + M \in Nat /\ NhParts(m) \in Nat
      /\ Len(m) % NhBytes = q /\ NhParts(m) = N + M + (IF q = 0 THEN 0 ELSE 1)
  <2>1. NhBytes \in Nat
    BY ObjectsAssumption
  <2>2. N \in Nat /\ M \in Nat /\ q \in 0 .. NhBytes - 1 /\ Len(m) % NhBytes = q
        /\ NhParts(m) = N + M + (IF q = 0 THEN 0 ELSE 1)
    BY Zenon DEF SplitAt
  <2>3. q \in Nat
    BY ONLY <2>1, <2>2
  <2>4. QED BY ONLY <2>2, <2>3
<1>2. /\ PartsFrom(Blocks(x), m, 0, N) /\ PartsFrom(Blocks(y), m, N, M)
      /\ Len(rest) = q /\ rest \in Seq(Byte) /\ (q # 0 => rest = PartOf(m, N + M + 1))
  BY ONLY SplitParts, m \in Seq(Byte), SplitAt(m, n, N, M, q)
<1>3. RunLaw(v, m, ctx, t)
  BY RunIs
<1>4. o.ctx = ctx /\ o.first = FALSE /\ o.polytmp[t] = v[0]
  BY <1>3 DEF Ready, RunLaw
<1> HIDE DEF x, y, rest, v
<1>5. UpdateHalf(o, x, t) = v[N]
  <2>1. 0 + N <= NhParts(m) /\ 0 + N = N /\ 0 \in Nat /\ ~(0 >= 1)
    BY <1>1
  <2>2. GoesOn(o, ctx, v, m, 0, N, t)
    BY ONLY <1>1, <1>4, <2>1, N >= 1 DEF GoesOn
  <2>3. ComesTo(o, x, t, v, 0, N)
    BY ONLY <1>2, <1>3, <2>2, UpdatesGoOn, t \in {1, 2}
  <2>4. QED BY <2>1, <2>3 DEF ComesTo
<1>6. h.ctx = ctx /\ h.first = TRUE /\ h.polytmp[t] = v[N]
  <2>1. h.ctx = ctx /\ h.first = TRUE /\ h.polytmp = <<UpdateHalf(o, x, 1), UpdateHalf(o, x, 2)>>
    BY DEF vhash_update, Ready
  <2> HIDE DEF h
  <2>2. QED BY <1>5, <2>1
<1> HIDE DEF h
<1>7. UpdateHalf(h, y, t) = v[N + M]
  <2>1. GoesOn(h, ctx, v, m, N, M, t)
    <3>1. N + M <= NhParts(m)
      BY <1>1
    <3>2. QED BY ONLY <1>1, <1>6, <3>1, N >= 1, Zenon DEF GoesOn
  <2>2. ComesTo(h, y, t, v, N, M)
    BY ONLY <1>2, <1>3, <2>1, UpdatesGoOn, t \in {1, 2}
  <2>3. QED BY <2>2 DEF ComesTo
<1>8. (IF Blocks(y) = <<>> THEN h.polytmp[t] ELSE UpdateHalf(h, y, t)) = v[N + M]
  <2>1. CASE Blocks(y) = <<>>
    <3>1. M = 0
      BY <1>2, <2>1 DEF PartsFrom
    <3>2. N + M = N
      BY <1>1, <3>1
    <3>3. QED BY <1>6, <2>1, <3>2
  <2>2. QED BY <1>7, <2>1
<1>9. /\ q = 0 => rest = <<>>
      /\ q # 0 => rest # <<>>
  <2>1. CASE q = 0
    BY <1>2, <2>1, EmptySeq
  <2>2. CASE q # 0
    BY <1>2, <2>2
  <2>3. QED BY <2>1, <2>2
<1>10. (IF rest = <<>> THEN v[N + M] ELSE poly_step(v[N + M], h.ctx.polykey[t], Nh(rest, h.ctx, t)))
       = v[NhParts(m)]
  <2>1. CASE q = 0
    <3>1. NhParts(m) = N + M
      BY <1>1, <2>1
    <3>2. QED BY <1>9, <2>1, <3>1
  <2>2. CASE q # 0
    <3>1. PICK k : k = N + M + 1 /\ k = NhParts(m) /\ k \in 2 .. NhParts(m) /\ k - 1 = N + M
      BY <1>1, <2>2
    <3>2. v[k] = poly_step(v[k - 1], ctx.polykey[t], Nh(PartOf(m, k), ctx, t))
      BY <1>3, <3>1, Zenon DEF RunLaw
    <3>3. QED BY <1>2, <1>6, <1>9, <2>2, <3>1, <3>2
  <2>3. QED BY <2>1, <2>2
<1>11. Len(Blocks(y)) = M
  BY <1>2 DEF PartsFrom
<1>12. RestHalf(h, y, t) = l3hash(v[NhParts(m)], ctx.l3key[t], 8 * q)
  <2>1. SubSeq(y, NhBytes * Len(Blocks(y)) + 1, Len(y)) = rest
    BY <1>11 DEF rest, y, Left
  <2>2. RestHalf(h, y, t) = l3hash(v[NhParts(m)], h.ctx.l3key[t], 8 * Len(rest))
    BY <1>8, <1>10, <2>1, Zenon DEF RestHalf
  <2>3. QED BY <1>2, <1>6, <2>2
<1>13. VhashHalf(m, ctx, t) = l3hash(v[NhParts(m)], ctx.l3key[t], 8 * q)
  BY <1>1, VhashRuns DEF v
<1>14. QED BY <1>12, <1>13 DEF x, y, h

LEMMA WholeHash ==
  ASSUME NEW m \in Seq(Byte), NEW ctx, NEW n, NEW N, NEW M, NEW q, SplitAt(m, n, N, M, q),
         NEW o, Ready(o, ctx)
  PROVE  LET begun == IF n = 0 THEN o ELSE vhash_update(o, SubSeq(m, 1, n))
         IN  VhashOf(begun, Behind(m, n)) = vhash(m, ctx) /\ Ready(vhash_abort(begun), ctx)
<1> DEFINE b == vhash_update(o, SubSeq(m, 1, n))
<1>1. N \in Nat /\ NhBytes \in Nat /\ NhBytes >= 1 /\ n = N * NhBytes
  <2>1. NhBytes \in Nat /\ NhBytes >= 1
    BY ObjectsAssumption
  <2>2. QED BY <2>1, Zenon DEF SplitAt
<1>2. Ready(vhash_abort(o), ctx)
  BY DEF vhash_abort, Ready
<1>3. /\ DOMAIN b = DOMAIN o /\ b.alg = "vmac" /\ b.ctx = ctx /\ b.first = TRUE
      /\ Ready(vhash_abort(b), ctx)
  <2>1. DOMAIN b = DOMAIN o /\ b.alg = "vmac" /\ b.ctx = ctx /\ b.first = TRUE
    BY DEF vhash_update, Ready
  <2> HIDE DEF b
  <2>2. QED BY <2>1 DEF vhash_abort, Ready
<1> HIDE DEF b
<1>4. CASE N = 0
  <2>1. n = 0
    BY <1>1, <1>4
  <2>2. Behind(m, n) = m
    BY <2>1, SubSeqFull DEF Behind
  <2>3. VhashOf(o, m) = vhash(m, ctx)
    BY DEF VhashOf, Ready
  <2>4. QED BY <1>2, <2>1, <2>2, <2>3
<1>5. CASE N >= 1
  <2>1. n # 0
    BY <1>1, <1>5
  <2>2. \A t \in {1, 2} : RestHalf(b, Behind(m, n), t) = VhashHalf(m, ctx, t)
    BY <1>5, RestRuns DEF b
  <2>3. VhashOf(b, Behind(m, n)) = vhash(m, ctx)
    BY <1>3, <2>2 DEF VhashOf, vhash
  <2>4. QED BY <1>3, <2>1, <2>3 DEF b
<1>6. QED BY <1>1, <1>4, <1>5

\* What each object is, as far as the seed says, and what it has computed
SumOf(m) == IF seed.alg = "vmac" THEN vhash(m, vmac_set_key(aes_key_setup(seed.key)))
            ELSE siphash(seed.key, m)
HalfMade == [alg |-> "none", cipher_key |-> aes_key_setup(seed.key)]
ObjectIs(o) ==
  \/ o = NULL
  \/ seed.alg = "vmac" /\ (o = HalfMade \/ Ready(o, vmac_set_key(aes_key_setup(seed.key))))
  \/ seed.alg # "vmac" /\ o = new_siphash(seed.key)
Summed == {<<side, m, SumOf(m)>> : side \in Sides, m \in Texts}
ObjectInv ==
  /\ DOMAIN object = Sides /\ \A side \in Sides : ObjectIs(object[side])
  /\ sums \in Seq(Summed)

LEMMA ObjectInitial == ObjectInit \/ ObjectIdle => ObjectInv
<1>1. SUFFICES ASSUME ObjectInit \/ ObjectIdle PROVE ObjectInv
  OBVIOUS
<1>2. object = [side \in Sides |-> NULL] /\ sums = <<>>
  BY <1>1 DEF ObjectInit, ObjectIdle
<1>3. sums \in Seq(Summed)
  BY <1>2, EmptySeq
<1>4. QED BY <1>2, <1>3 DEF ObjectInv, ObjectIs

LEMMA NewStep ==
  ASSUME ObjectInv, NEW side \in Sides, New(side) \/ SetKey(side)
  PROVE  ObjectInv'
<1>1. UNCHANGED <<seed, sums>>
  BY DEF New, SetKey
<1>2. PICK o : object' = [object EXCEPT ![side] = o] /\ ObjectIs(o)
  <2>1. CASE New(side)
    <3>1. CASE seed.alg = "vmac"
      <4>1. object' = [object EXCEPT ![side] = HalfMade]
        BY <2>1, <3>1 DEF New, HalfMade
      <4>2. ObjectIs(HalfMade)
        BY <3>1 DEF ObjectIs
      <4>3. QED BY <4>1, <4>2
    <3>2. CASE seed.alg # "vmac"
      <4>1. object' = [object EXCEPT ![side] = new_siphash(seed.key)]
        BY <2>1, <3>2 DEF New
      <4>2. ObjectIs(new_siphash(seed.key))
        BY <3>2 DEF ObjectIs
      <4>3. QED BY <4>1, <4>2
    <3>3. QED BY <3>1, <3>2
  <2>2. CASE SetKey(side)
    <3>1. /\ object[side] # NULL /\ object[side].alg = "none" /\ ObjectIs(object[side])
          /\ object' = [object EXCEPT ![side] = new_vhash(vmac_set_key(object[side].cipher_key))]
      BY <2>2 DEF SetKey, ObjectInv
    <3>2. seed.alg = "vmac" /\ object[side] = HalfMade
      BY <3>1 DEF ObjectIs, Ready, new_siphash
    <3>3. object[side].cipher_key = aes_key_setup(seed.key)
      BY <3>2 DEF HalfMade
    <3>4. ObjectIs(new_vhash(vmac_set_key(object[side].cipher_key)))
      <4>1. \A ctx : Ready(new_vhash(ctx), ctx)
        BY DEF Ready, new_vhash
      <4>2. QED BY <3>2, <3>3, <4>1 DEF ObjectIs
    <3>5. QED BY <3>1, <3>4
  <2>3. QED BY <2>1, <2>2
<1>3. \A x : ObjectIs(x) => ObjectIs(x)'
  BY <1>1 DEF ObjectIs, HalfMade
<1>4. DOMAIN object' = Sides /\ \A s \in Sides : ObjectIs(object[s])'
  <2>1. DOMAIN object' = Sides /\ \A s \in Sides : object'[s] = IF s = side THEN o ELSE object[s]
    BY <1>2 DEF ObjectInv
  <2>2. \A s \in Sides : ObjectIs(object'[s])
    BY <1>2, <2>1 DEF ObjectInv
  <2>3. QED BY <1>1, <2>1, <2>2 DEF ObjectIs, HalfMade
<1>5. (sums \in Seq(Summed))'
  BY <1>1 DEF ObjectInv, Summed, SumOf
<1>6. QED BY <1>4, <1>5 DEF ObjectInv

LEMMA ComputeStep ==
  ASSUME ObjectInv, NEW side \in Sides, NEW m \in Texts, NEW N \in 0 .. (Len(m) \div NhBytes),
         Compute(side, m, NhBytes * N)
  PROVE  ObjectInv'
<1> DEFINE n == NhBytes * N
           h == object[side]
           ctx == vmac_set_key(aes_key_setup(seed.key))
           begun == IF n = 0 THEN h ELSE vhash_update(h, SubSeq(m, 1, n))
<1>1. m \in Seq(Byte)
  BY ObjectsAssumption
<1>2. PICK M, q : SplitAt(m, n, N, M, q)
  BY <1>1, SplitExists
<1>3. h.alg # "none" /\ ObjectIs(h) /\ UNCHANGED seed
  BY DEF Compute, ObjectInv
<1>4. h # NULL /\ h # HalfMade
  BY <1>3 DEF NULL, HalfMade
<1>5. PICK o : /\ sums' = Append(sums, <<side, m, SumOf(m)>>)
               /\ DOMAIN object' = Sides /\ \A s \in Sides : object'[s] = IF s = side THEN o ELSE object[s]
               /\ ObjectIs(o)
  <2>1. CASE seed.alg = "vmac"
    <3>1. Ready(h, ctx)
      BY <1>3, <1>4, <2>1 DEF ObjectIs
    <3>2. VhashOf(begun, Behind(m, n)) = vhash(m, ctx) /\ Ready(vhash_abort(begun), ctx)
      <4> HIDE DEF n, h, ctx
      <4>1. QED BY <1>1, <1>2, <3>1, WholeHash
    <3>3. /\ sums' = Append(sums, <<side, m, VhashOf(begun, Behind(m, n))>>)
          /\ object' = [object EXCEPT ![side] = vhash_abort(begun)]
      BY <2>1 DEF Compute, Behind
    <3>4. SumOf(m) = vhash(m, ctx)
      BY <2>1 DEF SumOf
    <3> HIDE DEF begun, n
    <3>5. ObjectIs(vhash_abort(begun))
      BY <2>1, <3>2 DEF ObjectIs
    <3>6. sums' = Append(sums, <<side, m, SumOf(m)>>)
      BY <3>2, <3>3, <3>4
    <3>7. QED BY <3>3, <3>5, <3>6 DEF ObjectInv
  <2>2. CASE seed.alg # "vmac"
    <3>1. h = new_siphash(seed.key)
      BY <1>3, <1>4, <2>2 DEF ObjectIs
    <3>2. sums' = Append(sums, <<side, m, siphash(h.key, m)>>) /\ object' = object
      BY <2>2 DEF Compute
    <3>3. SumOf(m) = siphash(h.key, m)
      BY <2>2, <3>1 DEF SumOf, new_siphash
    <3>4. QED BY <1>3, <3>2, <3>3 DEF ObjectInv
  <2>3. QED BY <2>1, <2>2
<1>6. \A s \in Sides : ObjectIs(object[s])'
  <2>1. \A s \in Sides : ObjectIs(object'[s])
    BY <1>5 DEF ObjectInv
  <2>2. QED BY <1>3, <2>1 DEF ObjectIs, HalfMade
<1>7. (sums \in Seq(Summed))'
  <2>1. <<side, m, SumOf(m)>> \in Summed
    BY DEF Summed
  <2>2. sums' \in Seq(Summed)
    <3> HIDE DEF Summed
    <3>1. QED BY <1>5, <2>1 DEF ObjectInv
  <2>3. Summed' = Summed
    BY <1>3 DEF Summed, SumOf
  <2>4. QED BY <2>2, <2>3
<1>8. QED BY <1>5, <1>6, <1>7 DEF ObjectInv

LEMMA ObjectStep == ObjectInv /\ [ObjectNext]_objectVars => ObjectInv'
<1>1. SUFFICES ASSUME ObjectInv, [ObjectNext]_objectVars PROVE ObjectInv'
  OBVIOUS
<1>2. CASE Calculate \/ UNCHANGED objectVars
  <2>1. UNCHANGED <<seed, object, sums>>
    BY <1>2 DEF Calculate, objectVars
  <2>2. QED BY <1>1, <2>1 DEF ObjectInv, ObjectIs, HalfMade, Summed, SumOf
<1>3. CASE \E side \in Sides : New(side) \/ SetKey(side)
  BY <1>1, <1>3, NewStep
<1>4. CASE \E side \in Sides, m \in Texts :
             \E n \in {NhBytes * j : j \in 0 .. (Len(m) \div NhBytes)} : Compute(side, m, n)
  BY <1>1, <1>4, ComputeStep
<1>5. QED BY <1>1, <1>2, <1>3, <1>4 DEF ObjectNext

LEMMA SumsAgree == ObjectInv => SidesAgree
<1>1. SUFFICES ASSUME ObjectInv, NEW x \in DOMAIN sums, NEW y \in DOMAIN sums, sums[x][2] = sums[y][2]
               PROVE  sums[x][3] = sums[y][3]
  BY DEF SidesAgree
<1>2. \A z \in DOMAIN sums : sums[z] \in Summed
  BY <1>1 DEF ObjectInv
<1>3. \A z \in DOMAIN sums : sums[z][3] = SumOf(sums[z][2])
  BY <1>2 DEF Summed
<1>4. QED BY <1>1, <1>3

\* The two sides compute the same checksum for the same block, whatever each hashed before it, in whatever
\* order, and however many of its NH blocks went through vhash_update: for every seed and every text
THEOREM SidesStayAgreed == AgreementSpec => []SidesAgree
<1>1. AgreementInit => ObjectInv
  BY ObjectInitial DEF AgreementInit, HashInit, HashesIdle
<1>2. ObjectInv /\ [AgreementNext]_<<vars, hashVars, tableVars, chunkVars>> => ObjectInv'
  <2>1. [AgreementNext]_<<vars, hashVars, tableVars, chunkVars>> => [ObjectNext]_objectVars
    <3>1. UNCHANGED hashVars => UNCHANGED objectVars
      BY DEF hashVars
    <3>2. HashNext => [ObjectNext]_objectVars
      BY DEF HashNext
    <3>3. QED BY <3>1, <3>2 DEF AgreementNext
  <2>2. QED BY <2>1, ObjectStep
<1>3. QED BY <1>1, <1>2, SumsAgree, PTL DEF AgreementSpec
=============================================================================
