----------------------------- MODULE RollingHash ------------------------------
(* The rolling hashes of SREP/hashes.cpp, the hash of the last L bytes kept   *)
(* up to date as the window moves: PolynomialRollingHash by multiplications   *)
(* modulo the size of a word, CrcRollingHash by two tables.  Words have the   *)
(* code's width (Words).                                                      *)
EXTENDS Words

CONSTANTS
  Rollers,   \* records [kind, L, seed]: the class, the window, prime or polynomial
  Data,      \* the buffer
  Strides    \* the values of N of update<N>

VARIABLES
  roller,    \* the parameters of the object
  tables,    \* what its constructor computes
  buf,       \* where the window starts
  value      \* the hash value
rollingVars == <<roller, tables, buf, value>>

NoRoller == [kind |-> "none"]
Mul(x, y) == Resize(Product(x, y), Len(x))
ByteOf(b) == Word(b, Len(roller.seed))
At(p) == ByteOf(Data[p + 1])

-----------------------------------------------------------------------------
(* power: square and multiply.  The constructor keeps the powers of the prime *)
(* it needs, PRIME .. PRIME4 and PRIME_L .. PRIME_L3.                         *)
power(base, n) ==
  LET loop[j \in Nat] ==
        LET before == loop[j - 1]
            odd == before.n % 2 = 1
        IN  CASE j = 0 -> [result |-> Word(1, Len(base)), base |-> base, n |-> n]
              [] before.n = 0 -> before
              [] OTHER -> [result |-> IF odd THEN Mul(before.result, before.base)
                                      ELSE before.result,
                           base |-> Mul(before.base, before.base), n |-> before.n \div 2]
      rounds == CHOOSE j \in 0 .. n : 2^j > n
  IN  loop[rounds].result
Primes(L, seed) ==
  LET p2 == Mul(seed, seed)
      p3 == Mul(seed, p2)
      l == power(seed, L)
      l1 == Mul(seed, l)
      l2 == Mul(seed, l1)
  IN  [PRIME |-> <<Word(1, Len(seed)), seed, p2, p3, Mul(seed, p3)>>,
       PRIME_L |-> <<l, l1, l2, Mul(seed, l2)>>]

(* value * PRIMEn + the n bytes from p on, as moveto (n = 4 in its first      *)
(* loop, 1 in the second) and both updates add bytes.                         *)
AddBytes(t, v, p, n) ==
  LET sum[j \in 0 .. n] == IF j = 0 THEN Mul(v, t.PRIME[n + 1])
                           ELSE Add(sum[j - 1], Mul(t.PRIME[n - j + 1], At(p + j - 1)))
  IN  sum[n]
SubBytes(t, v, p, n) ==
  LET sum[j \in 0 .. n] == IF j = 0 THEN v
                           ELSE Sub(sum[j - 1], Mul(t.PRIME_L[n - j + 1], At(p + j - 1)))
  IN  sum[n]
PolyMoveto(t, L, p) ==
  LET fours == 4 * (L \div 16)
      steps == fours + (L % 16)
      v[j \in 0 .. steps] ==
        LET before == v[j - 1]
        IN  CASE j = 0 -> Zeros(Len(roller.seed))
              [] Len(before) = 0 -> before
              [] OTHER -> IF j <= fours THEN AddBytes(t, before, p + 4 * (j - 1), 4)
                          ELSE AddBytes(t, before, p + 4 * fours + (j - 1 - fours), 1)
  IN  v[steps]

(* update(sub, add) is the stride of 1; update<N> rolls N % 4 bytes, then     *)
(* four at a time.                                                            *)
Roll(t, v, p, n) == SubBytes(t, AddBytes(t, v, p + roller.L, n), p, n)
PolyUpdate(t, v, p, N) ==
  LET v0 == IF N % 4 = 0 THEN v ELSE Roll(t, v, p, N % 4)
      w[j \in 0 .. (N \div 4)] ==
        LET before == w[j - 1]
        IN  IF j = 0 THEN v0 ELSE Roll(t, before, p + (N % 4) + 4 * (j - 1), 4)
  IN  w[N \div 4]

-----------------------------------------------------------------------------
(* FastTableBuild: the entries of the powers of two by shifting, the others   *)
(* from the highest bit of their number and the rest.                         *)
Halved(crc, poly) == LET half == Shr(crc, 1)
                     IN  IF crc[1] % 2 = 1 THEN Xor(half, poly) ELSE half
FastTableBuild(seed, poly) ==
  LET one[k \in 0 .. 7] == IF k = 7 THEN seed ELSE Halved(one[k + 1], poly)
      ones == [k \in 0 .. 7 |-> one[k]]
      high(b) == CHOOSE k \in 0 .. 7 : 2^k <= b /\ b < 2^(k + 1)
      entry[b \in Byte] == CASE b = 0 -> Zeros(Len(seed))
                             [] b = 2^high(b) -> ones[high(b)]
                             [] OTHER -> Xor(ones[high(b)], entry[b - 2^high(b)])
  IN  Tuple([j \in 1 .. 256 |-> entry[j - 1]])
update_CRC(crc, table, b) == Xor(table[XorByte[crc[1]][b] + 1], Shr(crc, 8))

\* Mutant: the byte is taken out one place too early
ZeroBytesShort(L) == L - 1

(* init: the table of the polynomial, and the table of a byte that L zero     *)
(* bytes follow, which takes a byte out of the hash.                          *)
ZeroBytes(L) == L
CrcTables(L, poly) ==
  LET tab == FastTableBuild(poly, poly)
      crc[j \in 0 .. L] ==
        LET before == crc[j - 1]
        IN  IF j = 0 THEN update_CRC(Zeros(Len(poly)), tab, 128)
            ELSE update_CRC(before, tab, 0)
  IN  [CRCTab |-> tab, RollingCRCTab |-> FastTableBuild(crc[ZeroBytes(L)], poly)]
CrcUpdate(t, v, sub, add) == Xor(update_CRC(v, t.CRCTab, add), t.RollingCRCTab[sub + 1])
CrcMoveto(t, L, p) ==
  LET v[j \in 0 .. L] ==
        LET before == v[j - 1]
        IN  CASE j = 0 -> Zeros(Len(roller.seed))
              [] Len(before) > 0 -> CrcUpdate(t, before, 0, Data[p + j])
  IN  v[L]

-----------------------------------------------------------------------------
RollingIdle == roller = NoRoller /\ tables = <<>> /\ buf = 0 /\ value = <<>>
RollingInit == roller \in Rollers /\ tables = <<>> /\ buf = 0 /\ value = <<>>

(* The constructor computes the tables and hashes the first window, moveto    *)
(* hashes a window from scratch, the updates move it.                         *)
Tables == IF roller.kind = "crc" THEN CrcTables(roller.L, roller.seed)
          ELSE Primes(roller.L, roller.seed)
Fits(p) == roller # NoRoller /\ p + roller.L <= Len(Data)
Construct ==
  /\ Fits(0) /\ tables = <<>>
  /\ tables' = Tables
  /\ UNCHANGED <<roller, buf, value>>
Moveto(p) ==
  /\ tables # <<>> /\ Fits(p)
  /\ buf' = p
  /\ value' = IF roller.kind = "crc" THEN CrcMoveto(tables, roller.L, p)
              ELSE PolyMoveto(tables, roller.L, p)
  /\ UNCHANGED <<roller, tables>>
Update(N) ==
  /\ value # <<>> /\ Fits(buf + N)
  /\ roller.kind = "crc" => N = 1
  /\ buf' = buf + N
  /\ value' = IF roller.kind = "crc"
              THEN CrcUpdate(tables, value, Data[buf + 1], Data[buf + roller.L + 1])
              ELSE PolyUpdate(tables, value, buf, N)
  /\ UNCHANGED <<roller, tables>>

RollingNext == \/ Construct
               \/ \E p \in 0 .. 2 : Moveto(p)
               \/ \E N \in Strides : Update(N)
RollingSpec == RollingInit /\ [][RollingNext]_rollingVars

-----------------------------------------------------------------------------
(* The hashes by their definitions: the value of the polynomial whose         *)
(* coefficients are the bytes, and the remainder of the bits one at a time.   *)
Poly(p) ==
  LET L == roller.L
      horner[j \in 0 .. L] ==
        LET before == horner[j - 1]
        IN  CASE j = 0 -> Zeros(Len(roller.seed))
              [] Len(before) > 0 -> Add(Mul(before, roller.seed), At(p + j - 1))
  IN  horner[L]
CrcByte(crc, b) ==
  LET h[k \in 0 .. 8] == IF k = 0 THEN Xor(crc, ByteOf(b)) ELSE Halved(h[k - 1], roller.seed)
  IN  h[8]
Crc(p) ==
  LET L == roller.L
      c[j \in 0 .. L] ==
        LET before == c[j - 1]
        IN  CASE j = 0 -> Zeros(Len(roller.seed))
              [] Len(before) > 0 -> CrcByte(before, Data[p + j])
  IN  c[L]

(* Wherever the window got to, by single updates, by strides or by moveto,    *)
(* the value is the hash of the bytes in it: equal chunks have equal values   *)
(* in every pass of the program, however each pass came to them.              *)
RollsExactly ==
  value # <<>> => value = IF roller.kind = "crc" THEN Crc(buf) ELSE Poly(buf)
=============================================================================
