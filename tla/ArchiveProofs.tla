---------------------------- MODULE ArchiveProofs ----------------------------
(***************************************************************************)
(* Proofs about Archive: whatever matches the first pass finds, the block  *)
(* decoders of I/O-LZ and Future-LZ, and that of Index-LZ for files of one *)
(* block, take what the compressor wrote and decode the file it was made   *)
(* from.                                                                   *)
(***************************************************************************)
EXTENDS Archive, FoldTheorems

\* With more blocks an Index-LZ file is not decoded correctly (ListIsOwn)
IndexIsOneBlock == \A c \in Cases : c.format = "index" => c.total <= BlockSize

Match == [src : Nat, dest : Nat, len : Nat]

\* The file: one of the cases
GivenKept ==
  /\ format \in Formats /\ round \in BOOLEAN /\ total \in Nat /\ total >= 1
  /\ total <= StatValues * StatValues
  /\ round => total <= StatValues * BASE_LEN
  /\ format = "index" => total <= BlockSize

\* A match copies from before, stays inside of its block and is made of whole
\* units if matches are rounded
MatchFits(m) ==
  /\ m.src < m.dest /\ m.len >= BASE_LEN /\ m.dest < total
  /\ m.dest + m.len <= BlockEnd(m.dest)
  /\ round => m.src % BASE_LEN = 0 /\ m.len % BASE_LEN = 0

MatchesKept ==
  /\ matches \in Seq(Match)
  /\ \A n \in 1 .. Len(matches) : MatchFits(matches[n])
  /\ \A n \in 1 .. Len(matches), k \in 1 .. Len(matches) :
       n < k => matches[n].dest + matches[n].len <= matches[k].dest

File == GivenKept /\ MatchesKept

-----------------------------------------------------------------------------
(* Blocks.                                                                 *)

LEMMA Constants ==
  /\ StatValues \in Nat /\ StatValues >= 1
  /\ BlockSize \in Nat /\ BlockSize >= 1 /\ BlockSize < StatValues
  /\ BASE_LEN \in Nat /\ BASE_LEN >= 1 /\ maximum_save \in Nat /\ maximum_save >= 1
  /\ UsefulChunkSpace \in Nat /\ UsefulChunkSpace >= 1
BY CodecAssumption, ArchiveAssumption

LEMMA StartIs ==
  ASSUME NEW b \in Int
  PROVE  /\ Start(b) \in Int /\ Start(b + 1) = Start(b) + BlockSize
         /\ b >= 1 => Start(b) >= 0
         /\ Start(1) = 0
<1> DEFINE N == BlockSize
<1>1. N \in Nat /\ N >= 1
  BY Constants
<1> HIDE DEF N
<1>2. (b - 1) * N \in Int /\ ((b + 1) - 1) * N = (b - 1) * N + N /\ (1 - 1) * N = 0
  BY <1>1
<1>3. b >= 1 => (b - 1) * N >= 0
  BY <1>1
<1>4. QED BY <1>2, <1>3 DEF Start, N

\* Later blocks start later
LEMMA StartGrows ==
  ASSUME NEW a \in Int, NEW b \in Int, a < b
  PROVE  Start(a) + BlockSize <= Start(b)
<1> DEFINE N == BlockSize
<1>1. N \in Nat /\ N >= 1
  BY Constants
<1> HIDE DEF N
<1>2. (b - 1) * N = (a - 1) * N + (b - a) * N /\ (b - a) * N >= N
  BY <1>1
<1>3. QED BY <1>1, <1>2 DEF Start, N

\* Where a block ends
LEMMA EndIs ==
  ASSUME GivenKept, NEW b \in Int
  PROVE  /\ End(b) \in Int
         /\ End(b) = IF Start(b + 1) <= total THEN Start(b + 1) ELSE total
         /\ b >= 0 => End(b) \in Nat
<1>1. b * BlockSize = Start(b + 1) /\ Start(b + 1) \in Int /\ total \in Int
  <2>1. (b + 1) - 1 = b
    OBVIOUS
  <2>2. Start(b + 1) = ((b + 1) - 1) * BlockSize
    BY DEF Start
  <2>3. Start(b + 1) = b * BlockSize
    BY <2>1, <2>2
  <2>4. b + 1 \in Int
    OBVIOUS
  <2>5. QED BY <2>3, <2>4, StartIs DEF GivenKept
<1>2. End(b) = IF Start(b + 1) <= total THEN Start(b + 1) ELSE total
  BY <1>1, Min2 DEF End
<1>3. b >= 0 => Start(b + 1) >= 0
  BY StartIs
<1>4. QED BY <1>1, <1>2, <1>3 DEF GivenKept

\* The blocks of the file
LEMMA BlocksAre ==
  ASSUME GivenKept
  PROVE  /\ NumBlocks \in Nat /\ NumBlocks >= 1
         /\ Start(NumBlocks) < total /\ total <= Start(NumBlocks + 1)
<1> DEFINE N == BlockSize
           a == total + BlockSize - 1
           q == a \div N
           r == a % N
<1>1. N \in Nat /\ N >= 1 /\ a \in Int /\ a >= N
  BY Constants DEF GivenKept
<1>2. q \in Int /\ r \in 0 .. N - 1 /\ a = N * q + r /\ q >= 0
  <2>1. a >= 0
    BY <1>1
  <2> HIDE DEF N, a
  <2>2. QED BY <1>1, <2>1, DivMod, Zenon
<1>3. a = total + N - 1 /\ total \in Int /\ NumBlocks = q /\ Start(q) = (q - 1) * N
  BY DEF GivenKept, NumBlocks, Start
<1>4. Start(q + 1) = Start(q) + N /\ Start(q) \in Int
  BY <1>2, StartIs
<1> HIDE DEF N, a, q, r
<1>5. N * q = (q - 1) * N + N /\ (q - 1) * N \in Int
  BY <1>1, <1>2
<1>6. q >= 1
  <2>1. CASE q <= 0
    <3>1. N * q <= 0
      BY <1>1, <1>2, <2>1
    <3>2. QED BY <1>1, <1>2, <3>1
  <2>2. QED BY <1>2, <2>1
<1>7. QED BY <1>1, <1>2, <1>3, <1>4, <1>5, <1>6

LEMMA BlockIs ==
  ASSUME GivenKept, NEW b \in 1 .. NumBlocks
  PROVE  /\ Start(b) \in Nat /\ Start(b) < total /\ End(b) \in Nat
         /\ Start(b) < End(b) /\ End(b) <= Start(b) + BlockSize /\ End(b) <= total
         /\ End(b) <= Start(b + 1)
         /\ b < NumBlocks => End(b) = Start(b + 1)
         /\ b = NumBlocks => End(b) = total
         /\ End(b - 1) = Start(b)
<1>1. b \in Int /\ b >= 1 /\ b <= NumBlocks /\ NumBlocks \in Nat /\ total \in Nat /\ BlockSize \in Nat /\ BlockSize >= 1
  BY BlocksAre, Constants DEF GivenKept
<1>2. Start(b) \in Int /\ Start(b) >= 0 /\ Start(b + 1) = Start(b) + BlockSize
  BY <1>1, StartIs
<1>3. Start(NumBlocks) \in Int /\ Start(NumBlocks) < total
  BY <1>1, BlocksAre, StartIs
<1>4. b < NumBlocks => Start(b) + BlockSize <= Start(NumBlocks)
  BY <1>1, StartGrows
<1>5. b = NumBlocks => total <= Start(b + 1)
  BY BlocksAre
<1>6. End(b) = IF Start(b + 1) <= total THEN Start(b + 1) ELSE total
  BY <1>1, EndIs
<1>7. End(b - 1) = IF Start(b) <= total THEN Start(b) ELSE total
  <2>1. (b - 1) + 1 = b /\ b - 1 \in Int
    BY <1>1
  <2>2. End(b - 1) = IF Start((b - 1) + 1) <= total THEN Start((b - 1) + 1) ELSE total
    BY <2>1, EndIs
  <2>3. QED BY <2>1, <2>2
<1>8. b = NumBlocks => Start(b) < total
  BY <1>3
<1>9. QED BY <1>1, <1>2, <1>3, <1>4, <1>5, <1>6, <1>7

\* Every position is in a block
LEMMA BlockOf ==
  ASSUME GivenKept, NEW p \in Nat, p < total
  PROVE  \E b \in 1 .. NumBlocks : Start(b) <= p /\ p < End(b) /\ BlockEnd(p) = End(b)
<1> DEFINE q == p \div BlockSize
           r == p % BlockSize
           b == q + 1
<1>1. q \in Int /\ r \in 0 .. BlockSize - 1 /\ p = BlockSize * q + r /\ q >= 0
  <2>1. p \in Int /\ p >= 0
    OBVIOUS
  <2>2. QED BY <2>1, Constants, DivMod, Zenon
<1>2. BlockEnd(p) = End(b)
  BY DEF BlockEnd, End
<1>3. Start(b) = BlockSize * q
  <2> DEFINE N == BlockSize
  <2>1. N \in Nat
    BY Constants
  <2> HIDE DEF N, q
  <2>2. ((q + 1) - 1) * N = N * q
    BY <1>1, <2>1
  <2>3. QED BY <2>2 DEF Start, N
<1> HIDE DEF q, r
<1>4. b \in Int /\ b >= 1 /\ BlockSize \in Nat /\ BlockSize >= 1
  BY <1>1, Constants
<1> HIDE DEF b
<1>5. Start(b + 1) = Start(b) + BlockSize /\ Start(b) \in Int
  BY <1>4, StartIs
<1>6. Start(b) <= p /\ p < Start(b) + BlockSize
  <2> DEFINE c == BlockSize * q
  <2>1. c \in Int /\ p = c + r /\ Start(b) = c
    BY <1>1, <1>3, <1>4
  <2> HIDE DEF c
  <2>2. QED BY <1>1, <1>4, <2>1
<1>7. End(b) = IF Start(b + 1) <= total THEN Start(b + 1) ELSE total
  BY <1>4, EndIs
<1>8. b <= NumBlocks
  <2>1. SUFFICES ASSUME NumBlocks < b PROVE FALSE
    BY <1>4, BlocksAre
  <2>2. NumBlocks \in Nat /\ Start(NumBlocks) + BlockSize <= Start(b) /\ total <= Start(NumBlocks + 1)
        /\ Start(NumBlocks + 1) = Start(NumBlocks) + BlockSize /\ Start(NumBlocks) \in Int
    BY <1>4, <2>1, BlocksAre, StartGrows, StartIs
  <2>3. QED BY <1>4, <1>5, <1>6, <2>2 DEF GivenKept
<1>9. b \in 1 .. NumBlocks
  BY <1>4, <1>8, BlocksAre
<1>10. QED BY <1>2, <1>4, <1>5, <1>6, <1>7, <1>9

\* Only one block has a position
LEMMA OneBlock ==
  ASSUME GivenKept, NEW a \in 1 .. NumBlocks, NEW b \in 1 .. NumBlocks, NEW p \in Int,
         Start(a) <= p, p < End(a), Start(b) <= p, p < End(b)
  PROVE  a = b
<1>1. /\ a \in Int /\ b \in Int /\ Start(a) \in Int /\ Start(b) \in Int /\ BlockSize \in Nat
      /\ End(a) <= Start(a) + BlockSize /\ End(b) <= Start(b) + BlockSize
      /\ End(a) \in Int /\ End(b) \in Int
  BY BlockIs, Constants
<1>2. ~(a < b)
  BY <1>1, StartGrows
<1>3. ~(b < a)
  BY <1>1, StartGrows
<1>4. QED BY <1>1, <1>2, <1>3
-----------------------------------------------------------------------------
(* Matches.                                                                *)

LEMMA MatchIs ==
  ASSUME File, NEW n \in 1 .. Len(matches)
  PROVE  /\ matches[n] \in Match /\ matches[n].src \in Nat /\ matches[n].dest \in Nat
         /\ matches[n].len \in Nat /\ matches[n].len >= 1 /\ matches[n].len >= BASE_LEN
         /\ matches[n].src < matches[n].dest
         /\ \E b \in 1 .. NumBlocks : Start(b) <= matches[n].dest /\ matches[n].dest < End(b)
                                        /\ matches[n].dest + matches[n].len <= End(b)
<1> DEFINE m == matches[n]
<1>1. m \in Match /\ MatchFits(m) /\ GivenKept
  BY ElementOfSeq, Zenon DEF File, MatchesKept
<1> HIDE DEF m
<1>2. m.src \in Nat /\ m.dest \in Nat /\ m.len \in Nat
  BY <1>1 DEF Match
<1>3. m.dest < total /\ m.src < m.dest /\ m.len >= BASE_LEN /\ m.dest + m.len <= BlockEnd(m.dest)
  BY <1>1 DEF MatchFits
<1>4. PICK b \in 1 .. NumBlocks : Start(b) <= m.dest /\ m.dest < End(b) /\ BlockEnd(m.dest) = End(b)
  BY <1>1, <1>2, <1>3, BlockOf
<1>5. m.len >= 1
  BY <1>2, <1>3, Constants
<1>6. QED BY <1>1, <1>2, <1>3, <1>4, <1>5 DEF m

\* A match with its destination in a block ends in the block
LEMMA MatchInBlock ==
  ASSUME File, NEW n \in 1 .. Len(matches), NEW b \in 1 .. NumBlocks,
         Start(b) <= matches[n].dest, matches[n].dest < End(b)
  PROVE  matches[n].dest + matches[n].len <= End(b)
<1>1. PICK a \in 1 .. NumBlocks : /\ Start(a) <= matches[n].dest /\ matches[n].dest < End(a)
                                  /\ matches[n].dest + matches[n].len <= End(a)
  BY MatchIs
<1>2. matches[n].dest \in Int
  BY MatchIs
<1>3. a = b
  BY <1>1, <1>2, OneBlock DEF File
<1>4. QED BY <1>1, <1>3

\* A match is no longer than a block and ends in the file
LEMMA MatchBounds ==
  ASSUME File, NEW n \in 1 .. Len(matches)
  PROVE  matches[n].len <= BlockSize /\ matches[n].dest + matches[n].len <= total
<1>1. PICK a \in 1 .. NumBlocks : /\ Start(a) <= matches[n].dest /\ matches[n].dest < End(a)
                                  /\ matches[n].dest + matches[n].len <= End(a)
  BY MatchIs
<1>2. /\ Start(a) \in Nat /\ End(a) \in Nat /\ End(a) <= Start(a) + BlockSize /\ End(a) <= total
      /\ BlockSize \in Nat /\ total \in Nat
  BY BlockIs, Constants DEF File, GivenKept
<1>3. matches[n].dest \in Nat /\ matches[n].len \in Nat
  BY MatchIs
<1>4. QED BY <1>1, <1>2, <1>3

LEMMA MatchesDomain ==
  ASSUME File
  PROVE  DOMAIN matches = 1 .. Len(matches) /\ Len(matches) \in Nat
BY LenProperties DEF File, MatchesKept

\* No two matches cover a position
LEMMA OneMatch ==
  ASSUME File, NEW n \in 1 .. Len(matches), NEW k \in 1 .. Len(matches), NEW p \in Int,
         Covers(matches[n], p), Covers(matches[k], p)
  PROVE  n = k
<1>1. /\ matches[n].dest <= p /\ p < matches[n].dest + matches[n].len
      /\ matches[k].dest <= p /\ p < matches[k].dest + matches[k].len
  BY DEF Covers
<1>2. /\ n < k => matches[n].dest + matches[n].len <= matches[k].dest
      /\ k < n => matches[k].dest + matches[k].len <= matches[n].dest
  BY DEF File, MatchesKept
<1>3. /\ matches[n].dest \in Int /\ matches[n].len \in Int
      /\ matches[k].dest \in Int /\ matches[k].len \in Int
  BY MatchIs
<1>4. n \in Int /\ k \in Int
  BY MatchesDomain
<1>5. QED BY <1>1, <1>2, <1>3, <1>4

-----------------------------------------------------------------------------
(* The bytes of the file.  Each match copies from before, so the recursion *)
(* has a solution.                                                         *)

Dist(p) ==
  LET n == CHOOSE n \in DOMAIN matches : Covers(matches[n], p)
  IN  matches[n].dest - matches[n].src

ByteAt(D, p) == IF IsLiteral(p) THEN p ELSE D[p - Dist(p)]

LEMMA DataIs == Data = CHOOSE D : D = [p \in 0 .. total - 1 |-> ByteAt(D, p)]
BY DEF Data, ByteAt, Dist

LEMMA DistIs ==
  ASSUME File, NEW p \in Nat, ~IsLiteral(p)
  PROVE  \E n \in 1 .. Len(matches) : /\ Covers(matches[n], p)
                                      /\ Dist(p) = matches[n].dest - matches[n].src
                                      /\ Dist(p) \in Nat /\ Dist(p) >= 1 /\ Dist(p) <= p
<1> DEFINE n == CHOOSE n \in DOMAIN matches : Covers(matches[n], p)
<1>1. \E k \in DOMAIN matches : Covers(matches[k], p)
  BY DEF IsLiteral
<1>2. n \in DOMAIN matches /\ Covers(matches[n], p)
  BY <1>1
<1>3. Dist(p) = matches[n].dest - matches[n].src
  BY DEF Dist
<1> HIDE DEF n
<1>4. n \in 1 .. Len(matches)
  BY <1>2, MatchesDomain
<1>5. /\ matches[n].dest \in Nat /\ matches[n].src \in Nat /\ matches[n].src < matches[n].dest
      /\ matches[n].dest <= p
  BY <1>2, <1>4, MatchIs DEF Covers
<1>6. QED BY <1>2, <1>3, <1>4, <1>5

LEMMA DataExists ==
  ASSUME File
  PROVE  \E D : D = [p \in 0 .. total - 1 |-> ByteAt(D, p)]
<1> DEFINE A == {k \in Nat : \E D : D = [p \in 0 .. k - 1 |-> ByteAt(D, p)]}
<1>1. 0 \in A
  <2> DEFINE D == [p \in 0 .. 0 - 1 |-> 0]
  <2>1. D = [p \in 0 .. 0 - 1 |-> ByteAt(D, p)]
    OBVIOUS
  <2> HIDE DEF D
  <2>2. QED BY <2>1
<1>2. ASSUME NEW k \in Nat, k \in A
      PROVE  k + 1 \in A
  <2>1. PICK D : D = [p \in 0 .. k - 1 |-> ByteAt(D, p)]
    BY <1>2
  <2> DEFINE S == 0 .. (k + 1) - 1
             E == [p \in S |-> IF p < k THEN D[p] ELSE ByteAt(D, p)]
  <2>2. ASSUME NEW p \in S
        PROVE  E[p] = ByteAt(E, p)
    <3>1. E[p] = ByteAt(D, p)
      <4>1. CASE p < k
        <5>1. p \in 0 .. k - 1 /\ E[p] = D[p]
          BY <4>1
        <5> HIDE DEF E
        <5>2. QED BY <2>1, <5>1
      <4>2. CASE ~(p < k)
        BY <4>2
      <4>3. QED BY <4>1, <4>2
    <3>2. CASE IsLiteral(p)
      BY <3>1, <3>2 DEF ByteAt
    <3>3. CASE ~IsLiteral(p)
      <4> DEFINE q == p - Dist(p)
      <4>1. q \in Nat /\ q < p
        <5>1. p \in Nat
          OBVIOUS
        <5>2. Dist(p) \in Nat /\ Dist(p) >= 1 /\ Dist(p) <= p
          BY <3>3, <5>1, DistIs
        <5>3. QED BY <5>1, <5>2
      <4>2. ByteAt(D, p) = D[q] /\ ByteAt(E, p) = E[q]
        BY <3>3 DEF ByteAt
      <4> HIDE DEF q
      <4>3. q \in S /\ q < k
        BY <4>1
      <4>4. E[q] = D[q]
        BY <4>3
      <4>5. QED BY <3>1, <4>2, <4>4
    <3>4. QED BY <3>2, <3>3
  <2>3. E = [p \in S |-> ByteAt(E, p)]
    <3>1. E = [p \in S |-> E[p]]
      OBVIOUS
    <3> HIDE DEF E, S
    <3>2. QED BY <2>2, <3>1
  <2> HIDE DEF E
  <2>4. QED BY <2>3
<1>3. total \in A
  <2>1. total \in Nat
    BY DEF File, GivenKept
  <2> HIDE DEF A
  <2>2. QED BY <1>1, <1>2, <2>1, AllNumbers
<1>4. QED BY <1>3

LEMMA DataStep ==
  ASSUME File, NEW p \in Nat, p < total
  PROVE  Data[p] = ByteAt(Data, p)
<1>1. Data = [q \in 0 .. total - 1 |-> ByteAt(Data, q)]
  BY DataIs, DataExists, Zenon
<1>2. p \in 0 .. total - 1
  BY DEF File, GivenKept
<1> DEFINE D == Data
<1>3. D = [q \in 0 .. total - 1 |-> ByteAt(D, q)]
  BY <1>1
<1> HIDE DEF D
<1>4. D[p] = ByteAt(D, p)
  BY <1>2, <1>3, Zenon
<1>5. QED BY <1>4 DEF D

\* A literal stands for itself, a byte of a match is the one it copies
LEMMA DataAt ==
  ASSUME File, NEW p \in Nat, p < total
  PROVE  /\ IsLiteral(p) => Data[p] = p
         /\ \A n \in 1 .. Len(matches) :
              Covers(matches[n], p) => Data[p] = Data[p - (matches[n].dest - matches[n].src)]
<1>1. Data[p] = ByteAt(Data, p)
  BY DataStep
<1>2. IsLiteral(p) => Data[p] = p
  BY <1>1 DEF ByteAt
<1>3. ASSUME NEW n \in 1 .. Len(matches), Covers(matches[n], p)
      PROVE  Data[p] = Data[p - (matches[n].dest - matches[n].src)]
  <2>1. ~IsLiteral(p)
    BY <1>3, MatchesDomain DEF IsLiteral
  <2>2. PICK k \in 1 .. Len(matches) : Covers(matches[k], p) /\ Dist(p) = matches[k].dest - matches[k].src
    BY <2>1, DistIs
  <2>3. k = n
    BY <1>3, <2>2, OneMatch
  <2>4. QED BY <1>1, <2>1, <2>2, <2>3 DEF ByteAt
<1>4. QED BY <1>2, <1>3

\* Every byte is a number
LEMMA DataType ==
  ASSUME File
  PROVE  \A p \in Nat : p < total => Data[p] \in Nat
<1> DEFINE A == {k \in Nat : \A p \in Nat : p < k /\ p < total => Data[p] \in Nat}
<1>1. 0 \in A
  OBVIOUS
<1>2. ASSUME NEW k \in Nat, k \in A
      PROVE  k + 1 \in A
  <2>1. SUFFICES ASSUME NEW p \in Nat, p < k + 1, p < total
                 PROVE  Data[p] \in Nat
    OBVIOUS
  <2>2. CASE IsLiteral(p)
    BY <2>1, <2>2, DataAt
  <2>3. CASE ~IsLiteral(p)
    <3> DEFINE q == p - Dist(p)
    <3>1. Dist(p) \in Nat /\ Dist(p) >= 1 /\ Dist(p) <= p
      BY <2>3, DistIs
    <3>2. q \in Nat /\ q < p
      BY <3>1
    <3>3. Data[p] = Data[q]
      BY <2>1, <2>3, DataStep DEF ByteAt
    <3> HIDE DEF q
    <3>4. q < k /\ q < total
      BY <2>1, <3>2 DEF File, GivenKept
    <3>5. QED BY <1>2, <3>2, <3>3, <3>4
  <2>4. QED BY <2>2, <2>3
<1>3. \A k \in Nat : k \in A
  <2> HIDE DEF A
  <2>1. QED BY <1>1, <1>2, AllNumbers
<1>4. ASSUME NEW p \in Nat, p < total
      PROVE  Data[p] \in Nat
  <2>1. p + 1 \in A /\ p < p + 1
    <3> HIDE DEF A
    <3>1. p + 1 \in Nat
      OBVIOUS
    <3>2. QED BY <1>3, <3>1
  <2>2. QED BY <1>4, <2>1
<1>5. QED BY <1>4
-----------------------------------------------------------------------------
(* MatchCodec.                                                             *)

LEMMA SmallStat ==
  ASSUME NEW a \in 0 .. StatValues - 1
  PROVE  AsStat(a) = a
BY Constants DEF AsStat

LEMMA TwoStats ==
  ASSUME NEW a \in 0 .. StatValues * StatValues - 1
  PROVE  AsStat(a) + AsStat(a \div StatValues) * StatValues = a
BY Constants, WordPair DEF AsStat

LEMMA AsStatType ==
  ASSUME NEW a \in Int
  PROVE  AsStat(a) \in Nat
BY Constants, DivMod DEF AsStat

\* A record is made of 3 or 4 numbers
LEMMA EncodeType ==
  ASSUME NEW r \in BOOLEAN, NEW B \in Nat, B >= 1 \/ ~r, NEW lit \in Int, NEW dist \in Int, NEW len \in Int
  PROVE  /\ Encode(r, B, lit, dist, len) \in Seq(Nat)
         /\ Len(Encode(r, B, lit, dist, len)) = StatsPerMatch(r)
<1> DEFINE U == Unit(r, B)
           u == dist \div U
           l == (len - B) \div U
           h == u \div StatValues
<1>1. U \in Nat /\ U >= 1
  BY DEF Unit
<1>2. u \in Int
  <2> HIDE DEF U
  <2>1. QED BY <1>1, DivMod
<1>3. l \in Int
  <2>1. len - B \in Int
    OBVIOUS
  <2> HIDE DEF U
  <2>2. QED BY <1>1, <2>1, DivMod, Zenon
<1>4. h \in Int
  <2> HIDE DEF u
  <2>1. QED BY <1>2, Constants, DivMod
<1>5. Encode(r, B, lit, dist, len) = IF r THEN <<AsStat(lit), AsStat(u), AsStat(l)>>
                                     ELSE <<AsStat(lit), AsStat(u), AsStat(h), AsStat(l)>>
  BY DEF Encode
<1> HIDE DEF u, l, h
<1>6. AsStat(lit) \in Nat /\ AsStat(u) \in Nat /\ AsStat(l) \in Nat /\ AsStat(h) \in Nat
  BY <1>2, <1>3, <1>4, AsStatType
<1> DEFINE a == AsStat(lit)
           b == AsStat(u)
           c == AsStat(h)
           d == AsStat(l)
<1>7. /\ a \in Nat /\ b \in Nat /\ c \in Nat /\ d \in Nat
      /\ Encode(r, B, lit, dist, len) = IF r THEN <<a, b, d>> ELSE <<a, b, c, d>>
  BY <1>5, <1>6
<1> HIDE DEF a, b, c, d
<1>8. QED BY <1>7 DEF StatsPerMatch

\* The numbers of a match fit in words
PlainFits(future, r, B, pos, lit, dest, src, len) ==
  /\ r = FALSE /\ future \in BOOLEAN /\ B \in Nat /\ pos \in Nat /\ dest \in Nat /\ src \in Nat
  /\ len \in 0 .. StatValues - 1 /\ len >= B /\ lit \in 0 .. StatValues - 1
  /\ pos + lit = IF future THEN src ELSE dest
  /\ dest - src \in 0 .. StatValues * StatValues - 1

RoundedFits(f, r, B, pos, lit, dest, src, len) ==
  /\ f = FALSE /\ r = TRUE
  /\ UnitsFit(StatValues, B, dest, src, len)
  /\ pos \in Nat /\ lit \in 0 .. StatValues - 1 /\ pos + lit = dest

\* What a record says of a match; as plain words ...
LEMMA PlainRecord ==
  ASSUME NEW future, NEW r, NEW B, NEW pos, NEW lit, NEW dest, NEW src, NEW len,
         PlainFits(future, r, B, pos, lit, dest, src, len)
  PROVE  Decode(future, r, B, pos, Encode(r, B, lit, dest - src, len))
           = [lit |-> lit, len |-> len, src |-> src, dest |-> dest]
<1> DEFINE s == <<lit, AsStat(dest - src), AsStat((dest - src) \div StatValues), len - B>>
<1>0. /\ StatValues \in Nat /\ StatValues > 0
      /\ r = FALSE /\ future \in BOOLEAN /\ B \in Nat /\ pos \in Nat /\ dest \in Nat /\ src \in Nat
      /\ len \in 0 .. StatValues - 1 /\ len >= B /\ lit \in 0 .. StatValues - 1
      /\ pos + lit = (IF future THEN src ELSE dest)
      /\ dest - src \in 0 .. StatValues * StatValues - 1
  BY Constants DEF PlainFits
<1> USE <1>0
<1>1. Encode(r, B, lit, dest - src, len) = s
  <2>1. len - B \in 0 .. StatValues - 1
    BY <1>0
  <2>2. (len - B) \div 1 = len - B /\ (dest - src) \div 1 = dest - src
    BY <2>1, <1>0
  <2>3. QED BY <2>1, <2>2, SmallStat DEF Encode, Unit
<1>2. s[2] + s[3] * StatValues = dest - src
  BY TwoStats
<1>3. AsStat(s[4] * 1 + B) = len
  <2>1. s[4] * 1 + B = len
    BY <1>0
  <2>2. QED BY <2>1, SmallStat
<1>4. s[1] = lit
  OBVIOUS
<1> HIDE DEF s
<1>5. (s[2] + s[3] * StatValues) * 1 = dest - src
  BY <1>2
<1>6. CASE future = TRUE
  <2>1. Decode(future, r, B, pos, s) = [lit |-> lit, len |-> len, src |-> src, dest |-> src + (dest - src)]
    <3>1. pos + s[1] = src
      BY <1>4, <1>6
    <3>2. QED BY <1>3, <1>4, <1>5, <1>6, <3>1 DEF Decode, Unit, StatsPerMatch
  <2>2. src + (dest - src) = dest
    OBVIOUS
  <2>3. QED BY <1>1, <2>1, <2>2
<1>7. CASE future = FALSE
  <2>1. Decode(future, r, B, pos, s) = [lit |-> lit, len |-> len, src |-> dest - (dest - src), dest |-> dest]
    <3>1. pos + s[1] = dest /\ (dest \div 1) * 1 = dest
      BY <1>4, <1>7
    <3>2. QED BY <1>3, <1>4, <1>5, <1>7, <3>1 DEF Decode, Unit, StatsPerMatch
  <2>2. dest - (dest - src) = src
    OBVIOUS
  <2>3. QED BY <1>1, <2>1, <2>2
<1>8. QED BY <1>6, <1>7

\* ... and in units of the base length
LEMMA RoundedRecord ==
  ASSUME NEW f, NEW r, NEW B, NEW pos, NEW lit, NEW dest, NEW src, NEW len,
         RoundedFits(f, r, B, pos, lit, dest, src, len)
  PROVE  Decode(f, r, B, pos, Encode(r, B, lit, dest - src, len))
           = [lit |-> lit, len |-> len, src |-> src, dest |-> dest]
<1> DEFINE m == (len - B) \div B
           u == (dest - src) \div B
           q == dest \div B
<1>1. /\ m \in 0 .. StatValues - 1 /\ u \in 0 .. StatValues - 1
      /\ m * B + B = len /\ q * B - u * B = src
  <2>1. UnitsFit(StatValues, B, dest, src, len)
    BY DEF RoundedFits
  <2>2. QED BY <2>1, RoundedUnits
<1>0. /\ StatValues \in Nat /\ StatValues >= 1
      /\ f = FALSE /\ r = TRUE
      /\ B \in Nat /\ dest \in Nat /\ src \in Nat /\ len \in 0 .. StatValues - 1
      /\ pos \in Nat /\ lit \in 0 .. StatValues - 1 /\ pos + lit = dest
  BY Constants DEF RoundedFits, UnitsFit
<1> USE <1>0
<1> DEFINE s == <<lit, u, m>>
<1>2. Encode(r, B, lit, dest - src, len) = s
  <2>1. AsStat(lit) = lit /\ AsStat(u) = u /\ AsStat(m) = m
    BY <1>1, SmallStat
  <2>2. QED BY <2>1 DEF Encode, Unit
<1>3. s[1] = lit /\ s[2] = u /\ s[3] = m
  OBVIOUS
<1> HIDE DEF s
<1>4. AsStat(s[3] * B + B) = len
  BY <1>1, <1>3, SmallStat
<1>5. pos + s[1] = dest
  BY <1>3
<1>6. Decode(f, r, B, pos, s) = [lit |-> lit, len |-> len, src |-> q * B - u * B, dest |-> dest]
  BY <1>3, <1>4, <1>5 DEF Decode, Unit, StatsPerMatch
<1>7. QED BY <1>1, <1>2, <1>6

\* Only the words of the record are read
LEMMA DecodeFirst ==
  ASSUME NEW f, NEW r, NEW B, NEW pos, NEW s, NEW t,
         \A j \in 1 .. StatsPerMatch(r) : s[j] = t[j]
  PROVE  Decode(f, r, B, pos, s) = Decode(f, r, B, pos, t)
<1>1. s[1] = t[1] /\ s[2] = t[2] /\ s[StatsPerMatch(r)] = t[StatsPerMatch(r)] /\ (~r => s[3] = t[3])
  BY DEF StatsPerMatch
<1>2. QED BY <1>1 DEF Decode

-----------------------------------------------------------------------------
(* Lists of records.                                                       *)

\* Records of c words
RecordsOf(c, T, u) ==
  c \in Nat /\ u \in Seq(Seq(T)) /\ \A n \in 1 .. Len(u) : Len(u[n]) = c

\* Put one after the other they are found where they should be
FlatRecords(c, T, u) ==
  /\ FlattenSeq(u) \in Seq(T) /\ Len(FlattenSeq(u)) = c * Len(u)
  /\ \A n \in 1 .. Len(u) : \A j \in 1 .. c : FlattenSeq(u)[c * (n - 1) + j] = u[n][j]

LEMMA FlattenUniform ==
  ASSUME NEW c, NEW T, NEW u, RecordsOf(c, T, u)
  PROVE  FlatRecords(c, T, u)
<1>0. c \in Nat /\ u \in Seq(Seq(T)) /\ \A n \in 1 .. Len(u) : Len(u[n]) = c
  BY DEF RecordsOf
<1> USE <1>0
<1> DEFINE Uniform(s) == \A n \in 1 .. Len(s) : Len(s[n]) = c
           Good(s) == /\ FlattenSeq(s) \in Seq(T) /\ Len(FlattenSeq(s)) = c * Len(s)
                      /\ \A n \in 1 .. Len(s) : \A j \in 1 .. c :
                           FlattenSeq(s)[c * (n - 1) + j] = s[n][j]
           A == {k \in Nat : \A s \in Seq(Seq(T)) : Len(s) = k /\ Uniform(s) => Good(s)}
<1>1. 0 \in A
  <2>1. SUFFICES ASSUME NEW s \in Seq(Seq(T)), Len(s) = 0
                 PROVE  Good(s)
    OBVIOUS
  <2>2. s = <<>> /\ FlattenSeq(s) = <<>>
    BY <2>1, FlattenNone, EmptySeq
  <2>3. c * Len(s) = 0
    BY <2>1
  <2>4. FlattenSeq(s) \in Seq(T) /\ Len(FlattenSeq(s)) = 0
    BY <2>2, EmptySeq
  <2> DEFINE F == FlattenSeq(s)
  <2>5. F \in Seq(T) /\ Len(F) = c * Len(s)
    BY <2>3, <2>4
  <2> HIDE DEF F
  <2>6. \A n \in 1 .. Len(s) : \A j \in 1 .. c : F[c * (n - 1) + j] = s[n][j]
    BY <2>1
  <2>7. QED BY <2>5, <2>6 DEF F
<1>2. ASSUME NEW k \in Nat, k \in A
      PROVE  k + 1 \in A
  <2>1. SUFFICES ASSUME NEW t \in Seq(Seq(T)), Len(t) = k + 1, Uniform(t)
                 PROVE  Good(t)
    OBVIOUS
  <2>2. t # <<>>
    BY <2>1
  <2>3. PICK s \in Seq(Seq(T)), e \in Seq(T) : t = Append(s, e)
    BY <2>2, SequenceEmptyOrAppend
  <2>4. Len(s) = k /\ t[k + 1] = e /\ \A n \in 1 .. k : t[n] = s[n]
    BY <2>1, <2>3, AppendProperties, LenProperties
  <2>5. Uniform(s) /\ Len(e) = c
    BY <2>1, <2>4
  <2>6. Good(s)
    <3> HIDE DEF Good, Uniform
    <3>1. QED BY <1>2, <2>4, <2>5
  <2>7. FlattenSeq(t) = FlattenSeq(s) \o e
    BY <2>3, FlattenAppend
  <2> DEFINE F == FlattenSeq(s)
             G == FlattenSeq(t)
             ck == c * k
  <2>8. F \in Seq(T) /\ Len(F) = ck /\ G = F \o e /\ ck \in Nat
    BY <2>4, <2>6, <2>7
  <2>9. \A n \in 1 .. k : \A j \in 1 .. c : F[c * (n - 1) + j] = s[n][j]
    BY <2>4, <2>6
  <2> HIDE DEF F, G
  <2>10. /\ G \in Seq(T) /\ Len(G) = ck + c
         /\ \A x \in 1 .. ck + c : G[x] = IF x <= ck THEN F[x] ELSE e[x - ck]
    <3> HIDE DEF ck
    <3>1. QED BY <2>5, <2>8, ConcatProperties
  <2>11. ck + c = c * (k + 1) /\ (k + 1) - 1 = k
    OBVIOUS
  <2>12. ASSUME NEW n \in 1 .. k + 1, NEW j \in 1 .. c
         PROVE  G[c * (n - 1) + j] = t[n][j]
    <3>1. CASE n = k + 1
      <4>1. c * (n - 1) + j = ck + j
        BY <2>11, <3>1
      <4> HIDE DEF ck
      <4>2. G[ck + j] = e[j]
        <5>1. ck + j \in 1 .. ck + c /\ ~(ck + j <= ck) /\ (ck + j) - ck = j
          BY <2>8
        <5>2. QED BY <2>10, <5>1
      <4>3. QED BY <2>4, <3>1, <4>1, <4>2
    <3>2. CASE n # k + 1
      <4>1. n \in 1 .. k
        BY <3>2
      <4> DEFINE x == c * (n - 1) + j
      <4>2. x \in 1 .. ck
        <5>1. c * (n - 1) \in Nat /\ c * (n - 1) + c = c * n
          BY <4>1
        <5>2. c * n <= ck
          <6>1. c * k = c * n + c * (k - n) /\ c * (k - n) >= 0 /\ c * n \in Int
            BY <4>1
          <6>2. QED BY <6>1
        <5> DEFINE y == c * (n - 1)
                   z == c * n
        <5>3. y \in Nat /\ y + c = z /\ z <= ck /\ ck \in Nat /\ x = y + j
          BY <2>8, <5>1, <5>2
        <5> HIDE DEF y, z, ck, x
        <5>4. QED BY <5>3
      <4>3. F[x] = s[n][j]
        BY <2>9, <4>1
      <4> HIDE DEF ck, x
      <4>4. G[x] = F[x]
        BY <2>8, <2>10, <4>2
      <4>5. QED BY <2>4, <4>1, <4>3, <4>4 DEF x
    <3>3. QED BY <3>1, <3>2
  <2>13. QED BY <2>1, <2>10, <2>11, <2>12 DEF G
<1>3. Good(u)
  <2>1. Len(u) \in A
    <3>1. Len(u) \in Nat
      BY LenProperties
    <3> HIDE DEF A
    <3>2. QED BY <1>1, <1>2, <3>1, AllNumbers
  <2>2. QED BY <2>1
<1>4. QED BY <1>3 DEF FlatRecords
Here(future, m) == IF future THEN m.src ELSE m.dest

\* Where the position of match n of the list ms is counted from
From(future, ms, pos0, n) == IF n = 1 THEN pos0 ELSE NextPos(future, ms[n - 1])

\* The record of match n, and what it says of the match
Word(future, r, B, ms, pos0, n) ==
  Encode(r, B, Here(future, ms[n]) - From(future, ms, pos0, n), ms[n].dest - ms[n].src, ms[n].len)

Record(future, ms, pos0, n) ==
  [lit |-> Here(future, ms[n]) - From(future, ms, pos0, n), len |-> ms[n].len,
   src |-> ms[n].src, dest |-> ms[n].dest]

Records(future, ms, pos0) == [n \in 1 .. Len(ms) |-> Record(future, ms, pos0, n)]

ListTypes(future, r, B, ms, pos0) ==
  /\ future \in BOOLEAN /\ r \in BOOLEAN /\ B \in Nat /\ (B >= 1 \/ ~r)
  /\ ms \in Seq(Match) /\ pos0 \in Nat

\* Each record is read as the match it was made from
ListFits(future, r, B, ms, pos0) ==
  \A n \in 1 .. Len(ms) :
    Decode(future, r, B, From(future, ms, pos0, n), Word(future, r, B, ms, pos0, n))
      = Record(future, ms, pos0, n)

LEMMA EncodeListIs ==
  ASSUME NEW future, NEW r, NEW B, NEW ms, NEW pos0
  PROVE  EncodeList(ms, future, r, B, pos0)
           = FlattenSeq([n \in DOMAIN ms |-> Word(future, r, B, ms, pos0, n)])
BY DEF EncodeList, Word, Here, From

LEMMA FromType ==
  ASSUME NEW future, NEW r, NEW B, NEW ms, NEW pos0, ListTypes(future, r, B, ms, pos0),
         NEW n \in 1 .. Len(ms)
  PROVE  /\ From(future, ms, pos0, n) \in Nat /\ Here(future, ms[n]) \in Nat
         /\ ms[n].src \in Nat /\ ms[n].dest \in Nat /\ ms[n].len \in Nat
<1>1. ms \in Seq(Match) /\ pos0 \in Nat
  BY DEF ListTypes
<1>2. \A k \in 1 .. Len(ms) : ms[k].src \in Nat /\ ms[k].dest \in Nat /\ ms[k].len \in Nat
  <2>1. SUFFICES ASSUME NEW k \in 1 .. Len(ms)
                 PROVE  ms[k].src \in Nat /\ ms[k].dest \in Nat /\ ms[k].len \in Nat
    OBVIOUS
  <2>2. ms[k] \in Match
    BY <1>1, ElementOfSeq
  <2>3. QED BY <2>2 DEF Match
<1>3. n # 1 => n - 1 \in 1 .. Len(ms)
  <2>1. Len(ms) \in Nat
    BY <1>1, LenProperties
  <2>2. QED BY <2>1
<1>4. QED BY <1>1, <1>2, <1>3 DEF From, NextPos, Here

LEMMA WordType ==
  ASSUME NEW future, NEW r, NEW B, NEW ms, NEW pos0, ListTypes(future, r, B, ms, pos0),
         NEW n \in 1 .. Len(ms)
  PROVE  /\ Word(future, r, B, ms, pos0, n) \in Seq(Nat)
         /\ Len(Word(future, r, B, ms, pos0, n)) = StatsPerMatch(r)
<1> DEFINE l == Here(future, ms[n]) - From(future, ms, pos0, n)
           d == ms[n].dest - ms[n].src
<1>1. l \in Int /\ d \in Int /\ ms[n].len \in Int
  BY FromType
<1>2. r \in BOOLEAN /\ B \in Nat /\ (B >= 1 \/ ~r)
  BY DEF ListTypes
<1>3. Word(future, r, B, ms, pos0, n) = Encode(r, B, l, d, ms[n].len)
  BY DEF Word
<1> HIDE DEF l, d
<1>4. QED BY <1>1, <1>2, <1>3, EncodeType

\* The words of a list
LEMMA ListWords ==
  ASSUME NEW future, NEW r, NEW B, NEW ms, NEW pos0, ListTypes(future, r, B, ms, pos0)
  PROVE  /\ EncodeList(ms, future, r, B, pos0) \in Seq(Nat)
         /\ Len(EncodeList(ms, future, r, B, pos0)) = StatsPerMatch(r) * Len(ms)
         /\ \A n \in 1 .. Len(ms) : \A j \in 1 .. StatsPerMatch(r) :
              EncodeList(ms, future, r, B, pos0)[StatsPerMatch(r) * (n - 1) + j]
                = Word(future, r, B, ms, pos0, n)[j]
<1> DEFINE c == StatsPerMatch(r)
           s == [n \in DOMAIN ms |-> Word(future, r, B, ms, pos0, n)]
<1>1. c \in Nat
  BY DEF StatsPerMatch
<1>2. DOMAIN ms = 1 .. Len(ms) /\ Len(ms) \in Nat
  BY LenProperties DEF ListTypes
<1>3. \A n \in 1 .. Len(ms) : s[n] = Word(future, r, B, ms, pos0, n) /\ s[n] \in Seq(Nat) /\ Len(s[n]) = c
  BY <1>2, WordType
<1>4. s \in Seq(Seq(Nat)) /\ Len(s) = Len(ms)
  <2>1. s = [n \in 1 .. Len(ms) |-> s[n]]
    BY <1>2
  <2> HIDE DEF s
  <2>2. QED BY <1>2, <1>3, <2>1
<1>5. EncodeList(ms, future, r, B, pos0) = FlattenSeq(s)
  BY EncodeListIs
<1> HIDE DEF c, s
<1>6. \A n \in 1 .. Len(s) : Len(s[n]) = c
  BY <1>3, <1>4
<1> DEFINE F == FlattenSeq(s)
<1>7. /\ F \in Seq(Nat) /\ Len(F) = c * Len(s)
      /\ \A n \in 1 .. Len(s) : \A j \in 1 .. c : F[c * (n - 1) + j] = s[n][j]
  <2>1. RecordsOf(c, Nat, s)
    BY <1>1, <1>4, <1>6 DEF RecordsOf
  <2>2. QED BY <2>1, FlattenUniform DEF FlatRecords
<1>8. EncodeList(ms, future, r, B, pos0) = F
  BY <1>5
<1> HIDE DEF F
<1>9. QED BY <1>3, <1>4, <1>7, <1>8 DEF c

ReadFrom(M, words, future, r, B, pos0, n) ==
  Decode(future, r, B, IF n = 1 THEN pos0 ELSE NextPos(future, M[n - 1]),
         SubSeq(words, StatsPerMatch(r) * (n - 1) + 1, StatsPerMatch(r) * n))

LEMMA ReadListIs ==
  ASSUME NEW words, NEW future, NEW r, NEW B, NEW pos0
  PROVE  ReadList(words, future, r, B, pos0)
           = CHOOSE M : M = [n \in 1 .. Len(words) \div StatsPerMatch(r) |->
                               ReadFrom(M, words, future, r, B, pos0, n)]
BY DEF ReadList, ReadFrom

\* A list is read as the matches it was made from.
THEOREM ListReadBack ==
  ASSUME NEW future, NEW r, NEW B, NEW ms, NEW pos0, ListTypes(future, r, B, ms, pos0),
         ListFits(future, r, B, ms, pos0)
  PROVE  ReadList(EncodeList(ms, future, r, B, pos0), future, r, B, pos0)
           = Records(future, ms, pos0)
<1> DEFINE w == EncodeList(ms, future, r, B, pos0)
           c == StatsPerMatch(r)
           N == Len(ms)
           R == Records(future, ms, pos0)
           G(M, n) == ReadFrom(M, w, future, r, B, pos0, n)
<1>1. c \in Nat /\ c >= 1
  BY DEF StatsPerMatch
<1>2. N \in Nat
  BY LenProperties DEF ListTypes
<1>3. /\ w \in Seq(Nat) /\ Len(w) = c * N
      /\ \A n \in 1 .. N : \A j \in 1 .. c : w[c * (n - 1) + j] = Word(future, r, B, ms, pos0, n)[j]
  BY ListWords
<1>4. Len(w) \div c = N
  <2> DEFINE a == Len(w)
  <2>1. a \in Int /\ a = c * N + 0 /\ 0 \in 0 .. c - 1
    BY <1>1, <1>2, <1>3
  <2> HIDE DEF a, c, N
  <2>2. a \div c = N
    BY <1>1, <1>2, <2>1, DivUnique
  <2>3. QED BY <2>2 DEF a
<1>5. ASSUME NEW n \in 1 .. N, NEW j \in 1 .. c
      PROVE  SubSeq(w, c * (n - 1) + 1, c * n)[j] = Word(future, r, B, ms, pos0, n)[j]
  <2> DEFINE p == c * (n - 1)
             q == c * n
  <2>1. p \in Nat /\ q = p + c /\ q <= c * N
    <3>1. c * (n - 1) \in Nat /\ c * n = c * (n - 1) + c
      BY <1>1, <1>2
    <3>2. c * N = c * n + c * (N - n) /\ c * (N - n) >= 0 /\ c * n \in Int
      BY <1>1, <1>2
    <3> DEFINE x == c * N
               y == c * (N - n)
    <3>3. p \in Nat /\ q = p + c /\ x = q + y /\ y >= 0 /\ q \in Int /\ y \in Int /\ x = c * N
      BY <1>1, <1>2, <3>1, <3>2
    <3> HIDE DEF p, q, c, N, x, y
    <3>4. q <= x
      BY <3>3
    <3>5. QED BY <3>3, <3>4
  <2>2. w[p + j] = Word(future, r, B, ms, pos0, n)[j]
    BY <1>3
  <2> HIDE DEF p, q, w, c
  <2>3. \A x \in p + 1 .. q : w[x] \in Nat
    <3>1. p + 1 .. q \subseteq 1 .. Len(w)
      BY <1>1, <1>3, <2>1
    <3>2. QED BY <1>3, <3>1, ElementOfSeq
  <2>4. SubSeq(w, p + 1, q)[j] = w[(p + 1) + j - 1]
    <3>1. p + 1 \in Int /\ q \in Int /\ j \in 1 .. q - (p + 1) + 1
      BY <1>1, <2>1
    <3>2. QED BY <2>3, <3>1, SubSeqProperties
  <2>5. (p + 1) + j - 1 = p + j
    BY <1>1, <2>1
  <2>6. QED BY <2>2, <2>4, <2>5 DEF p, q
<1>6. ASSUME NEW M, NEW n \in 1 .. N, n > 1 => M[n - 1] = R[n - 1]
      PROVE  G(M, n) = R[n]
  <2>1. (IF n = 1 THEN pos0 ELSE NextPos(future, M[n - 1])) = From(future, ms, pos0, n)
    <3>1. CASE n = 1
      BY <3>1 DEF From
    <3>2. CASE n # 1
      <4>1. n - 1 \in 1 .. N /\ n > 1
        BY <1>2, <3>2
      <4>2. R[n - 1] = Record(future, ms, pos0, n - 1)
        BY <4>1 DEF Records
      <4>3. NextPos(future, R[n - 1]) = NextPos(future, ms[n - 1])
        BY <4>2 DEF Record, NextPos
      <4>4. QED BY <1>6, <3>2, <4>1, <4>3 DEF From
    <3>3. QED BY <3>1, <3>2
  <2>2. G(M, n) = Decode(future, r, B, From(future, ms, pos0, n), SubSeq(w, c * (n - 1) + 1, c * n))
    BY <2>1 DEF ReadFrom
  <2>3. G(M, n) = Decode(future, r, B, From(future, ms, pos0, n), Word(future, r, B, ms, pos0, n))
    <3> HIDE DEF w
    <3>1. QED BY <1>5, <2>2, DecodeFirst
  <2>4. Decode(future, r, B, From(future, ms, pos0, n), Word(future, r, B, ms, pos0, n))
          = Record(future, ms, pos0, n)
    BY DEF ListFits
  <2>5. R[n] = Record(future, ms, pos0, n)
    BY DEF Records
  <2>6. QED BY <2>3, <2>4, <2>5
<1>7. ReadList(w, future, r, B, pos0) = CHOOSE M : M = [n \in 1 .. N |-> G(M, n)]
  BY <1>4, ReadListIs
<1>8. R = [n \in 1 .. N |-> R[n]]
  BY DEF Records
<1> HIDE DEF w, c, R, G, N
<1>9. R = [n \in 1 .. N |-> G(R, n)]
  <2>1. \A n \in 1 .. N : G(R, n) = R[n]
    BY <1>6
  <2>2. QED BY <1>8, <2>1
<1>10. ASSUME NEW M, M = [n \in 1 .. N |-> G(M, n)]
       PROVE  M = R
  <2> DEFINE A == {k \in Nat : k <= N => \A n \in 1 .. k : M[n] = R[n]}
  <2>1. 0 \in A
    OBVIOUS
  <2>2. ASSUME NEW k \in Nat, k \in A
        PROVE  k + 1 \in A
    <3>1. SUFFICES ASSUME k + 1 <= N, NEW n \in 1 .. k + 1
                   PROVE  M[n] = R[n]
      OBVIOUS
    <3>2. n \in 1 .. N
      BY <1>2, <3>1
    <3>3. M[n] = G(M, n)
      BY <1>10, <3>2
    <3>4. n > 1 => M[n - 1] = R[n - 1]
      <4>1. k <= N
        BY <1>2, <3>1
      <4>2. n > 1 => n - 1 \in 1 .. k
        OBVIOUS
      <4>3. QED BY <2>2, <4>1, <4>2
    <3>5. QED BY <1>6, <3>2, <3>3, <3>4
  <2>3. N \in A
    <3> HIDE DEF A
    <3>1. QED BY <1>2, <2>1, <2>2, AllNumbers
  <2>4. \A n \in 1 .. N : M[n] = R[n]
    BY <1>2, <2>3
  <2>5. M = [n \in 1 .. N |-> M[n]]
    BY <1>10
  <2>6. QED BY <1>8, <2>4, <2>5
<1>11. (CHOOSE M : M = [n \in 1 .. N |-> G(M, n)]) = R
  BY <1>9, <1>10
<1>12. QED BY <1>7, <1>11 DEF w, R
-----------------------------------------------------------------------------
(* The matches of a block.                                                 *)

\* Matches come in the order of the file, so those before a block are the first
LEMMA BeforeIs ==
  ASSUME File, NEW b \in Int
  PROVE  /\ Before(b) \in 0 .. Len(matches)
         /\ \A n \in 1 .. Len(matches) : n <= Before(b) <=> matches[n].dest < Start(b)
<1> DEFINE N == Len(matches)
           S == {n \in 1 .. N : matches[n].dest < Start(b)}
           T == {n \in 1 .. N : ~(matches[n].dest < Start(b))}
<1>1. N \in Nat /\ Before(b) = Cardinality(S)
  BY MatchesDomain DEF Before
<1>2. \E k \in 0 .. N : S = 1 .. k
  <2>1. CASE T = {}
    <3>1. S = 1 .. N
      BY <2>1
    <3>2. QED BY <1>1, <3>1
  <2>2. CASE T # {}
    <3>1. T \subseteq Nat
      OBVIOUS
    <3>2. PICK x \in T : \A y \in T : x <= y
      <4> HIDE DEF T
      <4>1. QED BY <2>2, <3>1, Least
    <3>3. x \in 1 .. N /\ ~(matches[x].dest < Start(b))
      BY <3>2
    <3>4. \A n \in 1 .. N : n < x => n \in S
      BY <3>2
    <3>5. ASSUME NEW n \in 1 .. N, x <= n
          PROVE  n \notin S
      <4>1. /\ matches[x].dest \in Int /\ matches[n].dest \in Int /\ matches[x].len \in Int
            /\ matches[x].len >= 1 /\ Start(b) \in Int
        <5>1. matches[x].dest \in Int /\ matches[x].len \in Int /\ matches[x].len >= 1
          BY <3>3, MatchIs
        <5>2. matches[n].dest \in Int
          BY MatchIs
        <5>3. QED BY <5>1, <5>2, StartIs
      <4>2. x < n => matches[x].dest + matches[x].len <= matches[n].dest
        BY <3>3 DEF File, MatchesKept
      <4>3. x = n \/ x < n
        BY <3>3, <3>5
      <4>4. QED BY <3>3, <4>1, <4>2, <4>3
    <3>6. S = 1 .. x - 1
      <4>1. \A n \in S : n \in 1 .. N
        OBVIOUS
      <4>2. \A n \in S : n \in 1 .. x - 1
        BY <3>3, <3>5, <4>1
      <4>3. \A n \in 1 .. x - 1 : n \in S
        BY <3>3, <3>4
      <4> HIDE DEF S
      <4>4. QED BY <4>2, <4>3
    <3>7. QED BY <3>3, <3>6
  <2>3. QED BY <2>1, <2>2
<1>3. PICK k \in 0 .. N : S = 1 .. k
  BY <1>2
<1>4. Cardinality(S) = k
  <2>1. Cardinality(1 .. k) = IF 1 > k THEN 0 ELSE k - 1 + 1
    BY FS_Interval
  <2>2. k \in Nat
    BY <1>1
  <2> HIDE DEF S
  <2>3. (IF 1 > k THEN 0 ELSE k - 1 + 1) = k
    BY <2>2
  <2>4. QED BY <1>3, <2>1, <2>3
<1>5. \A n \in 1 .. N : n <= k <=> matches[n].dest < Start(b)
  <2>1. \A n \in 1 .. N : n \in S <=> matches[n].dest < Start(b)
    OBVIOUS
  <2> HIDE DEF S
  <2>2. QED BY <1>1, <1>3, <2>1
<1>6. QED BY <1>1, <1>3, <1>4, <1>5

\* Match n of block b is match Before(b) + n of the file
LEMMA InBlockIs ==
  ASSUME File, NEW b \in 1 .. NumBlocks
  PROVE  /\ InBlock(b) \in Seq(Match) /\ Len(InBlock(b)) = Before(b + 1) - Before(b)
         /\ Before(b + 1) - Before(b) \in Nat
         /\ \A n \in 1 .. Len(InBlock(b)) :
              /\ Before(b) + n \in 1 .. Len(matches)
              /\ InBlock(b)[n] = matches[Before(b) + n]
              /\ Start(b) <= matches[Before(b) + n].dest /\ matches[Before(b) + n].dest < End(b)
         /\ \A k \in 1 .. Len(matches) :
              Start(b) <= matches[k].dest /\ matches[k].dest < End(b)
                => Before(b) < k /\ k <= Before(b + 1)
<1> DEFINE N == Len(matches)
           p == Before(b)
           q == Before(b + 1)
<1>1. b \in Int /\ b + 1 \in Int /\ GivenKept
  BY BlocksAre DEF File
<1>2. p \in 0 .. N /\ \A n \in 1 .. N : n <= p <=> matches[n].dest < Start(b)
  BY <1>1, BeforeIs
<1>3. q \in 0 .. N /\ \A n \in 1 .. N : n <= q <=> matches[n].dest < Start(b + 1)
  BY <1>1, BeforeIs
<1>4. N \in Nat /\ matches \in Seq(Match)
  BY MatchesDomain DEF File, MatchesKept
<1>5. Start(b) \in Int /\ Start(b + 1) \in Int /\ Start(b) <= Start(b + 1)
  BY <1>1, Constants, StartIs
<1>6. End(b) = IF Start(b + 1) <= total THEN Start(b + 1) ELSE total
  BY <1>1, EndIs
<1>7. \A n \in 1 .. N : matches[n].dest \in Int /\ matches[n].dest < total
  <2>1. \A n \in 1 .. N : matches[n].dest \in Int
    BY MatchIs
  <2>2. \A n \in 1 .. N : matches[n].dest < total
    BY DEF File, MatchesKept, MatchFits
  <2>3. QED BY <2>1, <2>2
<1>8. total \in Int
  BY DEF File, GivenKept
<1>9. InBlock(b) = SubSeq(matches, p + 1, q)
  BY DEF InBlock
<1> HIDE DEF p, q, N
<1>10. p <= q
  <2>1. SUFFICES ASSUME q < p PROVE FALSE
    BY <1>2, <1>3
  <2>2. p \in 1 .. N
    BY <1>2, <1>3, <2>1
  <2>3. matches[p].dest < Start(b)
    BY <1>2, <2>2
  <2>4. ~(matches[p].dest < Start(b + 1))
    BY <1>2, <1>3, <2>1, <2>2
  <2>5. QED BY <1>5, <1>7, <2>2, <2>3, <2>4
<1>11. \A x \in p + 1 .. q : matches[x] \in Match
  <2>1. p + 1 .. q \subseteq 1 .. N
    BY <1>2, <1>3, <1>4
  <2>2. QED BY <1>4, <2>1, ElementOfSeq DEF N
<1>12. /\ InBlock(b) \in Seq(Match) /\ Len(InBlock(b)) = q - p
       /\ \A n \in 1 .. q - p : InBlock(b)[n] = matches[p + n]
  <2>1. p + 1 \in Int /\ q \in Int
    BY <1>2, <1>3
  <2>2. /\ SubSeq(matches, p + 1, q) \in Seq(Match)
        /\ Len(SubSeq(matches, p + 1, q)) = IF p + 1 <= q THEN q - (p + 1) + 1 ELSE 0
        /\ \A n \in 1 .. q - (p + 1) + 1 : SubSeq(matches, p + 1, q)[n] = matches[(p + 1) + n - 1]
    BY <1>11, <2>1, SubSeqProperties
  <2> DEFINE s == SubSeq(matches, p + 1, q)
  <2>3. /\ s \in Seq(Match) /\ Len(s) = IF p + 1 <= q THEN q - (p + 1) + 1 ELSE 0
        /\ \A n \in 1 .. q - (p + 1) + 1 : s[n] = matches[(p + 1) + n - 1]
    BY <2>2
  <2> HIDE DEF s
  <2>4. Len(s) = q - p
    BY <1>2, <1>3, <1>10, <2>3
  <2>5. ASSUME NEW n \in 1 .. q - p
        PROVE  s[n] = matches[p + n]
    <3>1. n \in 1 .. q - (p + 1) + 1 /\ (p + 1) + n - 1 = p + n
      BY <1>2, <1>3
    <3>2. QED BY <2>3, <3>1
  <2>6. QED BY <1>9, <2>3, <2>4, <2>5 DEF s
<1>13. ASSUME NEW n \in 1 .. q - p
       PROVE  /\ p + n \in 1 .. N
              /\ Start(b) <= matches[p + n].dest /\ matches[p + n].dest < End(b)
  <2>1. p + n \in 1 .. N /\ p + n <= q /\ ~(p + n <= p)
    <3>1. p \in Nat /\ q \in Nat /\ q <= N /\ N \in Nat
      BY <1>2, <1>3, <1>4
    <3>2. QED BY <3>1
  <2>2. ~(matches[p + n].dest < Start(b)) /\ matches[p + n].dest < Start(b + 1)
    BY <1>2, <1>3, <2>1
  <2>3. QED BY <1>5, <1>6, <1>7, <1>8, <2>1, <2>2
<1>14. ASSUME NEW k \in 1 .. N, Start(b) <= matches[k].dest, matches[k].dest < End(b)
       PROVE  p < k /\ k <= q
  <2>1. ~(matches[k].dest < Start(b)) /\ matches[k].dest < Start(b + 1)
    BY <1>5, <1>6, <1>7, <1>8, <1>14
  <2>2. QED BY <1>2, <1>3, <1>14, <2>1
<1>15. q - p \in Nat
  BY <1>2, <1>3, <1>10
<1>16. QED BY <1>12, <1>13, <1>14, <1>15 DEF p, q, N

\* Where match n of block b is counted from
LEMMA OwnFrom ==
  ASSUME File, NEW b \in 1 .. NumBlocks, NEW n \in 1 .. Len(InBlock(b))
  PROVE  /\ From(FALSE, InBlock(b), Start(b), n) \in Nat
         /\ Start(b) <= From(FALSE, InBlock(b), Start(b), n)
         /\ From(FALSE, InBlock(b), Start(b), n) <= InBlock(b)[n].dest
<1> DEFINE ms == InBlock(b)
           p == Before(b)
<1>1. /\ Len(ms) \in Nat
      /\ \A k \in 1 .. Len(ms) : /\ p + k \in 1 .. Len(matches) /\ ms[k] = matches[p + k]
                                 /\ Start(b) <= ms[k].dest
  BY InBlockIs
<1>2. Start(b) \in Nat
  BY BlockIs DEF File
<1>3. \A k \in 1 .. Len(ms) : ms[k].dest \in Nat /\ ms[k].len \in Nat
  BY <1>1, MatchIs
<1>4. p \in Int
  BY BlocksAre, BeforeIs DEF File
<1> HIDE DEF ms, p
<1>5. CASE n = 1
  BY <1>1, <1>2, <1>5 DEF From, ms
<1>6. CASE n # 1
  <2>1. n - 1 \in 1 .. Len(ms) /\ n \in 1 .. Len(ms)
    BY <1>1, <1>6 DEF ms
  <2>2. From(FALSE, ms, Start(b), n) = ms[n - 1].dest + ms[n - 1].len
    BY <1>6 DEF From, NextPos
  <2>3. /\ p + (n - 1) \in 1 .. Len(matches) /\ p + n \in 1 .. Len(matches) /\ p + (n - 1) < p + n
        /\ ms[n - 1] = matches[p + (n - 1)] /\ ms[n] = matches[p + n]
    BY <1>1, <1>4, <2>1
  <2>4. ms[n - 1].dest + ms[n - 1].len <= ms[n].dest
    BY <2>3 DEF File, MatchesKept
  <2>5. From(FALSE, ms, Start(b), n) \in Nat /\ Start(b) <= From(FALSE, ms, Start(b), n)
        /\ From(FALSE, ms, Start(b), n) <= ms[n].dest
    <3>1. ms[n - 1].dest \in Nat /\ ms[n - 1].len \in Nat /\ Start(b) <= ms[n - 1].dest
      BY <1>1, <1>3, <2>1
    <3> DEFINE v == From(FALSE, ms, Start(b), n)
    <3>2. v = ms[n - 1].dest + ms[n - 1].len /\ Start(b) \in Nat
      BY <1>2, <2>2
    <3> HIDE DEF v
    <3>3. v \in Nat /\ Start(b) <= v /\ v <= ms[n].dest
      BY <2>4, <3>1, <3>2
    <3>4. QED BY <3>3 DEF v
  <2>6. QED BY <2>5 DEF ms
<1>7. QED BY <1>5, <1>6

\* A block's own list is read as its matches.
LEMMA OwnListFits ==
  ASSUME File, NEW b \in 1 .. NumBlocks
  PROVE  /\ ListTypes(FALSE, round, BASE_LEN, InBlock(b), Start(b))
         /\ ListFits(FALSE, round, BASE_LEN, InBlock(b), Start(b))
<1> DEFINE ms == InBlock(b)
<1>1. ListTypes(FALSE, round, BASE_LEN, ms, Start(b))
  BY InBlockIs, BlockIs, Constants DEF ListTypes, File, GivenKept
<1>2. ASSUME NEW n \in 1 .. Len(ms)
      PROVE  Decode(FALSE, round, BASE_LEN, From(FALSE, ms, Start(b), n),
                    Word(FALSE, round, BASE_LEN, ms, Start(b), n)) = Record(FALSE, ms, Start(b), n)
  <2> DEFINE pos == From(FALSE, ms, Start(b), n)
             k == Before(b) + n
             dest == matches[k].dest
             src == matches[k].src
             len == matches[k].len
             lit == dest - pos
  <2>1. k \in 1 .. Len(matches) /\ ms[n] = matches[k] /\ Start(b) <= dest /\ dest < End(b)
    BY InBlockIs
  <2>2. pos \in Nat /\ Start(b) <= pos /\ pos <= dest
    BY <2>1, OwnFrom
  <2>3. dest \in Nat /\ src \in Nat /\ len \in Nat /\ src < dest /\ len >= BASE_LEN
    BY <2>1, MatchIs
  <2>4. len <= BlockSize /\ dest + len <= total
    BY <2>1, MatchBounds
  <2>5. round => src % BASE_LEN = 0 /\ len % BASE_LEN = 0
    BY <2>1 DEF File, MatchesKept, MatchFits
  <2>6. /\ total \in Nat /\ total <= StatValues * StatValues /\ round \in BOOLEAN
        /\ (round => total <= StatValues * BASE_LEN)
    BY DEF File, GivenKept
  <2>7. /\ Start(b) \in Nat /\ End(b) \in Nat /\ End(b) <= Start(b) + BlockSize
        /\ BlockSize \in Nat /\ BlockSize < StatValues /\ StatValues \in Nat
        /\ StatValues >= 1 /\ BASE_LEN \in Nat /\ BASE_LEN >= 1
    BY BlockIs, Constants DEF File
  <2>8. Word(FALSE, round, BASE_LEN, ms, Start(b), n) = Encode(round, BASE_LEN, lit, dest - src, len)
    BY <2>1 DEF Word, Here
  <2>9. Record(FALSE, ms, Start(b), n) = [lit |-> lit, len |-> len, src |-> src, dest |-> dest]
    BY <2>1 DEF Record, Here
  <2>10. lit \in 0 .. StatValues - 1 /\ pos + lit = dest /\ len \in 0 .. StatValues - 1
    <3> HIDE DEF pos, k, dest, src, len
    <3>1. QED BY <2>1, <2>2, <2>3, <2>4, <2>7
  <2>11. dest - src \in Nat /\ dest - src < total
    <3>1. len >= 0
      BY <2>3
    <3> HIDE DEF pos, k, dest, src, len
    <3>2. QED BY <2>3, <2>4, <2>6, <3>1, <2>7
  <2> HIDE DEF pos, k, dest, src, len, lit
  <2>12. CASE round = TRUE
    <3>1. dest - src \in 0 .. StatValues * BASE_LEN - 1
      <4> DEFINE x == StatValues * BASE_LEN
      <4>1. x \in Int /\ total <= x
        BY <2>6, <2>7, <2>12
      <4> HIDE DEF x
      <4>2. dest - src \in 0 .. x - 1
        BY <2>6, <2>11, <4>1
      <4>3. QED BY <4>2 DEF x
    <3>2. UnitsFit(StatValues, BASE_LEN, dest, src, len)
      BY <2>3, <2>5, <2>7, <2>10, <2>12, <3>1 DEF UnitsFit
    <3>3. PICK f : f = FALSE
      OBVIOUS
    <3>6. RoundedFits(f, round, BASE_LEN, pos, lit, dest, src, len)
      BY <2>2, <2>10, <2>12, <3>2, <3>3 DEF RoundedFits
    <3>4. Decode(f, round, BASE_LEN, pos, Encode(round, BASE_LEN, lit, dest - src, len))
            = [lit |-> lit, len |-> len, src |-> src, dest |-> dest]
      BY <3>6, RoundedRecord
    <3>5. QED BY <2>8, <2>9, <3>3, <3>4 DEF pos
  <2>13. CASE round = FALSE
    <3>1. dest - src \in 0 .. StatValues * StatValues - 1
      <4> DEFINE x == StatValues * StatValues
      <4>1. x \in Int /\ total <= x
        BY <2>6, <2>7
      <4> HIDE DEF x
      <4>2. dest - src \in 0 .. x - 1
        BY <2>6, <2>11, <4>1
      <4>3. QED BY <4>2 DEF x
    <3>2. PICK f \in BOOLEAN : f = FALSE
      OBVIOUS
    <3>3. PlainFits(f, round, BASE_LEN, pos, lit, dest, src, len)
      BY <2>2, <2>3, <2>7, <2>10, <2>13, <3>1, <3>2 DEF PlainFits
    <3>4. Decode(f, round, BASE_LEN, pos, Encode(round, BASE_LEN, lit, dest - src, len))
            = [lit |-> lit, len |-> len, src |-> src, dest |-> dest]
      BY <3>3, PlainRecord
    <3>5. QED BY <2>8, <2>9, <3>2, <3>4 DEF pos
  <2>14. QED BY <2>6, <2>12, <2>13
<1>3. QED BY <1>1, <1>2 DEF ListFits
-----------------------------------------------------------------------------
(* Literals.                                                               *)

PrefixAt(L, b, p) ==
  IF p = Start(b) THEN <<>>
  ELSE IF IsLiteral(p - 1) THEN Append(L[p - 1], p - 1) ELSE L[p - 1]

\* The literals of block b before each position
Prefix(b) == CHOOSE L : L = [p \in Start(b) .. End(b) |-> PrefixAt(L, b, p)]

\* Their number
LitCount(b, p) == Len(Prefix(b)[p])

LEMMA LiteralsIs == \A b : Literals(b) = Prefix(b)[End(b)]
BY DEF Literals, Prefix, PrefixAt

LEMMA PrefixExists ==
  ASSUME File, NEW b \in 1 .. NumBlocks
  PROVE  \E L : L = [p \in Start(b) .. End(b) |-> PrefixAt(L, b, p)]
<1> DEFINE S(k) == Start(b) .. Start(b) + k
           A == {k \in Nat : \E L : L = [p \in S(k) |-> PrefixAt(L, b, p)]}
<1>0. Start(b) \in Nat /\ End(b) \in Nat /\ Start(b) < End(b)
  BY BlockIs DEF File
<1>1. 0 \in A
  <2> DEFINE L == [p \in S(0) |-> <<>>]
  <2>1. \A p \in S(0) : p = Start(b)
    BY <1>0
  <2>2. L = [p \in S(0) |-> PrefixAt(L, b, p)]
    BY <2>1 DEF PrefixAt
  <2> HIDE DEF L
  <2>3. QED BY <2>2
<1>2. ASSUME NEW k \in Nat, k \in A
      PROVE  k + 1 \in A
  <2>1. PICK L : L = [p \in S(k) |-> PrefixAt(L, b, p)]
    BY <1>2
  <2> DEFINE T == S(k + 1)
             M == [p \in T |-> IF p \in S(k) THEN L[p] ELSE PrefixAt(L, b, p)]
  <2>2. ASSUME NEW p \in T
        PROVE  M[p] = PrefixAt(M, b, p)
    <3>1. M[p] = PrefixAt(L, b, p)
      <4>1. CASE p \in S(k)
        <5>1. M[p] = L[p]
          BY <4>1
        <5> HIDE DEF M, S
        <5>2. QED BY <2>1, <4>1, <5>1
      <4>2. CASE p \notin S(k)
        BY <4>2
      <4>3. QED BY <4>1, <4>2
    <3>2. p # Start(b) => p - 1 \in S(k) /\ p - 1 \in T
      BY <1>0
    <3>3. p # Start(b) => M[p - 1] = L[p - 1]
      BY <3>2
    <3> HIDE DEF M, T, S
    <3>4. QED BY <3>1, <3>3 DEF PrefixAt
  <2>3. M = [p \in T |-> PrefixAt(M, b, p)]
    <3>1. M = [p \in T |-> M[p]]
      OBVIOUS
    <3> HIDE DEF M, T
    <3>2. QED BY <2>2, <3>1
  <2> HIDE DEF M
  <2>4. QED BY <2>3
<1> DEFINE d == End(b) - Start(b)
<1>3. d \in Nat /\ S(d) = Start(b) .. End(b)
  BY <1>0
<1>4. d \in A
  <2> HIDE DEF A, d
  <2>1. QED BY <1>1, <1>2, <1>3, AllNumbers
<1>5. QED BY <1>3, <1>4

LEMMA PrefixStep ==
  ASSUME File, NEW b \in 1 .. NumBlocks, NEW p \in Start(b) .. End(b)
  PROVE  Prefix(b)[p] = PrefixAt(Prefix(b), b, p)
<1> DEFINE L == Prefix(b)
<1>1. L = [q \in Start(b) .. End(b) |-> PrefixAt(L, b, q)]
  BY PrefixExists DEF Prefix
<1> HIDE DEF L
<1>2. L[p] = PrefixAt(L, b, p)
  BY <1>1
<1>3. QED BY <1>2 DEF L

\* One more position
LEMMA PrefixNext ==
  ASSUME File, NEW b \in 1 .. NumBlocks, NEW p \in Start(b) .. End(b) - 1
  PROVE  Prefix(b)[p + 1] = IF IsLiteral(p) THEN Append(Prefix(b)[p], p) ELSE Prefix(b)[p]
<1>1. Start(b) \in Nat /\ End(b) \in Nat
  BY BlockIs DEF File
<1>2. p + 1 \in Start(b) .. End(b) /\ p + 1 # Start(b) /\ (p + 1) - 1 = p
  BY <1>1
<1>3. Prefix(b)[p + 1] = PrefixAt(Prefix(b), b, p + 1)
  BY <1>2, PrefixStep
<1> DEFINE L == Prefix(b)
           q == p + 1
<1>4. q # Start(b) /\ q - 1 = p /\ L[q] = PrefixAt(L, b, q)
  BY <1>2, <1>3
<1> HIDE DEF L, q
<1>5. L[q] = IF IsLiteral(p) THEN Append(L[p], p) ELSE L[p]
  BY <1>4 DEF PrefixAt
<1>6. QED BY <1>5 DEF L, q

LEMMA PrefixType ==
  ASSUME File, NEW b \in 1 .. NumBlocks
  PROVE  \A p \in Start(b) .. End(b) : Prefix(b)[p] \in Seq(Nat)
<1> DEFINE L == Prefix(b)
           A == {k \in Nat : Start(b) + k <= End(b) => L[Start(b) + k] \in Seq(Nat)}
<1>1. Start(b) \in Nat /\ End(b) \in Nat /\ Start(b) < End(b)
  BY BlockIs DEF File
<1>2. 0 \in A
  <2>1. Start(b) \in Start(b) .. End(b) /\ Start(b) + 0 = Start(b)
    BY <1>1
  <2>2. L[Start(b)] = <<>>
    BY <2>1, PrefixStep DEF PrefixAt
  <2> HIDE DEF L
  <2>3. QED BY <2>1, <2>2, EmptySeq
<1>3. ASSUME NEW k \in Nat, k \in A
      PROVE  k + 1 \in A
  <2>1. SUFFICES ASSUME Start(b) + (k + 1) <= End(b)
                 PROVE  L[Start(b) + (k + 1)] \in Seq(Nat)
    OBVIOUS
  <2> DEFINE p == Start(b) + k
  <2>2. p \in Start(b) .. End(b) - 1 /\ Start(b) + (k + 1) = p + 1 /\ p \in Nat /\ p <= End(b)
    BY <1>1, <2>1
  <2>3. L[p] \in Seq(Nat)
    BY <1>3, <2>2
  <2> HIDE DEF p
  <2>4. L[p + 1] = IF IsLiteral(p) THEN Append(L[p], p) ELSE L[p]
    BY <2>2, PrefixNext
  <2> HIDE DEF L
  <2>5. Append(L[p], p) \in Seq(Nat)
    BY <2>2, <2>3, AppendProperties
  <2>6. QED BY <2>2, <2>3, <2>4, <2>5
<1>4. ASSUME NEW p \in Start(b) .. End(b)
      PROVE  L[p] \in Seq(Nat)
  <2> DEFINE k == p - Start(b)
  <2>1. k \in Nat /\ Start(b) + k = p /\ p <= End(b)
    BY <1>1
  <2>2. k \in A
    <3> HIDE DEF A, k
    <3>1. QED BY <1>2, <1>3, <2>1, AllNumbers
  <2>3. QED BY <2>1, <2>2
<1>5. QED BY <1>4

\* Literals are counted
LEMMA LitCountNext ==
  ASSUME File, NEW b \in 1 .. NumBlocks, NEW p \in Start(b) .. End(b) - 1
  PROVE  /\ LitCount(b, p) \in Nat
         /\ LitCount(b, p + 1) = IF IsLiteral(p) THEN LitCount(b, p) + 1 ELSE LitCount(b, p)
         /\ \A j \in 1 .. LitCount(b, p) : Prefix(b)[p + 1][j] = Prefix(b)[p][j]
         /\ IsLiteral(p) => Prefix(b)[p + 1][LitCount(b, p) + 1] = p
<1> DEFINE s == Prefix(b)[p]
           t == Prefix(b)[p + 1]
<1>1. Start(b) \in Nat /\ End(b) \in Nat
  BY BlockIs DEF File
<1>2. p \in Nat /\ p \in Start(b) .. End(b)
  BY <1>1
<1>3. s \in Seq(Nat) /\ t = (IF IsLiteral(p) THEN Append(s, p) ELSE s)
  BY <1>2, PrefixType, PrefixNext
<1> HIDE DEF s, t
<1>4. /\ Len(s) \in Nat /\ Len(t) = (IF IsLiteral(p) THEN Len(s) + 1 ELSE Len(s))
      /\ \A j \in 1 .. Len(s) : t[j] = s[j]
      /\ IsLiteral(p) => t[Len(s) + 1] = p
  BY <1>2, <1>3, AppendProperties, LenProperties
<1>5. QED BY <1>4 DEF s, t, LitCount

LEMMA LitCountStart ==
  ASSUME File, NEW b \in 1 .. NumBlocks
  PROVE  LitCount(b, Start(b)) = 0
<1>1. Start(b) \in Nat /\ End(b) \in Nat /\ Start(b) < End(b)
  BY BlockIs DEF File
<1>2. Start(b) \in Start(b) .. End(b)
  BY <1>1
<1>3. Prefix(b)[Start(b)] = <<>>
  BY <1>2, PrefixStep DEF PrefixAt
<1>4. QED BY <1>3, EmptySeq DEF LitCount

LEMMA LitCountType ==
  ASSUME File, NEW b \in 1 .. NumBlocks, NEW p \in Start(b) .. End(b)
  PROVE  LitCount(b, p) \in Nat
BY PrefixType, LenProperties DEF LitCount

\* The literals before a position are the first of those before a later one
LEMMA PrefixGrows ==
  ASSUME File, NEW b \in 1 .. NumBlocks, NEW p \in Start(b) .. End(b)
  PROVE  \A q \in p .. End(b) : /\ LitCount(b, p) <= LitCount(b, q)
                                /\ \A j \in 1 .. LitCount(b, p) : Prefix(b)[q][j] = Prefix(b)[p][j]
<1> DEFINE Grown(q) == /\ LitCount(b, p) <= LitCount(b, q)
                       /\ \A j \in 1 .. LitCount(b, p) : Prefix(b)[q][j] = Prefix(b)[p][j]
           A == {k \in Nat : p + k <= End(b) => Grown(p + k)}
<1>1. Start(b) \in Nat /\ End(b) \in Nat /\ p \in Nat /\ LitCount(b, p) \in Nat
  BY BlockIs, LitCountType DEF File
<1>2. 0 \in A
  <2>1. p + 0 = p
    BY <1>1
  <2>2. Grown(p)
    BY <1>1
  <2>3. Grown(p + 0)
    BY <2>1, <2>2
  <2> HIDE DEF Grown
  <2>4. QED BY <2>3
<1>3. ASSUME NEW k \in Nat, k \in A
      PROVE  k + 1 \in A
  <2>1. SUFFICES ASSUME p + (k + 1) <= End(b)
                 PROVE  Grown(p + (k + 1))
    OBVIOUS
  <2> DEFINE q == p + k
  <2>2. q \in Start(b) .. End(b) - 1 /\ p + (k + 1) = q + 1 /\ q <= End(b)
    BY <1>1, <2>1
  <2>3. Grown(q)
    <3> HIDE DEF Grown
    <3>1. QED BY <1>3, <2>2
  <2> HIDE DEF q
  <2>4. /\ LitCount(b, q) \in Nat
        /\ LitCount(b, q + 1) = (IF IsLiteral(q) THEN LitCount(b, q) + 1 ELSE LitCount(b, q))
        /\ \A j \in 1 .. LitCount(b, q) : Prefix(b)[q + 1][j] = Prefix(b)[q][j]
    BY <2>2, LitCountNext
  <2>5. LitCount(b, p) <= LitCount(b, q) /\ \A j \in 1 .. LitCount(b, p) : Prefix(b)[q][j] = Prefix(b)[p][j]
    BY <2>3
  <2>6. LitCount(b, p) <= LitCount(b, q + 1)
    BY <1>1, <2>4, <2>5
  <2>7. \A j \in 1 .. LitCount(b, p) : Prefix(b)[q + 1][j] = Prefix(b)[p][j]
    <3>1. SUFFICES ASSUME NEW j \in 1 .. LitCount(b, p)
                   PROVE  Prefix(b)[q + 1][j] = Prefix(b)[p][j]
      OBVIOUS
    <3>2. j \in 1 .. LitCount(b, q)
      BY <1>1, <2>4, <2>5
    <3>3. QED BY <2>4, <2>5, <3>2
  <2>8. Grown(q + 1)
    BY <2>6, <2>7
  <2> HIDE DEF Grown
  <2>9. QED BY <2>2, <2>8
<1>4. ASSUME NEW q \in p .. End(b)
      PROVE  Grown(q)
  <2> DEFINE k == q - p
  <2>1. k \in Nat /\ p + k = q /\ q <= End(b)
    BY <1>1
  <2>2. k \in A
    <3> HIDE DEF A, k
    <3>1. QED BY <1>2, <1>3, <2>1, AllNumbers
  <2> HIDE DEF Grown, k
  <2>3. QED BY <2>1, <2>2
<1>5. QED BY <1>4

\* Positions p .. p + n - 1 of the block have no match
LiteralRun(b, p, n) ==
  /\ b \in 1 .. NumBlocks /\ n \in Nat /\ p \in Start(b) .. End(b) /\ p + n <= End(b)
  /\ \A q \in p .. p + n - 1 : IsLiteral(q)

\* ... or are all covered
MatchRun(b, p, n) ==
  /\ b \in 1 .. NumBlocks /\ n \in Nat /\ p \in Start(b) .. End(b) /\ p + n <= End(b)
  /\ \A q \in p .. p + n - 1 : ~IsLiteral(q)

LEMMA RunCount ==
  ASSUME File, NEW b, NEW p, NEW n
  PROVE  /\ LiteralRun(b, p, n) => LitCount(b, p + n) = LitCount(b, p) + n
         /\ MatchRun(b, p, n) => LitCount(b, p + n) = LitCount(b, p)
<1> DEFINE A == {k \in Nat : /\ LiteralRun(b, p, k) => LitCount(b, p + k) = LitCount(b, p) + k
                             /\ MatchRun(b, p, k) => LitCount(b, p + k) = LitCount(b, p)}
<1>1. ASSUME b \in 1 .. NumBlocks, n \in Nat, p \in Start(b) .. End(b)
      PROVE  n \in A
  <2>1. Start(b) \in Nat /\ End(b) \in Nat /\ p \in Nat /\ LitCount(b, p) \in Nat
    BY <1>1, BlockIs, LitCountType DEF File
  <2>2. 0 \in A
    <3>1. p + 0 = p /\ LitCount(b, p) + 0 = LitCount(b, p)
      BY <2>1
    <3>2. LitCount(b, p + 0) = LitCount(b, p)
      BY <3>1
    <3>3. QED BY <3>1, <3>2
  <2>3. ASSUME NEW k \in Nat, k \in A
        PROVE  k + 1 \in A
    <3> DEFINE q == p + k
    <3>1. ASSUME LiteralRun(b, p, k + 1) \/ MatchRun(b, p, k + 1)
          PROVE  /\ q \in Start(b) .. End(b) - 1 /\ p + (k + 1) = q + 1 /\ q \in p .. p + (k + 1) - 1
                 /\ \A r \in p .. p + k - 1 : r \in p .. p + (k + 1) - 1
                 /\ p + k <= End(b)
      BY <2>1, <3>1 DEF LiteralRun, MatchRun
    <3>2. q \in Start(b) .. End(b) - 1 =>
            /\ LitCount(b, q) \in Nat
            /\ LitCount(b, q + 1) = IF IsLiteral(q) THEN LitCount(b, q) + 1 ELSE LitCount(b, q)
      BY <1>1, LitCountNext
    <3>3. LiteralRun(b, p, k + 1) => LiteralRun(b, p, k) /\ IsLiteral(q)
      BY <3>1 DEF LiteralRun
    <3>4. MatchRun(b, p, k + 1) => MatchRun(b, p, k) /\ ~IsLiteral(q)
      BY <3>1 DEF MatchRun
    <3>5. /\ LiteralRun(b, p, k) => LitCount(b, q) = LitCount(b, p) + k
          /\ MatchRun(b, p, k) => LitCount(b, q) = LitCount(b, p)
      BY <2>3
    <3> HIDE DEF q
    <3>6. LiteralRun(b, p, k + 1) => LitCount(b, p + (k + 1)) = LitCount(b, p) + (k + 1)
      BY <2>1, <3>1, <3>2, <3>3, <3>5
    <3>7. MatchRun(b, p, k + 1) => LitCount(b, p + (k + 1)) = LitCount(b, p)
      BY <2>1, <3>1, <3>2, <3>4, <3>5
    <3>8. QED BY <3>6, <3>7
  <2>4. QED
    <3> HIDE DEF A
    <3>1. QED BY <1>1, <2>2, <2>3, AllNumbers
<1>2. QED BY <1>1 DEF LiteralRun, MatchRun

\* The next literals are the positions of the run
LEMMA NextOfRun ==
  ASSUME File, NEW b, NEW p, NEW n, LiteralRun(b, p, n)
  PROVE  /\ LitCount(b, p) \in Nat /\ Literals(b) \in Seq(Nat)
         /\ LitCount(b, p) + n <= Len(Literals(b))
         /\ \A j \in 1 .. n : Literals(b)[LitCount(b, p) + j] = p + j - 1
<1>1. /\ b \in 1 .. NumBlocks /\ n \in Nat /\ p \in Start(b) .. End(b) /\ p + n <= End(b)
      /\ \A q \in p .. p + n - 1 : IsLiteral(q)
  BY DEF LiteralRun
<1>2. Start(b) \in Nat /\ End(b) \in Nat /\ Start(b) < End(b) /\ p \in Nat
  BY <1>1, BlockIs DEF File
<1>3. Literals(b) = Prefix(b)[End(b)] /\ Len(Literals(b)) = LitCount(b, End(b))
  BY LiteralsIs DEF LitCount
<1>4. LitCount(b, p) \in Nat
  BY <1>1, LitCountType
<1>5. Literals(b) \in Seq(Nat)
  BY <1>1, <1>2, <1>3, PrefixType
<1>6. ASSUME NEW j \in 0 .. n
      PROVE  LitCount(b, p + j) = LitCount(b, p) + j
  <2>1. LiteralRun(b, p, j)
    BY <1>1, <1>2 DEF LiteralRun
  <2>2. QED BY <2>1, RunCount
<1>7. LitCount(b, p) + n <= Len(Literals(b))
  <2>1. p + n \in Start(b) .. End(b) /\ End(b) \in p + n .. End(b)
    BY <1>1, <1>2
  <2>2. LitCount(b, p + n) <= LitCount(b, End(b))
    BY <1>1, <2>1, PrefixGrows
  <2>3. LitCount(b, p + n) = LitCount(b, p) + n
    BY <1>1, <1>6
  <2>4. QED BY <1>3, <2>2, <2>3
<1>8. ASSUME NEW j \in 1 .. n
      PROVE  Literals(b)[LitCount(b, p) + j] = p + j - 1
  <2> DEFINE q == p + (j - 1)
             c == LitCount(b, p)
  <2>1. /\ q \in p .. p + n - 1 /\ q \in Start(b) .. End(b) - 1 /\ q + 1 \in Start(b) .. End(b)
        /\ q + 1 = p + j /\ End(b) \in q + 1 .. End(b) /\ q = p + j - 1
    BY <1>1, <1>2
  <2>2. LitCount(b, q) = c + (j - 1)
    <3>1. j - 1 \in 0 .. n
      BY <1>1
    <3>2. QED BY <1>6, <3>1
  <2>3. LitCount(b, p + j) = c + j
    <3>1. j \in 0 .. n
      BY <1>1
    <3>2. QED BY <1>6, <3>1
  <2>4. c \in Nat
    BY <1>4
  <2> HIDE DEF q, c
  <2>5. IsLiteral(q)
    BY <1>1, <2>1
  <2>6. Prefix(b)[q + 1][LitCount(b, q) + 1] = q
    BY <1>1, <2>1, <2>5, LitCountNext
  <2>7. LitCount(b, q) + 1 = c + j
    BY <2>2, <2>4
  <2>8. LitCount(b, q + 1) = c + j
    BY <2>1, <2>3
  <2>9. c + j \in 1 .. LitCount(b, q + 1)
    BY <2>4, <2>8
  <2>10. Prefix(b)[End(b)][c + j] = Prefix(b)[q + 1][c + j]
    BY <1>1, <2>1, <2>9, PrefixGrows
  <2>11. Literals(b)[c + j] = q
    BY <1>3, <2>6, <2>7, <2>10
  <2>12. QED BY <2>1, <2>11 DEF c
<1>9. QED BY <1>4, <1>5, <1>7, <1>8
-----------------------------------------------------------------------------
(* Bytes of a block.                                                       *)

\* The bytes o are the first of block b
Right(b, o) ==
  /\ b \in 1 .. NumBlocks /\ o \in Seq(Nat) /\ Len(o) <= End(b) - Start(b)
  /\ \A n \in 1 .. Len(o) : o[n] = Data[Start(b) + n - 1]

\* The bytes s come next
RightNext(b, o, s) ==
  /\ s \in Seq(Nat) /\ Len(o) + Len(s) <= End(b) - Start(b)
  /\ \A n \in 1 .. Len(s) : s[n] = Data[Start(b) + Len(o) + n - 1]

LEMMA AddBytes ==
  ASSUME File, NEW b, NEW o, NEW s, Right(b, o), RightNext(b, o, s)
  PROVE  Right(b, o \o s) /\ Len(o \o s) = Len(o) + Len(s)
<1>1. /\ b \in 1 .. NumBlocks /\ o \in Seq(Nat) /\ s \in Seq(Nat)
      /\ Len(o) + Len(s) <= End(b) - Start(b)
      /\ \A n \in 1 .. Len(o) : o[n] = Data[Start(b) + n - 1]
      /\ \A n \in 1 .. Len(s) : s[n] = Data[Start(b) + Len(o) + n - 1]
  BY DEF Right, RightNext
<1>2. Start(b) \in Nat /\ Len(o) \in Nat /\ Len(s) \in Nat
  BY <1>1, BlockIs, LenProperties DEF File
<1> DEFINE t == o \o s
<1>3. /\ t \in Seq(Nat) /\ Len(t) = Len(o) + Len(s)
      /\ \A n \in 1 .. Len(o) + Len(s) : t[n] = IF n <= Len(o) THEN o[n] ELSE s[n - Len(o)]
  BY <1>1, ConcatProperties
<1> HIDE DEF t
<1>4. ASSUME NEW n \in 1 .. Len(t)
      PROVE  t[n] = Data[Start(b) + n - 1]
  <2>1. CASE n <= Len(o)
    <3>1. n \in 1 .. Len(o) /\ n \in 1 .. Len(o) + Len(s)
      BY <1>2, <1>3, <2>1
    <3>2. QED BY <1>1, <1>3, <2>1, <3>1
  <2>2. CASE ~(n <= Len(o))
    <3> DEFINE k == n - Len(o)
    <3>1. k \in 1 .. Len(s) /\ Start(b) + Len(o) + k - 1 = Start(b) + n - 1
      BY <1>2, <1>3, <2>2
    <3>2. t[n] = s[k]
      BY <1>3, <2>2
    <3> HIDE DEF k
    <3>3. s[k] = Data[Start(b) + Len(o) + k - 1]
      BY <1>1, <3>1
    <3>4. QED BY <3>1, <3>2, <3>3
  <2>3. QED BY <2>1, <2>2
<1>5. QED BY <1>1, <1>3, <1>4 DEF Right, t

\* n literals come next, after u that have been used
LiteralsNext(b, o, u, n) ==
  LiteralRun(b, Start(b) + Len(o), n) /\ u = LitCount(b, Start(b) + Len(o))

LiteralsRight(b, o, u, n) ==
  /\ u + n <= Len(Literals(b)) /\ u \in Nat /\ Len(Literals(b)) \in Nat
  /\ RightNext(b, o, SubSeq(Literals(b), u + 1, u + n))
  /\ Len(SubSeq(Literals(b), u + 1, u + n)) = n

\* The next literals are the bytes of a run of literals
LEMMA AddLiterals ==
  ASSUME File, NEW b, NEW o, NEW u, NEW n, Right(b, o), LiteralsNext(b, o, u, n)
  PROVE  LiteralsRight(b, o, u, n)
<1> DEFINE p == Start(b) + Len(o)
           l == Literals(b)
<1>0. LiteralRun(b, p, n) /\ u = LitCount(b, p)
  BY DEF LiteralsNext
<1>1. u \in Nat /\ l \in Seq(Nat) /\ u + n <= Len(l) /\ \A j \in 1 .. n : l[u + j] = p + j - 1
  BY <1>0, NextOfRun
<1>2. /\ b \in 1 .. NumBlocks /\ n \in Nat /\ p + n <= End(b)
      /\ \A q \in p .. p + n - 1 : IsLiteral(q)
  BY <1>0 DEF LiteralRun
<1>3. o \in Seq(Nat)
  BY DEF Right
<1>4. Start(b) \in Nat /\ Len(o) \in Nat /\ Len(l) \in Nat /\ p \in Nat
  BY <1>1, <1>2, <1>3, BlockIs, LenProperties DEF File
<1>5. End(b) <= total /\ total \in Nat /\ End(b) \in Nat
  BY <1>2, BlockIs DEF File, GivenKept
<1> HIDE DEF l
<1> DEFINE s == SubSeq(l, u + 1, u + n)
<1>6. \A x \in u + 1 .. u + n : l[x] \in Nat
  <2>1. u + 1 .. u + n \subseteq 1 .. Len(l)
    <3>1. u \in Nat /\ n \in Nat /\ Len(l) \in Nat /\ u + n <= Len(l)
      BY <1>1, <1>2, <1>4
    <3>2. QED BY <3>1
  <2>2. QED BY <1>1, <2>1, ElementOfSeq
<1>7. /\ s \in Seq(Nat) /\ Len(s) = n
      /\ \A j \in 1 .. n : s[j] = l[u + j]
  <2>1. u + 1 \in Int /\ u + n \in Int
    BY <1>1, <1>2
  <2>2. /\ s \in Seq(Nat) /\ Len(s) = IF u + 1 <= u + n THEN (u + n) - (u + 1) + 1 ELSE 0
        /\ \A j \in 1 .. (u + n) - (u + 1) + 1 : s[j] = l[(u + 1) + j - 1]
    BY <1>6, <2>1, SubSeqProperties
  <2> HIDE DEF s
  <2>3. Len(s) = n
    BY <1>1, <1>2, <2>2
  <2>4. ASSUME NEW j \in 1 .. n
        PROVE  s[j] = l[u + j]
    <3>1. j \in 1 .. (u + n) - (u + 1) + 1 /\ (u + 1) + j - 1 = u + j
      BY <1>1, <1>2
    <3>2. QED BY <2>2, <3>1
  <2>5. QED BY <2>2, <2>3, <2>4
<1> HIDE DEF s
<1>8. ASSUME NEW j \in 1 .. n
      PROVE  s[j] = Data[p + j - 1]
  <2> DEFINE q == p + j - 1
  <2>1. q \in Nat /\ q < total /\ q \in p .. p + n - 1
    BY <1>2, <1>4, <1>5
  <2>2. s[j] = q
    BY <1>1, <1>7
  <2> HIDE DEF q
  <2>3. Data[q] = q
    BY <1>2, <2>1, DataAt
  <2>4. QED BY <2>2, <2>3 DEF q
<1>9. Len(o) + Len(s) <= End(b) - Start(b)
  BY <1>2, <1>4, <1>5, <1>7
<1>10. RightNext(b, o, s) /\ Len(s) = n
  BY <1>7, <1>8, <1>9 DEF RightNext
<1>11. QED BY <1>1, <1>4, <1>10 DEF s, l, LiteralsRight

\* A copy in the block reads what it needs: the bytes from `from` on are those
\* that come next
CopyFits(b, o, from, len) ==
  /\ from \in Int /\ len \in Nat /\ Len(o) + len <= End(b) - Start(b)
  /\ len > 0 => from >= 0 /\ from < Len(o)
  /\ \A j \in 0 .. len - 1 : Data[Start(b) + Len(o) + j] = Data[Start(b) + from + j]

CopyAt(C, o, from, n) == IF n = 0 THEN o ELSE Append(C[n - 1], C[n - 1][from + n])

LEMMA CopyIs ==
  ASSUME NEW o, NEW from, NEW len
  PROVE  CopyInBlock(o, from, len)
           = (CHOOSE C : C = [n \in 0 .. len |-> CopyAt(C, o, from, n)])[len]
BY DEF CopyInBlock, CopyAt

LEMMA CopyRight ==
  ASSUME File, NEW b, NEW o, NEW from, NEW len, Right(b, o), CopyFits(b, o, from, len)
  PROVE  /\ Right(b, CopyInBlock(o, from, len))
         /\ Len(CopyInBlock(o, from, len)) = Len(o) + len
<1> DEFINE w(n) == [j \in 1 .. Len(o) + n |-> Data[Start(b) + j - 1]]
           W == [n \in 0 .. len |-> w(n)]
           S == 0 .. len
<1>1. /\ b \in 1 .. NumBlocks /\ o \in Seq(Nat)
      /\ \A n \in 1 .. Len(o) : o[n] = Data[Start(b) + n - 1]
  BY DEF Right
<1>2. /\ from \in Int /\ len \in Nat /\ Len(o) + len <= End(b) - Start(b)
      /\ len > 0 => from >= 0 /\ from < Len(o)
      /\ \A j \in 0 .. len - 1 : Data[Start(b) + Len(o) + j] = Data[Start(b) + from + j]
  BY DEF CopyFits
<1>3. Start(b) \in Nat /\ Len(o) \in Nat /\ End(b) \in Nat /\ End(b) <= total /\ total \in Nat
  BY <1>1, BlockIs, LenProperties DEF File, GivenKept
<1>4. \A j \in 1 .. Len(o) + len : Data[Start(b) + j - 1] \in Nat
  <2>1. SUFFICES ASSUME NEW j \in 1 .. Len(o) + len
                 PROVE  Data[Start(b) + j - 1] \in Nat
    OBVIOUS
  <2>2. Start(b) + j - 1 \in Nat /\ Start(b) + j - 1 < total
    BY <1>2, <1>3
  <2>3. QED BY <2>2, DataType
<1>5. \A n \in S : /\ w(n) \in Seq(Nat) /\ Len(w(n)) = Len(o) + n
                   /\ \A j \in 1 .. Len(o) + n : w(n)[j] = Data[Start(b) + j - 1]
  <2>1. SUFFICES ASSUME NEW n \in S
                 PROVE  /\ w(n) \in Seq(Nat) /\ Len(w(n)) = Len(o) + n
                        /\ \A j \in 1 .. Len(o) + n : w(n)[j] = Data[Start(b) + j - 1]
    OBVIOUS
  <2>2. Len(o) + n \in Nat /\ \A j \in 1 .. Len(o) + n : Data[Start(b) + j - 1] \in Nat
    BY <1>2, <1>3, <1>4
  <2>3. QED BY <2>2
<1>6. w(0) = o
  <2>1. Len(o) + 0 = Len(o) /\ 0 \in S
    BY <1>2, <1>3
  <2> DEFINE v == w(0)
  <2>2. v \in Seq(Nat) /\ Len(v) = Len(o) /\ \A j \in 1 .. Len(o) : v[j] = Data[Start(b) + j - 1]
    BY <1>5, <2>1
  <2> HIDE DEF v
  <2>3. v = o
    BY <1>1, <2>2, SeqEqual
  <2>4. QED BY <2>3 DEF v
<1>7. ASSUME NEW n \in 1 .. len
      PROVE  w(n) = Append(w(n - 1), w(n - 1)[from + n])
  <2> DEFINE v == w(n - 1)
             x == w(n)
             y == Data[Start(b) + Len(o) + (n - 1)]
  <2>1. n - 1 \in S /\ n \in S
    BY <1>2
  <2>2. /\ v \in Seq(Nat) /\ Len(v) = Len(o) + (n - 1)
        /\ \A j \in 1 .. Len(o) + (n - 1) : v[j] = Data[Start(b) + j - 1]
    BY <1>5, <2>1
  <2>3. /\ x \in Seq(Nat) /\ Len(x) = Len(o) + n
        /\ \A j \in 1 .. Len(o) + n : x[j] = Data[Start(b) + j - 1]
    BY <1>5, <2>1
  <2>4. Data[Start(b) + from + (n - 1)] = y
    <3>1. n - 1 \in 0 .. len - 1
      BY <1>2
    <3>2. QED BY <1>2, <3>1
  <2>5. v[from + n] = y
    <3>1. from + n \in 1 .. Len(o) + (n - 1) /\ Start(b) + (from + n) - 1 = Start(b) + from + (n - 1)
      BY <1>2, <1>3
    <3> HIDE DEF v, y
    <3>2. v[from + n] = Data[Start(b) + (from + n) - 1]
      BY <2>2, <3>1
    <3>3. QED BY <2>4, <3>1, <3>2
  <2>6. y \in Nat
    <3>1. Start(b) + Len(o) + (n - 1) \in Nat /\ Start(b) + Len(o) + (n - 1) < total
      BY <1>2, <1>3
    <3>2. QED BY <3>1, DataType
  <2>7. x[Len(o) + n] = y
    <3>1. Len(o) + n \in 1 .. Len(o) + n /\ Start(b) + (Len(o) + n) - 1 = Start(b) + Len(o) + (n - 1)
      BY <1>3
    <3> HIDE DEF x
    <3>2. x[Len(o) + n] = Data[Start(b) + (Len(o) + n) - 1]
      BY <2>3, <3>1
    <3>3. QED BY <3>1, <3>2
  <2> HIDE DEF v, x, y
  <2> DEFINE z == Append(v, y)
  <2>8. /\ z \in Seq(Nat) /\ Len(z) = Len(v) + 1 /\ z[Len(v) + 1] = y
        /\ \A j \in 1 .. Len(v) : z[j] = v[j]
    BY <2>2, <2>6, AppendProperties
  <2> HIDE DEF z
  <2>9. Len(z) = Len(x) /\ Len(v) + 1 = Len(o) + n
    BY <1>3, <2>2, <2>3, <2>8
  <2>10. \A j \in 1 .. Len(x) : x[j] = z[j]
    <3>1. SUFFICES ASSUME NEW j \in 1 .. Len(x)
                   PROVE  x[j] = z[j]
      OBVIOUS
    <3>2. CASE j = Len(o) + n
      BY <2>7, <2>8, <2>9, <3>2
    <3>3. CASE j # Len(o) + n
      <4>1. j \in 1 .. Len(o) + (n - 1) /\ j \in 1 .. Len(o) + n /\ j \in 1 .. Len(v)
        BY <1>3, <2>2, <2>3, <3>3
      <4>2. QED BY <2>2, <2>3, <2>8, <4>1
    <3>4. QED BY <3>2, <3>3
  <2>11. x = z
    BY <2>3, <2>8, <2>9, <2>10, SeqEqual
  <2>12. QED BY <2>5, <2>11 DEF x, v, z
<1>8. \A n \in S : W[n] = w(n)
  OBVIOUS
<1>9. W = [n \in S |-> W[n]]
  OBVIOUS
<1> HIDE DEF w, W
<1>10. ASSUME NEW C, NEW n \in S, n > 0 => C[n - 1] = w(n - 1)
       PROVE  CopyAt(C, o, from, n) = w(n)
  <2>1. CASE n = 0
    BY <1>6, <2>1 DEF CopyAt
  <2>2. CASE n # 0
    <3>1. n \in 1 .. len /\ n > 0
      BY <1>2, <2>2
    <3>2. QED BY <1>7, <1>10, <2>2, <3>1 DEF CopyAt
  <2>3. QED BY <2>1, <2>2
<1>11. W = [n \in S |-> CopyAt(W, o, from, n)]
  <2>1. ASSUME NEW n \in S
        PROVE  CopyAt(W, o, from, n) = W[n]
    <3>1. n > 0 => n - 1 \in S
      BY <1>2
    <3>2. n > 0 => W[n - 1] = w(n - 1)
      BY <1>8, <3>1
    <3>3. QED BY <1>8, <1>10, <3>2
  <2>2. QED BY <1>9, <2>1
<1>12. ASSUME NEW C, C = [n \in S |-> CopyAt(C, o, from, n)]
       PROVE  C[len] = w(len)
  <2> DEFINE A == {k \in Nat : k <= len => C[k] = w(k)}
  <2>1. \A n \in S : C[n] = CopyAt(C, o, from, n)
    BY <1>12
  <2>2. 0 \in A
    <3>1. 0 \in S /\ ~(0 > 0)
      BY <1>2
    <3>2. C[0] = w(0)
      BY <1>10, <2>1, <3>1
    <3>3. QED BY <3>2
  <2>3. ASSUME NEW k \in Nat, k \in A
        PROVE  k + 1 \in A
    <3>1. SUFFICES ASSUME k + 1 <= len
                   PROVE  C[k + 1] = w(k + 1)
      OBVIOUS
    <3>2. k + 1 \in S /\ (k + 1) - 1 = k /\ k <= len
      BY <1>2, <3>1
    <3>3. C[(k + 1) - 1] = w((k + 1) - 1)
      BY <2>3, <3>2
    <3>4. CopyAt(C, o, from, k + 1) = w(k + 1)
      <4> DEFINE n == k + 1
      <4>1. n \in S /\ C[n - 1] = w(n - 1)
        BY <3>2, <3>3
      <4> HIDE DEF n
      <4>2. CopyAt(C, o, from, n) = w(n)
        BY <1>10, <4>1
      <4>3. QED BY <4>2 DEF n
    <3>5. QED BY <2>1, <3>2, <3>4
  <2>4. len \in A
    <3> HIDE DEF A
    <3>1. QED BY <1>2, <2>2, <2>3, AllNumbers
  <2>5. QED BY <1>2, <2>4
<1>13. CopyInBlock(o, from, len) = w(len)
  <2> DEFINE C == CHOOSE C : C = [n \in S |-> CopyAt(C, o, from, n)]
  <2>1. C = [n \in S |-> CopyAt(C, o, from, n)]
    BY <1>11
  <2>2. CopyInBlock(o, from, len) = C[len]
    BY CopyIs
  <2> HIDE DEF C
  <2>3. QED BY <1>12, <2>1, <2>2
<1>14. len \in S
  BY <1>2
<1> DEFINE v == w(len)
<1>15. v \in Seq(Nat) /\ Len(v) = Len(o) + len /\ \A j \in 1 .. Len(o) + len : v[j] = Data[Start(b) + j - 1]
  BY <1>5, <1>14
<1> HIDE DEF v
<1>16. Right(b, v) /\ Len(v) = Len(o) + len
  BY <1>1, <1>2, <1>15 DEF Right
<1>17. QED BY <1>13, <1>16 DEF v
-----------------------------------------------------------------------------
(* What the decoder of I/O-LZ does with a match.                           *)

\* The file has been written up to block b
FileRight(b, f) ==
  /\ f \in Seq(Nat) /\ Len(f) = End(b - 1)
  /\ \A n \in 1 .. Len(f) : f[n] = Data[n - 1]

\* A match says that its bytes are those of its source
LEMMA MatchBytes ==
  ASSUME File, NEW n \in 1 .. Len(matches), NEW j \in 0 .. matches[n].len - 1
  PROVE  Data[matches[n].dest + j] = Data[matches[n].src + j]
<1> DEFINE m == matches[n]
           p == m.dest + j
<1>1. m.src \in Nat /\ m.dest \in Nat /\ m.len \in Nat /\ m.dest + m.len <= total /\ total \in Nat
  BY MatchIs, MatchBounds DEF File, GivenKept
<1>2. p \in Nat /\ p < total /\ p - (m.dest - m.src) = m.src + j
  BY <1>1
<1>3. Covers(m, p)
  BY <1>1 DEF Covers
<1>4. Data[p] = Data[p - (m.dest - m.src)]
  <2> HIDE DEF p
  <2>1. QED BY <1>2, <1>3, DataAt
<1>5. QED BY <1>2, <1>4

\* A match of an earlier block ends before the block
LEMMA EarlierEnds ==
  ASSUME File, NEW n \in 1 .. Len(matches), NEW b \in 1 .. NumBlocks, matches[n].dest < Start(b)
  PROVE  matches[n].dest + matches[n].len <= Start(b)
<1>1. PICK a \in 1 .. NumBlocks : /\ Start(a) <= matches[n].dest /\ matches[n].dest < End(a)
                                  /\ matches[n].dest + matches[n].len <= End(a)
  BY MatchIs
<1>2. /\ a \in Int /\ b \in Int /\ Start(a) \in Nat /\ Start(b) \in Nat /\ End(a) \in Nat
      /\ End(a) <= Start(a) + BlockSize /\ BlockSize \in Nat
  <2>1. Start(a) \in Nat /\ End(a) \in Nat /\ End(a) <= Start(a) + BlockSize
    BY BlockIs DEF File
  <2>2. Start(b) \in Nat
    BY BlockIs DEF File
  <2>3. NumBlocks \in Nat /\ BlockSize \in Nat
    BY BlocksAre, Constants DEF File
  <2>4. QED BY <2>1, <2>2, <2>3
<1>3. matches[n].dest \in Nat /\ matches[n].len \in Nat
  BY MatchIs
<1>4. a < b
  <2>1. SUFFICES ASSUME b <= a PROVE FALSE
    BY <1>2
  <2>2. b < a => Start(b) + BlockSize <= Start(a)
    BY <1>2, StartGrows
  <2>3. Start(b) <= Start(a)
    BY <1>2, <2>1, <2>2
  <2>4. QED BY <1>1, <1>2, <1>3, <2>3
<1>5. Start(a) + BlockSize <= Start(b)
  BY <1>2, <1>4, StartGrows
<1>6. QED BY <1>1, <1>2, <1>3, <1>5
\* The matches of a block, ms, are those of the file that lie in it, in order
OwnOrder(b, ms) ==
  /\ Len(ms) \in Nat
  /\ \A n \in 1 .. Len(ms) :
       /\ ms[n].dest \in Nat /\ ms[n].len \in Nat /\ ms[n].len >= 1
       /\ Start(b) <= ms[n].dest /\ ms[n].dest + ms[n].len <= End(b)
       /\ \E y \in 1 .. Len(matches) : ms[n] = matches[y]
  /\ \A n \in 1 .. Len(ms), x \in 1 .. Len(ms) : n < x => ms[n].dest + ms[n].len <= ms[x].dest
  /\ \A y \in 1 .. Len(matches) : Start(b) <= matches[y].dest /\ matches[y].dest < End(b)
        => \E n \in 1 .. Len(ms) : ms[n] = matches[y]

LEMMA OwnOrdered ==
  ASSUME File, NEW b \in 1 .. NumBlocks
  PROVE  OwnOrder(b, InBlock(b))
<1> DEFINE ms == InBlock(b)
           N == Len(ms)
           B == Before(b)
<1>1. N \in Nat
  BY InBlockIs
<1>2. \A n \in 1 .. N : /\ B + n \in 1 .. Len(matches) /\ ms[n] = matches[B + n]
                        /\ Start(b) <= ms[n].dest /\ ms[n].dest < End(b)
  BY InBlockIs
<1>3. \A n \in 1 .. N : /\ ms[n].dest \in Nat /\ ms[n].len \in Nat /\ ms[n].len >= 1
                        /\ Start(b) <= ms[n].dest /\ ms[n].dest + ms[n].len <= End(b)
                        /\ \E y \in 1 .. Len(matches) : ms[n] = matches[y]
  <2>1. SUFFICES ASSUME NEW n \in 1 .. N
                 PROVE  /\ ms[n].dest \in Nat /\ ms[n].len \in Nat /\ ms[n].len >= 1
                        /\ Start(b) <= ms[n].dest /\ ms[n].dest + ms[n].len <= End(b)
                        /\ \E y \in 1 .. Len(matches) : ms[n] = matches[y]
    OBVIOUS
  <2> DEFINE x == B + n
  <2>2. x \in 1 .. Len(matches) /\ ms[n] = matches[x] /\ Start(b) <= matches[x].dest /\ matches[x].dest < End(b)
    BY <1>2
  <2> HIDE DEF x, ms, N
  <2>3. matches[x].dest + matches[x].len <= End(b)
    BY <2>2, MatchInBlock
  <2>4. QED BY <2>2, <2>3, MatchIs
<1>4. B \in Int
  BY BeforeIs
<1>5. \A n \in 1 .. N, x \in 1 .. N : n < x => ms[n].dest + ms[n].len <= ms[x].dest
  <2>1. SUFFICES ASSUME NEW n \in 1 .. N, NEW x \in 1 .. N, n < x
                 PROVE  ms[n].dest + ms[n].len <= ms[x].dest
    OBVIOUS
  <2>2. /\ B + n \in 1 .. Len(matches) /\ B + x \in 1 .. Len(matches) /\ B + n < B + x
        /\ ms[n] = matches[B + n] /\ ms[x] = matches[B + x]
    BY <1>1, <1>2, <1>4, <2>1
  <2>3. QED BY <2>2 DEF File, MatchesKept
<1>6. \A y \in 1 .. Len(matches) : Start(b) <= matches[y].dest /\ matches[y].dest < End(b)
        => \E n \in 1 .. N : ms[n] = matches[y]
  <2>1. SUFFICES ASSUME NEW y \in 1 .. Len(matches), Start(b) <= matches[y].dest, matches[y].dest < End(b)
                 PROVE  \E n \in 1 .. N : ms[n] = matches[y]
    OBVIOUS
  <2>2. B < y /\ y <= Before(b + 1) /\ N = Before(b + 1) - B /\ N \in Nat
    BY <2>1, InBlockIs
  <2>3. Before(b + 1) \in Int
    BY BeforeIs
  <2> DEFINE n == y - B
  <2>4. n \in 1 .. N /\ B + n = y
    <3> HIDE DEF N, B
    <3>1. QED BY <1>4, <2>2, <2>3
  <2> HIDE DEF n
  <2>5. ms[n] = matches[y]
    BY <1>2, <2>4
  <2>6. QED BY <2>4, <2>5
<1> HIDE DEF ms, B
<1>7. OwnOrder(b, ms)
  BY <1>1, <1>3, <1>5, <1>6 DEF OwnOrder
<1>8. QED BY <1>7 DEF ms

\* Where match k of a block ends
EndOf(b, ms, k) == IF k = 0 THEN Start(b) ELSE ms[k].dest + ms[k].len

LEMMA FromIs ==
  ASSUME NEW b, NEW ms, NEW k \in Nat
  PROVE  From(FALSE, ms, Start(b), k + 1) = EndOf(b, ms, k)
<1>1. (k + 1 = 1 <=> k = 0) /\ (k + 1) - 1 = k
  OBVIOUS
<1>2. QED BY <1>1 DEF From, NextPos, EndOf

LEMMA EndOfIs ==
  ASSUME File, NEW b \in 1 .. NumBlocks, NEW ms, OwnOrder(b, ms), NEW k \in 0 .. Len(ms)
  PROVE  /\ EndOf(b, ms, k) \in Nat /\ EndOf(b, ms, k) >= Start(b) /\ EndOf(b, ms, k) <= End(b)
         /\ \A n \in 1 .. Len(ms) : n <= k => ms[n].dest + ms[n].len <= EndOf(b, ms, k)
         /\ \A n \in 1 .. Len(ms) : k < n => EndOf(b, ms, k) <= ms[n].dest
<1>1. Start(b) \in Nat /\ End(b) \in Nat /\ Start(b) < End(b)
  BY BlockIs DEF File
<1>2. /\ Len(ms) \in Nat
      /\ \A n \in 1 .. Len(ms) :
           /\ ms[n].dest \in Nat /\ ms[n].len \in Nat
           /\ Start(b) <= ms[n].dest /\ ms[n].dest + ms[n].len <= End(b)
      /\ \A n \in 1 .. Len(ms), x \in 1 .. Len(ms) : n < x => ms[n].dest + ms[n].len <= ms[x].dest
  BY DEF OwnOrder
<1>3. CASE k = 0
  BY <1>1, <1>2, <1>3 DEF EndOf
<1>4. CASE k # 0
  <2>1. k \in 1 .. Len(ms)
    BY <1>2, <1>4
  <2>2. EndOf(b, ms, k) = ms[k].dest + ms[k].len
    BY <1>4 DEF EndOf
  <2>3. /\ ms[k].dest \in Nat /\ ms[k].len \in Nat
        /\ Start(b) <= ms[k].dest /\ ms[k].dest + ms[k].len <= End(b)
    BY <1>2, <2>1
  <2>4. ASSUME NEW n \in 1 .. Len(ms), n <= k
        PROVE  ms[n].dest + ms[n].len <= EndOf(b, ms, k)
    <3>1. CASE n = k
      BY <2>2, <2>3, <3>1
    <3>2. CASE n < k
      <4>1. ms[n].dest + ms[n].len <= ms[k].dest
        BY <1>2, <2>1, <3>2
      <4>2. ms[n].dest \in Nat /\ ms[n].len \in Nat
        BY <1>2
      <4>3. QED BY <2>2, <2>3, <4>1, <4>2
    <3>3. QED BY <2>1, <2>4, <3>1, <3>2
  <2>5. \A n \in 1 .. Len(ms) : k < n => EndOf(b, ms, k) <= ms[n].dest
    BY <1>2, <2>1, <2>2
  <2>6. QED BY <1>1, <2>2, <2>3, <2>4, <2>5
<1>5. QED BY <1>3, <1>4

\* Between the matches of a block there are only literals
LEMMA OwnLiteral ==
  ASSUME File, NEW b \in 1 .. NumBlocks, NEW ms, OwnOrder(b, ms), NEW k \in 0 .. Len(ms),
         NEW q \in Nat, EndOf(b, ms, k) <= q, q < End(b),
         \A n \in 1 .. Len(ms) : k < n => q < ms[n].dest
  PROVE  IsLiteral(q)
<1>1. SUFFICES ASSUME NEW y \in 1 .. Len(matches), Covers(matches[y], q) PROVE FALSE
  BY MatchesDomain DEF IsLiteral
<1>2. /\ matches[y].dest <= q /\ q < matches[y].dest + matches[y].len
      /\ matches[y].dest \in Nat /\ matches[y].len \in Nat
  BY <1>1, MatchIs DEF Covers
<1>3. Start(b) \in Nat /\ End(b) \in Nat
  BY BlockIs DEF File
<1>4. EndOf(b, ms, k) \in Nat /\ EndOf(b, ms, k) >= Start(b)
  BY EndOfIs
<1>5. Start(b) <= matches[y].dest
  <2>1. SUFFICES ASSUME matches[y].dest < Start(b) PROVE FALSE
    BY <1>2, <1>3
  <2>2. matches[y].dest + matches[y].len <= Start(b)
    BY <2>1, EarlierEnds
  <2>3. QED BY <1>2, <1>3, <1>4, <2>2
<1>6. matches[y].dest < End(b)
  BY <1>2, <1>3
<1>7. PICK n \in 1 .. Len(ms) : ms[n] = matches[y]
  BY <1>5, <1>6 DEF OwnOrder
<1>8. n <= k => ms[n].dest + ms[n].len <= EndOf(b, ms, k)
  BY EndOfIs
<1>9. n \in Int /\ k \in Int
  BY DEF OwnOrder
<1>10. CASE k < n
  BY <1>2, <1>7, <1>10
<1>11. CASE n <= k
  BY <1>2, <1>4, <1>7, <1>8, <1>11
<1>12. QED BY <1>9, <1>10, <1>11

LEMMA OwnRun ==
  ASSUME File, NEW b \in 1 .. NumBlocks, NEW ms, OwnOrder(b, ms), NEW k \in 0 .. Len(ms), k < Len(ms)
  PROVE  /\ k + 1 \in 1 .. Len(ms)
         /\ EndOf(b, ms, k) <= ms[k + 1].dest
         /\ LiteralRun(b, EndOf(b, ms, k), ms[k + 1].dest - EndOf(b, ms, k))
         /\ MatchRun(b, ms[k + 1].dest, ms[k + 1].len)
<1> DEFINE n == k + 1
           c == ms[n].dest
           l == ms[n].len
           e == EndOf(b, ms, k)
<1>1. n \in 1 .. Len(ms) /\ k < n /\ k \in Nat
  BY DEF OwnOrder
<1>2. c \in Nat /\ l \in Nat /\ l >= 1 /\ Start(b) <= c /\ c + l <= End(b)
  BY <1>1 DEF OwnOrder
<1>3. e \in Nat /\ e >= Start(b) /\ e <= End(b) /\ e <= c
  BY <1>1, EndOfIs
<1>4. Start(b) \in Nat /\ End(b) \in Nat
  BY BlockIs DEF File
<1>5. \A x \in 1 .. Len(ms) : k < x => c <= ms[x].dest
  <2>1. SUFFICES ASSUME NEW x \in 1 .. Len(ms), k < x
                 PROVE  c <= ms[x].dest
    OBVIOUS
  <2>2. x = n \/ n < x
    BY <1>1, <2>1
  <2>3. ms[x].dest \in Nat
    BY DEF OwnOrder
  <2>4. n < x => ms[n].dest + ms[n].len <= ms[x].dest
    BY <1>1 DEF OwnOrder
  <2>5. QED BY <1>2, <2>2, <2>3, <2>4
<1>6. \A x \in 1 .. Len(ms) : ms[x].dest \in Nat
  BY DEF OwnOrder
<1>7. \E y \in 1 .. Len(matches) : ms[n] = matches[y]
  BY <1>1 DEF OwnOrder
<1>8. \A q \in c .. c + l - 1 : ~IsLiteral(q)
  <2>1. SUFFICES ASSUME NEW q \in c .. c + l - 1
                 PROVE  ~IsLiteral(q)
    OBVIOUS
  <2>2. Covers(ms[n], q)
    BY <1>2, <2>1 DEF Covers
  <2>3. QED BY <1>7, <2>2, MatchesDomain DEF IsLiteral
<1> HIDE DEF c, l, n
<1>9. \A q \in e .. e + (c - e) - 1 : IsLiteral(q)
  <2>1. SUFFICES ASSUME NEW q \in e .. e + (c - e) - 1
                 PROVE  IsLiteral(q)
    OBVIOUS
  <2>2. q \in Nat /\ e <= q /\ q < c /\ q < End(b)
    <3> HIDE DEF e
    <3>1. QED BY <1>2, <1>3, <1>4, <2>1
  <2>3. \A x \in 1 .. Len(ms) : k < x => q < ms[x].dest
    BY <1>2, <1>5, <1>6, <2>2
  <2>4. QED BY <2>2, <2>3, OwnLiteral
<1> HIDE DEF e
<1>10. LiteralRun(b, e, c - e)
  <2>1. c - e \in Nat /\ e + (c - e) <= End(b) /\ e \in Start(b) .. End(b)
    BY <1>2, <1>3, <1>4
  <2>2. QED BY <1>9, <2>1 DEF LiteralRun
<1>11. MatchRun(b, c, l)
  <2>1. c \in Start(b) .. End(b)
    BY <1>2, <1>4
  <2>2. QED BY <1>2, <1>8, <2>1 DEF MatchRun
<1>12. QED BY <1>1, <1>3, <1>10, <1>11 DEF n, c, l, e

LEMMA OwnTail ==
  ASSUME File, NEW b \in 1 .. NumBlocks, NEW ms, OwnOrder(b, ms), NEW k \in 0 .. Len(ms), k = Len(ms)
  PROVE  LiteralRun(b, EndOf(b, ms, k), End(b) - EndOf(b, ms, k))
<1> DEFINE e == EndOf(b, ms, k)
<1>1. e \in Nat /\ e >= Start(b) /\ e <= End(b)
  BY EndOfIs
<1>2. Start(b) \in Nat /\ End(b) \in Nat
  BY BlockIs DEF File
<1>3. \A x \in 1 .. Len(ms) : ~(k < x)
  BY DEF OwnOrder
<1>4. \A q \in e .. e + (End(b) - e) - 1 : IsLiteral(q)
  <2>1. SUFFICES ASSUME NEW q \in e .. e + (End(b) - e) - 1
                 PROVE  IsLiteral(q)
    OBVIOUS
  <2>2. q \in Nat /\ e <= q /\ q < End(b)
    <3> HIDE DEF e
    <3>1. QED BY <1>1, <1>2, <2>1
  <2>3. QED BY <1>3, <2>2, OwnLiteral
<1> HIDE DEF e
<1>5. End(b) - e \in Nat /\ e + (End(b) - e) <= End(b) /\ e \in Start(b) .. End(b)
  BY <1>1, <1>2
<1>6. LiteralRun(b, e, End(b) - e)
  BY <1>4, <1>5 DEF LiteralRun
<1>7. QED BY <1>6 DEF e
\* The bytes of match n, of which m says source and length, come next after o
Follows(b, o, n, m) ==
  /\ n \in 1 .. Len(matches) /\ Start(b) + Len(o) = matches[n].dest
  /\ matches[n].dest + matches[n].len <= End(b)
  /\ m.src = matches[n].src /\ m.len = matches[n].len

\* Copying a match gives the bytes that come next
LEMMA CopyIORight ==
  ASSUME File, NEW o, NEW n, NEW m, Right(blk, o), Follows(blk, o, n, m), FileRight(blk, file)
  PROVE  Right(blk, CopyIO(m, o)) /\ Len(CopyIO(m, o)) = Len(o) + m.len
<1> DEFINE b == blk
           bytes == IF m.src < Start(b) THEN IF m.len <= Start(b) - m.src THEN m.len ELSE Start(b) - m.src ELSE 0
           s == SubSeq(file, m.src + 1, m.src + bytes)
           o1 == o \o s
           from == m.src + bytes - Start(b)
<1>1. /\ b \in 1 .. NumBlocks /\ o \in Seq(Nat) /\ Len(o) <= End(b) - Start(b)
      /\ \A j \in 1 .. Len(o) : o[j] = Data[Start(b) + j - 1]
  BY DEF Right
<1>2. /\ file \in Seq(Nat) /\ Len(file) = Start(b)
      /\ \A j \in 1 .. Len(file) : file[j] = Data[j - 1]
  BY <1>1, BlockIs DEF FileRight, File
<1>3. /\ n \in 1 .. Len(matches) /\ Start(b) + Len(o) = matches[n].dest
      /\ matches[n].dest + matches[n].len <= End(b)
      /\ m.src = matches[n].src /\ m.len = matches[n].len
  BY DEF Follows
<1>4. /\ m.src \in Nat /\ m.len \in Nat /\ m.len >= 1 /\ m.src < Start(b) + Len(o)
      /\ Start(b) + Len(o) + m.len <= End(b)
  BY <1>3, MatchIs
<1>5. /\ Start(b) \in Nat /\ End(b) \in Nat /\ Len(o) \in Nat
  BY <1>1, BlockIs, LenProperties DEF File
<1>6. \A j \in 0 .. m.len - 1 : Data[Start(b) + Len(o) + j] = Data[m.src + j]
  <2>1. \A j \in 0 .. matches[n].len - 1 : Data[matches[n].dest + j] = Data[matches[n].src + j]
    BY <1>3, MatchBytes
  <2>2. QED BY <1>3, <2>1
<1>7. CopyIO(m, o) = CopyInBlock(o1, from, m.len - bytes)
  <2>1. m.src < Start(b) => Min({m.len, Start(b) - m.src})
                              = IF m.len <= Start(b) - m.src THEN m.len ELSE Start(b) - m.src
    BY <1>4, <1>5, Min2
  <2>2. QED BY <2>1 DEF CopyIO
<1>8. /\ bytes \in Nat /\ bytes <= m.len /\ (bytes > 0 => m.src + bytes <= Start(b))
      /\ bytes < m.len => m.src + bytes >= Start(b)
  BY <1>4, <1>5
<1> HIDE DEF b, bytes
<1>9. s \in Seq(Nat) /\ Len(s) = bytes /\ \A j \in 1 .. bytes : s[j] = file[m.src + j]
  <2>1. m.src + 1 \in Int /\ m.src + bytes \in Int
    BY <1>4, <1>8
  <2>2. m.src + 1 .. m.src + bytes \subseteq 1 .. Len(file)
    BY <1>2, <1>4, <1>5, <1>8
  <2>3. \A j \in m.src + 1 .. m.src + bytes : file[j] \in Nat
    BY <1>2, <2>2, ElementOfSeq
  <2>4. /\ s \in Seq(Nat) /\ Len(s) = IF m.src + 1 <= m.src + bytes THEN (m.src + bytes) - (m.src + 1) + 1 ELSE 0
        /\ \A j \in 1 .. (m.src + bytes) - (m.src + 1) + 1 : s[j] = file[(m.src + 1) + j - 1]
    BY <2>1, <2>3, SubSeqProperties
  <2> HIDE DEF s
  <2>5. Len(s) = bytes
    BY <1>4, <1>8, <2>4
  <2>6. ASSUME NEW j \in 1 .. bytes
        PROVE  s[j] = file[m.src + j]
    <3>1. j \in 1 .. (m.src + bytes) - (m.src + 1) + 1 /\ (m.src + 1) + j - 1 = m.src + j
      BY <1>4, <1>8
    <3>2. QED BY <2>4, <3>1
  <2>7. QED BY <2>4, <2>5, <2>6
<1> HIDE DEF s
<1>10. RightNext(b, o, s)
  <2>1. Len(o) + Len(s) <= End(b) - Start(b)
    BY <1>4, <1>5, <1>8, <1>9
  <2>2. ASSUME NEW j \in 1 .. Len(s)
        PROVE  s[j] = Data[Start(b) + Len(o) + j - 1]
    <3>1. j \in 1 .. bytes /\ j - 1 \in 0 .. m.len - 1 /\ m.src + j \in 1 .. Len(file)
          /\ (m.src + j) - 1 = m.src + (j - 1) /\ Start(b) + Len(o) + (j - 1) = Start(b) + Len(o) + j - 1
      <4>1. j \in 1 .. bytes /\ Len(file) = Start(b)
        BY <1>2, <1>9
      <4>2. j \in Nat /\ j >= 1 /\ j <= bytes /\ bytes > 0
        BY <1>8, <4>1
      <4>3. j - 1 \in 0 .. m.len - 1 /\ m.src + j \in 1 .. Len(file)
        BY <1>4, <1>5, <1>8, <4>1, <4>2
      <4>4. (m.src + j) - 1 = m.src + (j - 1) /\ Start(b) + Len(o) + (j - 1) = Start(b) + Len(o) + j - 1
        BY <1>4, <1>5, <4>2
      <4>5. QED BY <4>1, <4>3, <4>4
    <3>2. s[j] = file[m.src + j]
      BY <1>9, <3>1
    <3>3. file[m.src + j] = Data[(m.src + j) - 1]
      BY <1>2, <3>1
    <3>4. Data[Start(b) + Len(o) + (j - 1)] = Data[m.src + (j - 1)]
      BY <1>6, <3>1
    <3>5. QED BY <3>1, <3>2, <3>3, <3>4
  <2>3. QED BY <1>9, <2>1, <2>2 DEF RightNext
<1>11. Right(b, o1) /\ Len(o1) = Len(o) + bytes
  <2>1. Right(b, o)
    BY DEF b
  <2>2. QED BY <1>9, <1>10, <2>1, AddBytes
<1> HIDE DEF o1
<1>12. CopyFits(b, o1, from, m.len - bytes)
  <2> DEFINE len == m.len - bytes
  <2>1. from \in Int /\ len \in Nat /\ Len(o1) + len <= End(b) - Start(b)
    BY <1>4, <1>5, <1>8, <1>11
  <2>2. len > 0 => from >= 0 /\ from < Len(o1)
    BY <1>4, <1>5, <1>8, <1>11
  <2>3. ASSUME NEW j \in 0 .. len - 1
        PROVE  Data[Start(b) + Len(o1) + j] = Data[Start(b) + from + j]
    <3>1. bytes + j \in 0 .. m.len - 1 /\ Start(b) + Len(o1) + j = Start(b) + Len(o) + (bytes + j)
          /\ Start(b) + from + j = m.src + (bytes + j)
      <4>1. j \in Nat /\ j < m.len - bytes
        BY <1>4, <1>8
      <4>2. bytes + j \in 0 .. m.len - 1
        BY <1>4, <1>8, <4>1
      <4>3. Start(b) + Len(o1) + j = Start(b) + Len(o) + (bytes + j)
        BY <1>5, <1>8, <1>11, <4>1
      <4>4. Start(b) + from + j = m.src + (bytes + j)
        BY <1>4, <1>5, <1>8, <4>1
      <4>5. QED BY <4>2, <4>3, <4>4
    <3>2. Data[Start(b) + Len(o) + (bytes + j)] = Data[m.src + (bytes + j)]
      BY <1>6, <3>1
    <3>3. QED BY <3>1, <3>2
  <2> HIDE DEF from, len
  <2>4. CopyFits(b, o1, from, len)
    BY <2>1, <2>2, <2>3 DEF CopyFits
  <2>5. QED BY <2>4 DEF len
<1> DEFINE r == CopyInBlock(o1, from, m.len - bytes)
<1> HIDE DEF from
<1>13. Right(b, r) /\ Len(r) = Len(o1) + (m.len - bytes)
  BY <1>11, <1>12, CopyRight
<1>14. Len(r) = Len(o) + m.len
  <2> HIDE DEF r
  <2>1. QED BY <1>4, <1>5, <1>8, <1>11, <1>13
<1>15. QED BY <1>7, <1>13, <1>14 DEF b

\* What is left of the list of a block after k matches
OwnLeft(b, k, s) ==
  /\ k \in 0 .. Len(InBlock(b))
  /\ s \in Seq(Nat) /\ Len(s) = StatsPerMatch(round) * (Len(InBlock(b)) - k)
  /\ \A j \in 1 .. Len(s) : s[j] = Statbuf(b)[StatsPerMatch(round) * k + j]

LEMMA OwnWords ==
  ASSUME File, NEW b \in 1 .. NumBlocks
  PROVE  /\ Len(InBlock(b)) \in Nat /\ Statbuf(b) \in Seq(Nat)
         /\ Len(Statbuf(b)) = StatsPerMatch(round) * Len(InBlock(b))
         /\ OwnLeft(b, 0, Statbuf(b))
<1> DEFINE ms == InBlock(b)
           c == StatsPerMatch(round)
<1>1. Len(ms) \in Nat
  BY InBlockIs
<1>2. ListTypes(FALSE, round, BASE_LEN, ms, Start(b))
  BY OwnListFits
<1> HIDE DEF ms
<1>3. PICK f : f = FALSE
  OBVIOUS
<1>4. ListTypes(f, round, BASE_LEN, ms, Start(b))
  BY <1>2, <1>3
<1>5. /\ EncodeList(ms, f, round, BASE_LEN, Start(b)) \in Seq(Nat)
      /\ Len(EncodeList(ms, f, round, BASE_LEN, Start(b))) = c * Len(ms)
  BY <1>4, ListWords
<1>6. Statbuf(b) = EncodeList(ms, f, round, BASE_LEN, Start(b))
  BY <1>3 DEF Statbuf, ms
<1>7. Statbuf(b) \in Seq(Nat) /\ Len(Statbuf(b)) = c * Len(ms)
  BY <1>5, <1>6
<1>8. c \in Nat
  BY DEF StatsPerMatch
<1> DEFINE w == Statbuf(b)
<1> HIDE DEF c, w
<1>9. Len(ms) - 0 = Len(ms) /\ 0 \in 0 .. Len(ms) /\ \A j \in 1 .. Len(w) : w[c * 0 + j] = w[j]
  BY <1>1, <1>8
<1>10. QED BY <1>1, <1>7, <1>9 DEF OwnLeft, c, w, ms

\* The next record of the list is the next match of the block
LEMMA OwnRecord ==
  ASSUME File, NEW b \in 1 .. NumBlocks, NEW k, NEW s, OwnLeft(b, k, s), s # <<>>
  PROVE  /\ k < Len(InBlock(b)) /\ k + 1 \in 1 .. Len(InBlock(b))
         /\ Decode(FALSE, round, BASE_LEN, EndOf(b, InBlock(b), k), s)
              = [lit |-> InBlock(b)[k + 1].dest - EndOf(b, InBlock(b), k), len |-> InBlock(b)[k + 1].len,
                 src |-> InBlock(b)[k + 1].src, dest |-> InBlock(b)[k + 1].dest]
         /\ OwnLeft(b, k + 1, SubSeq(s, StatsPerMatch(round) + 1, Len(s)))
<1> DEFINE ms == InBlock(b)
           c == StatsPerMatch(round)
           w == Statbuf(b)
           n == k + 1
<1>1. /\ k \in 0 .. Len(ms) /\ s \in Seq(Nat) /\ Len(s) = c * (Len(ms) - k)
      /\ \A j \in 1 .. Len(s) : s[j] = w[c * k + j]
  BY DEF OwnLeft
<1>2. Len(ms) \in Nat /\ c \in Nat /\ c \in {3, 4}
  BY OwnWords DEF StatsPerMatch
<1>3. Len(s) # 0 /\ Len(s) \in Nat
  BY <1>1, EmptySeq, LenProperties
<1> HIDE DEF ms, w, c
<1>4. k < Len(ms) /\ n \in 1 .. Len(ms) /\ n - 1 = k
  <2>1. k = Len(ms) => Len(s) = 0
    BY <1>1, <1>2
  <2>2. QED BY <1>1, <1>2, <1>3, <2>1
<1>5. c <= Len(s) /\ c * (n - 1) = c * k
  BY <1>1, <1>2, <1>4
<1> DEFINE word == Word(FALSE, round, BASE_LEN, ms, Start(b), n)
           e == EndOf(b, ms, k)
<1>6. \A j \in 1 .. c : s[j] = word[j]
  <2>1. PICK f : f = FALSE
    OBVIOUS
  <2>2. ListTypes(f, round, BASE_LEN, ms, Start(b))
    BY <2>1, OwnListFits DEF ms
  <2>3. w = EncodeList(ms, f, round, BASE_LEN, Start(b))
    BY <2>1 DEF Statbuf, ms, w
  <2>4. \A j \in 1 .. c : w[c * (n - 1) + j] = Word(f, round, BASE_LEN, ms, Start(b), n)[j]
    BY <1>4, <2>2, <2>3, ListWords DEF c
  <2>5. \A j \in 1 .. c : w[c * k + j] = word[j]
    BY <1>5, <2>1, <2>4
  <2> HIDE DEF word
  <2>6. 1 .. c \subseteq 1 .. Len(s)
    BY ONLY <1>2, <1>3, <1>5
  <2>7. QED BY <1>1, <2>5, <2>6, Zenon
<1>7. Decode(FALSE, round, BASE_LEN, e, s) = Decode(FALSE, round, BASE_LEN, e, word)
  <2> HIDE DEF word, e
  <2>1. PICK f : f = FALSE
    OBVIOUS
  <2>2. Decode(f, round, BASE_LEN, e, s) = Decode(f, round, BASE_LEN, e, word)
    BY <1>6, DecodeFirst DEF c
  <2>3. QED BY <2>1, <2>2
<1>8. Decode(FALSE, round, BASE_LEN, e, word) = Record(FALSE, ms, Start(b), n)
  <2>1. From(FALSE, ms, Start(b), n) = e
    <3>1. k \in Nat
      BY <1>1
    <3>2. QED BY <3>1, FromIs
  <2>2. ListFits(FALSE, round, BASE_LEN, ms, Start(b))
    BY OwnListFits DEF ms
  <2> HIDE DEF e, n
  <2>3. QED BY <1>4, <2>1, <2>2 DEF ListFits
<1>9. Record(FALSE, ms, Start(b), n) = [lit |-> ms[n].dest - e, len |-> ms[n].len,
                                         src |-> ms[n].src, dest |-> ms[n].dest]
  <2>1. From(FALSE, ms, Start(b), n) = e
    <3>1. k \in Nat
      BY <1>1
    <3>2. QED BY <3>1, FromIs
  <2> HIDE DEF e, n
  <2>2. QED BY <2>1 DEF Record, Here
<1> DEFINE t == SubSeq(s, c + 1, Len(s))
<1>10. t \in Seq(Nat) /\ Len(t) = Len(s) - c /\ \A j \in 1 .. Len(t) : t[j] = s[c + j]
  <2>1. \A j \in c + 1 .. Len(s) : s[j] \in Nat
    BY <1>1, <1>2, <1>3, ElementOfSeq
  <2>2. c + 1 \in Int /\ Len(s) \in Int
    BY <1>2, <1>3
  <2>3. /\ t \in Seq(Nat) /\ Len(t) = IF c + 1 <= Len(s) THEN Len(s) - (c + 1) + 1 ELSE 0
        /\ \A j \in 1 .. Len(s) - (c + 1) + 1 : t[j] = s[(c + 1) + j - 1]
    BY <2>1, <2>2, SubSeqProperties
  <2> HIDE DEF t
  <2>4. Len(t) = Len(s) - c
    BY <1>2, <1>3, <1>5, <2>3
  <2>5. ASSUME NEW j \in 1 .. Len(t)
        PROVE  t[j] = s[c + j]
    <3>1. j \in 1 .. Len(s) - (c + 1) + 1 /\ (c + 1) + j - 1 = c + j
      BY <1>2, <1>3, <2>4
    <3>2. QED BY <2>3, <3>1
  <2>6. QED BY <2>3, <2>4, <2>5
<1> HIDE DEF t
<1>11. Len(t) = c * (Len(ms) - n) /\ n \in 0 .. Len(ms)
  <2>1. c * (Len(ms) - n) = c * (Len(ms) - k) - c
    BY <1>1, <1>2
  <2>2. QED BY <1>1, <1>4, <1>10, <2>1
<1>12. ASSUME NEW j \in 1 .. Len(t)
       PROVE  t[j] = w[c * n + j]
  <2>1. c + j \in 1 .. Len(s) /\ t[j] = s[c + j]
    BY <1>2, <1>3, <1>10
  <2>2. c * k + (c + j) = c * n + j
    BY <1>1, <1>2
  <2>3. QED BY <1>1, <2>1, <2>2
<1> HIDE DEF n
<1>13. OwnLeft(b, n, t)
  BY <1>10, <1>11, <1>12 DEF OwnLeft, ms, w, c
<1>14. QED BY <1>4, <1>7, <1>8, <1>9, <1>13 DEF n, t, c, ms
\* Matches and literals have been used up to the end of match k
IOAt(k, s, o, u) ==
  /\ OwnLeft(blk, k, s) /\ Right(blk, o)
  /\ Start(blk) + Len(o) = EndOf(blk, InBlock(blk), k)
  /\ u = LitCount(blk, Start(blk) + Len(o))

LEMMA IOTypes ==
  ASSUME File, NEW k, NEW s, NEW o, NEW u, IOAt(k, s, o, u)
  PROVE  /\ blk \in 1 .. NumBlocks /\ Start(blk) \in Nat /\ End(blk) \in Nat /\ Start(blk) < End(blk)
         /\ Len(o) \in Nat /\ Start(blk) + Len(o) \in Start(blk) .. End(blk) /\ u \in Nat
<1>1. blk \in 1 .. NumBlocks /\ o \in Seq(Nat) /\ Len(o) <= End(blk) - Start(blk)
  BY DEF IOAt, Right
<1>2. Start(blk) \in Nat /\ End(blk) \in Nat /\ Start(blk) < End(blk) /\ Len(o) \in Nat
  BY <1>1, BlockIs, LenProperties DEF File
<1>3. Start(blk) + Len(o) \in Start(blk) .. End(blk)
  BY <1>1, <1>2
<1>4. u \in Nat
  <2> DEFINE p == Start(blk) + Len(o)
  <2>1. p \in Start(blk) .. End(blk) /\ u = LitCount(blk, p)
    BY <1>3 DEF IOAt
  <2> HIDE DEF p
  <2>2. QED BY <1>1, <2>1, LitCountType
<1>5. QED BY <1>1, <1>2, <1>3, <1>4

\* What the next record of the list says
NextRecord == Decode(FALSE, ArchiveRounds, FUTURELZ_BASE_LEN, Start(blk) + Len(out), stat)

\* The next match is accepted, and decoded
LEMMA IOMatch ==
  ASSUME File, format = "io", FileRight(blk, file), NEW k, IOAt(k, stat, out, used), stat # <<>>,
         NEW m, m = NextRecord
  PROVE  /\ m.lit <= Len(Literals(blk)) - used
         /\ m.lit + m.len <= End(blk) - Start(blk) - Len(out)
         /\ m.src < m.dest /\ m.src \in Nat /\ m.dest \in Nat /\ m.lit \in Nat /\ m.len \in Nat
         /\ IOAt(k + 1, SubSeq(stat, StatsPerMatch(ArchiveRounds) + 1, Len(stat)),
                 CopyIO(m, out \o NextLiterals(m.lit)), used + m.lit)
<1> DEFINE b == blk
           ms == InBlock(b)
           e == EndOf(b, ms, k)
           n == k + 1
           x == ms[n]
           lits == NextLiterals(m.lit)
           o1 == out \o lits
           o2 == CopyIO(m, o1)
           t == SubSeq(stat, StatsPerMatch(round) + 1, Len(stat))
<1>1. /\ b \in 1 .. NumBlocks /\ Start(b) \in Nat /\ End(b) \in Nat /\ Start(b) < End(b)
      /\ Len(out) \in Nat /\ used \in Nat
  BY IOTypes
<1>2. OwnLeft(b, k, stat) /\ Right(b, out) /\ Start(b) + Len(out) = e /\ used = LitCount(b, Start(b) + Len(out))
  BY DEF IOAt
<1>3. ArchiveRounds = round /\ FUTURELZ_BASE_LEN = BASE_LEN
  BY DEF ArchiveRounds, FUTURELZ_BASE_LEN, File, GivenKept
<1>4. /\ k < Len(ms) /\ n \in 1 .. Len(ms) /\ OwnLeft(b, n, t)
      /\ m = [lit |-> x.dest - e, len |-> x.len, src |-> x.src, dest |-> x.dest]
  <2>1. m = Decode(FALSE, round, BASE_LEN, e, stat)
    BY <1>2, <1>3 DEF NextRecord
  <2> HIDE DEF x, e
  <2>2. /\ k < Len(ms) /\ n \in 1 .. Len(ms) /\ OwnLeft(b, n, t)
        /\ Decode(FALSE, round, BASE_LEN, EndOf(b, ms, k), stat)
             = [lit |-> ms[n].dest - EndOf(b, ms, k), len |-> ms[n].len,
                src |-> ms[n].src, dest |-> ms[n].dest]
    BY <1>1, <1>2, OwnRecord
  <2>3. QED BY <2>1, <2>2 DEF x, e
<1>5. OwnOrder(b, ms) /\ k \in 0 .. Len(ms)
  BY <1>1, <1>2, OwnOrdered DEF OwnLeft
<1> HIDE DEF b, ms
<1>6. /\ e <= x.dest /\ LiteralRun(b, e, x.dest - e) /\ MatchRun(b, x.dest, x.len)
  BY <1>1, <1>4, <1>5, OwnRun
<1>7. PICK y \in 1 .. Len(matches) : x = matches[y]
  BY <1>4, <1>5 DEF OwnOrder
<1>8. /\ x.dest \in Nat /\ x.len \in Nat /\ x.dest + x.len <= End(b)
  BY <1>4, <1>5 DEF OwnOrder
<1>9. x.src \in Nat /\ x.src < x.dest
  BY <1>7, MatchIs
<1>22. e \in Nat
  <2> HIDE DEF e
  <2>1. QED BY <1>1, <1>2
<1> HIDE DEF e, x
<1>10. /\ m.lit = x.dest - e /\ m.len = x.len /\ m.src = x.src /\ m.dest = x.dest
       /\ e \in Nat
  <2> HIDE DEF n
  <2>1. QED BY <1>4, <1>22
<1>11. m.lit \in Nat /\ m.len \in Nat
  BY <1>6, <1>8, <1>10
<1>12. /\ used + m.lit <= Len(Literals(b)) /\ Len(Literals(b)) \in Nat
       /\ RightNext(b, out, lits) /\ Len(lits) = m.lit
  <2>1. LiteralRun(b, Start(b) + Len(out), m.lit)
    BY <1>2, <1>6, <1>10
  <2>2. lits = SubSeq(Literals(b), used + 1, used + m.lit)
    BY DEF NextLiterals, b
  <2> DEFINE l == m.lit
  <2> HIDE DEF l, lits
  <2>3. LiteralsNext(b, out, used, l) /\ lits = SubSeq(Literals(b), used + 1, used + l)
    BY <1>2, <2>1, <2>2 DEF l, LiteralsNext
  <2>4. /\ used + l <= Len(Literals(b)) /\ Len(Literals(b)) \in Nat
        /\ RightNext(b, out, lits) /\ Len(lits) = l
    <3>1. LiteralsRight(b, out, used, l)
      BY <1>2, <2>3, AddLiterals
    <3>2. QED BY <2>3, <3>1 DEF LiteralsRight
  <2>5. QED BY <2>4 DEF l
<1> HIDE DEF lits
<1>13. Right(b, o1) /\ Len(o1) = Len(out) + m.lit
  BY <1>2, <1>12, AddBytes
<1> HIDE DEF o1
<1>14. Start(b) + Len(o1) = x.dest
  BY <1>1, <1>2, <1>6, <1>8, <1>10, <1>13
<1>15. Right(b, o2) /\ Len(o2) = Len(o1) + m.len
  <2>1. m.src = matches[y].src /\ m.len = matches[y].len
    BY <1>7, <1>10
  <2>2. Follows(b, o1, y, m)
    BY <1>7, <1>8, <1>14, <2>1 DEF Follows
  <2>3. FileRight(b, file)
    BY DEF b
  <2>4. QED BY <1>13, <2>1, <2>2, <2>3, CopyIORight DEF b
<1> HIDE DEF o2
<1>16. Start(b) + Len(o2) = x.dest + x.len /\ x.dest + x.len = EndOf(b, ms, n)
  <2>1. Start(b) + Len(o2) = x.dest + x.len
    <3>1. Len(o2) = Len(o1) + x.len /\ Len(o1) \in Nat
      BY <1>10, <1>13, <1>15, LenProperties DEF Right
    <3>2. QED BY <1>1, <1>8, <1>14, <3>1
  <2>2. n # 0
    BY <1>4, <1>5 DEF OwnOrder
  <2>3. QED BY <2>1, <2>2 DEF EndOf, x
<1>17. used + m.lit = LitCount(b, Start(b) + Len(o2))
  <2>1. LitCount(b, e + (x.dest - e)) = LitCount(b, e) + (x.dest - e)
    BY <1>6, RunCount
  <2>2. LitCount(b, x.dest + x.len) = LitCount(b, x.dest)
    BY <1>6, RunCount
  <2>3. e + (x.dest - e) = x.dest
    BY <1>8, <1>10
  <2>4. QED BY <1>2, <1>10, <1>16, <2>1, <2>2, <2>3
<1>18. IOAt(n, t, o2, used + m.lit)
  BY <1>4, <1>15, <1>16, <1>17 DEF IOAt, b, ms
<1>19. IOAt(k + 1, SubSeq(stat, StatsPerMatch(ArchiveRounds) + 1, Len(stat)),
            CopyIO(m, out \o NextLiterals(m.lit)), used + m.lit)
  BY <1>3, <1>18 DEF n, t, o2, o1, lits
<1>20. /\ m.lit <= Len(Literals(b)) - used
       /\ m.lit + m.len <= End(b) - Start(b) - Len(out)
  <2> HIDE DEF n, t
  <2>1. m.lit <= Len(Literals(b)) - used
    BY <1>1, <1>11, <1>12
  <2>2. m.lit + m.len <= End(b) - Start(b) - Len(out)
    <3>1. m.len = x.len /\ Len(o1) = Len(out) + m.lit
      BY <1>10, <1>13
    <3>2. QED BY <1>1, <1>8, <1>11, <1>14, <3>1
  <2>3. QED BY <2>1, <2>2
<1>21. QED BY <1>9, <1>8, <1>10, <1>11, <1>19, <1>20 DEF b

\* Behind the last match of the block there are literals up to its end
LEMMA IOTail ==
  ASSUME File, format = "io", NEW k, IOAt(k, stat, out, used), stat = <<>>,
         NEW rest, rest = Len(Literals(blk)) - used
  PROVE  /\ rest = End(blk) - Start(blk) - Len(out)
         /\ Right(blk, out \o NextLiterals(rest))
         /\ Len(out \o NextLiterals(rest)) = End(blk) - Start(blk)
<1> DEFINE b == blk
           ms == InBlock(b)
           e == EndOf(b, ms, k)
           l == End(b) - e
<1>1. /\ b \in 1 .. NumBlocks /\ Start(b) \in Nat /\ End(b) \in Nat /\ Start(b) < End(b)
      /\ Len(out) \in Nat /\ used \in Nat
  BY IOTypes
<1>2. OwnLeft(b, k, stat) /\ Right(b, out) /\ Start(b) + Len(out) = e /\ used = LitCount(b, Start(b) + Len(out))
  BY DEF IOAt
<1>3. k = Len(ms) /\ k \in 0 .. Len(ms)
  <2> DEFINE c == StatsPerMatch(round)
  <2>1. k \in 0 .. Len(ms) /\ Len(stat) = c * (Len(ms) - k) /\ Len(ms) \in Nat
    BY <1>1, <1>2, OwnWords DEF OwnLeft
  <2>2. Len(stat) = 0 /\ c \in {3, 4}
    BY DEF StatsPerMatch
  <2> HIDE DEF c
  <2>3. QED BY <2>1, <2>2
<1>4. OwnOrder(b, ms)
  BY <1>1, OwnOrdered
<1> HIDE DEF b, ms
<1>5. LiteralRun(b, e, End(b) - e)
  BY <1>1, <1>3, <1>4, OwnTail
<1>6. LiteralRun(b, Start(b) + Len(out), l) /\ LiteralsNext(b, out, used, l)
  BY <1>2, <1>5 DEF LiteralsNext
<1> HIDE DEF l
<1>7. /\ used + l <= Len(Literals(b)) /\ Len(Literals(b)) \in Nat
      /\ RightNext(b, out, SubSeq(Literals(b), used + 1, used + l))
      /\ Len(SubSeq(Literals(b), used + 1, used + l)) = l
  <2>1. LiteralsRight(b, out, used, l)
    BY <1>2, <1>6, AddLiterals
  <2>2. QED BY <2>1 DEF LiteralsRight
<1>8. l = End(b) - Start(b) - Len(out) /\ l \in Nat
  <2>1. l \in Nat /\ e \in Nat
    BY <1>1, <1>2, <1>6 DEF LiteralRun
  <2>2. QED BY <1>1, <1>2, <2>1 DEF l
<1>9. Len(Literals(b)) = used + l
  <2>1. LitCount(b, e + l) = LitCount(b, e) + l
    BY <1>2, <1>6, RunCount
  <2>2. e + l = End(b)
    <3>1. e \in Nat
      BY <1>1, <1>2
    <3>2. QED BY <1>1, <3>1 DEF l
  <2>3. LitCount(b, End(b)) = Len(Literals(b))
    BY LiteralsIs DEF LitCount
  <2>4. QED BY <1>2, <2>1, <2>2, <2>3
<1>10. rest = l
  <2>1. rest = Len(Literals(b)) - used
    BY DEF b
  <2> DEFINE L == Len(Literals(b))
  <2>2. L = used + l /\ rest = L - used
    BY <1>9, <2>1
  <2>3. used \in Nat /\ l \in Nat
    BY <1>1, <1>8
  <2> HIDE DEF L, e
  <2>4. QED BY ONLY <2>2, <2>3
<1>11. NextLiterals(rest) = SubSeq(Literals(b), used + 1, used + l)
  BY <1>10 DEF NextLiterals, b
<1> DEFINE s == SubSeq(Literals(b), used + 1, used + l)
<1> HIDE DEF s
<1>12. Right(b, out \o s) /\ Len(out \o s) = Len(out) + Len(s)
  BY <1>2, <1>7, AddBytes DEF s
<1>13. Len(s) = l /\ NextLiterals(rest) = s
  BY <1>7, <1>11 DEF s
<1>14. QED BY <1>1, <1>8, <1>10, <1>12, <1>13 DEF b
\* A block decoded to its end is written behind the others
LEMMA FileGrows ==
  ASSUME File, NEW b, NEW f, NEW o, FileRight(b, f), Right(b, o), Len(o) = End(b) - Start(b)
  PROVE  FileRight(b + 1, SubSeq(f, 1, Start(b)) \o o)
<1>1. /\ b \in 1 .. NumBlocks /\ o \in Seq(Nat)
      /\ \A n \in 1 .. Len(o) : o[n] = Data[Start(b) + n - 1]
  BY DEF Right
<1>2. /\ Start(b) \in Nat /\ End(b) \in Nat /\ Start(b) < End(b) /\ End(b - 1) = Start(b)
  BY <1>1, BlockIs DEF File
<1>3. /\ f \in Seq(Nat) /\ Len(f) = Start(b)
      /\ \A n \in 1 .. Len(f) : f[n] = Data[n - 1]
  BY <1>2 DEF FileRight
<1>4. SubSeq(f, 1, Start(b)) = f
  BY <1>3, SubSeqFull
<1> DEFINE g == f \o o
<1>5. /\ g \in Seq(Nat) /\ Len(g) = Len(f) + Len(o)
      /\ \A n \in 1 .. Len(f) + Len(o) : g[n] = IF n <= Len(f) THEN f[n] ELSE o[n - Len(f)]
  BY <1>1, <1>3, ConcatProperties
<1> HIDE DEF g
<1>6. Len(g) = End(b)
  BY <1>2, <1>3, <1>5
<1>7. ASSUME NEW n \in 1 .. Len(g)
      PROVE  g[n] = Data[n - 1]
  <2>1. g[n] = IF n <= Len(f) THEN f[n] ELSE o[n - Len(f)]
    BY <1>2, <1>3, <1>5
  <2>2. CASE n <= Len(f)
    <3>1. n \in 1 .. Len(f)
      BY <1>2, <1>3, <2>2
    <3>2. QED BY <1>3, <2>1, <2>2, <3>1
  <2>3. CASE ~(n <= Len(f))
    <3> DEFINE k == n - Len(f)
    <3>1. k \in 1 .. Len(o) /\ Start(b) + k - 1 = n - 1
      BY <1>2, <1>3, <1>6, <2>3
    <3>2. g[n] = o[k]
      BY <2>1, <2>3
    <3> HIDE DEF k
    <3>3. o[k] = Data[Start(b) + k - 1]
      BY <1>1, <3>1
    <3>4. QED BY <3>1, <3>2, <3>3
  <2>4. QED BY <2>2, <2>3
<1>8. (b + 1) - 1 = b
  BY <1>1
<1>9. FileRight(b + 1, g)
  BY <1>5, <1>6, <1>7, <1>8 DEF FileRight
<1>10. QED BY <1>4, <1>9 DEF g

\* A block decoded to its end passes the comparison of its checksum
LEMMA BlockPasses ==
  ASSUME File, NEW b, NEW o, Right(b, o)
  PROVE  ~ \E n \in 1 .. End(b) - Start(b) : n <= Len(o) /\ o[n] # Data[Start(b) + n - 1]
<1>1. /\ b \in 1 .. NumBlocks /\ o \in Seq(Nat)
      /\ \A n \in 1 .. Len(o) : o[n] = Data[Start(b) + n - 1]
  BY DEF Right
<1>2. Start(b) \in Nat /\ End(b) \in Nat /\ Len(o) \in Nat
  BY <1>1, BlockIs, LenProperties DEF File
<1>3. ASSUME NEW n \in 1 .. End(b) - Start(b), n <= Len(o)
      PROVE  o[n] = Data[Start(b) + n - 1]
  <2>1. n \in 1 .. Len(o)
    BY <1>2, <1>3
  <2>2. QED BY <1>1, <2>1
<1>4. QED BY <1>3
-----------------------------------------------------------------------------
(* The pieces of Future-LZ: what the matches are cut into.                 *)

\* Match m copies bytes of block b
Touches(m, b) == m.src < End(b) /\ Start(b) < m.src + m.len

PiecesOf(b) == {Piece(matches[n], b) : n \in {k \in 1 .. Len(matches) : Touches(matches[k], b)}}

\* Piece q of match m has its source in block b
PieceFits(q, m, b) ==
  /\ q \in Match /\ q.len >= 1 /\ q.src < q.dest
  /\ Start(b) <= q.src /\ q.src < End(b) /\ q.src + q.len <= End(b)
  /\ m.src <= q.src /\ q.src + q.len <= m.src + m.len
  /\ q.dest = m.dest + (q.src - m.src)
  /\ \A p \in Int : m.src <= p /\ p < m.src + m.len /\ Start(b) <= p /\ p < End(b)
                       <=> q.src <= p /\ p < q.src + q.len

\* From n bytes at a the part in S .. E - 1: l bytes at s
CutFits(S, E, a, n, s, l) ==
  /\ S \in Nat /\ E \in Nat /\ a \in Nat /\ n \in Nat /\ n >= 1 /\ S < E /\ a < E /\ S < a + n
  /\ s = (IF S <= a THEN a ELSE S)
  /\ l = (IF n - (s - a) <= E - s THEN n - (s - a) ELSE E - s)

CutIs(S, E, a, n, s, l) ==
  /\ s \in Nat /\ s >= a /\ s >= S /\ s < E /\ (s = a \/ s = S) /\ s < a + n
  /\ l \in Nat /\ l >= 1 /\ s + l <= E /\ s + l <= a + n /\ (s + l = E \/ s + l = a + n)

LEMMA Cut ==
  ASSUME NEW S, NEW E, NEW a, NEW n, NEW s, NEW l, CutFits(S, E, a, n, s, l)
  PROVE  CutIs(S, E, a, n, s, l)
<1>1. /\ S \in Nat /\ E \in Nat /\ a \in Nat /\ n \in Nat /\ n >= 1 /\ S < E /\ a < E /\ S < a + n
      /\ s = (IF S <= a THEN a ELSE S)
      /\ l = (IF n - (s - a) <= E - s THEN n - (s - a) ELSE E - s)
  BY DEF CutFits
<1>2. s \in Nat /\ s >= a /\ s >= S /\ s < E /\ (s = a \/ s = S) /\ s < a + n
  BY <1>1
<1>3. (l = n - (s - a) /\ n - (s - a) <= E - s) \/ (l = E - s /\ E - s <= n - (s - a))
  <2> DEFINE x == n - (s - a)
             y == E - s
  <2>1. x \in Int /\ y \in Int
    BY <1>1, <1>2
  <2>2. l = IF x <= y THEN x ELSE y
    BY <1>1
  <2> HIDE DEF x, y
  <2>3. (l = x /\ x <= y) \/ (l = y /\ y <= x)
    BY <2>1, <2>2
  <2>4. QED BY <2>3 DEF x, y
<1>4. l \in Nat /\ l >= 1 /\ s + l <= E /\ s + l <= a + n /\ (s + l = E \/ s + l = a + n)
  BY <1>1, <1>2, <1>3
<1>5. QED BY <1>2, <1>4 DEF CutIs

LEMMA PieceIs ==
  ASSUME File, NEW m \in Match, m.src < m.dest, m.len >= 1, NEW b \in 1 .. NumBlocks, Touches(m, b)
  PROVE  PieceFits(Piece(m, b), m, b)
<1> DEFINE s == IF Start(b) <= m.src THEN m.src ELSE Start(b)
           l == IF m.len - (s - m.src) <= End(b) - s THEN m.len - (s - m.src) ELSE End(b) - s
           q == [src |-> s, dest |-> m.dest + (s - m.src), len |-> l]
<1>1. Start(b) \in Nat /\ End(b) \in Nat /\ Start(b) < End(b)
  BY BlockIs DEF File
<1>2. m.src \in Nat /\ m.dest \in Nat /\ m.len \in Nat
  BY DEF Match
<1>3. m.src < End(b) /\ Start(b) < m.src + m.len
  BY DEF Touches
<1>4. Max({m.src, Start(b)}) = s
  BY <1>1, <1>2, Max2
<1>5. s \in Nat /\ Min({m.len - (s - m.src), End(b) - s}) = l
  <2>1. s \in Nat
    BY <1>1, <1>2
  <2> HIDE DEF s
  <2>2. m.len - (s - m.src) \in Int /\ End(b) - s \in Int
    BY <1>1, <1>2, <2>1
  <2>3. QED BY <2>1, <2>2, Min2
<1>6. Piece(m, b) = q
  BY <1>4, <1>5 DEF Piece
<1>7. /\ s >= m.src /\ s >= Start(b) /\ s < End(b) /\ (s = m.src \/ s = Start(b)) /\ s < m.src + m.len
      /\ l \in Nat /\ l >= 1 /\ s + l <= End(b) /\ s + l <= m.src + m.len
      /\ (s + l = End(b) \/ s + l = m.src + m.len)
  <2> DEFINE a == m.src
             n == m.len
             S == Start(b)
             E == End(b)
  <2>1. CutFits(S, E, a, n, s, l)
    BY <1>1, <1>2, <1>3 DEF CutFits
  <2> HIDE DEF s, l, a, n, S, E
  <2>2. CutIs(S, E, a, n, s, l)
    BY <2>1, Cut
  <2>3. QED BY <2>2 DEF CutIs, a, n, S, E
<1> HIDE DEF s, l
<1>8. q \in Match /\ q.src = s /\ q.len = l /\ q.dest = m.dest + (s - m.src)
  BY <1>2, <1>5, <1>7 DEF Match
<1> HIDE DEF q
<1>9. PieceFits(q, m, b)
  <2>1. q.src < q.dest
    BY <1>2, <1>5, <1>7, <1>8
  <2>2. ASSUME NEW p \in Int
        PROVE  m.src <= p /\ p < m.src + m.len /\ Start(b) <= p /\ p < End(b)
                 <=> q.src <= p /\ p < q.src + q.len
    BY <1>1, <1>2, <1>5, <1>7, <1>8
  <2>3. QED BY <1>7, <1>8, <2>1, <2>2 DEF PieceFits
<1>10. QED BY <1>6, <1>9
AllPieces == UNION {PiecesOf(b) : b \in 1 .. NumBlocks}

LEMMA PieceOf ==
  ASSUME File, NEW b \in 1 .. NumBlocks, NEW q \in PiecesOf(b)
  PROVE  \E n \in 1 .. Len(matches) : /\ Touches(matches[n], b) /\ q = Piece(matches[n], b)
                                      /\ PieceFits(q, matches[n], b)
<1>1. PICK n \in 1 .. Len(matches) : Touches(matches[n], b) /\ q = Piece(matches[n], b)
  BY DEF PiecesOf
<1>2. matches[n] \in Match /\ matches[n].src < matches[n].dest /\ matches[n].len >= 1
  BY MatchIs
<1>3. PieceFits(Piece(matches[n], b), matches[n], b)
  BY <1>1, <1>2, PieceIs
<1>4. QED BY <1>1, <1>3

\* A piece copies from before; source and destination lie in one block each
LEMMA PieceBounds ==
  ASSUME File, NEW q \in AllPieces
  PROVE  /\ q \in Match /\ q.src \in Nat /\ q.dest \in Nat /\ q.len \in Nat /\ q.len >= 1
         /\ q.src < q.dest /\ q.dest + q.len <= total
         /\ \E b \in 1 .. NumBlocks : /\ q \in PiecesOf(b) /\ Start(b) <= q.src
                                      /\ q.src < End(b) /\ q.src + q.len <= End(b)
         /\ \E b \in 1 .. NumBlocks : /\ Start(b) <= q.dest /\ q.dest < End(b)
                                      /\ q.dest + q.len <= End(b)
<1>1. PICK a : a \in 1 .. NumBlocks /\ q \in PiecesOf(a)
  BY DEF AllPieces
<1>2. PICK n : n \in 1 .. Len(matches) /\ PieceFits(q, matches[n], a)
  BY <1>1, PieceOf
<1>3. /\ q \in Match /\ q.len >= 1 /\ q.src < q.dest
      /\ Start(a) <= q.src /\ q.src < End(a) /\ q.src + q.len <= End(a)
      /\ matches[n].src <= q.src /\ q.src + q.len <= matches[n].src + matches[n].len
      /\ q.dest = matches[n].dest + (q.src - matches[n].src)
  BY <1>2 DEF PieceFits
<1>4. q.src \in Nat /\ q.dest \in Nat /\ q.len \in Nat
  BY <1>3 DEF Match
<1>5. matches[n].src \in Nat /\ matches[n].dest \in Nat /\ matches[n].len \in Nat
  BY <1>2, MatchIs
<1>6. q.dest >= matches[n].dest /\ q.dest + q.len <= matches[n].dest + matches[n].len
  BY <1>3, <1>4, <1>5
<1>7. PICK d : /\ d \in 1 .. NumBlocks /\ Start(d) <= matches[n].dest
               /\ matches[n].dest + matches[n].len <= End(d)
  BY <1>2, MatchIs
<1>8. Start(d) \in Nat /\ End(d) \in Nat /\ End(d) <= total /\ total \in Nat
  BY <1>7, BlockIs DEF File, GivenKept
<1>9. Start(d) <= q.dest /\ q.dest + q.len <= End(d) /\ q.dest < End(d) /\ q.dest + q.len <= total
  BY <1>3, <1>4, <1>5, <1>6, <1>7, <1>8
<1>10. QED BY <1>1, <1>3, <1>4, <1>7, <1>9

\* The pieces of a block are those with a source in it
LEMMA PiecesOfAre ==
  ASSUME File, NEW b \in 1 .. NumBlocks
  PROVE  /\ PiecesOf(b) \subseteq AllPieces
         /\ \A q \in AllPieces : q \in PiecesOf(b) <=> Start(b) <= q.src /\ q.src < End(b)
<1>1. PiecesOf(b) \subseteq AllPieces
  BY DEF AllPieces
<1>2. ASSUME NEW q \in AllPieces, q \in PiecesOf(b)
      PROVE  Start(b) <= q.src /\ q.src < End(b)
  BY <1>2, PieceOf DEF PieceFits
<1>3. ASSUME NEW q \in AllPieces, Start(b) <= q.src, q.src < End(b)
      PROVE  q \in PiecesOf(b)
  <2>1. PICK a \in 1 .. NumBlocks : q \in PiecesOf(a) /\ Start(a) <= q.src /\ q.src < End(a)
    BY PieceBounds
  <2>2. q.src \in Int
    BY PieceBounds
  <2>3. a = b
    BY <1>3, <2>1, <2>2, OneBlock DEF File
  <2>4. QED BY <2>1, <2>3
<1>4. QED BY <1>1, <1>2, <1>3

\* No byte is the destination of two pieces
LEMMA OnePiece ==
  ASSUME File, NEW q \in AllPieces, NEW r \in AllPieces, NEW p \in Int, Covers(q, p), Covers(r, p)
  PROVE  q = r
<1>1. PICK a : a \in 1 .. NumBlocks /\ q \in PiecesOf(a)
  BY DEF AllPieces
<1>2. PICK b : b \in 1 .. NumBlocks /\ r \in PiecesOf(b)
  BY DEF AllPieces
<1>3. PICK n : /\ n \in 1 .. Len(matches) /\ q = Piece(matches[n], a)
               /\ PieceFits(q, matches[n], a)
  BY <1>1, PieceOf
<1>4. PICK k : /\ k \in 1 .. Len(matches) /\ r = Piece(matches[k], b)
               /\ PieceFits(r, matches[k], b)
  BY <1>2, PieceOf
<1>5. /\ matches[n].src \in Nat /\ matches[n].dest \in Nat /\ matches[n].len \in Nat
      /\ matches[k].src \in Nat /\ matches[k].dest \in Nat /\ matches[k].len \in Nat
  <2>1. matches[n].src \in Nat /\ matches[n].dest \in Nat /\ matches[n].len \in Nat
    BY <1>3, MatchIs
  <2>2. matches[k].src \in Nat /\ matches[k].dest \in Nat /\ matches[k].len \in Nat
    BY <1>4, MatchIs
  <2>3. QED BY <2>1, <2>2
<1>6. /\ q.src \in Nat /\ q.dest \in Nat /\ q.len \in Nat /\ r.src \in Nat /\ r.dest \in Nat /\ r.len \in Nat
  BY PieceBounds
<1>7. q.dest <= p /\ p < q.dest + q.len /\ r.dest <= p /\ p < r.dest + r.len
  BY DEF Covers
<1>8. /\ matches[n].src <= q.src /\ q.src + q.len <= matches[n].src + matches[n].len
      /\ q.dest = matches[n].dest + (q.src - matches[n].src)
      /\ Start(a) <= q.src /\ q.src + q.len <= End(a)
  BY <1>3 DEF PieceFits
<1>9. /\ matches[k].src <= r.src /\ r.src + r.len <= matches[k].src + matches[k].len
      /\ r.dest = matches[k].dest + (r.src - matches[k].src)
      /\ Start(b) <= r.src /\ r.src + r.len <= End(b)
  BY <1>4 DEF PieceFits
<1>10. Covers(matches[n], p) /\ Covers(matches[k], p)
  <2>1. matches[n].dest <= p /\ p < matches[n].dest + matches[n].len
    BY <1>5, <1>6, <1>7, <1>8
  <2>2. matches[k].dest <= p /\ p < matches[k].dest + matches[k].len
    BY <1>5, <1>6, <1>7, <1>9
  <2>3. QED BY <2>1, <2>2 DEF Covers
<1>11. n = k
  BY <1>3, <1>4, <1>10, OneMatch
<1> DEFINE x == p - (matches[n].dest - matches[n].src)
<1>12. x \in Int /\ q.src <= x /\ x < q.src + q.len /\ r.src <= x /\ x < r.src + r.len
  BY <1>5, <1>6, <1>7, <1>8, <1>9, <1>11
<1> HIDE DEF x
<1>13. Start(a) <= x /\ x < End(a) /\ Start(b) <= x /\ x < End(b)
  <2>1. Start(a) \in Nat /\ End(a) \in Nat
    BY <1>1, BlockIs DEF File
  <2>2. Start(b) \in Nat /\ End(b) \in Nat
    BY <1>2, BlockIs DEF File
  <2>3. QED BY <1>6, <1>8, <1>9, <1>12, <2>1, <2>2
<1>14. a = b
  BY <1>1, <1>2, <1>12, <1>13, OneBlock DEF File
<1>15. QED BY <1>3, <1>4, <1>11, <1>14

\* The pieces cover what the matches cover
LEMMA PiecesCover ==
  ASSUME File, NEW p \in Nat, p < total
  PROVE  IsLiteral(p) <=> \A q \in AllPieces : ~Covers(q, p)
<1>1. ASSUME ~IsLiteral(p)
      PROVE  \E q \in AllPieces : Covers(q, p)
  <2>1. PICK n \in 1 .. Len(matches) : Covers(matches[n], p)
    BY <1>1, MatchesDomain DEF IsLiteral
  <2> DEFINE m == matches[n]
             x == p - (m.dest - m.src)
  <2>2. /\ m \in Match /\ m.src \in Nat /\ m.dest \in Nat /\ m.len \in Nat /\ m.src < m.dest
        /\ m.len >= 1 /\ m.dest <= p /\ p < m.dest + m.len
    BY <2>1, MatchIs DEF Covers
  <2>3. x \in Nat /\ x < total /\ m.src <= x /\ x < m.src + m.len /\ total \in Nat
    BY <2>2 DEF File, GivenKept
  <2> HIDE DEF m
  <2>4. PICK b \in 1 .. NumBlocks : Start(b) <= x /\ x < End(b)
    <3> HIDE DEF x
    <3>1. QED BY <2>3, BlockOf DEF File
  <2>5. Touches(m, b)
    <3>1. Start(b) \in Nat /\ End(b) \in Nat
      BY BlockIs DEF File
    <3> HIDE DEF x
    <3>2. QED BY <2>2, <2>3, <2>4, <3>1 DEF Touches
  <2> DEFINE q == Piece(m, b)
  <2>6. PieceFits(q, m, b)
    BY <2>2, <2>5, PieceIs
  <2>7. q \in AllPieces
    BY <2>5 DEF AllPieces, PiecesOf, m
  <2> HIDE DEF q
  <2>8. q.src <= x /\ x < q.src + q.len /\ q.dest = m.dest + (q.src - m.src)
    <3> HIDE DEF x
    <3>1. QED BY <2>3, <2>4, <2>6 DEF PieceFits
  <2>9. q.src \in Nat /\ q.len \in Nat
    BY <2>6 DEF PieceFits, Match
  <2>10. Covers(q, p)
    BY <2>2, <2>8, <2>9 DEF Covers
  <2>11. QED BY <2>7, <2>10
<1>2. ASSUME NEW q \in AllPieces, Covers(q, p)
      PROVE  ~IsLiteral(p)
  <2>1. PICK a \in 1 .. NumBlocks : q \in PiecesOf(a)
    BY DEF AllPieces
  <2>2. PICK n \in 1 .. Len(matches) : PieceFits(q, matches[n], a)
    BY <2>1, PieceOf
  <2>3. matches[n].src \in Nat /\ matches[n].dest \in Nat /\ matches[n].len \in Nat
    BY MatchIs
  <2>4. q.src \in Nat /\ q.len \in Nat
    BY PieceBounds
  <2>5. /\ matches[n].src <= q.src /\ q.src + q.len <= matches[n].src + matches[n].len
        /\ q.dest = matches[n].dest + (q.src - matches[n].src)
    BY <2>2 DEF PieceFits
  <2>6. q.dest <= p /\ p < q.dest + q.len
    BY <1>2 DEF Covers
  <2>7. Covers(matches[n], p)
    BY <2>3, <2>4, <2>5, <2>6 DEF Covers
  <2>8. QED BY <2>7, MatchesDomain DEF IsLiteral
<1>3. QED BY <1>1, <1>2

\* The bytes of a piece are those of its source
LEMMA PieceBytes ==
  ASSUME File, NEW q \in AllPieces, NEW j \in 0 .. q.len - 1
  PROVE  Data[q.dest + j] = Data[q.src + j]
<1>1. PICK a : a \in 1 .. NumBlocks /\ q \in PiecesOf(a)
  BY DEF AllPieces
<1>2. PICK n : n \in 1 .. Len(matches) /\ PieceFits(q, matches[n], a)
  BY <1>1, PieceOf
<1>3. matches[n].src \in Nat /\ matches[n].dest \in Nat /\ matches[n].len \in Nat
  BY <1>2, MatchIs
<1>4. q.src \in Nat /\ q.len \in Nat
  BY PieceBounds
<1>5. /\ matches[n].src <= q.src /\ q.src + q.len <= matches[n].src + matches[n].len
      /\ q.dest = matches[n].dest + (q.src - matches[n].src)
  BY <1>2 DEF PieceFits
<1> DEFINE k == (q.src - matches[n].src) + j
<1>6. k \in 0 .. matches[n].len - 1 /\ q.dest + j = matches[n].dest + k /\ q.src + j = matches[n].src + k
  BY <1>3, <1>4, <1>5
<1> HIDE DEF k
<1>7. Data[matches[n].dest + k] = Data[matches[n].src + k]
  BY <1>2, <1>6, MatchBytes
<1>8. QED BY <1>6, <1>7
-----------------------------------------------------------------------------
(* The matches that the decoder of Future-LZ keeps.                        *)

Bytes(q) == [j \in 1 .. q.len |-> Data[q.src + j - 1]]

\* What is kept with a piece while block b is decoded: its bytes, if they come
\* from an earlier block and the piece is not read from the file
Held(q, b) == IF q.src < Start(b) /\ q.len < maximum_save THEN Bytes(q) ELSE NoData

\* At position pos of block b the decoder keeps the pieces that are still to be
\* copied and come from an earlier block, or from this one and end up in it
WaitsIn(q, b, pos) == pos <= q.dest /\ (q.src < Start(b) \/ q.dest < End(b))

\* ... and between two blocks those that come from an earlier block
WaitsFor(q, b) == q.src < Start(b) /\ Start(b) <= q.dest

HeapIn(h, b, pos) ==
  /\ \A x \in h : \E q \in AllPieces : WaitsIn(q, b, pos) /\ x = Pending(q, Held(q, b))
  /\ \A q \in AllPieces : WaitsIn(q, b, pos) => Pending(q, Held(q, b)) \in h

HeapFor(h, b) ==
  /\ \A x \in h : \E q \in AllPieces : WaitsFor(q, b) /\ x = Pending(q, Held(q, b))
  /\ \A q \in AllPieces : WaitsFor(q, b) => Pending(q, Held(q, b)) \in h

\* No piece is half copied
Whole(pos) == \A q \in AllPieces : q.dest < pos => q.dest + q.len <= pos

LEMMA PendingIs ==
  ASSUME NEW q, NEW d
  PROVE  /\ Pending(q, d).src = q.src /\ Pending(q, d).dest = q.dest
         /\ Pending(q, d).len = q.len /\ Pending(q, d).data = d
BY DEF Pending

LEMMA BytesAre ==
  ASSUME File, NEW q \in AllPieces
  PROVE  /\ Bytes(q) \in Seq(Nat) /\ Len(Bytes(q)) = q.len /\ Bytes(q) # NoData
         /\ \A j \in 1 .. q.len : Bytes(q)[j] = Data[q.dest + j - 1]
         /\ \A j \in 1 .. q.len : Bytes(q)[j] = Data[q.src + j - 1]
<1> DEFINE B == Bytes(q)
<1>1. q.src \in Nat /\ q.dest \in Nat /\ q.len \in Nat /\ q.len >= 1 /\ q.dest + q.len <= total /\ q.src < q.dest
      /\ total \in Nat
  BY PieceBounds DEF File, GivenKept
<1>2. \A j \in 1 .. q.len : Data[q.src + j - 1] \in Nat
  <2>1. SUFFICES ASSUME NEW j \in 1 .. q.len
                 PROVE  Data[q.src + j - 1] \in Nat
    OBVIOUS
  <2>2. q.src + j - 1 \in Nat /\ q.src + j - 1 < total
    BY <1>1
  <2>3. QED BY <2>2, DataType
<1>3. B \in Seq(Nat) /\ Len(B) = q.len /\ \A j \in 1 .. q.len : B[j] = Data[q.src + j - 1]
  BY <1>1, <1>2 DEF Bytes
<1> HIDE DEF B
<1>4. B # NoData
  BY <1>1, <1>3 DEF NoData
<1>5. ASSUME NEW j \in 1 .. q.len
      PROVE  B[j] = Data[q.dest + j - 1]
  <2>1. j - 1 \in 0 .. q.len - 1 /\ q.dest + (j - 1) = q.dest + j - 1 /\ q.src + (j - 1) = q.src + j - 1
    BY <1>1
  <2>2. Data[q.dest + (j - 1)] = Data[q.src + (j - 1)]
    BY <2>1, PieceBytes
  <2>3. QED BY <1>3, <2>1, <2>2
<1>6. QED BY <1>3, <1>4, <1>5 DEF B

\* Up to the first piece behind pos there are only literals
LEMMA FirstPiece ==
  ASSUME File, NEW b \in 1 .. NumBlocks, NEW pos \in Nat, Start(b) <= pos, Whole(pos),
         NEW q \in AllPieces, pos <= q.dest, q.dest < End(b),
         \A r \in AllPieces : pos <= r.dest /\ r.dest < End(b) => q.dest <= r.dest
  PROVE  /\ q.dest + q.len <= End(b)
         /\ LiteralRun(b, pos, q.dest - pos) /\ MatchRun(b, q.dest, q.len)
         /\ Whole(q.dest + q.len)
         /\ \A r \in AllPieces : pos <= r.dest /\ r.dest < q.dest + q.len => r = q
<1> DEFINE c == q.dest
           l == q.len
<1>1. c \in Nat /\ l \in Nat /\ l >= 1
  BY PieceBounds
<1>2. Start(b) \in Nat /\ End(b) \in Nat /\ End(b) <= total /\ total \in Nat
  BY BlockIs DEF File, GivenKept
<1>3. c + l <= End(b)
  <2>1. PICK d \in 1 .. NumBlocks : Start(d) <= q.dest /\ q.dest < End(d) /\ q.dest + q.len <= End(d)
    BY PieceBounds
  <2>2. b = d
    <3>1. c \in Int /\ Start(b) <= c /\ c < End(b) /\ Start(d) <= c /\ c < End(d)
      BY <1>1, <1>2, <2>1
    <3> HIDE DEF c
    <3>2. QED BY <3>1, OneBlock DEF File
  <2>3. QED BY <2>1, <2>2
<1>4. \A r \in AllPieces : /\ r.dest \in Nat /\ r.len \in Nat /\ r.len >= 1
  BY PieceBounds
<1>5. ASSUME NEW r \in AllPieces, c <= r.dest, r.dest < c + l
      PROVE  r = q
  <2>1. Covers(q, r.dest) /\ Covers(r, r.dest) /\ r.dest \in Int
    BY <1>4, <1>5 DEF Covers
  <2>2. QED BY <2>1, OnePiece
<1>6. \A x \in pos .. c - 1 : IsLiteral(x)
  <2>1. SUFFICES ASSUME NEW x \in pos .. c - 1, NEW r \in AllPieces, Covers(r, x)
                 PROVE  FALSE
    <3>1. \A x \in pos .. c - 1 : x \in Nat /\ x < total
      BY <1>1, <1>2
    <3>2. QED BY <3>1, PiecesCover
  <2>2. r.dest <= x /\ x < r.dest + r.len /\ r.dest \in Nat /\ r.len \in Nat
    BY <1>4, <2>1 DEF Covers
  <2>3. r.dest < pos => r.dest + r.len <= pos
    BY DEF Whole
  <2>4. pos <= r.dest
    BY <1>1, <2>1, <2>2, <2>3
  <2>5. r.dest < End(b) /\ r.dest < c
    BY <1>1, <1>2, <2>1, <2>2
  <2>6. QED BY <1>1, <2>2, <2>4, <2>5
<1>7. \A x \in c .. c + l - 1 : ~IsLiteral(x)
  <2>1. SUFFICES ASSUME NEW x \in c .. c + l - 1
                 PROVE  ~IsLiteral(x)
    OBVIOUS
  <2>2. x \in Nat /\ x < total /\ Covers(q, x)
    BY <1>1, <1>2, <1>3, <2>1 DEF Covers
  <2>3. QED BY <2>2, PiecesCover
<1>8. ASSUME NEW r \in AllPieces, r.dest < c + l
      PROVE  r.dest + r.len <= c + l
  <2>1. r.dest < pos => r.dest + r.len <= pos
    BY DEF Whole
  <2>2. c <= r.dest => r = q
    BY <1>5, <1>8
  <2>3. pos <= r.dest /\ r.dest < c => r.dest < End(b)
    BY <1>1, <1>2, <1>4
  <2>4. r.dest \in Nat /\ r.len \in Nat
    BY <1>4
  <2>5. QED BY <1>1, <2>1, <2>2, <2>3, <2>4
<1>9. ASSUME NEW r \in AllPieces, pos <= r.dest, r.dest < c + l
      PROVE  r = q
  <2>1. c <= r.dest
    BY <1>1, <1>2, <1>3, <1>4, <1>9
  <2>2. QED BY <1>5, <1>9, <2>1
<1>10. pos <= c /\ c < End(b)
  OBVIOUS
<1> HIDE DEF c, l
<1>11. LiteralRun(b, pos, c - pos) /\ MatchRun(b, c, l)
  <2>1. c - pos \in Nat /\ pos + (c - pos) = c /\ pos \in Start(b) .. End(b) /\ c \in Start(b) .. End(b)
    BY <1>1, <1>2, <1>10
  <2>2. LiteralRun(b, pos, c - pos)
    BY <1>1, <1>2, <1>6, <1>10, <2>1 DEF LiteralRun
  <2>3. MatchRun(b, c, l)
    BY <1>1, <1>2, <1>3, <1>7, <2>1 DEF MatchRun
  <2>4. QED BY <2>2, <2>3
<1>12. Whole(c + l)
  BY <1>8 DEF Whole
<1>13. QED BY <1>3, <1>9, <1>11, <1>12 DEF c, l

\* Behind the last piece, too
LEMMA NoPiece ==
  ASSUME File, NEW b \in 1 .. NumBlocks, NEW pos \in Nat, Start(b) <= pos, pos <= End(b), Whole(pos),
         \A r \in AllPieces : ~(pos <= r.dest /\ r.dest < End(b))
  PROVE  LiteralRun(b, pos, End(b) - pos) /\ Whole(End(b))
<1>1. Start(b) \in Nat /\ End(b) \in Nat /\ End(b) <= total /\ total \in Nat
  BY BlockIs DEF File, GivenKept
<1>2. \A r \in AllPieces : /\ r.dest \in Nat /\ r.len \in Nat /\ r.len >= 1
  BY PieceBounds
<1>3. \A x \in pos .. End(b) - 1 : IsLiteral(x)
  <2>1. SUFFICES ASSUME NEW x \in pos .. End(b) - 1, NEW r \in AllPieces, Covers(r, x)
                 PROVE  FALSE
    <3>1. \A x \in pos .. End(b) - 1 : x \in Nat /\ x < total
      BY <1>1
    <3>2. QED BY <3>1, PiecesCover
  <2>2. r.dest <= x /\ x < r.dest + r.len /\ r.dest \in Nat /\ r.len \in Nat
    BY <1>2, <2>1 DEF Covers
  <2>3. r.dest < pos => r.dest + r.len <= pos
    BY DEF Whole
  <2>4. QED BY <1>1, <2>1, <2>2, <2>3
<1>4. LiteralRun(b, pos, End(b) - pos)
  <2>1. End(b) - pos \in Nat /\ pos + (End(b) - pos) = End(b) /\ pos \in Start(b) .. End(b)
    BY <1>1
  <2>2. QED BY <1>1, <1>3, <2>1 DEF LiteralRun
<1>5. ASSUME NEW r \in AllPieces, r.dest < End(b)
      PROVE  r.dest + r.len <= End(b)
  <2>1. r.dest < pos => r.dest + r.len <= pos
    BY DEF Whole
  <2>2. r.dest \in Nat /\ r.len \in Nat
    BY <1>2
  <2>3. QED BY <1>1, <1>5, <2>1, <2>2
<1>6. QED BY <1>4, <1>5 DEF Whole

LEMMA WholeStart ==
  ASSUME File, NEW b \in 1 .. NumBlocks
  PROVE  Whole(Start(b))
<1>1. SUFFICES ASSUME NEW q \in AllPieces, q.dest < Start(b)
               PROVE  q.dest + q.len <= Start(b)
  BY DEF Whole
<1>2. PICK d \in 1 .. NumBlocks : Start(d) <= q.dest /\ q.dest < End(d) /\ q.dest + q.len <= End(d)
  BY PieceBounds
<1>3. q.dest \in Nat /\ q.len \in Nat
  BY PieceBounds
<1>4. Start(d) \in Nat /\ End(d) \in Nat /\ End(d) <= Start(d) + BlockSize
  BY BlockIs DEF File
<1>5. Start(b) \in Nat
  BY BlockIs DEF File
<1>6. b \in Int /\ d \in Int /\ BlockSize \in Nat
  BY BlocksAre, Constants DEF File
<1>7. d < b
  <2>1. SUFFICES ASSUME b <= d PROVE FALSE
    BY <1>6
  <2>2. b < d => Start(b) + BlockSize <= Start(d)
    BY <1>6, StartGrows
  <2>3. Start(b) <= Start(d)
    BY <1>4, <1>5, <1>6, <2>1, <2>2
  <2>4. QED BY <1>1, <1>2, <1>3, <1>4, <1>5, <2>3
<1>8. Start(d) + BlockSize <= Start(b)
  BY <1>6, <1>7, StartGrows
<1>9. QED BY <1>2, <1>3, <1>4, <1>5, <1>6, <1>8
-----------------------------------------------------------------------------
(* What the decoder of Future-LZ does with a piece.                        *)

\* m is piece q as the decoder keeps it; its bytes come next after o
PieceNext(b, o, q, m) ==
  /\ q \in AllPieces /\ m = Pending(q, Held(q, b))
  /\ Start(b) + Len(o) = q.dest /\ q.dest + q.len <= End(b)

\* The bytes of a piece: those of its source in the file ...
LEMMA FromFile ==
  ASSUME File, NEW o, NEW q, NEW m, Right(blk, o), PieceNext(blk, o, q, m), FileRight(blk, file),
         q.src < Start(blk), NEW s, s = SubSeq(file, q.src + 1, q.src + q.len)
  PROVE  Right(blk, o \o s) /\ Len(o \o s) = Len(o) + q.len
<1> DEFINE b == blk
<1>1. b \in 1 .. NumBlocks
  BY DEF Right
<1>2. Start(b) \in Nat /\ End(b) \in Nat /\ Start(b) < End(b) /\ End(b - 1) = Start(b)
  BY <1>1, BlockIs DEF File
<1>3. /\ file \in Seq(Nat) /\ Len(file) = Start(b)
      /\ \A j \in 1 .. Len(file) : file[j] = Data[j - 1]
  BY <1>2 DEF FileRight
<1>4. q \in AllPieces /\ Start(b) + Len(o) = q.dest /\ q.dest + q.len <= End(b)
  BY DEF PieceNext
<1>5. q.src \in Nat /\ q.dest \in Nat /\ q.len \in Nat /\ q.len >= 1
  BY <1>4, PieceBounds
<1>6. q.src + q.len <= Start(b)
  <2>1. PICK a : a \in 1 .. NumBlocks /\ Start(a) <= q.src /\ q.src < End(a) /\ q.src + q.len <= End(a)
    BY <1>4, PieceBounds
  <2>2. Start(a) \in Nat /\ End(a) \in Nat /\ End(a) <= Start(a) + BlockSize
    BY <2>1, BlockIs DEF File
  <2>3. a \in Int /\ b \in Int /\ BlockSize \in Nat
    BY <1>1, <2>1, BlocksAre, Constants DEF File
  <2>4. q.src < Start(b)
    BY DEF b
  <2>5. a < b
    <3>1. SUFFICES ASSUME b <= a PROVE FALSE
      BY <2>3
    <3>2. b < a => Start(b) + BlockSize <= Start(a)
      BY <2>3, StartGrows
    <3>3. b = a \/ b < a
      BY <2>3, <3>1
    <3> HIDE DEF b
    <3>4. QED BY <1>2, <1>5, <2>1, <2>2, <2>3, <2>4, <3>2, <3>3
  <2>6. Start(a) + BlockSize <= Start(b)
    BY <2>3, <2>5, StartGrows
  <2> HIDE DEF b
  <2>7. QED BY <1>2, <1>5, <2>1, <2>2, <2>3, <2>6
<1> HIDE DEF b
<1>7. s \in Seq(Nat) /\ Len(s) = q.len /\ \A j \in 1 .. q.len : s[j] = file[q.src + j]
  <2>1. q.src + 1 \in Int /\ q.src + q.len \in Int
    BY <1>5
  <2>2. q.src + 1 .. q.src + q.len \subseteq 1 .. Len(file)
    BY <1>2, <1>3, <1>5, <1>6
  <2>3. \A j \in q.src + 1 .. q.src + q.len : file[j] \in Nat
    BY <1>3, <2>2, ElementOfSeq
  <2>4. /\ s \in Seq(Nat) /\ Len(s) = IF q.src + 1 <= q.src + q.len THEN (q.src + q.len) - (q.src + 1) + 1 ELSE 0
        /\ \A j \in 1 .. (q.src + q.len) - (q.src + 1) + 1 : s[j] = file[(q.src + 1) + j - 1]
    BY <2>1, <2>3, SubSeqProperties
  <2>5. Len(s) = q.len
    BY <1>5, <2>4
  <2>6. ASSUME NEW j \in 1 .. q.len
        PROVE  s[j] = file[q.src + j]
    <3>1. j \in 1 .. (q.src + q.len) - (q.src + 1) + 1 /\ (q.src + 1) + j - 1 = q.src + j
      BY <1>5
    <3>2. QED BY <2>4, <3>1
  <2>7. QED BY <2>4, <2>5, <2>6
<1>8. Len(o) \in Nat
  BY LenProperties DEF Right
<1>12. ASSUME NEW j \in Nat, j >= 1, j <= q.len
       PROVE  q.src + j \in 1 .. Start(b)
  BY <1>2, <1>5, <1>6, <1>12
<1>9. RightNext(b, o, s)
  <2>1. Len(o) + Len(s) <= End(b) - Start(b)
    <3>1. Len(s) = q.len
      BY <1>7
    <3>2. (Start(b) + Len(o)) + q.len <= End(b)
      BY <1>4
    <3>3. QED BY ONLY <1>2, <1>5, <1>8, <3>1, <3>2
  <2>2. ASSUME NEW j \in 1 .. Len(s)
        PROVE  s[j] = Data[Start(b) + Len(o) + j - 1]
    <3>0. j \in 1 .. q.len
      BY <1>7
    <3>1. j \in 1 .. q.len /\ j - 1 \in 0 .. q.len - 1 /\ (q.src + j) - 1 = q.src + (j - 1)
      BY <1>5, <3>0
    <3>2. q.src + j \in 1 .. Len(file)
      <4>1. j \in Nat /\ j >= 1 /\ j <= q.len /\ Len(file) = Start(b)
        BY <1>3, <1>5, <3>0
      <4>2. QED BY <1>12, <4>1
    <3>3. q.dest + (j - 1) = Start(b) + Len(o) + j - 1
      BY <1>2, <1>4, <1>5, <1>8, <3>1
    <3>4. s[j] = file[q.src + j] /\ file[q.src + j] = Data[(q.src + j) - 1]
      BY <1>3, <1>7, <3>1, <3>2
    <3>5. Data[q.dest + (j - 1)] = Data[q.src + (j - 1)]
      BY <1>4, <3>1, PieceBytes
    <3>6. QED BY <3>1, <3>3, <3>4, <3>5
  <2>3. QED BY <1>7, <2>1, <2>2 DEF RightNext
<1>10. Right(b, o)
  BY DEF b
<1>11. QED BY <1>7, <1>9, <1>10, AddBytes DEF b

\* ... those that were kept with it ...
LEMMA FromHeld ==
  ASSUME File, NEW o, NEW q, NEW m, Right(blk, o), PieceNext(blk, o, q, m)
  PROVE  Right(blk, o \o Bytes(q)) /\ Len(o \o Bytes(q)) = Len(o) + q.len
<1> DEFINE b == blk
           s == Bytes(q)
<1>1. b \in 1 .. NumBlocks /\ Len(o) \in Nat
  BY LenProperties DEF Right
<1>2. Start(b) \in Nat /\ End(b) \in Nat /\ Start(b) < End(b)
  BY <1>1, BlockIs DEF File
<1>3. q \in AllPieces /\ Start(b) + Len(o) = q.dest /\ q.dest + q.len <= End(b)
  BY DEF PieceNext
<1>4. q.dest \in Nat /\ q.len \in Nat
  BY <1>3, PieceBounds
<1>5. /\ s \in Seq(Nat) /\ Len(s) = q.len
      /\ \A j \in 1 .. q.len : s[j] = Data[q.dest + j - 1]
  BY <1>3, BytesAre
<1>6. Right(b, o)
  BY DEF b
<1> HIDE DEF b, s
<1>7. RightNext(b, o, s)
  <2>1. Len(o) + Len(s) <= End(b) - Start(b)
    BY <1>1, <1>2, <1>3, <1>4, <1>5
  <2>2. ASSUME NEW j \in 1 .. Len(s)
        PROVE  s[j] = Data[Start(b) + Len(o) + j - 1]
    BY <1>3, <1>5, <2>2
  <2>3. QED BY <1>5, <2>1, <2>2 DEF RightNext
<1>8. Right(b, o \o s) /\ Len(o \o s) = Len(o) + Len(s)
  BY <1>6, <1>7, AddBytes
<1>9. QED BY <1>5, <1>8 DEF b, s

\* ... or those in the block.
LEMMA FromBlock ==
  ASSUME File, NEW o, NEW q, NEW m, Right(blk, o), PieceNext(blk, o, q, m), Start(blk) <= q.src,
         NEW from, from = q.src - Start(blk)
  PROVE  /\ Right(blk, CopyInBlock(o, from, q.len))
         /\ Len(CopyInBlock(o, from, q.len)) = Len(o) + q.len
<1> DEFINE b == blk
<1>1. b \in 1 .. NumBlocks /\ Len(o) \in Nat
  BY LenProperties DEF Right
<1>2. Start(b) \in Nat /\ End(b) \in Nat /\ Start(b) < End(b)
  BY <1>1, BlockIs DEF File
<1>3. q \in AllPieces /\ Start(b) + Len(o) = q.dest /\ q.dest + q.len <= End(b)
  BY DEF PieceNext
<1>4. q.src \in Nat /\ q.dest \in Nat /\ q.len \in Nat /\ q.src < q.dest
  BY <1>3, PieceBounds
<1>5. Right(b, o) /\ Start(b) <= q.src /\ from = q.src - Start(b)
  BY DEF b
<1> HIDE DEF b
<1>6. CopyFits(b, o, from, q.len)
  <2>1. from \in Int /\ Len(o) + q.len <= End(b) - Start(b) /\ from >= 0 /\ from < Len(o)
    BY <1>1, <1>2, <1>3, <1>4, <1>5
  <2>2. ASSUME NEW j \in 0 .. q.len - 1
        PROVE  Data[Start(b) + Len(o) + j] = Data[Start(b) + from + j]
    <3>1. Data[q.dest + j] = Data[q.src + j]
      BY <1>3, PieceBytes
    <3>2. Start(b) + Len(o) + j = q.dest + j /\ Start(b) + from + j = q.src + j
      BY <1>2, <1>3, <1>4, <1>5
    <3>3. QED BY <3>1, <3>2
  <2>3. QED BY <1>4, <2>1, <2>2 DEF CopyFits
<1>7. QED BY <1>5, <1>6, CopyRight DEF b

LEMMA CopyMatchRight ==
  ASSUME File, NEW o, NEW q, NEW m, Right(blk, o), PieceNext(blk, o, q, m), FileRight(blk, file)
  PROVE  Right(blk, CopyMatch(m, o)) /\ Len(CopyMatch(m, o)) = Len(o) + q.len
<1>1. m = Pending(q, Held(q, blk)) /\ q \in AllPieces
  BY DEF PieceNext
<1>2. m.src = q.src /\ m.len = q.len /\ m.data = Held(q, blk)
  BY <1>1, PendingIs
<1>3. q.src \in Nat /\ q.len \in Nat
  BY <1>1, PieceBounds
<1>4. Start(blk) \in Nat
  BY BlockIs DEF File, Right
<1>5. maximum_save \in Nat
  BY Constants
<1>6. CASE q.len >= maximum_save /\ q.src < Start(blk)
  <2>1. CopyMatch(m, o) = o \o SubSeq(file, q.src + 1, q.src + q.len)
    BY <1>2, <1>6 DEF CopyMatch
  <2>2. QED BY <1>6, <2>1, FromFile
<1>7. CASE q.len < maximum_save /\ q.src < Start(blk)
  <2>1. m.data = Bytes(q)
    BY <1>2, <1>7 DEF Held
  <2>2. m.data # NoData
    BY <1>1, <2>1, BytesAre
  <2>3. ~(m.len >= maximum_save)
    BY <1>2, <1>3, <1>5, <1>7
  <2>4. CopyMatch(m, o) = o \o Bytes(q)
    BY <2>1, <2>2, <2>3 DEF CopyMatch
  <2>5. QED BY <2>4, FromHeld
<1>8. CASE ~(q.src < Start(blk))
  <2>1. m.data = NoData
    BY <1>2, <1>8 DEF Held
  <2>2. CopyMatch(m, o) = CopyInBlock(o, q.src - Start(blk), q.len)
    BY <1>2, <1>8, <2>1 DEF CopyMatch
  <2>3. Start(blk) <= q.src
    BY <1>3, <1>4, <1>8
  <2>4. QED BY <2>2, <2>3, FromBlock
<1>9. QED BY <1>3, <1>5, <1>6, <1>7, <1>8
\* Pieces and literals have been used up to the end of o
FutureAt(h, o, u) ==
  /\ Right(blk, o) /\ u = LitCount(blk, Start(blk) + Len(o))
  /\ Whole(Start(blk) + Len(o)) /\ HeapIn(h, blk, Start(blk) + Len(o))

FirstDue(m) == m \in Due /\ \A n \in Due : m.dest <= n.dest

LEMMA FutureTypes ==
  ASSUME File, NEW h, NEW o, NEW u, FutureAt(h, o, u)
  PROVE  /\ blk \in 1 .. NumBlocks /\ Start(blk) \in Nat /\ End(blk) \in Nat /\ Start(blk) < End(blk)
         /\ Len(o) \in Nat /\ Start(blk) + Len(o) <= End(blk) /\ u \in Nat
<1>1. blk \in 1 .. NumBlocks /\ o \in Seq(Nat) /\ Len(o) <= End(blk) - Start(blk)
  BY DEF FutureAt, Right
<1>2. Start(blk) \in Nat /\ End(blk) \in Nat /\ Start(blk) < End(blk) /\ Len(o) \in Nat
  BY <1>1, BlockIs, LenProperties DEF File
<1>3. Start(blk) + Len(o) \in Start(blk) .. End(blk)
  BY <1>1, <1>2
<1>4. u \in Nat
  <2> DEFINE p == Start(blk) + Len(o)
  <2>1. p \in Start(blk) .. End(blk) /\ u = LitCount(blk, p)
    BY <1>3 DEF FutureAt
  <2> HIDE DEF p
  <2>2. QED BY <1>1, <2>1, LitCountType
<1>5. QED BY <1>1, <1>2, <1>3, <1>4

LEMMA DueExists ==
  ASSUME File, FutureAt(heap, out, used), Due # {}
  PROVE  \E m : FirstDue(m)
<1> DEFINE T == {m.dest : m \in Due}
<1>1. T \subseteq Nat
  <2>1. SUFFICES ASSUME NEW m \in Due PROVE m.dest \in Nat
    OBVIOUS
  <2>2. PICK q \in AllPieces : m = Pending(q, Held(q, blk))
    BY DEF FutureAt, HeapIn, Due
  <2>3. QED BY <2>2, PendingIs, PieceBounds
<1>2. T # {}
  OBVIOUS
<1>3. PICK x \in T : \A y \in T : x <= y
  BY <1>1, <1>2, Least
<1>4. PICK m \in Due : m.dest = x
  OBVIOUS
<1>5. FirstDue(m)
  BY <1>3, <1>4 DEF FirstDue
<1>6. QED BY <1>5

\* The first match that is due is the first piece behind what has been decoded
LEMMA DueIsPiece ==
  ASSUME File, FutureAt(heap, out, used), NEW m, FirstDue(m), NEW pos, pos = Start(blk) + Len(out)
  PROVE  \E q \in AllPieces :
           /\ m = Pending(q, Held(q, blk)) /\ pos <= q.dest /\ q.dest < End(blk)
           /\ \A r \in AllPieces : pos <= r.dest /\ r.dest < End(blk) => q.dest <= r.dest
<1>1. m \in heap /\ m.dest < End(blk) /\ \A n \in Due : m.dest <= n.dest
  BY DEF FirstDue, Due
<1>2. HeapIn(heap, blk, pos)
  BY DEF FutureAt
<1>3. PICK q \in AllPieces : WaitsIn(q, blk, pos) /\ m = Pending(q, Held(q, blk))
  BY <1>1, <1>2 DEF HeapIn
<1>4. m.dest = q.dest /\ pos <= q.dest
  BY <1>3, PendingIs DEF WaitsIn
<1>5. ASSUME NEW r \in AllPieces, pos <= r.dest, r.dest < End(blk)
      PROVE  q.dest <= r.dest
  <2> DEFINE n == Pending(r, Held(r, blk))
  <2>1. n \in heap /\ n.dest = r.dest
    BY <1>2, <1>5, PendingIs DEF HeapIn, WaitsIn
  <2>2. n \in Due
    BY <1>5, <2>1 DEF Due
  <2> HIDE DEF n
  <2>3. QED BY <1>1, <1>4, <2>1, <2>2
<1>6. QED BY <1>1, <1>3, <1>4, <1>5

LEMMA HeapWithout ==
  ASSUME File, NEW h, NEW b, NEW pos, NEW new, HeapIn(h, b, pos),
         NEW q \in AllPieces, NEW m, m = Pending(q, Held(q, b)), pos \in Nat, new \in Nat,
         pos <= q.dest, new = q.dest + q.len,
         \A r \in AllPieces : pos <= r.dest /\ r.dest < new => r = q
  PROVE  HeapIn(h \ {m}, b, new)
<1>1. q.dest \in Nat /\ q.len \in Nat /\ q.len >= 1 /\ m.dest = q.dest
  BY PieceBounds, PendingIs
<1>2. ASSUME NEW x \in h \ {m}
      PROVE  \E r \in AllPieces : WaitsIn(r, b, new) /\ x = Pending(r, Held(r, b))
  <2>1. PICK r \in AllPieces : WaitsIn(r, b, pos) /\ x = Pending(r, Held(r, b))
    BY DEF HeapIn
  <2>2. r # q
    BY <2>1
  <2>3. r.dest \in Nat
    BY PieceBounds
  <2>4. new <= r.dest
    BY <2>1, <2>2, <2>3 DEF WaitsIn
  <2>5. WaitsIn(r, b, new)
    BY <2>1, <2>4 DEF WaitsIn
  <2>6. QED BY <2>1, <2>5
<1>3. ASSUME NEW r \in AllPieces, WaitsIn(r, b, new)
      PROVE  Pending(r, Held(r, b)) \in h \ {m}
  <2>1. r.dest \in Nat /\ new <= r.dest
    BY <1>3, PieceBounds DEF WaitsIn
  <2>2. pos <= r.dest /\ r.dest # q.dest
    BY <1>1, <2>1
  <2>3. WaitsIn(r, b, pos)
    BY <1>3, <2>2 DEF WaitsIn
  <2>4. Pending(r, Held(r, b)).dest = r.dest
    BY PendingIs
  <2>5. Pending(r, Held(r, b)) # m
    BY <1>1, <2>2, <2>4
  <2>6. QED BY <2>3, <2>5 DEF HeapIn
<1>4. QED BY <1>2, <1>3 DEF HeapIn

\* The match that is due is accepted, and decoded
LEMMA FutureMatch ==
  ASSUME File, FileRight(blk, file), FutureAt(heap, out, used), NEW m, FirstDue(m),
         NEW lit, lit = m.dest - Start(blk) - Len(out)
  PROVE  /\ lit >= 0 /\ lit \in Nat /\ m.len \in Nat
         /\ used + lit <= Len(Literals(blk)) /\ Len(Literals(blk)) \in Nat
         /\ Len(out) + lit + m.len <= End(blk) - Start(blk)
         /\ FutureAt(heap \ {m}, CopyMatch(m, out \o NextLiterals(lit)), used + lit)
<1> DEFINE b == blk
           pos == Start(b) + Len(out)
           lits == NextLiterals(lit)
           o1 == out \o lits
           o2 == CopyMatch(m, o1)
<1>1. /\ b \in 1 .. NumBlocks /\ Start(b) \in Nat /\ End(b) \in Nat /\ Start(b) < End(b)
      /\ Len(out) \in Nat /\ pos <= End(b) /\ used \in Nat
  BY FutureTypes
<1>2. pos \in Nat /\ Start(b) <= pos
  BY <1>1
<1>3. Right(b, out) /\ used = LitCount(b, pos) /\ Whole(pos) /\ HeapIn(heap, b, pos)
  BY DEF FutureAt
<1>4. PICK q \in AllPieces :
           /\ m = Pending(q, Held(q, b)) /\ pos <= q.dest /\ q.dest < End(b)
           /\ \A r \in AllPieces : pos <= r.dest /\ r.dest < End(b) => q.dest <= r.dest
  BY DueIsPiece
<1>5. m.dest = q.dest /\ m.len = q.len
  BY <1>4, PendingIs
<1>6. q.dest \in Nat /\ q.len \in Nat /\ q.len >= 1
  BY PieceBounds
<1> DEFINE new == q.dest + q.len
<1>7. /\ new <= End(b)
      /\ LiteralRun(b, pos, q.dest - pos) /\ MatchRun(b, q.dest, q.len) /\ Whole(new)
      /\ \A r \in AllPieces : pos <= r.dest /\ r.dest < new => r = q
  <2> HIDE DEF pos, b
  <2>1. QED BY <1>1, <1>2, <1>3, <1>4, FirstPiece
<1>8. lit = q.dest - pos /\ lit \in Nat /\ lit >= 0 /\ pos + lit = q.dest
  <2>1. lit = q.dest - Start(b) - Len(out)
    BY <1>5 DEF b
  <2> HIDE DEF b
  <2>2. lit = q.dest - pos
    BY <1>1, <1>6, <2>1
  <2> HIDE DEF pos
  <2>3. QED BY <1>2, <1>4, <1>6, <2>2
<1>9. /\ used + lit <= Len(Literals(b)) /\ Len(Literals(b)) \in Nat
      /\ RightNext(b, out, lits) /\ Len(lits) = lit
  <2>1. LiteralsNext(b, out, used, lit)
    BY <1>3, <1>7, <1>8 DEF LiteralsNext
  <2>2. LiteralsRight(b, out, used, lit)
    BY <1>3, <2>1, AddLiterals
  <2>3. lits = SubSeq(Literals(b), used + 1, used + lit)
    BY DEF NextLiterals
  <2> HIDE DEF lits
  <2>4. QED BY <2>2, <2>3 DEF LiteralsRight
<1> HIDE DEF lits
<1>10. Right(b, o1) /\ Len(o1) = Len(out) + lit
  <2>1. Right(b, o1) /\ Len(o1) = Len(out) + Len(lits)
    BY <1>3, <1>9, AddBytes
  <2>2. QED BY <1>9, <2>1
<1> HIDE DEF o1
<1>11. Start(b) + Len(o1) = q.dest
  <2>1. pos = Start(b) + Len(out)
    OBVIOUS
  <2> HIDE DEF pos, b
  <2>2. QED BY <1>1, <1>8, <1>10, <2>1
<1>12. Right(b, o2) /\ Len(o2) = Len(o1) + q.len
  <2>1. PieceNext(b, o1, q, m)
    BY <1>4, <1>7, <1>11 DEF PieceNext
  <2>2. QED BY <1>10, <2>1, CopyMatchRight
<1> HIDE DEF o2
<1>13. Start(b) + Len(o2) = new
  <2>1. Len(o1) \in Nat
    BY <1>1, <1>8, <1>10
  <2> HIDE DEF b
  <2>2. QED BY <1>1, <1>6, <1>11, <1>12, <2>1
<1>14. used + lit = LitCount(b, Start(b) + Len(o2))
  <2>1. LitCount(b, pos + (q.dest - pos)) = LitCount(b, pos) + (q.dest - pos)
    BY <1>7, RunCount
  <2>2. LitCount(b, q.dest + q.len) = LitCount(b, q.dest)
    BY <1>7, RunCount
  <2>3. pos + (q.dest - pos) = q.dest /\ q.dest - pos = lit
    BY <1>8
  <2> HIDE DEF pos, b
  <2>4. QED BY <1>3, <1>13, <2>1, <2>2, <2>3
<1>15. HeapIn(heap \ {m}, b, new)
  <2>1. new \in Nat
    BY <1>6
  <2> HIDE DEF new, pos, b
  <2>2. new = q.dest + q.len
    BY DEF new
  <2>3. QED BY <1>2, <1>3, <1>4, <1>7, <2>1, <2>2, HeapWithout
<1>16. FutureAt(heap \ {m}, o2, used + lit)
  BY <1>7, <1>12, <1>13, <1>14, <1>15 DEF FutureAt
<1>17. Len(out) + lit + m.len <= End(b) - Start(b)
  <2>1. Len(o1) \in Nat /\ Len(o1) = Len(out) + lit
    BY <1>1, <1>8, <1>10
  <2>2. q.dest + q.len <= End(b)
    BY <1>7
  <2> HIDE DEF b, pos, new
  <2>3. Len(o1) + q.len <= End(b) - Start(b)
    BY <1>1, <1>6, <1>11, <2>1, <2>2
  <2>4. QED BY <1>5, <2>1, <2>3
<1>18. QED BY <1>5, <1>6, <1>8, <1>9, <1>16, <1>17 DEF o2, o1, lits, b

\* Behind the last one there are literals up to the end of the block
LEMMA FutureTail ==
  ASSUME File, FutureAt(heap, out, used), Due = {}, NEW rest, rest = Len(Literals(blk)) - used
  PROVE  /\ rest = End(blk) - Start(blk) - Len(out)
         /\ Len(out \o NextLiterals(rest)) = End(blk) - Start(blk)
         /\ FutureAt(heap, out \o NextLiterals(rest), used + rest)
<1> DEFINE b == blk
           pos == Start(b) + Len(out)
           l == End(b) - pos
           s == SubSeq(Literals(b), used + 1, used + l)
<1>1. /\ b \in 1 .. NumBlocks /\ Start(b) \in Nat /\ End(b) \in Nat /\ Start(b) < End(b)
      /\ Len(out) \in Nat /\ pos <= End(b) /\ used \in Nat
  BY FutureTypes
<1>2. pos \in Nat /\ Start(b) <= pos
  BY <1>1
<1>3. Right(b, out) /\ used = LitCount(b, pos) /\ Whole(pos) /\ HeapIn(heap, b, pos)
  BY DEF FutureAt
<1>4. ASSUME NEW r \in AllPieces, pos <= r.dest, r.dest < End(b)
      PROVE  FALSE
  <2> DEFINE n == Pending(r, Held(r, b))
  <2>1. n \in heap /\ n.dest = r.dest
    BY <1>3, <1>4, PendingIs DEF HeapIn, WaitsIn
  <2>2. n \in Due
    BY <1>4, <2>1 DEF Due
  <2>3. QED BY <2>2
<1>5. LiteralRun(b, pos, l) /\ Whole(End(b))
  <2> HIDE DEF pos, b
  <2>1. QED BY <1>1, <1>2, <1>3, <1>4, NoPiece
<1>6. LiteralsNext(b, out, used, l)
  BY <1>3, <1>5 DEF LiteralsNext
<1>7. l = End(b) - Start(b) - Len(out) /\ l \in Nat /\ pos + l = End(b)
  <2> HIDE DEF b
  <2>1. QED BY <1>1
<1> HIDE DEF l
<1>8. LiteralsRight(b, out, used, l)
  BY <1>3, <1>6, AddLiterals
<1>9. Len(Literals(b)) = used + l
  <2>1. LitCount(b, pos + l) = LitCount(b, pos) + l
    BY <1>5, RunCount
  <2>2. LitCount(b, End(b)) = Len(Literals(b))
    BY LiteralsIs DEF LitCount
  <2> HIDE DEF pos, b
  <2>3. QED BY <1>3, <1>7, <2>1, <2>2
<1>10. rest = l
  <2> DEFINE L == Len(Literals(b))
  <2>1. L = used + l /\ rest = L - used
    BY <1>9 DEF b
  <2> HIDE DEF L, pos, b
  <2>2. QED BY <1>1, <1>7, <2>1
<1>11. NextLiterals(rest) = s
  BY <1>10 DEF NextLiterals
<1>12. RightNext(b, out, s) /\ Len(s) = l
  BY <1>8 DEF LiteralsRight
<1> HIDE DEF s
<1>13. Right(b, out \o s) /\ Len(out \o s) = Len(out) + Len(s)
  BY <1>3, <1>12, AddBytes
<1>14. Start(b) + Len(out \o s) = End(b) /\ Len(out \o s) = End(b) - Start(b)
  <2>1. Len(out \o s) = Len(out) + l
    BY <1>12, <1>13
  <2> HIDE DEF b, pos
  <2>2. QED BY <1>1, <1>7, <2>1
<1>15. used + l = LitCount(b, End(b))
  <2>1. LitCount(b, pos + l) = LitCount(b, pos) + l
    BY <1>5, RunCount
  <2> HIDE DEF pos, b
  <2>2. QED BY <1>3, <1>7, <2>1
<1>16. HeapIn(heap, b, End(b))
  <2>1. ASSUME NEW r \in AllPieces
        PROVE  WaitsIn(r, b, pos) <=> WaitsIn(r, b, End(b))
    <3>1. r.dest \in Nat
      BY PieceBounds
    <3>2. pos <= r.dest <=> End(b) <= r.dest
      BY <1>1, <1>2, <1>4, <3>1
    <3> HIDE DEF pos, b
    <3>3. QED BY <3>2 DEF WaitsIn
  <2> HIDE DEF pos, b
  <2>2. QED BY <1>3, <2>1 DEF HeapIn
<1>17. FutureAt(heap, out \o s, used + l)
  BY <1>5, <1>13, <1>14, <1>15, <1>16 DEF FutureAt
<1>18. QED BY <1>7, <1>10, <1>11, <1>14, <1>17 DEF b
-----------------------------------------------------------------------------
(* The lists of Future-LZ.                                                 *)

\* The pieces of block b, sorted by source
PieceSeq(b, ps) ==
  /\ b \in 1 .. NumBlocks /\ ps \in Seq(Match) /\ Len(ps) \in Nat
  /\ \A x \in 1 .. Len(ps) : ps[x] \in PiecesOf(b)
  /\ \A q \in PiecesOf(b) : \E x \in 1 .. Len(ps) : ps[x] = q
  /\ \A x \in 1 .. Len(ps), y \in 1 .. Len(ps) : x < y => ps[x].src <= ps[y].src

\* What is needed of a piece in the list of block b
LEMMA PieceInBlock ==
  ASSUME File, NEW b \in 1 .. NumBlocks, NEW q \in PiecesOf(b)
  PROVE  /\ q \in AllPieces /\ q \in Match
         /\ q.src \in Nat /\ q.dest \in Nat /\ q.len \in Nat /\ q.len >= 1 /\ q.src < q.dest
         /\ Start(b) <= q.src /\ q.src < End(b) /\ q.src + q.len <= End(b)
         /\ q.dest + q.len <= total /\ q.len < StatValues /\ q.src - Start(b) < StatValues
<1>1. q \in AllPieces
  BY PiecesOfAre
<1>2. /\ q \in Match /\ q.src \in Nat /\ q.dest \in Nat /\ q.len \in Nat /\ q.len >= 1
      /\ q.src < q.dest /\ q.dest + q.len <= total
  BY <1>1, PieceBounds
<1>3. Start(b) <= q.src /\ q.src < End(b) /\ q.src + q.len <= End(b)
  BY PieceOf DEF PieceFits
<1>4. Start(b) \in Nat /\ End(b) \in Nat /\ End(b) <= Start(b) + BlockSize
  BY BlockIs DEF File
<1>5. BlockSize \in Nat /\ StatValues \in Nat /\ BlockSize < StatValues
  BY Constants
<1>6. q.len < StatValues /\ q.src - Start(b) < StatValues
  BY <1>2, <1>3, <1>4, <1>5
<1>7. QED BY <1>1, <1>2, <1>3, <1>6

PosBefore(ps, b, n) == IF n = 1 THEN Start(b) ELSE ps[n - 1].src

LEMMA PosBeforeIs ==
  ASSUME File, NEW b, NEW ps, PieceSeq(b, ps), NEW n \in 1 .. Len(ps)
  PROVE  /\ PosBefore(ps, b, n) \in Nat /\ Start(b) <= PosBefore(ps, b, n)
         /\ PosBefore(ps, b, n) <= ps[n].src
<1>1. b \in 1 .. NumBlocks /\ Len(ps) \in Nat /\ ps[n] \in PiecesOf(b)
  BY DEF PieceSeq
<1>2. ps[n].src \in Nat /\ Start(b) <= ps[n].src
  BY <1>1, PieceInBlock
<1>3. Start(b) \in Nat
  BY <1>1, BlockIs DEF File
<1>4. CASE n = 1
  BY <1>2, <1>3, <1>4 DEF PosBefore
<1>5. CASE n # 1
  <2>1. n - 1 \in 1 .. Len(ps) /\ n - 1 < n
    BY <1>1, <1>5
  <2>2. ps[n - 1] \in PiecesOf(b) /\ ps[n - 1].src <= ps[n].src
    BY <2>1 DEF PieceSeq
  <2>3. ps[n - 1].src \in Nat /\ Start(b) <= ps[n - 1].src
    BY <1>1, <2>2, PieceInBlock
  <2>4. QED BY <1>5, <2>2, <2>3 DEF PosBefore
<1>6. QED BY <1>4, <1>5

\* How these lists are written: from source to source, in words, unchanged
ListForm(t, f, B) == t = TRUE /\ f = FALSE /\ B = 0

LEMMA PieceListFits ==
  ASSUME File, NEW b, NEW ps, PieceSeq(b, ps), NEW t, NEW f, NEW B, ListForm(t, f, B)
  PROVE  ListTypes(t, f, B, ps, Start(b)) /\ ListFits(t, f, B, ps, Start(b))
<1>1. b \in 1 .. NumBlocks /\ ps \in Seq(Match) /\ Len(ps) \in Nat
  BY DEF PieceSeq
<1>2. Start(b) \in Nat
  BY <1>1, BlockIs DEF File
<1>3. ListTypes(t, f, B, ps, Start(b))
  BY <1>1, <1>2 DEF ListTypes, ListForm
<1>4. ASSUME NEW n \in 1 .. Len(ps)
      PROVE  Decode(t, f, B, From(t, ps, Start(b), n), Word(t, f, B, ps, Start(b), n))
               = Record(t, ps, Start(b), n)
  <2> DEFINE q == ps[n]
             pos == PosBefore(ps, b, n)
             lit == q.src - pos
  <2>1. q \in PiecesOf(b)
    BY DEF PieceSeq
  <2>2. /\ q.src \in Nat /\ q.dest \in Nat /\ q.len \in Nat /\ q.src < q.dest
        /\ Start(b) <= q.src /\ q.len < StatValues /\ q.src - Start(b) < StatValues
        /\ q.dest + q.len <= total /\ q.len >= 1
    BY <1>1, <2>1, PieceInBlock
  <2>3. pos \in Nat /\ Start(b) <= pos /\ pos <= q.src
    BY PosBeforeIs
  <2>4. From(t, ps, Start(b), n) = pos
    BY DEF From, NextPos, PosBefore, ListForm
  <2>5. Here(t, q) = q.src
    BY DEF Here, ListForm
  <2>6. total \in Nat /\ total <= StatValues * StatValues /\ StatValues \in Nat
    BY Constants DEF File, GivenKept
  <2> HIDE DEF q, pos
  <2>7. lit \in 0 .. StatValues - 1 /\ pos + lit = q.src
    BY <1>2, <2>2, <2>3, <2>6
  <2>8. q.dest - q.src \in 0 .. StatValues * StatValues - 1
    <3> DEFINE V == StatValues * StatValues
    <3>1. V \in Nat /\ total <= V
      BY <2>6
    <3> HIDE DEF V
    <3>2. q.dest - q.src \in 0 .. V - 1
      BY <2>2, <2>6, <3>1
    <3>3. QED BY <3>2 DEF V
  <2>9. q.len \in 0 .. StatValues - 1
    BY <2>2, <2>6
  <2> HIDE DEF lit
  <2>10. PlainFits(t, f, B, pos, lit, q.dest, q.src, q.len)
    BY <2>2, <2>3, <2>7, <2>8, <2>9 DEF PlainFits, ListForm
  <2>11. Decode(t, f, B, pos, Encode(f, B, lit, q.dest - q.src, q.len))
           = [lit |-> lit, len |-> q.len, src |-> q.src, dest |-> q.dest]
    BY <2>10, PlainRecord
  <2>12. Word(t, f, B, ps, Start(b), n) = Encode(f, B, lit, q.dest - q.src, q.len)
    BY <2>4, <2>5 DEF Word, q, lit
  <2>13. Record(t, ps, Start(b), n) = [lit |-> lit, len |-> q.len, src |-> q.src, dest |-> q.dest]
    BY <2>4, <2>5 DEF Record, q, lit
  <2>14. QED BY <2>4, <2>11, <2>12, <2>13
<1>5. QED BY <1>3, <1>4 DEF ListFits

\* w is the list of block b
ListOf(b, w) == \E ps : PieceSeq(b, ps) /\ w = PieceList(ps, b)

\* What the decoder, or the information mode, reads for block b
ReadFor(b, w) == ReadList(w, TRUE, ArchiveRounds, FUTURELZ_BASE_LEN, Start(b))

LEMMA ReadForIs ==
  ASSUME File, format # "io", NEW b, NEW w, ListOf(b, w), NEW l, l = ReadFor(b, w)
  PROVE  \E ps : /\ PieceSeq(b, ps) /\ Len(l) = Len(ps) /\ DOMAIN l = 1 .. Len(ps)
                 /\ \A n \in 1 .. Len(ps) : /\ l[n].src = ps[n].src /\ l[n].dest = ps[n].dest
                                            /\ l[n].len = ps[n].len
<1>1. PICK ps : PieceSeq(b, ps) /\ w = PieceList(ps, b)
  BY DEF ListOf
<1>2. PICK t, f, B : ListForm(t, f, B)
  BY DEF ListForm
<1>3. t = TRUE /\ f = FALSE /\ B = 0
  BY <1>2 DEF ListForm
<1>4. ArchiveRounds = f /\ FUTURELZ_BASE_LEN = B
  BY <1>3 DEF ArchiveRounds, FUTURELZ_BASE_LEN
<1>5. ListTypes(t, f, B, ps, Start(b)) /\ ListFits(t, f, B, ps, Start(b))
  BY <1>1, <1>2, PieceListFits
<1>6. w = EncodeList(ps, t, f, B, Start(b))
  BY <1>1, <1>3, <1>4 DEF PieceList
<1>7. l = ReadList(w, t, f, B, Start(b))
  BY <1>3, <1>4 DEF ReadFor
<1>8. l = Records(t, ps, Start(b))
  BY <1>5, <1>6, <1>7, ListReadBack
<1>9. Len(ps) \in Nat
  BY <1>1 DEF PieceSeq
<1>10. DOMAIN l = 1 .. Len(ps) /\ \A n \in 1 .. Len(ps) : l[n] = Record(t, ps, Start(b), n)
  BY <1>8 DEF Records
<1>11. Len(l) = Len(ps)
  BY <1>8, <1>9 DEF Records
<1>12. \A n \in 1 .. Len(ps) : /\ l[n].src = ps[n].src /\ l[n].dest = ps[n].dest
                               /\ l[n].len = ps[n].len
  BY <1>10 DEF Record
<1>13. QED BY <1>1, <1>10, <1>11, <1>12

LEMMA ListRead ==
  ASSUME File, format # "io", ListOf(blk, stat)
  PROVE  \E ps : /\ PieceSeq(blk, ps) /\ Len(List) = Len(ps) /\ DOMAIN List = 1 .. Len(ps)
                 /\ \A n \in 1 .. Len(ps) : /\ List[n].src = ps[n].src /\ List[n].dest = ps[n].dest
                                            /\ List[n].len = ps[n].len
<1>1. List = ReadFor(blk, stat)
  BY DEF List, ReadFor
<1>2. QED BY <1>1, ReadForIs

LEMMA NothingDecoded ==
  ASSUME File, NEW b \in 1 .. NumBlocks
  PROVE  Right(b, <<>>) /\ LitCount(b, Start(b) + Len(<<>>)) = 0 /\ Start(b) + Len(<<>>) = Start(b)
<1>1. Start(b) \in Nat /\ End(b) \in Nat /\ Start(b) < End(b)
  BY BlockIs DEF File
<1>2. Len(<<>>) = 0 /\ <<>> \in Seq(Nat)
  OBVIOUS
<1>3. Start(b) + Len(<<>>) = Start(b)
  BY <1>1, <1>2
<1>4. LitCount(b, Start(b)) = 0
  BY LitCountStart
<1>5. Right(b, <<>>)
  BY <1>1, <1>2 DEF Right
<1>6. QED BY <1>3, <1>4, <1>5

\* No match of the list is rejected
LEMMA ListAccepted ==
  ASSUME File, format # "io", ListOf(blk, stat)
  PROVE  \A n \in DOMAIN List :
           ~BadMatch(List[n], IF n = 1 THEN Start(blk) ELSE List[n - 1].src)
<1>1. PICK ps : /\ PieceSeq(blk, ps) /\ Len(List) = Len(ps) /\ DOMAIN List = 1 .. Len(ps)
                /\ \A n \in 1 .. Len(ps) : /\ List[n].src = ps[n].src /\ List[n].dest = ps[n].dest
                                           /\ List[n].len = ps[n].len
  BY ListRead
<1>2. blk \in 1 .. NumBlocks /\ Len(ps) \in Nat
  BY <1>1 DEF PieceSeq
<1>3. SUFFICES ASSUME NEW n \in 1 .. Len(ps)
               PROVE  ~BadMatch(List[n], IF n = 1 THEN Start(blk) ELSE List[n - 1].src)
  BY <1>1
<1> DEFINE q == ps[n]
           pos == PosBefore(ps, blk, n)
<1>4. q \in PiecesOf(blk)
  BY <1>1 DEF PieceSeq
<1>5. /\ q.src \in Nat /\ q.dest \in Nat /\ q.len \in Nat /\ q.src < q.dest
      /\ q.src < End(blk) /\ q.src + q.len <= End(blk)
  BY <1>2, <1>4, PieceInBlock
<1>6. pos \in Nat /\ pos <= q.src
  BY <1>1, PosBeforeIs
<1>7. (IF n = 1 THEN Start(blk) ELSE List[n - 1].src) = pos
  <2>1. n # 1 => n - 1 \in 1 .. Len(ps)
    BY <1>2
  <2>2. QED BY <1>1, <2>1 DEF PosBefore
<1>8. List[n].src = q.src /\ List[n].dest = q.dest /\ List[n].len = q.len
  BY <1>1
<1>9. End(blk) \in Nat
  BY <1>2, BlockIs DEF File
<1> HIDE DEF q, pos
<1>10. ~(q.src < pos) /\ ~(q.src >= End(blk)) /\ ~(q.len > End(blk) - q.src) /\ ~(q.dest <= q.src)
  BY <1>5, <1>6, <1>9
<1>11. ~BadMatch(List[n], pos)
  BY <1>8, <1>10 DEF BadMatch
<1>12. QED BY <1>7, <1>11

\* With the pieces that end up in the block the decoder keeps what it needs
LEMMA Inserted ==
  ASSUME File, format # "io", ListOf(blk, stat), HeapFor(heap, blk), NEW h,
         h = heap \union {Pending(m, NoData) : m \in {k \in ToSet(List) : k.dest < End(blk)}}
  PROVE  FutureAt(h, <<>>, 0)
<1> DEFINE b == blk
           M == {k \in ToSet(List) : k.dest < End(b)}
<1>1. PICK ps : /\ PieceSeq(b, ps) /\ Len(List) = Len(ps) /\ DOMAIN List = 1 .. Len(ps)
                /\ \A n \in 1 .. Len(ps) : /\ List[n].src = ps[n].src /\ List[n].dest = ps[n].dest
                                           /\ List[n].len = ps[n].len
  BY ListRead
<1>2. b \in 1 .. NumBlocks /\ Len(ps) \in Nat
  BY <1>1 DEF PieceSeq
<1>3. Right(b, <<>>) /\ LitCount(b, Start(b) + Len(<<>>)) = 0 /\ Start(b) + Len(<<>>) = Start(b)
  BY <1>2, NothingDecoded
<1>4. Whole(Start(b))
  BY <1>2, WholeStart
<1>5. Start(b) \in Nat /\ End(b) \in Nat /\ Start(b) < End(b)
  BY <1>2, BlockIs DEF File
<1>6. \A n \in 1 .. Len(ps) : Pending(List[n], NoData) = Pending(ps[n], NoData)
  BY <1>1 DEF Pending
<1>7. ASSUME NEW x \in h
      PROVE  \E q \in AllPieces : WaitsIn(q, b, Start(b)) /\ x = Pending(q, Held(q, b))
  <2>1. CASE x \in heap
    <3>1. PICK q \in AllPieces : WaitsFor(q, b) /\ x = Pending(q, Held(q, b))
      BY <2>1 DEF HeapFor
    <3>2. WaitsIn(q, b, Start(b))
      BY <3>1 DEF WaitsFor, WaitsIn
    <3>3. QED BY <3>1, <3>2
  <2>2. CASE x \notin heap
    <3>1. PICK m \in M : x = Pending(m, NoData)
      BY <2>2
    <3>2. PICK n \in 1 .. Len(ps) : m = List[n]
      BY <1>1, <3>1 DEF ToSet
    <3> DEFINE q == ps[n]
    <3>3. q \in PiecesOf(b)
      BY <1>1 DEF PieceSeq
    <3>4. q \in AllPieces /\ q.src \in Nat /\ q.dest \in Nat /\ q.src < q.dest /\ Start(b) <= q.src
      BY <1>2, <3>3, PieceInBlock
    <3>5. q.dest < End(b)
      BY <1>1, <3>1, <3>2
    <3>6. x = Pending(q, NoData)
      BY <1>6, <3>1, <3>2
    <3> HIDE DEF q
    <3>7. ~(q.src < Start(b)) /\ Start(b) <= q.dest
      BY <1>5, <3>4
    <3>8. Held(q, b) = NoData /\ WaitsIn(q, b, Start(b))
      BY <3>5, <3>7 DEF Held, WaitsIn
    <3>9. QED BY <3>4, <3>6, <3>8
  <2>3. QED BY <2>1, <2>2
<1>8. ASSUME NEW q \in AllPieces, WaitsIn(q, b, Start(b))
      PROVE  Pending(q, Held(q, b)) \in h
  <2>1. CASE q.src < Start(b)
    <3>1. WaitsFor(q, b)
      BY <1>8, <2>1 DEF WaitsFor, WaitsIn
    <3>2. QED BY <3>1 DEF HeapFor
  <2>2. CASE ~(q.src < Start(b))
    <3>1. q.dest < End(b) /\ q.src \in Nat /\ q.dest \in Nat /\ q.src < q.dest
      BY <1>8, <2>2, PieceBounds DEF WaitsIn
    <3>2. Start(b) <= q.src /\ q.src < End(b)
      BY <1>5, <2>2, <3>1
    <3>3. q \in PiecesOf(b)
      BY <1>2, <3>2, PiecesOfAre
    <3>4. PICK n \in 1 .. Len(ps) : ps[n] = q
      BY <1>1, <3>3 DEF PieceSeq
    <3>5. List[n] \in M
      BY <1>1, <3>1, <3>4 DEF ToSet
    <3>6. Pending(List[n], NoData) \in h
      BY <3>5
    <3>7. Held(q, b) = NoData
      BY <2>2 DEF Held
    <3>8. QED BY <1>6, <3>4, <3>6, <3>7
  <2>3. QED BY <2>1, <2>2
<1>9. HeapIn(h, b, Start(b))
  BY <1>7, <1>8 DEF HeapIn
<1>10. QED BY <1>3, <1>4, <1>9 DEF FutureAt

\* With the pieces that end up behind the block, and their bytes, the decoder
\* keeps what the next block needs
LEMMA Finished ==
  ASSUME File, format # "io", ListOf(blk, stat), FutureAt(heap, out, used),
         Len(out) = End(blk) - Start(blk), NEW h,
         h = heap \union {Pending(m, SavedBytes(m)) : m \in {k \in ToSet(List) : k.dest >= End(blk)}}
  PROVE  HeapFor(h, blk + 1)
<1> DEFINE b == blk
           M == {k \in ToSet(List) : k.dest >= End(b)}
<1>1. PICK ps : /\ PieceSeq(b, ps) /\ Len(List) = Len(ps) /\ DOMAIN List = 1 .. Len(ps)
                /\ \A n \in 1 .. Len(ps) : /\ List[n].src = ps[n].src /\ List[n].dest = ps[n].dest
                                           /\ List[n].len = ps[n].len
  BY ListRead
<1>2. b \in 1 .. NumBlocks /\ Len(ps) \in Nat
  BY <1>1 DEF PieceSeq
<1>3. /\ Start(b) \in Nat /\ End(b) \in Nat /\ Start(b) < End(b) /\ total \in Nat
      /\ End(b) <= Start(b + 1) /\ (b < NumBlocks => End(b) = Start(b + 1))
      /\ (b = NumBlocks => End(b) = total)
  BY <1>2, BlockIs DEF File, GivenKept
<1>4. Start(b + 1) \in Int
  BY <1>2, StartIs
<1>5. /\ HeapIn(heap, b, End(b)) /\ Right(b, out)
  <2>1. Start(b) + Len(out) = End(b)
    BY <1>3
  <2>2. QED BY <2>1 DEF FutureAt
\* What ends up behind the block ends up behind the start of the next one
<1>6. ASSUME NEW q \in AllPieces
      PROVE  End(b) <= q.dest <=> Start(b + 1) <= q.dest
  <2>1. q.dest \in Nat /\ q.dest < total
    BY PieceBounds DEF File, GivenKept
  <2>2. CASE b < NumBlocks
    BY <1>3, <2>2
  <2>3. CASE b = NumBlocks
    BY <1>3, <1>4, <2>1, <2>3
  <2>4. b < NumBlocks \/ b = NumBlocks
    BY <1>2, BlocksAre DEF File
  <2>5. QED BY <2>2, <2>3, <2>4
<1>7. ASSUME NEW q \in AllPieces
      PROVE  q.src < End(b) <=> q.src < Start(b + 1)
  <2>1. q.src \in Nat /\ q.src < total
    <3>1. q.src \in Nat /\ q.dest \in Nat /\ q.src < q.dest /\ q.len \in Nat /\ q.dest + q.len <= total
      BY PieceBounds
    <3>2. QED BY <1>3, <3>1
  <2>2. CASE b < NumBlocks
    BY <1>3, <2>2
  <2>3. CASE b = NumBlocks
    BY <1>3, <1>4, <2>1, <2>3
  <2>4. b < NumBlocks \/ b = NumBlocks
    BY <1>2, BlocksAre DEF File
  <2>5. QED BY <2>2, <2>3, <2>4
\* The bytes of a piece of the block are saved
<1>8. ASSUME NEW n \in 1 .. Len(ps)
      PROVE  Pending(List[n], SavedBytes(List[n])) = Pending(ps[n], Held(ps[n], b + 1))
  <2> DEFINE q == ps[n]
             m == List[n]
  <2>1. q \in PiecesOf(b)
    BY <1>1 DEF PieceSeq
  <2>2. /\ q \in AllPieces /\ q.src \in Nat /\ q.dest \in Nat /\ q.len \in Nat /\ q.len >= 1
        /\ Start(b) <= q.src /\ q.src < End(b) /\ q.src + q.len <= End(b)
    BY <1>2, <2>1, PieceInBlock
  <2>3. m.src = q.src /\ m.dest = q.dest /\ m.len = q.len
    BY <1>1
  <2> HIDE DEF q, m
  <2>4. q.src < Start(b + 1)
    BY <1>7, <2>2
  <2>5. SavedBytes(m) = Held(q, b + 1)
    <3> DEFINE u == q.src - Start(b)
               s == SubSeq(out, u + 1, u + q.len)
               t == Bytes(q)
    <3>1. u \in Nat /\ u + q.len <= Len(out) /\ Start(b) + u = q.src
      BY <1>3, <2>2
    <3>2. SavedBytes(m) = IF q.len >= maximum_save THEN NoData ELSE s
      BY <2>3 DEF SavedBytes
    <3>3. out \in Seq(Nat) /\ Len(out) \in Nat /\ \A j \in 1 .. Len(out) : out[j] = Data[Start(b) + j - 1]
      BY <1>5, LenProperties DEF Right
    <3>4. t \in Seq(Nat) /\ Len(t) = q.len /\ \A j \in 1 .. q.len : t[j] = Data[q.src + j - 1]
      BY <2>2, BytesAre
    <3> HIDE DEF u, t
    <3>5. s \in Seq(Nat) /\ Len(s) = q.len /\ \A j \in 1 .. q.len : s[j] = out[u + j]
      <4>1. u + 1 \in Int /\ u + q.len \in Int
        BY <2>2, <3>1
      <4>2. \A j \in u + 1 .. u + q.len : out[j] \in Nat
        <5>1. u + 1 .. u + q.len \subseteq 1 .. Len(out)
          BY <2>2, <3>1, <3>3
        <5>2. QED BY <3>3, <5>1, ElementOfSeq
      <4>3. /\ s \in Seq(Nat) /\ Len(s) = IF u + 1 <= u + q.len THEN (u + q.len) - (u + 1) + 1 ELSE 0
            /\ \A j \in 1 .. (u + q.len) - (u + 1) + 1 : s[j] = out[(u + 1) + j - 1]
        BY <4>1, <4>2, SubSeqProperties
      <4> HIDE DEF s
      <4>4. Len(s) = q.len
        BY <2>2, <3>1, <4>3
      <4>5. ASSUME NEW j \in 1 .. q.len
            PROVE  s[j] = out[u + j]
        <5>1. j \in 1 .. (u + q.len) - (u + 1) + 1 /\ (u + 1) + j - 1 = u + j
          BY <2>2, <3>1
        <5>2. QED BY <4>3, <5>1
      <4>6. QED BY <4>3, <4>4, <4>5
    <3> HIDE DEF s
    <3>6. ASSUME NEW j \in 1 .. q.len
          PROVE  s[j] = t[j]
      <4>0. j \in Nat /\ j >= 1 /\ j <= q.len /\ Len(out) \in Nat
        BY <2>2, <3>3
      <4>1. u + j \in 1 .. Len(out)
        BY <2>2, <3>1, <4>0
      <4>2. Start(b) + (u + j) - 1 = q.src + j - 1
        BY <1>3, <2>2, <3>1, <4>0
      <4>3. out[u + j] = Data[Start(b) + (u + j) - 1]
        BY <3>3, <4>1
      <4>4. t[j] = Data[q.src + j - 1] /\ s[j] = out[u + j]
        BY <3>4, <3>5
      <4>5. QED BY <4>2, <4>3, <4>4
    <3>7. s = t
      BY <3>4, <3>5, <3>6, SeqEqual
    <3>8. q.len >= maximum_save <=> ~(q.len < maximum_save)
      BY <2>2, Constants
    <3>9. QED BY <2>4, <3>2, <3>7, <3>8 DEF Held, t
  <2>6. QED BY <2>3, <2>5 DEF Pending, q, m
<1>9. ASSUME NEW x \in h
      PROVE  \E q \in AllPieces : WaitsFor(q, b + 1) /\ x = Pending(q, Held(q, b + 1))
  <2>1. CASE x \in heap
    <3>1. PICK q \in AllPieces : WaitsIn(q, b, End(b)) /\ x = Pending(q, Held(q, b))
      BY <1>5, <2>1 DEF HeapIn
    <3>2. q.dest \in Nat /\ q.src \in Nat
      BY PieceBounds
    <3>3. End(b) <= q.dest /\ q.src < Start(b)
      BY <1>3, <3>1, <3>2 DEF WaitsIn
    <3>4. q.src < End(b)
      BY <1>3, <3>2, <3>3
    <3>5. Start(b + 1) <= q.dest /\ q.src < Start(b + 1)
      BY <1>6, <1>7, <3>3, <3>4
    <3>6. Held(q, b) = Held(q, b + 1)
      BY <3>3, <3>5 DEF Held
    <3>7. QED BY <3>1, <3>5, <3>6 DEF WaitsFor
  <2>2. CASE x \notin heap
    <3>1. PICK m \in M : x = Pending(m, SavedBytes(m))
      BY <2>2
    <3>2. PICK n \in 1 .. Len(ps) : m = List[n]
      BY <1>1, <3>1 DEF ToSet
    <3> DEFINE q == ps[n]
    <3>3. q \in PiecesOf(b)
      BY <1>1 DEF PieceSeq
    <3>4. q \in AllPieces /\ q.src < End(b) /\ q.dest \in Nat
      BY <1>2, <3>3, PieceInBlock
    <3>5. End(b) <= q.dest
      <4>1. q.dest >= End(b)
        BY <1>1, <3>1, <3>2
      <4>2. QED BY <1>3, <3>4, <4>1
    <3>6. x = Pending(q, Held(q, b + 1))
      BY <1>8, <3>1, <3>2
    <3>7. WaitsFor(q, b + 1)
      BY <1>6, <1>7, <3>4, <3>5 DEF WaitsFor
    <3>8. QED BY <3>4, <3>6, <3>7
  <2>3. QED BY <2>1, <2>2
<1>10. ASSUME NEW q \in AllPieces, WaitsFor(q, b + 1)
       PROVE  Pending(q, Held(q, b + 1)) \in h
  <2>1. q.src < End(b) /\ End(b) <= q.dest /\ q.src \in Nat /\ q.dest \in Nat /\ q.src < Start(b + 1)
    BY <1>6, <1>7, <1>10, PieceBounds DEF WaitsFor
  <2>2. CASE q.src < Start(b)
    <3>1. WaitsIn(q, b, End(b))
      BY <2>1, <2>2 DEF WaitsIn
    <3>2. Held(q, b) = Held(q, b + 1)
      BY <2>1, <2>2 DEF Held
    <3>3. Pending(q, Held(q, b)) \in heap
      BY <1>5, <3>1 DEF HeapIn
    <3>4. QED BY <3>2, <3>3
  <2>3. CASE ~(q.src < Start(b))
    <3>1. Start(b) <= q.src
      BY <1>3, <2>1, <2>3
    <3>2. q \in PiecesOf(b)
      BY <1>2, <2>1, <3>1, PiecesOfAre
    <3>3. PICK n \in 1 .. Len(ps) : ps[n] = q
      BY <1>1, <3>2 DEF PieceSeq
    <3>4. List[n].dest >= End(b)
      BY <1>1, <1>3, <2>1, <3>3
    <3>5. List[n] \in M
      BY <1>1, <3>4 DEF ToSet
    <3>6. QED BY <1>8, <3>3, <3>5
  <2>4. QED BY <2>2, <2>3
<1>11. QED BY <1>9, <1>10 DEF HeapFor

\* Behind the last block nothing is left
LEMMA NothingLeft ==
  ASSUME File, NEW h, HeapFor(h, NumBlocks + 1)
  PROVE  h = {}
<1>1. SUFFICES ASSUME NEW x \in h PROVE FALSE
  OBVIOUS
<1>2. PICK q \in AllPieces : WaitsFor(q, NumBlocks + 1)
  BY <1>1 DEF HeapFor
<1>3. q.dest \in Nat /\ q.dest + q.len <= total /\ q.len \in Nat /\ q.len >= 1
  BY PieceBounds
<1>4. total \in Nat /\ total <= Start(NumBlocks + 1) /\ Start(NumBlocks + 1) \in Int
  BY BlocksAre, StartIs DEF File, GivenKept
<1>5. QED BY <1>2, <1>3, <1>4 DEF WaitsFor

-----------------------------------------------------------------------------
(* The second pass: lz_matches holds the matches of the first pass in the    *)
(* order of their sources, and the pieces it writes with a block are the     *)
(* parts of matches whose source lies in the block.                          *)

\* s holds the matches in the order of their sources
BySource(s) ==
  /\ s \in Seq(Match) /\ Len(s) \in Nat
  /\ \A n \in 1 .. Len(s) : \E k \in 1 .. Len(matches) : s[n] = matches[k]
  /\ \A k \in 1 .. Len(matches) : \E n \in 1 .. Len(s) : s[n] = matches[k]
  /\ \A n \in 1 .. Len(s), k \in 1 .. Len(s) : n < k => s[n].src <= s[k].src

LzKept == BySource(lz_matches)

\* What is skipped in block b ends before it
Passed(b) ==
  /\ i \in Nat /\ i >= 1
  /\ \A n \in 1 .. Len(lz_matches) : n < i => lz_matches[n].src + lz_matches[n].len <= Start(b)

LEMMA LzIs ==
  ASSUME File, LzKept, NEW n \in 1 .. Len(lz_matches)
  PROVE  /\ lz_matches[n] \in Match /\ lz_matches[n].src \in Nat /\ lz_matches[n].dest \in Nat
         /\ lz_matches[n].len \in Nat /\ lz_matches[n].len >= 1 /\ lz_matches[n].len <= BlockSize
         /\ lz_matches[n].src < lz_matches[n].dest
<1>1. PICK k : k \in 1 .. Len(matches) /\ lz_matches[n] = matches[k]
  BY DEF LzKept, BySource
<1>2. QED BY <1>1, MatchIs, MatchBounds

\* The matches that are looked at for block b
Cuts(b) == Reached(b) \ Over(b)

LEMMA CutsAre ==
  ASSUME File, LzKept, NEW b \in 1 .. NumBlocks, Passed(b)
  PROVE  \A n \in 1 .. Len(lz_matches) : n \in Cuts(b) <=> Touches(lz_matches[n], b)
<1>1. Start(b) \in Nat /\ End(b) \in Nat
  BY BlockIs DEF File
<1>2. i \in Nat /\ Len(lz_matches) \in Nat
  BY DEF LzKept, BySource, Passed
<1>3. ASSUME NEW n \in 1 .. Len(lz_matches)
      PROVE  n \in Cuts(b) <=> Touches(lz_matches[n], b)
  <2>1. lz_matches[n].src \in Nat /\ lz_matches[n].len \in Nat
    BY LzIs
  <2>2. CASE n < i
    <3>1. lz_matches[n].src + lz_matches[n].len <= Start(b)
      BY <2>2 DEF Passed
    <3>2. ~Touches(lz_matches[n], b)
      BY <1>1, <2>1, <3>1 DEF Touches
    <3>3. n \notin Cuts(b)
      BY <1>2, <2>2 DEF Cuts, Reached
    <3>4. QED BY <3>2, <3>3
  <2>3. CASE ~(n < i)
    <3>1. n \in i .. Len(lz_matches)
      BY <1>2, <2>3
    <3>2. n \in Cuts(b) <=> /\ lz_matches[n].src < End(b)
                            /\ ~(lz_matches[n].src + lz_matches[n].len <= Start(b))
      BY <3>1 DEF Cuts, Reached, Over
    <3>3. QED BY <1>1, <2>1, <3>2 DEF Touches
  <2>4. QED BY <2>2, <2>3
<1>4. QED BY <1>3

\* The recursion of Pieces
PieceAt(P, b, n) ==
  IF n = 0 THEN <<>>
  ELSE IF n \in Cuts(b) THEN Append(P[n - 1], Piece(lz_matches[n], b))
  ELSE P[n - 1]

Picked(b) == CHOOSE P : P = [n \in 0 .. Len(lz_matches) |-> PieceAt(P, b, n)]

LEMMA PiecesIs ==
  ASSUME NEW b
  PROVE  Pieces(b) = Picked(b)[Len(lz_matches)]
BY DEF Pieces, Picked, PieceAt, Cuts

LEMMA PickedExists ==
  ASSUME LzKept, NEW b
  PROVE  \E P : P = [n \in 0 .. Len(lz_matches) |-> PieceAt(P, b, n)]
<1> DEFINE A == {k \in Nat : \E P : P = [n \in 0 .. k |-> PieceAt(P, b, n)]}
<1>1. 0 \in A
  <2> DEFINE P == [n \in 0 .. 0 |-> <<>>]
  <2>1. \A n \in 0 .. 0 : n = 0
    OBVIOUS
  <2>2. P = [n \in 0 .. 0 |-> PieceAt(P, b, n)]
    BY <2>1 DEF PieceAt
  <2> HIDE DEF P
  <2>3. QED BY <2>2
<1>2. ASSUME NEW k \in Nat, k \in A
      PROVE  k + 1 \in A
  <2>1. PICK P : P = [n \in 0 .. k |-> PieceAt(P, b, n)]
    BY <1>2
  <2> DEFINE T == 0 .. k + 1
             M == [n \in T |-> IF n <= k THEN P[n] ELSE PieceAt(P, b, n)]
  <2>2. ASSUME NEW n \in T
        PROVE  M[n] = PieceAt(M, b, n)
    <3>1. M[n] = PieceAt(P, b, n)
      <4>1. CASE n <= k
        <5>1. n \in 0 .. k /\ M[n] = P[n]
          BY <4>1
        <5> HIDE DEF M
        <5>2. QED BY <2>1, <5>1
      <4>2. CASE ~(n <= k)
        BY <4>2
      <4>3. QED BY <4>1, <4>2
    <3>2. n # 0 => M[n - 1] = P[n - 1]
      OBVIOUS
    <3> HIDE DEF M, T
    <3>3. QED BY <3>1, <3>2 DEF PieceAt
  <2>3. M = [n \in T |-> PieceAt(M, b, n)]
    <3>1. M = [n \in T |-> M[n]]
      OBVIOUS
    <3> HIDE DEF M, T
    <3>2. QED BY <2>2, <3>1
  <2> HIDE DEF M
  <2>4. QED BY <2>3
<1>3. Len(lz_matches) \in Nat
  BY DEF LzKept, BySource
<1>4. Len(lz_matches) \in A
  <2> HIDE DEF A
  <2>1. QED BY <1>1, <1>2, <1>3, AllNumbers
<1>5. QED BY <1>4

LEMMA PickedStep ==
  ASSUME LzKept, NEW b, NEW n \in 0 .. Len(lz_matches)
  PROVE  Picked(b)[n] = PieceAt(Picked(b), b, n)
<1> DEFINE P == Picked(b)
<1>1. P = [k \in 0 .. Len(lz_matches) |-> PieceAt(P, b, k)]
  BY PickedExists DEF Picked
<1> HIDE DEF P
<1>2. P[n] = PieceAt(P, b, n)
  BY <1>1
<1>3. QED BY <1>2 DEF P

\* Pieces come in the order of the matches
LEMMA PieceOrder ==
  ASSUME File, LzKept, NEW b \in 1 .. NumBlocks,
         NEW n \in 1 .. Len(lz_matches), NEW k \in 1 .. Len(lz_matches), n < k
  PROVE  Piece(lz_matches[n], b).src <= Piece(lz_matches[k], b).src
<1>1. Start(b) \in Nat
  BY BlockIs DEF File
<1>2. lz_matches[n].src \in Nat /\ lz_matches[k].src \in Nat
  BY LzIs
<1>3. lz_matches[n].src <= lz_matches[k].src
  BY DEF LzKept, BySource
<1>4. ASSUME NEW m, m.src \in Nat
      PROVE  Piece(m, b).src = IF m.src >= Start(b) THEN m.src ELSE Start(b)
  <2>1. Piece(m, b).src = Max({m.src, Start(b)})
    BY DEF Piece
  <2>2. m.src \in Int /\ Start(b) \in Int
    BY <1>1, <1>4
  <2> DEFINE a == m.src
             c == Start(b)
  <2> HIDE DEF a, c
  <2>3. Max({a, c}) = IF a >= c THEN a ELSE c
    BY <2>2, Max2 DEF a, c
  <2>4. QED BY <2>1, <2>3 DEF a, c
<1>5. QED BY <1>1, <1>2, <1>3, <1>4

\* f holds the pieces of the first k matches
UpTo(b, f, k) ==
  /\ f \in Seq(Match)
  /\ \A x \in 1 .. Len(f) : \E n \in 1 .. Len(lz_matches) :
       n <= k /\ n \in Cuts(b) /\ f[x] = Piece(lz_matches[n], b)
  /\ \A n \in 1 .. Len(lz_matches) :
       n <= k /\ n \in Cuts(b) => \E x \in 1 .. Len(f) : f[x] = Piece(lz_matches[n], b)
  /\ \A x \in 1 .. Len(f), y \in 1 .. Len(f) : x < y => f[x].src <= f[y].src

LEMMA PickedNone ==
  ASSUME LzKept, NEW b
  PROVE  UpTo(b, Picked(b)[0], 0)
<1>1. Len(lz_matches) \in Nat
  BY DEF LzKept, BySource
<1>2. 0 \in 0 .. Len(lz_matches)
  BY <1>1
<1>3. Picked(b)[0] = <<>>
  BY <1>2, PickedStep DEF PieceAt
<1>4. <<>> \in Seq(Match) /\ \A x \in 1 .. Len(<<>>) : FALSE
  BY EmptySeq
<1>5. \A n \in 1 .. Len(lz_matches) : ~(n <= 0)
  BY <1>1
<1> DEFINE f == Picked(b)[0]
<1>6. f \in Seq(Match) /\ \A x \in 1 .. Len(f) : FALSE
  BY <1>3, <1>4
<1> HIDE DEF f
<1>7. UpTo(b, f, 0)
  BY <1>5, <1>6 DEF UpTo
<1>8. QED BY <1>7 DEF f

LEMMA PickedMore ==
  ASSUME File, LzKept, NEW b \in 1 .. NumBlocks, Passed(b), NEW f, NEW g,
         NEW k, NEW n \in 1 .. Len(lz_matches), k \in Nat, n = k + 1, UpTo(b, f, k),
         g = IF n \in Cuts(b) THEN Append(f, Piece(lz_matches[n], b)) ELSE f
  PROVE  UpTo(b, g, n)
<1>1. \A z \in 1 .. Len(lz_matches) : z <= n <=> z <= k \/ z = n
  OBVIOUS
<1>2. f \in Seq(Match) /\ Len(f) \in Nat
  BY LenProperties DEF UpTo
<1>3. CASE n \notin Cuts(b)
  <2>1. g = f
    BY <1>3
  <2>2. ASSUME NEW x \in 1 .. Len(f)
        PROVE  \E z \in 1 .. Len(lz_matches) :
                 z <= n /\ z \in Cuts(b) /\ f[x] = Piece(lz_matches[z], b)
    BY <1>1 DEF UpTo
  <2>3. ASSUME NEW z \in 1 .. Len(lz_matches), z <= n, z \in Cuts(b)
        PROVE  \E x \in 1 .. Len(f) : f[x] = Piece(lz_matches[z], b)
    <3>1. z <= k
      BY <1>1, <1>3, <2>3
    <3>2. QED BY <2>3, <3>1 DEF UpTo
  <2>4. \A x \in 1 .. Len(f), y \in 1 .. Len(f) : x < y => f[x].src <= f[y].src
    BY DEF UpTo
  <2>5. QED BY <1>2, <2>1, <2>2, <2>3, <2>4 DEF UpTo
<1>4. CASE n \in Cuts(b)
  <2> DEFINE q == Piece(lz_matches[n], b)
  <2>1. g = Append(f, q)
    BY <1>4
  <2>2. q \in Match
    <3>1. Touches(lz_matches[n], b)
      BY <1>4, CutsAre
    <3>2. PieceFits(q, lz_matches[n], b)
      BY <3>1, LzIs, PieceIs
    <3>3. QED BY <3>2 DEF PieceFits
  <2> HIDE DEF q
  <2>3. /\ g \in Seq(Match) /\ Len(g) = Len(f) + 1 /\ g[Len(g)] = q
        /\ \A x \in 1 .. Len(f) : g[x] = f[x]
    BY <1>2, <2>1, <2>2, AppendProperties
  <2>4. ASSUME NEW x \in 1 .. Len(g)
        PROVE  x \in 1 .. Len(f) \/ x = Len(g)
    BY <1>2, <2>3
  <2>5. ASSUME NEW x \in 1 .. Len(g)
        PROVE  \E z \in 1 .. Len(lz_matches) :
                 z <= n /\ z \in Cuts(b) /\ g[x] = Piece(lz_matches[z], b)
    <3>1. CASE x \in 1 .. Len(f)
      <4>1. PICK z \in 1 .. Len(lz_matches) :
              z <= k /\ z \in Cuts(b) /\ f[x] = Piece(lz_matches[z], b)
        BY <3>1 DEF UpTo
      <4>2. QED BY <1>1, <2>3, <3>1, <4>1
    <3>2. CASE x = Len(g)
      <4>1. n <= n
        BY <1>1
      <4>2. QED BY <1>4, <2>3, <3>2, <4>1 DEF q
    <3>3. QED BY <2>4, <3>1, <3>2
  <2>6. ASSUME NEW z \in 1 .. Len(lz_matches), z <= n, z \in Cuts(b)
        PROVE  \E x \in 1 .. Len(g) : g[x] = Piece(lz_matches[z], b)
    <3>1. CASE z = n
      <4>1. Len(g) \in 1 .. Len(g)
        BY <1>2, <2>3
      <4>2. QED BY <2>3, <3>1, <4>1 DEF q
    <3>2. CASE z # n
      <4>1. z <= k
        BY <1>1, <2>6, <3>2
      <4>2. PICK x \in 1 .. Len(f) : f[x] = Piece(lz_matches[z], b)
        BY <2>6, <4>1 DEF UpTo
      <4>3. x \in 1 .. Len(g)
        BY <1>2, <2>3
      <4>4. QED BY <2>3, <4>2, <4>3
    <3>3. QED BY <3>1, <3>2
  <2>7. ASSUME NEW x \in 1 .. Len(g), NEW y \in 1 .. Len(g), x < y
        PROVE  g[x].src <= g[y].src
    <3>1. x \in 1 .. Len(f)
      BY <1>2, <2>3, <2>7
    <3>2. CASE y \in 1 .. Len(f)
      BY <2>3, <2>7, <3>1, <3>2 DEF UpTo
    <3>3. CASE y = Len(g)
      <4>1. PICK z \in 1 .. Len(lz_matches) :
              z <= k /\ z \in Cuts(b) /\ f[x] = Piece(lz_matches[z], b)
        BY <3>1 DEF UpTo
      <4>2. z < n
        BY <4>1
      <4>3. Piece(lz_matches[z], b).src <= q.src
        BY <4>2, PieceOrder DEF q
      <4>4. QED BY <2>3, <3>1, <3>3, <4>1, <4>3
    <3>4. QED BY <2>4, <3>2, <3>3
  <2>8. QED BY <2>3, <2>5, <2>6, <2>7 DEF UpTo
<1>5. QED BY <1>3, <1>4

\* The list of block b is made of the pieces of block b
LEMMA PiecesAre ==
  ASSUME File, LzKept, NEW b \in 1 .. NumBlocks, Passed(b)
  PROVE  PieceSeq(b, Pieces(b))
<1> DEFINE N == Len(lz_matches)
           A == {k \in Nat : k <= N => UpTo(b, Picked(b)[k], k)}
<1>1. N \in Nat
  BY DEF LzKept, BySource
<1>2. 0 \in A
  BY PickedNone
<1>3. ASSUME NEW k \in Nat, k \in A
      PROVE  k + 1 \in A
  <2>1. SUFFICES ASSUME k + 1 <= N
                 PROVE  UpTo(b, Picked(b)[k + 1], k + 1)
    OBVIOUS
  <2> DEFINE n == k + 1
             P == Picked(b)
  <2>2. n \in 1 .. N /\ n \in 0 .. N /\ n # 0 /\ n - 1 = k /\ k <= N
    BY <1>1, <2>1
  <2>3. P[n] = PieceAt(P, b, n)
    BY <2>2, PickedStep
  <2>4. UpTo(b, P[k], k)
    BY <1>3, <2>2
  <2> HIDE DEF P
  <2>5. P[n] = IF n \in Cuts(b) THEN Append(P[k], Piece(lz_matches[n], b)) ELSE P[k]
    BY <2>2, <2>3 DEF PieceAt
  <2>6. UpTo(b, P[n], n)
    BY <2>2, <2>4, <2>5, PickedMore
  <2>7. QED BY <2>6 DEF P
<1>4. N \in A
  <2> HIDE DEF A, N
  <2>1. QED BY <1>1, <1>2, <1>3, AllNumbers
<1> DEFINE f == Pieces(b)
<1>5. UpTo(b, f, N)
  <2>1. N <= N
    BY <1>1
  <2>2. QED BY <1>4, <2>1, PiecesIs
<1> HIDE DEF f
<1>6. f \in Seq(Match) /\ Len(f) \in Nat
  BY <1>5, LenProperties DEF UpTo
<1>7. ASSUME NEW x \in 1 .. Len(f)
      PROVE  f[x] \in PiecesOf(b)
  <2>1. PICK n \in 1 .. Len(lz_matches) : n \in Cuts(b) /\ f[x] = Piece(lz_matches[n], b)
    BY <1>5 DEF UpTo
  <2>2. PICK k : k \in 1 .. Len(matches) /\ lz_matches[n] = matches[k]
    BY DEF LzKept, BySource
  <2>3. Touches(matches[k], b)
    BY <2>1, <2>2, CutsAre
  <2>4. QED BY <2>1, <2>2, <2>3 DEF PiecesOf
<1>8. ASSUME NEW q \in PiecesOf(b)
      PROVE  \E x \in 1 .. Len(f) : f[x] = q
  <2>1. PICK k : k \in 1 .. Len(matches) /\ Touches(matches[k], b) /\ q = Piece(matches[k], b)
    BY DEF PiecesOf
  <2>2. PICK n : n \in 1 .. Len(lz_matches) /\ lz_matches[n] = matches[k]
    BY <2>1 DEF LzKept, BySource
  <2>3. n \in Cuts(b) /\ n <= N
    <3>1. n \in Cuts(b)
      BY <2>1, <2>2, CutsAre
    <3>2. QED BY <1>1, <2>2, <3>1
  <2>4. QED BY <1>5, <2>1, <2>2, <2>3 DEF UpTo
<1>9. \A x \in 1 .. Len(f), y \in 1 .. Len(f) : x < y => f[x].src <= f[y].src
  BY <1>5 DEF UpTo
<1>10. PieceSeq(b, f)
  BY <1>6, <1>7, <1>8, <1>9 DEF PieceSeq
<1>11. QED BY <1>10 DEF f

\* What the second pass skips from here on ends before the next block: matches
\* that come before one that ended have sources before this block, and no match
\* is longer than a block
LEMMA SavedPassed ==
  ASSUME File, LzKept, NEW b \in 1 .. NumBlocks, Passed(b), NEW s, s = SavedI(b)
  PROVE  /\ s \in Nat /\ s >= 1
         /\ \A n \in 1 .. Len(lz_matches) :
              n < s => lz_matches[n].src + lz_matches[n].len <= Start(b + 1)
<1>1. Start(b) \in Nat /\ Start(b + 1) = Start(b) + BlockSize /\ BlockSize \in Nat
  BY BlockIs, StartIs, Constants DEF File
<1>2. i \in Nat /\ i >= 1 /\ Len(lz_matches) \in Nat
  BY DEF LzKept, BySource, Passed
<1> DEFINE S == {i} \union Over(b)
<1>3. s \in S
  <2> DEFINE top == i + Len(lz_matches)
  <2>1. S \subseteq Nat /\ i \in S /\ top \in Nat
    BY <1>2 DEF Over, Reached
  <2>2. \A y \in S : y <= top
    BY <1>2 DEF Over, Reached
  <2>3. s = Max(S)
    BY DEF SavedI
  <2> HIDE DEF S, top
  <2>4. QED BY <2>1, <2>2, <2>3, MaxIs
<1>4. s = i \/ s \in Over(b)
  BY <1>3
<1>5. s \in Nat /\ s >= 1
  BY <1>2, <1>4 DEF Over, Reached
<1>6. ASSUME NEW n \in 1 .. Len(lz_matches), n < s
      PROVE  lz_matches[n].src + lz_matches[n].len <= Start(b + 1)
  <2>1. lz_matches[n].src \in Nat /\ lz_matches[n].len \in Nat /\ lz_matches[n].len <= BlockSize
    BY LzIs
  <2>2. CASE n < i
    <3>1. lz_matches[n].src + lz_matches[n].len <= Start(b)
      BY <2>2 DEF Passed
    <3>2. QED BY <1>1, <2>1, <3>1
  <2>3. CASE ~(n < i)
    <3>1. s \in Over(b)
      BY <1>2, <1>4, <1>6, <2>3
    <3>2. s \in 1 .. Len(lz_matches) /\ lz_matches[s].src + lz_matches[s].len <= Start(b)
      BY <1>2, <3>1 DEF Over, Reached
    <3>3. lz_matches[s].src \in Nat /\ lz_matches[s].len \in Nat /\ lz_matches[s].len >= 1
      BY <3>2, LzIs
    <3>4. lz_matches[n].src <= lz_matches[s].src
      BY <1>6, <3>2 DEF LzKept, BySource
    <3>5. ASSUME NEW x \in Nat, NEW l \in Nat, NEW y \in Nat, NEW k \in Nat, NEW from \in Nat,
                 x <= y, k >= 1, y + k <= from, l <= BlockSize
          PROVE  x + l <= from + BlockSize
      BY <1>1, <3>5
    <3>6. lz_matches[n].src + lz_matches[n].len <= Start(b) + BlockSize
      BY <1>1, <2>1, <3>2, <3>3, <3>4, <3>5
    <3>7. QED BY <1>1, <3>6
  <2>4. QED BY <2>2, <2>3
<1>7. QED BY <1>5, <1>6

\* A match with the literals before it
DecodedRecord == [lit : Nat, len : Nat, src : Nat, dest : Nat]

\* The lists of the first pass, read back
OwnLists == [b \in 1 .. NumBlocks |-> Records(FALSE, InBlock(b), Start(b))]

LEMMA OwnRecords ==
  ASSUME File, NEW b \in 1 .. NumBlocks
  PROVE  /\ Records(FALSE, InBlock(b), Start(b)) \in Seq(DecodedRecord)
         /\ Len(Records(FALSE, InBlock(b), Start(b))) = Len(InBlock(b))
         /\ Len(InBlock(b)) \in Nat
         /\ \A n \in 1 .. Len(InBlock(b)) :
              LET r == Records(FALSE, InBlock(b), Start(b))[n]
              IN  r.src = InBlock(b)[n].src /\ r.dest = InBlock(b)[n].dest /\ r.len = InBlock(b)[n].len
<1> DEFINE ms == InBlock(b)
           R == Records(FALSE, ms, Start(b))
<1>1. ms \in Seq(Match) /\ Len(ms) \in Nat
  BY InBlockIs, LenProperties
<1>2. ASSUME NEW n \in 1 .. Len(ms)
      PROVE  /\ Record(FALSE, ms, Start(b), n) \in DecodedRecord
             /\ Record(FALSE, ms, Start(b), n).src = ms[n].src
             /\ Record(FALSE, ms, Start(b), n).dest = ms[n].dest
             /\ Record(FALSE, ms, Start(b), n).len = ms[n].len
  <2> DEFINE from == From(FALSE, ms, Start(b), n)
             m == ms[n]
  <2>1. from \in Nat /\ from <= m.dest
    BY OwnFrom
  <2>2. m.src \in Nat /\ m.dest \in Nat /\ m.len \in Nat
    <3>1. m \in Match
      BY <1>1, ElementOfSeq
    <3>2. QED BY <3>1 DEF Match
  <2> DEFINE r == Record(FALSE, ms, Start(b), n)
             lit == m.dest - from
  <2>3. r = [lit |-> lit, len |-> m.len, src |-> m.src, dest |-> m.dest]
    BY DEF Record, Here
  <2> HIDE DEF from, r
  <2>4. lit \in Nat
    BY <2>1, <2>2
  <2> HIDE DEF lit, m
  <2>5. r \in DecodedRecord /\ r.src = m.src /\ r.dest = m.dest /\ r.len = m.len
    BY <2>2, <2>3, <2>4 DEF DecodedRecord
  <2>6. QED BY <2>5 DEF r, m
<1> HIDE DEF ms
<1>3. R = [n \in 1 .. Len(ms) |-> Record(FALSE, ms, Start(b), n)]
  BY DEF Records
<1> HIDE DEF R
<1>4. R \in Seq(DecodedRecord)
  <2>1. R \in [1 .. Len(ms) -> DecodedRecord]
    BY <1>2, <1>3
  <2>2. QED BY <1>1, <2>1 DEF Seq
<1>5. Len(R) = Len(ms)
  <2>1. DOMAIN R = 1 .. Len(ms)
    BY <1>3
  <2>2. QED BY <1>1, <1>4, <2>1, LenProperties
<1>6. \A n \in 1 .. Len(ms) : R[n].src = ms[n].src /\ R[n].dest = ms[n].dest /\ R[n].len = ms[n].len
  BY <1>2, <1>3
<1>7. QED BY <1>1, <1>4, <1>5, <1>6 DEF R, ms

LEMMA CollectedIs ==
  ASSUME File
  PROVE  Collected = FlattenSeq(OwnLists)
<1>1. ASSUME NEW b \in 1 .. NumBlocks
      PROVE  ReadList(Statbuf(b), FALSE, round, BASE_LEN, Start(b)) = Records(FALSE, InBlock(b), Start(b))
  <2>1. PICK f : f = FALSE
    OBVIOUS
  <2>2. ListTypes(f, round, BASE_LEN, InBlock(b), Start(b)) /\ ListFits(f, round, BASE_LEN, InBlock(b), Start(b))
    BY <2>1, OwnListFits
  <2>3. ReadList(EncodeList(InBlock(b), f, round, BASE_LEN, Start(b)), f, round, BASE_LEN, Start(b))
          = Records(f, InBlock(b), Start(b))
    BY <2>2, ListReadBack
  <2>4. QED BY <2>1, <2>3 DEF Statbuf
<1>2. [b \in 1 .. NumBlocks |-> ReadList(Statbuf(b), FALSE, round, BASE_LEN, Start(b))] = OwnLists
  BY <1>1 DEF OwnLists
<1>3. QED BY <1>2 DEF Collected

\* All matches of the first pass, and no others, are read from the blocks
LEMMA CollectedHolds ==
  ASSUME File
  PROVE  /\ Collected \in Seq(DecodedRecord)
         /\ \A x \in 1 .. Len(Collected) : \E k \in 1 .. Len(matches) :
              /\ Collected[x].src = matches[k].src /\ Collected[x].dest = matches[k].dest
              /\ Collected[x].len = matches[k].len
         /\ \A k \in 1 .. Len(matches) : \E x \in 1 .. Len(Collected) :
              /\ Collected[x].src = matches[k].src /\ Collected[x].dest = matches[k].dest
              /\ Collected[x].len = matches[k].len
<1> DEFINE s == OwnLists
           C == Collected
<1>1. NumBlocks \in Nat
  BY BlocksAre DEF File
<1>2. s \in Seq(Seq(DecodedRecord)) /\ Len(s) = NumBlocks
  <2>1. s \in [1 .. NumBlocks -> Seq(DecodedRecord)]
    BY OwnRecords DEF OwnLists
  <2>2. s \in Seq(Seq(DecodedRecord))
    BY <1>1, <2>1 DEF Seq
  <2>3. DOMAIN s = 1 .. NumBlocks
    BY <2>1
  <2> HIDE DEF s
  <2>4. QED BY <1>1, <2>2, <2>3, LenProperties
<1>3. \A b \in 1 .. NumBlocks : s[b] = Records(FALSE, InBlock(b), Start(b))
  BY DEF OwnLists
<1>4. C = FlattenSeq(s)
  BY CollectedIs
<1> HIDE DEF s, C
<1>5. /\ C \in Seq(DecodedRecord)
      /\ \A x \in 1 .. Len(C) : \E b \in 1 .. NumBlocks : \E j \in 1 .. Len(s[b]) : C[x] = s[b][j]
      /\ \A b \in 1 .. NumBlocks : \A j \in 1 .. Len(s[b]) : \E x \in 1 .. Len(C) : C[x] = s[b][j]
  <2> DEFINE F == FlattenSeq(s)
  <2>1. /\ F \in Seq(DecodedRecord)
        /\ \A x \in 1 .. Len(F) : \E b \in 1 .. Len(s) : \E j \in 1 .. Len(s[b]) : F[x] = s[b][j]
        /\ \A b \in 1 .. Len(s) : \A j \in 1 .. Len(s[b]) : \E x \in 1 .. Len(F) : F[x] = s[b][j]
    BY <1>2, FlattenRange
  <2>2. C = F /\ Len(s) = NumBlocks
    BY <1>2, <1>4
  <2> HIDE DEF F
  <2>3. QED BY <2>1, <2>2
<1>6. ASSUME NEW b \in 1 .. NumBlocks
      PROVE  /\ Len(s[b]) = Len(InBlock(b))
             /\ \A n \in 1 .. Len(InBlock(b)) :
                  /\ s[b][n].src = InBlock(b)[n].src /\ s[b][n].dest = InBlock(b)[n].dest
                  /\ s[b][n].len = InBlock(b)[n].len
  BY <1>3, OwnRecords
<1>7. ASSUME NEW x \in 1 .. Len(C)
      PROVE  \E k \in 1 .. Len(matches) :
               /\ C[x].src = matches[k].src /\ C[x].dest = matches[k].dest /\ C[x].len = matches[k].len
  <2>1. PICK b \in 1 .. NumBlocks : \E j \in 1 .. Len(s[b]) : C[x] = s[b][j]
    BY <1>5
  <2>2. PICK j \in 1 .. Len(s[b]) : C[x] = s[b][j]
    BY <2>1
  <2>3. j \in 1 .. Len(InBlock(b))
    BY <1>6
  <2>4. PICK k : k \in 1 .. Len(matches) /\ InBlock(b)[j] = matches[k]
    BY <2>3, InBlockIs
  <2>5. QED BY <1>6, <2>2, <2>3, <2>4
<1>8. ASSUME NEW k \in 1 .. Len(matches)
      PROVE  \E x \in 1 .. Len(C) :
               /\ C[x].src = matches[k].src /\ C[x].dest = matches[k].dest /\ C[x].len = matches[k].len
  <2>1. PICK b : b \in 1 .. NumBlocks /\ Start(b) <= matches[k].dest /\ matches[k].dest < End(b)
    BY MatchIs
  <2>2. OwnOrder(b, InBlock(b))
    BY <2>1, OwnOrdered
  <2>3. PICK n : n \in 1 .. Len(InBlock(b)) /\ InBlock(b)[n] = matches[k]
    BY <2>1, <2>2 DEF OwnOrder
  <2>4. n \in 1 .. Len(s[b])
    BY <1>6, <2>1, <2>3
  <2>5. PICK x \in 1 .. Len(C) : C[x] = s[b][n]
    BY <1>5, <2>1, <2>4
  <2>6. QED BY <1>6, <2>1, <2>3, <2>5
<1>9. QED BY <1>5, <1>7, <1>8 DEF C

\* What SortMatches makes of them
Sorted(all, p) ==
  [n \in DOMAIN all |-> [src |-> all[p[n]].src, dest |-> all[p[n]].dest, len |-> all[p[n]].len]]

SourceOrder(s) == \A m \in 2 .. Len(s) : s[m - 1].src <= s[m].src

LEMMA SortedIs ==
  ASSUME File, NEW p \in Bijection(DOMAIN Collected, DOMAIN Collected), NEW s, s = Sorted(Collected, p),
         SourceOrder(s)
  PROVE  BySource(s)
<1> DEFINE C == Collected
           N == Len(C)
<1>1. /\ C \in Seq(DecodedRecord)
      /\ \A x \in 1 .. N : \E k \in 1 .. Len(matches) :
           C[x].src = matches[k].src /\ C[x].dest = matches[k].dest /\ C[x].len = matches[k].len
      /\ \A k \in 1 .. Len(matches) : \E x \in 1 .. N :
           C[x].src = matches[k].src /\ C[x].dest = matches[k].dest /\ C[x].len = matches[k].len
  BY CollectedHolds
<1> HIDE DEF C
<1>2. DOMAIN C = 1 .. N /\ N \in Nat
  BY <1>1, LenProperties
<1>3. /\ p \in [1 .. N -> 1 .. N]
      /\ \A y \in 1 .. N : \E x \in 1 .. N : p[x] = y
  BY <1>2 DEF Bijection, Injection, Surjection, C
<1>4. ASSUME NEW x \in 1 .. N
      PROVE  /\ C[x].src \in Nat /\ C[x].dest \in Nat /\ C[x].len \in Nat
  <2>1. C[x] \in DecodedRecord
    BY <1>1, ElementOfSeq
  <2>2. QED BY <2>1 DEF DecodedRecord
<1>5. s = [n \in 1 .. N |-> [src |-> C[p[n]].src, dest |-> C[p[n]].dest, len |-> C[p[n]].len]]
  BY <1>2 DEF Sorted, C
<1>6. ASSUME NEW n \in 1 .. N
      PROVE  s[n] \in Match
  <2>1. PICK x \in 1 .. N : x = p[n]
    BY <1>3
  <2>2. s[n] = [src |-> C[x].src, dest |-> C[x].dest, len |-> C[x].len]
    BY <1>5, <2>1
  <2>3. QED BY <1>4, <2>2 DEF Match
<1>7. DOMAIN s = 1 .. N
  BY <1>5
<1>8. s \in Seq(Match)
  <2>1. s \in [1 .. N -> Match]
    <3>1. s = [n \in 1 .. N |-> s[n]]
      BY <1>5
    <3>2. QED BY <1>6, <3>1
  <2>2. QED BY <1>2, <2>1 DEF Seq
<1>9. Len(s) = N
  BY <1>2, <1>7, <1>8, LenProperties
<1>10. ASSUME NEW m \in Match
       PROVE  m = [src |-> m.src, dest |-> m.dest, len |-> m.len]
  BY DEF Match
<1>11. ASSUME NEW k \in 1 .. Len(matches)
       PROVE  matches[k] = [src |-> matches[k].src, dest |-> matches[k].dest, len |-> matches[k].len]
  BY <1>10, MatchIs
<1>12. ASSUME NEW n \in 1 .. Len(s)
       PROVE  \E k \in 1 .. Len(matches) : s[n] = matches[k]
  <2>1. n \in 1 .. N /\ p[n] \in 1 .. N
    BY <1>3, <1>9
  <2>2. PICK k \in 1 .. Len(matches) :
          /\ C[p[n]].src = matches[k].src /\ C[p[n]].dest = matches[k].dest
          /\ C[p[n]].len = matches[k].len
    BY <1>1, <2>1
  <2>3. s[n] = [src |-> C[p[n]].src, dest |-> C[p[n]].dest, len |-> C[p[n]].len]
    BY <1>5, <2>1
  <2>4. QED BY <1>11, <2>2, <2>3
<1>13. ASSUME NEW k \in 1 .. Len(matches)
       PROVE  \E n \in 1 .. Len(s) : s[n] = matches[k]
  <2>1. PICK x \in 1 .. N :
          C[x].src = matches[k].src /\ C[x].dest = matches[k].dest /\ C[x].len = matches[k].len
    BY <1>1
  <2>2. PICK n \in 1 .. N : p[n] = x
    BY <1>3
  <2>3. s[n] = [src |-> C[x].src, dest |-> C[x].dest, len |-> C[x].len]
    BY <1>5, <2>2
  <2>4. QED BY <1>9, <1>11, <2>1, <2>3
<1>14. ASSUME NEW n \in 1 .. Len(s)
       PROVE  \A k \in 1 .. Len(s) : n < k => s[n].src <= s[k].src
  <2> DEFINE A == {d \in Nat : n + d <= Len(s) => s[n].src <= s[n + d].src}
  <2>1. \A x \in 1 .. Len(s) : s[x].src \in Nat
    <3>1. \A x \in 1 .. Len(s) : s[x] \in Match
      BY <1>6, <1>9
    <3>2. QED BY <3>1 DEF Match
  <2>2. 0 \in A
    <3>1. n + 0 = n /\ s[n].src <= s[n].src
      BY <2>1
    <3>2. QED BY <3>1
  <2>3. ASSUME NEW d \in Nat, d \in A
        PROVE  d + 1 \in A
    <3>1. SUFFICES ASSUME n + (d + 1) <= Len(s)
                   PROVE  s[n].src <= s[n + (d + 1)].src
      OBVIOUS
    <3> DEFINE m == n + (d + 1)
    <3>2. m \in 2 .. Len(s) /\ m - 1 = n + d /\ m \in 1 .. Len(s) /\ n + d \in 1 .. Len(s) /\ n + d <= Len(s)
      BY <1>2, <1>9, <3>1
    <3>3. s[m - 1].src <= s[m].src
      BY <3>2 DEF SourceOrder
    <3>4. s[n].src <= s[n + d].src
      BY <2>3, <3>2
    <3>5. s[n].src \in Nat /\ s[n + d].src \in Nat /\ s[m].src \in Nat
      BY <2>1, <3>2
    <3> HIDE DEF m
    <3>6. s[n].src <= s[m].src
      BY <3>2, <3>3, <3>4, <3>5
    <3>7. QED BY <3>6 DEF m
  <2>4. \A d \in Nat : d \in A
    <3> HIDE DEF A
    <3>1. QED BY <2>2, <2>3, AllNumbers
  <2>5. ASSUME NEW k \in 1 .. Len(s), n < k
        PROVE  s[n].src <= s[k].src
    <3>1. k - n \in Nat /\ n + (k - n) = k /\ k <= Len(s)
      BY <1>2, <1>9, <2>5
    <3>2. k - n \in A
      <4> HIDE DEF A
      <4>1. QED BY <2>4, <3>1
    <3>3. n + (k - n) <= Len(s) => s[n].src <= s[n + (k - n)].src
      BY <3>2
    <3>4. QED BY <3>1, <3>3
  <2>6. QED BY <2>5
<1>15. \A n \in 1 .. Len(s), k \in 1 .. Len(s) : n < k => s[n].src <= s[k].src
  BY <1>14
<1>16. QED BY <1>2, <1>8, <1>9, <1>12, <1>13, <1>15 DEF BySource

-----------------------------------------------------------------------------
(* What is said of the file stays true as long as the file and its matches   *)
(* stay what they are.                                                       *)

LEMMA SameFile ==
  ASSUME UNCHANGED given
  PROVE  /\ File' <=> File
         /\ NumBlocks' = NumBlocks /\ Data' = Data
         /\ (LzKept' <=> LzKept) \/ lz_matches' # lz_matches
<1>1. NumBlocks' = NumBlocks
  BY DEF given, NumBlocks
<1>2. Data' = Data
  BY DEF given, Data, IsLiteral
<1>3. File' <=> File
  BY DEF given, File, GivenKept, MatchesKept, MatchFits, BlockEnd
<1>4. lz_matches' = lz_matches => (LzKept' <=> LzKept)
  BY DEF given, LzKept, BySource
<1>5. QED BY <1>1, <1>2, <1>3, <1>4

LEMMA SameBlock ==
  ASSUME UNCHANGED given, NEW b
  PROVE  End(b)' = End(b) /\ Statbuf(b)' = Statbuf(b) /\ InBlock(b)' = InBlock(b)
<1>1. End(b)' = End(b)
  BY DEF given, End
<1>2. InBlock(b)' = InBlock(b)
  BY DEF given, InBlock, Before
<1>3. Statbuf(b)' = Statbuf(b)
  BY <1>2 DEF given, Statbuf
<1>4. QED BY <1>1, <1>2, <1>3

LEMMA SameRight ==
  ASSUME UNCHANGED given, NEW b, NEW o
  PROVE  (Right(b, o)' <=> Right(b, o)) /\ (FileRight(b, o)' <=> FileRight(b, o))
<1>1. Data' = Data /\ NumBlocks' = NumBlocks
  BY SameFile
<1>2. End(b)' = End(b) /\ End(b - 1)' = End(b - 1)
  BY SameBlock
<1>3. Right(b, o)' <=> Right(b, o)
  BY <1>1, <1>2 DEF Right, Start
<1>4. FileRight(b, o)' <=> FileRight(b, o)
  BY <1>1, <1>2 DEF FileRight
<1>5. QED BY <1>3, <1>4

LEMMA SamePieces ==
  ASSUME UNCHANGED given, NEW b
  PROVE  PiecesOf(b)' = PiecesOf(b) /\ AllPieces' = AllPieces
<1>1. ASSUME NEW c
      PROVE  PiecesOf(c)' = PiecesOf(c)
  <2>1. matches' = matches
    BY DEF given
  <2>2. ASSUME NEW m
        PROVE  Piece(m, c)' = Piece(m, c) /\ (Touches(m, c)' <=> Touches(m, c))
    BY SameBlock DEF Piece, Touches, Start
  <2>3. QED BY <2>1, <2>2 DEF PiecesOf
<1>2. NumBlocks' = NumBlocks
  BY SameFile
<1>3. QED BY <1>1, <1>2 DEF AllPieces

LEMMA SameHeap ==
  ASSUME UNCHANGED given, NEW h, NEW b
  PROVE  HeapFor(h, b)' <=> HeapFor(h, b)
<1>1. AllPieces' = AllPieces /\ Data' = Data
  BY SamePieces, SameFile
<1>2. ASSUME NEW q
      PROVE  Held(q, b)' = Held(q, b) /\ (WaitsFor(q, b)' <=> WaitsFor(q, b))
  BY <1>1 DEF Held, Bytes, WaitsFor, Start
<1>3. QED BY <1>1, <1>2 DEF HeapFor, Pending

LEMMA SameList ==
  ASSUME UNCHANGED given, NEW b, NEW w
  PROVE  ListOf(b, w)' <=> ListOf(b, w)
<1>1. PiecesOf(b)' = PiecesOf(b) /\ NumBlocks' = NumBlocks
  BY SamePieces, SameFile
<1>2. ASSUME NEW ps
      PROVE  (PieceSeq(b, ps)' <=> PieceSeq(b, ps)) /\ PieceList(ps, b)' = PieceList(ps, b)
  <2>1. PieceSeq(b, ps)' <=> PieceSeq(b, ps)
    BY <1>1 DEF PieceSeq
  <2>2. FUTURELZ_BASE_LEN' = FUTURELZ_BASE_LEN
    BY DEF given, FUTURELZ_BASE_LEN
  <2>3. PieceList(ps, b)' = PieceList(ps, b)
    BY <2>2 DEF PieceList, Start
  <2>4. QED BY <2>1, <2>3
<1>3. QED BY <1>2 DEF ListOf

LEMMA SameCount ==
  ASSUME UNCHANGED given, NEW b, NEW p
  PROVE  LitCount(b, p)' = LitCount(b, p)
BY DEF given, LitCount, Prefix, PrefixAt, IsLiteral, Start, End

LEMMA SameIO ==
  ASSUME UNCHANGED <<given, blk>>, NEW k, NEW s, NEW o, NEW u
  PROVE  IOAt(k, s, o, u)' <=> IOAt(k, s, o, u)
<1>1. UNCHANGED given /\ blk' = blk /\ round' = round
  BY DEF given
<1>2. PICK b : b = blk
  OBVIOUS
<1>3. OwnLeft(b, k, s)' <=> OwnLeft(b, k, s)
  BY <1>1, SameBlock DEF OwnLeft
<1>4. Right(b, o)' <=> Right(b, o)
  BY <1>1, SameRight
<1>5. InBlock(b)' = InBlock(b) /\ \A p : LitCount(b, p)' = LitCount(b, p)
  BY <1>1, SameBlock, SameCount
<1> DEFINE At == /\ OwnLeft(b, k, s) /\ Right(b, o)
                 /\ Start(b) + Len(o) = EndOf(b, InBlock(b), k)
                 /\ u = LitCount(b, Start(b) + Len(o))
<1>6. At' <=> At
  BY <1>3, <1>4, <1>5 DEF EndOf, Start
<1>7. IOAt(k, s, o, u) <=> At
  BY <1>2 DEF IOAt
<1>8. IOAt(k, s, o, u)' <=> At'
  BY <1>1, <1>2 DEF IOAt
<1>9. QED BY <1>6, <1>7, <1>8

LEMMA SameFuture ==
  ASSUME UNCHANGED <<given, blk>>, NEW h, NEW o, NEW u
  PROVE  FutureAt(h, o, u)' <=> FutureAt(h, o, u)
<1>1. UNCHANGED given /\ blk' = blk
  OBVIOUS
<1>2. PICK b : b = blk
  OBVIOUS
<1>3. AllPieces' = AllPieces /\ Data' = Data /\ End(b)' = End(b)
  BY <1>1, SamePieces, SameFile, SameBlock
<1>4. Right(b, o)' <=> Right(b, o)
  BY <1>1, SameRight
<1>5. \A p : LitCount(b, p)' = LitCount(b, p)
  BY <1>1, SameCount
<1>6. ASSUME NEW p
      PROVE  (Whole(p)' <=> Whole(p)) /\ (HeapIn(h, b, p)' <=> HeapIn(h, b, p))
  <2>1. Whole(p)' <=> Whole(p)
    BY <1>3 DEF Whole
  <2>2. ASSUME NEW q
        PROVE  Held(q, b)' = Held(q, b) /\ (WaitsIn(q, b, p)' <=> WaitsIn(q, b, p))
    BY <1>3 DEF Held, Bytes, WaitsIn, Start
  <2>3. HeapIn(h, b, p)' <=> HeapIn(h, b, p)
    BY <1>3, <2>2 DEF HeapIn, Pending
  <2>4. QED BY <2>1, <2>3
<1> DEFINE At == /\ Right(b, o) /\ u = LitCount(b, Start(b) + Len(o))
                 /\ Whole(Start(b) + Len(o)) /\ HeapIn(h, b, Start(b) + Len(o))
<1>7. At' <=> At
  BY <1>4, <1>5, <1>6 DEF Start
<1>8. FutureAt(h, o, u) <=> At
  BY <1>2 DEF FutureAt
<1>9. FutureAt(h, o, u)' <=> At'
  BY <1>1, <1>2 DEF FutureAt
<1>10. QED BY <1>7, <1>8, <1>9

-----------------------------------------------------------------------------
(* The inductive invariant.                                                  *)

BlockPhases == {"copyIO", "written", "insert", "copy", "future"}

PhaseKept ==
  /\ phase \in {"find", "sort", "encode", "read", "done", "overflow", "refused"} \union BlockPhases
  /\ phase \in {"copyIO", "written"} => format = "io"
  /\ phase \in {"sort", "encode", "insert", "copy", "future"} => format # "io"
  /\ blk \in Nat /\ blk >= 1 /\ blk <= NumBlocks + 1
  /\ phase \in BlockPhases => blk <= NumBlocks
  /\ phase \in {"find", "sort", "encode"} => blk = 1 /\ heap = {} /\ file = <<>>
  /\ phase \in {"find", "sort"} => stats = <<>> /\ i = 1
  /\ phase = "read" /\ format = "index" => blk = 1
  /\ phase = "done" => blk = NumBlocks + 1

\* The lists of all blocks are the ones the decoder needs
Listed ==
  IF format = "io" THEN stats = [b \in 1 .. NumBlocks |-> Statbuf(b)]
  ELSE /\ stats \in Seq(Seq(Nat)) /\ Len(stats) = NumBlocks
       /\ \A b \in 1 .. NumBlocks : ListOf(b, stats[b])

\* The second pass has come to the block after the last list
Encoded ==
  /\ LzKept /\ Passed(Len(stats) + 1)
  /\ stats \in Seq(Seq(Nat)) /\ Len(stats) < NumBlocks
  /\ \A b \in 1 .. Len(stats) : ListOf(b, stats[b])

ListsKept ==
  /\ phase = "encode" => Encoded
  /\ phase \in {"read"} \union BlockPhases => Listed

OutKept ==
  /\ FileRight(blk, file)
  /\ phase \in {"find", "sort", "encode", "read", "insert", "done", "overflow", "refused"} =>
       out = <<>> /\ used = 0
  /\ phase = "copyIO" => \E k : IOAt(k, stat, out, used)
  /\ phase = "written" => Right(blk, out) /\ Len(out) = End(blk) - Start(blk)
  /\ phase \in {"copy", "future"} => FutureAt(heap, out, used)
  /\ phase = "future" => Len(out) = End(blk) - Start(blk)

HeapKept ==
  /\ format = "io" => heap = {}
  /\ phase \in {"read", "insert"} /\ format # "io" => HeapFor(heap, blk)
  /\ phase \in {"insert", "copy", "future"} => ListOf(blk, stat)

IInv == File /\ PhaseKept /\ ListsKept /\ OutKept /\ HeapKept

LEMMA FirstBlock ==
  ASSUME File
  PROVE  FileRight(1, <<>>) /\ HeapFor({}, 1)
<1>1. Start(1) = 0 /\ Start(0 + 1) = 0
  BY StartIs
<1>2. GivenKept /\ total \in Nat
  BY DEF File, GivenKept
<1>3. End(0) = 0
  BY <1>1, <1>2, EndIs
<1>4. 1 - 1 = 0 /\ <<>> \in Seq(Nat) /\ Len(<<>>) = 0
  BY EmptySeq
<1> DEFINE f == <<>>
<1>5. f \in Seq(Nat) /\ Len(f) = 0
  BY <1>4
<1> HIDE DEF f
<1>6. \A n \in 1 .. Len(f) : FALSE
  BY <1>5
<1>7. FileRight(1, f)
  BY <1>3, <1>4, <1>5, <1>6 DEF FileRight
<1>8. ASSUME NEW q \in AllPieces
      PROVE  ~WaitsFor(q, 1)
  <2>1. q.src \in Nat
    BY PieceBounds
  <2>2. QED BY <1>1, <2>1 DEF WaitsFor
<1>9. QED BY <1>7, <1>8 DEF HeapFor, f

LEMMA InitInv ==
  ASSUME IndexIsOneBlock
  PROVE  Init => IInv
<1> SUFFICES ASSUME Init
             PROVE  IInv
  OBVIOUS
<1>1. PICK c \in Cases : format = c.format /\ round = c.round /\ total = c.total
  BY DEF Init
<1>2. GivenKept
  <2>1. /\ c \in [format : Formats, round : BOOLEAN, total : Nat \ {0}]
        /\ c.total <= StatValues * StatValues
        /\ c.round => c.total <= StatValues * BASE_LEN
    <3>1. Cases \subseteq [format : Formats, round : BOOLEAN, total : Nat \ {0}]
      BY ArchiveAssumption
    <3>2. \A d \in Cases : /\ d.total <= StatValues * StatValues
                           /\ d.round => d.total <= StatValues * BASE_LEN
      BY ArchiveAssumption
    <3>3. QED BY <3>1, <3>2, Zenon
  <2>2. c.format = "index" => c.total <= BlockSize
    BY DEF IndexIsOneBlock
  <2>3. c.format \in Formats /\ c.round \in BOOLEAN /\ c.total \in Nat /\ c.total # 0
    BY <2>1
  <2>4. total \in Nat /\ total >= 1
    BY <1>1, <2>3
  <2>5. QED BY <1>1, <2>1, <2>2, <2>3, <2>4 DEF GivenKept
<1>3. MatchesKept
  BY EmptySeq DEF Init, MatchesKept
<1>4. NumBlocks \in Nat /\ NumBlocks >= 1
  BY <1>2, BlocksAre
<1>5. PhaseKept
  BY <1>4 DEF PhaseKept, Init, BlockPhases
<1>6. ListsKept
  BY DEF ListsKept, Init, BlockPhases
<1>7. OutKept
  BY <1>2, <1>3, FirstBlock DEF OutKept, Init, File
<1>8. HeapKept
  BY DEF HeapKept, Init
<1>9. QED BY <1>2, <1>3, <1>5, <1>6, <1>7, <1>8 DEF IInv, File

LEMMA FindMatchInv == IInv /\ FindMatch => IInv'
<1> SUFFICES ASSUME IInv, FindMatch
             PROVE  IInv'
  OBVIOUS
<1>1. File /\ PhaseKept /\ OutKept
  BY DEF IInv
<1>2. PICK dest \in {p \in LastEnd .. total - 1 : p > 0} :
        \E src \in 0 .. dest - 1, len \in BASE_LEN .. BlockEnd(dest) - dest :
          /\ round => src % BASE_LEN = 0 /\ len % BASE_LEN = 0
          /\ matches' = Append(matches, [src |-> src, dest |-> dest, len |-> len])
  BY DEF FindMatch
<1>3. PICK src \in 0 .. dest - 1, len \in BASE_LEN .. BlockEnd(dest) - dest :
          /\ round => src % BASE_LEN = 0 /\ len % BASE_LEN = 0
          /\ matches' = Append(matches, [src |-> src, dest |-> dest, len |-> len])
  BY <1>2
<1> DEFINE m == [src |-> src, dest |-> dest, len |-> len]
           N == Len(matches)
<1>4. GivenKept /\ MatchesKept /\ total \in Nat /\ matches \in Seq(Match) /\ N \in Nat
  BY <1>1, LenProperties DEF File, GivenKept, MatchesKept
<1>5. LastEnd \in Nat /\ \A n \in 1 .. N : matches[n].dest + matches[n].len <= LastEnd
  <2>1. CASE matches = <<>>
    <3>1. LastEnd = 0 /\ N = 0
      BY <2>1 DEF LastEnd
    <3>2. QED BY <3>1
  <2>2. CASE matches # <<>>
    <3>1. N \in 1 .. N /\ N >= 1
      BY <1>4, <2>2
    <3>2. LastEnd = matches[N].dest + matches[N].len
      BY <2>2 DEF LastEnd, Last
    <3>3. ASSUME NEW n \in 1 .. N
          PROVE  matches[n].dest \in Nat /\ matches[n].len \in Nat
      <4>1. matches[n] \in Match
        BY <1>4, ElementOfSeq
      <4>2. QED BY <4>1 DEF Match
    <3>4. ASSUME NEW n \in 1 .. N
          PROVE  matches[n].dest + matches[n].len <= matches[N].dest + matches[N].len
      <4>1. CASE n = N
        BY <3>1, <3>3, <4>1
      <4>2. CASE n # N
        <5>1. n < N
          BY <1>4, <4>2
        <5>2. matches[n].dest + matches[n].len <= matches[N].dest
          BY <1>4, <3>1, <5>1 DEF MatchesKept
        <5>3. QED BY <3>1, <3>3, <5>2
      <4>3. QED BY <4>1, <4>2
    <3>5. QED BY <3>1, <3>2, <3>3, <3>4
  <2>3. QED BY <2>1, <2>2
<1>6. dest \in Nat /\ LastEnd <= dest /\ dest < total /\ dest > 0
  BY <1>4, <1>5
<1>7. src \in Nat /\ src < dest
  BY <1>6
<1>8. BlockEnd(dest) \in Nat
  <2>1. PICK b : b \in 1 .. NumBlocks /\ BlockEnd(dest) = End(b)
    BY <1>4, <1>6, BlockOf
  <2>2. QED BY <1>4, <2>1, BlockIs
<1>9. len \in Nat /\ len >= BASE_LEN /\ dest + len <= BlockEnd(dest)
  BY <1>6, <1>8, Constants
<1>10. m \in Match
  BY <1>6, <1>7, <1>9 DEF Match
<1>11. MatchFits(m)
  BY <1>3, <1>6, <1>7, <1>9 DEF MatchFits
<1>12. matches' = Append(matches, m)
  BY <1>3
<1>13. m.dest = dest /\ LastEnd <= m.dest
  BY <1>6
<1> HIDE DEF m
<1>14. PICK t : t = Append(matches, m)
  OBVIOUS
<1>15. /\ t \in Seq(Match) /\ Len(t) = N + 1 /\ t[N + 1] = m
       /\ \A n \in 1 .. N : t[n] = matches[n]
  BY <1>4, <1>10, <1>14, AppendProperties
<1>16. \A n \in 1 .. Len(t) : n \in 1 .. N \/ n = N + 1
  BY <1>4, <1>15
<1>17. UNCHANGED <<format, round, total, phase, encoder, decoder>>
  BY DEF FindMatch
<1>18. \A n \in 1 .. Len(t) : MatchFits(t[n])
  BY <1>4, <1>11, <1>15, <1>16 DEF MatchesKept
<1>19. \A n \in 1 .. Len(t), k \in 1 .. Len(t) : n < k => t[n].dest + t[n].len <= t[k].dest
  <2>1. SUFFICES ASSUME NEW n \in 1 .. Len(t), NEW k \in 1 .. Len(t), n < k
                 PROVE  t[n].dest + t[n].len <= t[k].dest
    OBVIOUS
  <2>2. n \in 1 .. N /\ n \in Nat
    BY <1>4, <1>15, <2>1
  <2>3. t[n] = matches[n] /\ matches[n] \in Match
    BY <1>4, <1>15, <2>2, ElementOfSeq
  <2>4. CASE k \in 1 .. N
    <3>1. t[k] = matches[k]
      BY <1>15, <2>4
    <3>2. QED BY <1>4, <2>1, <2>2, <2>3, <2>4, <3>1 DEF MatchesKept
  <2>5. CASE k = N + 1
    <3>1. t[k] = m /\ matches[n].dest + matches[n].len <= LastEnd
      BY <1>5, <1>15, <2>2, <2>5
    <3>2. matches[n].dest \in Nat /\ matches[n].len \in Nat /\ m.dest \in Nat
      BY <1>6, <1>13, <2>3 DEF Match
    <3>3. QED BY <1>5, <1>13, <2>3, <3>1, <3>2
  <2>6. QED BY <1>16, <2>4, <2>5
<1>20. matches' = t
  BY <1>12, <1>14
<1>21. MatchesKept'
  <2>1. ASSUME NEW x
        PROVE  MatchFits(x)' <=> MatchFits(x)
    BY <1>17 DEF MatchFits, BlockEnd
  <2>2. QED BY <1>15, <1>18, <1>19, <1>20, <2>1 DEF MatchesKept
<1>22. GivenKept'
  BY <1>4, <1>17 DEF GivenKept
<1>23. File'
  BY <1>21, <1>22 DEF File
<1>24. /\ phase' = "find" /\ blk' = 1 /\ heap' = {} /\ file' = <<>> /\ stats' = <<>> /\ i' = 1
       /\ out' = <<>> /\ used' = 0
  BY <1>1, <1>17 DEF FindMatch, encoder, decoder, PhaseKept, OutKept
<1>25. NumBlocks' = NumBlocks /\ NumBlocks \in Nat /\ NumBlocks >= 1
  BY <1>4, <1>17, BlocksAre DEF NumBlocks
<1>26. PhaseKept'
  BY <1>24, <1>25 DEF PhaseKept, BlockPhases
<1>27. ListsKept'
  BY <1>24 DEF ListsKept, BlockPhases
<1>28. OutKept'
  <2>1. (FileRight(1, <<>>))'
    <3>1. ASSUME File' PROVE (FileRight(1, <<>>))'
      BY <3>1, FirstBlock, PTL
    <3>2. QED BY <1>23, <3>1
  <2>2. QED BY <1>24, <2>1 DEF OutKept
<1>29. HeapKept'
  BY <1>24 DEF HeapKept
<1>30. QED BY <1>23, <1>26, <1>27, <1>28, <1>29 DEF IInv

\* With the file the number of its blocks stays
LEMMA KeptFile ==
  ASSUME IInv, UNCHANGED given
  PROVE  /\ File /\ File' /\ GivenKept /\ format' = format
         /\ NumBlocks' = NumBlocks /\ NumBlocks \in Nat /\ NumBlocks >= 1
<1>1. File /\ GivenKept /\ format' = format
  BY DEF IInv, File, given
<1>2. (File' <=> File) /\ NumBlocks' = NumBlocks
  BY SameFile
<1>3. QED BY <1>1, <1>2, BlocksAre

LEMMA ListedSame ==
  ASSUME UNCHANGED <<given, stats>>, Listed
  PROVE  Listed'
<1>1. UNCHANGED given /\ stats' = stats /\ format' = format
  BY DEF given
<1>2. PICK s : s = stats
  OBVIOUS
<1>3. NumBlocks' = NumBlocks
  BY <1>1, SameFile
<1>4. \A b : Statbuf(b)' = Statbuf(b)
  BY <1>1, SameBlock
<1>5. \A b, w : ListOf(b, w)' <=> ListOf(b, w)
  BY <1>1, SameList
<1>6. CASE format = "io"
  BY <1>1, <1>3, <1>4, <1>6 DEF Listed
<1>7. CASE format # "io"
  <2>1. s \in Seq(Seq(Nat)) /\ Len(s) = NumBlocks /\ \A b \in 1 .. NumBlocks : ListOf(b, s[b])
    BY <1>2, <1>7 DEF Listed
  <2>2. \A b \in 1 .. NumBlocks : ListOf(b, s[b])'
    BY <1>5, <2>1
  <2>3. s' = s /\ stats' = s
    BY <1>1, <1>2
  <2>4. QED BY <1>1, <1>3, <1>7, <2>1, <2>2, <2>3 DEF Listed
<1>8. QED BY <1>6, <1>7

LEMMA FirstPassEndsInv == IInv /\ FirstPassEnds => IInv'
<1> SUFFICES ASSUME IInv, FirstPassEnds
             PROVE  IInv'
  OBVIOUS
<1>1. UNCHANGED <<given, lz_matches, i, eheap, ram, rams, decoder>> /\ phase = "find"
  BY DEF FirstPassEnds
<1>2. UNCHANGED given /\ UNCHANGED <<blk, stat, heap, out, used, file, i>>
  BY <1>1 DEF decoder
<1>3. /\ File /\ File' /\ GivenKept /\ format' = format
      /\ NumBlocks' = NumBlocks /\ NumBlocks \in Nat /\ NumBlocks >= 1
  BY <1>2, KeptFile
<1>4. /\ blk' = 1 /\ heap' = {} /\ file' = <<>> /\ stats = <<>> /\ i' = 1 /\ out' = <<>> /\ used' = 0
  BY <1>1, <1>2 DEF IInv, PhaseKept, OutKept
<1>5. /\ format = "io" => phase' = "read" /\ stats' = [b \in 1 .. NumBlocks |-> Statbuf(b)]
      /\ format # "io" => phase' = "sort" /\ stats' = <<>>
  BY <1>4 DEF FirstPassEnds
<1>6. PhaseKept'
  BY <1>3, <1>4, <1>5 DEF PhaseKept, BlockPhases
<1>7. ListsKept'
  <2>1. CASE format = "io"
    <3>1. \A b : Statbuf(b)' = Statbuf(b)
      BY <1>2, SameBlock
    <3>2. Listed'
      BY <1>3, <1>5, <2>1, <3>1 DEF Listed
    <3>3. QED BY <1>5, <2>1, <3>2 DEF ListsKept
  <2>2. CASE format # "io"
    BY <1>5, <2>2 DEF ListsKept, BlockPhases
  <2>3. QED BY <2>1, <2>2
<1>8. FileRight(1, <<>>)'
  BY <1>2, <1>3, FirstBlock, SameRight
<1>9. phase' \in {"read", "sort"}
  BY <1>5
<1>10. OutKept'
  BY <1>4, <1>8, <1>9 DEF OutKept
<1>11. HeapKept'
  BY <1>3, <1>4, <1>5 DEF HeapKept
<1>12. QED BY <1>3, <1>6, <1>7, <1>10, <1>11 DEF IInv

LEMMA SortMatchesInv == IInv /\ SortMatches => IInv'
<1> SUFFICES ASSUME IInv, SortMatches
             PROVE  IInv'
  OBVIOUS
<1>1. UNCHANGED <<given, i, stats, eheap, ram, rams, decoder>> /\ phase = "sort" /\ phase' = "encode"
  BY DEF SortMatches
<1>2. UNCHANGED given /\ UNCHANGED <<blk, stat, heap, out, used, file, i, stats>>
  BY <1>1 DEF decoder
<1>3. /\ File /\ File' /\ GivenKept /\ format' = format
      /\ NumBlocks' = NumBlocks /\ NumBlocks \in Nat /\ NumBlocks >= 1
  BY <1>2, KeptFile
<1>4. /\ format # "io" /\ blk' = 1 /\ heap' = {} /\ file' = <<>> /\ stats' = <<>> /\ i' = 1
      /\ out' = <<>> /\ used' = 0
  BY <1>1, <1>2 DEF IInv, PhaseKept, OutKept
<1>5. PICK p \in Bijection(DOMAIN Collected, DOMAIN Collected) :
        /\ \A m \in 2 .. Len(Sorted(Collected, p)) :
             Sorted(Collected, p)[m - 1].src <= Sorted(Collected, p)[m].src
        /\ lz_matches' = Sorted(Collected, p)
  BY DEF SortMatches, Sorted
<1>6. PICK s : s = Sorted(Collected, p)
  OBVIOUS
<1>7. BySource(s)
  <2>1. SourceOrder(s)
    BY <1>5, <1>6 DEF SourceOrder
  <2>2. QED BY <1>3, <1>6, <2>1, SortedIs
<1>8. lz_matches' = s /\ matches' = matches
  BY <1>1, <1>5, <1>6 DEF given
<1>9. LzKept'
  BY <1>7, <1>8 DEF LzKept, BySource
<1>10. Encoded'
  <2> DEFINE t == <<>>
  <2>1. t \in Seq(Seq(Nat)) /\ Len(t) = 0 /\ stats' = t
    BY <1>4, EmptySeq
  <2> HIDE DEF t
  <2>2. \A n \in 1 .. Len(s) : ~(n < 1)
    BY <1>7 DEF BySource
  <2>3. Passed(Len(stats) + 1)'
    BY <1>4, <1>8, <2>2 DEF Passed
  <2>4. \A b \in 1 .. Len(t) : FALSE
    BY <2>1
  <2>5. QED BY <1>3, <1>9, <2>1, <2>3, <2>4 DEF Encoded
<1>11. PhaseKept'
  BY <1>1, <1>3, <1>4 DEF PhaseKept, BlockPhases
<1>12. ListsKept'
  BY <1>1, <1>10 DEF ListsKept, BlockPhases
<1>13. FileRight(1, <<>>)'
  BY <1>2, <1>3, FirstBlock, SameRight
<1>14. OutKept'
  BY <1>1, <1>4, <1>13 DEF OutKept
<1>15. HeapKept'
  BY <1>1, <1>3, <1>4 DEF HeapKept
<1>16. QED BY <1>3, <1>11, <1>12, <1>14, <1>15 DEF IInv

LEMMA EncodeBlockInv == IInv /\ EncodeBlock => IInv'
<1> SUFFICES ASSUME IInv, EncodeBlock
             PROVE  IInv'
  OBVIOUS
<1> DEFINE b == Len(stats) + 1
<1>1. UNCHANGED <<given, lz_matches, decoder>> /\ phase = "encode" /\ Len(stats) < NumBlocks
  BY DEF EncodeBlock
<1>2. UNCHANGED given /\ UNCHANGED <<blk, stat, heap, out, used, file, lz_matches>>
  BY <1>1 DEF decoder
<1>3. /\ File /\ File' /\ GivenKept /\ format' = format
      /\ NumBlocks' = NumBlocks /\ NumBlocks \in Nat /\ NumBlocks >= 1
  BY <1>2, KeptFile
<1>4. /\ format # "io" /\ blk' = 1 /\ heap' = {} /\ file' = <<>> /\ out' = <<>> /\ used' = 0
  BY <1>1, <1>2 DEF IInv, PhaseKept, OutKept
<1>5. Encoded
  BY <1>1 DEF IInv, ListsKept
<1>6. /\ stats' = Append(stats, PieceList(Pieces(b), b)) /\ i' = SavedI(b)
      /\ phase' = IF Len(stats) + 1 = NumBlocks THEN "read" ELSE "encode"
  BY DEF EncodeBlock
<1>7. LzKept /\ stats \in Seq(Seq(Nat)) /\ Len(stats) \in Nat /\ Passed(b)
  BY <1>5, LenProperties DEF Encoded
<1>8. b \in 1 .. NumBlocks /\ b \in Nat
  BY <1>1, <1>3, <1>7
<1>9. PieceSeq(b, Pieces(b))
  BY <1>3, <1>7, <1>8, PiecesAre
<1> DEFINE w == PieceList(Pieces(b), b)
<1>10. ListOf(b, w)
  BY <1>9 DEF ListOf
<1>11. w \in Seq(Nat)
  <2>1. FUTURELZ_BASE_LEN = 0
    BY <1>4 DEF FUTURELZ_BASE_LEN
  <2>2. PICK t, f, B : ListForm(t, f, B) /\ t = TRUE /\ f = FALSE /\ B = FUTURELZ_BASE_LEN
    BY <2>1 DEF ListForm
  <2>3. ListTypes(t, f, B, Pieces(b), Start(b))
    BY <1>3, <1>9, <2>2, PieceListFits
  <2>4. EncodeList(Pieces(b), t, f, B, Start(b)) \in Seq(Nat)
    BY <2>3, ListWords
  <2>5. w = EncodeList(Pieces(b), t, f, B, Start(b))
    BY <2>2 DEF PieceList
  <2>6. QED BY <2>4, <2>5
<1>12. PICK c, v : c = b /\ v = w
  OBVIOUS
<1>13. PICK t : t = Append(stats, v)
  OBVIOUS
<1>14. stats' = t
  BY <1>6, <1>12, <1>13
<1> HIDE DEF w
<1>15. /\ t \in Seq(Seq(Nat)) /\ Len(t) = Len(stats) + 1 /\ t[Len(t)] = v
       /\ \A n \in 1 .. Len(stats) : t[n] = stats[n]
  BY <1>7, <1>11, <1>12, <1>13, AppendProperties
<1>16. ASSUME NEW n \in 1 .. Len(t)
       PROVE  ListOf(n, t[n])
  <2>1. CASE n \in 1 .. Len(stats)
    BY <1>5, <1>15, <2>1 DEF Encoded
  <2>2. CASE n = Len(t)
    <3>1. n = b
      BY <1>15, <2>2
    <3>2. QED BY <1>10, <1>12, <1>15, <2>2, <3>1
  <2>3. n \in 1 .. Len(stats) \/ n = Len(t)
    BY <1>7, <1>15
  <2>4. QED BY <2>1, <2>2, <2>3
<1>17. \A n \in 1 .. Len(t) : ListOf(n, t[n])'
  BY <1>2, <1>16, SameList
<1>18. Len(t) = b /\ c \in 1 .. NumBlocks
  BY <1>8, <1>12, <1>15
<1>19. CASE b = NumBlocks
  <2>1. phase' = "read" /\ Len(t) = NumBlocks
    BY <1>6, <1>18, <1>19
  <2>2. Listed'
    BY <1>3, <1>4, <1>14, <1>15, <1>17, <2>1 DEF Listed
  <2>3. PhaseKept'
    <3>1. blk' \in Nat /\ blk' >= 1 /\ blk' <= NumBlocks' + 1
      BY <1>3, <1>4
    <3>2. QED BY <1>3, <1>4, <2>1, <3>1 DEF PhaseKept, BlockPhases
  <2>4. ListsKept'
    BY <2>1, <2>2 DEF ListsKept
  <2>5. FileRight(1, <<>>)' /\ HeapFor({}, 1)'
    BY <1>2, <1>3, FirstBlock, SameRight, SameHeap
  <2>6. OutKept'
    BY <1>4, <2>1, <2>5 DEF OutKept
  <2>7. HeapKept'
    BY <1>4, <2>1, <2>5 DEF HeapKept
  <2>8. QED BY <1>3, <2>3, <2>4, <2>6, <2>7 DEF IInv
<1>20. CASE b # NumBlocks
  <2>1. phase' = "encode" /\ Len(t) < NumBlocks
    BY <1>1, <1>3, <1>6, <1>7, <1>15, <1>20
  <2>2. PICK s : s = SavedI(b)
    OBVIOUS
  <2>3. /\ s \in Nat /\ s >= 1
        /\ \A n \in 1 .. Len(lz_matches) :
             n < s => lz_matches[n].src + lz_matches[n].len <= Start(b + 1)
    BY <1>3, <1>7, <1>8, <2>2, SavedPassed
  <2>4. i' = s /\ lz_matches' = lz_matches /\ Len(stats)' + 1 = b + 1
    BY <1>2, <1>6, <1>14, <1>15, <2>2
  <2>5. Passed(Len(stats) + 1)'
    <3>1. PICK l : l = lz_matches
      OBVIOUS
    <3>2. PICK e : e = b + 1
      OBVIOUS
    <3>3. \A n \in 1 .. Len(l) : n < s => l[n].src + l[n].len <= Start(e)
      BY <2>3, <3>1, <3>2
    <3>4. lz_matches' = l /\ i' = s /\ Len(stats)' + 1 = e
      BY <2>4, <3>1, <3>2
    <3>5. QED BY <2>3, <3>3, <3>4 DEF Passed, Start
  <2>6. LzKept'
    BY <1>2, <1>7, SameFile
  <2>7. Encoded'
    BY <1>3, <1>14, <1>15, <1>17, <2>1, <2>5, <2>6 DEF Encoded
  <2>8. PhaseKept'
    BY <1>3, <1>4, <2>1 DEF PhaseKept, BlockPhases
  <2>9. ListsKept'
    BY <2>1, <2>7 DEF ListsKept, BlockPhases
  <2>10. FileRight(1, <<>>)'
    BY <1>2, <1>3, FirstBlock, SameRight
  <2>11. OutKept'
    BY <1>4, <2>1, <2>10 DEF OutKept
  <2>12. HeapKept'
    BY <1>3, <1>4, <2>1 DEF HeapKept
  <2>13. QED BY <1>3, <2>8, <2>9, <2>11, <2>12 DEF IInv
<1>21. QED BY <1>19, <1>20

\* Nothing is decoded when a block is not written or not taken
LEMMA Stopped ==
  ASSUME IInv, UNCHANGED <<given, blk, heap, out, used, file>>,
         phase \in {"encode", "read"}, phase' \in {"overflow", "refused"}
  PROVE  IInv'
<1>1. UNCHANGED given
  OBVIOUS
<1>2. /\ File /\ File' /\ GivenKept /\ format' = format
      /\ NumBlocks' = NumBlocks /\ NumBlocks \in Nat /\ NumBlocks >= 1
  BY <1>1, KeptFile
<1>3. PhaseKept'
  BY <1>2 DEF IInv, PhaseKept, BlockPhases
<1>4. ListsKept'
  BY DEF ListsKept, BlockPhases
<1>5. PICK b, f : b = blk /\ f = file
  OBVIOUS
<1>6. FileRight(b, f)
  BY <1>5 DEF IInv, OutKept
<1>7. FileRight(b, f)'
  BY <1>1, <1>6, SameRight
<1>8. FileRight(blk, file)'
  BY <1>5, <1>7
<1>9. OutKept'
  BY <1>8 DEF IInv, OutKept
<1>10. HeapKept'
  BY <1>2 DEF IInv, HeapKept
<1>11. QED BY <1>2, <1>3, <1>4, <1>9, <1>10 DEF IInv

LEMMA OverflowStatbufInv == IInv /\ OverflowStatbuf => IInv'
<1> SUFFICES ASSUME IInv, OverflowStatbuf
             PROVE  IInv'
  OBVIOUS
<1>1. UNCHANGED <<given, decoder>> /\ phase = "encode" /\ phase' = "overflow"
  BY DEF OverflowStatbuf
<1>2. UNCHANGED <<given, blk, heap, out, used, file>>
  BY <1>1 DEF decoder
<1>3. QED BY <1>1, <1>2, Stopped

LEMMA LiteralsType ==
  ASSUME File, NEW b \in 1 .. NumBlocks
  PROVE  Literals(b) \in Seq(Nat) /\ Len(Literals(b)) \in Nat
<1>1. Start(b) \in Nat /\ End(b) \in Nat /\ Start(b) < End(b)
  BY BlockIs DEF File
<1>2. End(b) \in Start(b) .. End(b)
  BY <1>1
<1>3. Literals(b) \in Seq(Nat)
  BY <1>2, PrefixType, LiteralsIs
<1>4. QED BY <1>3, LenProperties

\* Index-LZ files have one block
LEMMA IndexBlocks ==
  ASSUME File, format = "index"
  PROVE  NumBlocks = 1
<1>1. total \in Nat /\ total <= BlockSize /\ GivenKept
  BY DEF File, GivenKept
<1>2. NumBlocks \in Nat /\ NumBlocks >= 1 /\ Start(NumBlocks) < total
  BY <1>1, BlocksAre
<1>3. Start(1) = 0 /\ Start(NumBlocks) \in Int /\ BlockSize \in Nat
  BY <1>2, StartIs, Constants
<1>4. CASE 1 < NumBlocks
  <2>1. Start(1) + BlockSize <= Start(NumBlocks)
    BY <1>2, <1>4, StartGrows
  <2>2. QED BY <1>1, <1>2, <1>3, <2>1
<1>5. QED BY <1>2, <1>4

\* All lists of the archive, and the one of a block
LEMMA ListedIs ==
  ASSUME File, Listed
  PROVE  /\ Len(stats) = NumBlocks
         /\ \A b \in 1 .. NumBlocks : IF format = "io" THEN stats[b] = Statbuf(b) ELSE ListOf(b, stats[b])
<1>1. NumBlocks \in Nat
  BY BlocksAre DEF File
<1>2. CASE format = "io"
  <2>1. stats = [b \in 1 .. NumBlocks |-> Statbuf(b)]
    BY <1>2 DEF Listed
  <2>2. \A b \in 1 .. NumBlocks : Statbuf(b) \in Seq(Nat)
    BY OwnWords
  <2> DEFINE s == stats
  <2>3. s \in [1 .. NumBlocks -> Seq(Nat)] /\ DOMAIN s = 1 .. NumBlocks
    BY <2>1, <2>2
  <2> HIDE DEF s
  <2>4. s \in Seq(Seq(Nat))
    BY <1>1, <2>3 DEF Seq
  <2>5. Len(s) = NumBlocks
    BY <1>1, <2>3, <2>4, LenProperties
  <2>6. QED BY <1>2, <2>1, <2>5 DEF s
<1>3. CASE format # "io"
  BY <1>3 DEF Listed
<1>4. QED BY <1>2, <1>3

\* The decoder begins with a block
LEMMA IOStarts ==
  ASSUME File, blk \in 1 .. NumBlocks
  PROVE  IOAt(0, Statbuf(blk), <<>>, 0)
<1>1. OwnLeft(blk, 0, Statbuf(blk))
  BY OwnWords
<1>2. Right(blk, <<>>) /\ LitCount(blk, Start(blk) + Len(<<>>)) = 0 /\ Start(blk) + Len(<<>>) = Start(blk)
  BY NothingDecoded
<1>3. EndOf(blk, InBlock(blk), 0) = Start(blk)
  BY DEF EndOf
<1>4. QED BY <1>1, <1>2, <1>3 DEF IOAt

LEMMA ReadBlockInv == IInv /\ ReadBlock => IInv'
<1> SUFFICES ASSUME IInv, ReadBlock
             PROVE  IInv'
  OBVIOUS
<1>1. UNCHANGED <<given, encoder, blk, heap, out, used, file>> /\ phase = "read"
  BY DEF ReadBlock
<1>2. UNCHANGED given /\ UNCHANGED <<blk, heap, out, used, file, stats>>
  BY <1>1 DEF encoder
<1>3. /\ File /\ File' /\ GivenKept /\ format' = format
      /\ NumBlocks' = NumBlocks /\ NumBlocks \in Nat /\ NumBlocks >= 1
  BY <1>2, KeptFile
<1>4. /\ Listed /\ out = <<>> /\ used = 0 /\ FileRight(blk, file)
      /\ blk \in Nat /\ blk >= 1 /\ blk <= NumBlocks + 1
      /\ format = "index" => blk = 1
      /\ format = "io" => heap = {}
      /\ format # "io" => HeapFor(heap, blk)
  BY <1>1 DEF IInv, PhaseKept, ListsKept, OutKept, HeapKept
<1>5. Len(stats) = NumBlocks
  BY <1>3, <1>4, ListedIs
<1>6. Listed'
  BY <1>2, <1>4, ListedSame
<1>7. PICK b, f, h : b = blk /\ f = file /\ h = heap
  OBVIOUS
<1>8. FileRight(blk, file)'
  <2>1. FileRight(b, f)'
    BY <1>2, <1>4, <1>7, SameRight
  <2>2. blk' = b /\ file' = f
    BY <1>2, <1>7
  <2>3. QED BY <2>1, <2>2
<1>9. format # "io" => HeapFor(heap, blk)'
  <2>1. format # "io" => HeapFor(h, b)'
    BY <1>2, <1>4, <1>7, SameHeap
  <2>2. blk' = b /\ heap' = h
    BY <1>2, <1>7
  <2>3. QED BY <2>1, <2>2
<1>13. CASE blk <= NumBlocks /\ TooLarge(blk)
  <2>1. phase' = "refused"
    BY <1>5, <1>13 DEF ReadBlock
  <2>2. QED BY <1>1, <1>2, <2>1, Stopped
<1>10. CASE blk <= NumBlocks /\ ~TooLarge(blk)
  <2>1. blk \in 1 .. NumBlocks
    BY <1>4, <1>10
  <2>2. /\ stat' = BlockList
        /\ phase' = IF format = "io" THEN "copyIO" ELSE "insert"
    BY <1>5, <1>10 DEF ReadBlock
  <2>3. BlockList = stats[blk]
    BY <1>4 DEF BlockList
  <2>4. PhaseKept'
    BY <1>2, <1>3, <1>4, <1>10, <2>2 DEF PhaseKept, BlockPhases
  <2>5. ListsKept'
    BY <1>6, <2>2 DEF ListsKept, BlockPhases
  <2>6. CASE format = "io"
    <3>1. phase' = "copyIO" /\ stat' = Statbuf(blk)
      BY <1>3, <1>4, <2>1, <2>2, <2>3, <2>6, ListedIs
    <3>2. PICK s : s = Statbuf(blk)
      OBVIOUS
    <3>3. PICK o, u : o = out /\ u = used
      OBVIOUS
    <3>4. IOAt(0, s, o, u)
      BY <1>3, <1>4, <2>1, <3>2, <3>3, IOStarts
    <3>5. IOAt(0, s, o, u)'
      BY <1>2, <3>4, SameIO
    <3>6. stat' = s /\ out' = o /\ used' = u
      BY <1>2, <3>1, <3>2, <3>3
    <3>7. (\E k : IOAt(k, stat, out, used))'
      BY <3>5, <3>6
    <3>8. OutKept'
      BY <1>8, <3>1, <3>7 DEF OutKept
    <3>9. HeapKept'
      BY <1>2, <1>3, <1>4, <2>6, <3>1 DEF HeapKept
    <3>10. QED BY <1>3, <2>4, <2>5, <3>8, <3>9 DEF IInv
  <2>7. CASE format # "io"
    <3>1. phase' = "insert"
      BY <2>2, <2>7
    <3>2. PICK w : w = stats[blk]
      OBVIOUS
    <3>3. ListOf(b, w)
      BY <1>3, <1>4, <1>7, <2>1, <2>7, <3>2, ListedIs
    <3>4. ListOf(b, w)'
      BY <1>2, <3>3, SameList
    <3>5. blk' = b /\ stat' = w
      BY <1>2, <1>7, <2>2, <2>3, <3>2
    <3>6. ListOf(blk, stat)'
      BY <3>4, <3>5
    <3>7. OutKept'
      BY <1>2, <1>4, <1>8, <3>1 DEF OutKept
    <3>8. HeapKept'
      BY <1>3, <1>9, <2>7, <3>1, <3>6 DEF HeapKept
    <3>9. QED BY <1>3, <2>4, <2>5, <3>7, <3>8 DEF IInv
  <2>8. QED BY <2>6, <2>7
<1>11. CASE ~(blk <= NumBlocks)
  <2>1. blk = NumBlocks + 1 /\ format # "index"
    BY <1>3, <1>4, <1>11
  <2>2. heap = {}
    <3>1. CASE format # "io"
      <4>1. HeapFor(heap, NumBlocks + 1)
        BY <1>4, <2>1, <3>1
      <4>2. QED BY <1>3, <4>1, NothingLeft
    <3>2. QED BY <1>4, <3>1
  <2>3. phase' = "done"
    BY <1>5, <1>11, <2>1, <2>2 DEF ReadBlock, EndMark
  <2>4. PhaseKept'
    BY <1>2, <1>3, <1>4, <2>1, <2>3 DEF PhaseKept, BlockPhases
  <2>5. ListsKept'
    BY <2>3 DEF ListsKept, BlockPhases
  <2>6. OutKept'
    BY <1>2, <1>4, <1>8, <2>3 DEF OutKept
  <2>7. HeapKept'
    BY <1>2, <1>3, <2>2, <2>3 DEF HeapKept
  <2>8. QED BY <1>3, <2>4, <2>5, <2>6, <2>7 DEF IInv
<1>12. QED BY <1>10, <1>11, <1>13

\* What stays while a block is decoded
LEMMA BlockKept ==
  ASSUME IInv, UNCHANGED <<given, encoder, blk, file>>, phase \in BlockPhases
  PROVE  /\ File' /\ FileRight(blk, file)' /\ Listed'
         /\ blk \in 1 .. NumBlocks
<1>1. UNCHANGED given /\ UNCHANGED <<blk, file, stats>>
  BY DEF encoder
<1>2. /\ File /\ File' /\ GivenKept /\ format' = format
      /\ NumBlocks' = NumBlocks /\ NumBlocks \in Nat /\ NumBlocks >= 1
  BY <1>1, KeptFile
<1>3. /\ Listed /\ FileRight(blk, file) /\ blk \in Nat /\ blk >= 1 /\ blk <= NumBlocks
  BY DEF IInv, PhaseKept, ListsKept, OutKept
<1>4. Listed'
  BY <1>1, <1>3, ListedSame
<1>5. PICK b, f : b = blk /\ f = file
  OBVIOUS
<1>6. FileRight(b, f)'
  BY <1>1, <1>3, <1>5, SameRight
<1>7. FileRight(blk, file)'
  BY <1>1, <1>5, <1>6
<1>8. QED BY <1>2, <1>3, <1>4, <1>7

LEMMA PhaseStays ==
  ASSUME IInv, UNCHANGED <<given, encoder, blk, file>>, phase \in BlockPhases,
         phase' \in BlockPhases, phase' \in {"copyIO", "written"} <=> format = "io"
  PROVE  PhaseKept' /\ ListsKept'
<1>1. UNCHANGED given /\ blk' = blk
  OBVIOUS
<1>2. /\ format' = format /\ NumBlocks' = NumBlocks /\ NumBlocks \in Nat /\ NumBlocks >= 1
  BY <1>1, KeptFile
<1>3. Listed' /\ blk \in 1 .. NumBlocks
  BY BlockKept
<1>4. ListsKept'
  BY <1>3 DEF ListsKept, BlockPhases
<1>5. blk' \in Nat /\ blk' >= 1 /\ blk' <= NumBlocks' + 1 /\ blk' <= NumBlocks'
  BY <1>1, <1>2, <1>3
<1>6. PhaseKept'
  BY <1>2, <1>5 DEF PhaseKept, BlockPhases
<1>7. QED BY <1>4, <1>6

LEMMA DecodeIOInv == IInv /\ DecodeIO => IInv'
<1> SUFFICES ASSUME IInv, DecodeIO
             PROVE  IInv'
  OBVIOUS
<1>1. UNCHANGED <<given, encoder, blk, heap, file>> /\ phase = "copyIO" /\ stat # <<>>
  BY DEF DecodeIO
<1>2. File /\ format = "io" /\ heap = {} /\ FileRight(blk, file) /\ format' = format
  BY <1>1 DEF IInv, PhaseKept, OutKept, HeapKept, given
<1>3. PICK k : IOAt(k, stat, out, used)
  BY <1>1 DEF IInv, OutKept
<1>4. UNCHANGED <<given, encoder, blk, file>> /\ phase \in BlockPhases
  BY <1>1 DEF BlockPhases
<1>5. File' /\ FileRight(blk, file)' /\ blk \in 1 .. NumBlocks
  BY <1>4, BlockKept
<1>6. PICK m : m = NextRecord
  OBVIOUS
<1>7. /\ m.lit <= Len(Literals(blk)) - used
      /\ m.lit + m.len <= End(blk) - Start(blk) - Len(out)
      /\ m.src < m.dest /\ m.src \in Nat /\ m.dest \in Nat /\ m.lit \in Nat /\ m.len \in Nat
      /\ IOAt(k + 1, SubSeq(stat, StatsPerMatch(ArchiveRounds) + 1, Len(stat)),
              CopyIO(m, out \o NextLiterals(m.lit)), used + m.lit)
  BY <1>1, <1>2, <1>3, <1>6, IOMatch
<1>8. /\ Start(blk) \in Nat /\ End(blk) \in Nat /\ Len(out) \in Nat /\ used \in Nat
      /\ Len(Literals(blk)) \in Nat
  BY <1>2, <1>3, <1>5, IOTypes, LiteralsType
<1>9. ~(\/ m.lit > Len(Literals(blk)) - used
        \/ m.lit + m.len > End(blk) - Start(blk) - Len(out)
        \/ m.src >= m.dest)
  BY <1>7, <1>8
<1>10. /\ out' = CopyIO(m, out \o NextLiterals(m.lit)) /\ used' = used + m.lit
       /\ stat' = SubSeq(stat, StatsPerMatch(ArchiveRounds) + 1, Len(stat))
       /\ phase' = phase
  BY <1>6, <1>9 DEF DecodeIO, NextRecord
<1>11. PICK s, o, u, l :
         /\ s = SubSeq(stat, StatsPerMatch(ArchiveRounds) + 1, Len(stat))
         /\ o = CopyIO(m, out \o NextLiterals(m.lit)) /\ u = used + m.lit /\ l = k + 1
  OBVIOUS
<1>12. IOAt(l, s, o, u)
  BY <1>7, <1>11
<1>13. IOAt(l, s, o, u)'
  BY <1>1, <1>12, SameIO
<1>14. (\E x : IOAt(x, stat, out, used))'
  BY <1>10, <1>11, <1>13
<1>15. PhaseKept' /\ ListsKept'
  BY <1>1, <1>2, <1>4, <1>10, PhaseStays DEF BlockPhases
<1>16. OutKept'
  BY <1>1, <1>5, <1>10, <1>14 DEF OutKept
<1>17. HeapKept'
  BY <1>1, <1>2, <1>10 DEF HeapKept
<1>18. QED BY <1>5, <1>15, <1>16, <1>17 DEF IInv

LEMMA DecodeTailIOInv == IInv /\ DecodeTailIO => IInv'
<1> SUFFICES ASSUME IInv, DecodeTailIO
             PROVE  IInv'
  OBVIOUS
<1>1. UNCHANGED <<given, encoder, blk, stat, heap, used, file>> /\ phase = "copyIO" /\ stat = <<>>
  BY DEF DecodeTailIO
<1>2. File /\ format = "io" /\ heap = {} /\ format' = format
  BY <1>1 DEF IInv, PhaseKept, HeapKept, given
<1>3. PICK k : IOAt(k, stat, out, used)
  BY <1>1 DEF IInv, OutKept
<1>4. UNCHANGED <<given, encoder, blk, file>> /\ phase \in BlockPhases /\ UNCHANGED given
  BY <1>1 DEF BlockPhases
<1>5. File' /\ FileRight(blk, file)' /\ blk \in 1 .. NumBlocks
  BY <1>4, BlockKept
<1>6. PICK rest : rest = Len(Literals(blk)) - used
  OBVIOUS
<1>7. /\ rest = End(blk) - Start(blk) - Len(out)
      /\ Right(blk, out \o NextLiterals(rest))
      /\ Len(out \o NextLiterals(rest)) = End(blk) - Start(blk)
  BY <1>1, <1>2, <1>3, <1>6, IOTail
<1>8. out' = out \o NextLiterals(rest) /\ phase' = "written"
  BY <1>6, <1>7 DEF DecodeTailIO
<1>9. PICK b, o : b = blk /\ o = out \o NextLiterals(rest)
  OBVIOUS
<1>10. Right(b, o)' /\ Len(o) = End(b) - Start(b)
  BY <1>4, <1>7, <1>9, SameRight
<1>11. blk' = b /\ out' = o /\ End(b)' = End(b)
  BY <1>1, <1>4, <1>8, <1>9, SameBlock
<1>12. Right(blk, out)' /\ (Len(out) = End(blk) - Start(blk))'
  <2>1. Right(blk, out)'
    BY <1>10, <1>11
  <2>2. (Len(out) = End(blk) - Start(blk))'
    BY <1>10, <1>11 DEF Start
  <2>3. QED BY <2>1, <2>2
<1>13. PhaseKept' /\ ListsKept'
  BY <1>2, <1>4, <1>8, PhaseStays DEF BlockPhases
<1>14. OutKept'
  BY <1>5, <1>8, <1>12 DEF OutKept
<1>15. HeapKept'
  BY <1>1, <1>2, <1>8 DEF HeapKept
<1>16. QED BY <1>5, <1>13, <1>14, <1>15 DEF IInv

\* The block is as it was and goes to the file
LEMMA DecodedInv ==
  ASSUME IInv, UNCHANGED <<given, encoder>>, phase \in {"written", "future"}, Decoded,
         Right(blk, out), Len(out) = End(blk) - Start(blk),
         NEW h, heap' = h, IF format = "io" THEN h = {} ELSE HeapFor(h, blk + 1)
  PROVE  IInv'
<1>1. UNCHANGED given /\ stats' = stats
  BY DEF encoder
<1>2. /\ File /\ File' /\ GivenKept /\ format' = format
      /\ NumBlocks' = NumBlocks /\ NumBlocks \in Nat /\ NumBlocks >= 1
  BY <1>1, KeptFile
<1>3. /\ Listed /\ FileRight(blk, file) /\ blk \in Nat /\ blk >= 1 /\ blk <= NumBlocks
  BY DEF IInv, PhaseKept, ListsKept, OutKept, BlockPhases
<1>4. Start(blk) \in Nat /\ End(blk) \in Nat
  BY <1>2, <1>3, BlockIs
<1>5. ~ \E n \in 1 .. End(blk) - Start(blk) : out[n] # Data[Start(blk) + n - 1]
  BY DEF Right
<1>6. /\ file' = SubSeq(file, 1, Start(blk)) \o out
      /\ blk' = blk + 1 /\ stat' = <<>> /\ out' = <<>> /\ used' = 0
      /\ phase' = IF format = "index" /\ Len(stats) = 1 THEN "done" ELSE "read"
  BY <1>5 DEF Decoded
<1>7. FileRight(blk + 1, SubSeq(file, 1, Start(blk)) \o out)
  BY <1>2, <1>3, FileGrows
<1>8. PICK b, f : b = blk + 1 /\ f = SubSeq(file, 1, Start(blk)) \o out
  OBVIOUS
<1>9. FileRight(b, f)'
  BY <1>1, <1>7, <1>8, SameRight
<1>10. blk' = b /\ file' = f
  BY <1>6, <1>8
<1>11. FileRight(blk, file)'
  BY <1>9, <1>10
<1>12. Len(stats) = NumBlocks
  BY <1>2, <1>3, ListedIs
<1>13. format = "index" => blk = 1 /\ NumBlocks = 1
  BY <1>2, <1>3, IndexBlocks
<1>14. phase' = IF format = "index" THEN "done" ELSE "read"
  BY <1>6, <1>12, <1>13
<1>15. PhaseKept'
  <2>1. blk' \in Nat /\ blk' >= 1 /\ blk' <= NumBlocks' + 1
    BY <1>2, <1>3, <1>6
  <2>2. format = "index" => blk' = NumBlocks' + 1
    BY <1>2, <1>6, <1>13
  <2>3. QED BY <1>2, <1>14, <2>1, <2>2 DEF PhaseKept, BlockPhases
<1>16. ListsKept'
  <2>1. Listed'
    BY <1>1, <1>3, ListedSame
  <2>2. QED BY <1>14, <2>1 DEF ListsKept, BlockPhases
<1>17. OutKept'
  BY <1>6, <1>11, <1>14 DEF OutKept
<1>18. HeapKept'
  <2>1. format # "io" => HeapFor(h, b)'
    BY <1>1, <1>8, SameHeap
  <2>2. format # "io" => HeapFor(heap, blk)'
    BY <1>10, <2>1
  <2>3. QED BY <1>2, <1>14, <2>2 DEF HeapKept
<1>19. QED BY <1>2, <1>15, <1>16, <1>17, <1>18 DEF IInv

LEMMA FinishIOInv == IInv /\ FinishIO => IInv'
<1> SUFFICES ASSUME IInv, FinishIO
             PROVE  IInv'
  OBVIOUS
<1>1. UNCHANGED <<given, encoder, heap>> /\ phase = "written" /\ Decoded
  BY DEF FinishIO
<1>2. format = "io" /\ heap = {} /\ Right(blk, out) /\ Len(out) = End(blk) - Start(blk)
  BY <1>1 DEF IInv, PhaseKept, OutKept, HeapKept
<1>3. PICK h : h = {}
  OBVIOUS
<1>4. heap' = h /\ UNCHANGED <<given, encoder>>
  BY <1>1, <1>2, <1>3
<1>5. QED BY <1>1, <1>2, <1>3, <1>4, DecodedInv

LEMMA InsertMatchesInv == IInv /\ InsertMatches => IInv'
<1> SUFFICES ASSUME IInv, InsertMatches
             PROVE  IInv'
  OBVIOUS
<1>1. UNCHANGED <<given, encoder, blk, stat, out, used, file>> /\ phase = "insert"
  BY DEF InsertMatches
<1>2. /\ File /\ format # "io" /\ format' = format /\ out = <<>> /\ used = 0
      /\ HeapFor(heap, blk) /\ ListOf(blk, stat)
  BY <1>1 DEF IInv, PhaseKept, OutKept, HeapKept, given
<1>3. UNCHANGED <<given, encoder, blk, file>> /\ phase \in BlockPhases /\ UNCHANGED given
  BY <1>1 DEF BlockPhases
<1>4. File' /\ FileRight(blk, file)' /\ blk \in 1 .. NumBlocks
  BY <1>3, BlockKept
<1>5. ~ \E n \in DOMAIN List : BadMatch(List[n], IF n = 1 THEN Start(blk) ELSE List[n - 1].src)
  BY <1>2, ListAccepted
<1>6. /\ heap' = heap \union {Pending(m, NoData) : m \in {k \in ToSet(List) : k.dest < End(blk)}}
      /\ phase' = "copy"
  BY <1>5 DEF InsertMatches
<1>7. PICK h : h = heap \union {Pending(m, NoData) : m \in {k \in ToSet(List) : k.dest < End(blk)}}
  OBVIOUS
<1>8. FutureAt(h, <<>>, 0)
  BY <1>2, <1>7, Inserted
<1>9. PICK o, u, b, w : o = out /\ u = used /\ b = blk /\ w = stat
  OBVIOUS
<1>10. FutureAt(h, o, u)'
  BY <1>1, <1>2, <1>8, <1>9, SameFuture
<1>11. heap' = h /\ out' = o /\ used' = u /\ blk' = b /\ stat' = w
  BY <1>1, <1>6, <1>7, <1>9
<1>12. FutureAt(heap, out, used)'
  BY <1>10, <1>11
<1>13. ListOf(b, w)'
  BY <1>2, <1>3, <1>9, SameList
<1>14. ListOf(blk, stat)'
  BY <1>11, <1>13
<1>15. PhaseKept' /\ ListsKept'
  BY <1>2, <1>3, <1>6, PhaseStays DEF BlockPhases
<1>16. OutKept'
  BY <1>4, <1>6, <1>12 DEF OutKept
<1>17. HeapKept'
  BY <1>2, <1>6, <1>14 DEF HeapKept
<1>18. QED BY <1>4, <1>15, <1>16, <1>17 DEF IInv

LEMMA DecodeMatchInv == IInv /\ DecodeMatch => IInv'
<1> SUFFICES ASSUME IInv, DecodeMatch
             PROVE  IInv'
  OBVIOUS
<1>1. UNCHANGED <<given, encoder, blk, stat, file>> /\ phase = "copy" /\ Due # {}
  BY DEF DecodeMatch
<1>2. /\ File /\ format # "io" /\ format' = format /\ FileRight(blk, file)
      /\ FutureAt(heap, out, used) /\ ListOf(blk, stat)
  BY <1>1 DEF IInv, PhaseKept, OutKept, HeapKept, given
<1>3. UNCHANGED <<given, encoder, blk, file>> /\ phase \in BlockPhases /\ UNCHANGED given
  BY <1>1 DEF BlockPhases
<1>4. File' /\ FileRight(blk, file)' /\ blk \in 1 .. NumBlocks
  BY <1>3, BlockKept
<1>5. PICK m : m = CHOOSE x \in Due : \A n \in Due : x.dest <= n.dest
  OBVIOUS
<1>6. FirstDue(m)
  <2>1. \E x \in Due : \A n \in Due : x.dest <= n.dest
    BY <1>1, <1>2, DueExists DEF FirstDue
  <2>2. QED BY <1>5, <2>1 DEF FirstDue
<1>7. PICK lit : lit = m.dest - Start(blk) - Len(out)
  OBVIOUS
<1>8. /\ lit >= 0 /\ lit \in Nat /\ m.len \in Nat
      /\ used + lit <= Len(Literals(blk)) /\ Len(Literals(blk)) \in Nat
      /\ Len(out) + lit + m.len <= End(blk) - Start(blk)
      /\ FutureAt(heap \ {m}, CopyMatch(m, out \o NextLiterals(lit)), used + lit)
  BY <1>2, <1>6, <1>7, FutureMatch
<1>9. Start(blk) \in Nat /\ End(blk) \in Nat /\ Len(out) \in Nat /\ used \in Nat
  BY <1>2, FutureTypes
<1>10. ~(lit < 0 \/ used + lit > Len(Literals(blk))
           \/ Len(out) + lit + m.len > End(blk) - Start(blk))
  BY <1>8, <1>9
<1>11. /\ out' = CopyMatch(m, out \o NextLiterals(lit)) /\ used' = used + lit
       /\ heap' = heap \ {m} /\ phase' = phase
  BY <1>5, <1>7, <1>10 DEF DecodeMatch
<1>12. PICK h, o, u, b, w : /\ h = heap \ {m} /\ o = CopyMatch(m, out \o NextLiterals(lit))
                            /\ u = used + lit /\ b = blk /\ w = stat
  OBVIOUS
<1>13. FutureAt(h, o, u)'
  BY <1>1, <1>8, <1>12, SameFuture
<1>14. heap' = h /\ out' = o /\ used' = u /\ blk' = b /\ stat' = w
  BY <1>1, <1>11, <1>12
<1>15. FutureAt(heap, out, used)'
  BY <1>13, <1>14
<1>16. ListOf(b, w)'
  BY <1>2, <1>3, <1>12, SameList
<1>17. ListOf(blk, stat)'
  BY <1>14, <1>16
<1>18. PhaseKept' /\ ListsKept'
  BY <1>1, <1>2, <1>3, <1>11, PhaseStays DEF BlockPhases
<1>19. OutKept'
  BY <1>1, <1>4, <1>11, <1>15 DEF OutKept
<1>20. HeapKept'
  BY <1>1, <1>2, <1>11, <1>17 DEF HeapKept
<1>21. QED BY <1>4, <1>18, <1>19, <1>20 DEF IInv

LEMMA DecodeTailInv == IInv /\ DecodeTail => IInv'
<1> SUFFICES ASSUME IInv, DecodeTail
             PROVE  IInv'
  OBVIOUS
<1>1. UNCHANGED <<given, encoder, blk, stat, heap, file>> /\ phase = "copy" /\ Due = {}
  BY DEF DecodeTail
<1>2. /\ File /\ format # "io" /\ format' = format
      /\ FutureAt(heap, out, used) /\ ListOf(blk, stat)
  BY <1>1 DEF IInv, PhaseKept, OutKept, HeapKept, given
<1>3. UNCHANGED <<given, encoder, blk, file>> /\ phase \in BlockPhases /\ UNCHANGED given
  BY <1>1 DEF BlockPhases
<1>4. File' /\ FileRight(blk, file)' /\ blk \in 1 .. NumBlocks
  BY <1>3, BlockKept
<1>5. PICK rest : rest = Len(Literals(blk)) - used
  OBVIOUS
<1>6. /\ rest = End(blk) - Start(blk) - Len(out)
      /\ Len(out \o NextLiterals(rest)) = End(blk) - Start(blk)
      /\ FutureAt(heap, out \o NextLiterals(rest), used + rest)
  BY <1>1, <1>2, <1>5, FutureTail
<1>7. out' = out \o NextLiterals(rest) /\ used' = used + rest /\ phase' = "future"
  BY <1>5, <1>6 DEF DecodeTail
<1>8. PICK h, o, u, b, w : /\ h = heap /\ o = out \o NextLiterals(rest)
                           /\ u = used + rest /\ b = blk /\ w = stat
  OBVIOUS
<1>9. FutureAt(h, o, u)' /\ Len(o) = End(b) - Start(b)
  BY <1>1, <1>6, <1>8, SameFuture
<1>10. heap' = h /\ out' = o /\ used' = u /\ blk' = b /\ stat' = w /\ End(b)' = End(b)
  BY <1>1, <1>3, <1>7, <1>8, SameBlock
<1>11. FutureAt(heap, out, used)'
  BY <1>9, <1>10
<1>12. (Len(out) = End(blk) - Start(blk))'
  BY <1>9, <1>10 DEF Start
<1>13. ListOf(b, w)'
  BY <1>2, <1>3, <1>8, SameList
<1>14. ListOf(blk, stat)'
  BY <1>10, <1>13
<1>15. PhaseKept' /\ ListsKept'
  BY <1>2, <1>3, <1>7, PhaseStays DEF BlockPhases
<1>16. OutKept'
  BY <1>4, <1>7, <1>11, <1>12 DEF OutKept
<1>17. HeapKept'
  BY <1>2, <1>7, <1>14 DEF HeapKept
<1>18. QED BY <1>4, <1>15, <1>16, <1>17 DEF IInv

LEMMA FinishBlockInv == IInv /\ FinishBlock => IInv'
<1> SUFFICES ASSUME IInv, FinishBlock
             PROVE  IInv'
  OBVIOUS
<1>1. UNCHANGED <<given, encoder>> /\ phase = "future" /\ Decoded
  BY DEF FinishBlock
<1>2. /\ File /\ format # "io" /\ FutureAt(heap, out, used) /\ ListOf(blk, stat)
      /\ Len(out) = End(blk) - Start(blk)
  BY <1>1 DEF IInv, PhaseKept, OutKept, HeapKept
<1>3. Right(blk, out)
  BY <1>2 DEF FutureAt
<1>4. PICK h : h = heap \union {Pending(m, SavedBytes(m)) :
                                  m \in {k \in ToSet(List) : k.dest >= End(blk)}}
  OBVIOUS
<1>5. heap' = h
  BY <1>4 DEF FinishBlock
<1>6. HeapFor(h, blk + 1)
  BY <1>2, <1>4, Finished
<1>7. QED BY <1>1, <1>2, <1>3, <1>5, <1>6, DecodedInv

LEMMA StutterInv == IInv /\ UNCHANGED vars => IInv'
<1> SUFFICES ASSUME IInv, UNCHANGED vars
             PROVE  IInv'
  OBVIOUS
<1>1. /\ UNCHANGED given /\ UNCHANGED <<given, stats>> /\ UNCHANGED <<given, blk>>
      /\ UNCHANGED <<phase, lz_matches, i, stats, blk, stat, heap, out, used, file>>
  BY DEF vars, encoder, decoder
<1>2. /\ File /\ File' /\ GivenKept /\ format' = format
      /\ NumBlocks' = NumBlocks /\ NumBlocks \in Nat /\ NumBlocks >= 1
  BY <1>1, KeptFile
<1>3. PICK b, w, h, o, u, f, s : /\ b = blk /\ w = stat /\ h = heap /\ o = out /\ u = used
                                 /\ f = file /\ s = stats
  OBVIOUS
<1>4. blk' = b /\ stat' = w /\ heap' = h /\ out' = o /\ used' = u /\ file' = f /\ stats' = s
  BY <1>1, <1>3
<1>5. PhaseKept'
  BY <1>1, <1>2 DEF IInv, PhaseKept
<1>6. ListsKept'
  <2>1. ASSUME Encoded
        PROVE  Encoded'
    <3>1. LzKept'
      BY <1>1, <2>1, SameFile DEF Encoded
    <3>2. Passed(Len(stats) + 1)'
      BY <1>1, <2>1 DEF Encoded, Passed, Start
    <3>3. \A n \in 1 .. Len(s) : ListOf(n, s[n])
      BY <1>3, <2>1 DEF Encoded
    <3>4. \A n \in 1 .. Len(s) : ListOf(n, s[n])'
      BY <1>1, <3>3, SameList
    <3>5. QED BY <1>1, <1>2, <1>4, <2>1, <3>1, <3>2, <3>4 DEF Encoded
  <2>2. Listed => Listed'
    BY <1>1, ListedSame
  <2>3. QED BY <1>1, <2>1, <2>2 DEF IInv, ListsKept
<1>7. OutKept'
  <2>1. FileRight(b, f)' <=> FileRight(b, f)
    BY <1>1, SameRight
  <2>2. Right(b, o)' <=> Right(b, o)
    BY <1>1, SameRight
  <2>3. End(b)' = End(b)
    BY <1>1, SameBlock
  <2>4. \A k : IOAt(k, w, o, u)' <=> IOAt(k, w, o, u)
    BY <1>1, SameIO
  <2>5. FutureAt(h, o, u)' <=> FutureAt(h, o, u)
    BY <1>1, SameFuture
  <2>6. FileRight(blk, file)' /\ (Right(blk, out) => Right(blk, out)')
        /\ (FutureAt(heap, out, used) => FutureAt(heap, out, used)')
    <3>1. FileRight(b, f)
      BY <1>3 DEF IInv, OutKept
    <3>2. FileRight(blk, file)'
      BY <1>4, <2>1, <3>1
    <3>3. Right(b, o) => Right(blk, out)'
      BY <1>4, <2>2
    <3>4. FutureAt(h, o, u) => FutureAt(heap, out, used)'
      BY <1>4, <2>5
    <3>5. QED BY <1>3, <3>2, <3>3, <3>4
  <2>7. (\E k : IOAt(k, stat, out, used)) => (\E k : IOAt(k, stat, out, used))'
    <3>1. ASSUME NEW k, IOAt(k, stat, out, used)
          PROVE  IOAt(k, stat, out, used)'
      <4>1. IOAt(k, w, o, u)'
        BY <1>3, <2>4, <3>1
      <4>2. QED BY <1>4, <4>1
    <3>2. QED BY <3>1
  <2>8. End(blk)' = End(blk)
    BY <1>3, <1>4, <2>3
  <2>9. QED BY <1>1, <2>6, <2>7, <2>8 DEF IInv, OutKept, Start
<1>8. HeapKept'
  <2>1. HeapFor(h, b)' <=> HeapFor(h, b)
    BY <1>1, SameHeap
  <2>2. ListOf(b, w)' <=> ListOf(b, w)
    BY <1>1, SameList
  <2>3. HeapFor(heap, blk) => HeapFor(heap, blk)'
    <3>1. HeapFor(h, b) => HeapFor(heap, blk)'
      BY <1>4, <2>1
    <3>2. QED BY <1>3, <3>1
  <2>4. ListOf(blk, stat) => ListOf(blk, stat)'
    <3>1. ListOf(b, w) => ListOf(blk, stat)'
      BY <1>4, <2>2
    <3>2. QED BY <1>3, <3>1
  <2>5. QED BY <1>1, <1>2, <2>3, <2>4 DEF IInv, HeapKept
<1>9. QED BY <1>2, <1>5, <1>6, <1>7, <1>8 DEF IInv

LEMMA NextInv == IInv /\ [Next]_vars => IInv'
<1> SUFFICES ASSUME IInv, [Next]_vars
             PROVE  IInv'
  OBVIOUS
<1>1. CASE Next
  BY <1>1, FindMatchInv, FirstPassEndsInv, SortMatchesInv, EncodeBlockInv, OverflowStatbufInv, ReadBlockInv, DecodeIOInv,
     DecodeTailIOInv, FinishIOInv, InsertMatchesInv, DecodeMatchInv, DecodeTailInv, FinishBlockInv DEF Next
<1>2. CASE UNCHANGED vars
  BY <1>2, StutterInv
<1>3. QED BY <1>1, <1>2

LEMMA Inductive ==
  ASSUME IndexIsOneBlock
  PROVE  Spec => []IInv
<1>1. Init => IInv
  BY InitInv
<1>2. QED BY <1>1, NextInv, PTL DEF Spec

\* What was decoded is what was compressed: whatever matches the first pass finds
\* and however std::sort orders those of one source, decompress and
\* decompress_FUTURE_LZ give every byte of the file.
THEOREM OutputIsInput ==
  ASSUME IndexIsOneBlock
  PROVE  Spec => []OutputCorrect
<1>1. IInv => OutputCorrect
  <2> SUFFICES ASSUME IInv
               PROVE  OutputCorrect
    OBVIOUS
  <2>1. \A n \in DOMAIN file : file[n] = Data[n - 1]
    <3>1. FileRight(blk, file)
      BY DEF IInv, OutKept
    <3>2. DOMAIN file = 1 .. Len(file)
      BY <3>1, LenProperties DEF FileRight
    <3>3. QED BY <3>1, <3>2 DEF FileRight
  <2>2. out = <<>> \/ Right(blk, out)
    <3>1. phase \in {"find", "sort", "encode", "read", "insert", "done", "overflow", "refused"} \/
          phase = "copyIO" \/ phase = "written" \/ phase \in {"copy", "future"}
      BY DEF IInv, PhaseKept, BlockPhases
    <3>2. QED BY <3>1 DEF IInv, OutKept, IOAt, FutureAt
  <2>3. \A n \in DOMAIN out : out[n] = Data[Start(blk) + n - 1]
    <3>1. CASE out = <<>>
      BY <3>1
    <3>2. CASE Right(blk, out)
      <4>1. DOMAIN out = 1 .. Len(out)
        BY <3>2, LenProperties DEF Right
      <4>2. QED BY <3>2, <4>1 DEF Right
    <3>3. QED BY <2>2, <3>1, <3>2
  <2>4. QED BY <2>1, <2>3 DEF OutputCorrect
<1>2. QED BY <1>1, Inductive, PTL

-----------------------------------------------------------------------------
(* The buffers.  A list that the second pass could write passes the check of *)
(* the decoder, and so does one of I/O-LZ unless matches are very short.     *)

LEMMA Sizes ==
  /\ StatSize \in Nat /\ StatSize >= 1 /\ HeaderRoom \in Nat /\ HeaderRoom >= 1
  /\ FUTURELZ_MAX_STATS_PER_BLOCK \in Nat
  /\ BlockSize < StatSize * (FUTURELZ_MAX_STATS_PER_BLOCK + 1)
BY BufferAssumption

\* The lists of the second pass fit in statbuf
StatsFit ==
  /\ phase = "find" => stats = <<>>
  /\ format # "io" => stats \in Seq(Seq(Nat))
                      /\ \A b \in 1 .. Len(stats) : Len(stats[b]) <= FUTURELZ_MAX_STATS_PER_BLOCK

LEMMA StatsFitNext ==
  ASSUME IInv, IInv', StatsFit, [Next]_vars
  PROVE  StatsFit'
<1>1. CASE EncodeBlock
  <2> DEFINE w == PieceList(Pieces(Len(stats) + 1), Len(stats) + 1)
  <2>1. /\ stats' = Append(stats, w) /\ Len(w) <= FUTURELZ_MAX_STATS_PER_BLOCK
        /\ UNCHANGED given /\ phase = "encode" /\ phase' \in {"encode", "read"}
    <3>1. /\ stats' = Append(stats, w) /\ StatbufFits(Len(stats) + 1) /\ phase = "encode"
          /\ phase' \in {"encode", "read"}
      BY <1>1 DEF EncodeBlock
    <3>2. UNCHANGED given
      BY <1>1 DEF EncodeBlock
    <3>3. QED BY <3>1, <3>2 DEF StatbufFits
  <2> HIDE DEF w
  <2>2. format # "io" /\ format' = format
    BY <2>1 DEF IInv, PhaseKept, given
  <2>3. stats' \in Seq(Seq(Nat))
    <3>1. phase' = "encode" => Encoded'
      BY DEF IInv, ListsKept
    <3>2. phase' = "read" => Listed'
      BY DEF IInv, ListsKept
    <3>3. QED BY <2>1, <2>2, <3>1, <3>2 DEF Encoded, Listed
  <2>4. PICK s : s = stats
    OBVIOUS
  <2>5. s \in Seq(Seq(Nat)) /\ \A b \in 1 .. Len(s) : Len(s[b]) <= FUTURELZ_MAX_STATS_PER_BLOCK
    BY <2>2, <2>4 DEF StatsFit
  <2>6. w \in Seq(Nat)
    <3>2. DOMAIN Append(s, w) = 1 .. Len(s) + 1 /\ Append(s, w)[Len(s) + 1] = w
      BY <2>5, LenProperties DEF Append
    <3>3. Append(s, w) \in Seq(Seq(Nat))
      BY <2>1, <2>3, <2>4
    <3>4. Len(s) + 1 \in DOMAIN Append(s, w)
      BY <2>5, <3>2, LenProperties
    <3>5. QED BY <3>2, <3>3, <3>4, ElementOfSeq, LenProperties
  <2>7. PICK t : t = Append(s, w)
    OBVIOUS
  <2>8. /\ Len(t) = Len(s) + 1 /\ t[Len(t)] = w /\ Len(s) \in Nat
        /\ \A b \in 1 .. Len(s) : t[b] = s[b]
    BY <2>5, <2>6, <2>7, AppendProperties, LenProperties
  <2>9. \A b \in 1 .. Len(t) : Len(t[b]) <= FUTURELZ_MAX_STATS_PER_BLOCK
    <3>1. SUFFICES ASSUME NEW b \in 1 .. Len(t)
                   PROVE  Len(t[b]) <= FUTURELZ_MAX_STATS_PER_BLOCK
      OBVIOUS
    <3>2. b \in 1 .. Len(s) \/ b = Len(t)
      BY <2>8
    <3>3. QED BY <2>1, <2>5, <2>8, <3>2
  <2>10. stats' = t
    BY <2>1, <2>4, <2>7
  <2>11. QED BY <2>1, <2>3, <2>9, <2>10 DEF StatsFit
<1>2. CASE FirstPassEnds
  <2>1. format = "io" \/ UNCHANGED stats
    BY <1>2 DEF FirstPassEnds
  <2>2. format' = format /\ phase' # "find" /\ phase = "find"
    BY <1>2 DEF FirstPassEnds, given
  <2>3. QED BY <2>1, <2>2 DEF StatsFit
<1>3. CASE stats' = stats /\ format' = format /\ (phase' = "find" => phase = "find")
  BY <1>3 DEF StatsFit
<1>4. ASSUME UNCHANGED <<given, encoder>>, phase' # "find"
      PROVE  stats' = stats /\ format' = format /\ (phase' = "find" => phase = "find")
  BY <1>4 DEF given, encoder
<1>5. CASE FindMatch
  BY <1>3, <1>5 DEF FindMatch, encoder
<1>6. CASE SortMatches
  BY <1>3, <1>6 DEF SortMatches, given
<1>7. CASE OverflowStatbuf
  BY <1>3, <1>4, <1>7 DEF OverflowStatbuf
<1>8. CASE ReadBlock
  BY <1>3, <1>4, <1>8 DEF ReadBlock
<1>9. CASE DecodeIO
  BY <1>3, <1>4, <1>9 DEF DecodeIO
<1>10. CASE DecodeTailIO
  BY <1>3, <1>4, <1>10 DEF DecodeTailIO
<1>11. Decoded => phase' # "find"
  BY DEF Decoded
<1>12. CASE FinishIO
  BY <1>3, <1>4, <1>11, <1>12 DEF FinishIO
<1>13. CASE InsertMatches
  BY <1>3, <1>4, <1>13 DEF InsertMatches
<1>14. CASE DecodeMatch
  BY <1>3, <1>4, <1>14 DEF DecodeMatch
<1>15. CASE DecodeTail
  BY <1>3, <1>4, <1>15 DEF DecodeTail
<1>16. CASE FinishBlock
  BY <1>3, <1>4, <1>11, <1>16 DEF FinishBlock
<1>17. CASE UNCHANGED vars
  BY <1>3, <1>17 DEF vars, given, encoder
<1>18. QED
  BY <1>1, <1>2, <1>5, <1>6, <1>7, <1>8, <1>9, <1>10, <1>12, <1>13, <1>14, <1>15, <1>16, <1>17
     DEF Next

\* What does not belong to a match is a literal: the first k matches of a block
\* and the literals before the end of the last of them
Room(b, ms, k) ==
  LitCount(b, EndOf(b, ms, k)) + k * BASE_LEN <= EndOf(b, ms, k) - Start(b)

LEMMA RoomNext ==
  ASSUME File, NEW b \in 1 .. NumBlocks, NEW ms, OwnOrder(b, ms),
         NEW k \in 0 .. Len(ms), k < Len(ms), Room(b, ms, k)
  PROVE  Room(b, ms, k + 1)
<1> DEFINE e == EndOf(b, ms, k)
           n == k + 1
           d == ms[n].dest
           l == ms[n].len
<1>1. /\ n \in 1 .. Len(ms) /\ e <= d /\ LiteralRun(b, e, d - e) /\ MatchRun(b, d, l)
  BY OwnRun
<1>2. d \in Nat /\ l \in Nat /\ l >= BASE_LEN
  <2>1. PICK y \in 1 .. Len(matches) : ms[n] = matches[y]
    BY <1>1 DEF OwnOrder
  <2>2. matches[y].dest \in Nat /\ matches[y].len \in Nat
    BY MatchIs
  <2>3. matches[y].len >= BASE_LEN
    BY DEF File, MatchesKept, MatchFits
  <2>4. QED BY <2>1, <2>2, <2>3
<1>3. e \in Nat /\ Start(b) \in Nat /\ Start(b) <= e /\ e \in Start(b) .. End(b)
  <2>1. e \in Nat /\ e >= Start(b) /\ e <= End(b)
    BY EndOfIs
  <2>2. Start(b) \in Nat /\ End(b) \in Nat
    BY BlockIs DEF File
  <2> HIDE DEF e
  <2>3. QED BY <2>1, <2>2
<1>4. EndOf(b, ms, n) = d + l
  <2>1. n # 0
    BY <1>1 DEF OwnOrder
  <2>2. QED BY <2>1 DEF EndOf
<1>5. LitCount(b, e) \in Nat
  BY <1>3, LitCountType
<1>6. LitCount(b, e) + k * BASE_LEN <= e - Start(b)
  BY DEF Room
<1>7. k \in Nat /\ BASE_LEN \in Nat
  BY Constants DEF OwnOrder
<1>8. n * BASE_LEN = k * BASE_LEN + BASE_LEN
  BY <1>7
<1> DEFINE x == k * BASE_LEN
<1>9. x \in Nat
  BY <1>7
<1> HIDE DEF e, d, l, n
<1>10. LitCount(b, e + (d - e)) = LitCount(b, e) + (d - e) /\ LitCount(b, d + l) = LitCount(b, d)
  BY <1>1, RunCount
<1>11. e + (d - e) = d
  BY <1>2, <1>3
<1>12. LitCount(b, d + l) = LitCount(b, e) + (d - e)
  BY <1>10, <1>11
<1>13. LitCount(b, d + l) + n * BASE_LEN <= (d + l) - Start(b)
  <2> DEFINE c == LitCount(b, e)
  <2>1. c \in Nat /\ c + x <= e - Start(b) /\ n * BASE_LEN = x + BASE_LEN
    BY <1>5, <1>6, <1>8
  <2>2. LitCount(b, d + l) = c + (d - e)
    BY <1>12
  <2> HIDE DEF x, c
  <2>3. (c + (d - e)) + (x + BASE_LEN) <= (d + l) - Start(b)
    BY <1>2, <1>3, <1>7, <1>9, <2>1 DEF x
  <2>4. QED BY <2>1, <2>2, <2>3
<1>14. QED BY <1>4, <1>13 DEF Room, n

LEMMA RoomAll ==
  ASSUME File, NEW b \in 1 .. NumBlocks
  PROVE  /\ Len(InBlock(b)) \in Nat
         /\ Len(Literals(b)) + Len(InBlock(b)) * BASE_LEN <= BlockSize
<1> DEFINE ms == InBlock(b)
           A == {k \in Nat : k <= Len(ms) => Room(b, ms, k)}
<1>1. OwnOrder(b, ms) /\ Len(ms) \in Nat
  BY OwnOrdered, InBlockIs
<1>2. /\ Start(b) \in Nat /\ End(b) \in Nat /\ Start(b) < End(b) /\ End(b) <= Start(b) + BlockSize
      /\ BASE_LEN \in Nat /\ BlockSize \in Nat
  BY BlockIs, Constants DEF File
<1> HIDE DEF ms
<1>3. 0 \in A
  <2>1. LitCount(b, Start(b)) = 0
    BY LitCountStart
  <2>2. EndOf(b, ms, 0) = Start(b)
    BY DEF EndOf
  <2>3. Room(b, ms, 0)
    BY <1>2, <2>1, <2>2 DEF Room
  <2>4. QED BY <2>3
<1>4. ASSUME NEW k \in Nat, k \in A
      PROVE  k + 1 \in A
  <2>1. k + 1 <= Len(ms) => k \in 0 .. Len(ms) /\ k < Len(ms)
    BY <1>1
  <2>2. k + 1 <= Len(ms) => Room(b, ms, k)
    BY <1>1, <1>4, <2>1
  <2>3. k + 1 <= Len(ms) => Room(b, ms, k + 1)
    BY <1>1, <2>1, <2>2, RoomNext
  <2>4. QED BY <2>3
<1>5. Len(ms) \in A
  <2> HIDE DEF A
  <2>1. QED BY <1>1, <1>3, <1>4, AllNumbers
<1>6. Room(b, ms, Len(ms))
  BY <1>1, <1>5
<1> DEFINE n == Len(ms)
           e == EndOf(b, ms, n)
<1>7. e \in Nat /\ e >= Start(b) /\ e <= End(b) /\ n \in 0 .. Len(ms)
  <2>1. n \in 0 .. Len(ms)
    BY <1>1
  <2>2. QED BY <1>1, <2>1, EndOfIs
<1>8. LiteralRun(b, e, End(b) - e)
  BY <1>1, <1>7, OwnTail
<1>9. LitCount(b, e) \in Nat /\ LitCount(b, e) + n * BASE_LEN <= e - Start(b)
  <2>1. e \in Start(b) .. End(b)
    BY <1>2, <1>7
  <2>2. LitCount(b, e) \in Nat
    BY <2>1, LitCountType
  <2>3. QED BY <1>6, <2>2 DEF Room
<1>10. Len(Literals(b)) = LitCount(b, e) + (End(b) - e)
  <2> HIDE DEF e
  <2>1. LitCount(b, e + (End(b) - e)) = LitCount(b, e) + (End(b) - e)
    BY <1>8, RunCount
  <2>2. e + (End(b) - e) = End(b)
    BY <1>2, <1>7
  <2>3. LitCount(b, End(b)) = Len(Literals(b))
    BY LiteralsIs DEF LitCount
  <2>4. QED BY <2>1, <2>2, <2>3
<1>11. n * BASE_LEN \in Nat
  BY <1>1, <1>2
<1> DEFINE x == n * BASE_LEN
           c == LitCount(b, e)
<1>12. x \in Nat /\ c \in Nat /\ c + x <= e - Start(b) /\ Len(Literals(b)) = c + (End(b) - e)
  BY <1>9, <1>10, <1>11
<1> HIDE DEF e, x, c
<1>13. (c + (End(b) - e)) + x <= BlockSize
  BY <1>2, <1>7, <1>12
<1>14. Len(Literals(b)) + x <= BlockSize
  BY <1>12, <1>13
<1>15. QED BY <1>1, <1>14 DEF x, n, ms

\* The size of the decoder's buffer
LEMMA BufferSize ==
  /\ compbufsize \in Nat
  /\ compbufsize >= BlockSize + StatSize * FUTURELZ_MAX_STATS_PER_BLOCK
  /\ compbufsize >= BlockSize + BlockSize + 1
<1> DEFINE S == StatSize
           H == HeaderRoom
           F == FUTURELZ_MAX_STATS_PER_BLOCK
           N == BlockSize
<1>1. S \in Nat /\ H \in Nat /\ H >= 1 /\ F \in Nat /\ N \in Nat /\ N < S * (F + 1)
  BY Sizes, Constants
<1>2. compbufsize = N + S * (H + F)
  BY DEF compbufsize
<1> HIDE DEF S, H, F, N
<1>3. S * (H + F) = S * H + S * F /\ S * (F + 1) = S * F + S /\ S * H >= S
      /\ S * F \in Nat /\ S * H \in Nat
  BY <1>1
<1>4. N + S * (H + F) \in Nat /\ N + S * (H + F) >= N + S * F /\ N + S * (H + F) >= N + N + 1
  BY <1>1, <1>3
<1>5. QED BY <1>2, <1>4 DEF S, F, N

\* Sums and products of the sizes of one block
LEMMA RecordsFit ==
  ASSUME NEW lits \in Nat, NEW n \in Nat, NEW L \in Nat, NEW B \in Nat, NEW X \in Nat,
         lits + n * L <= B, X <= 2 * L
  PROVE  lits + X * n <= B + B
<1>1. X * n <= (2 * L) * n /\ (2 * L) * n = n * L + n * L /\ n * L \in Nat /\ X * n \in Nat
  BY SMT
<1> DEFINE y == n * L
           z == X * n
<1>2. z <= y + y /\ y \in Nat /\ z \in Nat /\ lits + y <= B
  BY <1>1
<1> HIDE DEF y, z
<1>3. lits + z <= B + B
  BY <1>2
<1>4. QED BY <1>3 DEF z

\* A list the second pass has written is not refused
LEMMA ListPasses ==
  ASSUME IInv, StatsFit, NEW b \in 1 .. NumBlocks, Len(stats) = NumBlocks, format # "io"
  PROVE  ~TooLarge(b)
<1>1. File /\ Start(b) \in Nat /\ End(b) \in Nat /\ Start(b) < End(b) /\ End(b) <= Start(b) + BlockSize
      /\ BlockSize \in Nat
  BY BlockIs, Constants DEF IInv, File
<1>2. stats \in Seq(Seq(Nat)) /\ Len(stats[b]) <= FUTURELZ_MAX_STATS_PER_BLOCK
  BY DEF StatsFit
<1>3. Len(stats[b]) \in Nat
  BY <1>2, ElementOfSeq, LenProperties
<1>4. Len(Literals(b)) \in Nat /\ Len(Literals(b)) <= BlockSize
  <2>1. /\ Len(InBlock(b)) \in Nat /\ Len(Literals(b)) + Len(InBlock(b)) * BASE_LEN <= BlockSize
    BY <1>1, RoomAll
  <2>2. Len(Literals(b)) \in Nat /\ BASE_LEN \in Nat
    BY <1>1, LiteralsType, Constants
  <2> DEFINE x == Len(InBlock(b)) * BASE_LEN
  <2>3. x \in Nat
    BY <2>1, <2>2
  <2> HIDE DEF x
  <2>4. QED BY <1>1, <2>1, <2>2, <2>3 DEF x
<1> DEFINE d == Len(Literals(b))
           l == Len(stats[b])
           F == FUTURELZ_MAX_STATS_PER_BLOCK
           size == IF format = "index" THEN 0 ELSE StatSize * l
<1>5. size \in Nat /\ size <= StatSize * F
  <2>1. l \in Nat /\ F \in Nat /\ StatSize \in Nat /\ l <= F
    BY <1>2, <1>3, Sizes
  <2> HIDE DEF l, F
  <2>2. StatSize * l <= StatSize * F /\ StatSize * l \in Nat /\ StatSize * F \in Nat
    BY <2>1
  <2>3. QED BY <2>2
<1> DEFINE y == StatSize * F
<1>6. y \in Nat /\ compbufsize \in Nat /\ compbufsize >= BlockSize + y
  BY Sizes, BufferSize
<1>7. TooLarge(b) <=> (End(b) - Start(b) > BlockSize \/ d + size > compbufsize)
  BY DEF TooLarge
<1>8. d \in Nat /\ d <= BlockSize /\ size <= y
  BY <1>4, <1>5
<1> HIDE DEF d, size, y
<1>9. QED BY <1>1, <1>5, <1>6, <1>7, <1>8

\* A block of I/O-LZ is refused only if matches are very short
LEMMA OwnPasses ==
  ASSUME IInv, NEW b \in 1 .. NumBlocks, format = "io", Listed,
         StatSize * StatsPerMatch(round) <= 2 * BASE_LEN
  PROVE  ~TooLarge(b)
<1>1. File /\ Start(b) \in Nat /\ End(b) \in Nat /\ Start(b) < End(b) /\ End(b) <= Start(b) + BlockSize
      /\ BlockSize \in Nat
  BY BlockIs, Constants DEF IInv, File
<1> DEFINE d == Len(Literals(b))
           n == Len(InBlock(b))
           c == StatsPerMatch(round)
           X == StatSize * c
<1>2. stats[b] = Statbuf(b) /\ Len(Statbuf(b)) = c * n
  BY <1>1, ListedIs, OwnWords
<1>3. d \in Nat /\ n \in Nat /\ d + n * BASE_LEN <= BlockSize
  BY <1>1, RoomAll, LiteralsType
<1>4. c \in Nat /\ StatSize \in Nat /\ BASE_LEN \in Nat
  BY Sizes, Constants DEF StatsPerMatch
<1>5. X \in Nat /\ X <= 2 * BASE_LEN
  BY <1>4
<1> HIDE DEF d, n
<1>6. StatSize * Len(stats[b]) = X * n
  <2> HIDE DEF c
  <2>1. StatSize * (c * n) = (StatSize * c) * n
    BY <1>3, <1>4
  <2>2. QED BY <1>2, <2>1
<1> HIDE DEF X
<1>7. d + X * n <= BlockSize + BlockSize
  BY <1>1, <1>3, <1>4, <1>5, RecordsFit
<1> DEFINE z == X * n
<1>8. z \in Nat /\ compbufsize \in Nat /\ compbufsize >= BlockSize + BlockSize + 1
  BY <1>3, <1>5, BufferSize
<1>9. TooLarge(b) <=> (End(b) - Start(b) > BlockSize \/ d + z > compbufsize)
  BY <1>6 DEF TooLarge, d
<1> HIDE DEF z
<1>10. d + z <= BlockSize + BlockSize
  BY <1>7 DEF z
<1>11. QED BY <1>1, <1>3, <1>8, <1>9, <1>10

LEMMA RefusedNext ==
  ASSUME IInv, StatsFit, ListsAccepted, [Next]_vars
  PROVE  ListsAccepted'
<1>1. CASE ReadBlock
  <2>1. UNCHANGED given /\ phase = "read" /\ Listed /\ File
    BY <1>1 DEF ReadBlock, IInv, ListsKept
  <2>2. Len(stats) = NumBlocks /\ NumBlocks \in Nat
    BY <2>1, ListedIs, BlocksAre DEF File
  <2>3. format' = format /\ round' = round
    BY <2>1 DEF given
  <2>4. phase' = "refused" => blk \in 1 .. NumBlocks /\ TooLarge(blk)
    BY <1>1, <2>2 DEF ReadBlock, IInv, PhaseKept
  <2>5. phase' = "refused" => format = "io"
    BY <2>2, <2>4, ListPasses
  <2>6. phase' = "refused" => ~(StatSize * StatsPerMatch(round) <= 2 * BASE_LEN)
    BY <2>1, <2>4, <2>5, OwnPasses
  <2> DEFINE X == StatSize * StatsPerMatch(round)
  <2>7. X \in Nat /\ BASE_LEN \in Nat
    BY Sizes, Constants DEF StatsPerMatch
  <2> HIDE DEF X
  <2>8. phase' = "refused" => 2 * BASE_LEN < X
    BY <2>6, <2>7 DEF X
  <2>9. QED BY <2>3, <2>5, <2>8 DEF ListsAccepted, X, StatsPerMatch
<1>2. CASE phase' # "refused"
  BY <1>2 DEF ListsAccepted
<1>3. CASE UNCHANGED vars
  BY <1>3 DEF vars, given, ListsAccepted, StatsPerMatch
<1>4. Decoded => phase' # "refused"
  BY DEF Decoded
<1>5. ASSUME Next, ~ReadBlock
      PROVE  phase' # "refused"
  BY <1>4, <1>5 DEF Next, FindMatch, FirstPassEnds, SortMatches, EncodeBlock, OverflowStatbuf, DecodeIO,
     DecodeTailIO, FinishIO, InsertMatches, DecodeMatch, DecodeTail, FinishBlock, IInv, PhaseKept
<1>6. QED BY <1>1, <1>2, <1>3, <1>5

\* The decoder never rejects what the same program compressed, and when it comes
\* to its end the whole file was written: it stops before only if the list of a
\* block did not fit in the statbuf of the second pass (srep.cpp:820, 888), or if
\* it refuses a block for its size (srep_dec.cpp:39-45), of which ListsAccepted
\* says when.
NothingRejected ==
  /\ phase # "bad"
  /\ phase = "done" => Len(file) = total

THEOREM WholeFileDecoded ==
  ASSUME IndexIsOneBlock
  PROVE  Spec => [](NothingRejected /\ ListsAccepted)
<1>1. IInv => NothingRejected
  <2> SUFFICES ASSUME IInv
               PROVE  NothingRejected
    OBVIOUS
  <2>1. phase # "bad"
    BY DEF IInv, PhaseKept, BlockPhases
  <2>2. ASSUME phase = "done"
        PROVE  Len(file) = total
    <3>1. blk = NumBlocks + 1 /\ Len(file) = End(blk - 1) /\ File
      BY <2>2 DEF IInv, PhaseKept, OutKept, FileRight
    <3>2. NumBlocks \in Nat /\ NumBlocks >= 1 /\ GivenKept
      BY <3>1, BlocksAre DEF File
    <3>3. NumBlocks \in 1 .. NumBlocks /\ blk - 1 = NumBlocks
      BY <3>1, <3>2
    <3>4. End(NumBlocks) = total
      BY <3>2, <3>3, BlockIs
    <3>5. QED BY <3>1, <3>3, <3>4
  <2>3. QED BY <2>1, <2>2 DEF NothingRejected
<1>2. Init => StatsFit /\ ListsAccepted
  <2>1. <<>> \in Seq(Seq(Nat)) /\ Len(<<>>) = 0
    BY EmptySeq
  <2>2. ASSUME Init
        PROVE  StatsFit
    <3>1. stats = <<>>
      BY <2>2 DEF Init
    <3>2. \A b \in 1 .. Len(stats) : FALSE
      BY <2>1, <3>1
    <3>3. QED BY <2>1, <3>1, <3>2 DEF StatsFit
  <2>3. QED BY <2>2 DEF Init, ListsAccepted
<1>3. IInv /\ IInv' /\ StatsFit /\ ListsAccepted /\ [Next]_vars => (StatsFit /\ ListsAccepted)'
  BY StatsFitNext, RefusedNext
<1>4. Spec => []IInv
  BY Inductive
<1>5. QED BY <1>1, <1>2, <1>3, <1>4, PTL DEF Spec

-----------------------------------------------------------------------------
(* The RAM estimate.  The second pass, the information mode and the decoder  *)
(* each keep a heap of their own.  After block b each has the pieces whose   *)
(* bytes are saved: those that come from the first b blocks and end up in a  *)
(* later one, unless they are read from the file.                            *)

Saves(q, b) == WaitsFor(q, b + 1) /\ q.len < maximum_save

Entries == [dest : Nat, len : Nat]

Entry(q) == [dest |-> q.dest, len |-> q.len]

SavedAfter(b) == {Entry(q) : q \in {p \in AllPieces : Saves(p, b)}}

ChunksOf == [m \in Entries |-> NeedMem(m.len)]

ChunksAfter(b) == SumNeedMem(SavedAfter(b))

LEMMA SumNeedIs ==
  ASSUME NEW S, S \subseteq Entries
  PROVE  SumNeedMem(S) = SumFunctionOnSet(ChunksOf, S)
<1> DEFINE A(g) == [s \in SUBSET S |-> IF s = {} THEN 0 ELSE NeedMem(Some(s).len) + g[s \ {Some(s)}]]
           B(g) == [s \in SUBSET S |-> Step(ChunksOf, g, s)]
<1>1. ASSUME NEW s \in SUBSET S, s # {}
      PROVE  ChunksOf[Some(s)] = NeedMem(Some(s).len)
  <2>1. Some(s) \in Entries
    BY <1>1, SomeIn
  <2>2. QED BY <2>1 DEF ChunksOf
<1>2. ASSUME NEW g PROVE A(g) = B(g)
  <2>1. \A s \in SUBSET S :
          (IF s = {} THEN 0 ELSE NeedMem(Some(s).len) + g[s \ {Some(s)}]) = Step(ChunksOf, g, s)
    BY <1>1 DEF Step
  <2>2. QED BY <2>1
<1>3. SumNeedMem(S) = (CHOOSE g : g = A(g))[S]
  BY DEF SumNeedMem, MapThenSumSet, MapThenFoldSet, Some
<1>4. SumFunctionOnSet(ChunksOf, S) = (CHOOSE g : g = B(g))[S]
  BY SumIs DEF Sums
<1> HIDE DEF A, B
<1>5. (CHOOSE g : g = A(g)) = (CHOOSE g : g = B(g))
  BY <1>2
<1>6. QED BY <1>3, <1>4, <1>5

LEMMA EntryIs ==
  ASSUME File, NEW q \in AllPieces
  PROVE  /\ Entry(q) \in Entries /\ Entry(q).dest = q.dest /\ Entry(q).len = q.len
         /\ Entry(q).len >= 1
         /\ \A r \in AllPieces : Entry(r) = Entry(q) => r = q
<1>1. q.dest \in Nat /\ q.len \in Nat /\ q.len >= 1
  BY PieceBounds
<1>2. ASSUME NEW r \in AllPieces, Entry(r) = Entry(q)
      PROVE  r = q
  <2>1. r.dest = q.dest /\ r.len = q.len
    BY <1>2 DEF Entry
  <2>2. q.dest \in Int /\ Covers(q, q.dest) /\ Covers(r, q.dest)
    BY <1>1, <2>1 DEF Covers
  <2>3. QED BY <2>2, OnePiece
<1>3. QED BY <1>1, <1>2 DEF Entry, Entries

\* Pieces have different destinations, so there are finitely many of them
LEMMA EntriesFinite ==
  ASSUME File, NEW S, \A m \in S : \E q \in AllPieces : m = Entry(q)
  PROVE  IsFiniteSet(S) /\ S \subseteq Entries
<1>1. total \in Nat
  BY DEF File, GivenKept
<1> DEFINE D == 0 .. total
           f == [d \in D |-> CHOOSE m \in S : m.dest = d]
<1>2. IsFiniteSet(D)
  BY <1>1, FS_Interval
<1>3. f = [d \in D |-> f[d]]
  OBVIOUS
<1>4. ASSUME NEW m \in S
      PROVE  m \in {f[d] : d \in D} /\ m \in Entries
  <2>1. PICK q \in AllPieces : m = Entry(q)
    OBVIOUS
  <2>2. m.dest = q.dest /\ m \in Entries
    BY <2>1, EntryIs
  <2>3. q.dest \in D
    <3>1. q.dest \in Nat /\ q.len \in Nat /\ q.dest + q.len <= total
      BY PieceBounds
    <3>2. QED BY <1>1, <3>1
  <2>4. f[q.dest] \in S /\ f[q.dest].dest = q.dest
    BY <2>2, <2>3
  <2> HIDE DEF f
  <2>5. PICK r \in AllPieces : f[q.dest] = Entry(r)
    BY <2>4
  <2>6. r.dest = q.dest
    BY <2>4, <2>5, EntryIs
  <2>7. q.dest \in Int /\ Covers(q, q.dest) /\ Covers(r, q.dest)
    <3>1. q.dest \in Nat /\ q.len \in Nat /\ q.len >= 1
      BY PieceBounds
    <3>2. r.len \in Nat /\ r.len >= 1
      BY PieceBounds
    <3>3. QED BY <2>6, <3>1, <3>2 DEF Covers
  <2>8. r = q
    BY <2>7, OnePiece
  <2>9. m = f[q.dest]
    BY <2>1, <2>5, <2>8
  <2>10. QED BY <2>2, <2>3, <2>9
<1> HIDE DEF f, D
<1>5. IsFiniteSet({f[d] : d \in D})
  BY <1>2, <1>3, ImageFinite
<1>6. QED BY <1>4, <1>5, FS_Subset

LEMMA ChunksType ==
  ASSUME File, NEW S, \A m \in S : \E q \in AllPieces : m = Entry(q)
  PROVE  /\ SumNeedMem(S) \in Nat /\ SumNeedMem(S) = SumFunctionOnSet(ChunksOf, S)
         /\ \A m \in S : ChunksOf[m] \in Nat
<1>1. IsFiniteSet(S) /\ S \subseteq Entries
  BY EntriesFinite
<1>2. ASSUME NEW m \in S
      PROVE  ChunksOf[m] \in Nat
  <2>1. m \in Entries /\ ChunksOf[m] = NeedMem(m.len)
    BY <1>1 DEF ChunksOf
  <2>2. m.len \in Nat /\ m.len >= 1
    BY <2>1, EntryIs DEF Entries
  <2>3. m.len - 1 \in Int /\ m.len - 1 >= 0
    BY <2>2
  <2>4. (m.len - 1) \div UsefulChunkSpace \in Int /\ (m.len - 1) \div UsefulChunkSpace >= 0
    BY <2>3, DivMod, Constants
  <2>5. QED BY <2>1, <2>4 DEF NeedMem
<1>3. SumFunctionOnSet(ChunksOf, S) \in Nat
  BY <1>1, <1>2, SumGrows
<1>4. QED BY <1>1, <1>2, <1>3, SumNeedIs

LEMMA SavedPieces ==
  ASSUME NEW b
  PROVE  \A m \in SavedAfter(b) : \E q \in AllPieces : m = Entry(q) /\ Saves(q, b)
BY DEF SavedAfter

LEMMA AfterType ==
  ASSUME File, NEW b
  PROVE  ChunksAfter(b) \in Nat
<1>1. \A m \in SavedAfter(b) : \E q \in AllPieces : m = Entry(q)
  BY SavedPieces
<1>2. QED BY <1>1, ChunksType DEF ChunksAfter

LEMMA NoneSaved ==
  ASSUME File
  PROVE  SavedAfter(0) = {} /\ ChunksAfter(0) = 0
<1>1. Start(0 + 1) = 0
  BY StartIs
<1>2. ASSUME NEW q \in AllPieces
      PROVE  ~Saves(q, 0)
  <2>1. q.src \in Nat
    BY PieceBounds
  <2>2. QED BY <1>1, <2>1 DEF Saves, WaitsFor
<1>3. SavedAfter(0) = {}
  BY <1>2 DEF SavedAfter
<1> DEFINE S == {}
<1>4. \A m \in S : \E q \in AllPieces : m = Entry(q)
  OBVIOUS
<1> HIDE DEF S
<1>5. SumNeedMem(S) = SumFunctionOnSet(ChunksOf, S)
  BY <1>4, ChunksType
<1>6. QED BY <1>3, <1>5, SumEmpty DEF S, ChunksAfter

\* What goes with block b, and what comes
GoneIn(b) == {m \in SavedAfter(b - 1) : m.dest < End(b)}

ComesIn(b) == {Entry(q) : q \in {p \in PiecesOf(b) : p.dest >= End(b) /\ p.len < maximum_save}}

\* A piece comes from a block before b, or from b, or from a later one
LEMMA SavesNext ==
  ASSUME File, NEW b \in 1 .. NumBlocks, NEW q \in AllPieces
  PROVE  /\ q \in PiecesOf(b) => ~Saves(q, b - 1)
         /\ Saves(q, b) <=> \/ Saves(q, b - 1) /\ ~(q.dest < End(b))
                            \/ q \in PiecesOf(b) /\ q.dest >= End(b) /\ q.len < maximum_save
<1>1. /\ q.src \in Nat /\ q.dest \in Nat /\ q.len \in Nat /\ q.len >= 1
      /\ q.src < q.dest /\ q.dest + q.len <= total
  BY PieceBounds
<1>2. q \in PiecesOf(b) <=> Start(b) <= q.src /\ q.src < End(b)
  BY PiecesOfAre
<1>3. total \in Nat /\ GivenKept
  BY DEF File, GivenKept
<1>4. b \in Int /\ b - 1 + 1 = b
  BY <1>3, BlocksAre
<1>5. /\ Start(b) \in Nat /\ End(b) \in Nat /\ Start(b) < End(b)
      /\ End(b) = IF Start(b + 1) <= total THEN Start(b + 1) ELSE total
      /\ Start(b + 1) \in Int
  BY <1>3, <1>4, BlockIs, EndIs, StartIs
<1>6. Saves(q, b - 1) <=> q.src < Start(b) /\ Start(b) <= q.dest /\ q.len < maximum_save
  BY <1>4 DEF Saves, WaitsFor
<1>7. Saves(q, b) <=> q.src < Start(b + 1) /\ Start(b + 1) <= q.dest /\ q.len < maximum_save
  BY DEF Saves, WaitsFor
<1>8. maximum_save \in Nat
  BY Constants
<1>9. q.src < Start(b + 1) /\ Start(b + 1) <= q.dest <=> q.src < End(b) /\ End(b) <= q.dest
  BY <1>1, <1>3, <1>5
<1>10. q.src < End(b) <=> q.src < Start(b) \/ (Start(b) <= q.src /\ q.src < End(b))
  BY <1>1, <1>5
<1>11. End(b) <= q.dest => Start(b) <= q.dest
  BY <1>1, <1>5
<1>12. (q.dest >= End(b) <=> End(b) <= q.dest) /\ (q.dest < End(b) <=> ~(End(b) <= q.dest))
  BY <1>1, <1>5
<1>13. Start(b) <= q.src <=> ~(q.src < Start(b))
  BY <1>1, <1>5
<1>14. QED BY <1>2, <1>6, <1>7, <1>9, <1>10, <1>11, <1>12, <1>13

\* How what is saved changes with block b, and the chunks it takes
LEMMA SavedNext ==
  ASSUME File, NEW b \in 1 .. NumBlocks
  PROVE  /\ SavedAfter(b) = (SavedAfter(b - 1) \ GoneIn(b)) \union ComesIn(b)
         /\ ChunksAfter(b) = ChunksAfter(b - 1) - SumNeedMem(GoneIn(b)) + SumNeedMem(ComesIn(b))
<1> DEFINE B == SavedAfter(b - 1)
           G == GoneIn(b)
           C == ComesIn(b)
           K == B \ G
<1>1. \A m \in B : \E q \in AllPieces : m = Entry(q) /\ Saves(q, b - 1)
  BY SavedPieces
<1>2. PiecesOf(b) \subseteq AllPieces
  BY PiecesOfAre
<1>3. ASSUME NEW m \in C
      PROVE  \E q \in AllPieces : /\ m = Entry(q) /\ q \in PiecesOf(b)
                                  /\ q.dest >= End(b) /\ q.len < maximum_save
  BY <1>2, <1>3 DEF ComesIn
<1>4. G = {m \in B : m.dest < End(b)}
  BY DEF GoneIn
<1>5. ASSUME NEW m \in SavedAfter(b)
      PROVE  m \in K \/ m \in C
  <2>1. PICK q \in AllPieces : m = Entry(q) /\ Saves(q, b)
    BY SavedPieces
  <2>2. m.dest = q.dest
    BY <2>1, EntryIs
  <2>3. CASE Saves(q, b - 1) /\ ~(q.dest < End(b))
    <3>1. m \in SavedAfter(b - 1)
      BY <2>1, <2>3 DEF SavedAfter
    <3>2. QED BY <1>4, <2>2, <2>3, <3>1
  <2>4. CASE q \in PiecesOf(b) /\ q.dest >= End(b) /\ q.len < maximum_save
    BY <2>1, <2>4 DEF ComesIn
  <2>5. QED BY <2>1, <2>3, <2>4, SavesNext
<1>6. ASSUME NEW m \in K
      PROVE  m \in SavedAfter(b)
  <2>1. PICK q \in AllPieces : m = Entry(q) /\ Saves(q, b - 1)
    BY <1>1
  <2>2. m.dest = q.dest /\ ~(m.dest < End(b))
    BY <1>4, <2>1, EntryIs
  <2>3. Saves(q, b)
    BY <2>1, <2>2, SavesNext
  <2>4. QED BY <2>1, <2>3 DEF SavedAfter
<1>7. ASSUME NEW m \in C
      PROVE  m \in SavedAfter(b)
  <2>1. PICK q \in AllPieces : /\ m = Entry(q) /\ q \in PiecesOf(b)
                               /\ q.dest >= End(b) /\ q.len < maximum_save
    BY <1>3, <1>7
  <2>2. Saves(q, b)
    BY <2>1, SavesNext
  <2>3. QED BY <2>1, <2>2 DEF SavedAfter
<1>8. B \cap C = {}
  <2>1. ASSUME NEW m, m \in B, m \in C
        PROVE  FALSE
    <3>1. PICK q \in AllPieces : m = Entry(q) /\ Saves(q, b - 1)
      BY <1>1, <2>1
    <3>2. PICK r \in AllPieces : m = Entry(r) /\ r \in PiecesOf(b)
      BY <1>3, <2>1
    <3>3. r = q
      BY <3>1, <3>2, EntryIs
    <3>4. QED BY <3>1, <3>2, <3>3, SavesNext
  <2>2. QED BY <2>1
<1>9. SavedAfter(b) = K \union C
  BY <1>5, <1>6, <1>7
<1>10. G \subseteq B
  BY <1>4
<1>11. /\ \A m \in B : \E q \in AllPieces : m = Entry(q)
       /\ \A m \in C : \E q \in AllPieces : m = Entry(q)
  BY <1>1, <1>3
<1> HIDE DEF B, G, C
<1>12. B = K \union G /\ K \cap G = {} /\ K \cap C = {}
  BY <1>8, <1>10
<1>13. /\ \A m \in K : \E q \in AllPieces : m = Entry(q)
       /\ \A m \in G : \E q \in AllPieces : m = Entry(q)
       /\ \A m \in K \union G : \E q \in AllPieces : m = Entry(q)
       /\ \A m \in K \union C : \E q \in AllPieces : m = Entry(q)
  BY <1>11, <1>12
<1> HIDE DEF K
<1>14. /\ IsFiniteSet(K) /\ IsFiniteSet(G) /\ IsFiniteSet(C)
  BY <1>11, <1>13, EntriesFinite
<1>15. /\ \A m \in K \union G : ChunksOf[m] \in Nat
       /\ \A m \in K \union C : ChunksOf[m] \in Nat
       /\ SumNeedMem(K \union G) = SumFunctionOnSet(ChunksOf, K \union G)
       /\ SumNeedMem(K \union C) = SumFunctionOnSet(ChunksOf, K \union C)
  BY <1>13, ChunksType
<1>16. /\ SumNeedMem(K) \in Nat /\ SumNeedMem(K) = SumFunctionOnSet(ChunksOf, K)
       /\ SumNeedMem(G) \in Nat /\ SumNeedMem(G) = SumFunctionOnSet(ChunksOf, G)
       /\ SumNeedMem(C) \in Nat /\ SumNeedMem(C) = SumFunctionOnSet(ChunksOf, C)
  BY <1>11, <1>13, ChunksType
<1>17. SumNeedMem(K \union G) = SumNeedMem(K) + SumNeedMem(G)
  BY <1>12, <1>14, <1>15, <1>16, SumUnion
<1>18. SumNeedMem(K \union C) = SumNeedMem(K) + SumNeedMem(C)
  BY <1>12, <1>14, <1>15, <1>16, SumUnion
<1>19. ChunksAfter(b - 1) = SumNeedMem(K \union G)
  BY <1>12 DEF ChunksAfter, B
<1>20. ChunksAfter(b) = SumNeedMem(K \union C)
  BY <1>9 DEF ChunksAfter
<1>21. ChunksAfter(b) = ChunksAfter(b - 1) - SumNeedMem(G) + SumNeedMem(C)
  BY <1>16, <1>17, <1>18, <1>19, <1>20
<1>22. QED BY <1>9, <1>21 DEF K, B, G, C

\* What a list of the pieces of block b brings
Brings(s, b) == {[dest |-> s[n].dest, len |-> s[n].len] :
                   n \in {k \in DOMAIN s : s[k].dest >= End(b) /\ s[k].len < maximum_save}}

ReadOf(l, ps) ==
  /\ DOMAIN l = 1 .. Len(ps)
  /\ \A n \in 1 .. Len(ps) : l[n].dest = ps[n].dest /\ l[n].len = ps[n].len

LEMMA BringsIs ==
  ASSUME NEW b, NEW ps, PieceSeq(b, ps), NEW l, ReadOf(l, ps)
  PROVE  /\ Brings(l, b) = ComesIn(b)
         /\ {[dest |-> m.dest, len |-> m.len] :
               m \in {k \in ToSet(l) : k.dest >= End(b) /\ k.len < maximum_save}} = ComesIn(b)
<1>1. /\ DOMAIN l = 1 .. Len(ps)
      /\ \A n \in 1 .. Len(ps) : l[n].dest = ps[n].dest /\ l[n].len = ps[n].len
  BY DEF ReadOf
<1>2. /\ \A n \in 1 .. Len(ps) : ps[n] \in PiecesOf(b)
      /\ \A q \in PiecesOf(b) : \E n \in 1 .. Len(ps) : ps[n] = q
  BY DEF PieceSeq
<1> DEFINE A == {[dest |-> m.dest, len |-> m.len] :
                   m \in {k \in ToSet(l) : k.dest >= End(b) /\ k.len < maximum_save}}
<1>3. A = Brings(l, b)
  BY DEF ToSet, Brings
<1>4. ASSUME NEW e \in Brings(l, b)
      PROVE  e \in ComesIn(b)
  <2>1. PICK n \in DOMAIN l : /\ e = [dest |-> l[n].dest, len |-> l[n].len]
                              /\ l[n].dest >= End(b) /\ l[n].len < maximum_save
    BY DEF Brings
  <2>2. e = Entry(ps[n]) /\ ps[n] \in PiecesOf(b) /\ ps[n].dest >= End(b) /\ ps[n].len < maximum_save
    BY <1>1, <1>2, <2>1 DEF Entry
  <2>3. QED BY <2>2 DEF ComesIn
<1>5. ASSUME NEW e \in ComesIn(b)
      PROVE  e \in Brings(l, b)
  <2>1. PICK q \in PiecesOf(b) : e = Entry(q) /\ q.dest >= End(b) /\ q.len < maximum_save
    BY DEF ComesIn
  <2>2. PICK n \in 1 .. Len(ps) : ps[n] = q
    BY <1>2
  <2>3. /\ n \in DOMAIN l /\ e = [dest |-> l[n].dest, len |-> l[n].len]
        /\ l[n].dest >= End(b) /\ l[n].len < maximum_save
    BY <1>1, <2>1, <2>2 DEF Entry
  <2>4. QED BY <2>3 DEF Brings
<1> HIDE DEF A
<1>6. Brings(l, b) = ComesIn(b)
  BY <1>4, <1>5
<1>7. QED BY <1>3, <1>6 DEF A

\* The second pass has estimated the first k blocks
Estimated(k) ==
  /\ k \in Nat /\ eheap = SavedAfter(k) /\ ram = ChunksAfter(k)
  /\ rams \in Seq(Nat) /\ Len(rams) = k
  /\ \A n \in 1 .. k : rams[n] = ChunksAfter(n)

EstimateKept ==
  /\ phase \in {"find", "sort"} => eheap = {} /\ ram = 0 /\ rams = <<>>
  /\ phase = "encode" => Estimated(Len(stats))
  /\ phase \in {"read", "done"} \union BlockPhases /\ format # "io" => Estimated(NumBlocks)
  /\ phase = "done" => Listed

LEMMA SameEstimate ==
  ASSUME UNCHANGED given, NEW k
  PROVE  SavedAfter(k)' = SavedAfter(k) /\ ChunksAfter(k)' = ChunksAfter(k)
<1>1. AllPieces' = AllPieces
  BY SamePieces
<1>2. SavedAfter(k)' = SavedAfter(k)
  BY <1>1 DEF SavedAfter, Saves, WaitsFor, Start, Entry
<1>3. ChunksAfter(k)' = ChunksAfter(k)
  BY <1>2 DEF ChunksAfter
<1>4. QED BY <1>2, <1>3

LEMMA EstimatedSame ==
  ASSUME UNCHANGED <<given, eheap, ram, rams>>, NEW k, Estimated(k)
  PROVE  Estimated(k)'
<1>1. UNCHANGED given /\ eheap' = eheap /\ ram' = ram /\ rams' = rams
  OBVIOUS
<1>2. SavedAfter(k)' = SavedAfter(k) /\ \A n : ChunksAfter(n)' = ChunksAfter(n)
  BY <1>1, SameEstimate
<1>3. PICK r : r = rams
  OBVIOUS
<1>4. rams' = r /\ r \in Seq(Nat) /\ Len(r) = k /\ \A n \in 1 .. k : r[n] = ChunksAfter(n)
  BY <1>1, <1>3 DEF Estimated
<1>5. \A n \in 1 .. k : r[n] = ChunksAfter(n)'
  BY <1>2, <1>4
<1>6. QED BY <1>1, <1>2, <1>4, <1>5 DEF Estimated

LEMMA EstimatedNone ==
  ASSUME File, eheap = {}, ram = 0, rams = <<>>
  PROVE  Estimated(0)
<1>1. rams \in Seq(Nat) /\ Len(rams) = 0
  BY EmptySeq
<1>2. QED BY <1>1, NoneSaved DEF Estimated

LEMMA EncodeEstimate ==
  ASSUME IInv, EstimateKept, EncodeBlock
  PROVE  EstimateKept'
<1> DEFINE b == Len(stats) + 1
           ps == Pieces(b)
<1>1. UNCHANGED <<given, lz_matches, decoder>> /\ phase = "encode" /\ Len(stats) < NumBlocks
  BY DEF EncodeBlock
<1>2. UNCHANGED given /\ File /\ format # "io" /\ NumBlocks' = NumBlocks /\ NumBlocks \in Nat
  BY <1>1, KeptFile DEF IInv, PhaseKept
<1>3. /\ LzKept /\ stats \in Seq(Seq(Nat)) /\ Passed(b)
  BY <1>1 DEF IInv, ListsKept, Encoded
<1>4. Len(stats) \in Nat
  BY <1>3, LenProperties
<1>5. b \in 1 .. NumBlocks /\ b \in Nat /\ b - 1 = Len(stats)
  BY <1>1, <1>2, <1>4
<1>6. PieceSeq(b, ps)
  BY <1>2, <1>3, <1>5, PiecesAre
<1>7. Estimated(Len(stats))
  BY <1>1 DEF EstimateKept
<1>8. /\ stats' = Append(stats, PieceList(ps, b))
      /\ eheap' = (eheap \ {m \in eheap : m.dest < End(b)}) \union Brings(ps, b)
      /\ ram' = ram - SumNeedMem({m \in eheap : m.dest < End(b)}) + SumNeedMem(Brings(ps, b))
      /\ rams' = Append(rams, ram')
      /\ phase' = IF Len(stats) + 1 = NumBlocks THEN "read" ELSE "encode"
  BY DEF EncodeBlock, Brings
<1>9. Len(stats') = b
  BY <1>4, <1>8
<1> HIDE DEF ps
<1>10. Brings(ps, b) = ComesIn(b)
  <2>1. ReadOf(ps, ps)
    <3>1. ps \in Seq(Match)
      BY <1>6 DEF PieceSeq
    <3>2. DOMAIN ps = 1 .. Len(ps)
      BY <3>1, LenProperties
    <3>3. QED BY <3>2 DEF ReadOf
  <2>2. QED BY <1>6, <2>1, BringsIs
<1>11. PICK c, k, r : c = b /\ k = b - 1 /\ r = rams
  OBVIOUS
<1>12. c \in 1 .. NumBlocks /\ c \in Nat /\ k = c - 1 /\ k = Len(stats) /\ k \in Nat /\ c = k + 1
  BY <1>5, <1>11
<1>13. eheap = SavedAfter(k) /\ ram = ChunksAfter(k)
       /\ r \in Seq(Nat) /\ Len(r) = k /\ \A n \in 1 .. k : r[n] = ChunksAfter(n)
  BY <1>7, <1>11, <1>12 DEF Estimated
<1> HIDE DEF b
<1>14. {m \in eheap : m.dest < End(c)} = GoneIn(c)
  BY <1>12, <1>13 DEF GoneIn
<1>15. eheap' = SavedAfter(c) /\ ram' = ChunksAfter(c)
  <2>1. /\ SavedAfter(c) = (SavedAfter(k) \ GoneIn(c)) \union ComesIn(c)
        /\ ChunksAfter(c) = ChunksAfter(k) - SumNeedMem(GoneIn(c)) + SumNeedMem(ComesIn(c))
    BY <1>2, <1>12, SavedNext
  <2>2. QED BY <1>8, <1>10, <1>11, <1>13, <1>14, <2>1
<1>16. PICK t : t = Append(r, ChunksAfter(c))
  OBVIOUS
<1>17. rams' = t
  BY <1>8, <1>11, <1>15, <1>16
<1>18. /\ t \in Seq(Nat) /\ Len(t) = c /\ t[c] = ChunksAfter(c)
       /\ \A n \in 1 .. k : t[n] = r[n]
  <2>1. ChunksAfter(c) \in Nat
    BY <1>2, AfterType
  <2>2. QED BY <1>12, <1>13, <1>16, <2>1, AppendProperties
<1>19. \A n \in 1 .. c : t[n] = ChunksAfter(n)
  <2>1. \A n \in 1 .. c : n \in 1 .. k \/ n = c
    BY <1>12
  <2>2. QED BY <1>13, <1>18, <2>1
<1>20. \A n : SavedAfter(n)' = SavedAfter(n) /\ ChunksAfter(n)' = ChunksAfter(n)
  BY <1>2, SameEstimate
<1>21. Estimated(c)'
  <2>1. \A n \in 1 .. c : t[n] = ChunksAfter(n)'
    BY <1>19, <1>20
  <2>2. QED BY <1>12, <1>15, <1>17, <1>18, <1>20, <2>1 DEF Estimated
<1>22. Len(stats)' = c
  BY <1>9, <1>11
<1>23. CASE k + 1 = NumBlocks
  <2>1. phase' = "read" /\ NumBlocks' = c
    BY <1>2, <1>8, <1>12, <1>23
  <2>2. Estimated(NumBlocks)'
    BY <1>21, <2>1
  <2>3. QED BY <2>1, <2>2 DEF EstimateKept
<1>24. CASE k + 1 # NumBlocks
  <2>1. phase' = "encode"
    BY <1>8, <1>12, <1>24
  <2>2. Estimated(Len(stats))'
    BY <1>21, <1>22
  <2>3. QED BY <2>1, <2>2 DEF EstimateKept, BlockPhases
<1>25. QED BY <1>23, <1>24

\* The decoder leaves the estimate as it is
LEMMA DecoderEstimate ==
  ASSUME IInv, EstimateKept, UNCHANGED <<given, encoder>>,
         phase \in {"read", "done"} \union BlockPhases,
         phase' \in {"read", "done", "bad", "refused"} \union BlockPhases
  PROVE  EstimateKept'
<1>1. /\ UNCHANGED given /\ UNCHANGED <<given, stats>> /\ UNCHANGED <<given, eheap, ram, rams>>
      /\ format' = format
  BY DEF encoder, given
<1>2. PICK k : k = NumBlocks
  OBVIOUS
<1>3. NumBlocks' = k
  BY <1>1, <1>2, KeptFile
<1>4. Listed
  BY DEF EstimateKept, IInv, ListsKept
<1>5. Listed'
  BY <1>1, <1>4, ListedSame
<1>6. format # "io" => Estimated(k)
  BY <1>2 DEF EstimateKept
<1>7. format # "io" => Estimated(NumBlocks)'
  <2>1. ASSUME format # "io"
        PROVE  Estimated(NumBlocks)'
    <3>1. Estimated(k)'
      BY <1>1, <1>6, <2>1, EstimatedSame
    <3>2. QED BY <1>3, <3>1
  <2>2. QED BY <2>1
<1>8. phase' \notin {"find", "sort", "encode"}
  BY DEF BlockPhases
<1>9. QED BY <1>1, <1>5, <1>7, <1>8 DEF EstimateKept

LEMMA EstimateStutters ==
  ASSUME IInv, EstimateKept, UNCHANGED vars
  PROVE  EstimateKept'
<1>1. /\ UNCHANGED given /\ UNCHANGED <<given, stats>> /\ UNCHANGED <<given, eheap, ram, rams>>
      /\ format' = format /\ phase' = phase
  BY DEF vars, encoder, given
<1>2. PICK k, n : k = NumBlocks /\ n = Len(stats)
  OBVIOUS
<1>3. NumBlocks' = k /\ Len(stats)' = n
  BY <1>1, <1>2, KeptFile
<1>4. phase = "encode" => Estimated(Len(stats))'
  <2>1. ASSUME phase = "encode"
        PROVE  Estimated(Len(stats))'
    <3>1. Estimated(n)
      BY <1>2, <2>1 DEF EstimateKept
    <3>2. Estimated(n)'
      BY <1>1, <3>1, EstimatedSame
    <3>3. QED BY <1>3, <3>2
  <2>2. QED BY <2>1
<1>5. phase \in {"read", "done"} \union BlockPhases /\ format # "io" => Estimated(NumBlocks)'
  <2>1. ASSUME phase \in {"read", "done"} \union BlockPhases, format # "io"
        PROVE  Estimated(NumBlocks)'
    <3>1. Estimated(k)
      BY <1>2, <2>1 DEF EstimateKept
    <3>2. Estimated(k)'
      BY <1>1, <3>1, EstimatedSame
    <3>3. QED BY <1>3, <3>2
  <2>2. QED BY <2>1
<1>6. Listed => Listed'
  BY <1>1, ListedSame
<1>7. QED BY <1>1, <1>4, <1>5, <1>6 DEF EstimateKept

LEMMA EstimateNext ==
  ASSUME IInv, EstimateKept, [Next]_vars
  PROVE  EstimateKept'
<1>1. CASE FindMatch
  <2>1. phase' = "find" /\ phase = "find" /\ eheap' = eheap /\ ram' = ram /\ rams' = rams
    BY <1>1 DEF FindMatch, encoder
  <2>2. QED BY <2>1 DEF EstimateKept, BlockPhases
<1>2. CASE FirstPassEnds
  <2>1. /\ phase = "find" /\ eheap' = eheap /\ ram' = ram /\ rams' = rams /\ format' = format
        /\ phase' = IF format = "io" THEN "read" ELSE "sort"
    BY <1>2 DEF FirstPassEnds, given
  <2>2. QED BY <2>1 DEF EstimateKept, BlockPhases
<1>3. CASE SortMatches
  <2>1. /\ phase = "sort" /\ phase' = "encode" /\ UNCHANGED given
        /\ UNCHANGED <<given, eheap, ram, rams>> /\ stats' = stats
    BY <1>3 DEF SortMatches
  <2>2. stats = <<>> /\ File /\ eheap = {} /\ ram = 0 /\ rams = <<>>
    BY <2>1 DEF IInv, PhaseKept, EstimateKept
  <2>3. Estimated(0)
    BY <2>2, EstimatedNone
  <2>4. Estimated(0)'
    BY <2>1, <2>3, EstimatedSame
  <2>5. Len(stats)' = 0
    BY <2>1, <2>2
  <2>6. Estimated(Len(stats))'
    BY <2>4, <2>5
  <2>7. QED BY <2>1, <2>6 DEF EstimateKept, BlockPhases
<1>4. CASE EncodeBlock
  BY <1>4, EncodeEstimate
<1>5. CASE ReadBlock
  <2>1. /\ UNCHANGED <<given, encoder>> /\ phase = "read"
        /\ phase' \in {"copyIO", "insert", "done", "bad", "refused"}
    BY <1>5 DEF ReadBlock
  <2>2. QED BY <2>1, DecoderEstimate DEF BlockPhases
<1>6. CASE DecodeIO
  <2>1. UNCHANGED <<given, encoder>> /\ phase = "copyIO" /\ phase' \in {"copyIO", "bad"}
    BY <1>6 DEF DecodeIO
  <2>2. QED BY <2>1, DecoderEstimate DEF BlockPhases
<1>7. CASE DecodeTailIO
  <2>1. UNCHANGED <<given, encoder>> /\ phase = "copyIO" /\ phase' \in {"written", "bad"}
    BY <1>7 DEF DecodeTailIO
  <2>2. QED BY <2>1, DecoderEstimate DEF BlockPhases
<1>8. Decoded => phase' \in {"done", "read", "bad"}
  BY DEF Decoded
<1>9. CASE FinishIO
  <2>1. UNCHANGED <<given, encoder>> /\ phase = "written" /\ phase' \in {"done", "read", "bad"}
    BY <1>8, <1>9 DEF FinishIO
  <2>2. QED BY <2>1, DecoderEstimate DEF BlockPhases
<1>10. CASE InsertMatches
  <2>1. UNCHANGED <<given, encoder>> /\ phase = "insert" /\ phase' \in {"copy", "bad"}
    BY <1>10 DEF InsertMatches
  <2>2. QED BY <2>1, DecoderEstimate DEF BlockPhases
<1>11. CASE DecodeMatch
  <2>1. UNCHANGED <<given, encoder>> /\ phase = "copy" /\ phase' \in {"copy", "bad"}
    BY <1>11 DEF DecodeMatch
  <2>2. QED BY <2>1, DecoderEstimate DEF BlockPhases
<1>12. CASE DecodeTail
  <2>1. UNCHANGED <<given, encoder>> /\ phase = "copy" /\ phase' \in {"future", "bad"}
    BY <1>12 DEF DecodeTail
  <2>2. QED BY <2>1, DecoderEstimate DEF BlockPhases
<1>13. CASE FinishBlock
  <2>1. UNCHANGED <<given, encoder>> /\ phase = "future" /\ phase' \in {"done", "read", "bad"}
    BY <1>8, <1>13 DEF FinishBlock
  <2>2. QED BY <2>1, DecoderEstimate DEF BlockPhases
<1>14. CASE OverflowStatbuf
  <2>1. phase' = "overflow"
    BY <1>14 DEF OverflowStatbuf
  <2>2. QED BY <2>1 DEF EstimateKept, BlockPhases
<1>15. CASE UNCHANGED vars
  BY <1>15, EstimateStutters
<1>16. QED
  BY <1>1, <1>2, <1>3, <1>4, <1>5, <1>6, <1>7, <1>9, <1>10, <1>11, <1>12, <1>13, <1>14, <1>15 DEF Next

\* The chunks the decoder holds between two blocks are those of the pieces saved
LEMMA HeapEstimated ==
  ASSUME IInv, EstimateKept, phase = "read", blk > 1, format # "io"
  PROVE  SumNeedMem({[dest |-> m.dest, len |-> m.len] : m \in {n \in heap : n.data # NoData}})
           = rams[blk - 1]
<1>1. /\ File /\ HeapFor(heap, blk) /\ blk \in Nat /\ blk <= NumBlocks + 1
      /\ NumBlocks \in Nat /\ Estimated(NumBlocks)
  BY BlocksAre DEF IInv, PhaseKept, HeapKept, EstimateKept, File
<1>2. blk - 1 \in 1 .. NumBlocks /\ blk - 1 + 1 = blk
  BY <1>1
<1> DEFINE H == {[dest |-> m.dest, len |-> m.len] : m \in {n \in heap : n.data # NoData}}
<1>3. ASSUME NEW q \in AllPieces, WaitsFor(q, blk)
      PROVE  Held(q, blk) # NoData <=> q.len < maximum_save
  <2>1. Bytes(q) # NoData /\ q.src < Start(blk)
    BY <1>1, <1>3, BytesAre DEF WaitsFor
  <2>2. QED BY <2>1 DEF Held
<1>4. ASSUME NEW e \in H
      PROVE  e \in SavedAfter(blk - 1)
  <2>1. PICK m \in heap : m.data # NoData /\ e = [dest |-> m.dest, len |-> m.len]
    OBVIOUS
  <2>2. PICK q \in AllPieces : WaitsFor(q, blk) /\ m = Pending(q, Held(q, blk))
    BY <1>1, <2>1 DEF HeapFor
  <2>3. m.dest = q.dest /\ m.len = q.len /\ m.data = Held(q, blk)
    BY <2>2, PendingIs
  <2>4. Saves(q, blk - 1) /\ e = Entry(q)
    BY <1>2, <1>3, <2>1, <2>2, <2>3 DEF Saves, Entry
  <2>5. QED BY <2>4 DEF SavedAfter
<1>5. ASSUME NEW e \in SavedAfter(blk - 1)
      PROVE  e \in H
  <2>1. PICK q \in AllPieces : e = Entry(q) /\ Saves(q, blk - 1)
    BY SavedPieces
  <2>2. WaitsFor(q, blk) /\ q.len < maximum_save
    BY <1>2, <2>1 DEF Saves
  <2>3. PICK m : m = Pending(q, Held(q, blk))
    OBVIOUS
  <2>4. m \in heap /\ m.dest = q.dest /\ m.len = q.len /\ m.data = Held(q, blk)
    BY <1>1, <2>2, <2>3, PendingIs DEF HeapFor
  <2>5. m.data # NoData
    BY <1>3, <2>2, <2>4
  <2>6. QED BY <2>1, <2>4, <2>5 DEF Entry
<1> HIDE DEF H
<1>6. H = SavedAfter(blk - 1)
  BY <1>4, <1>5
<1>7. rams[blk - 1] = ChunksAfter(blk - 1)
  BY <1>1, <1>2 DEF Estimated
<1>8. QED BY <1>6, <1>7 DEF H, ChunksAfter

-----------------------------------------------------------------------------
(* The information mode.                                                   *)

\* One step of the recursion of Info
InfoAt(I, b) ==
  IF b = 0 THEN [heap |-> {}, ram |-> 0, max |-> 0]
  ELSE LET list  == ReadList(stats[b], TRUE, ArchiveRounds, FUTURELZ_BASE_LEN, Start(b))
           gone  == {m \in I[b - 1].heap : m.dest < End(b)}
           saved == {[dest |-> m.dest, len |-> m.len] :
                       m \in {k \in ToSet(list) : /\ k.dest >= End(b)
                                                  /\ k.len < maximum_save}}
           now   == I[b - 1].ram - SumNeedMem(gone) + SumNeedMem(saved)
       IN  [heap |-> (I[b - 1].heap \ gone) \union saved, ram |-> now,
            max  |-> Max({now, I[b - 1].max})]

LEMMA InfoIs == Info = CHOOSE I : I = [b \in 0 .. NumBlocks |-> InfoAt(I, b)]
BY DEF Info, InfoAt

\* The most chunks after the first b blocks
MostAfter(b) == Max({ChunksAfter(k) : k \in 0 .. b})

EstimateOf(b) == [heap |-> SavedAfter(b), ram |-> ChunksAfter(b), max |-> MostAfter(b)]

LEMMA Greatest ==
  ASSUME NEW S, S \subseteq Nat, NEW x \in S, \A y \in S : y <= x
  PROVE  Max(S) = x
<1>1. x \in Nat
  OBVIOUS
<1>2. Max(S) \in S /\ \A y \in S : y <= Max(S)
  BY <1>1, MaxIs
<1>3. Max(S) \in Nat /\ Max(S) <= x /\ x <= Max(S)
  BY <1>2
<1>4. QED BY <1>1, <1>3

LEMMA MostIs ==
  ASSUME File, NEW b \in Nat
  PROVE  \E k \in 0 .. b : /\ MostAfter(b) = ChunksAfter(k) /\ MostAfter(b) \in Nat
                           /\ \A n \in 0 .. b : ChunksAfter(n) <= ChunksAfter(k)
<1> DEFINE P(j, k) == k \in 0 .. j /\ \A n \in 0 .. j : ChunksAfter(n) <= ChunksAfter(k)
           A == {j \in Nat : \E k : P(j, k)}
<1>1. \A n : ChunksAfter(n) \in Nat
  BY AfterType
<1>2. 0 \in A
  <2>1. P(0, 0)
    BY <1>1
  <2>2. QED BY <2>1
<1>3. ASSUME NEW j \in Nat, j \in A
      PROVE  j + 1 \in A
  <2>1. PICK k : k \in 0 .. j /\ \A n \in 0 .. j : ChunksAfter(n) <= ChunksAfter(k)
    BY <1>3
  <2>2. \A n \in 0 .. j + 1 : n \in 0 .. j \/ n = j + 1
    OBVIOUS
  <2>3. ChunksAfter(j + 1) \in Nat /\ ChunksAfter(k) \in Nat
    BY <1>1
  <2>4. CASE ChunksAfter(j + 1) <= ChunksAfter(k)
    <3>1. P(j + 1, k)
      BY <2>1, <2>2, <2>4
    <3>2. QED BY <3>1
  <2>5. CASE ~(ChunksAfter(j + 1) <= ChunksAfter(k))
    <3>1. ASSUME NEW n \in 0 .. j + 1
          PROVE  ChunksAfter(n) <= ChunksAfter(j + 1)
      <4>1. ChunksAfter(n) \in Nat
        BY <1>1
      <4>2. n = j + 1 \/ ChunksAfter(n) <= ChunksAfter(k)
        BY <2>1, <2>2
      <4>3. QED BY <2>3, <2>5, <4>1, <4>2
    <3>2. P(j + 1, j + 1)
      BY <3>1
    <3>3. QED BY <3>2
  <2>6. QED BY <2>4, <2>5
<1>4. PICK k : P(b, k)
  <2> HIDE DEF A, P
  <2>1. b \in A
    BY <1>2, <1>3, AllNumbers
  <2>2. QED BY <2>1 DEF A
<1>5. k \in 0 .. b /\ \A n \in 0 .. b : ChunksAfter(n) <= ChunksAfter(k)
  BY <1>4
<1> HIDE DEF P, A
<1> DEFINE S == {ChunksAfter(n) : n \in 0 .. b}
<1>6. S \subseteq Nat /\ ChunksAfter(k) \in S /\ \A y \in S : y <= ChunksAfter(k)
  BY <1>1, <1>5
<1> HIDE DEF S
<1>7. Max(S) = ChunksAfter(k)
  BY <1>6, Greatest
<1>8. MostAfter(b) = ChunksAfter(k)
  BY <1>7 DEF MostAfter, S
<1>9. QED BY <1>1, <1>5, <1>8

LEMMA MostNext ==
  ASSUME File, NEW b \in Nat
  PROVE  MostAfter(b + 1) = Max({ChunksAfter(b + 1), MostAfter(b)})
<1>1. PICK k \in 0 .. b : /\ MostAfter(b) = ChunksAfter(k) /\ MostAfter(b) \in Nat
                          /\ \A n \in 0 .. b : ChunksAfter(n) <= ChunksAfter(k)
  BY MostIs
<1>2. PICK j \in 0 .. b + 1 : /\ MostAfter(b + 1) = ChunksAfter(j) /\ MostAfter(b + 1) \in Nat
                              /\ \A n \in 0 .. b + 1 : ChunksAfter(n) <= ChunksAfter(j)
  BY MostIs
<1>3. ChunksAfter(b + 1) \in Nat /\ ChunksAfter(k) \in Nat /\ ChunksAfter(j) \in Nat
  BY AfterType
<1>4. ChunksAfter(b + 1) <= ChunksAfter(j) /\ ChunksAfter(k) <= ChunksAfter(j)
  BY <1>1, <1>2
<1>5. j = b + 1 \/ ChunksAfter(j) <= ChunksAfter(k)
  <2>1. j = b + 1 \/ j \in 0 .. b
    BY <1>2
  <2>2. QED BY <1>1, <2>1
<1>6. ChunksAfter(j) = IF ChunksAfter(b + 1) >= ChunksAfter(k) THEN ChunksAfter(b + 1) ELSE ChunksAfter(k)
  BY <1>3, <1>4, <1>5
<1>7. Max({ChunksAfter(b + 1), ChunksAfter(k)})
        = IF ChunksAfter(b + 1) >= ChunksAfter(k) THEN ChunksAfter(b + 1) ELSE ChunksAfter(k)
  BY <1>3, Max2
<1>8. QED BY <1>1, <1>2, <1>6, <1>7

\* A step of the information mode does what the second pass did
LEMMA InfoNext ==
  ASSUME File, format # "io", Listed, NEW b \in 1 .. NumBlocks,
         NEW I, I[b - 1] = EstimateOf(b - 1)
  PROVE  InfoAt(I, b) = EstimateOf(b)
<1> DEFINE list == ReadFor(b, stats[b])
           saved == {[dest |-> m.dest, len |-> m.len] :
                       m \in {k \in ToSet(list) : k.dest >= End(b) /\ k.len < maximum_save}}
<1>1. NumBlocks \in Nat /\ b \in Nat /\ b # 0 /\ b - 1 \in Nat /\ b - 1 + 1 = b
  BY BlocksAre DEF File
<1>2. ListOf(b, stats[b])
  BY ListedIs
<1>3. PICK ps : /\ PieceSeq(b, ps) /\ DOMAIN list = 1 .. Len(ps)
                /\ \A n \in 1 .. Len(ps) : list[n].dest = ps[n].dest /\ list[n].len = ps[n].len
  <2>1. PICK l : l = list
    OBVIOUS
  <2> HIDE DEF list
  <2>2. l = ReadFor(b, stats[b])
    BY <2>1 DEF list
  <2>3. QED BY <1>2, <2>1, <2>2, ReadForIs
<1> HIDE DEF list
<1>4. saved = ComesIn(b)
  BY <1>3, BringsIs DEF ReadOf
<1>5. I[b - 1].heap = SavedAfter(b - 1) /\ I[b - 1].ram = ChunksAfter(b - 1)
      /\ I[b - 1].max = MostAfter(b - 1)
  BY DEF EstimateOf
<1>6. {m \in I[b - 1].heap : m.dest < End(b)} = GoneIn(b)
  BY <1>5 DEF GoneIn
<1> DEFINE now == ChunksAfter(b - 1) - SumNeedMem(GoneIn(b)) + SumNeedMem(ComesIn(b))
<1>7. InfoAt(I, b) = [heap |-> (SavedAfter(b - 1) \ GoneIn(b)) \union saved,
                      ram |-> ChunksAfter(b - 1) - SumNeedMem(GoneIn(b)) + SumNeedMem(saved),
                      max |-> Max({ChunksAfter(b - 1) - SumNeedMem(GoneIn(b)) + SumNeedMem(saved),
                                   MostAfter(b - 1)})]
  BY <1>1, <1>5, <1>6 DEF InfoAt, ReadFor, list
<1> HIDE DEF saved
<1>8. SavedAfter(b) = (SavedAfter(b - 1) \ GoneIn(b)) \union ComesIn(b) /\ ChunksAfter(b) = now
  BY SavedNext
<1>9. MostAfter(b) = Max({ChunksAfter(b), MostAfter(b - 1)})
  BY <1>1, MostNext
<1> HIDE DEF now
<1>10. InfoAt(I, b) = [heap |-> (SavedAfter(b - 1) \ GoneIn(b)) \union ComesIn(b),
                       ram |-> now, max |-> Max({now, MostAfter(b - 1)})]
  BY <1>4, <1>7 DEF now
<1>11. QED BY <1>8, <1>9, <1>10 DEF EstimateOf

LEMMA InfoFirst ==
  ASSUME File, NEW I
  PROVE  InfoAt(I, 0) = EstimateOf(0)
<1>1. SavedAfter(0) = {} /\ ChunksAfter(0) = 0
  BY NoneSaved
<1>2. PICK k \in 0 .. 0 : MostAfter(0) = ChunksAfter(k)
  BY MostIs
<1>3. k = 0
  OBVIOUS
<1>4. MostAfter(0) = 0
  BY <1>1, <1>2, <1>3
<1>5. QED BY <1>1, <1>4 DEF InfoAt, EstimateOf

LEMMA InfoRight ==
  ASSUME File, format # "io", Listed
  PROVE  Info[NumBlocks] = EstimateOf(NumBlocks)
<1>1. NumBlocks \in Nat
  BY BlocksAre DEF File
<1> DEFINE F == [b \in 0 .. NumBlocks |-> EstimateOf(b)]
<1>2. ASSUME NEW b \in 0 .. NumBlocks
      PROVE  InfoAt(F, b) = EstimateOf(b)
  <2>1. CASE b = 0
    BY <2>1, InfoFirst
  <2>2. CASE b # 0
    <3>1. b \in 1 .. NumBlocks /\ b - 1 \in 0 .. NumBlocks
      BY <1>1, <2>2
    <3>2. F[b - 1] = EstimateOf(b - 1)
      BY <3>1
    <3> HIDE DEF F
    <3>3. QED BY <3>1, <3>2, InfoNext
  <2>3. QED BY <2>1, <2>2
<1>3. F = [b \in 0 .. NumBlocks |-> InfoAt(F, b)]
  BY <1>2
<1> HIDE DEF F
<1>4. Info = [b \in 0 .. NumBlocks |-> InfoAt(Info, b)]
  BY <1>3, InfoIs
<1> DEFINE A == {k \in Nat : k <= NumBlocks => Info[k] = EstimateOf(k)}
<1>5. 0 \in A
  <2>1. Info[0] = InfoAt(Info, 0)
    BY <1>1, <1>4
  <2>2. QED BY <2>1, InfoFirst
<1>6. ASSUME NEW k \in Nat, k \in A
      PROVE  k + 1 \in A
  <2>1. SUFFICES ASSUME k + 1 <= NumBlocks
                 PROVE  Info[k + 1] = EstimateOf(k + 1)
    OBVIOUS
  <2>2. k + 1 \in 1 .. NumBlocks /\ k + 1 \in 0 .. NumBlocks /\ k + 1 - 1 = k /\ Info[k] = EstimateOf(k)
    BY <1>1, <1>6, <2>1
  <2>3. Info[k + 1] = InfoAt(Info, k + 1)
    BY <1>4, <2>2
  <2> HIDE DEF A
  <2>4. PICK n : n = k + 1
    OBVIOUS
  <2>5. n \in 1 .. NumBlocks /\ Info[n - 1] = EstimateOf(n - 1)
    BY <2>2, <2>4
  <2>6. InfoAt(Info, n) = EstimateOf(n)
    BY <2>5, InfoNext
  <2>7. QED BY <2>3, <2>4, <2>6
<1>7. NumBlocks \in A
  <2> HIDE DEF A
  <2>1. QED BY <1>1, <1>5, <1>6, AllNumbers
<1>8. QED BY <1>1, <1>7

LEMMA InfoEstimated ==
  ASSUME IInv, EstimateKept, phase = "done", format # "io"
  PROVE  Info[NumBlocks].max = Max(ToSet(rams))
<1>1. File /\ NumBlocks \in Nat /\ NumBlocks >= 1 /\ Listed /\ Estimated(NumBlocks)
  BY BlocksAre DEF IInv, EstimateKept, File
<1>2. Info[NumBlocks].max = MostAfter(NumBlocks)
  BY <1>1, InfoRight DEF EstimateOf
<1>3. PICK k \in 0 .. NumBlocks :
        /\ MostAfter(NumBlocks) = ChunksAfter(k) /\ MostAfter(NumBlocks) \in Nat
        /\ \A n \in 0 .. NumBlocks : ChunksAfter(n) <= ChunksAfter(k)
  BY <1>1, MostIs
<1>4. \A n : ChunksAfter(n) \in Nat
  BY <1>1, AfterType
\* Nothing is saved before the first block
<1>5. PICK j \in 1 .. NumBlocks : ChunksAfter(j) = ChunksAfter(k)
  <2>1. CASE k = 0
    <3>1. ChunksAfter(k) = 0 /\ 1 \in 1 .. NumBlocks /\ 1 \in 0 .. NumBlocks
      BY <1>1, <2>1, NoneSaved
    <3>2. ChunksAfter(1) \in Nat /\ ChunksAfter(1) <= 0
      BY <1>3, <1>4, <3>1
    <3>3. ChunksAfter(1) = ChunksAfter(k)
      BY <3>1, <3>2
    <3>4. QED BY <3>1, <3>3
  <2>2. CASE k # 0
    <3>1. k \in 1 .. NumBlocks
      BY <1>1, <1>3, <2>2
    <3>2. QED BY <3>1
  <2>3. QED BY <2>1, <2>2
<1>6. /\ rams \in Seq(Nat) /\ DOMAIN rams = 1 .. NumBlocks
      /\ \A n \in 1 .. NumBlocks : rams[n] = ChunksAfter(n)
  BY <1>1, LenProperties DEF Estimated
<1>7. /\ ToSet(rams) \subseteq Nat /\ ChunksAfter(k) \in ToSet(rams)
      /\ \A y \in ToSet(rams) : y <= ChunksAfter(k)
  <2>1. ASSUME NEW y \in ToSet(rams)
        PROVE  y \in Nat /\ y <= ChunksAfter(k)
    <3>1. PICK n \in 1 .. NumBlocks : y = rams[n]
      BY <1>6 DEF ToSet
    <3>2. n \in 0 .. NumBlocks /\ y = ChunksAfter(n)
      BY <1>1, <1>6, <3>1
    <3>3. QED BY <1>3, <1>4, <3>2
  <2>2. rams[j] \in ToSet(rams) /\ rams[j] = ChunksAfter(k)
    BY <1>5, <1>6 DEF ToSet
  <2>3. QED BY <2>1, <2>2
<1>8. Max(ToSet(rams)) = ChunksAfter(k)
  BY <1>7, Greatest
<1>9. QED BY <1>2, <1>3, <1>8

\* The estimate that the compressor prints is exact: after each block the decoder
\* holds as many chunks as the second pass counted (decompress_FUTURE_LZ saves
\* what srep.cpp:861-916 expects), and the information mode (srep_dec.cpp:68-98)
\* computes the same maximum from the lists in the archive.
THEOREM EstimateRight ==
  ASSUME IndexIsOneBlock
  PROVE  Spec => []EstimateExact
<1>1. Init => EstimateKept
  BY DEF Init, EstimateKept, BlockPhases
<1>2. IInv /\ EstimateKept /\ [Next]_vars => EstimateKept'
  BY EstimateNext
<1>3. IInv /\ EstimateKept => EstimateExact
  BY HeapEstimated, InfoEstimated DEF EstimateExact
<1>4. Spec => []IInv
  BY Inductive
<1>5. QED BY <1>1, <1>2, <1>3, <1>4, PTL DEF Spec
=============================================================================
