------------------------ MODULE BlockCompressorProofs ------------------------
(***************************************************************************)
(* What a match record keeps of the match it was made from; and proofs     *)
(* about BlockCompressor for every file, block and length: the search      *)
(* reads only what the dictionary still holds, every match in the list     *)
(* repeats earlier bytes, the list can be encoded and decoded, fits its    *)
(* buffer, and keeps the matches it was merged from.                       *)
(***************************************************************************)
EXTENDS BlockCompressor, FoldTheorems

-----------------------------------------------------------------------------
(* MatchCodec.                                                             *)

\* A number that fits in two STATs is the sum of its words.
LEMMA TwoWords ==
  ASSUME NEW a \in 0 .. StatValues * StatValues - 1
  PROVE  AsStat(a) + AsStat(a \div StatValues) * StatValues = a
BY CodecAssumption, WordPair DEF AsStat

\* A small number is not changed by being stored in a STAT.
LEMMA SmallStat ==
  ASSUME NEW a \in 0 .. StatValues - 1
  PROVE  AsStat(a) = a
BY CodecAssumption DEF AsStat

\* A match is read as it was written behind position `pos`
Reads(round, B, pos, dest, src, len) ==
  Decode(FALSE, round, B, pos, Encode(round, B, dest - pos, dest - src, len))
    = [lit |-> dest - pos, len |-> len, src |-> src, dest |-> dest]

\* A match record of a block's own list (DECODE_LZ_MATCH with FUTURE_LZ ==
\* false and ROUND_MATCHES == false) gives back the match that was encoded, if
\* it was encoded with the base length the reader uses, is at least that long,
\* and its numbers fit: a block is smaller than 2^32, a file than 2^64 bytes.
THEOREM OwnListRoundTrip ==
  ASSUME NEW round, round = FALSE, NEW B \in Nat, NEW pos \in Nat,
         NEW dest \in Nat, NEW src \in Nat,
         NEW len \in 0 .. StatValues - 1,
         dest - pos \in 0 .. StatValues - 1,
         dest - src \in 0 .. StatValues * StatValues - 1,
         CanEncode(B, len)
  PROVE  Reads(round, B, pos, dest, src, len)
<1> DEFINE s == <<dest - pos, AsStat(dest - src),
                  AsStat((dest - src) \div StatValues), len - B>>
<1>0. StatValues \in Nat /\ StatValues > 0
  BY CodecAssumption
<1>1. Encode(round, B, dest - pos, dest - src, len) = s
  <2>1. len - B \in 0 .. StatValues - 1
    BY <1>0 DEF CanEncode
  <2>2. (len - B) \div 1 = len - B /\ (dest - src) \div 1 = dest - src
    BY <2>1, <1>0
  <2> QED
    BY <2>1, <2>2, SmallStat DEF Encode, Unit
<1>2. s[2] + s[3] * StatValues = dest - src
  BY TwoWords
<1>3. AsStat(s[4] * 1 + B) = len
  <2>1. s[4] * 1 + B = len
    BY DEF CanEncode
  <2> QED
    BY <2>1, SmallStat
<1>4. s[1] = dest - pos
  OBVIOUS
<1> HIDE DEF s
<1>5. Decode(FALSE, round, B, pos, s)
        = [lit |-> dest - pos, len |-> len, src |-> dest - (dest - src), dest |-> dest]
  <2>1. pos + s[1] = dest /\ dest \div 1 = dest
    BY <1>4
  <2>2. (s[2] + s[3] * StatValues) * 1 = dest - src
    BY <1>2
  <2> QED
    BY <2>1, <2>2, <1>3, <1>4 DEF Decode, Unit, StatsPerMatch
<1>6. dest - (dest - src) = src
  OBVIOUS
<1> QED
  BY <1>1, <1>5, <1>6 DEF Reads

\* The same for a match list of the second pass (FUTURE_LZ == true), where the
\* position is that of the source of the match before and the base length is 0.
THEOREM FutureListRoundTrip ==
  ASSUME NEW pos \in Nat, NEW dest \in Nat, NEW src \in Nat,
         NEW len \in 0 .. StatValues - 1,
         src - pos \in 0 .. StatValues - 1,
         dest - src \in 0 .. StatValues * StatValues - 1
  PROVE  Decode(TRUE, FALSE, 0, pos, Encode(FALSE, 0, src - pos, dest - src, len))
           = [lit |-> src - pos, len |-> len, src |-> src, dest |-> dest]
<1> DEFINE s == <<src - pos, AsStat(dest - src),
                  AsStat((dest - src) \div StatValues), len>>
<1>0. StatValues \in Nat /\ StatValues > 0
  BY CodecAssumption
<1>1. Encode(FALSE, 0, src - pos, dest - src, len) = s
  <2>1. (len - 0) \div 1 = len /\ (dest - src) \div 1 = dest - src
    BY <1>0
  <2> QED
    BY <2>1, SmallStat DEF Encode, Unit
<1>2. s[2] + s[3] * StatValues = dest - src
  BY TwoWords
<1>3. AsStat(s[4] * 1 + 0) = len
  <2>1. s[4] * 1 + 0 = len
    OBVIOUS
  <2> QED
    BY <2>1, SmallStat
<1>4. s[1] = src - pos
  OBVIOUS
<1> HIDE DEF s
<1>5. Decode(TRUE, FALSE, 0, pos, s)
        = [lit |-> src - pos, len |-> len, src |-> src, dest |-> src + (dest - src)]
  <2>1. pos + s[1] = src
    BY <1>4
  <2>2. (s[2] + s[3] * StatValues) * 1 = dest - src
    BY <1>2
  <2> QED
    BY <2>1, <2>2, <1>3, <1>4 DEF Decode, Unit, StatsPerMatch
<1>6. src + (dest - src) = dest
  OBVIOUS
<1> QED
  BY <1>1, <1>5, <1>6

\* A rounded record (ROUND_MATCHES == true) keeps distance and length in units of
\* B: it gives back the match if B divides its source and its length.
THEOREM RoundedRoundTrip ==
  ASSUME NEW round, round = TRUE, NEW B \in Nat, B >= 1, NEW pos \in Nat,
         NEW dest \in Nat, NEW src \in Nat,
         NEW len \in 0 .. StatValues - 1,
         dest - pos \in 0 .. StatValues - 1,
         dest - src \in 0 .. StatValues * B - 1,
         src % B = 0, len % B = 0, CanEncode(B, len)
  PROVE  Reads(round, B, pos, dest, src, len)
<1>0. StatValues \in Nat /\ StatValues > 0
  BY CodecAssumption
<1> DEFINE m == (len - B) \div B
           u == (dest - src) \div B
           q == dest \div B
<1>1. /\ m \in 0 .. StatValues - 1 /\ u \in 0 .. StatValues - 1
      /\ m * B + B = len /\ q * B - u * B = src
  <2>1. UnitsFit(StatValues, B, dest, src, len)
    BY <1>0 DEF CanEncode, UnitsFit
  <2>2. /\ (len - B) \div B \in 0 .. StatValues - 1 /\ ((len - B) \div B) * B + B = len
        /\ (dest - src) \div B \in 0 .. StatValues - 1
        /\ (dest \div B) * B - ((dest - src) \div B) * B = src
    BY ONLY <2>1, RoundedUnits
  <2>3. QED BY <2>2
<1> DEFINE s == <<dest - pos, u, m>>
<1>2. Encode(round, B, dest - pos, dest - src, len) = s
  <2>1. AsStat(dest - pos) = dest - pos /\ AsStat(u) = u /\ AsStat(m) = m
    BY <1>1, SmallStat
  <2>2. QED BY <2>1 DEF Encode, Unit
<1>3. s[1] = dest - pos /\ s[2] = u /\ s[3] = m
  OBVIOUS
<1> HIDE DEF s
<1>4. AsStat(s[3] * B + B) = len
  BY <1>1, <1>3, SmallStat
<1>5. pos + s[1] = dest
  BY <1>3
<1>6. Decode(FALSE, round, B, pos, s) = [lit |-> s[1], len |-> len, src |-> q * B - u * B, dest |-> dest]
  BY <1>3, <1>4, <1>5 DEF Decode, Unit, StatsPerMatch
<1>7. QED BY <1>1, <1>2, <1>3, <1>6 DEF Reads

-----------------------------------------------------------------------------
(* The block and the dictionary.                                           *)

JobTypes ==
  /\ file \in Files /\ mode \in Modes /\ ahead \in BOOLEAN
  /\ n \in 0 .. (Size - 1) \div BlockSize

LEMMA Constants ==
  /\ BlockSize \in Nat /\ BlockSize >= 1 /\ InmemL \in Nat /\ InmemL >= 1
  /\ MAX_DIST \in Nat /\ MAX_DIST >= 1 /\ dict_min_match \in Nat /\ dict_min_match >= 1
  /\ L \in Nat /\ L >= 1 /\ CYCLES \in Nat /\ CYCLES >= 1 /\ Unroll \in Nat /\ Unroll >= 1
  /\ LOOKAHEAD \in Nat /\ LOOKAHEAD >= 1 /\ BUFSIZE \in Nat /\ BUFSIZE >= 1
  /\ StatValues \in Nat /\ StatValues >= 1 /\ BlockSize + 1 < StatValues
BY CompressorAssumption, CodecAssumption

\* The block is a part of the file
LEMMA Block ==
  ASSUME JobTypes
  PROVE  /\ Size \in Nat /\ Size >= 1 /\ DOMAIN file = 0 .. Size - 1
         /\ Size <= StatValues * StatValues
         /\ Start \in Nat /\ Start <= Size - 1 /\ Start % BlockSize = 0
         /\ Length \in Nat /\ Length >= 1 /\ Length <= BlockSize /\ Start + Length <= Size
<1>1. PICK size \in 1 .. StatValues * StatValues : DOMAIN file = 0 .. size - 1
  BY CompressorAssumption DEF JobTypes
<1>2. Size = size
  <2>1. size - 1 \in Int /\ size \in Nat
    BY Constants
  <2>2. Cardinality(0 .. size - 1) = size
    <3>1. Cardinality(0 .. size - 1) = IF 0 > size - 1 THEN 0 ELSE (size - 1) - 0 + 1
      BY <2>1, FS_Interval
    <3>2. QED BY <3>1, <2>1
  <2>3. QED BY <1>1, <2>2 DEF Size
<1> DEFINE s == Size
           b == BlockSize
           q == (Size - 1) \div BlockSize
<1>3. s \in Nat /\ s >= 1 /\ b \in Nat /\ b >= 1
  BY <1>1, <1>2, Constants
<1>4. q \in Int /\ q >= 0 /\ b * q <= s - 1
  <2> DEFINE a == Size - 1
  <2>1. a \in Int /\ a >= 0
    BY <1>3
  <2> HIDE DEF a
  <2>2. a \div b \in Int /\ a % b \in 0 .. b - 1 /\ a = b * (a \div b) + (a % b) /\ a \div b >= 0
    BY <1>3, <2>1, DivMod
  <2> DEFINE r == a % b
             d == a \div b
  <2>3. d \in Int /\ r \in 0 .. b - 1 /\ a = b * d + r /\ d >= 0
    BY <2>2
  <2> HIDE DEF r, d, b
  <2>4. b * d <= a
    BY <2>3, <1>3
  <2>5. QED BY <2>3, <2>4 DEF a, d, b
<1>5. n \in 0 .. q
  BY DEF JobTypes
<1>6. Start = n * b
  BY DEF Start
<1> DEFINE start == Start
<1> HIDE DEF s, b, q
<1>7. n \in Int /\ n >= 0 /\ n <= q
  BY <1>4, <1>5
<1>8. b * n <= b * q /\ n * b = b * n
  BY <1>3, <1>4, <1>7
<1>9. start \in Nat /\ start <= s - 1
  BY <1>3, <1>4, <1>6, <1>7, <1>8
<1>10. start % b = 0
  BY <1>3, <1>6, <1>7, Multiple
<1> HIDE DEF start
<1>11. Length = IF b <= s - start THEN b ELSE s - start
  <2>1. b \in Int /\ s - start \in Int
    BY <1>3, <1>9
  <2>2. QED BY <2>1, Min2 DEF Length, s, b, start
<1>12. Length \in Nat /\ Length >= 1 /\ Length <= b /\ start + Length <= s
  BY <1>3, <1>9, <1>11
<1>13. QED BY <1>1, <1>2, <1>3, <1>9, <1>10, <1>12 DEF s, b, start

\* The smallest length of a match, and what rounding asks of it
LEMMA Base ==
  ASSUME JobTypes
  PROVE  /\ BASE_LEN \in Nat /\ BASE_LEN >= 1 /\ BASE_LEN <= dict_min_match
         /\ mode.min_match \in Nat /\ BASE_LEN <= mode.min_match
         /\ ROUND_MATCHES => L % BASE_LEN = 0 /\ Size <= StatValues * BASE_LEN
<1>1. mode.min_match \in Nat /\ mode.min_match >= 1 /\ mode \in Modes
  BY CompressorAssumption DEF JobTypes
<1>2. BASE_LEN = IF mode.min_match <= dict_min_match THEN mode.min_match ELSE dict_min_match
  BY <1>1, Constants, Min2 DEF BASE_LEN
<1>3. ASSUME ROUND_MATCHES PROVE L % BASE_LEN = 0
  BY <1>1, <1>3, WholeUnits DEF ROUND_MATCHES, BASE_LEN
<1>4. ASSUME ROUND_MATCHES PROVE Size <= StatValues * BASE_LEN
  <2>1. PICK size \in 1 .. StatValues * StatValues :
          DOMAIN file = 0 .. size - 1 /\ size <= StatValues * BASE_LEN
    BY <1>1, <1>4, CompressorAssumption DEF ROUND_MATCHES, BASE_LEN, JobTypes
  <2>2. Size = size
    <3>1. size - 1 \in Int /\ size \in Nat
      BY Constants
    <3>2. Cardinality(0 .. size - 1) = IF 0 > size - 1 THEN 0 ELSE (size - 1) - 0 + 1
      BY <3>1, FS_Interval
    <3>3. QED BY <2>1, <3>1, <3>2 DEF Size
  <2>3. QED BY <2>1, <2>2
<1>5. QED BY <1>1, <1>2, <1>3, <1>4, Constants

\* The dictionary has room for the window and two blocks, and blocks do not wrap in it
LEMMA Dictionary ==
  ASSUME JobTypes
  PROVE  /\ dictsize \in Nat /\ dictsize >= MAX_DIST + 2 * BlockSize
         /\ bufstart \in Nat /\ bufstart + BlockSize <= dictsize
         /\ \E j \in Int : Start = dictsize * j + bufstart
         /\ bufend = bufstart + Length
         /\ ReadEnd \in Int /\ ReadEnd >= Start + Length /\ ReadEnd <= Start + 2 * BlockSize
<1> DEFINE b == BlockSize
           w == MAX_DIST
           k == (MAX_DIST + BlockSize - 1) \div BlockSize
<1>1. b \in Nat /\ b >= 1 /\ w \in Nat /\ w >= 1
  BY Constants
<1>2. k \in Int /\ b * k >= w /\ k >= 0
  <2> DEFINE a == MAX_DIST + BlockSize - 1
  <2>1. a \in Int /\ a >= 0 /\ a = w + b - 1
    BY <1>1
  <2> DEFINE d == a \div b
             r == a % b
  <2> HIDE DEF a, b, w
  <2>2. d \in Int /\ r \in 0 .. b - 1 /\ a = b * d + r /\ d >= 0
    BY <1>1, <2>1, DivMod
  <2> HIDE DEF d, r
  <2>3. b * d >= w
    BY <1>1, <2>1, <2>2
  <2>4. k = d
    BY DEF d, a, b
  <2>5. QED BY <2>2, <2>3, <2>4
<1> DEFINE c == k + 2
           t == dictsize
<1>3. t = c * b
  BY DEF dictsize
<1> HIDE DEF k
<1>4. c \in Int /\ t = b * c /\ b * c = b * k + 2 * b
  BY <1>1, <1>2, <1>3
<1> HIDE DEF b, w, t
<1>5. t \in Nat /\ t >= w + 2 * b
  BY <1>1, <1>2, <1>4
<1> DEFINE s == Start
           p == bufstart
           j == Start \div dictsize
<1>6. s \in Nat /\ s % b = 0 /\ Length \in Nat /\ Length >= 1 /\ Length <= b /\ s + Length <= Size /\ Size \in Nat
  BY Block DEF b
<1>7. j \in Int /\ p \in 0 .. t - 1 /\ s = t * j + p
  <2>1. p = s % t /\ j = s \div t
    BY DEF bufstart, t
  <2> HIDE DEF s, p, j
  <2>2. QED BY <1>1, <1>5, <1>6, <2>1, DivMod
<1> HIDE DEF s, p, j
<1>8. t % b = 0
  BY <1>1, <1>4, Multiple
<1>9. p % b = 0
  <2> DEFINE z == t * j
  <2>1. z \in Int /\ p = s - z
    BY <1>5, <1>6, <1>7
  <2>2. z % t = 0
    BY <1>1, <1>5, <1>7, Multiple
  <2> HIDE DEF z
  <2>3. z % b = 0
    <3>1. t >= 1
      BY <1>1, <1>5
    <3>2. QED BY <1>1, <1>5, <1>8, <2>1, <2>2, <3>1, MultipleOf, Zenon
  <2>4. (s + z) % b = 0 /\ (s - z) % b = 0
    <3>1. s \in Int
      BY <1>6
    <3>2. QED BY <1>1, <1>6, <2>1, <2>3, <3>1, MultipleSum, Zenon
  <2>5. QED BY <2>1, <2>4
<1>10. p + b <= t
  <2>1. p \in Int /\ t \in Int /\ p < t
    BY <1>5, <1>7
  <2>2. QED BY <1>1, <1>8, <1>9, <2>1, MultipleGap, Zenon
<1>11. ReadEnd = IF Size <= s + (IF ahead THEN 2 ELSE 1) * b THEN Size ELSE s + (IF ahead THEN 2 ELSE 1) * b
  <2>1. Size \in Int /\ s + (IF ahead THEN 2 ELSE 1) * b \in Int
    BY <1>1, <1>6
  <2>2. QED BY <2>1, Min2 DEF ReadEnd, s, b
<1>12. /\ ReadEnd \in Int /\ ReadEnd >= s + Length /\ ReadEnd <= s + 2 * b
  <2>1. (IF ahead THEN 2 ELSE 1) * b \in {b, 2 * b}
    BY <1>1
  <2>2. QED BY <1>1, <1>6, <1>11, <2>1
<1>13. bufend = p + Length
  BY DEF bufend, p
<1>14. QED BY <1>5, <1>7, <1>10, <1>12, <1>13 DEF b, w, t, s, p

\* A place of the dictionary holds the last byte read that belongs there
LEMMA HeldIs ==
  ASSUME JobTypes, NEW x \in 0 .. dictsize - 1, NEW q \in Int, NEW j \in Int, q = dictsize * j + x,
         q <= ReadEnd - 1, q > ReadEnd - 1 - dictsize
  PROVE  Held(x) = q
<1> DEFINE t == dictsize
           e == ReadEnd - 1
<1>1. t \in Nat /\ t >= 1 /\ e \in Int
  BY Dictionary, Constants
<1>2. x \in 0 .. t - 1 /\ q = t * j + x /\ q <= e /\ q > e - t
  OBVIOUS
<1>3. Held(x) = e - ((e - x) % t)
  BY DEF Held
<1> HIDE DEF t, e
<1>4. e - x = t * j + (e - q) /\ e - q \in 0 .. t - 1 /\ e - x \in Int
  BY <1>1, <1>2
<1>5. (e - x) % t = e - q
  <2> DEFINE a == e - x
             r == e - q
  <2>1. a \in Int /\ a = t * j + r /\ r \in 0 .. t - 1
    BY <1>4
  <2> HIDE DEF a, r
  <2>2. a % t = r
    BY <1>1, <2>1, DivUnique
  <2>3. QED BY <2>2 DEF a, r
<1>6. QED BY <1>1, <1>3, <1>5


\* What is compared around x and m lies Distance(x, m) apart in the file, and was not
\* overwritten
LEMMA Compared ==
  ASSUME JobTypes, NEW x \in Int, NEW m \in 0 .. dictsize - 1, NEW t \in Int,
         bufstart <= x, x < bufend, last_match_end \in Nat, Near(x, m),
         From(x, m) <= t, t < To(x, m)
  PROVE  /\ Distance(x, m) \in 1 .. MAX_DIST
         /\ Held(t) = Start + t - bufstart
         /\ Held(t - x + m) = Held(t) - Distance(x, m)
         /\ bufstart + last_match_end <= t /\ t < bufend
<1> DEFINE d == dictsize
           w == MAX_DIST
           b == BlockSize
           p == bufstart
           s == Start
           e == ReadEnd
           D == Distance(x, m)
           low == LowBound(x, m)
           high == HighBound(x, m)
           data == DataStart
<1>1. /\ d \in Nat /\ w \in Nat /\ w >= 1 /\ b \in Nat /\ b >= 1 /\ d >= w + 2 * b
      /\ p \in Nat /\ p + b <= d /\ s \in Nat
      /\ e \in Int /\ e >= s + Length /\ e <= s + 2 * b
      /\ Length \in Nat /\ Length <= b /\ bufend = p + Length
  BY Constants, Dictionary, Block
<1>2. PICK j \in Int : s = d * j + p
  BY Dictionary
<1>3. m \in 0 .. d - 1 /\ p <= x /\ x < bufend /\ D <= w
  BY DEF Near
<1>4. D = IF m < x THEN x - m ELSE d - m + x
  BY DEF Distance
<1>5. data \in 0 .. d - 1
  <2> DEFINE a == bufstart + dictsize - MAX_DIST
  <2>1. a \in Int /\ data = a % d
    BY <1>1 DEF DataStart
  <2>2. d \in Nat /\ d >= 1
    BY <1>1
  <2> HIDE DEF a, d, data
  <2>3. QED BY <2>1, <2>2, DivMod
<1>6. low = IF m < data THEN x - m ELSE IF m - data > x THEN 0 ELSE x - (m - data)
  BY DEF LowBound
<1>7. high = IF m < x THEN d ELSE d - m + x
  BY DEF HighBound
<1>8. From(x, m) = IF p + last_match_end >= low THEN p + last_match_end ELSE low
  <2>1. p + last_match_end \in Int /\ low \in Int
    BY <1>1, <1>3, <1>5, <1>6
  <2>2. QED BY <2>1, Max2 DEF From
<1>9. To(x, m) = IF bufend <= high THEN bufend ELSE high
  <2>1. bufend \in Int /\ high \in Int
    BY <1>1, <1>3, <1>7
  <2>2. QED BY <2>1, Min2 DEF To
<1> HIDE DEF d, w, b, p, s, e, D, low, high, data
<1>10. p + last_match_end <= t /\ low <= t /\ t < bufend /\ t < high
  BY <1>1, <1>3, <1>5, <1>6, <1>7, <1>8, <1>9
<1>11. D \in 1 .. w
  BY <1>1, <1>3, <1>4
<1>12. t \in 0 .. d - 1 /\ t - x + m \in 0 .. d - 1
  BY <1>1, <1>3, <1>5, <1>6, <1>7, <1>10
<1>13. Held(t) = s + t - p
  <2> DEFINE q == s + t - p
  <2>1. q \in Int /\ q = d * j + t /\ q <= e - 1 /\ q > e - 1 - d
    BY <1>1, <1>2, <1>10
  <2> HIDE DEF q
  <2>2. Held(t) = q
    BY <1>12, <2>1, HeldIs DEF d, e
  <2>3. QED BY <2>2 DEF q
<1>14. Held(t - x + m) = s + t - p - D
  <2> DEFINE q == s + t - p - D
             y == t - x + m
             c == IF m < x THEN j ELSE j - 1
  <2>1. q \in Int /\ q <= e - 1 /\ q > e - 1 - d /\ c \in Int
    BY <1>1, <1>2, <1>10, <1>11
  <2>2. q = d * c + y
    <3>1. CASE m < x
      BY <1>1, <1>2, <1>3, <1>4, <3>1
    <3>2. CASE ~(m < x)
      <4>1. d * (j - 1) = d * j - d
        BY <1>1
      <4>2. QED BY <1>1, <1>2, <1>3, <1>4, <3>2, <4>1
    <3>3. QED BY <3>1, <3>2
  <2>3. y \in 0 .. d - 1
    BY <1>12
  <2> HIDE DEF q, y, c
  <2>4. Held(y) = q
    BY <2>1, <2>2, <2>3, HeldIs DEF d, e
  <2>5. QED BY <2>4 DEF q, y
<1>15. QED
  <2>1. s + t - p \in Int /\ D \in Int
    BY <1>1, <1>11
  <2>2. Held(t - x + m) = Held(t) - D
    BY <1>1, <1>13, <1>14, <2>1
  <2>3. Distance(x, m) \in 1 .. MAX_DIST
    BY <1>11 DEF D, w
  <2>4. Held(t) = Start + t - bufstart
    BY <1>13 DEF s, p
  <2>5. bufstart + last_match_end <= t /\ t < bufend
    BY <1>10 DEF p
  <2>6. Held(t - x + m) = Held(t) - Distance(x, m)
    BY <2>2 DEF D
  <2>7. QED BY <2>3, <2>4, <2>5, <2>6

\* The hash table has places of the dictionary
LEMMA IndexedIn ==
  ASSUME JobTypes, last_i \in Nat
  PROVE  Indexed \subseteq 1 .. dictsize - 1
<1>1. SUFFICES ASSUME NEW m \in Indexed
               PROVE  m \in 1 .. dictsize - 1
  OBVIOUS
<1>2. dictsize \in Nat /\ dictsize >= 1 /\ Start \in Nat
  BY Dictionary, Constants, Block
<1>3. PICK q \in Nat : m = q % dictsize /\ m # 0
  <2>1. bufstart \in Nat
    BY Dictionary
  <2>2. QED BY <1>1, <1>2, <2>1 DEF Indexed
<1>4. QED
  <2> DEFINE d == dictsize
  <2>1. d \in Nat /\ d >= 1 /\ m = q % d /\ m # 0
    BY <1>2, <1>3
  <2> HIDE DEF d
  <2>2. q % d \in 0 .. d - 1
    BY <2>1, DivMod
  <2>3. QED BY <2>1, <2>2 DEF d

-----------------------------------------------------------------------------
(* Lists.  A decoder's way through a list is the same for all that follows. *)

\* One record on
ReadOn(round, base, pos, w) ==
  LET d == Decode(FALSE, round, base, pos, w) IN d.dest + d.len

LEMMA ReadToIs ==
  ASSUME NEW round, NEW base, NEW start, NEW T, NEW s \in Seq(T)
  PROVE  ReadTo(round, base, start, s)
           = [k \in 0 .. Len(s) |-> IF k = 0 THEN start
                ELSE ReadOn(round, base, ReadTo(round, base, start, s)[k - 1], s[k])]
<1> DEFINE On(g, k) == IF k = 0 THEN start ELSE ReadOn(round, base, g[k - 1], s[k])
<1> DEFINE A == {m \in Nat : \E g : g = [k \in 0 .. m |-> On(g, k)]}
<1>1. 0 \in A
  <2> DEFINE g == [k \in 0 .. 0 |-> start]
  <2>1. g = [k \in 0 .. 0 |-> On(g, k)]
    OBVIOUS
  <2> HIDE DEF g
  <2>2. QED BY <2>1
<1>2. ASSUME NEW m \in Nat, m \in A
      PROVE  m + 1 \in A
  <2>1. PICK g : g = [k \in 0 .. m |-> On(g, k)]
    BY <1>2
  <2> DEFINE h == [k \in 0 .. m + 1 |-> IF k <= m THEN g[k] ELSE On(g, k)]
  <2>2. ASSUME NEW k \in 0 .. m + 1
        PROVE  h[k] = On(h, k)
    <3>1. CASE k = 0
      <4>1. h[k] = g[k] /\ k \in 0 .. m
        BY <3>1
      <4> HIDE DEF h
      <4>2. g[k] = On(g, k)
        BY <2>1, <4>1
      <4>3. QED BY <3>1, <4>1, <4>2
    <3>2. CASE k # 0
      <4>1. k - 1 \in 0 .. m /\ h[k - 1] = g[k - 1]
        BY <3>2
      <4>2. h[k] = On(g, k)
        <5>1. CASE k <= m
          <6>1. h[k] = g[k] /\ k \in 0 .. m
            BY <5>1
          <6> HIDE DEF h
          <6>2. QED BY <2>1, <6>1
        <5>2. CASE ~(k <= m)
          BY <5>2
        <5>3. QED BY <5>1, <5>2
      <4>3. QED BY <3>2, <4>1, <4>2
    <3>3. QED BY <3>1, <3>2
  <2>3. h = [k \in 0 .. m + 1 |-> On(h, k)]
    <3>1. h = [k \in 0 .. m + 1 |-> h[k]]
      OBVIOUS
    <3> HIDE DEF h, On
    <3>2. QED BY <2>2, <3>1
  <2>4. \E z : z = [k \in 0 .. m + 1 |-> On(z, k)]
    <3> HIDE DEF h, On
    <3>1. QED BY <2>3, Zenon
  <2>5. m + 1 \in Nat
    OBVIOUS
  <2> HIDE DEF h, On
  <2>6. QED BY <2>4, <2>5, Zenon
<1>3. Len(s) \in A
  <2> HIDE DEF A
  <2>1. QED BY <1>1, <1>2, AllNumbers
<1>4. ReadTo(round, base, start, s) = CHOOSE g : g = [k \in 0 .. Len(s) |-> On(g, k)]
  BY DEF ReadTo, ReadOn
<1> HIDE DEF On
<1>5. ReadTo(round, base, start, s) = [k \in 0 .. Len(s) |-> On(ReadTo(round, base, start, s), k)]
  BY <1>3, <1>4
<1>6. QED BY <1>5 DEF On

LEMMA ReadNext ==
  ASSUME NEW round, NEW base, NEW start, NEW T, NEW s \in Seq(T)
  PROVE  /\ ReadTo(round, base, start, s)[0] = start
         /\ \A k \in 1 .. Len(s) :
              LET d == ReadMatch(round, base, start, s, k)
              IN  ReadTo(round, base, start, s)[k] = d.dest + d.len
<1> DEFINE g == ReadTo(round, base, start, s)
<1>1. g = [k \in 0 .. Len(s) |-> IF k = 0 THEN start ELSE ReadOn(round, base, g[k - 1], s[k])]
  BY ReadToIs
<1> HIDE DEF g
<1>2. g[0] = start /\ \A k \in 1 .. Len(s) : g[k] = ReadOn(round, base, g[k - 1], s[k])
  BY <1>1
<1>3. QED BY <1>2 DEF g, ReadOn, ReadMatch

\* What was written stays as it is read
OneMore(round, base, start, s, w) ==
  /\ \A k \in 0 .. Len(s) :
       ReadTo(round, base, start, Append(s, w))[k] = ReadTo(round, base, start, s)[k]
  /\ \A k \in 1 .. Len(s) :
       ReadMatch(round, base, start, Append(s, w), k) = ReadMatch(round, base, start, s, k)
  /\ ReadMatch(round, base, start, Append(s, w), Len(s) + 1)
       = Decode(FALSE, round, base, ReadTo(round, base, start, s)[Len(s)], w)

LEMMA ReadPrefix ==
  ASSUME NEW round, NEW base, NEW start, NEW T, NEW s \in Seq(T), NEW w \in T
  PROVE  OneMore(round, base, start, s, w)
<1> DEFINE z == Append(s, w)
           g == ReadTo(round, base, start, s)
           h == ReadTo(round, base, start, z)
           l == Len(s)
<1>1. /\ z \in Seq(T) /\ Len(z) = l + 1 /\ l \in Nat
      /\ z[l + 1] = w /\ \A k \in 1 .. l : z[k] = s[k]
  OBVIOUS
<1> HIDE DEF z
<1>2. /\ g = [k \in 0 .. l |-> IF k = 0 THEN start ELSE ReadOn(round, base, g[k - 1], s[k])]
      /\ h = [k \in 0 .. l + 1 |-> IF k = 0 THEN start ELSE ReadOn(round, base, h[k - 1], z[k])]
  BY <1>1, ReadToIs
<1> HIDE DEF g, h, l
<1> DEFINE A == {k \in Nat : k <= l => h[k] = g[k]}
<1>3. 0 \in A
  <2>1. g[0] = start /\ h[0] = start
    BY <1>1, <1>2
  <2>2. QED BY <2>1
<1>4. ASSUME NEW k \in Nat, k \in A
      PROVE  k + 1 \in A
  <2>1. SUFFICES ASSUME k + 1 <= l PROVE h[k + 1] = g[k + 1]
    OBVIOUS
  <2>2. h[k] = g[k] /\ z[k + 1] = s[k + 1]
    BY <1>1, <1>4, <2>1
  <2>3. k + 1 \in 0 .. l /\ k + 1 \in 0 .. l + 1 /\ k + 1 # 0 /\ (k + 1) - 1 = k
    BY <1>1, <2>1
  <2>4. g[k + 1] = ReadOn(round, base, g[k], s[k + 1])
    BY <1>2, <2>3
  <2>5. h[k + 1] = ReadOn(round, base, h[k], z[k + 1])
    BY <1>2, <2>3
  <2>6. QED BY <2>2, <2>4, <2>5
<1>5. \A k \in 0 .. l : h[k] = g[k]
  <2>1. \A k \in Nat : k \in A
    <3> HIDE DEF A
    <3>1. QED BY <1>3, <1>4, AllNumbers
  <2>2. QED BY <1>1, <2>1
<1>6. \A k \in 1 .. l : h[k - 1] = g[k - 1] /\ z[k] = s[k]
  BY <1>1, <1>5
<1>7. h[l] = g[l] /\ z[l + 1] = w /\ (l + 1) - 1 = l
  BY <1>1, <1>5
<1>8. \A k \in 1 .. l : ReadMatch(round, base, start, z, k) = ReadMatch(round, base, start, s, k)
  BY <1>6 DEF ReadMatch, g, h
<1>9. ReadMatch(round, base, start, z, l + 1) = Decode(FALSE, round, base, g[l], w)
  BY <1>7 DEF ReadMatch, h
<1>10. QED BY <1>5, <1>8, <1>9 DEF OneMore, z, g, h, l

-----------------------------------------------------------------------------
(* The inductive invariant.                                                *)

Searching == {"first", "input", "skip", "look", "add"}

BlockTypes ==
  /\ JobTypes /\ pc \in {"inmem", "done"} \cup Searching
  /\ last_i \in Nat /\ bufstart <= last_i
  /\ i \in Nat /\ next_chunk \in Nat
  /\ aux \in Seq(Seq(Nat)) /\ instat \in Nat
  /\ pc = "inmem" => aux = <<>>
  /\ pc = "inmem" /\ ~mode.dict => list = <<>>
  /\ pc \in Searching => aux # <<>>
  /\ pc = "first" => last_match_end = 0

\* A list as a decoder reads it: its k-th match, and where that ends
In(s, k) == ReadMatch(ROUND_MATCHES, BASE_LEN, Start, s, k)
At(s, k) == ReadTo(ROUND_MATCHES, BASE_LEN, Start, s)[k]

\* One record, behind position `pos`
Read(pos, w) == Decode(FALSE, ROUND_MATCHES, BASE_LEN, pos, w)

\* A match that copies earlier bytes of the file into the block
Copies(d, low) ==
  /\ d.src \in Nat /\ d.dest \in Nat /\ d.len \in Nat
  /\ d.src < d.dest /\ low <= d.len
  /\ \A t \in 0 .. d.len - 1 : file[d.src + t] = file[d.dest + t]

InOrder(s, len, low) ==
  \A k \in 1 .. len : /\ Copies(In(s, k), low)
                      /\ Start <= At(s, k - 1) /\ At(s, k - 1) <= In(s, k).dest
                      /\ At(s, k) <= Start + Length

\* What is written: matches in the block, one behind the other, and all else literals
Written(low) ==
  /\ list \in Seq(Seq(Nat)) /\ last_match_end \in 0 .. Length /\ literal_bytes \in Int
  /\ InOrder(list, Len(list), low)
  /\ At(list, Len(list)) = Start + last_match_end
  /\ Len(list) * low <= last_match_end
  /\ IsFiniteSet(Matches(list))
  /\ literal_bytes = Length - SumFunctionOnSet([d \in Matches(list) |-> d.len], Matches(list))

\* Lists of the in-memory compressor have longer matches
Low == IF pc = "inmem" THEN dict_min_match ELSE BASE_LEN

ListKept == Written(Low)

\* What is read: the list of the in-memory compressor, ended by the fence behind the
\* block; input is the match read last
InputsGood ==
  aux # <<>> =>
    /\ InOrder(aux, Len(aux) - 1, dict_min_match)
    /\ In(aux, Len(aux)).dest \in Nat /\ In(aux, Len(aux)).dest > Start + Length
    /\ Start <= At(aux, Len(aux) - 1)
    /\ Len(aux) * StatsPerMatch(ROUND_MATCHES) <= aux_statbuf_size
    /\ instat >= 2 /\ instat - 1 <= Len(aux)
    /\ LET d == In(aux, instat - 1)
       IN  input = [start |-> d.dest - Start, len |-> d.len, offset |-> d.dest - d.src]
    /\ ROUND_MATCHES => Len(aux) = 1

\* The search goes from chunk to chunk
StepsEven ==
  pc \in Searching =>
    /\ L <= next_chunk /\ next_chunk + L <= Length
    /\ i % X = 0 /\ next_chunk % X = 0
    /\ next_chunk - L <= i /\ i <= next_chunk
    /\ pc = "add" => i = next_chunk

\* Inputs that were read are covered up to a rest that is too short, and the one that
\* waits as far as a match goes into it
Covered(t) == \E k \in 1 .. Len(list) : In(list, k).dest <= t /\ t < At(list, k)

InputsCovered ==
  aux # <<>> =>
    /\ \A k \in 1 .. instat - 2 : \A t \in In(aux, k).dest .. At(aux, k) - BASE_LEN : Covered(t)
    /\ \A t \in Start + input.start .. Start + last_match_end - 1 : Covered(t)

IInv == BlockTypes /\ ListKept /\ InputsGood /\ StepsEven /\ InputsCovered

-----------------------------------------------------------------------------
(* A list with one more record.                                            *)

LEMMA JobSame ==
  ASSUME UNCHANGED job
  PROVE  /\ JobTypes' = JobTypes /\ ROUND_MATCHES' = ROUND_MATCHES /\ BASE_LEN' = BASE_LEN
         /\ Start' = Start /\ Length' = Length /\ Size' = Size /\ dictsize' = dictsize
         /\ bufstart' = bufstart /\ bufend' = bufend /\ mode' = mode /\ file' = file
         /\ aux_statbuf_size' = aux_statbuf_size /\ statbuf_size' = statbuf_size
         /\ \A s, k : In(s, k)' = In(s, k) /\ At(s, k)' = At(s, k)
         /\ \A d, low : Copies(d, low)' = Copies(d, low)
         /\ \A s, len, low : InOrder(s, len, low)' = InOrder(s, len, low)
         /\ \A s : Matches(s)' = Matches(s)
<1>1. file' = file /\ mode' = mode /\ n' = n /\ ahead' = ahead
  BY DEF job
<1>2. Size' = Size /\ Start' = Start /\ ROUND_MATCHES' = ROUND_MATCHES /\ BASE_LEN' = BASE_LEN
  BY <1>1 DEF Size, Start, ROUND_MATCHES, BASE_LEN
<1>3. Length' = Length /\ bufstart' = bufstart /\ dictsize' = dictsize
  BY <1>1, <1>2 DEF Length, bufstart, dictsize
<1>4. bufend' = bufend /\ aux_statbuf_size' = aux_statbuf_size /\ statbuf_size' = statbuf_size
  BY <1>1, <1>2, <1>3 DEF bufend, aux_statbuf_size, statbuf_size
<1>5. JobTypes' = JobTypes
  BY <1>1, <1>2 DEF JobTypes
<1>6. \A s, k : In(s, k)' = In(s, k) /\ At(s, k)' = At(s, k)
  BY <1>2 DEF In, At
<1>7. \A d, low : Copies(d, low)' = Copies(d, low)
  BY <1>1 DEF Copies
<1>8. \A s, len, low : InOrder(s, len, low)' = InOrder(s, len, low)
  BY <1>2, <1>3, <1>6, <1>7 DEF InOrder
<1>9. \A s : Matches(s)' = Matches(s)
  BY <1>2 DEF Matches, FirstMatches
<1>10. QED BY <1>1, <1>2, <1>3, <1>4, <1>5, <1>6, <1>7, <1>8, <1>9

LEMMA InIs ==
  ASSUME NEW s, NEW k
  PROVE  In(s, k) = Read(At(s, k - 1), s[k])
BY DEF In, At, Read, ReadMatch

\* How one more record is read
LEMMA ListMore ==
  ASSUME NEW s \in Seq(Seq(Nat)), NEW w \in Seq(Nat)
  PROVE  /\ \A k \in 1 .. Len(s) : In(Append(s, w), k) = In(s, k)
         /\ \A k \in 0 .. Len(s) : At(Append(s, w), k) = At(s, k)
         /\ In(Append(s, w), Len(s) + 1) = Read(At(s, Len(s)), w)
         /\ At(Append(s, w), Len(s) + 1)
              = In(Append(s, w), Len(s) + 1).dest + In(Append(s, w), Len(s) + 1).len
<1>1. Append(s, w) \in Seq(Seq(Nat)) /\ Len(Append(s, w)) = Len(s) + 1 /\ Len(s) \in Nat
  OBVIOUS
<1> DEFINE z == Append(s, w)
<1> HIDE DEF z
<1>2. /\ \A k \in 1 .. Len(s) : In(z, k) = In(s, k)
      /\ \A k \in 0 .. Len(s) : At(z, k) = At(s, k)
      /\ In(z, Len(s) + 1) = Read(At(s, Len(s)), w)
  <2>1. OneMore(ROUND_MATCHES, BASE_LEN, Start, s, w)
    BY ReadPrefix
  <2>2. QED BY <2>1 DEF OneMore, In, At, Read, z
<1>3. At(z, Len(s) + 1) = In(z, Len(s) + 1).dest + In(z, Len(s) + 1).len
  <2>1. z \in Seq(Seq(Nat)) /\ Len(s) + 1 \in 1 .. Len(z)
    BY <1>1 DEF z
  <2>2. QED BY <2>1, ReadNext DEF In, At
<1>4. QED BY <1>2, <1>3 DEF z

\* Where matches end
LEMMA ListEnds ==
  ASSUME NEW s \in Seq(Seq(Nat))
  PROVE  /\ At(s, 0) = Start
         /\ \A k \in 1 .. Len(s) : At(s, k) = In(s, k).dest + In(s, k).len
BY ReadNext DEF In, At

LEMMA OrderMore ==
  ASSUME NEW s \in Seq(Seq(Nat)), NEW w \in Seq(Nat), NEW low, InOrder(s, Len(s), low),
         NEW d, d = In(Append(s, w), Len(s) + 1), Copies(d, low),
         Start <= At(s, Len(s)), At(s, Len(s)) <= d.dest, d.dest + d.len <= Start + Length
  PROVE  InOrder(Append(s, w), Len(s) + 1, low)
<1> DEFINE z == Append(s, w)
           l == Len(s)
<1>1. /\ \A k \in 1 .. l : In(z, k) = In(s, k) /\ At(z, k) = At(s, k) /\ At(z, k - 1) = At(s, k - 1)
      /\ At(z, l) = At(s, l) /\ At(z, l + 1) = d.dest + d.len /\ l \in Nat
  <2>1. /\ \A k \in 1 .. l : In(z, k) = In(s, k)
        /\ \A k \in 0 .. l : At(z, k) = At(s, k)
        /\ At(z, l + 1) = d.dest + d.len
    BY ListMore
  <2>2. l \in Nat /\ \A k \in 1 .. l : k \in 0 .. l /\ k - 1 \in 0 .. l
    OBVIOUS
  <2> HIDE DEF z, l
  <2>3. QED BY <2>1, <2>2
<1>2. d = In(z, l + 1)
  OBVIOUS
<1> HIDE DEF z, l
<1>3. ASSUME NEW k \in 1 .. l + 1
      PROVE  /\ Copies(In(z, k), low)
             /\ Start <= At(z, k - 1) /\ At(z, k - 1) <= In(z, k).dest
             /\ At(z, k) <= Start + Length
  <2>1. CASE k \in 1 .. l
    BY <1>1, <2>1 DEF InOrder, l
  <2>2. CASE k = l + 1
    <3>1. k - 1 = l
      BY <1>1, <2>2
    <3>2. At(z, k - 1) = At(s, l) /\ At(z, k) = d.dest + d.len /\ In(z, k) = d
      BY <1>1, <1>2, <2>2, <3>1
    <3>3. QED BY <3>2 DEF l
  <2>3. QED BY <1>1, <2>1, <2>2
<1>4. QED BY <1>3 DEF InOrder, z, l

\* All matches of a list but the last end before it begins
LEMMA EndsGrow ==
  ASSUME JobTypes, NEW s \in Seq(Seq(Nat)), NEW len \in 0 .. Len(s), NEW low, InOrder(s, len, low)
  PROVE  /\ \A k \in 0 .. len : At(s, k) \in Nat /\ Start <= At(s, k)
         /\ \A j, k \in 0 .. len : j <= k => At(s, j) <= At(s, k)
<1> DEFINE l == len
           A == {k \in Nat : k <= l => /\ At(s, k) \in Nat /\ Start <= At(s, k)
                                       /\ \A j \in 0 .. k : At(s, j) \in Nat /\ At(s, j) <= At(s, k)}
<1>1. l \in Nat /\ Start \in Nat /\ l <= Len(s)
  BY Block
<1>2. At(s, 0) = Start /\ \A k \in 1 .. l : At(s, k) = In(s, k).dest + In(s, k).len
  BY <1>1, ListEnds
<1>3. \A k \in 1 .. l : Copies(In(s, k), low) /\ At(s, k - 1) <= In(s, k).dest
  BY DEF InOrder
<1> HIDE DEF l
<1>4. 0 \in A
  BY <1>1, <1>2
<1>5. ASSUME NEW k \in Nat, k \in A
      PROVE  k + 1 \in A
  <2>1. SUFFICES ASSUME k + 1 <= l
                 PROVE  /\ At(s, k + 1) \in Nat /\ Start <= At(s, k + 1)
                        /\ \A j \in 0 .. k + 1 : At(s, j) \in Nat /\ At(s, j) <= At(s, k + 1)
    OBVIOUS
  <2>2. /\ At(s, k) \in Nat /\ Start <= At(s, k)
        /\ \A j \in 0 .. k : At(s, j) \in Nat /\ At(s, j) <= At(s, k)
    BY <1>1, <1>5, <2>1
  <2> DEFINE d == In(s, k + 1)
  <2>3. d.dest \in Nat /\ d.len \in Nat /\ At(s, k) <= d.dest /\ At(s, k + 1) = d.dest + d.len
    <3>1. k + 1 \in 1 .. l /\ (k + 1) - 1 = k
      BY <1>1, <2>1
    <3>2. Copies(d, low) /\ At(s, k) <= d.dest /\ At(s, k + 1) = d.dest + d.len
      BY <1>2, <1>3, <3>1
    <3>3. QED BY <3>2 DEF Copies
  <2> HIDE DEF d
  <2>4. At(s, k + 1) \in Nat /\ At(s, k) <= At(s, k + 1) /\ Start <= At(s, k + 1)
    BY <1>1, <2>2, <2>3
  <2>5. ASSUME NEW j \in 0 .. k + 1
        PROVE  At(s, j) \in Nat /\ At(s, j) <= At(s, k + 1)
    <3>1. CASE j \in 0 .. k
      <4>1. At(s, j) <= At(s, k) /\ At(s, j) \in Nat
        BY <2>2, <3>1
      <4>2. QED BY <2>2, <2>4, <4>1
    <3>2. CASE j = k + 1
      BY <2>4, <3>2
    <3>3. QED BY <3>1, <3>2
  <2>6. QED BY <2>4, <2>5
<1>6. \A k \in Nat : k \in A
  <2> HIDE DEF A
  <2>1. QED BY <1>4, <1>5, AllNumbers
<1>7. QED BY <1>1, <1>6 DEF l

-----------------------------------------------------------------------------
(* A record that is written.                                               *)

LEMMA EncodeType ==
  ASSUME NEW round \in BOOLEAN, NEW B \in Nat, B >= 1, NEW lit \in Int, NEW offset \in Int,
         NEW len \in Int
  PROVE  Encode(round, B, lit, offset, len) \in Seq(Nat)
<1> DEFINE u == Unit(round, B)
<1>1. u \in Nat /\ u >= 1
  BY DEF Unit
<1> HIDE DEF u
<1>2. \A a \in Int : AsStat(a) \in Nat
  BY CodecAssumption DEF AsStat
<1>3. \A a \in Int : a \div u \in Int
  BY <1>1
<1>4. \A a \in Int : a \div StatValues \in Int
  BY CodecAssumption
<1>5. lit \in Int /\ offset \div u \in Int /\ (len - B) \div u \in Int
  <2>1. len - B \in Int
    OBVIOUS
  <2>2. QED BY <1>3, <2>1
<1>6. QED
  <2> DEFINE x == offset \div u
             y == (len - B) \div u
  <2>1. x \in Int /\ y \in Int
    BY <1>5
  <2>2. \/ Encode(round, B, lit, offset, len) = <<AsStat(lit), AsStat(x), AsStat(y)>>
        \/ Encode(round, B, lit, offset, len)
             = <<AsStat(lit), AsStat(x), AsStat(x \div StatValues), AsStat(y)>>
    <3>1. CASE round
      BY <3>1 DEF Encode, u
    <3>2. CASE ~round
      BY <3>2 DEF Encode, u
    <3>3. QED BY <3>1, <3>2
  <2> HIDE DEF x, y
  <2> DEFINE c == AsStat(lit)
             v == AsStat(x)
             h == AsStat(x \div StatValues)
             z == AsStat(y)
  <2>3. c \in Nat /\ v \in Nat /\ z \in Nat /\ h \in Nat
    BY <1>2, <1>4, <2>1
  <2> HIDE DEF c, v, h, z
  <2>4. <<c, v, z>> \in Seq(Nat) /\ <<c, v, h, z>> \in Seq(Nat)
    BY <2>3
  <2>5. QED BY <2>2, <2>4 DEF c, v, h, z

\* A match in the block is read as it was written
LEMMA RecordRead ==
  ASSUME JobTypes, NEW e \in Nat, NEW dest \in Nat, NEW offset \in Nat, NEW len \in Nat,
         NEW w, w = Encode(ROUND_MATCHES, BASE_LEN, dest - e, offset, len), e <= dest, dest + len <= Length, BASE_LEN <= len, 1 <= offset, offset <= Start + dest,
         ROUND_MATCHES => ((Start + dest) - offset) % BASE_LEN = 0 /\ len % BASE_LEN = 0
  PROVE  Read(Start + e, w)
           = [lit |-> dest - e, len |-> len, src |-> (Start + dest) - offset, dest |-> Start + dest]
<1> DEFINE B == BASE_LEN
           s == Start
           pos == s + e
           to == s + dest
           src == to - offset
<1>1. /\ B \in Nat /\ B >= 1 /\ s \in Nat /\ Length \in Nat /\ Length < StatValues
      /\ Size \in Nat /\ s + Length <= Size /\ Size <= StatValues * StatValues
      /\ StatValues \in Nat
      /\ ROUND_MATCHES => Size <= StatValues * B
  BY Base, Block, Constants
<1>2. /\ pos \in Nat /\ to \in Nat /\ src \in Nat /\ to - pos = dest - e /\ to - src = offset
      /\ to - pos \in 0 .. StatValues - 1 /\ len \in 0 .. StatValues - 1 /\ CanEncode(B, len)
  BY <1>1 DEF CanEncode
<1>3. offset <= Size - 1
  BY <1>1
<1>4. /\ offset \in 0 .. StatValues * StatValues - 1
      /\ ROUND_MATCHES => offset \in 0 .. StatValues * B - 1
  <2> DEFINE v == StatValues * StatValues
             g == StatValues * B
  <2>1. v \in Int /\ g \in Int /\ Size <= v /\ (ROUND_MATCHES => Size <= g)
    BY <1>1
  <2> HIDE DEF v, g
  <2>2. offset \in 0 .. v - 1 /\ (ROUND_MATCHES => offset \in 0 .. g - 1)
    BY <1>1, <1>3, <2>1
  <2>3. QED BY <2>2 DEF v, g
<1>5. ROUND_MATCHES => src % B = 0 /\ len % B = 0
  OBVIOUS
<1>6. ROUND_MATCHES \in BOOLEAN
  BY DEF ROUND_MATCHES
<1> HIDE DEF B, s, pos, to, src
<1>7. CASE ROUND_MATCHES
  <2>1. src % B = 0 /\ len % B = 0 /\ to - src \in 0 .. StatValues * B - 1
    BY <1>2, <1>4, <1>5, <1>7
  <2>2. ROUND_MATCHES = TRUE
    BY <1>6, <1>7
  <2>3. Reads(ROUND_MATCHES, B, pos, to, src, len)
    BY <1>1, <1>2, <2>1, <2>2, RoundedRoundTrip
  <2>4. QED BY <1>2, <2>3 DEF Reads, Read, B, s, pos, to, src
<1>8. CASE ~ROUND_MATCHES
  <2>1. to - src \in 0 .. StatValues * StatValues - 1
    BY <1>2, <1>4
  <2>2. ROUND_MATCHES = FALSE
    BY <1>6, <1>8
  <2>3. Reads(ROUND_MATCHES, B, pos, to, src, len)
    BY <1>1, <1>2, <2>1, <2>2, OwnListRoundTrip
  <2>4. QED BY <1>2, <2>3 DEF Reads, Read, B, s, pos, to, src
<1>9. QED BY <1>7, <1>8

\* The bytes in matches, one match more
LEMMA SumMore ==
  ASSUME NEW M, IsFiniteSet(M), NEW d, d \notin M, \A x \in M \cup {d} : x.len \in Int
  PROVE  /\ IsFiniteSet(M \cup {d})
         /\ SumFunctionOnSet([x \in M \cup {d} |-> x.len], M \cup {d})
              = SumFunctionOnSet([x \in M |-> x.len], M) + d.len
         /\ SumFunctionOnSet([x \in M |-> x.len], M) \in Int
<1> DEFINE N == M \cup {d}
           f == [x \in N |-> x.len]
           g == [x \in M |-> x.len]
<1>1. IsFiniteSet(N)
  BY FS_AddElement
<1>2. (\A x \in N : f[x] = x.len /\ f[x] \in Int) /\ (\A x \in M : g[x] = x.len /\ g[x] \in Int)
  OBVIOUS
<1>3. d \in N /\ N \ {d} = M /\ f[d] = d.len /\ \A x \in M : f[x] = g[x]
  BY <1>2
<1> HIDE DEF N, f, g
<1>4. SumFunctionOnSet(f, N) = f[d] + SumFunctionOnSet(f, N \ {d})
  BY <1>1, <1>2, <1>3, SumRemove
<1>5. SumFunctionOnSet(f, M) = SumFunctionOnSet(g, M)
  BY <1>3, SumSame
<1>6. SumFunctionOnSet(g, M) \in Int
  BY <1>2, SumType
<1>7. d.len \in Int
  OBVIOUS
<1>8. SumFunctionOnSet(f, N) = SumFunctionOnSet(g, M) + d.len
  <2>1. SumFunctionOnSet(f, N \ {d}) = SumFunctionOnSet(g, M)
    BY <1>3, <1>5, Zenon
  <2> DEFINE a == SumFunctionOnSet(g, M)
             b == d.len
  <2>2. SumFunctionOnSet(f, N) = b + a
    BY <1>3, <1>4, <2>1, Zenon
  <2>3. a \in Int /\ b \in Int
    BY <1>6, <1>7
  <2> HIDE DEF a, b
  <2>4. b + a = a + b
    BY <2>3
  <2>5. QED BY <2>2, <2>4, Zenon DEF a, b
<1>9. QED BY <1>1, <1>6, <1>8 DEF N, f, g

\* A match that may be written next
Fits(low, dest, offset, len) ==
  /\ dest \in Nat /\ offset \in Nat /\ len \in Nat
  /\ last_match_end <= dest /\ dest + len <= Length /\ low <= len
  /\ 1 <= offset /\ offset <= Start + dest
  /\ ROUND_MATCHES => ((Start + dest) - offset) % BASE_LEN = 0 /\ len % BASE_LEN = 0
  /\ \A t \in 0 .. len - 1 : file[((Start + dest) - offset) + t] = file[(Start + dest) + t]

\* It is added to the list as it is
LEMMA RecordKeeps ==
  ASSUME JobTypes, UNCHANGED job, NEW low \in Nat, BASE_LEN <= low, Written(low),
         NEW dest, NEW offset, NEW len, NEW next,
         Fits(low, dest, offset, len), Record(dest, offset, len, next)
  PROVE  /\ Written(low)' /\ pc' = next /\ last_match_end' = dest + len
         /\ \A t : Covered(t) => Covered(t)'
         /\ \A t \in Start + dest .. (Start + dest) + len - 1 : Covered(t)'
<1>0. /\ dest \in Nat /\ offset \in Nat /\ len \in Nat
      /\ last_match_end <= dest /\ dest + len <= Length /\ low <= len
      /\ 1 <= offset /\ offset <= Start + dest
      /\ ROUND_MATCHES => ((Start + dest) - offset) % BASE_LEN = 0 /\ len % BASE_LEN = 0
      /\ \A t \in 0 .. len - 1 : file[((Start + dest) - offset) + t] = file[(Start + dest) + t]
  BY DEF Fits
<1> DEFINE e == last_match_end
           w == Encode(ROUND_MATCHES, BASE_LEN, dest - e, offset, len)
           z == Append(list, w)
           l == Len(list)
           s == Start
           d == In(z, l + 1)
<1>1. /\ list \in Seq(Seq(Nat)) /\ e \in Nat /\ l \in Nat /\ s \in Nat /\ Length \in Nat
      /\ BASE_LEN \in Nat /\ BASE_LEN >= 1 /\ literal_bytes \in Int
      /\ InOrder(list, l, low) /\ At(list, l) = s + e /\ l * low <= e
  BY Base, Block DEF Written
<1>2. w \in Seq(Nat)
  <2>1. ROUND_MATCHES \in BOOLEAN /\ dest - e \in Int /\ offset \in Int /\ len \in Int
    BY <1>0, <1>1 DEF ROUND_MATCHES
  <2>2. QED BY <1>0, <1>1, <2>1, EncodeType
<1>3. list' = z /\ e' = dest + len /\ literal_bytes' = literal_bytes - len /\ pc' = next
  BY <1>0, <1>1 DEF Record, CanEncode
<1>4. /\ \A k \in 1 .. l : In(z, k) = In(list, k)
      /\ \A k \in 0 .. l : At(z, k) = At(list, k)
      /\ d = Read(s + e, w)
      /\ At(z, l + 1) = d.dest + d.len
      /\ z \in Seq(Seq(Nat)) /\ Len(z) = l + 1
  <2> HIDE DEF w, s
  <2>1. QED BY <1>0, <1>1, <1>2, ListMore
<1>5. d = [lit |-> dest - e, len |-> len, src |-> (s + dest) - offset, dest |-> s + dest]
  <2>1. Read(s + e, w)
          = [lit |-> dest - e, len |-> len, src |-> (s + dest) - offset, dest |-> s + dest]
    <3>1. /\ e \in Nat /\ e <= dest /\ BASE_LEN <= len
          /\ w = Encode(ROUND_MATCHES, BASE_LEN, dest - e, offset, len)
      BY <1>0, <1>1
    <3> HIDE DEF e, w
    <3>2. QED BY <1>0, <3>1, RecordRead
  <2>2. QED BY <1>4, <2>1
<1> HIDE DEF d, z, w, l, s
<1>6. d.dest = s + dest /\ d.len = len /\ d.src = (s + dest) - offset
  BY <1>0, <1>5
<1>7. Copies(d, low)
  <2>1. \A t \in 0 .. len - 1 : file[((s + dest) - offset) + t] = file[(s + dest) + t]
    BY <1>0 DEF s
  <2>2. (s + dest) - offset \in Nat /\ s + dest \in Nat /\ (s + dest) - offset < s + dest
    BY <1>0, <1>1 DEF s
  <2>3. QED BY <1>0, <1>6, <2>1, <2>2 DEF Copies
<1>8. InOrder(z, l + 1, low)
  <2>1. /\ d = In(Append(list, w), Len(list) + 1) /\ InOrder(list, Len(list), low)
        /\ Start <= At(list, Len(list)) /\ At(list, Len(list)) <= d.dest
        /\ d.dest + d.len <= Start + Length
    BY <1>0, <1>1, <1>6 DEF d, z, l, s
  <2>2. QED BY <1>0, <1>1, <1>2, <1>7, <2>1, OrderMore DEF z, l
<1>9. \A k \in 1 .. l : /\ In(list, k).len \in Int /\ In(list, k).dest \in Int
                        /\ In(list, k).dest < s + e
  <2>1. \A k \in 0 .. l : At(list, k) \in Nat /\ At(list, k) <= s + e
    <3>1. l \in 0 .. Len(list)
      BY <1>0, <1>1 DEF l
    <3>2. /\ \A k \in 0 .. l : At(list, k) \in Nat /\ s <= At(list, k)
          /\ \A j, k \in 0 .. l : j <= k => At(list, j) <= At(list, k)
      BY <1>0, <1>1, <3>1, EndsGrow DEF s
    <3>3. QED BY <1>0, <1>1, <3>2
  <2>2. SUFFICES ASSUME NEW k \in 1 .. l
                 PROVE  /\ In(list, k).len \in Int /\ In(list, k).dest \in Int
                        /\ In(list, k).dest < s + e
    OBVIOUS
  <2>3. Copies(In(list, k), low)
    BY <1>0, <1>1 DEF InOrder
  <2>4. At(list, k) = In(list, k).dest + In(list, k).len
    BY <1>0, <1>1, ListEnds DEF l
  <2>5. k \in 0 .. l
    BY <1>0, <1>1
  <2> DEFINE a == In(list, k).dest
             b == In(list, k).len
  <2>6. a \in Nat /\ b \in Nat /\ low <= b
    BY <2>3 DEF Copies
  <2>7. At(list, k) <= s + e /\ At(list, k) = a + b
    BY <2>1, <2>4, <2>5
  <2> HIDE DEF a, b
  <2>8. a \in Int /\ b \in Int /\ a < s + e
    BY <1>0, <1>1, <2>6, <2>7
  <2>9. QED BY <2>8 DEF a, b
<1>10. Matches(list) = {In(list, k) : k \in 1 .. l}
  BY DEF Matches, FirstMatches, In, l
<1>11. Matches(z) = Matches(list) \cup {d}
  <2>1. Matches(z) = {In(z, k) : k \in 1 .. l + 1}
    BY <1>4 DEF Matches, FirstMatches, In
  <2>2. \A k \in 1 .. l + 1 : k \in 1 .. l \/ k = l + 1
    BY <1>0, <1>1
  <2>3. In(z, l + 1) = d /\ l + 1 \in 1 .. l + 1 /\ \A k \in 1 .. l : k \in 1 .. l + 1
    BY <1>0, <1>1 DEF d
  <2>4. QED BY <1>4, <1>10, <2>1, <2>2, <2>3
<1> DEFINE M == Matches(list)
<1>12. IsFiniteSet(M) /\ d \notin M /\ \A x \in M \cup {d} : x.len \in Int
  <2>1. IsFiniteSet(M)
    BY DEF Written
  <2>2. \A x \in M : x.len \in Int /\ x.dest \in Int /\ x.dest < s + e
    BY <1>9, <1>10
  <2>3. d.len \in Int /\ d.dest >= s + e
    BY <1>0, <1>1, <1>6
  <2>4. d \notin M
    BY <1>0, <1>1, <2>2, <2>3
  <2>5. QED BY <2>1, <2>2, <2>3, <2>4
<1>13. /\ IsFiniteSet(Matches(z))
       /\ SumFunctionOnSet([x \in Matches(z) |-> x.len], Matches(z))
            = SumFunctionOnSet([x \in M |-> x.len], M) + len
       /\ SumFunctionOnSet([x \in M |-> x.len], M) \in Int
  <2> HIDE DEF M
  <2>1. /\ IsFiniteSet(M \cup {d})
        /\ SumFunctionOnSet([x \in M \cup {d} |-> x.len], M \cup {d})
             = SumFunctionOnSet([x \in M |-> x.len], M) + d.len
        /\ SumFunctionOnSet([x \in M |-> x.len], M) \in Int
    BY <1>0, <1>12, SumMore
  <2>2. Matches(z) = M \cup {d} /\ d.len = len
    BY <1>6, <1>11 DEF M
  <2>3. QED BY <2>1, <2>2, Zenon
<1>14. literal_bytes - len
         = Length - SumFunctionOnSet([x \in Matches(z) |-> x.len], Matches(z))
  <2> DEFINE a == SumFunctionOnSet([x \in M |-> x.len], M)
             b == SumFunctionOnSet([x \in Matches(z) |-> x.len], Matches(z))
  <2>1. literal_bytes = Length - a
    BY DEF Written
  <2>2. a \in Int /\ b = a + len
    BY <1>0, <1>13
  <2> HIDE DEF a, b, M
  <2>3. literal_bytes - len = Length - b
    BY <1>0, <1>1, <2>1, <2>2
  <2>4. QED BY <2>3 DEF b
<1>15. (l + 1) * low <= dest + len
  <2>1. (l + 1) * low = l * low + low
    BY <1>0, <1>1
  <2>2. l * low \in Int
    BY <1>0, <1>1
  <2>3. QED BY <1>0, <1>1, <2>1, <2>2
<1>16. Written(low)'
  <2>1. /\ list' = z /\ last_match_end' = dest + len /\ literal_bytes' = literal_bytes - len
        /\ Len(z) = l + 1 /\ z \in Seq(Seq(Nat))
    BY <1>3, <1>4
  <2>2. dest + len \in 0 .. Length /\ literal_bytes - len \in Int
    BY <1>0, <1>1
  <2>3. At(z, l + 1) = s + (dest + len)
    BY <1>0, <1>1, <1>4, <1>6
  <2>4. list' \in Seq(Seq(Nat)) /\ last_match_end' \in 0 .. Length' /\ literal_bytes' \in Int
    BY <2>1, <2>2, JobSame
  <2>5. InOrder(list, Len(list), low)'
    BY <1>8, <2>1, JobSame
  <2>6. (At(list, Len(list)) = Start + last_match_end)'
    BY <2>1, <2>3, JobSame DEF s
  <2>7. (Len(list) * low <= last_match_end)'
    BY <1>0, <1>15, <2>1
  <2>8. /\ IsFiniteSet(Matches(list))'
        /\ literal_bytes' = Length' - SumFunctionOnSet([x \in Matches(list) |-> x.len], Matches(list))'
    BY <1>0, <1>13, <1>14, <2>1, JobSame
  <2>9. QED BY <2>4, <2>5, <2>6, <2>7, <2>8 DEF Written
<1>17. ASSUME NEW t, Covered(t)
       PROVE  Covered(t)'
  BY <1>0, <1>1, <1>3, <1>4, <1>17, JobSame DEF Covered, l
<1>18. ASSUME NEW t \in Start + dest .. (Start + dest) + len - 1
       PROVE  Covered(t)'
  <2>1. In(z, l + 1).dest <= t /\ t < At(z, l + 1)
    BY <1>0, <1>1, <1>4, <1>6, <1>18 DEF d, s
  <2>2. QED BY <1>0, <1>1, <1>3, <1>4, <2>1, JobSame DEF Covered
<1>19. QED BY <1>3, <1>16, <1>17, <1>18

-----------------------------------------------------------------------------
(* Steps that leave lists alone.                                           *)

LEMMA ListSame ==
  ASSUME UNCHANGED job, UNCHANGED output
  PROVE  /\ \A low : Written(low)' = Written(low)
         /\ \A t : Covered(t)' = Covered(t)
<1>1. list' = list /\ last_match_end' = last_match_end /\ literal_bytes' = literal_bytes
  BY DEF output
<1>2. ASSUME NEW low PROVE Written(low)' = Written(low)
  <2>1. /\ (InOrder(list, Len(list), low)' = InOrder(list, Len(list), low))
        /\ ((At(list, Len(list)) = Start + last_match_end)' = (At(list, Len(list)) = Start + last_match_end))
        /\ (Matches(list)' = Matches(list)) /\ Length' = Length
    BY <1>1, JobSame
  <2>2. QED BY <1>1, <2>1 DEF Written
<1>3. ASSUME NEW t PROVE Covered(t)' = Covered(t)
  BY <1>1, JobSame DEF Covered
<1>4. QED BY <1>2, <1>3

LEMMA InputSame ==
  ASSUME UNCHANGED job, UNCHANGED inputs
  PROVE  InputsGood' = InputsGood
<1>1. aux' = aux /\ instat' = instat /\ input' = input
  BY DEF inputs
<1>2. QED BY <1>1, JobSame DEF InputsGood

\* A list with nothing in it
LEMMA NoRecord ==
  ASSUME NEW low
  PROVE  InOrder(<<>>, 0, low) /\ At(<<>>, 0) = Start /\ Matches(<<>>) = {}
<1>1. <<>> \in Seq(Seq(Nat)) /\ Len(<<>>) = 0
  OBVIOUS
<1>2. At(<<>>, 0) = Start
  BY <1>1, ListEnds
<1>3. \A k \in 1 .. 0 : FALSE
  OBVIOUS
<1>4. QED BY <1>1, <1>2, <1>3 DEF InOrder, Matches, FirstMatches

LEMMA NothingSummed ==
  ASSUME NEW S, S = {}
  PROVE  IsFiniteSet(S) /\ SumFunctionOnSet([d \in S |-> d.len], S) = 0
BY SumEmpty, FS_EmptySet

\* Longer matches are long enough
LEMMA Lower ==
  ASSUME JobTypes, NEW low \in Nat, NEW base \in Nat, base <= low, Written(low)
  PROVE  Written(base)
<1>1. Len(list) \in Nat /\ Length \in Nat /\ last_match_end \in 0 .. Length /\ Len(list) * low <= last_match_end
  BY Block DEF Written
<1>2. Len(list) * base <= last_match_end
  <2> DEFINE l == Len(list)
  <2>1. l \in Nat /\ l * low <= last_match_end /\ last_match_end \in Nat
    BY <1>1
  <2> HIDE DEF l
  <2>2. l * base <= l * low
    <3>1. PICK z \in Nat : low = base + z
      <4>1. low - base \in Nat /\ low = base + (low - base)
        OBVIOUS
      <4>2. QED BY <4>1
    <3>2. l * low = l * base + l * z /\ l * z >= 0
      BY <2>1, <3>1
    <3>3. QED BY <2>1, <3>2
  <2>3. l * base \in Int /\ l * low \in Int
    BY <2>1
  <2>4. l * base <= last_match_end
    BY <2>1, <2>2, <2>3
  <2>5. QED BY <2>4 DEF l
<1>3. InOrder(list, Len(list), base)
  BY DEF Written, InOrder, Copies
<1>4. QED BY <1>2, <1>3 DEF Written

-----------------------------------------------------------------------------
(* The initial states.                                                     *)

LEMMA InitHolds == Init => IInv
<1>1. SUFFICES ASSUME Init PROVE IInv
  OBVIOUS
<1>2. JobTypes
  BY <1>1 DEF Init, JobTypes
<1>3. Length \in Nat /\ Start \in Nat /\ bufstart \in Nat
  BY <1>2, Block, Dictionary
<1>4. BlockTypes
  BY <1>1, <1>2, <1>3 DEF Init, BlockTypes, Searching
<1>5. Written(dict_min_match)
  <2>1. list = <<>> /\ Len(list) = 0 /\ last_match_end = 0 /\ literal_bytes = Length
    BY <1>1 DEF Init
  <2>2. InOrder(list, Len(list), dict_min_match) /\ At(list, Len(list)) = Start /\ Matches(list) = {}
    BY <2>1, NoRecord
  <2>3. /\ IsFiniteSet(Matches(list))
        /\ SumFunctionOnSet([d \in Matches(list) |-> d.len], Matches(list)) = 0
    BY <2>2, NothingSummed, Zenon
  <2>4. list \in Seq(Seq(Nat)) /\ last_match_end \in 0 .. Length /\ literal_bytes \in Int
    BY <1>3, <2>1
  <2>5. Len(list) * dict_min_match <= last_match_end
    BY <2>1, Constants
  <2>6. Start = Start + last_match_end /\ literal_bytes = Length - 0
    BY <1>3, <2>1
  <2>7. QED BY <2>2, <2>3, <2>4, <2>5, <2>6 DEF Written
<1>6. pc = "inmem" /\ aux = <<>>
  BY <1>1 DEF Init
<1>7. QED BY <1>4, <1>5, <1>6 DEF IInv, ListKept, Low, InputsGood, StepsEven, InputsCovered, Searching

-----------------------------------------------------------------------------
(* The in-memory compressor.                                               *)

\* A match grows from x in both directions as far as bytes may be compared
LEMMA Grown ==
  ASSUME JobTypes, NEW x \in Int, NEW m \in 0 .. dictsize - 1, last_match_end \in Nat,
         bufstart + last_match_end <= x, x < bufend
  PROVE  /\ find_match_start(x, m) \in Nat /\ find_match_end(x, m) \in Nat
         /\ bufstart + last_match_end <= find_match_start(x, m)
         /\ find_match_start(x, m) <= x /\ x <= find_match_end(x, m)
         /\ find_match_end(x, m) <= bufend
         /\ \A t \in find_match_start(x, m) .. find_match_end(x, m) - 1 :
              From(x, m) <= t /\ t < To(x, m) /\ SameInDict(t - x + m, t)
<1> DEFINE d == dictsize
           w == MAX_DIST
           p == bufstart
           low == LowBound(x, m)
           high == HighBound(x, m)
           data == DataStart
           f == From(x, m)
           g == To(x, m)
           first == p + last_match_end
<1>1. /\ d \in Nat /\ w \in Nat /\ d >= w /\ p \in Nat /\ bufend \in Nat /\ bufend <= d
      /\ m \in 0 .. d - 1 /\ x \in Nat /\ first \in Nat /\ first <= x /\ x < bufend
  <2> DEFINE b == BlockSize
  <2>1. /\ d \in Nat /\ w \in Nat /\ b \in Nat /\ d >= w + 2 * b /\ p \in Nat /\ p + b <= d
        /\ bufend = p + Length /\ Length \in Nat /\ Length <= b
    BY Constants, Dictionary, Block
  <2>2. m \in 0 .. d - 1 /\ first = p + last_match_end /\ first <= x /\ x < bufend
    OBVIOUS
  <2> HIDE DEF d, w, p, b, first
  <2>3. QED BY <2>1, <2>2
<1>2. data \in 0 .. d - 1
  <2> DEFINE a == bufstart + dictsize - MAX_DIST
  <2>1. a \in Int /\ data = a % d
    BY <1>1 DEF DataStart
  <2>2. d \in Nat /\ d >= 1
    BY <1>1
  <2> HIDE DEF a, d, data
  <2>3. QED BY <2>1, <2>2, DivMod
<1>3. low = IF m < data THEN x - m ELSE IF m - data > x THEN 0 ELSE x - (m - data)
  BY DEF LowBound
<1>4. high = IF m < x THEN d ELSE d - m + x
  BY DEF HighBound
<1>5. f = IF first >= low THEN first ELSE low
  <2>1. first \in Int /\ low \in Int
    BY <1>1, <1>2, <1>3
  <2>2. QED BY <2>1, Max2 DEF From
<1>6. g = IF bufend <= high THEN bufend ELSE high
  <2>1. bufend \in Int /\ high \in Int
    BY <1>1, <1>4
  <2>2. QED BY <2>1, Min2 DEF To
<1> DEFINE A == {s \in f .. x : \A t \in s .. x - 1 : SameInDict(t - x + m, t)} \cup {x}
           B == {e \in x .. g : \A t \in x .. e - 1 : SameInDict(t - x + m, t)} \cup {x}
           start == find_match_start(x, m)
           end == find_match_end(x, m)
<1>7. start = Min(A) /\ end = Max(B)
  BY DEF find_match_start, find_match_end
<1> HIDE DEF d, w, p, low, high, data, f, g, first, start, end
<1>8. f \in Nat /\ first <= f /\ f <= x /\ g \in Nat /\ x < g /\ g <= bufend
  BY <1>1, <1>2, <1>3, <1>4, <1>5, <1>6
<1>9. start \in A
  <2>1. A \subseteq Nat /\ A # {}
    BY <1>1, <1>8
  <2> HIDE DEF A
  <2>2. QED BY <1>7, <2>1, MinIs
<1>10. end \in B
  <2>1. B \subseteq Nat /\ B # {} /\ \A y \in B : y <= g
    BY <1>1, <1>8
  <2> HIDE DEF B
  <2>2. QED BY <1>7, <1>8, <2>1, MaxIs
<1>11. start \in f .. x /\ \A t \in start .. x - 1 : SameInDict(t - x + m, t)
  BY <1>1, <1>8, <1>9
<1>12. end \in x .. g /\ \A t \in x .. end - 1 : SameInDict(t - x + m, t)
  BY <1>1, <1>8, <1>10
<1>13. ASSUME NEW t \in start .. end - 1
       PROVE  f <= t /\ t < g /\ SameInDict(t - x + m, t)
  <2>1. t \in start .. x - 1 \/ t \in x .. end - 1
    BY <1>1, <1>8, <1>11, <1>12
  <2>2. f <= t /\ t < g
    BY <1>1, <1>8, <1>11, <1>12
  <2>3. QED BY <1>11, <1>12, <2>1, <2>2
<1>14. start \in Nat /\ end \in Nat /\ first <= start /\ start <= x /\ x <= end /\ end <= bufend
  BY <1>1, <1>8, <1>11, <1>12
<1>15. QED BY <1>13, <1>14 DEF start, end, first, f, g, p

\* The match it makes
LEMMA InmemMatch ==
  ASSUME BlockTypes, Written(dict_min_match), UNCHANGED job, mode.dict,
         NEW x \in Int, NEW m \in Indexed, bufstart + last_match_end <= x, x < bufend, Near(x, m),
         NEW start, start = find_match_start(x, m), NEW end, end = find_match_end(x, m),
         end - start >= dict_min_match,
         Record(start - bufstart, Distance(x, m), end - start, "inmem")
  PROVE  Written(dict_min_match)' /\ pc' = "inmem"
<1> DEFINE s == Start
           p == bufstart
           e == last_match_end
           D == Distance(x, m)
           low == dict_min_match
<1>1. /\ JobTypes /\ s \in Nat /\ p \in Nat /\ e \in Nat /\ Length \in Nat /\ bufend = p + Length
      /\ low \in Nat /\ low >= 1 /\ BASE_LEN <= low
  BY Block, Dictionary, Constants, Base DEF BlockTypes, Written
<1>2. m \in 0 .. dictsize - 1
  <2>1. m \in 1 .. dictsize - 1 /\ dictsize \in Nat
    BY IndexedIn, Dictionary DEF BlockTypes
  <2>2. QED BY <2>1
<1>3. /\ start \in Nat /\ end \in Nat /\ p + e <= start /\ start <= x /\ x <= end /\ end <= bufend
      /\ \A t \in start .. end - 1 : From(x, m) <= t /\ t < To(x, m) /\ SameInDict(t - x + m, t)
  BY <1>1, <1>2, Grown
<1>4. bufstart <= x
  BY <1>1
<1>5. ASSUME NEW t \in start .. end - 1
      PROVE  /\ D \in Nat /\ D >= 1 /\ D <= s + (t - p) /\ t >= p
             /\ file[(s + (t - p)) - D] = file[s + (t - p)]
  <2>1. From(x, m) <= t /\ t < To(x, m) /\ SameInDict(t - x + m, t) /\ t \in Int
    BY <1>3
  <2>2. /\ Distance(x, m) \in 1 .. MAX_DIST
        /\ Held(t) = Start + t - bufstart
        /\ Held(t - x + m) = Held(t) - Distance(x, m)
        /\ bufstart + last_match_end <= t /\ t < bufend
    BY <1>1, <1>2, <1>4, <2>1, Compared
  <2>3. Held(t) = s + (t - p) /\ Held(t - x + m) = (s + (t - p)) - D
    BY <1>1, <2>1, <2>2
  <2>4. /\ (s + (t - p)) - D >= 0
        /\ file[(s + (t - p)) - D] = file[s + (t - p)]
    BY <2>1, <2>3 DEF SameInDict
  <2>5. D \in 1 .. MAX_DIST /\ MAX_DIST \in Nat
    BY <2>2, Constants
  <2> HIDE DEF s, p, D
  <2>6. QED BY <1>1, <1>3, <2>1, <2>2, <2>4, <2>5 DEF p
<1> DEFINE dest == start - p
           len == end - start
<1>6. /\ dest \in Nat /\ len \in Nat /\ e <= dest /\ dest + len <= Length /\ low <= len
  BY <1>1, <1>3
<1>7. start \in start .. end - 1
  BY <1>1, <1>3
<1>8. D \in Nat /\ 1 <= D /\ D <= s + dest
  BY <1>5, <1>7
<1>9. \A t \in 0 .. len - 1 : file[((s + dest) - D) + t] = file[(s + dest) + t]
  <2>1. SUFFICES ASSUME NEW t \in 0 .. len - 1
                 PROVE  file[((s + dest) - D) + t] = file[(s + dest) + t]
    OBVIOUS
  <2>2. start + t \in start .. end - 1
    BY <1>3
  <2> DEFINE u == start + t
  <2>3. file[(s + (u - p)) - D] = file[s + (u - p)]
    BY <1>5, <2>2
  <2>4. (s + (u - p)) - D = ((s + dest) - D) + t /\ s + (u - p) = (s + dest) + t
    <3> HIDE DEF s, p, D
    <3>1. s \in Int /\ p \in Int /\ D \in Int /\ start \in Int /\ t \in Int
      BY <1>1, <1>3, <1>8
    <3>2. QED BY <3>1
  <2> HIDE DEF u, s, p, D, dest
  <2>5. QED BY <2>3, <2>4
<1>10. ROUND_MATCHES => ((s + dest) - D) % BASE_LEN = 0 /\ len % BASE_LEN = 0
  BY DEF ROUND_MATCHES
<1>11. Record(dest, D, len, "inmem") /\ Written(low)
  OBVIOUS
<1> HIDE DEF dest, len, D, low
<1>12. Fits(low, dest, D, len)
  BY <1>6, <1>8, <1>9, <1>10 DEF Fits
<1>13. Written(low)' /\ pc' = "inmem"
  BY <1>1, <1>11, <1>12, RecordKeeps
<1>14. QED BY <1>13 DEF low

LEMMA InmemStepKeeps == IInv /\ InmemStep => IInv'
<1>1. SUFFICES ASSUME IInv, InmemStep PROVE IInv'
  OBVIOUS
<1>2. /\ pc = "inmem" /\ mode.dict /\ last_i + 2 * InmemL <= bufend /\ last_i' = last_i + InmemL
      /\ UNCHANGED job /\ i' = i /\ next_chunk' = next_chunk /\ UNCHANGED inputs
      /\ aux' = aux /\ instat' = instat /\ input' = input
  BY <1>1 DEF InmemStep, inputs
<1>3. BlockTypes /\ Written(dict_min_match) /\ JobTypes /\ aux = <<>>
  BY <1>1, <1>2 DEF IInv, ListKept, Low, BlockTypes
<1>4. Written(dict_min_match)' /\ pc' = "inmem"
  <2>1. CASE UNCHANGED <<output, pc>>
    <3>1. UNCHANGED output /\ pc' = pc
      BY <2>1
    <3>2. QED BY <1>2, <1>3, <3>1, ListSame
  <2>2. CASE ~UNCHANGED <<output, pc>>
    <3>1. PICK x \in last_i .. last_i + InmemL - 1, m \in Indexed :
            /\ x >= bufstart + last_match_end
            /\ Near(x, m)
            /\ LET start == find_match_start(x, m)
                   end   == find_match_end(x, m)
               IN  /\ end - start >= dict_min_match
                   /\ Record(start - bufstart, Distance(x, m), end - start, "inmem")
      BY <1>1, <2>2 DEF InmemStep
    <3> DEFINE start == find_match_start(x, m)
               end   == find_match_end(x, m)
    <3>2. /\ end - start >= dict_min_match
          /\ Record(start - bufstart, Distance(x, m), end - start, "inmem")
      BY <3>1
    <3> HIDE DEF start, end
    <3>3. /\ x \in Int /\ bufstart + last_match_end <= x /\ x < bufend
      <4>1. last_i \in Nat /\ InmemL \in Nat /\ InmemL >= 1 /\ bufend \in Int /\ bufstart \in Int /\ last_match_end \in Int
        BY <1>3, Constants, Block, Dictionary DEF BlockTypes, Written
      <4>2. QED BY <1>2, <3>1, <4>1
    <3>4. Near(x, m) /\ start = find_match_start(x, m) /\ end = find_match_end(x, m)
      BY <3>1 DEF start, end
    <3>5. QED BY <1>2, <1>3, <3>2, <3>3, <3>4, InmemMatch
  <2>3. QED BY <2>1, <2>2
<1>5. BlockTypes'
  <2>1. last_i' \in Nat /\ bufstart' <= last_i'
    <3>1. last_i \in Nat /\ bufstart \in Nat /\ bufstart <= last_i /\ InmemL \in Nat /\ bufstart' = bufstart
      BY <1>2, <1>3, Constants, Dictionary, JobSame DEF BlockTypes
    <3>2. QED BY <1>2, <3>1
  <2>2. JobTypes' /\ mode' = mode
    BY <1>2, <1>3, JobSame
  <2>3. QED BY <1>2, <1>3, <1>4, <2>1, <2>2 DEF BlockTypes, Searching
<1>6. QED
  BY <1>2, <1>3, <1>4, <1>5 DEF IInv, ListKept, Low, InputsGood, StepsEven, InputsCovered, Searching

\* The fence begins behind the block
LEMMA FenceRead ==
  ASSUME JobTypes, NEW pos \in Nat, NEW w, w = Fence
  PROVE  w \in Seq(Nat) /\ Read(pos, w).dest = pos + (Length + 1)
<1>1. /\ Length \in Nat /\ Length + 1 \in 0 .. StatValues - 1 /\ BASE_LEN \in Nat /\ BASE_LEN >= 1
      /\ ROUND_MATCHES \in BOOLEAN
  BY Base, Block, Constants DEF ROUND_MATCHES
<1>2. AsStat(Length + 1) = Length + 1
  BY <1>1, SmallStat
<1>3. w \in Seq(Nat)
  <2>1. Length + 1 \in Int /\ BASE_LEN \in Int
    BY <1>1
  <2>2. QED BY <1>1, <2>1, EncodeType DEF Fence
<1>4. w[1] = Length + 1
  <2>1. CASE ROUND_MATCHES
    BY <1>2, <2>1 DEF Fence, Encode
  <2>2. CASE ~ROUND_MATCHES
    BY <1>2, <2>2 DEF Fence, Encode
  <2>3. QED BY <2>1, <2>2
<1>5. Read(pos, w).dest = pos + w[1]
  BY DEF Read, Decode
<1>6. QED BY <1>3, <1>4, <1>5

\* How many records of `low` bytes and more a block has
LEMMA Capacity ==
  ASSUME NEW a \in Nat, NEW low \in Nat, low >= 1, NEW e \in Int, a * low <= e
  PROVE  a <= e \div low
<1> DEFINE q == e \div low
           r == e % low
<1>1. q \in Int /\ r \in 0 .. low - 1 /\ e = low * q + r
  BY DivMod
<1> HIDE DEF q, r
<1>2. CASE a >= q + 1
  <2>1. PICK z \in Nat : a = (q + 1) + z
    <3>1. a - (q + 1) \in Nat /\ a = (q + 1) + (a - (q + 1))
      BY <1>1, <1>2
    <3>2. QED BY <3>1
  <2>2. a * low = low * q + low + z * low /\ z * low >= 0
    BY <1>1, <2>1
  <2>3. low * q \in Int /\ z * low \in Int /\ a * low \in Int
    BY <1>1, <2>1
  <2>4. QED BY <1>1, <2>2, <2>3
<1>3. a <= q
  BY <1>1, <1>2
<1>4. QED BY <1>3 DEF q

\* The list of the in-memory compressor becomes the input
LEMMA InmemEndKeeps == IInv /\ InmemEnd => IInv'
<1>1. SUFFICES ASSUME IInv, InmemEnd PROVE IInv'
  OBVIOUS
<1>2. /\ pc = "inmem" /\ UNCHANGED job /\ last_i' = last_i
      /\ BlockTypes /\ JobTypes /\ Written(dict_min_match) /\ aux = <<>>
      /\ (~mode.dict => list = <<>>)
  BY <1>1 DEF InmemEnd, IInv, ListKept, Low, BlockTypes
<1>3. /\ Start \in Nat /\ Length \in Nat /\ bufstart \in Nat /\ BASE_LEN \in Nat /\ BASE_LEN >= 1
      /\ BASE_LEN <= dict_min_match /\ dict_min_match \in Nat /\ dict_min_match >= 1
      /\ L \in Nat /\ L >= 1
      /\ Length <= BlockSize /\ BlockSize \in Nat
  BY <1>2, Block, Dictionary, Base, Constants
<1>4. JobTypes' /\ mode' = mode /\ Length' = Length /\ bufstart' = bufstart /\ BASE_LEN' = BASE_LEN
  BY <1>2, JobSame
<1>5. CASE mode.only
  <2>1. /\ pc' = "done" /\ UNCHANGED output /\ i' = i /\ next_chunk' = next_chunk
        /\ UNCHANGED inputs /\ aux' = aux /\ instat' = instat /\ input' = input
    BY <1>1, <1>5 DEF InmemEnd, inputs
  <2>2. Written(BASE_LEN)
    BY <1>2, <1>3, Lower
  <2>3. Written(BASE_LEN)'
    <3>1. /\ (InOrder(list, Len(list), BASE_LEN)' = InOrder(list, Len(list), BASE_LEN))
          /\ ((At(list, Len(list)) = Start + last_match_end)' = (At(list, Len(list)) = Start + last_match_end))
          /\ (Matches(list)' = Matches(list))
          /\ list' = list /\ last_match_end' = last_match_end /\ literal_bytes' = literal_bytes
      BY <1>2, <2>1, JobSame DEF output
    <3>2. QED BY <1>4, <2>2, <3>1 DEF Written
  <2>4. BlockTypes'
    BY <1>2, <1>4, <2>1 DEF BlockTypes, Searching
  <2>5. QED
    BY <1>2, <2>1, <2>3, <2>4 DEF IInv, ListKept, Low, InputsGood, StepsEven, InputsCovered, Searching
<1>6. CASE ~mode.only
  <2> DEFINE w == Fence
             z == Append(list, w)
             l == Len(list)
             s == Start
             d == In(z, l + 1)
  <2>1. /\ aux' = z /\ instat' = 2 /\ input' = ReadInput(0, aux'[1])
        /\ list' = <<>> /\ last_match_end' = 0 /\ literal_bytes' = Length
        /\ i' = 0 /\ next_chunk' = L
        /\ pc' = IF 2 * L <= Length THEN "first" ELSE "done"
    BY <1>1, <1>6 DEF InmemEnd
  <2>2. /\ list \in Seq(Seq(Nat)) /\ l \in Nat /\ InOrder(list, l, dict_min_match)
        /\ At(list, l) = s + last_match_end /\ last_match_end \in Nat /\ last_match_end <= Length
        /\ l * dict_min_match <= last_match_end
    BY <1>2, <1>3 DEF Written
  <2>3. w \in Seq(Nat) /\ Read(s + last_match_end, w).dest = (s + last_match_end) + (Length + 1)
    <3>1. s + last_match_end \in Nat
      BY <1>3, <2>2
    <3> HIDE DEF w
    <3>2. QED BY <1>2, <3>1, FenceRead DEF w
  <2> HIDE DEF w
  <2>4. /\ z \in Seq(Seq(Nat)) /\ Len(z) = l + 1
        /\ \A k \in 1 .. l : In(z, k) = In(list, k)
        /\ \A k \in 0 .. l : At(z, k) = At(list, k)
        /\ d = Read(At(list, l), w)
    BY <2>2, <2>3, ListMore
  <2>5. d.dest > s + Length /\ At(z, l) = s + last_match_end /\ d.dest \in Nat
    <3>1. l \in 0 .. l
      BY <2>2
    <3>2. d.dest = (s + last_match_end) + (Length + 1) /\ At(z, l) = s + last_match_end
      BY <2>2, <2>3, <2>4, <3>1
    <3>3. QED BY <1>3, <2>2, <3>2
  <2>6. InOrder(z, l, dict_min_match)
    <3>1. ASSUME NEW k \in 1 .. l
          PROVE  /\ Copies(In(z, k), dict_min_match) /\ Start <= At(z, k - 1)
                 /\ At(z, k - 1) <= In(z, k).dest /\ At(z, k) <= Start + Length
      <4>1. k \in 0 .. l /\ k - 1 \in 0 .. l
        BY <2>2
      <4>2. In(z, k) = In(list, k) /\ At(z, k) = At(list, k) /\ At(z, k - 1) = At(list, k - 1)
        BY <2>4, <4>1
      <4>3. QED BY <2>2, <4>2 DEF InOrder
    <3>2. QED BY <3>1 DEF InOrder
  <2> HIDE DEF z, d, l, s
  <2>7. In(z, 1).dest >= s
    <3>1. CASE l = 0
      <4>1. In(z, 1) = d
        BY <3>1 DEF d
      <4>2. QED
        <5>1. d.dest > s + Length /\ s + Length \in Nat /\ s + Length >= s /\ d.dest \in Nat
          BY <1>3, <2>5 DEF s
        <5> DEFINE a == d.dest
        <5>2. a > s + Length /\ a \in Nat
          BY <5>1
        <5> HIDE DEF a
        <5>3. a >= s
          BY <1>3, <5>1, <5>2 DEF s
        <5>4. QED BY <4>1, <5>3 DEF a
    <3>2. CASE l # 0
      <4>1. 1 \in 1 .. l /\ 1 - 1 = 0
        BY <2>2, <3>2
      <4>2. s <= At(z, 0) /\ At(z, 0) <= In(z, 1).dest /\ Copies(In(z, 1), dict_min_match)
        BY <2>6, <4>1 DEF InOrder, s
      <4>3. At(z, 0) = s
        BY <2>4, ListEnds DEF s
      <4>4. QED BY <4>2, <4>3
    <3>3. QED BY <3>1, <3>2
  <2>8. input' = [start |-> In(z, 1).dest - s, len |-> In(z, 1).len, offset |-> In(z, 1).dest - In(z, 1).src]
    <3>1. At(z, 0) = s /\ s + 0 = s
      BY <1>3, <2>4, ListEnds DEF s
    <3>2. In(z, 1) = Read(s, z[1])
      <4>1. In(z, 1) = Read(At(z, 1 - 1), z[1]) /\ 1 - 1 = 0
        BY InIs
      <4>2. QED BY <3>1, <4>1
    <3>3. QED BY <2>1, <3>1, <3>2 DEF ReadInput, Read, s
  <2>9. (l + 1) * StatsPerMatch(ROUND_MATCHES) <= aux_statbuf_size
    <3>1. CASE mode.dict
      <4>1. l <= last_match_end \div dict_min_match /\ l <= BlockSize \div dict_min_match
        <5>1. l * dict_min_match <= BlockSize
          <6>1. l * dict_min_match \in Int
            BY <1>3, <2>2
          <6>2. QED BY <1>3, <2>2, <6>1
        <5>2. last_match_end \in Int /\ BlockSize \in Int
          BY <1>3, <2>2
        <5>3. QED BY <1>3, <2>2, <5>1, <5>2, Capacity
      <4>2. StatsPerMatch(ROUND_MATCHES) = 4
        BY <3>1 DEF StatsPerMatch, ROUND_MATCHES
      <4> DEFINE c == BlockSize \div dict_min_match
      <4>3. aux_statbuf_size = (c + 1) * 4 + 10
        BY <3>1 DEF aux_statbuf_size, MAX_STATS_PER_BLOCK
      <4>4. c \in Int
        BY <1>3, DivMod
      <4> HIDE DEF c
      <4>5. QED BY <2>2, <4>1, <4>2, <4>3, <4>4 DEF c
    <3>2. CASE ~mode.dict
      <4>1. l = 0
        BY <1>2, <3>2 DEF l
      <4>2. aux_statbuf_size = StatsPerMatch(ROUND_MATCHES) /\ StatsPerMatch(ROUND_MATCHES) \in Nat
        BY <3>2 DEF aux_statbuf_size, StatsPerMatch
      <4>3. QED BY <4>1, <4>2
    <3>3. QED BY <3>1, <3>2
  <2>10. ROUND_MATCHES => l = 0
    BY <1>2 DEF ROUND_MATCHES, l
  <2>11. InputsGood'
    <3>1. /\ (InOrder(aux, Len(aux) - 1, dict_min_match)' = InOrder(z, l, dict_min_match))
          /\ In(aux, Len(aux))' = d
          /\ At(aux, Len(aux) - 1)' = At(z, l)
          /\ Len(aux') = l + 1
      <4>1. Len(aux') = l + 1 /\ (l + 1) - 1 = l
        BY <2>1, <2>2, <2>4
      <4>2. QED BY <1>2, <2>1, <4>1, JobSame DEF d
    <3>2. In(aux, Len(aux)).dest' \in Nat /\ (In(aux, Len(aux)).dest > Start + Length)' /\ (Start <= At(aux, Len(aux) - 1))'
      <4>1. s <= s + last_match_end
        BY <1>3, <2>2 DEF s
      <4>2. QED BY <1>2, <2>5, <3>1, <4>1, JobSame DEF s
    <3>3. (Len(aux) * StatsPerMatch(ROUND_MATCHES) <= aux_statbuf_size)'
      BY <1>2, <2>9, <3>1, JobSame
    <3>4. instat' >= 2 /\ instat' - 1 <= Len(aux')
      BY <2>1, <2>2, <3>1
    <3>5. (LET e == In(aux, instat - 1)
           IN  input = [start |-> e.dest - Start, len |-> e.len, offset |-> e.dest - e.src])'
      <4>1. instat' - 1 = 1 /\ In(aux, instat - 1)' = In(z, 1) /\ Start' = s
        BY <1>2, <2>1, JobSame DEF s
      <4>2. QED BY <2>8, <4>1
    <3>6. (ROUND_MATCHES => Len(aux) = 1)'
      <4>1. ROUND_MATCHES' = ROUND_MATCHES
        BY <1>2, JobSame
      <4>2. QED BY <2>10, <3>1, <4>1
    <3>7. QED BY <2>6, <3>1, <3>2, <3>3, <3>4, <3>5, <3>6 DEF InputsGood
  <2>12. Written(BASE_LEN)'
    <3>1. /\ (InOrder(list, Len(list), BASE_LEN)' = InOrder(<<>>, 0, BASE_LEN))
          /\ (At(list, Len(list))' = At(<<>>, 0)) /\ Start' = s /\ (Matches(list)' = Matches(<<>>))
          /\ Len(list') = 0
      <4>1. Len(list') = 0
        BY <2>1
      <4>2. QED BY <1>2, <2>1, <4>1, JobSame DEF s
    <3>2. InOrder(<<>>, 0, BASE_LEN) /\ At(<<>>, 0) = s /\ Matches(<<>>) = {}
      BY NoRecord DEF s
    <3>3. /\ IsFiniteSet(Matches(list))'
          /\ SumFunctionOnSet([e \in Matches(list) |-> e.len], Matches(list))' = 0
      BY <3>1, <3>2, NothingSummed, Zenon
    <3>4. list' \in Seq(Seq(Nat)) /\ last_match_end' \in 0 .. Length' /\ literal_bytes' \in Int
      BY <1>3, <1>4, <2>1
    <3>5. (Len(list) * BASE_LEN <= last_match_end)'
      BY <1>3, <1>4, <2>1, <3>1
    <3>6. s = s + last_match_end' /\ literal_bytes' = Length' - 0
      BY <1>3, <1>4, <2>1 DEF s
    <3>7. QED BY <3>1, <3>2, <3>3, <3>4, <3>5, <3>6 DEF Written
  <2>13. StepsEven'
    <3>1. X \in Nat /\ X >= 1 /\ L % X = 0
      BY WholeUnits, Constants, Max2 DEF X
    <3>2. 0 % X = 0
      BY <3>1, Multiple
    <3>3. QED BY <1>3, <1>4, <2>1, <3>1, <3>2 DEF StepsEven, Searching
  <2>14. InputsCovered'
    <3>1. ASSUME NEW t \in s + input'.start .. s + 0 - 1
          PROVE  FALSE
      <4>1. input'.start = In(z, 1).dest - s
        BY <2>8
      <4> DEFINE a == In(z, 1).dest
      <4>2. a \in Int /\ a >= s
        <5>1. CASE l = 0
          <6>1. a = (s + last_match_end) + (Length + 1)
            BY <2>2, <2>3, <2>4, <5>1 DEF d
          <6>2. QED BY <1>3, <2>2, <2>7, <6>1 DEF s
        <5>2. CASE l # 0
          <6>1. 1 \in 1 .. l
            BY <2>2, <5>2
          <6>2. Copies(In(z, 1), dict_min_match)
            BY <2>6, <6>1 DEF InOrder
          <6>3. QED BY <2>7, <6>2 DEF Copies
        <5>3. QED BY <5>1, <5>2
      <4>3. t \in s + (a - s) .. s + 0 - 1
        BY <3>1, <4>1
      <4> HIDE DEF a
      <4>4. QED BY <1>3, <4>2, <4>3 DEF s
    <3>2. instat' - 2 = 0 /\ last_match_end' = 0 /\ Start' = s /\ \A k : k \in 1 .. 0 => FALSE
      BY <1>2, <2>1, JobSame DEF s
    <3>3. QED BY <3>1, <3>2 DEF InputsCovered
  <2>15. BlockTypes'
    <3>1. aux' \in Seq(Seq(Nat)) /\ aux' # <<>>
      BY <2>1, <2>2, <2>4
    <3>2. pc' \in {"first", "done"} /\ i' \in Nat /\ next_chunk' \in Nat /\ instat' \in Nat
      BY <1>3, <2>1
    <3>3. last_i' \in Nat /\ bufstart' <= last_i'
      BY <1>2, <1>4 DEF BlockTypes
    <3>4. QED BY <1>4, <2>1, <3>1, <3>2, <3>3 DEF BlockTypes, Searching
  <2>16. ListKept'
    <3>1. pc' # "inmem"
      BY <2>1
    <3>2. Low' = BASE_LEN'
      BY <3>1 DEF Low
    <3>3. QED BY <2>12, <3>2, <1>4 DEF ListKept, Written
  <2>17. QED BY <2>11, <2>13, <2>14, <2>15, <2>16 DEF IInv
<1>7. QED BY <1>5, <1>6

-----------------------------------------------------------------------------
(* compress<>: how far a match goes.                                       *)

\* Bytes are compared up to the end of the block
LEMMA RunIs ==
  ASSUME JobTypes, NEW a \in Nat, NEW b \in Nat, b <= Start + Length, NEW r, r = Run(a, b)
  PROVE  r \in Nat /\ b + r <= Start + Length /\ \A t \in 0 .. r - 1 : file[a + t] = file[b + t]
<1> DEFINE e == Start + Length
           S == {c \in 0 .. Start + Length - b : \A t \in 0 .. c - 1 : file[a + t] = file[b + t]}
<1>1. e \in Nat /\ Start + Length - b = e - b /\ e - b \in Nat
  BY Block
<1>2. 0 \in S /\ S \subseteq Nat /\ \A c \in S : c <= e - b
  BY <1>1
<1>3. r = Max(S)
  BY DEF Run
<1>4. r \in S
  <2> HIDE DEF S, e
  <2>1. QED BY <1>1, <1>2, <1>3, MaxIs
<1>5. QED BY <1>1, <1>4

\* Before the match, down to the last one that was written
LEMMA AddLenIs ==
  ASSUME JobTypes, NEW p \in Nat, last_match_end \in Nat, last_match_end <= p, NEW k \in Nat,
         NEW c, c = add_len(p, k)
  PROVE  /\ c \in Nat /\ c <= p - last_match_end /\ c <= k * L
         /\ (mode.digests => c = 0)
         /\ \A t \in 1 .. c : file[Start + p - t] = file[k * L - t]
<1> DEFINE old == k * L
           u == p - last_match_end
           b == IF old < Start THEN Min({old, L, p - last_match_end})
                               ELSE Min({old - Start, L, p - last_match_end})
           S == {x \in 0 .. b : \A t \in 1 .. x : file[Start + p - t] = file[old - t]}
<1>1. old \in Nat /\ u \in Nat /\ L \in Nat /\ Start \in Nat
  BY Constants, Block
<1>2. c = IF mode.digests THEN 0 ELSE Max(S)
  BY DEF add_len
<1>3. b \in Nat /\ b <= u /\ b <= old
  <2>1. CASE old < Start
    <3> DEFINE M == {old, L, u}
    <3>1. M \subseteq Nat /\ M # {} /\ old \in M /\ u \in M
      BY <1>1
    <3> HIDE DEF M
    <3>2. Min(M) \in Nat /\ Min(M) <= old /\ Min(M) <= u
      BY <3>1, MinIs
    <3>3. b = Min(M)
      BY <2>1 DEF M
    <3> HIDE DEF b, u, old
    <3>4. QED BY <3>2, <3>3
  <2>2. CASE ~(old < Start)
    <3> DEFINE o == old - Start
               M == {o, L, u}
    <3>1. M \subseteq Nat /\ M # {} /\ o \in M /\ u \in M /\ o <= old /\ o \in Nat
      BY <1>1, <2>2
    <3> HIDE DEF M
    <3>2. Min(M) \in Nat /\ Min(M) <= o /\ Min(M) <= u
      BY <3>1, MinIs
    <3>3. b = Min(M)
      BY <2>2 DEF M
    <3> HIDE DEF b, u, old, o
    <3>4. QED BY <1>1, <3>1, <3>2, <3>3
  <2>3. QED BY <2>1, <2>2
<1> HIDE DEF b
<1>4. S \subseteq Nat /\ 0 \in S /\ \A x \in S : x <= b
  BY <1>3
<1>5. Max(S) \in S
  <2> HIDE DEF S
  <2>1. QED BY <1>3, <1>4, MaxIs
<1>6. Max(S) \in 0 .. b /\ \A t \in 1 .. Max(S) : file[Start + p - t] = file[old - t]
  BY <1>5
<1> HIDE DEF S, old, u
<1>7. c \in Nat /\ c <= u /\ c <= old /\ (mode.digests => c = 0)
  BY <1>1, <1>2, <1>3, <1>6
<1>8. \A t \in 1 .. c : file[Start + p - t] = file[old - t]
  BY <1>2, <1>6
<1>9. QED BY <1>7, <1>8 DEF old, u

\* Equal chunks, one after the other, are equal bytes
Equal(a, b, len) == \A t \in 0 .. len - 1 : file[a + t] = file[b + t]

EqualChunks(a, b, c) == \A j \in 0 .. c - 1 : SameChunk(a + j * L, b + j * L)

LEMMA Chunkwise ==
  ASSUME NEW a \in Nat, NEW b \in Nat, NEW c \in Nat, EqualChunks(a, b, c)
  PROVE  Equal(a, b, c * L)
<1>1. SUFFICES ASSUME NEW t \in 0 .. c * L - 1
               PROVE  file[a + t] = file[b + t]
  BY DEF Equal
<1> DEFINE j == t \div L
           r == t % L
<1>2. L \in Nat /\ L >= 1 /\ c * L \in Int
  BY Constants
<1>3. j \in Nat /\ r \in 0 .. L - 1 /\ t = L * j + r
  <2>1. t \in Int /\ t >= 0
    BY <1>2
  <2>2. t \div L \in Int /\ t % L \in 0 .. L - 1 /\ t = L * (t \div L) + (t % L) /\ t \div L >= 0
    BY <1>2, <2>1, DivMod
  <2> HIDE DEF j, r
  <2>3. j \in Int /\ r \in 0 .. L - 1 /\ t = L * j + r /\ j >= 0
    BY <2>2 DEF j, r
  <2>4. QED BY <2>3
<1> HIDE DEF j, r
<1>4. j \in 0 .. c - 1
  <2>1. CASE j >= c
    <3>1. PICK z \in Nat : j = c + z
      <4>1. j - c \in Nat /\ j = c + (j - c)
        BY <1>3, <2>1
      <4>2. QED BY <4>1
    <3>2. L * j = c * L + L * z /\ L * z >= 0
      BY <1>2, <3>1
    <3>3. L * j \in Int /\ L * z \in Int
      BY <1>2, <1>3, <3>1
    <3>4. QED BY <1>2, <1>3, <3>2, <3>3
  <2>2. QED BY <1>3, <2>1
<1>5. file[(a + j * L) + r] = file[(b + j * L) + r]
  BY <1>3, <1>4 DEF EqualChunks, SameChunk
<1>6. (a + j * L) + r = a + t /\ (b + j * L) + r = b + t
  <2>1. j * L = L * j /\ j * L \in Int
    BY <1>2, <1>3
  <2>2. QED BY <1>3, <2>1
<1>7. QED BY <1>5, <1>6

\* Whole chunks as far as they lie before the block, then bytes
LEMMA DigestLenIs ==
  ASSUME JobTypes, NEW p \in Nat, p + L <= Length, NEW k \in Nat, SameChunk(k * L, Start + p),
         NEW len, len = DigestLen(p, k)
  PROVE  /\ len \in Nat /\ L <= len /\ p + len <= Length
         /\ \A t \in 0 .. len - 1 : file[k * L + t] = file[(Start + p) + t]
<1> DEFINE a == k * L
           b == Start + p
           q == Length \div L + 1
           before == {c \in 1 .. q : (k + c) * L < Start}
           differ == {c \in before : \/ Length - (p + c * L) < L
                                     \/ ~SameChunk((k + c) * L, Start + p + c * L)}
           c == Max(before \cup {0}) + 1
           run == Run((k + c) * L, Start + p + c * L)
<1>1. /\ L \in Nat /\ L >= 1 /\ a \in Nat /\ b \in Nat /\ Start \in Nat /\ Length \in Nat /\ q \in Nat
  <2>1. L \in Nat /\ L >= 1 /\ Start \in Nat /\ Length \in Nat
    BY Constants, Block
  <2>2. Length \div L \in Nat
    <3>1. Length \in Int /\ Length >= 0
      BY <2>1
    <3>2. Length \div L \in Int /\ Length \div L >= 0
      BY <2>1, <3>1, DivMod
    <3>3. QED BY <3>2
  <2>3. QED BY <2>1, <2>2
<1>2. len = IF differ # {} THEN Min(differ) * L ELSE c * L + run
  BY DEF DigestLen
<1>3. \A j \in Nat : /\ (k + j) * L = a + j * L /\ Start + p + j * L = b + j * L
                     /\ j * L \in Nat /\ (j + 1) * L = j * L + L
  BY <1>1
<1>4. SameChunk(a, b)
  OBVIOUS
<1>5. before \subseteq 1 .. q /\ differ \subseteq before
  OBVIOUS
<1>6. \A j \in before : (k + j) * L < Start
  OBVIOUS
<1>7. \A j \in 1 .. q : (k + j) * L < Start => j \in before
  OBVIOUS
<1>8. \A j \in before : j \notin differ => /\ ~(Length - (p + j * L) < L)
                                           /\ SameChunk((k + j) * L, Start + p + j * L)
  OBVIOUS
<1> HIDE DEF a, b, q, before, differ
\* Chunks that do not differ
<1>9. ASSUME NEW m \in Nat, m >= 1, \A j \in 1 .. m - 1 : j \in before /\ j \notin differ
      PROVE  /\ p + m * L <= Length /\ m * L \in Nat /\ L <= m * L
             /\ \A t \in 0 .. m * L - 1 : file[a + t] = file[b + t]
  <2>1. ASSUME NEW j \in 0 .. m - 1
        PROVE  SameChunk(a + j * L, b + j * L)
    <3>1. CASE j = 0
      <4>1. a + j * L = a /\ b + j * L = b
        BY <1>1, <3>1
      <4>2. QED BY <1>4, <4>1
    <3>2. CASE j # 0
      <4>1. j \in 1 .. m - 1 /\ j \in Nat
        BY <3>2
      <4>2. SameChunk((k + j) * L, Start + p + j * L)
        BY <1>8, <1>9, <4>1
      <4>3. QED BY <1>3, <4>1, <4>2
    <3>3. QED BY <3>1, <3>2
  <2>2. \A t \in 0 .. m * L - 1 : file[a + t] = file[b + t]
    <3>1. EqualChunks(a, b, m)
      BY <2>1 DEF EqualChunks
    <3>2. Equal(a, b, m * L)
      BY <1>1, <3>1, Chunkwise
    <3>3. QED BY <3>2 DEF Equal
  <2>3. PICK j \in Nat : m = j + 1
    <3>1. m - 1 \in Nat /\ m = (m - 1) + 1
      BY <1>9
    <3>2. QED BY <3>1
  <2>4. m * L = j * L + L /\ j * L \in Nat
    BY <1>3, <2>3
  <2>5. p + m * L <= Length
    <3>1. CASE j = 0
      <4>1. m * L = L
        BY <1>1, <2>3, <3>1
      <4>2. QED BY <4>1
    <3>2. CASE j # 0
      <4>1. j \in 1 .. m - 1
        BY <2>3, <3>2
      <4>2. ~(Length - (p + j * L) < L)
        BY <1>8, <1>9, <4>1
      <4> DEFINE z == j * L
      <4>3. z \in Nat /\ ~(Length - (p + z) < L) /\ m * L = z + L
        BY <2>4, <4>2
      <4> HIDE DEF z
      <4>4. QED BY <1>1, <4>3
    <3>3. QED BY <3>1, <3>2
  <2>6. QED BY <1>1, <2>2, <2>4, <2>5
<1>10. CASE differ # {}
  <2> DEFINE m == Min(differ)
  <2>1. m \in differ /\ \A j \in differ : m <= j
    <3>1. differ \subseteq Nat
      BY <1>1, <1>5
    <3>2. QED BY <1>10, <3>1, MinIs
  <2> HIDE DEF m
  <2>2. m \in 1 .. q /\ (k + m) * L < Start /\ m \in Nat /\ m >= 1
    BY <1>1, <1>5, <1>6, <2>1
  <2>3. ASSUME NEW j \in 1 .. m - 1
        PROVE  j \in before /\ j \notin differ
    <3>1. j \in Nat /\ j \in 1 .. q /\ j < m
      BY <1>1, <2>2
    <3>2. (k + j) * L < Start
      <4>1. PICK z \in Nat : m = j + z
        <5>1. m - j \in Nat /\ m = j + (m - j)
          BY <2>2, <3>1
        <5>2. QED BY <5>1
      <4>2. (k + m) * L = (k + j) * L + z * L /\ z * L >= 0
        BY <1>1, <2>2, <3>1, <4>1
      <4>3. (k + m) * L \in Int /\ (k + j) * L \in Int /\ z * L \in Int
        BY <1>1, <2>2, <3>1, <4>1
      <4>4. QED BY <1>1, <2>2, <4>2, <4>3
    <3>3. j \in before
      BY <1>7, <3>1, <3>2
    <3>4. j \notin differ
      BY <2>1, <2>2, <3>1
    <3>5. QED BY <3>3, <3>4
  <2>4. len = m * L
    BY <1>2, <1>10 DEF m
  <2>5. /\ p + m * L <= Length /\ m * L \in Nat /\ L <= m * L
        /\ \A t \in 0 .. m * L - 1 : file[a + t] = file[b + t]
    BY <1>9, <2>2, <2>3
  <2>6. QED BY <2>4, <2>5 DEF a, b
<1>11. CASE differ = {}
  <2> DEFINE x == Max(before \cup {0})
  <2>1. x \in before \cup {0}
    <3>1. before \cup {0} \subseteq Nat /\ before \cup {0} # {} /\ \A y \in before \cup {0} : y <= q
      BY <1>1, <1>5
    <3>2. QED BY <1>1, <3>1, MaxIs
  <2>2. c = x + 1
    OBVIOUS
  <2> HIDE DEF x
  <2>3. x \in Nat /\ c \in Nat /\ c >= 1 /\ c - 1 = x
    BY <1>1, <1>5, <2>1, <2>2
  <2> HIDE DEF c
  <2>4. ASSUME NEW j \in 1 .. c - 1
        PROVE  j \in before /\ j \notin differ
    <3>1. x \in 1 .. q /\ (k + x) * L < Start
      BY <1>5, <1>6, <2>1, <2>3
    <3>2. j \in Nat /\ j \in 1 .. q /\ j <= x
      BY <1>1, <2>3, <3>1
    <3>3. (k + j) * L < Start
      <4>1. PICK z \in Nat : x = j + z
        <5>1. x - j \in Nat /\ x = j + (x - j)
          BY <2>3, <3>2
        <5>2. QED BY <5>1
      <4>2. (k + x) * L = (k + j) * L + z * L /\ z * L >= 0
        BY <1>1, <2>3, <3>2, <4>1
      <4>3. (k + x) * L \in Int /\ (k + j) * L \in Int /\ z * L \in Int
        BY <1>1, <2>3, <3>2, <4>1
      <4>4. QED BY <1>1, <3>1, <4>2, <4>3
    <3>4. QED BY <1>7, <1>11, <3>2, <3>3
  <2>5. /\ p + c * L <= Length /\ c * L \in Nat /\ L <= c * L
        /\ \A t \in 0 .. c * L - 1 : file[a + t] = file[b + t]
    BY <1>9, <2>3, <2>4
  <2> DEFINE u == c * L
             v == a + u
             y == b + u
  <2>6. run = Run(v, y) /\ u \in Nat
    <3>1. (k + c) * L = a + u /\ Start + p + c * L = b + u
      BY <1>3, <2>3
    <3>2. QED BY <2>5, <3>1
  <2>7. len = u + run
    BY <1>2, <1>11
  <2> HIDE DEF run, u
  <2>8. v \in Nat /\ y \in Nat /\ y <= Start + Length
    BY <1>1, <2>5, <2>6 DEF b, u
  <2>9. run \in Nat /\ y + run <= Start + Length /\ \A t \in 0 .. run - 1 : file[v + t] = file[y + t]
    <3> HIDE DEF v, y
    <3>1. QED BY <2>6, <2>8, RunIs
  <2>10. ASSUME NEW t \in 0 .. len - 1
         PROVE  file[a + t] = file[b + t]
    <3>1. CASE t < u
      <4>1. t \in 0 .. u - 1
        BY <2>6, <2>7, <2>9, <3>1
      <4>2. QED BY <2>5, <4>1 DEF u
    <3>2. CASE ~(t < u)
      <4>1. t - u \in 0 .. run - 1 /\ v + (t - u) = a + t /\ y + (t - u) = b + t
        BY <1>1, <2>6, <2>7, <2>9, <3>2
      <4> HIDE DEF v, y
      <4>2. QED BY <2>9, <4>1
    <3>3. QED BY <3>1, <3>2
  <2>11. len \in Nat /\ L <= len /\ p + len <= Length
    <3>1. L <= u /\ y = (Start + p) + u
      BY <2>5 DEF u, b
    <3>2. QED BY <1>1, <2>6, <2>7, <2>8, <2>9, <3>1
  <2>12. QED BY <2>10, <2>11 DEF a, b
<1>12. QED BY <1>10, <1>11

\* Bytes, read back from the file as far as they lie before the block
LEMMA RereadLenIs ==
  ASSUME JobTypes, NEW p \in Nat, p <= Length, NEW k \in Nat, NEW len, len = RereadLen(p, k)
  PROVE  /\ len \in Nat /\ p + len <= Length
         /\ \A t \in 0 .. len - 1 : file[k * L + t] = file[(Start + p) + t]
<1> DEFINE a == k * L
           b == Start + p
           cut == {c \in 0 .. Size : /\ k * L + c * BUFSIZE < Start
                                     /\ k * L + (c + 1) * BUFSIZE > Size}
           run == Run(k * L, Start + p)
<1>1. L \in Nat /\ Start \in Nat /\ Length \in Nat /\ BUFSIZE \in Nat /\ Size \in Nat
  BY Constants, Block
<1>2. a \in Nat /\ b \in Nat /\ b <= Start + Length
  BY <1>1
<1>3. len = IF cut = {} THEN run ELSE Min({run, Min(cut) * BUFSIZE})
  BY DEF RereadLen
<1>4. cut \subseteq Nat /\ run = Run(a, b)
  BY <1>1
<1> HIDE DEF a, b, cut, run
<1>5. run \in Nat /\ b + run <= Start + Length /\ \A t \in 0 .. run - 1 : file[a + t] = file[b + t]
  BY <1>2, <1>4, RunIs
<1>6. len \in Nat /\ len <= run
  <2>1. CASE cut = {}
    BY <1>3, <1>5, <2>1
  <2>2. CASE cut # {}
    <3> DEFINE z == Min(cut) * BUFSIZE
    <3>1. z \in Nat
      <4>1. Min(cut) \in Nat
        BY <1>4, <2>2, MinIs
      <4>2. QED BY <1>1, <4>1
    <3>2. len = Min({run, z})
      BY <1>3, <2>2
    <3> HIDE DEF z
    <3>3. run \in Int /\ z \in Int
      BY <1>5, <3>1
    <3>4. Min({run, z}) = IF run <= z THEN run ELSE z
      BY <3>3, Min2
    <3>5. QED BY <1>5, <3>1, <3>2, <3>4
  <2>3. QED BY <2>1, <2>2
<1>7. \A t \in 0 .. len - 1 : t \in 0 .. run - 1
  BY <1>5, <1>6
<1>8. p + len <= Length
  BY <1>1, <1>5, <1>6 DEF b
<1>9. QED BY <1>5, <1>6, <1>7, <1>8 DEF a, b

\* A length rounded to whole chunks
LEMMA Rounded ==
  ASSUME JobTypes, ROUND_MATCHES, NEW len \in Nat, L <= len, NEW r, r = (len \div L) * L
  PROVE  r \in Nat /\ r <= len /\ BASE_LEN <= r /\ r % BASE_LEN = 0
<1> DEFINE q == len \div L
           b == BASE_LEN
<1>1. L \in Nat /\ L >= 1 /\ b \in Nat /\ b >= 1 /\ L % b = 0
  BY Constants, Base
<1>2. q \in Int /\ len % L \in 0 .. L - 1 /\ len = L * q + (len % L) /\ q >= 0
  <2>1. len \in Int /\ len >= 0
    OBVIOUS
  <2>2. QED BY <1>1, <2>1, DivMod
<1> DEFINE z == len % L
<1> HIDE DEF q, b, z
<1>3. z \in 0 .. L - 1 /\ len = L * q + z
  BY <1>2 DEF z
<1>4. q >= 1
  <2>1. CASE q = 0
    BY <1>1, <1>3, <2>1
  <2>2. QED BY <1>2, <2>1
<1>5. r = L * q /\ r \in Nat /\ r >= L /\ r <= len
  <2>1. r = q * L
    BY DEF q
  <2>2. L * q >= L /\ q * L = L * q /\ L * q \in Nat
    BY <1>1, <1>2, <1>4
  <2> DEFINE c == L * q
  <2>3. r = c /\ c >= L /\ c \in Nat /\ len = c + z
    BY <1>3, <2>1, <2>2
  <2> HIDE DEF c
  <2>4. r \in Nat /\ r >= L /\ r <= len
    BY <1>1, <1>3, <2>3
  <2>5. QED BY <2>3, <2>4 DEF c
<1>6. r % L = 0
  <2>1. (L * q) % L = 0
    BY <1>1, <1>2, Multiple
  <2>2. QED BY <1>5, <2>1, Zenon
<1>7. r % b = 0
  <2>1. r \in Int
    BY <1>5
  <2>2. QED BY <1>1, <1>6, <2>1, MultipleOf, Zenon
<1>8. b <= L
  <2>1. 0 % b = 0
    <3>1. 0 = b * 0 /\ 0 \in Int
      BY <1>1
    <3>2. QED BY <1>1, <3>1, Multiple
  <2>2. 0 + b <= L
    <3>1. 0 \in Int /\ L \in Int /\ 0 < L
      BY <1>1
    <3>2. QED BY <1>1, <2>1, <3>1, MultipleGap, Zenon
  <2>3. QED BY <1>1, <2>2
<1>9. b <= r
  BY <1>1, <1>5, <1>8
<1>10. QED BY <1>5, <1>7, <1>9 DEF b

\* A match with a chunk before p is added to the list as it is
LEMMA FindMatchKeeps ==
  ASSUME JobTypes, Written(BASE_LEN), UNCHANGED job, NEW p \in Nat, NEW k \in Nat, NEW next,
         last_match_end <= p, p + L <= Length, k * L < Start + p, FindMatch(p, k, next)
  PROVE  /\ Written(BASE_LEN)' /\ pc' = next
         /\ \A t : Covered(t) => Covered(t)'
         /\ \A t \in Start + p .. Start + last_match_end' - 1 : Covered(t)'
<1> DEFINE c == add_len(p, k)
           fwd == IF mode.digests THEN DigestLen(p, k) ELSE RereadLen(p, k)
           len == c + fwd
           r == IF ROUND_MATCHES THEN (len \div L) * L ELSE len
           s == Start
           a == k * L
           dest == p - c
           o == Start + p - k * L
<1>1. find_match(p, k) /\ len >= mode.min_match /\ Record(dest, o, r, next)
  BY DEF FindMatch
<1>2. /\ L \in Nat /\ L >= 1 /\ s \in Nat /\ a \in Nat /\ Length \in Nat /\ p <= Length
      /\ last_match_end \in Nat /\ BASE_LEN \in Nat /\ BASE_LEN >= 1
      /\ mode.min_match \in Nat /\ BASE_LEN <= mode.min_match
  BY Constants, Block, Base DEF Written
<1>3. /\ c \in Nat /\ c <= p - last_match_end /\ c <= a
      /\ (mode.digests => c = 0)
      /\ \A t \in 1 .. c : file[s + p - t] = file[a - t]
  <2> HIDE DEF c
  <2>1. QED BY <1>2, AddLenIs DEF c
<1>4. /\ fwd \in Nat /\ p + fwd <= Length /\ (mode.digests => L <= fwd)
      /\ \A t \in 0 .. fwd - 1 : file[a + t] = file[(s + p) + t]
  <2>1. CASE mode.digests
    <3>1. SameChunk(k * L, Start + p) /\ fwd = DigestLen(p, k)
      BY <1>1, <2>1 DEF find_match
    <3> HIDE DEF fwd
    <3>2. QED BY <3>1, DigestLenIs
  <2>2. CASE ~mode.digests
    <3>1. fwd = RereadLen(p, k)
      BY <2>2
    <3> HIDE DEF fwd
    <3>2. p <= Length
      BY <1>2
    <3>3. fwd \in Nat /\ p + fwd <= Length /\ \A t \in 0 .. fwd - 1 : file[k * L + t] = file[(Start + p) + t]
      BY <3>1, <3>2, RereadLenIs
    <3>4. QED BY <2>2, <3>3
  <2>3. QED BY <2>1, <2>2
<1> HIDE DEF c, fwd
<1>5. len \in Nat /\ dest \in Nat /\ last_match_end <= dest /\ dest + len <= Length
  BY <1>2, <1>3, <1>4
<1>6. r \in Nat /\ r <= len /\ BASE_LEN <= r /\ (ROUND_MATCHES => r % BASE_LEN = 0)
  <2>1. CASE ROUND_MATCHES
    <3>1. mode.digests /\ r = (len \div L) * L
      BY <2>1 DEF ROUND_MATCHES
    <3>2. L <= len
      BY <1>2, <1>3, <1>4, <3>1
    <3> HIDE DEF r, len
    <3>3. QED BY <1>5, <2>1, <3>1, <3>2, Rounded
  <2>2. CASE ~ROUND_MATCHES
    <3>1. r = len
      BY <2>2
    <3> HIDE DEF r
    <3>2. QED BY <1>1, <1>2, <1>5, <2>2, <3>1
  <2>3. QED BY <2>1, <2>2
<1>7. o \in Nat /\ o >= 1 /\ o <= s + dest /\ (s + dest) - o = a - c
  <2>1. o = (s + p) - a
    BY <1>2
  <2> HIDE DEF o, a
  <2>2. a < s + p
    BY DEF a
  <2>3. QED BY <1>2, <1>3, <2>1, <2>2
<1>8. ROUND_MATCHES => ((s + dest) - o) % BASE_LEN = 0
  <2>1. SUFFICES ASSUME ROUND_MATCHES PROVE ((s + dest) - o) % BASE_LEN = 0
    OBVIOUS
  <2>2. (s + dest) - o = a
    BY <1>2, <1>3, <1>7, <2>1 DEF ROUND_MATCHES
  <2>3. a % L = 0
    BY <1>2, Multiple
  <2>4. a % BASE_LEN = 0
    <3>1. L % BASE_LEN = 0 /\ a \in Int
      BY <1>2, <2>1, Base
    <3> HIDE DEF a
    <3>2. QED BY <1>2, <2>3, <3>1, MultipleOf, Zenon
  <2>5. QED BY <2>2, <2>4
<1> HIDE DEF a, o, s, r
<1>9. ASSUME NEW t \in 0 .. len - 1
      PROVE  file[(a - c) + t] = file[(s + dest) + t]
  <2>1. CASE t < c
    <3>1. c - t \in 1 .. c /\ s + p - (c - t) = (s + dest) + t /\ a - (c - t) = (a - c) + t
      BY <1>2, <1>3, <2>1
    <3> HIDE DEF dest
    <3>2. file[s + p - (c - t)] = file[a - (c - t)]
      BY <1>3, <3>1
    <3>3. QED BY <3>1, <3>2
  <2>2. CASE ~(t < c)
    <3>1. t - c \in 0 .. fwd - 1 /\ a + (t - c) = (a - c) + t /\ (s + p) + (t - c) = (s + dest) + t
      BY <1>2, <1>3, <1>4, <2>2
    <3> HIDE DEF dest
    <3>2. file[a + (t - c)] = file[(s + p) + (t - c)]
      BY <1>4, <3>1
    <3>3. QED BY <3>1, <3>2
  <2>3. QED BY <2>1, <2>2
<1> HIDE DEF dest, len
<1>10. \A t \in 0 .. r - 1 : file[((s + dest) - o) + t] = file[(s + dest) + t]
  <2>1. \A t \in 0 .. r - 1 : t \in 0 .. len - 1
    BY <1>5, <1>6
  <2>2. QED BY <1>7, <1>9, <2>1
<1>11. PICK low \in Nat : low = BASE_LEN
  BY <1>2
<1>12. dest + r <= Length
  BY <1>2, <1>5, <1>6
<1>13. Fits(low, dest, o, r)
  <2>1. 1 <= o /\ o <= Start + dest
    BY <1>7 DEF s
  <2>2. ROUND_MATCHES => ((Start + dest) - o) % BASE_LEN = 0 /\ r % BASE_LEN = 0
    BY <1>6, <1>8 DEF s
  <2>3. \A t \in 0 .. r - 1 : file[((Start + dest) - o) + t] = file[(Start + dest) + t]
    BY <1>10 DEF s
  <2>4. QED BY <1>5, <1>6, <1>7, <1>11, <1>12, <2>1, <2>2, <2>3 DEF Fits
<1>14. Record(dest, o, r, next) /\ Written(low) /\ BASE_LEN <= low
  BY <1>1, <1>2, <1>11 DEF o, dest, r, len
<1>15. /\ Written(low)' /\ pc' = next /\ last_match_end' = dest + r
       /\ \A t : Covered(t) => Covered(t)'
       /\ \A t \in Start + dest .. (Start + dest) + r - 1 : Covered(t)'
  BY <1>13, <1>14, RecordKeeps
<1>16. Written(BASE_LEN)'
  <2>1. BASE_LEN' = low
    BY <1>11, JobSame
  <2>2. QED BY <1>15, <2>1
<1>17. ASSUME NEW t \in Start + p .. Start + last_match_end' - 1
       PROVE  Covered(t)'
  <2>1. dest <= p
    BY <1>2, <1>3 DEF dest
  <2>2. t \in Start + dest .. (Start + dest) + r - 1
    BY <1>2, <1>5, <1>6, <1>15, <2>1 DEF s
  <2>3. QED BY <1>15, <2>2
<1>18. QED BY <1>15, <1>16, <1>17

-----------------------------------------------------------------------------
(* compress<>: the steps.                                                  *)

\* What holds in a search
LEMMA InSearch ==
  ASSUME IInv, pc \in Searching
  PROVE  /\ BlockTypes /\ JobTypes /\ Written(BASE_LEN) /\ aux # <<>> /\ InputsGood
         /\ i \in Nat /\ next_chunk \in Nat /\ last_match_end \in Nat /\ instat \in Nat
         /\ Start \in Nat /\ Length \in Nat /\ L \in Nat /\ L >= 1 /\ BASE_LEN \in Nat /\ BASE_LEN >= 1
         /\ BASE_LEN <= dict_min_match /\ dict_min_match \in Nat
         /\ L <= next_chunk /\ next_chunk + L <= Length
         /\ i % X = 0 /\ next_chunk % X = 0
         /\ next_chunk - L <= i /\ i <= next_chunk
         /\ (pc = "add" => i = next_chunk) /\ (pc = "first" => last_match_end = 0)
         /\ \A t \in Start + input.start .. Start + last_match_end - 1 : Covered(t)
<1>1. BlockTypes /\ JobTypes /\ aux # <<>> /\ pc # "inmem"
  BY DEF IInv, BlockTypes, Searching
<1>2. Written(BASE_LEN) /\ InputsGood
  BY <1>1 DEF IInv, ListKept, Low
<1>3. /\ i \in Nat /\ next_chunk \in Nat /\ last_match_end \in Nat /\ instat \in Nat
      /\ (pc = "first" => last_match_end = 0)
  BY <1>1, <1>2, Block DEF BlockTypes, Written
<1>4. /\ L <= next_chunk /\ next_chunk + L <= Length
      /\ i % X = 0 /\ next_chunk % X = 0
      /\ next_chunk - L <= i /\ i <= next_chunk
      /\ (pc = "add" => i = next_chunk)
  BY DEF IInv, StepsEven
<1>5. \A t \in Start + input.start .. Start + last_match_end - 1 : Covered(t)
  BY <1>1 DEF IInv, InputsCovered
<1>6. QED BY <1>1, <1>2, <1>3, <1>4, <1>5, Block, Base, Constants

\* Steps that read no input match
LEMMA SearchKeeps ==
  ASSUME IInv, pc \in Searching, UNCHANGED job, last_i' = last_i, UNCHANGED inputs,
         i' \in Nat, next_chunk' \in Nat, pc' \in Searching \cup {"done"}, pc' # "first",
         Written(BASE_LEN)', StepsEven', \A t : Covered(t) => Covered(t)',
         \A t \in Start + input.start .. Start + last_match_end' - 1 : Covered(t)'
  PROVE  IInv'
<1>1. aux' = aux /\ instat' = instat /\ input' = input
  BY DEF inputs
<1>2. BlockTypes /\ JobTypes /\ aux # <<>>
  BY DEF IInv, BlockTypes
<1>3. BlockTypes'
  <2>1. last_i' \in Nat /\ bufstart' <= last_i'
    BY <1>2, JobSame DEF BlockTypes
  <2>2. aux' \in Seq(Seq(Nat)) /\ instat' \in Nat /\ aux' # <<>>
    BY <1>1, <1>2 DEF BlockTypes
  <2>3. JobTypes' /\ pc' # "inmem"
    BY <1>2, JobSame DEF Searching
  <2>4. QED BY <2>1, <2>2, <2>3 DEF BlockTypes
<1>4. ListKept'
  <2>1. Low' = BASE_LEN'
    BY DEF Low, Searching
  <2>2. QED BY <2>1 DEF ListKept, Written
<1>5. InputsGood'
  BY InputSame DEF IInv
<1>6. InputsCovered'
  <2>1. /\ \A k \in 1 .. instat - 2 : \A t \in In(aux, k).dest .. At(aux, k) - BASE_LEN : Covered(t)
    BY <1>2 DEF IInv, InputsCovered
  <2>2. \A k \in 1 .. instat - 2 : \A t \in In(aux, k).dest .. At(aux, k) - BASE_LEN : Covered(t)'
    BY <2>1
  <2>3. /\ \A k : In(aux, k)' = In(aux, k) /\ At(aux, k)' = At(aux, k)
        /\ BASE_LEN' = BASE_LEN /\ Start' = Start
    BY <1>1, JobSame
  <2>4. QED BY <1>1, <2>2, <2>3 DEF InputsCovered
<1>7. QED BY <1>3, <1>4, <1>5, <1>6 DEF IInv

LEMMA SearchSame ==
  ASSUME IInv, pc \in Searching, UNCHANGED job, UNCHANGED output
  PROVE  /\ Written(BASE_LEN)' /\ \A t : Covered(t) => Covered(t)'
         /\ \A t \in Start + input.start .. Start + last_match_end' - 1 : Covered(t)'
<1>1. Written(BASE_LEN) /\ \A t \in Start + input.start .. Start + last_match_end - 1 : Covered(t)
  BY InSearch
<1>2. PICK low : low = BASE_LEN
  OBVIOUS
<1>3. Written(low)' /\ BASE_LEN' = low
  BY <1>1, <1>2, ListSame, JobSame
<1>4. Written(BASE_LEN)'
  BY <1>3
<1>5. last_match_end' = last_match_end
  BY DEF output
<1>6. QED BY <1>1, <1>4, <1>5, ListSame

\* The input match that was read last
LEMMA InputIs ==
  ASSUME JobTypes, aux \in Seq(Seq(Nat)), aux # <<>>, InputsGood, instat \in Nat,
         NEW d, d = In(aux, instat - 1)
  PROVE  /\ input.start \in Nat /\ Start + input.start = d.dest
         /\ input.start <= Length =>
              /\ instat <= Len(aux) /\ instat - 1 \in 1 .. Len(aux) - 1
              /\ Copies(d, dict_min_match) /\ input.len \in Nat /\ dict_min_match <= input.len
              /\ d.len = input.len /\ input.offset = d.dest - d.src /\ ~ROUND_MATCHES
              /\ At(aux, instat - 1) = Start + input.start + input.len
              /\ input.start + input.len <= Length
<1> DEFINE l == Len(aux)
           k == instat - 1
           s == Start
<1>1. /\ l \in Nat /\ k \in 1 .. l /\ s \in Nat /\ Length \in Nat
      /\ InOrder(aux, l - 1, dict_min_match)
      /\ In(aux, l).dest \in Nat /\ In(aux, l).dest > s + Length
      /\ input = [start |-> d.dest - s, len |-> d.len, offset |-> d.dest - d.src]
      /\ (ROUND_MATCHES => l = 1)
  <2>1. l \in Nat /\ s \in Nat /\ Length \in Nat
    BY Block
  <2>2. k \in 1 .. l
    BY <2>1 DEF InputsGood
  <2>3. QED BY <2>1, <2>2 DEF InputsGood
<1>2. input.start = d.dest - s /\ input.len = d.len /\ input.offset = d.dest - d.src
  BY <1>1
<1>3. d = In(aux, k)
  OBVIOUS
<1>4. At(aux, k) = d.dest + d.len
  <2>1. k \in 1 .. Len(aux)
    BY <1>1
  <2>2. QED BY <1>3, <2>1, ListEnds
<1> DEFINE x == input.start
           y == input.len
<1> HIDE DEF l, k, s
<1>5. CASE k = l
  <2> DEFINE e == d.dest
  <2>1. e \in Nat /\ e > s + Length /\ x = e - s
    BY <1>1, <1>2, <1>3, <1>5
  <2> HIDE DEF e, x
  <2>2. x \in Nat /\ s + x = e /\ ~(x <= Length)
    BY <1>1, <2>1
  <2>3. QED BY <2>2 DEF e, x, s
<1>6. CASE k # l
  <2>1. k \in 1 .. l - 1
    BY <1>1, <1>6
  <2>2. Copies(d, dict_min_match) /\ s <= At(aux, k - 1) /\ At(aux, k - 1) <= d.dest /\ At(aux, k) <= s + Length
    BY <1>1, <1>3, <2>1 DEF InOrder, s
  <2> DEFINE e == d.dest
             z == d.len
             q == At(aux, k - 1)
  <2>3. e \in Nat /\ z \in Nat /\ dict_min_match <= z
    BY <2>2 DEF Copies
  <2>4. q \in Nat
    <3>1. l - 1 \in 0 .. Len(aux)
      BY <1>1 DEF l
    <3>2. \A j \in 0 .. l - 1 : At(aux, j) \in Nat
      BY <1>1, <3>1, EndsGrow
    <3>3. k - 1 \in 0 .. l - 1
      BY <1>1, <2>1
    <3>4. QED BY <3>2, <3>3
  <2>5. s <= q /\ q <= e /\ e + z <= s + Length /\ x = e - s /\ y = z
    BY <1>2, <1>4, <2>2
  <2> HIDE DEF e, z, q, x, y
  <2>6. x \in Nat /\ s + x = e /\ y \in Nat /\ x + y <= Length /\ e + z = s + x + y
    BY <1>1, <2>3, <2>4, <2>5
  <2>7. k <= l - 1 /\ instat <= Len(aux) /\ instat - 1 \in 1 .. Len(aux) - 1
    BY <1>1, <2>1 DEF k, l
  <2>8. ~ROUND_MATCHES
    BY <1>1, <2>1
  <2>9. At(aux, instat - 1) = s + x + y
    BY <1>4, <2>6 DEF e, z, k
  <2>10. QED BY <1>2, <2>2, <2>3, <2>5, <2>6, <2>7, <2>8, <2>9 DEF e, z, x, y, s
<1>7. QED BY <1>5, <1>6

\* Chunks that were added are complete
LEMMA ChunkAdded ==
  ASSUME JobTypes, NEW added \in Nat, NEW k \in Chunks(added)
  PROVE  k \in Nat /\ k * L + L <= Start + added
<1> DEFINE a == Start + added
           q == a \div L
           r == a % L
<1>1. L \in Nat /\ L >= 1 /\ a \in Int
  BY Constants, Block
<1>2. k \in 1 .. q - 1
  BY DEF Chunks
<1> HIDE DEF a
<1>3. q \in Int /\ r \in 0 .. L - 1 /\ a = L * q + r
  BY <1>1, DivMod
<1> HIDE DEF q, r
<1>4. PICK z \in Nat : q = (k + 1) + z
  <2>1. q - (k + 1) \in Nat /\ q = (k + 1) + (q - (k + 1))
    BY <1>2, <1>3
  <2>2. QED BY <2>1
<1>5. L * q = k * L + L + L * z /\ L * z >= 0
  BY <1>1, <1>2, <1>3, <1>4
<1>6. k \in Nat /\ k * L \in Int /\ L * z \in Int /\ L * q \in Int
  BY <1>1, <1>2, <1>3, <1>4
<1>7. k * L + L <= a
  BY <1>1, <1>3, <1>5, <1>6
<1>8. QED BY <1>6, <1>7 DEF a

LEMMA CheckFirstKeeps == IInv /\ CheckFirst => IInv'
<1>1. SUFFICES ASSUME IInv, CheckFirst PROVE IInv'
  OBVIOUS
<1>2. /\ pc = "first" /\ pc \in Searching /\ UNCHANGED job /\ last_i' = last_i /\ UNCHANGED inputs
      /\ i' = i /\ next_chunk' = next_chunk
  BY <1>1 DEF CheckFirst, Searching
<1>3. /\ Start \in Nat /\ L \in Nat /\ L >= 1 /\ i \in Nat /\ next_chunk \in Nat /\ Length \in Nat
      /\ last_match_end = 0 /\ L <= Length /\ JobTypes /\ Written(BASE_LEN)
      /\ L <= next_chunk /\ next_chunk + L <= Length
      /\ i % X = 0 /\ next_chunk % X = 0
      /\ next_chunk - L <= i /\ i <= next_chunk
  BY <1>1, <1>2, InSearch
<1>4. input.start \in Nat
  <2>1. InputsGood /\ aux # <<>> /\ aux \in Seq(Seq(Nat)) /\ instat \in Nat
    BY <1>1, <1>2, InSearch DEF BlockTypes
  <2>2. QED BY <1>3, <2>1, InputIs
<1>5. /\ pc' = "input" /\ Written(BASE_LEN)' /\ \A t : Covered(t) => Covered(t)'
      /\ \A t \in Start + input.start .. Start + last_match_end' - 1 : Covered(t)'
  <2>1. CASE UNCHANGED output /\ pc' = "input"
    BY <1>1, <1>2, <2>1, SearchSame
  <2>2. CASE ~(UNCHANGED output /\ pc' = "input")
    <3>1. PICK k \in Chunks(0) : FindMatch(0, k, "input")
      BY <1>1, <2>2 DEF CheckFirst
    <3>2. k \in Nat /\ k * L < Start + 0
      <4>1. k \in Nat /\ k * L + L <= Start + 0
        BY <1>3, <3>1, ChunkAdded
      <4>2. k * L \in Int
        BY <1>3, <4>1
      <4>3. QED BY <1>3, <4>1, <4>2
    <3>3. last_match_end <= 0 /\ 0 + L <= Length /\ 0 \in Nat
      BY <1>3
    <3>4. /\ Written(BASE_LEN)' /\ pc' = "input" /\ \A t : Covered(t) => Covered(t)'
          /\ \A t \in Start + 0 .. Start + last_match_end' - 1 : Covered(t)'
      BY <1>2, <1>3, <3>1, <3>2, <3>3, FindMatchKeeps
    <3>5. \A t \in Start + input.start .. Start + last_match_end' - 1 : t \in Start + 0 .. Start + last_match_end' - 1
      BY <1>3, <1>4
    <3>6. QED BY <3>4, <3>5
  <2>3. QED BY <2>1, <2>2
<1>6. StepsEven'
  <2>1. Length' = Length
    BY <1>2, JobSame
  <2>2. QED BY <1>2, <1>3, <1>5, <2>1 DEF StepsEven
<1>7. QED
  <2>1. pc' \in Searching \cup {"done"} /\ pc' # "first" /\ i' \in Nat /\ next_chunk' \in Nat
    BY <1>2, <1>3, <1>5 DEF Searching
  <2>2. QED BY <1>1, <1>2, <1>5, <1>6, <2>1, SearchKeeps

\* What own matches leave of an input match is written, or too short
LEMMA NextInputKeeps == IInv /\ NextInput => IInv'
<1>1. SUFFICES ASSUME IInv, NextInput PROVE IInv'
  OBVIOUS
<1> DEFINE start == Max({input.start, last_match_end})
           end   == input.start + input.len
           d == In(aux, instat - 1)
           f == In(aux, instat)
           s == Start
           x == input.start
           y == input.len
           o == input.offset
           e == last_match_end
<1>2. /\ pc = "input" /\ pc \in Searching /\ UNCHANGED job /\ last_i' = last_i /\ aux' = aux
      /\ i' = i /\ next_chunk' = next_chunk /\ i >= x /\ instat' = instat + 1
      /\ IF RestIsLong THEN Record(start, o, end - start, "skip") ELSE pc' = "skip" /\ UNCHANGED output
      /\ input' = ReadInput(end, aux[instat])
  BY <1>1 DEF NextInput, Searching
<1>3. /\ s \in Nat /\ L \in Nat /\ L >= 1 /\ i \in Nat /\ next_chunk \in Nat /\ Length \in Nat
      /\ e \in Nat /\ JobTypes /\ Written(BASE_LEN) /\ instat \in Nat
      /\ BASE_LEN \in Nat /\ BASE_LEN >= 1 /\ BASE_LEN <= dict_min_match /\ dict_min_match \in Nat
      /\ L <= next_chunk /\ next_chunk + L <= Length
      /\ i % X = 0 /\ next_chunk % X = 0
      /\ next_chunk - L <= i /\ i <= next_chunk
      /\ aux # <<>> /\ InputsGood /\ BlockTypes
      /\ \A t \in s + x .. s + e - 1 : Covered(t)
  BY <1>1, <1>2, InSearch
<1>4. aux \in Seq(Seq(Nat)) /\ InOrder(aux, Len(aux) - 1, dict_min_match) /\ Len(aux) \in Nat
  BY <1>3 DEF BlockTypes, InputsGood
<1>5. x \in Nat /\ s + x = d.dest
  BY <1>3, <1>4, InputIs
<1>6. /\ instat <= Len(aux) /\ instat - 1 \in 1 .. Len(aux) - 1
      /\ Copies(d, dict_min_match) /\ y \in Nat /\ dict_min_match <= y
      /\ d.len = y /\ o = d.dest - d.src /\ ~ROUND_MATCHES
      /\ At(aux, instat - 1) = s + x + y
      /\ x + y <= Length
  <2>1. x <= Length
    <3> HIDE DEF x
    <3>1. QED BY <1>2, <1>3, <1>5
  <2>2. QED BY <1>3, <1>4, <2>1, InputIs
<1>7. f = Read(At(aux, instat - 1), aux[instat])
  BY InIs
<1>8. start = IF x >= e THEN x ELSE e
  BY <1>3, <1>5, Max2
<1>9. end = x + y
  OBVIOUS
<1>10. RestIsLong <=> end - BASE_LEN >= e
  <2>1. RestIsLong <=> input.start + input.len - BASE_LEN >= last_match_end
    BY DEF RestIsLong
  <2>2. input.start + input.len - BASE_LEN = end - BASE_LEN
    <3> HIDE DEF x, y
    <3>1. x + y - BASE_LEN = (x + y) - BASE_LEN
      BY <1>3, <1>5, <1>6
    <3>2. QED BY <3>1 DEF x, y
  <2>3. QED BY <2>1, <2>2
<1>11. input' = [start |-> f.dest - s, len |-> f.len, offset |-> f.dest - f.src]
  <2>1. s + end = At(aux, instat - 1)
    <3> HIDE DEF x, y, s
    <3>1. s + (x + y) = s + x + y
      BY <1>3, <1>5, <1>6
    <3>2. QED BY <1>6, <3>1 DEF x, y
  <2>2. Decode(FALSE, ROUND_MATCHES, BASE_LEN, s + end, aux[instat]) = Read(s + end, aux[instat])
    BY DEF Read
  <2>3. input' = [start |-> Read(s + end, aux[instat]).dest - s, len |-> Read(s + end, aux[instat]).len,
                  offset |-> Read(s + end, aux[instat]).dest - Read(s + end, aux[instat]).src]
    BY <1>2 DEF ReadInput, Read
  <2>4. f = Read(s + end, aux[instat])
    BY <1>7, <2>1
  <2> HIDE DEF f, end, s
  <2>5. QED BY <2>3, <2>4
<1>12. f.dest \in Nat /\ f.dest >= s + x + y
  <2>1. CASE instat = Len(aux)
    <3> DEFINE z == f.dest
    <3>1. z \in Nat /\ z > s + Length
      BY <1>3, <2>1 DEF InputsGood
    <3> HIDE DEF z, s, x, y
    <3>2. z \in Nat /\ z >= s + x + y
      BY <1>3, <1>5, <1>6, <3>1
    <3>3. QED BY <3>2 DEF z
  <2>2. CASE instat # Len(aux)
    <3>1. instat \in 1 .. Len(aux) - 1
      <4>1. instat >= 1 /\ instat <= Len(aux)
        BY <1>3, <1>6
      <4>2. QED BY <1>3, <1>4, <2>2, <4>1
    <3>2. Copies(f, dict_min_match) /\ At(aux, instat - 1) <= f.dest
      BY <1>4, <3>1 DEF InOrder
    <3>3. QED BY <1>6, <3>2 DEF Copies
  <2>3. QED BY <2>1, <2>2
<1> HIDE DEF start, end, d, f, s, x, y, o, e
<1>13. /\ Written(BASE_LEN)' /\ pc' = "skip" /\ \A t : Covered(t) => Covered(t)'
       /\ \A t \in s + x .. (s + (x + y)) - BASE_LEN : Covered(t)'
       /\ \A t \in s + (x + y) .. s + last_match_end' - 1 : Covered(t)'
  <2>1. CASE RestIsLong
    <3> DEFINE len == end - start
    <3>1. PICK low \in Nat : low = BASE_LEN
      BY <1>3
    <3>2. end - BASE_LEN >= e
      BY <1>10, <2>1
    <3>3. /\ start \in Nat /\ len \in Nat /\ e <= start /\ x <= start /\ start + len = x + y
          /\ low <= len /\ start + len <= Length
      BY <1>3, <1>5, <1>6, <1>8, <1>9, <3>1, <3>2
    <3> HIDE DEF len
    <3> DEFINE src == d.src
               dest == d.dest
    <3>4. /\ src \in Nat /\ src < dest /\ dest = s + x
          /\ \A t \in 0 .. y - 1 : file[src + t] = file[dest + t]
      BY <1>5, <1>6 DEF Copies
    <3>5. o = dest - src
      BY <1>6
    <3> HIDE DEF src, dest
    <3>6. /\ o \in Nat /\ 1 <= o /\ o <= s + start /\ (s + start) - o = src + (start - x)
      BY <1>3, <1>5, <3>3, <3>4, <3>5
    <3>7. ASSUME NEW t \in 0 .. len - 1
          PROVE  file[((s + start) - o) + t] = file[(s + start) + t]
      <4>1. t + (start - x) \in 0 .. y - 1
        BY <1>3, <1>5, <1>6, <3>3
      <4>2. file[src + (t + (start - x))] = file[dest + (t + (start - x))]
        BY <3>4, <4>1
      <4>3. src + (t + (start - x)) = ((s + start) - o) + t /\ dest + (t + (start - x)) = (s + start) + t
        BY <1>3, <1>5, <3>3, <3>4, <3>6
      <4>4. QED BY <4>2, <4>3
    <3>8. Fits(low, start, o, len)
      <4>1. e <= start /\ start + len <= Length /\ o <= Start + start
        BY <3>3, <3>6 DEF s
      <4>2. \A t \in 0 .. len - 1 : file[((Start + start) - o) + t] = file[(Start + start) + t]
        BY <3>7 DEF s
      <4>3. QED BY <1>6, <3>3, <3>6, <4>1, <4>2 DEF Fits, e
    <3>9. Record(start, o, len, "skip")
      BY <1>2, <2>1 DEF len
    <3>10. Written(low) /\ BASE_LEN <= low
      BY <1>3, <3>1
    <3>11. /\ Written(low)' /\ pc' = "skip" /\ last_match_end' = start + len
           /\ \A t : Covered(t) => Covered(t)'
           /\ \A t \in Start + start .. (Start + start) + len - 1 : Covered(t)'
      BY <1>2, <1>3, <3>8, <3>9, <3>10, RecordKeeps
    <3>12. Written(BASE_LEN)'
      <4>1. BASE_LEN' = low
        BY <1>2, <3>1, JobSame
      <4>2. QED BY <3>11, <4>1
    <3>13. ASSUME NEW t \in s + x .. (s + (x + y)) - BASE_LEN
           PROVE  Covered(t)'
      <4>1. CASE t < s + start
        <5>1. t \in s + x .. s + e - 1
          BY <1>3, <1>5, <1>6, <1>8, <4>1
        <5>2. QED BY <1>3, <3>11, <5>1
      <4>2. CASE ~(t < s + start)
        <5>1. t \in Start + start .. (Start + start) + len - 1
          BY <1>3, <1>5, <1>6, <3>3, <4>2 DEF s
        <5>2. QED BY <3>11, <5>1
      <4>3. QED BY <4>1, <4>2
    <3>14. last_match_end' = x + y
      BY <3>3, <3>11
    <3>15. \A t \in s + (x + y) .. s + last_match_end' - 1 : FALSE
      BY <1>3, <1>5, <1>6, <3>14
    <3>16. QED BY <3>11, <3>12, <3>13, <3>15
  <2>2. CASE ~RestIsLong
    <3>1. pc' = "skip" /\ UNCHANGED output
      BY <1>2, <2>2
    <3>2. /\ Written(BASE_LEN)' /\ \A t : Covered(t) => Covered(t)'
      BY <1>1, <1>2, <3>1, SearchSame
    <3>3. x + y < e + BASE_LEN /\ last_match_end' = e
      <4>1. last_match_end' = e
        BY <3>1 DEF output, e
      <4>2. QED BY <1>3, <1>5, <1>6, <1>9, <1>10, <2>2, <4>1
    <3>4. \A t \in s + x .. (s + (x + y)) - BASE_LEN : t \in s + x .. s + e - 1
      BY <1>3, <1>5, <1>6, <3>3
    <3>5. \A t \in s + (x + y) .. s + last_match_end' - 1 : t \in s + x .. s + e - 1
      BY <1>3, <1>5, <1>6, <3>3
    <3>6. QED BY <1>3, <3>1, <3>2, <3>4, <3>5
  <2>3. QED BY <2>1, <2>2
<1>14. InputsGood'
  <2>1. /\ \A k : In(aux, k)' = In(aux, k) /\ At(aux, k)' = At(aux, k)
        /\ InOrder(aux, Len(aux) - 1, dict_min_match)' = InOrder(aux, Len(aux) - 1, dict_min_match)
        /\ Start' = s /\ Length' = Length /\ ROUND_MATCHES' = ROUND_MATCHES
        /\ aux_statbuf_size' = aux_statbuf_size
    BY <1>2, JobSame DEF s
  <2>2. instat' >= 2 /\ instat' - 1 = instat /\ instat' - 1 <= Len(aux)
    BY <1>2, <1>3, <1>6
  <2>3. (LET g == In(aux, instat - 1)
         IN  input = [start |-> g.dest - Start, len |-> g.len, offset |-> g.dest - g.src])'
    <3>1. In(aux, instat - 1)' = f
      BY <1>2, <2>1, <2>2 DEF f
    <3>2. QED BY <1>11, <2>1, <3>1
  <2>4. QED BY <1>2, <1>3, <2>1, <2>2, <2>3 DEF InputsGood, s
<1>15. InputsCovered'
  <2>1. \A k \in 1 .. instat - 2 : \A t \in In(aux, k).dest .. At(aux, k) - BASE_LEN : Covered(t)
    BY <1>1, <1>3 DEF IInv, InputsCovered
  <2>2. ASSUME NEW k \in 1 .. instat - 1, NEW t \in In(aux, k).dest .. At(aux, k) - BASE_LEN
        PROVE  Covered(t)'
    <3>1. CASE k = instat - 1
      <4>1. In(aux, k) = d /\ At(aux, k) = s + x + y
        BY <1>6, <3>1 DEF d
      <4>2. t \in s + x .. (s + x + y) - BASE_LEN
        BY <1>5, <2>2, <4>1
      <4>3. t \in s + x .. (s + (x + y)) - BASE_LEN
        BY <1>3, <1>5, <1>6, <4>2
      <4>4. QED BY <1>13, <4>3
    <3>2. CASE k # instat - 1
      <4>1. k \in 1 .. instat - 2
        BY <1>3, <3>2
      <4>2. Covered(t)
        BY <2>1, <2>2, <4>1
      <4>3. QED BY <1>13, <4>2
    <3>3. QED BY <3>1, <3>2
  <2>3. ASSUME NEW t \in s + input'.start .. s + last_match_end' - 1
        PROVE  Covered(t)'
    <3> DEFINE z == f.dest
    <3>1. input'.start = z - s /\ z \in Nat /\ z >= s + x + y
      BY <1>11, <1>12
    <3> HIDE DEF z
    <3>2. t \in s + (z - s) .. s + last_match_end' - 1
      BY <2>3, <3>1
    <3>3. t \in s + (x + y) .. s + last_match_end' - 1
      BY <1>3, <1>5, <1>6, <3>1, <3>2
    <3>4. QED BY <1>13, <3>3
  <2>4. /\ \A k : In(aux, k)' = In(aux, k) /\ At(aux, k)' = At(aux, k)
        /\ BASE_LEN' = BASE_LEN /\ Start' = s
    BY <1>2, JobSame DEF s
  <2>5. instat' - 2 = instat - 1
    BY <1>2, <1>3
  <2>6. QED BY <1>2, <2>2, <2>3, <2>4, <2>5 DEF InputsCovered
<1>16. BlockTypes'
  <2>1. last_i' \in Nat /\ bufstart' <= last_i'
    BY <1>2, <1>3, JobSame DEF BlockTypes
  <2>2. aux' \in Seq(Seq(Nat)) /\ instat' \in Nat /\ aux' # <<>>
    BY <1>2, <1>3, <1>4
  <2>3. JobTypes' /\ pc' = "skip"
    BY <1>2, <1>3, <1>13, JobSame
  <2>4. QED BY <1>2, <1>3, <2>1, <2>2, <2>3 DEF BlockTypes, Searching
<1>17. ListKept'
  <2>1. Low' = BASE_LEN'
    BY <1>13 DEF Low
  <2>2. QED BY <1>13, <2>1 DEF ListKept, Written
<1>18. StepsEven'
  <2>1. Length' = Length
    BY <1>2, JobSame
  <2>2. QED BY <1>2, <1>3, <1>13, <2>1 DEF StepsEven
<1>19. QED BY <1>14, <1>15, <1>16, <1>17, <1>18 DEF IInv

LEMMA NoInputKeeps == IInv /\ NoInput => IInv'
<1>1. SUFFICES ASSUME IInv, NoInput PROVE IInv'
  OBVIOUS
<1>2. /\ pc \in Searching /\ UNCHANGED job /\ last_i' = last_i /\ UNCHANGED inputs
      /\ i' = i /\ next_chunk' = next_chunk /\ pc' = "skip" /\ UNCHANGED output
  BY <1>1 DEF NoInput, Searching
<1>3. StepsEven'
  <2>1. Length' = Length
    BY <1>2, JobSame
  <2>2. QED BY <1>1, <1>2, <2>1, InSearch DEF StepsEven
<1>4. pc' \in Searching \cup {"done"} /\ pc' # "first" /\ i' \in Nat /\ next_chunk' \in Nat
  BY <1>1, <1>2, InSearch DEF Searching
<1>5. QED BY <1>1, <1>2, <1>3, <1>4, SearchSame, SearchKeeps

LEMMA XIs == X \in Nat /\ X >= 1 /\ L % X = 0
BY WholeUnits, Constants, Max2 DEF X

\* The position skipped to is a multiple of X that is not behind the end of the chunk
LEMMA Skipped ==
  ASSUME i \in Nat, next_chunk \in Nat, last_match_end \in Nat, i % X = 0, i <= next_chunk,
         NEW j, j = IF next_i >= i + L \div 2 THEN (next_i \div X) * X
                                              ELSE i + (Max({next_i - i, 0}) \div X) * X
  PROVE  j \in Nat /\ i <= j /\ j <= next_chunk /\ j % X = 0
<1> DEFINE x == X
           e == next_i
           c == next_chunk - CYCLES
           z == Max({last_match_end - 1, 0})
<1>1. x \in Nat /\ x >= 1 /\ L \in Nat /\ L >= 1 /\ c \in Int /\ c < next_chunk /\ z \in Int
  <2>1. z = IF last_match_end - 1 >= 0 THEN last_match_end - 1 ELSE 0
    <3>1. last_match_end - 1 \in Int /\ 0 \in Int
      OBVIOUS
    <3>2. QED BY <3>1, Max2
  <2>2. QED BY <2>1, XIs, Constants
<1>2. e \in Int /\ e < next_chunk
  <2>1. e = Min({c, z})
    BY DEF next_i
  <2> HIDE DEF c, z, e
  <2>2. e = IF c <= z THEN c ELSE z
    BY <1>1, <2>1, Min2
  <2>3. QED BY <1>1, <2>2
<1> HIDE DEF x, e
<1>3. L \div 2 >= 0 /\ L \div 2 \in Int
  BY <1>1
<1>4. CASE e >= i + L \div 2
  <2> DEFINE q == e \div x
             r == e % x
             y == q * x
  <2>1. q \in Int /\ r \in 0 .. x - 1 /\ e = x * q + r
    BY <1>1, <1>2, DivMod
  <2>2. j = y
    BY <1>4 DEF e, x
  <2> HIDE DEF q, r
  <2>3. y = x * q /\ y \in Int /\ y % x = 0
    BY <1>1, <2>1, Multiple
  <2> HIDE DEF y
  <2>4. e >= i /\ e = y + r
    BY <1>2, <1>3, <1>4, <2>1, <2>3
  <2>5. i <= y
    <3>1. CASE y < i
      <4>1. y + x <= i
        <5>1. i \in Int /\ i % x = 0
          BY DEF x
        <5>2. QED BY <1>1, <2>3, <3>1, <5>1, MultipleGap, Zenon
      <4>2. QED BY <1>1, <1>2, <2>1, <2>3, <2>4, <4>1
    <3>2. QED BY <2>3, <3>1
  <2>6. y \in Nat /\ y <= next_chunk
    BY <1>1, <1>2, <2>1, <2>3, <2>4, <2>5
  <2>7. QED BY <2>2, <2>3, <2>5, <2>6 DEF x
<1>5. CASE ~(e >= i + L \div 2)
  <2> DEFINE g == Max({e - i, 0})
             q == g \div x
             r == g % x
             y == q * x
  <2>1. g \in Nat /\ (i + g = e \/ i + g = i)
    <3>1. g = IF e - i >= 0 THEN e - i ELSE 0
      <4>1. e - i \in Int /\ 0 \in Int
        BY <1>2
      <4>2. QED BY <4>1, Max2
    <3>2. QED BY <1>2, <3>1
  <2>2. j = i + y
    BY <1>5 DEF e, x
  <2> HIDE DEF g
  <2>3. q \in Int /\ r \in 0 .. x - 1 /\ g = x * q + r /\ q >= 0
    <3>1. g \in Int /\ g >= 0
      BY <2>1
    <3>2. QED BY <1>1, <3>1, DivMod
  <2> HIDE DEF q, r
  <2>4. y = x * q /\ y \in Nat /\ y % x = 0
    <3>1. x * q >= 0
      BY <1>1, <2>3
    <3>2. QED BY <1>1, <2>3, <3>1, Multiple
  <2> HIDE DEF y
  <2>5. y <= g
    BY <1>1, <2>1, <2>3, <2>4
  <2>6. i + y \in Nat /\ i <= i + y /\ i + y <= next_chunk
    BY <1>2, <2>1, <2>4, <2>5
  <2>7. (i + y) % x = 0
    <3>1. i \in Int /\ i % x = 0 /\ y \in Int
      BY <2>4 DEF x
    <3>2. QED BY <1>1, <2>4, <3>1, MultipleSum, Zenon
  <2>8. QED BY <2>2, <2>6, <2>7 DEF x
<1>6. QED BY <1>4, <1>5

LEMMA SkipMatchKeeps == IInv /\ SkipMatch => IInv'
<1>1. SUFFICES ASSUME IInv, SkipMatch PROVE IInv'
  OBVIOUS
<1>2. /\ pc \in Searching /\ UNCHANGED job /\ last_i' = last_i /\ UNCHANGED inputs
      /\ next_chunk' = next_chunk /\ pc' = "look" /\ UNCHANGED output
      /\ i' = IF next_i >= i + L \div 2 THEN (next_i \div X) * X
                                        ELSE i + (Max({next_i - i, 0}) \div X) * X
  BY <1>1 DEF SkipMatch, Searching
<1>3. /\ i \in Nat /\ next_chunk \in Nat /\ last_match_end \in Nat /\ i % X = 0 /\ i <= next_chunk
      /\ next_chunk - L <= i /\ L \in Nat /\ L <= next_chunk /\ next_chunk + L <= Length /\ next_chunk % X = 0
  BY <1>1, <1>2, InSearch
<1>4. i' \in Nat /\ i <= i' /\ i' <= next_chunk /\ i' % X = 0
  BY <1>2, <1>3, Skipped
<1>5. StepsEven'
  <2>1. Length' = Length
    BY <1>2, JobSame
  <2>2. next_chunk - L <= i'
    BY <1>3, <1>4
  <2>3. QED BY <1>2, <1>3, <1>4, <2>1, <2>2 DEF StepsEven
<1>6. pc' \in Searching \cup {"done"} /\ pc' # "first" /\ next_chunk' \in Nat
  BY <1>2, <1>3 DEF Searching
<1>7. QED BY <1>1, <1>2, <1>4, <1>5, <1>6, SearchSame, SearchKeeps

\* The look-ahead ends at a multiple of X that is not behind the end of the chunk
LEMMA Looked ==
  ASSUME i \in Nat, next_chunk \in Nat, i % X = 0, next_chunk % X = 0, i <= next_chunk,
         NEW last, last = Min({next_chunk, i + LOOKAHEAD}),
         NEW next, next = i + Max({(last - i + X - 1) \div X, 0}) * X
  PROVE  next \in Nat /\ i <= next /\ next <= next_chunk /\ next % X = 0
<1> DEFINE x == X
           a == last - i + X - 1
           q == a \div x
           r == a % x
           y == q * x
<1>1. x \in Nat /\ x >= 1 /\ LOOKAHEAD \in Nat
  BY XIs, Constants
<1>2. last \in Int /\ i <= last /\ last <= next_chunk
  <2>1. last = IF next_chunk <= i + LOOKAHEAD THEN next_chunk ELSE i + LOOKAHEAD
    <3>1. next_chunk \in Int /\ i + LOOKAHEAD \in Int
      BY <1>1
    <3>2. QED BY <3>1, Min2
  <2>2. QED BY <1>1, <2>1
<1>3. a \in Int /\ a >= 0 /\ a <= (next_chunk - i) + (x - 1)
  <2>1. a = (last - i) + (x - 1)
    OBVIOUS
  <2> HIDE DEF a, x
  <2>2. QED BY <1>1, <1>2, <2>1
<1> HIDE DEF a
<1>4. q \in Int /\ r \in 0 .. x - 1 /\ a = x * q + r /\ q >= 0
  <2> HIDE DEF x
  <2>1. QED BY <1>1, <1>3, DivMod
<1>5. next = i + y
  <2>1. Max({q, 0}) = q
    <3>1. q \in Int /\ 0 \in Int
      BY <1>4
    <3> HIDE DEF q
    <3>2. QED BY <1>4, <3>1, Max2
  <2>2. next = i + Max({q, 0}) * x
    BY DEF a
  <2> HIDE DEF q, x
  <2>3. QED BY <2>1, <2>2
<1> HIDE DEF q, r, x
<1>6. y = x * q /\ y \in Nat /\ y % x = 0
  <2>1. x * q >= 0
    BY <1>1, <1>4
  <2>2. QED BY <1>1, <1>4, <2>1, Multiple
<1> HIDE DEF y
<1>7. next % x = 0 /\ next \in Nat /\ i <= next
  <2>1. i \in Int /\ i % x = 0 /\ y \in Int
    BY <1>6 DEF x
  <2>2. (i + y) % x = 0
    BY <1>1, <1>6, <2>1, MultipleSum, Zenon
  <2>3. QED BY <1>5, <1>6, <2>2
<1>8. next <= next_chunk
  <2>1. CASE next_chunk < next
    <3>1. next_chunk + x <= next
      <4>1. next \in Int /\ next_chunk \in Int /\ next_chunk % x = 0
        BY <1>7 DEF x
      <4>2. QED BY <1>1, <1>7, <2>1, <4>1, MultipleGap, Zenon
    <3>2. y <= a
      BY <1>1, <1>3, <1>4, <1>6
    <3>3. QED BY <1>1, <1>3, <1>5, <1>6, <1>7, <3>1, <3>2
  <2>2. QED BY <1>7, <2>1
<1>9. QED BY <1>7, <1>8 DEF x

LEMMA LookAheadKeeps == IInv /\ LookAhead => IInv'
<1>1. SUFFICES ASSUME IInv, LookAhead PROVE IInv'
  OBVIOUS
<1> DEFINE last == Min({next_chunk, i + LOOKAHEAD})
           next == i + Max({(last - i + X - 1) \div X, 0}) * X
           then == IF next < next_chunk THEN "input" ELSE "add"
<1>2. /\ pc \in Searching /\ UNCHANGED job /\ last_i' = last_i /\ UNCHANGED inputs
      /\ next_chunk' = next_chunk /\ i' = next
      /\ \/ \E p \in i + 1 .. next, k \in Chunks(next_chunk) :
              /\ p >= last_match_end /\ p < input.start
              /\ FindMatch(p, k, then)
         \/ pc' = then /\ UNCHANGED output
  BY <1>1 DEF LookAhead, Searching
<1>3. /\ Start \in Nat /\ i \in Nat /\ next_chunk \in Nat /\ last_match_end \in Nat /\ i % X = 0 /\ i <= next_chunk
      /\ next_chunk - L <= i /\ L \in Nat /\ L >= 1 /\ L <= next_chunk /\ next_chunk + L <= Length /\ next_chunk % X = 0
      /\ JobTypes /\ Written(BASE_LEN) /\ Length \in Nat
  BY <1>1, <1>2, InSearch
<1>4. next \in Nat /\ i <= next /\ next <= next_chunk /\ next % X = 0
  <2> HIDE DEF next, last
  <2>1. last = Min({next_chunk, i + LOOKAHEAD}) /\ next = i + Max({(last - i + X - 1) \div X, 0}) * X
    BY DEF last, next
  <2>2. QED BY <1>3, <2>1, Looked
<1> HIDE DEF last, next
<1>5. input.start \in Nat
  <2>1. InputsGood /\ aux # <<>> /\ aux \in Seq(Seq(Nat)) /\ instat \in Nat
    BY <1>1, <1>2, InSearch DEF BlockTypes
  <2>2. QED BY <1>3, <2>1, InputIs
<1>6. /\ pc' = then /\ Written(BASE_LEN)' /\ \A t : Covered(t) => Covered(t)'
      /\ \A t \in Start + input.start .. Start + last_match_end' - 1 : Covered(t)'
  <2>1. CASE pc' = then /\ UNCHANGED output
    BY <1>1, <1>2, <2>1, SearchSame
  <2>2. CASE ~(pc' = then /\ UNCHANGED output)
    <3>1. PICK p \in i + 1 .. next, k \in Chunks(next_chunk) :
              /\ p >= last_match_end /\ p < input.start
              /\ FindMatch(p, k, then)
      BY <1>2, <2>2
    <3>2. k \in Nat /\ k * L + L <= Start + next_chunk /\ k * L \in Int
      <4>1. k \in Nat /\ k * L + L <= Start + next_chunk
        BY <1>3, <3>1, ChunkAdded
      <4>2. QED BY <1>3, <4>1
    <3>3. p \in Nat /\ last_match_end <= p /\ p + L <= Length /\ k * L < Start + p
      BY <1>3, <1>4, <3>1, <3>2
    <3> HIDE DEF then
    <3>4. /\ Written(BASE_LEN)' /\ pc' = then /\ \A t : Covered(t) => Covered(t)'
          /\ \A t \in Start + p .. Start + last_match_end' - 1 : Covered(t)'
      BY <1>2, <1>3, <3>1, <3>2, <3>3, FindMatchKeeps
    <3>5. \A t \in Start + input.start .. Start + last_match_end' - 1 : t \in Start + p .. Start + last_match_end' - 1
      BY <1>3, <1>5, <3>1, <3>3
    <3>6. QED BY <3>4, <3>5
  <2>3. QED BY <2>1, <2>2
<1>7. StepsEven'
  <2>1. Length' = Length
    BY <1>2, JobSame
  <2>2. pc' = "add" => next = next_chunk
    BY <1>3, <1>4, <1>6
  <2>3. next_chunk - L <= next
    BY <1>3, <1>4
  <2>4. QED BY <1>2, <1>3, <1>4, <2>1, <2>2, <2>3 DEF StepsEven
<1>8. pc' \in Searching \cup {"done"} /\ pc' # "first" /\ i' \in Nat /\ next_chunk' \in Nat
  BY <1>2, <1>3, <1>4, <1>6 DEF Searching
<1>9. QED BY <1>1, <1>2, <1>6, <1>7, <1>8, SearchKeeps

LEMMA AddChunkKeeps == IInv /\ AddChunk => IInv'
<1>1. SUFFICES ASSUME IInv, AddChunk PROVE IInv'
  OBVIOUS
<1>2. /\ pc = "add" /\ pc \in Searching /\ UNCHANGED job /\ last_i' = last_i /\ UNCHANGED inputs
      /\ i' = i /\ UNCHANGED output
      /\ IF i <= Length - 2 * L THEN pc' = "input" /\ next_chunk' = i + L
                                ELSE pc' = "done" /\ UNCHANGED next_chunk
  BY <1>1 DEF AddChunk, Searching
<1>3. /\ i \in Nat /\ next_chunk \in Nat /\ i % X = 0 /\ i = next_chunk /\ Length \in Nat
      /\ L \in Nat /\ L >= 1 /\ L <= next_chunk /\ next_chunk + L <= Length /\ next_chunk % X = 0
  BY <1>1, <1>2, InSearch
<1>4. (i + L) % X = 0
  <2> DEFINE x == X
  <2>1. x \in Nat /\ x >= 1 /\ L % x = 0 /\ i % x = 0 /\ i \in Int /\ L \in Int
    BY <1>3, XIs
  <2> HIDE DEF x
  <2>2. (i + L) % x = 0
    BY <2>1, MultipleSum, Zenon
  <2>3. QED BY <2>2 DEF x
<1>5. StepsEven'
  <2>1. Length' = Length
    BY <1>2, JobSame
  <2>2. CASE i <= Length - 2 * L
    <3>1. next_chunk' = i + L /\ pc' = "input"
      BY <1>2, <2>2
    <3>2. L <= i + L /\ (i + L) + L <= Length /\ (i + L) - L <= i /\ i <= i + L
      BY <1>3, <2>2
    <3>3. QED BY <1>2, <1>3, <1>4, <2>1, <3>1, <3>2 DEF StepsEven
  <2>3. CASE ~(i <= Length - 2 * L)
    BY <1>2, <2>3 DEF StepsEven, Searching
  <2>4. QED BY <2>2, <2>3
<1>6. pc' \in Searching \cup {"done"} /\ pc' # "first" /\ i' \in Nat /\ next_chunk' \in Nat
  BY <1>2, <1>3 DEF Searching
<1>7. QED BY <1>1, <1>2, <1>5, <1>6, SearchSame, SearchKeeps
-----------------------------------------------------------------------------
(* All steps together, and what follows.                                   *)

LEMMA Stutter == IInv /\ UNCHANGED vars => IInv'
<1>1. SUFFICES ASSUME IInv, UNCHANGED vars PROVE IInv'
  OBVIOUS
<1>2. /\ UNCHANGED job /\ UNCHANGED output /\ UNCHANGED inputs
      /\ pc' = pc /\ last_i' = last_i /\ i' = i /\ next_chunk' = next_chunk
  BY <1>1 DEF vars
<1>3. /\ list' = list /\ last_match_end' = last_match_end
      /\ aux' = aux /\ instat' = instat /\ input' = input
  BY <1>2 DEF output, inputs
<1>4. /\ JobTypes' = JobTypes /\ mode' = mode /\ bufstart' = bufstart /\ BASE_LEN' = BASE_LEN
      /\ Length' = Length /\ Start' = Start
  BY <1>2, JobSame
<1>5. BlockTypes'
  BY <1>1, <1>2, <1>3, <1>4 DEF IInv, BlockTypes, Searching
<1>6. ListKept'
  <2>1. Low' = Low
    BY <1>2, <1>4 DEF Low
  <2>2. Written(Low)
    BY <1>1 DEF IInv, ListKept
  <2>3. PICK low : low = Low
    OBVIOUS
  <2>4. Written(low)' = Written(low)
    BY <1>2, ListSame
  <2>5. QED BY <2>1, <2>2, <2>3, <2>4 DEF ListKept
<1>7. InputsGood'
  BY <1>1, <1>2, InputSame DEF IInv
<1>8. StepsEven'
  BY <1>1, <1>2, <1>4 DEF IInv, StepsEven, Searching
<1>9. InputsCovered'
  <2>1. \A t : Covered(t)' = Covered(t)
    BY <1>2, ListSame
  <2>2. \A k : In(aux, k)' = In(aux, k) /\ At(aux, k)' = At(aux, k)
    BY <1>2, <1>3, JobSame
  <2>3. QED BY <1>1, <1>3, <1>4, <2>1, <2>2 DEF IInv, InputsCovered
<1>10. QED BY <1>5, <1>6, <1>7, <1>8, <1>9 DEF IInv

\* What is written is a list of matches of the file, in order, and what is read was so
\* before: of every file, whatever the hash tables have lost and hashes have in common
THEOREM Inductive == Spec => []IInv
<1>1. Init => IInv
  BY InitHolds
<1>2. IInv /\ [Next]_vars => IInv'
  <2>1. SUFFICES ASSUME IInv, [Next]_vars PROVE IInv'
    OBVIOUS
  <2>2. CASE InmemStep
    BY <2>1, <2>2, InmemStepKeeps
  <2>3. CASE InmemEnd
    BY <2>1, <2>3, InmemEndKeeps
  <2>4. CASE CheckFirst
    BY <2>1, <2>4, CheckFirstKeeps
  <2>5. CASE NextInput
    BY <2>1, <2>5, NextInputKeeps
  <2>6. CASE NoInput
    BY <2>1, <2>6, NoInputKeeps
  <2>7. CASE SkipMatch
    BY <2>1, <2>7, SkipMatchKeeps
  <2>8. CASE LookAhead
    BY <2>1, <2>8, LookAheadKeeps
  <2>9. CASE AddChunk
    BY <2>1, <2>9, AddChunkKeeps
  <2>10. CASE UNCHANGED vars
    BY <2>1, <2>10, Stutter
  <2>11. QED BY <2>1, <2>2, <2>3, <2>4, <2>5, <2>6, <2>7, <2>8, <2>9, <2>10 DEF Next
<1>3. QED BY <1>1, <1>2, PTL DEF Spec

\* Matches are those of the records
LEMMA Those ==
  ASSUME NEW s \in Seq(Seq(Nat))
  PROVE  Matches(s) = {In(s, k) : k \in 1 .. Len(s)}
BY DEF Matches, FirstMatches, In

\* Matches repeat bytes of the file: whatever hashes collide and whatever was lost from
\* the tables, compress<> and the in-memory compressor write no match whose bytes
\* were not compared, themselves or by their digests
THEOREM MatchesRight == Spec => []MatchesRepeat
<1>1. IInv => MatchesRepeat
  <2>1. SUFFICES ASSUME IInv, NEW d \in Matches(list)
                 PROVE  /\ 0 <= d.src /\ d.src < d.dest
                        /\ \A t \in 0 .. d.len - 1 : file[d.src + t] = file[d.dest + t]
    BY DEF MatchesRepeat
  <2>2. PICK low : Written(low)
    BY <2>1 DEF IInv, ListKept
  <2>3. PICK k \in 1 .. Len(list) : d = In(list, k)
    BY <2>1, <2>2, Those DEF Written
  <2>4. Copies(d, low)
    BY <2>2, <2>3 DEF Written, InOrder
  <2>5. QED BY <2>4 DEF Copies
<1>2. QED BY <1>1, Inductive, PTL

\* Comparing stays in the dictionary, in bytes that are neither older than its size nor
\* later than the byte compared, at any position of the block in the circle
THEOREM WindowKept == Spec => []StaysInWindow
<1>1. IInv => StaysInWindow
  <2>1. SUFFICES ASSUME IInv, last_i + 2 * InmemL <= bufend,
                        NEW x \in last_i .. last_i + InmemL - 1, NEW m \in Indexed,
                        x >= bufstart + last_match_end, Near(x, m),
                        NEW t \in From(x, m) .. To(x, m) - 1
                 PROVE  Held(t - x + m) \in Start - MAX_DIST .. Held(t) - 1
    BY DEF StaysInWindow
  <2>2. /\ JobTypes /\ last_i \in Nat /\ bufstart <= last_i /\ last_match_end \in Nat
    BY <2>1, Block DEF IInv, BlockTypes, ListKept, Written
  <2>3. /\ Start \in Nat /\ bufstart \in Nat /\ bufend \in Nat /\ dictsize \in Nat
        /\ dictsize >= 1 /\ InmemL \in Nat /\ InmemL >= 1 /\ MAX_DIST \in Nat
    <3>1. Length \in Nat /\ Start \in Nat
      BY <2>2, Block
    <3>2. /\ bufstart \in Nat /\ bufend = bufstart + Length
          /\ dictsize \in Nat /\ dictsize >= MAX_DIST + 2 * BlockSize
      BY <2>2, Dictionary
    <3> HIDE DEF bufstart, bufend, dictsize, Start, Length
    <3>3. QED BY <3>1, <3>2, Constants
  <2>4. x \in Int /\ bufstart <= x /\ x < bufend /\ m \in 0 .. dictsize - 1
    <3>1. m \in 1 .. dictsize - 1
      BY <2>2, IndexedIn
    <3>2. QED BY <2>1, <2>2, <2>3, <3>1
  <2>5. t \in Int /\ From(x, m) <= t /\ t < To(x, m)
    <3>1. From(x, m) \in Int /\ To(x, m) \in Int
      <4>1. DataStart \in Int
        <5> DEFINE a == bufstart + dictsize - MAX_DIST
                   c == dictsize
        <5>1. a \in Int /\ c \in Nat /\ c >= 1 /\ DataStart = a % c
          BY <2>3 DEF DataStart
        <5> HIDE DEF a, c
        <5>2. QED BY <5>1, DivMod
      <4>2. LowBound(x, m) \in Int /\ HighBound(x, m) \in Int
        BY <2>3, <2>4, <4>1 DEF LowBound, HighBound
      <4>3. bufstart + last_match_end \in Int
        BY <2>2, <2>3
      <4>4. From(x, m) \in Int
        BY <4>2, <4>3, Max2 DEF From
      <4>5. To(x, m) \in Int
        BY <2>3, <4>2, Min2 DEF To
      <4>6. QED BY <4>4, <4>5
    <3>2. QED BY <3>1
  <2>6. /\ Distance(x, m) \in 1 .. MAX_DIST
        /\ Held(t) = Start + t - bufstart
        /\ Held(t - x + m) = Held(t) - Distance(x, m)
        /\ bufstart + last_match_end <= t
    BY <2>1, <2>2, <2>4, <2>5, Compared
  <2> DEFINE a == Held(t)
             b == Held(t - x + m)
             c == Distance(x, m)
  <2>7. c \in 1 .. MAX_DIST /\ a = Start + t - bufstart /\ b = a - c /\ bufstart + last_match_end <= t
    BY <2>6
  <2> HIDE DEF a, b, c
  <2>8. b \in Start - MAX_DIST .. a - 1
    BY <2>2, <2>3, <2>5, <2>7
  <2>9. QED BY <2>8 DEF a, b
<1>2. QED BY <1>1, Inductive, PTL

\* The buffers of records are large enough
LEMMA RecordsFit ==
  ASSUME JobTypes, NEW low \in Nat, BASE_LEN <= low, low <= dict_min_match, Written(low),
         NEW min_match \in Nat, min_match >= 1, min_match <= low
  PROVE  Len(list) * StatsPerMatch(ROUND_MATCHES) <= MAX_STATS_PER_BLOCK(BlockSize, min_match) + 10
<1>1. /\ Len(list) \in Nat /\ last_match_end \in Nat /\ last_match_end <= BlockSize
      /\ BlockSize \in Nat
  BY Block, Constants DEF Written
<1>2. Written(min_match)
  BY Lower
<1> DEFINE a == Len(list)
           q == BlockSize \div min_match
           w == StatsPerMatch(ROUND_MATCHES)
<1>3. a * min_match <= BlockSize
  <2>1. a * min_match <= last_match_end
    BY <1>2 DEF Written
  <2>2. a * min_match \in Int
    BY <1>1
  <2> HIDE DEF a
  <2>3. QED BY <1>1, <2>1, <2>2
<1>4. a <= q /\ q \in Int
  <2>1. a \in Nat
    BY <1>1
  <2> HIDE DEF a
  <2>2. a <= BlockSize \div min_match
    BY <1>1, <1>3, <2>1, Capacity
  <2>3. QED BY <1>1, <2>2
<1>5. w \in {3, 4} /\ a \in Nat
  BY <1>1 DEF StatsPerMatch
<1> HIDE DEF a, q, w
<1>6. a * w <= (q + 1) * 4 + 10
  <2>1. CASE w = 3
    BY <1>4, <1>5, <2>1
  <2>2. CASE w = 4
    BY <1>4, <1>5, <2>2
  <2>3. QED BY <1>5, <2>1, <2>2
<1>7. QED BY <1>6 DEF MAX_STATS_PER_BLOCK, a, q, w

LEMMA BuffersSuffice ==
  ASSUME IInv
  PROVE  /\ Len(list) * StatsPerMatch(ROUND_MATCHES)
              <= IF pc = "inmem" /\ ~mode.only THEN aux_statbuf_size ELSE statbuf_size
         /\ Len(aux) * StatsPerMatch(ROUND_MATCHES) <= aux_statbuf_size
<1>1. /\ JobTypes /\ Written(Low) /\ InputsGood
      /\ (pc = "inmem" /\ ~mode.dict => list = <<>>)
  BY DEF IInv, BlockTypes, ListKept
<1>2. /\ BASE_LEN \in Nat /\ BASE_LEN >= 1 /\ BASE_LEN <= dict_min_match
      /\ dict_min_match \in Nat /\ dict_min_match >= 1
  BY <1>1, Base, Constants
<1>3. Low \in Nat /\ BASE_LEN <= Low /\ Low <= dict_min_match
  BY <1>2 DEF Low
<1> DEFINE w == StatsPerMatch(ROUND_MATCHES)
<1>4. w \in {3, 4}
  BY DEF StatsPerMatch
<1>5. aux_statbuf_size \in Int /\ aux_statbuf_size >= 0
  <2> DEFINE q == BlockSize \div dict_min_match
  <2>1. q \in Int /\ q >= 0
    BY <1>2, Constants, DivMod
  <2> HIDE DEF q
  <2>2. (q + 1) * 4 + 10 \in Int /\ (q + 1) * 4 + 10 >= 0
    BY <2>1
  <2>3. aux_statbuf_size = IF mode.dict THEN (q + 1) * 4 + 10 ELSE w
    BY DEF aux_statbuf_size, MAX_STATS_PER_BLOCK, q
  <2> HIDE DEF w
  <2>4. QED BY <1>4, <2>2, <2>3
<1>6. Len(list) * w <= statbuf_size
  BY <1>1, <1>2, <1>3, RecordsFit DEF statbuf_size
<1>7. ASSUME pc = "inmem" PROVE Len(list) * w <= aux_statbuf_size
  <2>1. CASE mode.dict
    <3>1. Low = dict_min_match
      BY <1>7 DEF Low
    <3>2. Len(list) * w <= MAX_STATS_PER_BLOCK(BlockSize, dict_min_match) + 10
      BY <1>1, <1>2, <1>3, <3>1, RecordsFit
    <3>3. QED BY <2>1, <3>2 DEF aux_statbuf_size
  <2>2. CASE ~mode.dict
    <3>1. Len(list) = 0
      BY <1>1, <1>7, <2>2
    <3> HIDE DEF w
    <3>2. QED BY <1>4, <1>5, <3>1
  <2>3. QED BY <2>1, <2>2
<1>8. Len(aux) * w <= aux_statbuf_size
  <2>1. CASE aux = <<>>
    <3>1. Len(aux) = 0
      BY <2>1
    <3> HIDE DEF w
    <3>2. QED BY <1>4, <1>5, <3>1
  <2>2. CASE aux # <<>>
    BY <1>1, <2>2 DEF InputsGood
  <2>3. QED BY <2>1, <2>2
<1>9. QED BY <1>6, <1>7, <1>8

\* What matches with earlier blocks leave of an input match is shorter than a match
LEMMA NothingLost == IInv => InputsKept
<1>1. SUFFICES ASSUME IInv, aux # <<>>, NEW k \in 1 .. instat - 2,
                      NEW covered,
                      covered = UNION {d.dest .. d.dest + d.len - 1 : d \in Matches(list)}
               PROVE  Cardinality((In(aux, k).dest .. In(aux, k).dest + In(aux, k).len - 1)
                                    \ covered) < BASE_LEN
  BY DEF InputsKept, FirstMatches, In
<1>2. /\ JobTypes /\ aux \in Seq(Seq(Nat)) /\ instat \in Nat /\ list \in Seq(Seq(Nat))
      /\ InOrder(aux, Len(aux) - 1, dict_min_match) /\ instat - 1 <= Len(aux)
      /\ \A t \in In(aux, k).dest .. At(aux, k) - BASE_LEN : Covered(t)
  BY <1>1 DEF IInv, BlockTypes, InputsGood, InputsCovered, ListKept, Written
<1>3. BASE_LEN \in Nat /\ BASE_LEN >= 1
  BY <1>2, Base
<1> DEFINE d == In(aux, k)
           e == d.dest + d.len
           rest == (d.dest .. e - 1) \ covered
           b == BASE_LEN
<1>4. k \in 1 .. Len(aux) - 1 /\ k \in 1 .. Len(aux)
  BY <1>1, <1>2
<1>5. d.dest \in Nat /\ d.len \in Nat /\ At(aux, k) = e
  <2>1. Copies(d, dict_min_match)
    BY <1>2, <1>4 DEF InOrder
  <2>2. QED BY <1>2, <1>4, <2>1, ListEnds DEF Copies
<1>6. ASSUME NEW t \in d.dest .. e - b
      PROVE  t \in covered
  <2>1. Covered(t)
    BY <1>2, <1>5
  <2>2. PICK j \in 1 .. Len(list) : In(list, j).dest <= t /\ t < At(list, j)
    BY <2>1 DEF Covered
  <2> DEFINE f == In(list, j)
  <2>3. f \in Matches(list) /\ At(list, j) = f.dest + f.len
    BY <1>2, <2>2, Those, ListEnds
  <2>4. PICK low : InOrder(list, Len(list), low)
    BY <1>1 DEF IInv, ListKept, Written
  <2>5. f.dest \in Nat /\ f.len \in Nat
    BY <2>2, <2>4 DEF InOrder, Copies
  <2>6. t \in f.dest .. f.dest + f.len - 1
    <3>1. f.dest <= t /\ t < f.dest + f.len
      BY <2>2, <2>3
    <3>2. t \in Int
      BY <1>3, <1>5
    <3> HIDE DEF f
    <3>3. QED BY <2>5, <3>1, <3>2
  <2> HIDE DEF f
  <2>7. QED BY <1>1, <2>3, <2>6
<1> HIDE DEF b
<1>7. e \in Nat /\ b \in Nat /\ b >= 1
  BY <1>3, <1>5 DEF b
<1> HIDE DEF d, e
<1>8. rest \subseteq e - b + 1 .. e - 1
  BY <1>5, <1>6, <1>7
<1> HIDE DEF rest
<1>9. IsFiniteSet(e - b + 1 .. e - 1) /\ Cardinality(e - b + 1 .. e - 1) = b - 1
  <2> DEFINE f == e - b + 1
             g == e - 1
  <2>1. f \in Int /\ g \in Int /\ g - f + 1 = b - 1 /\ f <= g + 1
    BY <1>7
  <2> HIDE DEF f, g
  <2>2. IsFiniteSet(f .. g) /\ Cardinality(f .. g) = IF f > g THEN 0 ELSE g - f + 1
    BY <2>1, FS_Interval
  <2>3. Cardinality(f .. g) = b - 1
    BY <1>7, <2>1, <2>2
  <2>4. QED BY <2>2, <2>3 DEF f, g
<1>10. Cardinality(rest) <= b - 1 /\ Cardinality(rest) \in Nat
  BY <1>8, <1>9, FS_Subset, FS_CardinalityType
<1>11. Cardinality(rest) < b
  BY <1>7, <1>10
<1>12. rest = (d.dest .. d.dest + d.len - 1) \ covered /\ b = BASE_LEN
  <2>1. e - 1 = d.dest + d.len - 1
    BY <1>5 DEF e
  <2>2. rest = (d.dest .. e - 1) \ covered
    BY DEF rest
  <2>3. QED BY <2>1, <2>2 DEF b
<1>13. Cardinality((d.dest .. d.dest + d.len - 1) \ covered) < BASE_LEN
  BY <1>11, <1>12
<1>14. QED BY <1>13 DEF d

\* A list can be encoded and decoded, has its matches in the block, one behind the
\* other, and their literals counted, fits into its buffer, and lost no match that
\* the in-memory compressor found
THEOREM ListSound == Spec => []ListIsSound
<1>1. IInv => ListIsValid
  <2>1. SUFFICES ASSUME IInv PROVE ListIsValid
    OBVIOUS
  <2>2. pc # "error"
    BY <2>1 DEF IInv, BlockTypes, Searching
  <2>3. PICK low : Written(low)
    BY <2>1 DEF IInv, ListKept
  <2>4. ASSUME NEW d \in Matches(list)
        PROVE  Start <= d.dest /\ d.dest + d.len <= Start + Length
    <3>1. PICK k \in 1 .. Len(list) : d = In(list, k)
      BY <2>3, <2>4, Those DEF Written
    <3>2. /\ Copies(d, low) /\ Start <= At(list, k - 1) /\ At(list, k - 1) <= d.dest
          /\ At(list, k) <= Start + Length
      BY <2>3, <3>1 DEF Written, InOrder
    <3>3. At(list, k) = d.dest + d.len
      BY <2>3, <3>1, ListEnds DEF Written
    <3>4. Start \in Nat /\ At(list, k - 1) \in Nat
      <4>1. JobTypes /\ InOrder(list, Len(list), low) /\ list \in Seq(Seq(Nat))
        BY <2>1, <2>3 DEF IInv, BlockTypes, Written
      <4>2. Len(list) \in 0 .. Len(list) /\ k - 1 \in 0 .. Len(list)
        BY <3>1, <4>1
      <4>3. QED BY <4>1, <4>2, EndsGrow, Block
    <3>5. d.dest \in Nat
      BY <3>2 DEF Copies
    <3>6. QED BY <3>2, <3>3, <3>4, <3>5
  <2>5. literal_bytes = Length - SumFunctionOnSet([d \in Matches(list) |-> d.len], Matches(list))
    BY <2>3 DEF Written
  <2>6. QED BY <2>1, <2>2, <2>4, <2>5, BuffersSuffice DEF ListIsValid
<1>2. IInv => ListIsSound
  BY <1>1, NothingLost DEF ListIsSound
<1>3. QED BY <1>2, Inductive, PTL

=============================================================================
