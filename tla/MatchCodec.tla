----------------------------- MODULE MatchCodec -----------------------------
(***************************************************************************)
(* ENCODE_LZ_MATCH and DECODE_LZ_MATCH of srep.h: an LZ match as 3 or 4    *)
(* STAT words.  Without rounding the offset takes two words; with it,      *)
(* offset and length are stored divided by L.                              *)
(***************************************************************************)
EXTENDS Integers, Sequences

CONSTANT StatValues   \* values a STAT can take: 2^32

ASSUME CodecAssumption == StatValues \in Nat \ {0}

\* An integer stored in a STAT keeps its low bits
AsStat(n) == n % StatValues

StatsPerMatch(round) == IF round THEN 3 ELSE 4

Unit(round, L) == IF round THEN L ELSE 1

\* Only defined for len >= L: the program ends with an error otherwise
CanEncode(L, len) == len >= L

\* Mutant: the offset keeps its low word only
EncodeLowWord(round, L, lit, offset, len) ==
  LET L1    == Unit(round, L)
      units == offset \div L1
      size  == AsStat((len - L) \div L1)
  IN  IF round THEN <<AsStat(lit), AsStat(units), size>>
               ELSE <<AsStat(lit), AsStat(units), 0, size>>

Encode(round, L, lit, offset, len) ==
  LET L1    == Unit(round, L)
      units == offset \div L1
      size  == AsStat((len - L) \div L1)
  IN  IF round THEN <<AsStat(lit), AsStat(units), size>>
               ELSE <<AsStat(lit), AsStat(units), AsStat(units \div StatValues), size>>

\* The match in the words `s`.  In a block's own list basic_pos is where its
\* literals start, in a Future-LZ list it is the source of the match before
Decode(future, round, L, basic_pos, s) ==
  LET L1     == Unit(round, L)
      offset == (IF round THEN s[2] ELSE s[2] + s[3] * StatValues) * L1
      len    == AsStat(s[StatsPerMatch(round)] * L1 + L)
      here   == basic_pos + s[1]
      there  == IF future THEN here + offset ELSE (here \div L1) * L1 - offset
  IN  [lit  |-> s[1], len |-> len,
       src  |-> IF future THEN here ELSE there,
       dest |-> IF future THEN there ELSE here]
=============================================================================
