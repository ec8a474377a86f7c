------------------------------- MODULE MCHashes -------------------------------
(* The hash functions of SREP on texts around the sizes of their blocks, on   *)
(* the texts of the self-tests, and on operands around the moduli.            *)
EXTENDS Hashes

(* Texts of every length where the padding or the number of blocks changes,   *)
(* given whole or cut in two calls.                                           *)
Text(n) == Tuple([j \in 1 .. n |-> (j * j) % 251])
Cuts(t, m) == {<<t>>} \union
              {<<SubSeq(t, 1, j), SubSeq(t, j + 1, Len(t))>> : j \in {c \in m : c <= Len(t)}}
MCJobs ==
  {[h |-> d.h, text |-> d.text, pieces |-> <<d.text>>] : d \in DigestTests} \union
  UNION {{[h |-> "md5", text |-> Text(n), pieces |-> p] : p \in Cuts(Text(n), {1, 64})} :
           n \in {56, 64, 120}} \union
  UNION {{[h |-> "sha1", text |-> Text(n), pieces |-> p] : p \in Cuts(Text(n), {1})} :
           n \in {55, 56, 64}} \union
  UNION {{[h |-> "sha512", text |-> Text(n), pieces |-> p] : p \in Cuts(Text(n), {1})} :
           n \in {111, 112, 128}}

Key(n) == Tuple([j \in 1 .. n |-> (7 * j) % 256])
MCSeeds == {[alg |-> "vmac", key |-> Key(32)], [alg |-> "siphash", key |-> Key(16)]}
             \union {[alg |-> "vmac", key |-> t.key] : t \in should_be}
MCTexts == {Text(n) : n \in {128, 133}} \union {t.text : t \in should_be}

(* The corners of the words and of the two moduli. *)
HighWords == {Zeros(8), Hex("3fffffffffffffff"), Hex("7fffffffffffffff"),
              Hex("8000000000000000"), Hex("bfffffffffffffff")}
LowWords == {Word(1, 8), Hex("ffffffffffffffff"), Hex("ffffffff00000000")}
PolyKeys == {Join(x, y) : x \in {Hex("1fffffff1fffffff"), Hex("0000000112345678")},
                          y \in {Hex("1fffffff1fffffff"), Word(1, 8)}}
L3Keys == {Zeros(8), Hex("fffffffffffffefe"), Hex("8000000000000001")}
MCOperands ==
  {[op |-> "aes", key |-> c.key, text |-> c.text] : c \in ECB_TEST} \union
  {[op |-> "poly_step", a |-> Join(x, y), k |-> k, m |-> m] :
     x \in HighWords, y \in LowWords, k \in PolyKeys,
     m \in {Zeros(16), Mask(Join(m64, m64), 126)}} \union
  {[op |-> "l3hash", p |-> Join(x, y), keys |-> <<k1, k2>>, len |-> n] :
     x \in HighWords, y \in LowWords, k1 \in L3Keys, k2 \in L3Keys, n \in {0, 1016}}

MCData == Tuple([j \in 1 .. 40 |-> (j * j * 7) % 256])
MCRollers ==
  {[kind |-> "poly", L |-> l, seed |-> Word(153191, w)] : l \in {1, 4, 16}, w \in {4, 8}}
  \union {[kind |-> "poly", L |-> 20, seed |-> Hex("9b97714def8d8f1d")]}
  \union {[kind |-> "crc", L |-> l, seed |-> Hex("82f63b78")] : l \in {1, 7, 20}}
=============================================================================
