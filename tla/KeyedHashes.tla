------------------------------ MODULE KeyedHashes ----------------------------
(* The keyed hashes of a block: SipHash-2-4 (hashes/siphash/siphash.c) and    *)
(* VHASH (hashes/vmac/vmac.c), whose keys are derived with AES encryption     *)
(* (ciphers/aes/aes.c, the ENCRYPT_ONLY build).  64-bit values are words of   *)
(* 8 bytes, a pair (high, low) of the code is one word of 16 bytes.           *)
EXTENDS Words

CONSTANT
  NhBytes  \* VMAC_NHBYTES: the bytes of one NH block, 4096 in hashes.h

Low(x) == SubSeq(x, 1, 8)
High(x) == SubSeq(x, 9, 16)
Join(hi, lo) == lo \o hi

-----------------------------------------------------------------------------
(* SIPCOMPRESS *)
SipRound(v) ==
  LET a == Add(v[1], v[2])
      c == Add(v[3], v[4])
      b == Xor(ROL(v[2], 13), a)
      d == Xor(ROL(v[4], 16), c)
      c2 == Add(c, b)
      a2 == Add(ROL(a, 32), d)
  IN  <<a2, Xor(ROL(b, 17), c2), ROL(c2, 32), Xor(ROL(d, 21), a2)>>
SipAbsorb(v, word) ==
  LET w == SipRound(SipRound(<<v[1], v[2], v[3], Xor(v[4], word)>>))
  IN  <<Xor(w[1], word), w[2], w[3], w[4]>>
SipWords(m) == Append(Cut(m, 8), LET last == SubSeq(m, 8 * (Len(m) \div 8) + 1, Len(m))
                                 IN  last \o Zeros(7 - Len(last)) \o <<Len(m) % 256>>)
siphash(key, m) ==
  LET k == Cut(key, 8)
      start == <<Xor(k[1], Hex("736f6d6570736575")), Xor(k[2], Hex("646f72616e646f6d")),
                 Xor(k[1], Hex("6c7967656e657261")), Xor(k[2], Hex("7465646279746573"))>>
      words == SipWords(m)
      v[j \in 0 .. Len(words)] ==
        LET before == v[j - 1]
        IN  CASE j = 0 -> start [] Len(before) = 4 -> SipAbsorb(before, words[j])
      end == v[Len(words)]
      f == SipRound(SipRound(SipRound(SipRound(
             <<end[1], end[2], Xor(end[3], Word(255, 8)), end[4]>>))))
  IN  Xor(Xor(f[1], f[2]), Xor(f[3], f[4]))

-----------------------------------------------------------------------------
(* The tables of aes_tab.c: the substitution itself, and its multiples in     *)
(* GF(2^8) by the columns of MixColumns, turned by one byte from one to next. *)
Sbox == Bytes(
  "637c777bf26b6fc53001672bfed7ab76ca82c97dfa5947f0add4a2af9ca472c0" \o
  "b7fd9326363ff7cc34a5e5f171d8311504c723c31896059a071280e2eb27b275" \o
  "09832c1a1b6e5aa0523bd6b329e32f8453d100ed20fcb15b6acbbe394a4c58cf" \o
  "d0efaafb434d338545f9027f503c9fa851a3408f929d38f5bcb6da2110fff3d2" \o
  "cd0c13ec5f974417c4a77e3d645d197360814fdc222a908846eeb814de5e0bdb" \o
  "e0323a0a4906245cc2d3ac629195e479e7c8376d8dd54ea96c56f4ea657aae08" \o
  "ba78252e1ca6b4c6e8dd741f4bbd8b8a703eb5664803f60e613557b986c11d9e" \o
  "e1f8981169d98e949b1e87e9ce5528df8ca1890dbfe6426841992d0fb054bb16")
Twice == [b \in Byte |-> IF b < 128 THEN 2 * b ELSE XorByte[2 * b - 256][27]]
TE0 == [b \in Byte |-> LET y == Sbox[b + 1]
                       IN  <<XorByte[Twice[y]][y], y, y, Twice[y]>>]
TE1 == [b \in Byte |-> ROR(TE0[b], 8)]
TE2 == [b \in Byte |-> ROR(TE0[b], 16)]
TE3 == [b \in Byte |-> ROR(TE0[b], 24)]
Te4_0 == [b \in Byte |-> <<Sbox[b + 1], 0, 0, 0>>]
Te4_1 == [b \in Byte |-> <<0, Sbox[b + 1], 0, 0>>]
Te4_2 == [b \in Byte |-> <<0, 0, Sbox[b + 1], 0>>]
Te4_3 == [b \in Byte |-> <<0, 0, 0, Sbox[b + 1]>>]
rcon == <<1, 2, 4, 8, 16, 32, 64, 128, 27, 54>>

Xor4(a, b, c, d) == Xor(Xor(a, b), Xor(c, d))
setup_mix(temp) ==
  Xor4(Te4_3[temp[3]], Te4_2[temp[2]], Te4_1[temp[1]], Te4_0[temp[4]])

(* rijndael_enc_setup: groups of as many words as the key has, each from the  *)
(* group before it; the round keys are the first 4 * (Nr + 1) words.          *)
KeyGroup(rk, n, j) ==
  LET first == Xor4(rk[1], setup_mix(rk[n]), <<0, 0, 0, rcon[j]>>, Zeros(4))
      w[k \in 1 .. n] ==
        LET before == w[k - 1]
        IN  IF k = 1 THEN first
            ELSE Xor(rk[k], IF n = 8 /\ k = 5 THEN setup_mix(ROR(before, 8)) ELSE before)
  IN  Tuple(w)
aes_key_setup(key) ==
  LET n == Len(key) \div 4
      groups == CASE n = 4 -> 10 [] n = 6 -> 8 [] n = 8 -> 7
      e[j \in 0 .. groups] ==
        LET before == e[j - 1]
        IN  IF j = 0 THEN BigEndian(key, 4)
            ELSE before \o KeyGroup(SubSeq(before, Len(before) - n + 1, Len(before)), n, j)
  IN  SubSeq(e[groups], 1, 4 * (n + 7))

(* rijndael_enc_ecb_encrypt *)
Column(s, rk, j) ==
  Xor(Xor4(TE0[s[j][4]], TE1[s[(j % 4) + 1][3]],
           TE2[s[((j + 1) % 4) + 1][2]], TE3[s[((j + 2) % 4) + 1][1]]), rk[j])
LastColumn(s, rk, j) ==
  Xor(Xor4(Te4_3[s[j][4]], Te4_2[s[(j % 4) + 1][3]],
           Te4_1[s[((j + 1) % 4) + 1][2]], Te4_0[s[((j + 2) % 4) + 1][1]]), rk[j])
aes_encryption(in, keys) ==
  LET rk(r) == SubSeq(keys, 4 * r + 1, 4 * r + 4)
      rounds == (Len(keys) \div 4) - 1
      text == BigEndian(in, 4)
      s[r \in 0 .. rounds - 1] ==
        LET before == s[r - 1]
        IN  CASE r = 0 -> Tuple([j \in 1 .. 4 |-> Xor(text[j], rk(0)[j])])
              [] Len(before) = 4 -> Tuple([j \in 1 .. 4 |-> Column(before, rk(r), j)])
      last == s[rounds - 1]
  IN  Concat(Tuple([j \in 1 .. 4 |-> Reverse8(LastColumn(last, rk(rounds), j))]))

-----------------------------------------------------------------------------
(* Constants of vmac.c: the prime 2^64 - 257, and the mask of the poly keys. *)
p64 == Hex("fffffffffffffeff")
mpoly == Hex("1fffffff1fffffff")
Mask(x, bits) == And(x, Tuple([j \in DOMAIN x |-> IF j < Len(x) THEN 255
                                                  ELSE 2^(8 - (8 * Len(x) - bits)) - 1]))

(* nh_16 and its variants: the sum of the products of pairs of words, each    *)
(* word added to its key; the message is filled up with zeros to 16 bytes.    *)
Filled(m) == m \o Zeros((16 - (Len(m) % 16)) % 16)
nh_16(m, k) ==
  LET sum[j \in 0 .. (Len(m) \div 2)] ==
        LET before == sum[j - 1]
        IN  IF j = 0 THEN Zeros(16)
            ELSE Add(before, Product(Add(m[2 * j - 1], k[2 * j - 1]),
                                     Add(m[2 * j], k[2 * j])))
  IN  Mask(sum[Len(m) \div 2], 126)
Nh(m, ctx, t) == nh_16(Cut(Filled(m), 8), SubSeq(ctx.nhkey, 2 * t - 1, Len(ctx.nhkey)))

(* poly_step: a * k + m modulo 2^127 - 1, not fully reduced. *)
poly_step(a, k, m) ==
  LET square == Add(Product(Low(a), Low(k)), Product(High(a), Shl(High(k), 1)))
      cross == Add(Product(High(a), Low(k)), Product(Low(a), High(k)))
      mid == Add(Join(High(cross), High(square)), Resize(Low(cross), 16))
      over == Add(Shl(High(mid), 1), Shr(Low(mid), 63))
  IN  Add(Add(Join(Mask(Low(mid), 63), Low(square)), m), Resize(over, 16))

(* l3hash: reduce modulo 2^127 - 1, split by 2^64 - 2^32, add the keys, and   *)
(* multiply modulo 2^64 - 257.                                                *)
Fold257(x, carried) == IF carried THEN Add(x, Word(257, 8)) ELSE x
AddTo(x, t) == Fold257(Add(x, t), Below(Add(x, t), t))

\* Mutant: the carry is lost
AddKeyWraps(x, k) == Add(x, k)

AddKey(x, k) == AddTo(x, k)
m63 == Hex("7fffffffffffffff")
m64 == Hex("ffffffffffffffff")
Reduce127(q) ==
  LET over == Below(m63, High(q)) \/ (High(q) = m63 /\ Low(q) = m64)
  IN  Add(q, Word(IF over THEN 1 ELSE 0, 16))
CarryIn(t) == Add(t, Word(IF SubSeq(t, 1, 4) = <<255, 255, 255, 255>> THEN 1 ELSE 0, 8))
Plus32(t) == Add(t, Shr(t, 32))
SplitHigh(r) ==
  LET p1 == Mask(High(r), 63)
  IN  Add(p1, Shr(CarryIn(Plus32(Add(p1, Shr(Low(r), 32)))), 32))
Below257(x) == Fold257(x, ~Below(x, p64))
Reduce257(prod) ==
  LET rh == High(prod)
      u1 == Add(Join(Shr(rh, 56), Low(prod)), Resize(rh, 16))
      u2 == Add(u1, Resize(Shl(rh, 8), 16))
  IN  Below257(AddTo(Low(u2), Add(High(u2), Shl(High(u2), 8))))
l3hash(p, k, len) ==
  LET top == Shr(High(p), 63)
      r == Reduce127(Add(Join(Mask(High(p), 63), Low(p)), Join(Word(len, 8), top)))
      quo == SplitHigh(r)
      rem == Add(Low(r), Shl(quo, 32))
  IN  Reduce257(Product(AddKey(quo, k[1]), AddKey(rem, k[2])))

(* vmac_set_key, after aes_key_setup made the round keys: AES in counter mode *)
(* under three different first bytes.                                         *)
CounterBlock(tag, keys, j) ==
  LET out == aes_encryption(<<tag>> \o Zeros(14) \o <<j % 256>>, keys)
  IN  BigEndian(out, 8)
vmac_set_key(keys) ==
  LET nh == (NhBytes \div 16) + 1
      block(j) == CounterBlock(128, keys, j)
      poly == Tuple([t \in 1 .. 2 |-> LET b == CounterBlock(192, keys, t - 1)
                                      IN  Join(And(b[1], mpoly), And(b[2], mpoly))])
      fits(j) == \A w \in {1, 2} : Below(CounterBlock(224, keys, j)[w], p64)
      l3(from) == CHOOSE j \in from .. 255 : fits(j) /\ \A n \in from .. (j - 1) : ~fits(n)
  IN  [nhkey |-> Tuple([n \in 1 .. (2 * nh) |->
                          block((n - 1) \div 2)[((n - 1) % 2) + 1]]),
       polykey |-> poly,
       l3key |-> <<CounterBlock(224, keys, l3(0)), CounterBlock(224, keys, l3(l3(0) + 1))>>,
       cipher_key |-> keys]

(* vhash: half t of the tag of m.  The first block is added to the poly key,  *)
(* every further one, the incomplete last one included, is a poly_step.       *)
VhashHalf(m, ctx, t) ==
  LET whole == Len(m) \div NhBytes
      count == whole + (IF Len(m) % NhBytes = 0 THEN 0 ELSE 1)
      part(j) == SubSeq(m, (j - 1) * NhBytes + 1,
                        IF j * NhBytes < Len(m) THEN j * NhBytes ELSE Len(m))
      c[j \in 0 .. count] ==
        LET before == c[j - 1]
        IN  CASE j = 0 -> ctx.polykey[t]
              [] j = 1 -> Add(Nh(part(1), ctx, t), ctx.polykey[t])
              [] OTHER -> poly_step(before, ctx.polykey[t], Nh(part(j), ctx, t))
  IN  l3hash(c[count], ctx.l3key[t], 8 * (Len(m) % NhBytes))
vhash(m, ctx) == <<VhashHalf(m, ctx, 1), VhashHalf(m, ctx, 2)>>

(* The end of vmac, the authenticator of the published vectors: the two       *)
(* halves of the hash are masked by the encrypted nonce.                      *)
vmac(h, nonce, ctx) ==
  LET pad == BigEndian(aes_encryption(nonce, ctx.cipher_key), 8)
  IN  Reverse8(Add(h[1], pad[1])) \o Reverse8(Add(h[2], pad[2]))
=============================================================================
