------------------------------ MODULE HashObjects ----------------------------
(* The hash objects of SREP/hashes.cpp.  The compressor seeds an object with  *)
(* random bytes and stores them in the archive header, the decompressor makes *)
(* its own object from the stored seed; each then hashes the blocks it meets, *)
(* in its own order.  The operands let the word arithmetic of vmac.c be       *)
(* checked on its own, at values no short text reaches.                       *)
EXTENDS KeyedHashes

CONSTANTS
  Seeds,     \* records [alg, key]: the algorithm and the seed of the header
  Texts,     \* the blocks hashed
  MaxCalls,  \* bound on the blocks hashed by the two sides together
  Operands   \* records [op, ...]: arguments of poly_step, l3hash and AES

VARIABLES
  seed,      \* the algorithm and the seed of the run
  object,    \* the object of each side, NULL before it is made
  sums,      \* the checksums computed: <<side, block, checksum>>
  operands,  \* the arguments of the arithmetic
  result     \* its result
objectVars == <<seed, object, sums, operands, result>>

(* vhash_update takes a number of whole NH blocks, and a text is bytes. *)
ASSUME ObjectsAssumption == NhBytes \in Nat \ {0} /\ Texts \subseteq Seq(Byte)

Sides == {"compressor", "decompressor"}
NULL == [alg |-> "none"]
NoOperands == [op |-> "none"]

ObjectIdle == /\ seed = NULL /\ object = [side \in Sides |-> NULL] /\ sums = <<>>
              /\ operands = NoOperands /\ result = <<>>
ObjectInit == /\ object = [side \in Sides |-> NULL] /\ sums = <<>> /\ result = <<>>
              /\ \/ seed \in Seeds /\ operands = NoOperands
                 \/ seed = NULL /\ operands \in Operands

(* new_vhash, new_siphash.  VHash::init with a seed sets the key in two steps *)
(* here, the round keys first; it leaves the running hash at the poly key.    *)
(* (compute_vhash calls it with no seed: the key is there and stays.)         *)
new_vhash(ctx) == [alg |-> "vmac", ctx |-> ctx, polytmp |-> ctx.polykey, first |-> FALSE]
new_siphash(key) == [alg |-> "siphash", key |-> key]
New(side) ==
  /\ seed # NULL /\ object[side] = NULL
  /\ side = "decompressor" => object["compressor"].alg # "none"
  /\ object' = [object EXCEPT ![side] =
                  IF seed.alg = "vmac"
                  THEN [alg |-> "none", cipher_key |-> aes_key_setup(seed.key)]
                  ELSE new_siphash(seed.key)]
  /\ UNCHANGED <<seed, sums, operands, result>>
SetKey(side) ==
  /\ object[side] # NULL /\ object[side].alg = "none"
  /\ object' = [object EXCEPT ![side] = new_vhash(vmac_set_key(object[side].cipher_key))]
  /\ UNCHANGED <<seed, sums, operands, result>>

(* vhash_update: whole NH blocks of the text, the first is added to the key,  *)
(* the others are poly_steps; the running hash stays in the context.          *)
Blocks(m) == Cut(m, NhBytes)
UpdateHalf(h, m, t) ==
  LET start == IF h.first THEN 0 ELSE 1
      c[j \in start .. Len(Blocks(m))] ==
        LET before == c[j - 1]
        IN  CASE j = 0 -> h.polytmp[t]
              [] j = 1 /\ ~h.first -> Add(Nh(Blocks(m)[1], h.ctx, t), h.polytmp[t])
              [] OTHER -> poly_step(before, h.ctx.polykey[t], Nh(Blocks(m)[j], h.ctx, t))
  IN  c[Len(Blocks(m))]
vhash_update(h, m) ==
  [h EXCEPT !.polytmp = <<UpdateHalf(h, m, 1), UpdateHalf(h, m, 2)>>, !.first = TRUE]

(* vhash of the rest of a text some blocks of which went through update. *)
RestHalf(h, m, t) ==
  LET done == UpdateHalf(h, m, t)
      rest == SubSeq(m, NhBytes * Len(Blocks(m)) + 1, Len(m))
      c == IF Blocks(m) = <<>> THEN h.polytmp[t] ELSE done
  IN  l3hash(IF rest = <<>> THEN c
             ELSE poly_step(c, h.ctx.polykey[t], Nh(rest, h.ctx, t)),
             h.ctx.l3key[t], 8 * Len(rest))
VhashOf(h, m) == IF h.first THEN <<RestHalf(h, m, 1), RestHalf(h, m, 2)>>
                 ELSE vhash(m, h.ctx)

\* Mutant: the first block stays marked as seen
VhashAbortHalf(h) == [h EXCEPT !.polytmp = h.ctx.polykey]

vhash_abort(h) == [h EXCEPT !.polytmp = h.ctx.polykey, !.first = FALSE]

(* compute_vhash (VHash::compute) and compute_siphash: hash one block.  With  *)
(* n > 0 the first n bytes, whole NH blocks, go through vhash_update before.  *)
Compute(side, m, n) ==
  LET h == object[side]
      begun == IF n = 0 THEN h ELSE vhash_update(h, SubSeq(m, 1, n))
  IN  /\ h.alg # "none" /\ Len(sums) < MaxCalls
      /\ IF seed.alg = "vmac"
         THEN /\ n % NhBytes = 0
              /\ sums' = Append(sums, <<side, m, VhashOf(begun, SubSeq(m, n + 1, Len(m)))>>)
              /\ object' = [object EXCEPT ![side] = vhash_abort(begun)]
         ELSE /\ n = 0
              /\ sums' = Append(sums, <<side, m, siphash(object[side].key, m)>>)
              /\ UNCHANGED object
      /\ UNCHANGED <<seed, operands, result>>

(* One call of the arithmetic. *)
Calculate ==
  /\ operands # NoOperands /\ result = <<>>
  /\ result' = CASE operands.op = "poly_step" -> poly_step(operands.a, operands.k, operands.m)
              [] operands.op = "l3hash" -> l3hash(operands.p, operands.keys, operands.len)
              [] operands.op = "aes" -> aes_encryption(operands.text, aes_key_setup(operands.key))
  /\ UNCHANGED <<seed, object, sums, operands>>

ObjectNext == \/ \E side \in Sides : New(side) \/ SetKey(side)
              \/ \E side \in Sides, m \in Texts :
                   \E n \in {NhBytes * j : j \in 0 .. (Len(m) \div NhBytes)} :
                     Compute(side, m, n)
              \/ Calculate
ObjectSpec == ObjectInit /\ [][ObjectNext]_objectVars

-----------------------------------------------------------------------------
(* The two sides compute the same checksum for the same block, whatever each  *)
(* of them hashed before it and in whatever order, and whether whole NH       *)
(* blocks of it went through vhash_update: nothing is carried from one block  *)
(* to the next in the shared object, and no padding depends on it.            *)
SidesAgree ==
  \A x \in DOMAIN sums, y \in DOMAIN sums :
    sums[x][2] = sums[y][2] => sums[x][3] = sums[y][3]

(* Values modulo 2^127 - 1 and 2^64 - 257, by the definition of the paper the *)
(* hash comes from, computed without the code's shortcuts.                    *)
p127 == Mask([j \in 1 .. 16 |-> 255], 127)
Fold127(x) == Add(Mask(Resize(x, 16), 127) \o Zeros(Len(x) - 16), Shr(x, 127))
Mod127(x) == LET y == Resize(Fold127(Fold127(Fold127(Resize(x, 34)))), 16)
             IN  IF y = p127 THEN Zeros(16) ELSE y
Fold64(x) == Add(SubSeq(x, 1, 8) \o Zeros(12),
                 Resize(Product(Resize(SubSeq(x, 9, 20), 20), Word(257, 20)), 20))
Mod64(x) == LET y == Fold64(Fold64(Fold64(Fold64(Resize(x, 20)))))
                z == Resize(y, 8)
            IN  IF Below(z, p64) THEN z ELSE Sub(z, p64)

AtMost(x, y) == ~Below(y, x)
Quotient(p, d) ==
  LET q0 == Resize(High(p), 16)
      near == Add(q0, Shr(q0, 32))
      c(j) == Add(near, Word(j, 16))
      times(x) == Resize(Product(x, d), 17)
  IN  CHOOSE q \in {c(j) : j \in 0 .. 2} :
        /\ AtMost(times(q), Resize(p, 17))
        /\ Below(Resize(p, 17), times(Add(q, Word(1, 16))))
L3Defined(p, k, len) ==
  LET d == Join(Zeros(8), Hex("ffffffff00000000"))
      whole == Mod127(Add(Resize(p, 17), Zeros(8) \o Word(len, 9)))
      quo == Quotient(whole, d)
      rem == Sub(whole, Resize(Product(quo, d), 16))
      x == Mod64(Add(Resize(quo, 17), Resize(k[1], 17)))
      y == Mod64(Add(Resize(rem, 17), Resize(k[2], 17)))
  IN  Mod64(Product(x, y))

(* The polynomial step is a * k + m modulo 2^127 - 1 and the last stage is    *)
(* the definition's, at the values where the carries, the two moduli and the  *)
(* length meet: the shortcuts of the code lose no carry.                      *)
ArithmeticExact ==
  result # <<>> =>
    /\ operands.op = "poly_step" =>
         Mod127(result)
         = Mod127(Add(Resize(Product(operands.a, operands.k), 34), Resize(operands.m, 34)))
    /\ operands.op = "l3hash" =>
         result = L3Defined(operands.p, operands.keys, operands.len)
=============================================================================
