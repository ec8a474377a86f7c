------------------------------- MODULE Fortuna --------------------------------
(* cryptographic_prng of SREP/hashes.cpp and the Fortuna generator under it   *)
(* (prngs/fortuna.c): entropy is dealt out to pools, reseeding folds the      *)
(* pools that are due into the key, reading encrypts a counter.  SHA-512 and  *)
(* AES are symbols here (MessageDigests and KeyedHashes compute them): a key  *)
(* is the sequence of the steps it was derived in, from the zero key on.      *)
EXTENDS Naturals, Sequences, FiniteSets

CONSTANTS
  Pools,         \* LTC_FORTUNA_POOLS
  WD,            \* LTC_FORTUNA_WD: reads between two reseeds
  SystemRandom,  \* what systemRandomData may return: the bytes read
  ReadSizes,     \* bytes asked of cryptographic_prng
  MaxReads       \* bound on the calls

ASSUME FortunaAssumption ==
  /\ Pools \in Nat \ {0} /\ WD \in Nat \ {0} /\ MaxReads \in Nat
  /\ SystemRandom \subseteq Nat /\ ReadSizes \subseteq Nat

VARIABLES
  fortuna,      \* the prng_state
  initialized,  \* static flag of cryptographic_prng
  chunks,       \* history: reset_cnt when each piece of entropy arrived
  produced,     \* history: the blocks given to the caller
  reads         \* number of calls so far
fortunaVars == <<fortuna, initialized, chunks, produced, reads>>

HASH_SIZE == 64
BLOCK_SIZE == 16
TimeSize == 8

(* fortuna_start *)
Started == [pool |-> [x \in 0 .. (Pools - 1) |-> <<>>], pool_idx |-> 0, pool0_len |-> 0,
            wd |-> 0, reset_cnt |-> 0, K |-> <<>>, IV |-> 0]
FortunaInit == /\ fortuna = Started /\ initialized = FALSE /\ chunks = <<>>
               /\ produced = <<>> /\ reads = 0

(* fortuna_add_entropy: pieces of at most HASH_SIZE bytes, an empty input is  *)
(* one empty piece; each goes to the next pool.  Pieces are numbered.         *)
Pieces(size) == IF size = 0 THEN 1 ELSE (size + HASH_SIZE - 1) \div HASH_SIZE
fortuna_add_entropy(f, first, size) ==
  LET count == Pieces(size)
      length(j) == IF j < count THEN HASH_SIZE ELSE size - HASH_SIZE * (count - 1)
      part(j) == IF (f.pool_idx + j - 1) % Pools = 0 THEN length(j) ELSE 0
      sum[j \in 0 .. count] == IF j = 0 THEN 0 ELSE sum[j - 1] + part(j)
      before(x) == (x - f.pool_idx) % Pools   \* pieces that go to other pools before
      dealt(x) == [m \in 1 .. (count - before(x) + Pools - 1) \div Pools |->
                     first + before(x) + (m - 1) * Pools + 1]
  IN  [f EXCEPT
        !.pool = [x \in DOMAIN @ |-> @[x] \o dealt(x)],
        !.pool0_len = @ + sum[count],
        !.pool_idx = (@ + count) % Pools]

(* fortuna_reseed: pool 0 always, pool x when the x low bits of the counter   *)
(* are 0; the first pool that is not due ends the loop.                       *)
Due(x, count) == x = 0 \/ (count \div 2^(x - 1)) % 2 = 0
ResetPool(pool) == <<>>
Reseeding(pool, drained) ==
  LET s[x \in DOMAIN pool] == (IF x = 0 THEN <<>> ELSE s[x - 1])
                              \o (IF x \in drained THEN pool[x] ELSE <<>>)
  IN  [kind |-> "sha512", iv |-> 0, entropy |-> s[Pools - 1]]
fortuna_reseed(f) ==
  LET count == f.reset_cnt + 1
      drained == {x \in DOMAIN f.pool : \A y \in 0 .. x : Due(y, count)}
  IN  [f EXCEPT !.reset_cnt = count,
                !.K = Append(@, Reseeding(f.pool, drained)),
                !.pool = [x \in DOMAIN @ |-> IF x \in drained THEN ResetPool(@[x]) ELSE @[x]],
                !.IV = @ + 1, !.pool0_len = 0, !.wd = 0]

(* fortuna_read: reseed when it is time, encrypt the counter for the whole    *)
(* blocks and the rest, then two more blocks are the next key.                *)
Encrypted(f, iv) == <<f.K, iv>>
NewKey(iv) == [kind |-> "aes", iv |-> iv, entropy |-> <<>>]
Produced(size) == (size + BLOCK_SIZE - 1) \div BLOCK_SIZE

\* Mutant: the rest of a read does not count
AdvancedWhole(size) == size \div BLOCK_SIZE

Advanced(size) == Produced(size)
fortuna_read(f, size) ==
  LET counted == [f EXCEPT !.wd = @ + 1]
      g == IF counted.wd = WD \/ counted.pool0_len >= 64 THEN fortuna_reseed(counted)
           ELSE counted
      n == Advanced(size)
  IN  [prng |-> [g EXCEPT !.K = Append(@, NewKey(g.IV + n)), !.IV = @ + n + 2],
       out |-> [j \in 1 .. Produced(size) |-> Encrypted(g, g.IV + j - 1)]]

(* The first call starts the generator with what the system gives and the     *)
(* time, every call reads.                                                    *)
cryptographic_prng(size) ==
  /\ reads < MaxReads
  /\ reads' = reads + 1
  /\ initialized' = TRUE
  /\ \E got \in IF initialized THEN {0} ELSE SystemRandom :
       LET random == fortuna_add_entropy(Started, 0, got)
           begun == IF initialized THEN fortuna
                    ELSE fortuna_reseed(fortuna_add_entropy(random, Pieces(got), TimeSize))
           read == fortuna_read(begun, size)
       IN  /\ chunks' = IF initialized THEN chunks ELSE [n \in 1 .. (Pieces(got) + 1) |-> 0]
           /\ fortuna' = read.prng
           /\ produced' = produced \o read.out

FortunaNext == \E size \in ReadSizes : cryptographic_prng(size)
FortunaSpec == FortunaInit /\ [][FortunaNext]_fortunaVars

-----------------------------------------------------------------------------
(* Pool x gives what it holds to every 2^x-th key and to no other: a piece of *)
(* entropy, dealt to the pools in turn, stays in its pool until the first     *)
(* reseed after its arrival whose number 2^x divides, and goes into exactly   *)
(* one key there: no pool is drained early, starved or folded in twice.       *)
Folded(n) == {e \in (DOMAIN fortuna.K) \X (DOMAIN chunks) :
                LET entropy == fortuna.K[e[1]].entropy
                IN  e[2] \in DOMAIN entropy /\ entropy[e[2]] = n}
PoolSchedule ==
  \A n \in DOMAIN chunks :
    LET x == (n - 1) % Pools
        due == \E r \in (chunks[n] + 1) .. fortuna.reset_cnt : r % 2^x = 0
    IN  /\ \A y \in DOMAIN fortuna.pool :
             (\E j \in DOMAIN fortuna.pool[y] : fortuna.pool[y][j] = n) <=> (y = x /\ ~due)
        /\ Cardinality(Folded(n)) = IF due THEN 1 ELSE 0

(* No two blocks given out are the encryption of one counter under one key,   *)
(* and none of them is a half of the next key: no seed of a hash repeats      *)
(* another and none is what later seeds are made with.  And every piece of    *)
(* the system's randomness is in the keys as PoolSchedule has it.              *)
KeyHalf(k, half) == <<SubSeq(fortuna.K, 1, k - 1), fortuna.K[k].iv + half>>
SeedsFresh ==
  /\ PoolSchedule
  /\ \A x, y \in DOMAIN produced : produced[x] = produced[y] => x = y
  /\ \A k \in DOMAIN fortuna.K : fortuna.K[k].kind = "aes" =>
       \A x \in DOMAIN produced, half \in 0 .. 1 : produced[x] # KeyHalf(k, half)
=============================================================================
