--------------------------- MODULE MessageDigests ----------------------------
(* MD5, SHA-1 and SHA-512 as LibTomCrypt computes them: a state of words, a   *)
(* buffer of the bytes that do not fill a block yet, and the length of the    *)
(* blocks already compressed.  md5.c, sha1.c, sha2/sha512.c; the loop over    *)
(* the input is the macro HASH_PROCESS of headers/tomcrypt_hash.h.  A step of *)
(* the model is one iteration of that loop or one round of a compression.     *)
EXTENDS Words, SequencesExt

CONSTANTS
  Jobs     \* the texts to hash: records [h, text, pieces], the pieces of the text

VARIABLES
  job,     \* the job
  pieces,  \* the input not processed yet, one element per call of ..._process
  md,      \* hash_state: state, buf (its curlen bytes), length
  at,      \* where the code is: "process", "rounds", "close", "out"
  back,    \* where it is when the block is compressed
  W,       \* the words of the block, expanded
  work,    \* the working variables a, b, c, ...
  step,    \* the round
  blocks   \* every block compressed so far
digestVars == <<job, pieces, md, at, back, W, work, step, blocks>>

(* Constants of the three functions, in the order of their use. *)
block_size == [md5 |-> 64, sha1 |-> 64, sha512 |-> 128]
Rounds == [md5 |-> 64, sha1 |-> 80, sha512 |-> 80]
Korder == BigEndian(Bytes(
  "d76aa478e8c7b756242070dbc1bdceeef57c0faf4787c62aa8304613fd469501" \o
  "698098d88b44f7afffff5bb1895cd7be6b901122fd987193a679438e49b40821" \o
  "f61e2562c040b340265e5a51e9b6c7aad62f105d02441453d8a1e681e7d3fbc8" \o
  "21e1cde6c33707d6f4d50d87455a14eda9e3e905fcefa3f8676f02d98d2a4c8a" \o
  "fffa39428771f6816d9d6122fde5380ca4beea444bdecfa9f6bb4b60bebfbc70" \o
  "289b7ec6eaa127fad4ef308504881d05d9d4d039e6db99e51fa27cf8c4ac5665" \o
  "f4292244432aff97ab9423a7fc93a039655b59c38f0ccc92ffeff47d85845dd1" \o
  "6fa87e4ffe2ce6e0a30143144e0811a1f7537e82bd3af2352ad7d2bbeb86d391"), 4)
Worder == <<0, 1, 2, 3, 4, 5, 6, 7, 8, 9, 10, 11, 12, 13, 14, 15,
            1, 6, 11, 0, 5, 10, 15, 4, 9, 14, 3, 8, 13, 2, 7, 12,
            5, 8, 11, 14, 1, 4, 7, 10, 13, 0, 3, 6, 9, 12, 15, 2,
            0, 7, 14, 5, 12, 3, 10, 1, 8, 15, 6, 13, 4, 11, 2, 9>>
Rorder == <<<<7, 12, 17, 22>>, <<5, 9, 14, 20>>, <<4, 11, 16, 23>>, <<6, 10, 15, 21>>>>
RoundConstant == BigEndian(Bytes("5a8279996ed9eba18f1bbcdcca62c1d6"), 4)
K == BigEndian(Bytes(
  "428a2f98d728ae227137449123ef65cdb5c0fbcfec4d3b2fe9b5dba58189dbbc" \o
  "3956c25bf348b53859f111f1b605d019923f82a4af194f9bab1c5ed5da6d8118" \o
  "d807aa98a303024212835b0145706fbe243185be4ee4b28c550c7dc3d5ffb4e2" \o
  "72be5d74f27b896f80deb1fe3b1696b19bdc06a725c71235c19bf174cf692694" \o
  "e49b69c19ef14ad2efbe4786384f25e30fc19dc68b8cd5b5240ca1cc77ac9c65" \o
  "2de92c6f592b02754a7484aa6ea6e4835cb0a9dcbd41fbd476f988da831153b5" \o
  "983e5152ee66dfaba831c66d2db43210b00327c898fb213fbf597fc7beef0ee4" \o
  "c6e00bf33da88fc2d5a79147930aa72506ca6351e003826f142929670a0e6e70" \o
  "27b70a8546d22ffc2e1b21385c26c9264d2c6dfc5ac42aed53380d139d95b3df" \o
  "650a73548baf63de766a0abb3c77b2a881c2c92e47edaee692722c851482353b" \o
  "a2bfe8a14cf10364a81a664bbc423001c24b8b70d0f89791c76c51a30654be30" \o
  "d192e819d6ef5218d69906245565a910f40e35855771202a106aa07032bbd1b8" \o
  "19a4c116b8d2d0c81e376c085141ab532748774cdf8eeb9934b0bcb5e19b48a8" \o
  "391c0cb3c5c95a634ed8aa4ae3418acb5b9cca4f7763e373682e6ff3d6b2b8a3" \o
  "748f82ee5defb2fc78a5636f43172f6084c87814a1f0ab728cc702081a6439ec" \o
  "90befffa23631e28a4506cebde82bde9bef9a3f7b2c67915c67178f2e372532b" \o
  "ca273eceea26619cd186b8c721c0c207eada7dd6cde0eb1ef57d4f7fee6ed178" \o
  "06f067aa72176fba0a637dc5a2c898a6113f9804bef90dae1b710b35131c471b" \o
  "28db77f523047d8432caab7b40c724933c9ebe0a15c9bebc431d67c49c100d4c" \o
  "4cc5d4becb3e42b6597f299cfc657e2a5fcb6fab3ad6faec6c44198c4a475817"), 8)

(* state, as md5_init, sha1_init and sha512_init set it. *)
Md5State == BigEndian(Bytes("67452301efcdab8998badcfe10325476"), 4)
Sha1State == BigEndian(Bytes("67452301efcdab8998badcfe10325476c3d2e1f0"), 4)
Sha512State == BigEndian(Bytes("6a09e667f3bcc908bb67ae8584caa73b3c6ef372fe94f82ba54ff53a5f1d36f1" \o
                               "510e527fade682d19b05688c2b3e6c1f1f83d9abfb41bd6b5be0cd19137e2179"), 8)
InitialState == [md5 |-> Md5State, sha1 |-> Sha1State, sha512 |-> Sha512State]

(* The boolean functions of the rounds. *)
Choose(x, y, z) == Xor(z, And(x, Xor(y, z)))
Majority(x, y, z) == Or(And(x, y), And(z, Or(x, y)))
Parity(x, y, z) == Xor(Xor(x, y), z)
NotParity(x, y, z) == Xor(y, Or(x, Not(z)))

Add3(x, y, z) == Add(Add(x, y), z)
AddEach(x, y) == Tuple([k \in DOMAIN x |-> Add(x[k], y[k])])

(* One round of md5_compress: the four variables move one place. *)
Md5Round ==
  LET mix == CASE step \div 16 = 0 -> Choose(work[2], work[3], work[4])
               [] step \div 16 = 1 -> Choose(work[4], work[2], work[3])
               [] step \div 16 = 2 -> Parity(work[2], work[3], work[4])
               [] step \div 16 = 3 -> NotParity(work[2], work[3], work[4])
      sum == Add3(Add(work[1], mix), W[Worder[step + 1] + 1], Korder[step + 1])
      turn == Rorder[(step \div 16) + 1][(step % 4) + 1]
  IN  <<work[4], Add(ROL(sum, turn), work[2]), work[2], work[3]>>

(* One round of sha1_compress, and the words its block is expanded to. *)
Sha1Round ==
  LET mix == CASE step \div 20 = 0 -> Choose(work[2], work[3], work[4])
               [] step \div 20 \in {1, 3} -> Parity(work[2], work[3], work[4])
               [] step \div 20 = 2 -> Majority(work[2], work[3], work[4])
  IN  <<Add3(Add3(ROL(work[1], 5), mix, work[5]),
             W[step + 1], RoundConstant[(step \div 20) + 1]),
        work[1], ROL(work[2], 30), work[3], work[4]>>
Sha1Word(w, k) == ROL(Xor(Xor(w[k - 3], w[k - 8]), Xor(w[k - 14], w[k - 16])), 1)

(* One round of sha512_compress, and the words its block is expanded to. *)
Sigma0(x) == Parity(ROR(x, 28), ROR(x, 34), ROR(x, 39))
Sigma1(x) == Parity(ROR(x, 14), ROR(x, 18), ROR(x, 41))
Gamma0(x) == Parity(ROR(x, 1), ROR(x, 8), Shr(x, 7))
Gamma1(x) == Parity(ROR(x, 19), ROR(x, 61), Shr(x, 6))
Sha512Round ==
  LET t0 == Add3(Add3(work[8], Sigma1(work[5]), Choose(work[5], work[6], work[7])),
                 K[step + 1], W[step + 1])
      t1 == Add(Sigma0(work[1]), Majority(work[1], work[2], work[3]))
  IN  <<Add(t0, t1), work[1], work[2], work[3],
        Add(work[4], t0), work[5], work[6], work[7]>>
Sha512Word(w, k) ==
  Add(Add3(Gamma1(w[k - 2]), w[k - 7], Gamma0(w[k - 15])), w[k - 16])

Expanded(h, buf) ==
  LET words == IF h = "md5" THEN Cut(buf, 4) ELSE BigEndian(buf, block_size[h] \div 16)
      w[k \in 16 .. Rounds[h]] ==
        LET before == w[k - 1]
            next == IF h = "sha1" THEN Sha1Word(before, k) ELSE Sha512Word(before, k)
        IN  IF k = 16 THEN words ELSE Append(before, next)
  IN  IF h = "md5" THEN words ELSE w[Rounds[h]]

(* The caller gives one text, cut as it likes. *)
ASSUME DigestAssumption ==
  \A j \in Jobs :
    /\ j.h \in DOMAIN block_size
    /\ j.text \in Seq(Byte) /\ j.pieces \in Seq(Seq(Byte))
    /\ FlattenSeq(j.pieces) = j.text

-----------------------------------------------------------------------------
(* md5_init, sha1_init, sha512_init; no digest is computed when idle. *)
DigestIdle ==
  /\ job = [h |-> "none"] /\ pieces = <<>> /\ md = <<>>
  /\ at = "idle" /\ back = "idle"
  /\ W = <<>> /\ work = <<>> /\ step = 0 /\ blocks = <<>>
DigestInit ==
  /\ job \in Jobs
  /\ pieces = job.pieces
  /\ md = [state |-> InitialState[job.h], buf |-> <<>>, length |-> 0]
  /\ at = "process" /\ back = "process"
  /\ W = <<>> /\ work = <<>> /\ step = 0 /\ blocks = <<>>

(* The compression function is called on a block, and returns to `to`. *)
Compress(block, to) ==
  /\ W' = Expanded(job.h, block)
  /\ work' = md.state
  /\ step' = 0
  /\ at' = "rounds" /\ back' = to
  /\ blocks' = Append(blocks, block)

(* md5_process, sha1_process, sha512_process: whole blocks are compressed     *)
(* where they lie when the buffer is empty, anything else goes through the    *)
(* buffer, which is compressed when it is full.                               *)
Taken == LET room == block_size[job.h] - Len(md.buf)
         IN  IF Len(pieces[1]) < room THEN Len(pieces[1]) ELSE room
Process ==
  /\ at = "process" /\ pieces # <<>>
  /\ pieces' = IF Taken = Len(pieces[1]) THEN Tail(pieces)
               ELSE <<SubSeq(pieces[1], Taken + 1, Len(pieces[1]))>> \o Tail(pieces)
  /\ LET buf == md.buf \o SubSeq(pieces[1], 1, Taken)
     IN  IF Len(buf) = block_size[job.h]
         THEN /\ Compress(buf, "process")
              /\ md' = [md EXCEPT !.buf = <<>>, !.length = @ + 8 * block_size[job.h]]
         ELSE /\ md' = [md EXCEPT !.buf = buf]
              /\ UNCHANGED <<W, work, step, at, back, blocks>>
  /\ UNCHANGED job

(* One round of the compression, and the sums after the last. *)
Round ==
  /\ at = "rounds" /\ step < Rounds[job.h]
  /\ work' = CASE job.h = "md5" -> Md5Round
            [] job.h = "sha1" -> Sha1Round
            [] job.h = "sha512" -> Sha512Round
  /\ step' = step + 1
  /\ UNCHANGED <<job, pieces, md, at, back, W, blocks>>
Feedback ==
  /\ at = "rounds" /\ step = Rounds[job.h]
  /\ md' = [md EXCEPT !.state = AddEach(@, work)]
  /\ at' = back
  /\ W' = <<>> /\ work' = <<>> /\ step' = 0
  /\ UNCHANGED <<job, pieces, back, blocks>>

(* md5_done, sha1_done, sha512_done: a 1 bit, then zeros up to the length in  *)
(* bits at the end of the block, which has a block of its own when there is   *)
(* no room for it.                                                            *)
LengthAt(h) == IF h = "sha512" THEN 112 ELSE 56

\* Mutant: a full place for the length counts as taken
SpillsEarly(n) == n >= LengthAt(job.h)

Spills(n) == n > LengthAt(job.h)
Padded(buf, bits) ==
  buf \o Zeros(block_size[job.h] - 8 - Len(buf))
      \o (IF job.h = "md5" THEN Word(bits, 8) ELSE Reverse8(Word(bits, 8)))
Done ==
  /\ at = "process" /\ pieces = <<>>
  /\ LET one == md.buf \o <<128>>
         bits == md.length + 8 * Len(md.buf)
     IN  /\ IF Spills(Len(one))
            THEN Compress(one \o Zeros(block_size[job.h] - Len(one)), "close")
            ELSE Compress(Padded(one, bits), "out")
         /\ md' = [md EXCEPT !.buf = <<>>, !.length = bits]
  /\ UNCHANGED <<job, pieces>>
Close ==
  /\ at = "close"
  /\ Compress(Padded(<<>>, md.length), "out")
  /\ UNCHANGED <<job, pieces, md>>

\* Mutant: all digests have the byte order of MD5
DigestLittleEndian == Concat(md.state)

Digest == Concat(IF job.h = "md5" THEN md.state
                 ELSE [k \in DOMAIN md.state |-> Reverse8(md.state[k])])
DigestNext == Process \/ Round \/ Feedback \/ Done \/ Close
DigestSpec == DigestInit /\ [][DigestNext]_digestVars

-----------------------------------------------------------------------------
(* What the standards define: the text, a 1 bit, the fewest zeros that leave  *)
(* room for the length at the end of a block, and the length in bits.         *)
PaddedText(h, text) ==
  LET n == Len(text)
      size == block_size[h]
      room == IF h = "sha512" THEN 16 ELSE 8
      zeros == CHOOSE z \in 0 .. (size - 1) : (n + 1 + z + room) % size = 0
      bits == IF h = "md5" THEN Word(8 * n, room) ELSE Reverse8(Word(8 * n, room))
  IN  text \o <<128>> \o Zeros(zeros) \o bits

(* However the text is cut into calls of ..._process, the blocks compressed   *)
(* are, in order, those of the padded text, all of them when the digest is    *)
(* ready: the buffer, the direct path and the padding in one or two blocks    *)
(* lose, repeat or shift no byte at any length.  (Later rounds add no block.) *)
BlocksOfText ==
  job.h \in DOMAIN block_size /\ step = 0 =>
    LET all == Cut(PaddedText(job.h, job.text), block_size[job.h])
    IN  IF at = "out" THEN blocks = all ELSE blocks = SubSeq(all, 1, Len(blocks))
=============================================================================
