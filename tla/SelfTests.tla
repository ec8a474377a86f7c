------------------------------ MODULE SelfTests ------------------------------
(* The tables of the self-tests in the sources of the hash functions: texts   *)
(* and what the functions must make of them.  srep does not build or call     *)
(* these tests; the property KnownAnswers checks the models by them.  What    *)
(* ECB_TEST says of decryption is left out: no decryption is built.           *)
EXTENDS MessageDigests, HashObjects

Ascii(s) ==
  LET code(c) ==
        LET among(first, letters) ==
              {first + j - 1 : j \in {n \in 1 .. Len(letters) : SubSeq(letters, n, n) = c}}
        IN  CHOOSE v \in among(32, " ") \union among(48, "0123456789")
                         \union among(65, "ABCDEFGHIJKLMNOPQRSTUVWXYZ")
                         \union among(97, "abcdefghijklmnopqrstuvwxyz") : TRUE
  IN  Tuple([j \in 1 .. Len(s) |-> code(SubSeq(s, j, j))])

Test(h, message, digest) == [h |-> h, text |-> Ascii(message), answer |-> Bytes(digest)]

md5_test == {
  Test("md5", "", "d41d8cd98f00b204e9800998ecf8427e"),
  Test("md5", "a", "0cc175b9c0f1b6a831c399e269772661"),
  Test("md5", "abc", "900150983cd24fb0d6963f7d28e17f72"),
  Test("md5", "message digest", "f96b697d7cb7938d525a2f31aaf161d0"),
  Test("md5", "abcdefghijklmnopqrstuvwxyz", "c3fcd3d76192e4007dfb496cca67e13b"),
  Test("md5", "ABCDEFGHIJKLMNOPQRSTUVWXYZabcdefghijklmnopqrstuvwxyz0123456789",
       "d174ab98d277d9f5a5611c2c9f419d9f"),
  Test("md5", "1234567890123456789012345678901234567890" \o
              "1234567890123456789012345678901234567890", "57edf4a22be3c955ac49da2e2107b67a")}

sha1_test == {
  Test("sha1", "abc", "a9993e364706816aba3e25717850c26c9cd0d89d"),
  Test("sha1", "abcdbcdecdefdefgefghfghighijhijkijkljklmklmnlmnomnopnopq",
       "84983e441c3bd26ebaae4aa1f95129e5e54670f1")}

sha512_test == {
  Test("sha512", "abc",
       "ddaf35a193617abacc417349ae20413112e6fa4e89a97ea20a9eeee64b55d39a" \o
       "2192992a274fc1a836ba3c23a3feebbd454d4423643ce80e2a9ac94fa54ca49f"),
  Test("sha512", "abcdefghbcdefghicdefghijdefghijkefghijklfghijklmghijklmn" \o
                 "hijklmnoijklmnopjklmnopqklmnopqrlmnopqrsmnopqrstnopqrstu",
       "8e959b75dae313da8cf4f72814fc143f8f7779c6eb9f7fa17299aeadb6889018" \o
       "501d289e4900f7e4331b99dec4b5433ac7d329eeb6dd26545e96e55b874be909")}

DigestTests == md5_test \union sha1_test \union sha512_test

\* Keys of 16, 24 and 32 bytes: 0, 1, 2, ...
ECB_TEST ==
  LET Cipher(n, ct) == [key |-> Tuple([j \in 1 .. n |-> j - 1]),
                        text |-> Bytes("00112233445566778899aabbccddeeff"),
                        answer |-> Bytes(ct)]
  IN  {Cipher(16, "69c4e0d86a7b0430d8cdb78070b4c55a"),
       Cipher(24, "dda97ca4864cdfe06eaf70a0ec0d7191"),
       Cipher(32, "8ea2b7ca516745bfeafc49904b496089")}

\* The tags of "abcabc..." that main in vmac.c lists for VMAC_TAG_LEN 128, but that
\* of three million bytes.  They are for VMAC_NHBYTES = 128
should_be ==
  LET Tag(n, tag) == [key |-> Ascii("abcdefghijklmnop"),
                      nonce |-> Zeros(8) \o Ascii("bcdefghi"),
                      text |-> Tuple([j \in 1 .. n |-> 97 + ((j - 1) % 3)]),
                      answer |-> Bytes(tag)]
  IN  {Tag(0, "472766c70f74ed23481d6d7de4e80dac"), Tag(3, "4ee815a06a1d71edd36fc75d51188a42"),
       Tag(48, "09f2c80c8e1007a0c12fae19fe4504ae"), Tag(300, "66438817154850c61d8a412164803bcb")}
=============================================================================
