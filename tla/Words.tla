-------------------------------- MODULE Words --------------------------------
(* The unsigned machine words the hash functions compute with: a word is the  *)
(* tuple of its bytes, the least significant first, so that 32- and 64-bit    *)
(* values keep their width and the wrapping of C.                             *)
EXTENDS Integers, Sequences

Byte == 0 .. 255

(* The tuple a function on 1 .. n stands for, with its elements computed: TLC *)
(* keeps a function constructor unevaluated, and evaluates it at every use.   *)
Tuple(f) == f \o <<>>

(* The bitwise operations of two bytes, tabulated once. *)
AndByte == [a \in Byte |-> [b \in Byte |->
              LET bit(k) == IF (a \div 2^k) % 2 = 1 /\ (b \div 2^k) % 2 = 1
                            THEN 2^k ELSE 0
              IN  bit(0) + bit(1) + bit(2) + bit(3)
                  + bit(4) + bit(5) + bit(6) + bit(7)]]
XorByte == [a \in Byte |-> [b \in Byte |-> a + b - 2 * AndByte[a][b]]]

And(x, y) == Tuple([i \in DOMAIN x |-> AndByte[x[i]][y[i]]])
Xor(x, y) == Tuple([i \in DOMAIN x |-> XorByte[x[i]][y[i]]])
Or(x, y) == Tuple([i \in DOMAIN x |-> x[i] + y[i] - AndByte[x[i]][y[i]]])
Not(x) == Tuple([i \in DOMAIN x |-> 255 - x[i]])

(* Rotations and shifts by a constant number of bits. *)
ROL(x, n) ==
  LET w == Len(x)
      from(i) == x[((i - 1 - (n \div 8) + 2 * w) % w) + 1]
  IN  Tuple([i \in 1 .. w |-> ((from(i) * 2^(n % 8)) % 256)
                              + (from(i - 1) \div 2^(8 - (n % 8)))])
ROR(x, n) == ROL(x, 8 * Len(x) - n)
Shl(x, n) ==
  LET from(i) == IF i > n \div 8 THEN x[i - (n \div 8)] ELSE 0
  IN  Tuple([i \in DOMAIN x |-> ((from(i) * 2^(n % 8)) % 256)
                                + (from(i - 1) \div 2^(8 - (n % 8)))])
Shr(x, n) ==
  LET from(i) == IF i + (n \div 8) <= Len(x) THEN x[i + (n \div 8)] ELSE 0
  IN  Tuple([i \in DOMAIN x |-> (from(i) \div 2^(n % 8))
                                + ((from(i + 1) * 2^(8 - (n % 8))) % 256)])

(* The carries of x + y + c, and the sum modulo 2^w. *)
Carries(x, y, c) ==
  LET carry[i \in 0 .. Len(x)] ==
        IF i = 0 THEN c ELSE (x[i] + y[i] + carry[i - 1]) \div 256
  IN  carry
AddCarry(x, y, c) ==
  LET carry == Carries(x, y, c)
  IN  Tuple([i \in DOMAIN x |-> (x[i] + y[i] + carry[i - 1]) % 256])
Add(x, y) == AddCarry(x, y, 0)
Sub(x, y) == AddCarry(x, Not(y), 1)
Below(x, y) == Carries(x, Not(y), 1)[Len(x)] = 0

(* Zero-extension or truncation to w bytes, small literals, and bytes read    *)
(* from the hexadecimal digits of a constant of the source.                   *)
Resize(x, w) == Tuple([i \in 1 .. w |-> IF i <= Len(x) THEN x[i] ELSE 0])
Word(n, w) ==
  Tuple([i \in 1 .. w |-> IF i <= 4 THEN (n \div 256^(i - 1)) % 256 ELSE 0])
Digit(s, i) == CHOOSE v \in 0 .. 15 : SubSeq("0123456789abcdef", v + 1, v + 1)
                                      = SubSeq(s, i, i)
Bytes(s) == Tuple([i \in 1 .. (Len(s) \div 2) |->
                     16 * Digit(s, 2 * i - 1) + Digit(s, 2 * i)])

(* Reading a word, and cutting a text into words or blocks of w bytes.        *)
Reverse8(x) == Tuple([i \in DOMAIN x |-> x[Len(x) + 1 - i]])
Cut(s, w) ==
  Tuple([i \in 1 .. (Len(s) \div w) |-> SubSeq(s, (i - 1) * w + 1, i * w)])
BigEndian(s, w) == LET words == Cut(s, w)
                   IN  Tuple([i \in DOMAIN words |-> Reverse8(words[i])])
Hex(s) == Reverse8(Bytes(s))
Concat(words) ==
  LET w == IF words = <<>> THEN 1 ELSE Len(words[1])
  IN  Tuple([i \in 1 .. (Len(words) * w) |->
               words[((i - 1) \div w) + 1][((i - 1) % w) + 1]])
Zeros(n) == Tuple([i \in 1 .. n |-> 0])

(* The whole product of two words: the column sums, then their carries. *)
Product(x, y) ==
  LET w == Len(x)
      column[k \in 0 .. (2 * w), i \in 0 .. w] ==
        IF i = 0 \/ k = 0 THEN 0
        ELSE column[k, i - 1]
             + (IF k + 1 - i \in 1 .. Len(y) THEN x[i] * y[k + 1 - i] ELSE 0)
      sums == Tuple([k \in 1 .. (2 * w) |-> column[k, w]])
      carry[k \in 0 .. (2 * w)] ==
        IF k = 0 THEN 0 ELSE (sums[k] + carry[k - 1]) \div 256
  IN  Tuple([k \in 1 .. (2 * w) |-> (sums[k] + carry[k - 1]) % 256])
=============================================================================
