------------------------- MODULE MCDecompressDriver -------------------------
(* Instances of DecompressDriver: archives of up to three blocks with up to   *)
(* two matches, sound ones for each way of calling, broken headers for one.   *)
EXTENDS DecompressDriver

MCBufsize == 2

MCMatches(n) ==
  {ms \in SUBSET [src : 1 .. n, dest : 1 .. n, len : 1 .. MCBufsize] :
     /\ Cardinality(ms) <= 2
     /\ \A m \in ms : m.src < m.dest
     /\ \A m, o \in ms : m.src = o.src /\ m.dest = o.dest => m = o}

Archive(v, sig, seed, hash, n, ms) ==
  [version |-> v, signature |-> sig, seed |-> seed, hash |-> hash, blocks |-> n,
   matches |-> ms]

MCArchives ==
  {Archive(v, TRUE, TRUE, "known", 3, ms) : v \in 1 .. 4, ms \in MCMatches(3)}
    \cup {Archive(v, TRUE, seed, h, n, {}) : v \in 2 .. 4, seed \in BOOLEAN, n \in 0 .. 1,
                                           h \in {"known", "not saved", "unknown", "too long"}}
    \cup {Archive(v, sig, TRUE, "known", 1, {}) : v \in {0, 1, 4, 5}, sig \in BOOLEAN}

Call(e, s, c, max, i, m) ==
  [entry |-> e, seekable |-> s, check |-> c, maximum_save |-> max, info |-> i,
   main |-> m, delete |-> m]

\* The program writes to a file or to stdout, a caller to a file, to memory or
\* through callbacks
MCCalls ==
  {Call("FILE", FALSE, c, max, FALSE, TRUE) : c \in BOOLEAN, max \in 2 .. 3}
    \cup {Call("FILE -", FALSE, TRUE, max, FALSE, TRUE) : max \in 2 .. 3}
    \cup {Call("mem2mem", s, TRUE, max, FALSE, FALSE) : s \in BOOLEAN, max \in 2 .. 3}
    \cup {Call("callbacks", TRUE, c, 2, FALSE, FALSE) : c \in BOOLEAN}
    \cup {Call("mem", TRUE, TRUE, 2, FALSE, FALSE)}
    \cup {Call("FILE", FALSE, TRUE, max, TRUE, TRUE) : max \in 2 .. 3}
=============================================================================
