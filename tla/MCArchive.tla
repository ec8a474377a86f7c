----------------------------- MODULE MCArchive -----------------------------
(***************************************************************************)
(* Instances of Archive: files of three blocks, the last one shorter.      *)
(***************************************************************************)
EXTENDS Archive

File(f, r, n) == [format |-> f, round |-> r, total |-> n]

\* Index-LZ files of one block only: the others are not read correctly
MCCases == {File("io", FALSE, 10), File("io", TRUE, 10), File("future", FALSE, 10),
            File("future", TRUE, 10), File("index", FALSE, 4)}

\* Where the buffers end: files of two blocks
MCLimitCases == {File("io", FALSE, 7), File("io", TRUE, 5), File("future", FALSE, 7),
                 File("index", FALSE, 4)}

\* Three blocks, two of them copies
MCOverflowCases == {File("future", FALSE, 12)}

MCIndexCases == {File("index", FALSE, 10)}
=============================================================================
