---------------------------- MODULE StripeOrder ----------------------------
(***************************************************************************)
(* What content-defined chunking promises, whatever the number of threads: *)
(* the stripes of a block are searched for matches in their order, each    *)
(* with its own chunk boundaries and hashes, as one thread would do it.    *)
(***************************************************************************)
EXTENDS Naturals, Sequences

VARIABLES blocks,    \* number of stripes in each block of the input
          searched,  \* <<block, stripe>> pairs searched, in order
          over       \* everything was searched, and the threads are gone

vars == <<blocks, searched, over>>

\* The stripe after <<b, s>>: the next of its block, or the first of the next block
After(b, s) == IF s < blocks[b] THEN <<b, s + 1>> ELSE <<b + 1, 1>>

\* The stripe whose turn it is
Following ==
  IF searched = <<>> THEN <<1, 1>>
  ELSE LET last == searched[Len(searched)] IN After(last[1], last[2])

AllSearched == Following = <<Len(blocks) + 1, 1>>

Init == blocks \in Seq(Nat \ {0}) /\ searched = <<>> /\ over = FALSE

Search ==
  /\ ~AllSearched
  /\ searched' = Append(searched, Following)
  /\ UNCHANGED <<blocks, over>>

Finish ==
  /\ AllSearched /\ ~over
  /\ over' = TRUE
  /\ UNCHANGED <<blocks, searched>>

Next == Search \/ Finish

Spec == Init /\ [][Next]_vars
=============================================================================
