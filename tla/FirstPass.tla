----------------------------- MODULE FirstPass -----------------------------
(***************************************************************************)
(* What the first compression pass promises, with its threads, slots and   *)
(* events left out: one stream of parts of blocks 0, 1, 2, ... goes to the *)
(* output files, the records of blocks 0, 1, 2, ... are kept for the second *)
(* pass, and success is reported only when nothing is missing.             *)
(***************************************************************************)
EXTENDS Integers, Sequences

VARIABLES total,     \* number of blocks in the input
          parts,     \* the parts written for each block, in order
          written,   \* parts written to the output
          kept,      \* records kept for the second pass
          result     \* "running", "ok" or "failed"

input == <<total, parts>>
vars  == <<input, written, kept, result>>

\* The n-th item of the output: a part of a block; headers carry its checksum
Item(n) ==
  LET b == (n - 1) \div Len(parts)
      p == parts[((n - 1) % Len(parts)) + 1]
  IN  [part |-> p, blk |-> b, hash |-> IF p = "header" THEN b ELSE -1]

Init ==
  /\ total \in Nat
  /\ parts \in {<<"header", "literals">>, <<"header", "stat", "literals">>}
  /\ written = <<>> /\ kept = <<>> /\ result = "running"

WritePart ==
  /\ result = "running" /\ Len(written) < total * Len(parts)
  /\ written' = Append(written, Item(Len(written) + 1))
  /\ UNCHANGED <<input, kept, result>>

KeepRecord ==
  /\ result = "running" /\ Len(kept) < total
  /\ kept' = Append(kept, Len(kept))
  /\ UNCHANGED <<input, written, result>>

\* Either sink may be unused in the chosen format, but never half used
Succeed ==
  /\ result = "running"
  /\ Len(written) \in {0, total * Len(parts)} /\ Len(kept) \in {0, total}
  /\ Len(written) + Len(kept) = 0 => total = 0
  /\ result' = "ok"
  /\ UNCHANGED <<input, written, kept>>

Fail ==
  /\ result = "running"
  /\ result' = "failed"
  /\ UNCHANGED <<input, written, kept>>

Next == WritePart \/ KeepRecord \/ Succeed \/ Fail

Spec == Init /\ [][Next]_vars
=============================================================================
