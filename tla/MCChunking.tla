------------------------------ MODULE MCChunking ------------------------------
(* Texts of a few phrases that repeat at any distance, in tables so small that *)
(* chunks share slots, bits and hashes; and the same in stripes shorter than a *)
(* block, with a table that may be too small for the chunks.                   *)
EXTENDS Chunking

Phrases == {<<0, 1, 0, 1, 2>>, <<0, 0, 0, 0, 1, 1>>, <<2, 0, 1, 0, 1, 2, 1>>, <<1, 2, 0, 1, 1, 0, 0, 2>>}
TableTexts == {p \o q \o r \o p \o s : p \in Phrases, q \in Phrases, r \in Phrases, s \in Phrases}
Options(t, l, min, cycles, digests) ==
  [text |-> t, block |-> 3 * l, L |-> l, MIN_MATCH |-> min, CYCLES |-> cycles,
   accel |-> IF cycles = 1 THEN 0 ELSE cycles, digests |-> digests]
MCTableJobs ==
  UNION {{Options(t, 4, 4, 4, TRUE), Options(t, 4, 9, 2, FALSE), Options(t, 4, 8, 1, FALSE)} :
           t \in TableTexts}

ChunkTexts == {p \o q \o r \o p \o q : p \in Phrases, q \in Phrases, r \in Phrases}
MCChunkJobs ==
  {[text |-> t, block |-> 25, L |-> l, MIN_MATCH |-> min, ZPAQ_CDC |-> zpaq] :
     t \in ChunkTexts, l \in {1, 2, 4, 16}, min \in {1, 3}, zpaq \in BOOLEAN}
=============================================================================
