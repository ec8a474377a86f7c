------------------------------- MODULE Chunking -------------------------------
(***************************************************************************)
(* Content-defined chunking, -m1 and -m2 (compress_cdc.cpp): the bytes of a  *)
(* block choose where chunks end; a chunk that repeats an older one is a     *)
(* match.  Stripes are searched by the threads of CdcPool, which shows that  *)
(* their marks come in order; here a stripe is searched in one step and its  *)
(* chunks are looked up one at a time in the hash table of HashTable.        *)
(***************************************************************************)
EXTENDS HashTable

CONSTANTS
  ChunkJobs,     \* explored: [text, block, L, MIN_MATCH, ZPAQ_CDC]
  STRIPE,        \* 116 KB
  WINSIZE,       \* 48
  MinimalMatch,  \* MINIMAL_MIN_MATCH
  Reach          \* bytes before a stripe that the zpaq search reads: 8000

\* A word can hold the numbers of all chunks
ASSUME ChunkingAssumption ==
  /\ {STRIPE \div 3, WINSIZE, MinimalMatch} \subseteq Nat \ {0} /\ {STRIPE, Reach} \subseteq Nat
  /\ \A j \in ChunkJobs :
       /\ j.text \in Seq(Nat) \ {<<>>} /\ {j.block, j.L} \subseteq Nat \ {0} /\ j.MIN_MATCH \in Nat
       /\ 2 * (Max({Len(j.text), j.L}) \div j.L) + 2 <= 2 ^ HashBits

VARIABLES
  ptr,                      \* end of the stripes searched so far
  marks, vhashes, curmark,  \* ends of the chunks of this stripe, their hashes, the next
  last_chunk, last_match,   \* ends of the last chunk and of the last match
  found_matches, literals,  \* [lit_len, offset, len]; literal_bytes
  startarr, curchunk        \* where chunks start, and the last one's number
stripeVars == <<ptr, marks, vhashes, curmark, last_chunk, last_match, found_matches, literals>>
chunkVars == <<stripeVars, startarr, curchunk>>

bufend == BlockEnd
min_match == Max({table.MIN_MATCH, MinimalMatch})
MAX_CHUNKS == STRIPE \div MinimalMatch + 2
maxhash(values) == (values - 1) - ((values - 1) \div table.L)
EndMark(end) == IF end = bufend THEN <<bufend>> ELSE <<>>

-----------------------------------------------------------------------------
(* Chunk boundaries *)

\* A piece: points whose window has a large hash, min_match apart
PieceMarks(from, to) ==
  LET cut(acc, p) ==
        IF /\ Poly1(p + 1 - WINSIZE, WINSIZE) > maxhash(BigValues)
           /\ p - acc.lastp >= min_match
          THEN [lastp |-> p, marks |-> Append(acc.marks, p)] ELSE acc
  IN  FoldLeft(cut, [lastp |-> from, marks |-> <<>>],
               [k \in 1 .. Max({0, to - from - WINSIZE}) |-> from + WINSIZE + k - 1]).marks

\* -m1: three pieces searched at once and sorted, or what is left of the block
fast_find_chunks(from, pend) ==
  LET PIECE == STRIPE \div 3
  IN  (IF pend - from >= 3 * PIECE
         THEN FlattenSeq([k \in 1 .. 3 |-> PieceMarks(from + (k - 1) * PIECE, from + k * PIECE)])
         ELSE PieceMarks(from, pend))
        \o EndMark(pend)

\* -m2: a hash that forgets with each byte the order-1 model mispredicts
zpaq_find_chunks(from, pend) ==
  LET start == Max({blockStart, from - Reach})
      Fresh(p, found) == [hash |-> 0, c1 |-> 0, o1 |-> {}, lastp |-> p, marks |-> found]
      step(acc, p) ==
        LET c     == table.text[p + 1]
            guess == IF \E b \in acc.o1 : b[1] = acc.c1
                       THEN (CHOOSE b \in acc.o1 : b[1] = acc.c1)[2] ELSE 0
            hash  == ((acc.hash + c + 1)
                        * ((IF c # guess THEN 271828182 ELSE 314159265) % ChunkValues)) % ChunkValues
        IN  IF hash > maxhash(ChunkValues) /\ p - acc.lastp >= min_match
              THEN Fresh(p, IF p > from THEN Append(acc.marks, p) ELSE acc.marks)
              ELSE [acc EXCEPT !.hash = hash, !.c1 = c,
                               !.o1 = {b \in @ : b[1] # acc.c1} \cup {<<acc.c1, c>>}]
  IN  FoldLeft(step, Fresh(start, <<>>), [k \in 1 .. pend - start |-> start + k - 1]).marks
        \o EndMark(pend)

-----------------------------------------------------------------------------
(* Hashes of chunks: 32 bytes of VHASH, of which 20 are the digest and 8 the index *)

single_chunk_hash(from, to) ==
  [digest |-> BytesAt(from, to - from), index |-> Poly1(from, to - from)]

\* Mutant: the thread's hashes start in the slot of the split chunk
UnshiftedHashes(found, split) ==
  Append([k \in 1 .. Len(found) - 1 |-> single_chunk_hash(found[k], found[k + 1])], split)

\* The first slot is left to the chunk that starts in an earlier stripe
compute_chunk_hashes(found, split) ==
  <<split>> \o [k \in 1 .. Len(found) - 1 |-> single_chunk_hash(found[k], found[k + 1])]

-----------------------------------------------------------------------------
(* Threads and the loop of compress_CDC *)

ChunksIdle ==
  /\ ptr = 0 /\ marks = <<>> /\ vhashes = <<>> /\ curmark = 1
  /\ last_chunk = 0 /\ last_match = 0 /\ found_matches = <<>> /\ literals = 0
  /\ startarr = <<>> /\ curchunk = 0
ChunksInit ==
  /\ ChunksIdle
  /\ table \in ChunkJobs /\ tablePc = "chunks" /\ blockStart = 0 /\ place = 0 /\ upto = 0
  /\ chunkarr = EmptyTable(TRUE)
  /\ hasharr = <<>> /\ digestarr = <<>> /\ slices = <<>> /\ bitarr = {} /\ lost = {}

\* CDC_Job.process, and the hash of the split chunk, which the main thread adds
FindChunks ==
  /\ tablePc = "chunks" /\ curmark > Len(marks) /\ ptr < bufend
  /\ LET pend  == Min({bufend, ptr + STRIPE})
         found == IF table.ZPAQ_CDC THEN zpaq_find_chunks(ptr, pend) ELSE fast_find_chunks(ptr, pend)
     IN  /\ ptr' = pend /\ marks' = found /\ curmark' = 1
         /\ vhashes' = IF found = <<>> THEN <<>>
                       ELSE compute_chunk_hashes(found, single_chunk_hash(last_chunk, found[1]))
  /\ UNCHANGED <<tableVars, last_chunk, last_match, found_matches, literals, startarr, curchunk>>

\* find_match_CDC: the new chunk enters the table in place of one with its digest, and
\* is a match if that one has its size.  A full table takes no more
chunksize_CDC(starts, chunk) == starts[chunk + 1] - starts[chunk]
CheckChunk ==
  /\ tablePc = "chunks" /\ curmark <= Len(marks)
  /\ LET len  == marks[curmark] - last_chunk
         new  == vhashes[curmark]
         n    == curchunk + 1
         room == n < total_chunks(TRUE)
         stop == StopAt(TRUE, new.index, {c \in DOMAIN digestarr : digestarr[c] = new.digest})
         starts == Append(startarr, last_chunk)
         offset == IF room /\ stop.found # NOT_FOUND /\ chunksize_CDC(starts, stop.found) = len
                     THEN last_chunk - starts[stop.found] ELSE 0
     IN  /\ curchunk' = n
         /\ startarr' = IF room THEN starts ELSE startarr
         /\ digestarr' = IF room THEN Append(digestarr, new.digest) ELSE digestarr
         /\ chunkarr' = IF room THEN AddedTo(chunkarr, TRUE, new.index, n, stop) ELSE chunkarr
         /\ IF offset # 0 /\ len >= min_match
              THEN /\ found_matches' = Append(found_matches,
                        [lit_len |-> last_chunk - last_match, offset |-> offset, len |-> len])
                   /\ last_match' = marks[curmark] /\ UNCHANGED literals
              ELSE literals' = literals + len /\ UNCHANGED <<found_matches, last_match>>
  /\ last_chunk' = marks[curmark] /\ curmark' = curmark + 1
  /\ UNCHANGED <<table, tablePc, blockStart, place, upto, hasharr, bitarr, slices, lost, ptr, marks, vhashes>>

BlockDone == curmark > Len(marks) /\ ptr = bufend
NextBlock ==
  /\ tablePc = "chunks" /\ BlockDone /\ bufend < Len(table.text)
  /\ blockStart' = bufend /\ ptr' = bufend /\ last_chunk' = bufend /\ last_match' = bufend
  /\ marks' = <<>> /\ vhashes' = <<>> /\ curmark' = 1 /\ found_matches' = <<>> /\ literals' = 0
  /\ UNCHANGED <<table, tablePc, place, upto, chunkarr, hasharr, digestarr, bitarr, slices, lost,
                 startarr, curchunk>>

ChunksNext == FindChunks \/ CheckChunk \/ NextBlock
ChunksSpec == ChunksInit /\ [][ChunksNext]_<<tableVars, chunkVars>>

-----------------------------------------------------------------------------
\* Where the decoder puts match number n of the block
DestOf(n) ==
  blockStart + FoldLeft(LAMBDA sum, m : sum + m.lit_len + m.len, 0, SubSeq(found_matches, 1, n - 1))
    + found_matches[n].lit_len

\* The marks of a stripe are in order, inside it, and fit the thread's array; all of a
\* block is in one chunk or another; every match the decoder reads repeats older bytes.
ChunksRepeat ==
  tablePc = "chunks" =>
    /\ Len(marks) <= MAX_CHUNKS
    /\ \A k \in 2 .. Len(marks) : marks[k - 1] < marks[k]
    /\ marks # <<>> => last_chunk <= marks[Len(marks)] /\ marks[1] > ptr - STRIPE
    /\ Len(digestarr) = Len(startarr) /\ Len(startarr) < total_chunks(TRUE)
    /\ \A n \in 1 .. Len(found_matches) :
         LET m == found_matches[n]
             dest == DestOf(n)
         IN  /\ m.len >= min_match /\ m.offset >= m.len
             /\ m.offset <= dest /\ dest + m.len <= ptr
             /\ BytesAt(dest, m.len) = BytesAt(dest - m.offset, m.len)
    /\ literals + FoldLeft(LAMBDA sum, m : sum + m.len, 0, found_matches) = last_chunk - blockStart
    /\ BlockDone /\ ptr > blockStart => last_chunk = bufend
=============================================================================
