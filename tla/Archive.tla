------------------------------ MODULE Archive ------------------------------
(***************************************************************************)
(* The archive formats and the block decoders.  In I/O-LZ a block carries  *)
(* the matches found in it (compress, io.cpp; decompress).  In Future-LZ   *)
(* and Index-LZ a second pass (srep.cpp) sorts all matches by source, cuts *)
(* them at block boundaries and stores each piece with the block its       *)
(* source lies in, in front of the block or in an index at the end of the  *)
(* file.  At that block decompress_FUTURE_LZ copies the pieces that end up *)
(* in it and saves the bytes of the others until their block comes.        *)
(*                                                                         *)
(* The byte at position p of the file is Data[p]: p itself for a literal,  *)
(* else the byte the match covering p copies; so two positions have the    *)
(* same byte only if the matches make it so.                               *)
(*                                                                         *)
(* The second pass writes a list to a buffer for which it checks nothing:  *)
(* a list that is longer is where the model stops (phase "overflow").  The *)
(* decoder refuses a block larger than its own buffer (phase "refused").   *)
(***************************************************************************)
EXTENDS MatchCodec, FiniteSetsExt, SequencesExt

CONSTANTS
  BlockSize,         \* bufsize
  Cases,             \* [format, round, total] explored: round is ROUND_MATCHES,
                     \* total the size of the file
  MaxMatches,        \* bound: matches found by the first pass
  BASE_LEN,          \* shortest match of the first pass, and its unit in -m3
  maximum_save,      \* matches this long are read from the output file
  UsefulChunkSpace,  \* USEFUL_CHUNK_SPACE
  StatSize,          \* sizeof(STAT)
  HeaderRoom,        \* MAX_HEADER_SIZE + MAX_HASH_SIZE
  FUTURELZ_MAX_STATS_PER_BLOCK   \* of bufsize, which is bufsize / sizeof(STAT);
                     \* an instance may take more, as one position of the file
                     \* can stand for several bytes

Formats == {"io", "future", "index"}

ASSUME ArchiveAssumption ==
  /\ BlockSize \in Nat \ {0} /\ BlockSize < StatValues
  /\ Cases \subseteq [format : Formats, round : BOOLEAN, total : Nat \ {0}]
  /\ MaxMatches \in Nat /\ BASE_LEN \in Nat \ {0}
  /\ maximum_save \in Nat \ {0} /\ UsefulChunkSpace \in Nat \ {0}
  \* Offsets fit: in two STATs, or with rounding in one that counts chunks
  /\ \A c \in Cases : /\ c.total <= StatValues * StatValues
                      /\ c.round => c.total <= StatValues * BASE_LEN

ASSUME BufferAssumption ==
  /\ StatSize \in Nat \ {0} /\ HeaderRoom \in Nat \ {0}
  /\ FUTURELZ_MAX_STATS_PER_BLOCK \in Nat
  \* It is at least bufsize / sizeof(STAT)
  /\ BlockSize < StatSize * (FUTURELZ_MAX_STATS_PER_BLOCK + 1)

NoData == <<>>

VARIABLES
  format,      \* IO_LZ, FUTURE_LZ or INDEX_LZ
  round,       \* ROUND_MATCHES of the compressor
  total,       \* origsize: bytes in the file
  matches,     \* the matches of the first pass, as they come in the file
  phase,       \* what happens next
  lz_matches,  \* all matches, sorted by source
  i,           \* first match to look at in the next block
  stats,       \* match list written for each block so far
  eheap,       \* the encoder's lz_match_heap: [dest, len]
  ram, rams,   \* its RAM estimate now, and after each block
  blk,         \* block being decoded
  stat,        \* its match list, as the decoder has read it
  heap,        \* the decoder's lz_matches: [src, dest, len, data]
  out, used,   \* bytes of the block decoded so far; literals it used
  file         \* bytes written to the output file

given   == <<format, round, total, matches>>
encoder == <<lz_matches, i, stats, eheap, ram, rams>>
decoder == <<blk, stat, heap, out, used, file>>
vars    == <<given, phase, encoder, decoder>>

\* The base length and the rounding the decoder finds in the archive header
FUTURELZ_BASE_LEN == IF format = "io" THEN BASE_LEN ELSE 0
ArchiveRounds == format = "io" /\ round

NumBlocks == (total + BlockSize - 1) \div BlockSize
Start(b) == (b - 1) * BlockSize
End(b)   == Min({b * BlockSize, total})

Covers(m, p) == m.dest <= p /\ p < m.dest + m.len
IsLiteral(p) == \A n \in DOMAIN matches : ~Covers(matches[n], p)

Data ==
  LET D[p \in 0 .. total - 1] ==
        IF IsLiteral(p) THEN p
        ELSE LET n == CHOOSE n \in DOMAIN matches : Covers(matches[n], p)
             IN  D[p - (matches[n].dest - matches[n].src)]
  IN  D

\* Literals of a block, in order: the bytes that no match covers
Literals(b) ==
  LET L[p \in Start(b) .. End(b)] ==
        IF p = Start(b) THEN <<>>
        ELSE IF IsLiteral(p - 1) THEN Append(L[p - 1], p - 1) ELSE L[p - 1]
  IN  L[End(b)]

\* MEMORY_MANAGER::needmem, in chunks
NeedMem(len) == (len - 1) \div UsefulChunkSpace + 1

-----------------------------------------------------------------------------
(* First pass, as far as it matters here: record_match and the lists of the  *)
(* compressed blocks.                                                        *)

\* Where the matches found so far end
LastEnd == IF matches = <<>> THEN 0 ELSE Last(matches).dest + Last(matches).len

BlockEnd(p) == Min({(p \div BlockSize + 1) * BlockSize, total})

\* A match copies from before, stays in its block and starts where the match
\* before has ended.  With rounding it copies whole chunks
FindMatch ==
  /\ phase = "find" /\ Len(matches) < MaxMatches
  /\ \E dest \in {p \in LastEnd .. total - 1 : p > 0} :
     \E src \in 0 .. dest - 1, len \in BASE_LEN .. BlockEnd(dest) - dest :
       /\ round => src % BASE_LEN = 0 /\ len % BASE_LEN = 0
       /\ matches' = Append(matches, [src |-> src, dest |-> dest, len |-> len])
  /\ UNCHANGED <<format, round, total, phase, encoder, decoder>>

\* Where the position of the match after m is counted from: in a Future-LZ list
\* from the source of m, otherwise from its end
NextPos(future, m) == IF future THEN m.src ELSE m.dest + m.len

\* A match list: all matches of ms, one after the other
EncodeList(ms, future, rounds, L, pos0) ==
  LET here(m) == IF future THEN m.src ELSE m.dest
      from(n) == IF n = 1 THEN pos0 ELSE NextPos(future, ms[n - 1])
  IN  FlattenSeq([n \in DOMAIN ms |->
        Encode(rounds, L, here(ms[n]) - from(n), ms[n].dest - ms[n].src, ms[n].len)])

\* Matches of the first pass in block b; they come in the order of the file
Before(b)  == Cardinality({n \in DOMAIN matches : matches[n].dest < Start(b)})
InBlock(b) == SubSeq(matches, Before(b) + 1, Before(b + 1))

\* The COMPRESSED_BLOCK of block b: its matches as the first pass encoded them
Statbuf(b) == EncodeList(InBlock(b), FALSE, round, BASE_LEN, Start(b))

\* The whole file has been searched.  In I/O-LZ the background thread has
\* written the lists with their blocks, otherwise they are kept
FirstPassEnds ==
  /\ phase = "find"
  /\ IF format = "io"
       THEN /\ stats' = [b \in 1 .. NumBlocks |-> Statbuf(b)]
            /\ phase' = "read"
       ELSE phase' = "sort" /\ UNCHANGED stats
  /\ UNCHANGED <<given, lz_matches, i, eheap, ram, rams, decoder>>

-----------------------------------------------------------------------------
(* Second pass.                                                            *)

\* All matches of a list
ReadList(words, future, rounds, L, pos0) ==
  LET size  == StatsPerMatch(rounds)
      count == Len(words) \div size
      word(n) == SubSeq(words, size * (n - 1) + 1, size * n)
      M[n \in 1 .. count] ==
        Decode(future, rounds, L, IF n = 1 THEN pos0 ELSE NextPos(future, M[n - 1]), word(n))
  IN  M

\* 1. and 2.: lz_matches[] from all blocks, sorted by source; std::sort leaves
\* matches of equal source in any order
Collected == FlattenSeq([b \in 1 .. NumBlocks |->
               ReadList(Statbuf(b), FALSE, round, BASE_LEN, Start(b))])

SortMatches ==
  /\ phase = "sort"
  /\ LET all == Collected
     IN  \E p \in Bijection(DOMAIN all, DOMAIN all) :
           LET s == [n \in DOMAIN all |-> [src  |-> all[p[n]].src,
                                           dest |-> all[p[n]].dest,
                                           len  |-> all[p[n]].len]]
           IN  /\ \A m \in 2 .. Len(s) : s[m - 1].src <= s[m].src
               /\ lz_matches' = s
  /\ phase' = "encode"
  /\ UNCHANGED <<given, i, stats, eheap, ram, rams, decoder>>

SumNeedMem(heapset) == MapThenSumSet(LAMBDA m : NeedMem(m.len), heapset)

\* The part of match m whose source lies in block b
Piece(m, b) ==
  LET src == Max({m.src, Start(b)})
      len == Min({m.len - (src - m.src), End(b) - src})
  IN  [src |-> src, dest |-> m.dest + (src - m.src), len |-> len]

\* Matches from i on with a source before the end of block b ...
Reached(b) == {n \in i .. Len(lz_matches) : lz_matches[n].src < End(b)}
\* ... and those of them that end before the block
Over(b) == {n \in Reached(b) : lz_matches[n].src + lz_matches[n].len <= Start(b)}

\* Mutant: matches that end inside of the block are not cut
PiecesUncut(b) ==
  LET uncut(m) == [src  |-> Piece(m, b).src, dest |-> Piece(m, b).dest,
                   len  |-> m.len - (Piece(m, b).src - m.src)]
      P[n \in 0 .. Len(lz_matches)] ==
        IF n = 0 THEN <<>>
        ELSE IF n \in Reached(b) \ Over(b) THEN Append(P[n - 1], uncut(lz_matches[n]))
        ELSE P[n - 1]
  IN  P[Len(lz_matches)]

Pieces(b) ==
  LET P[n \in 0 .. Len(lz_matches)] ==
        IF n = 0 THEN <<>>
        ELSE IF n \in Reached(b) \ Over(b) THEN Append(P[n - 1], Piece(lz_matches[n], b))
        ELSE P[n - 1]
  IN  P[Len(lz_matches)]

\* The match list of pieces ps of block b
PieceList(ps, b) == EncodeList(ps, TRUE, FALSE, FUTURELZ_BASE_LEN, Start(b))

\* saved_i: the last match that ended before the block
SavedI(b) == Max({i} \union Over(b))

\* The pieces of block b fit in statbuf
StatbufFits(b) == Len(PieceList(Pieces(b), b)) <= FUTURELZ_MAX_STATS_PER_BLOCK

\* 3.: one block of the second pass.  RAM: matches with destination in the
\* block go, those that the decoder will save come
EncodeBlock ==
  /\ phase = "encode" /\ Len(stats) < NumBlocks /\ StatbufFits(Len(stats) + 1)
  /\ LET b     == Len(stats) + 1
         ps    == Pieces(b)
         gone  == {m \in eheap : m.dest < End(b)}
         saved == {[dest |-> ps[n].dest, len |-> ps[n].len] :
                     n \in {k \in DOMAIN ps : /\ ps[k].dest >= End(b)
                                              /\ ps[k].len < maximum_save}}
     IN  /\ stats' = Append(stats, PieceList(ps, b))
         /\ i' = SavedI(b)
         /\ eheap' = (eheap \ gone) \union saved
         /\ ram' = ram - SumNeedMem(gone) + SumNeedMem(saved)
         /\ rams' = Append(rams, ram')
  /\ phase' = IF Len(stats) + 1 = NumBlocks THEN "read" ELSE "encode"
  /\ UNCHANGED <<given, lz_matches, decoder>>

\* The loop writes behind the end of statbuf: what follows is undefined
OverflowStatbuf ==
  /\ phase = "encode" /\ Len(stats) < NumBlocks /\ ~StatbufFits(Len(stats) + 1)
  /\ phase' = "overflow"
  /\ UNCHANGED <<given, encoder, decoder>>

-----------------------------------------------------------------------------
(* Decoder: decompress_main.                                               *)

\* Mutant: no room for the match list
compbufsizeNoStats == BlockSize + StatSize * HeaderRoom

compbufsize == BlockSize + StatSize * (HeaderRoom + FUTURELZ_MAX_STATS_PER_BLOCK)

\* The header of block b says more than the buffers hold; an index is not read
\* into them
TooLarge(b) ==
  LET datasize1 == Len(Literals(b))
      origsize1 == End(b) - Start(b)
      statsize1 == IF format = "index" THEN 0 ELSE StatSize * Len(stats[b])
  IN  origsize1 > BlockSize \/ datasize1 + statsize1 > compbufsize

\* The list of the block.  The pointers into the index are parameters of
\* decompress_main passed by value: each call starts at the beginning
BlockList == IF format = "index" THEN stats[1] ELSE stats[blk]

\* Behind the last block there is nothing, or the index, which is taken for a
\* block header then: match lists and their sizes
EndMark ==
  format = "index" =>
    LET words == FlattenSeq(stats) \o [b \in DOMAIN stats |-> Len(stats[b])]
    IN  words[1] = 0 /\ words[2] = 0

\* Next block, or the end of the file, where no match may be left.  What is
\* read as a header from the index ends in an error
ReadBlock ==
  /\ phase = "read"
  /\ IF blk <= Len(stats)
       THEN IF TooLarge(blk)
              THEN phase' = "refused" /\ UNCHANGED stat
              ELSE /\ stat' = BlockList
                   /\ phase' = IF format = "io" THEN "copyIO" ELSE "insert"
       ELSE /\ phase' = IF EndMark /\ heap = {} THEN "done" ELSE "bad"
            /\ UNCHANGED stat
  /\ UNCHANGED <<given, encoder, blk, heap, out, used, file>>

\* The block was decoded: its checksum is compared, it is written where it
\* belongs, and with a single block the end of the index has been reached
Decoded ==
  LET data == Data
  IN  IF \E n \in 1 .. End(blk) - Start(blk) : out[n] # data[Start(blk) + n - 1]
        THEN phase' = "bad" /\ UNCHANGED <<blk, stat, out, used, file>>
        ELSE /\ file' = SubSeq(file, 1, Start(blk)) \o out
             /\ blk' = blk + 1 /\ stat' = <<>> /\ out' = <<>> /\ used' = 0
             /\ phase' = IF format = "index" /\ Len(stats) = 1 THEN "done" ELSE "read"

\* memcpy_lz_match: byte after byte, so that it may read what it wrote
CopyInBlock(o, from, len) ==
  LET C[n \in 0 .. len] == IF n = 0 THEN o ELSE Append(C[n - 1], C[n - 1][from + n])
  IN  C[len]

NextLiterals(n) == SubSeq(Literals(blk), used + 1, used + n)

-----------------------------------------------------------------------------
(* Decoder of I/O-LZ: decompress.                                          *)

\* The bytes of match m after the bytes o of the block: first those before the
\* block, from the output file, then those in it
CopyIO(m, o) ==
  LET bytes == IF m.src < Start(blk) THEN Min({m.len, Start(blk) - m.src}) ELSE 0
  IN  CopyInBlock(o \o SubSeq(file, m.src + 1, m.src + bytes),
                  m.src + bytes - Start(blk), m.len - bytes)

DecodeIO ==
  /\ phase = "copyIO" /\ stat # <<>>
  /\ LET m == Decode(FALSE, ArchiveRounds, FUTURELZ_BASE_LEN, Start(blk) + Len(out), stat)
     IN  IF \/ m.lit > Len(Literals(blk)) - used
            \/ m.lit + m.len > End(blk) - Start(blk) - Len(out)
            \/ m.src >= m.dest
           THEN phase' = "bad" /\ UNCHANGED <<stat, out, used>>
           ELSE /\ out' = CopyIO(m, out \o NextLiterals(m.lit))
                /\ used' = used + m.lit
                /\ stat' = SubSeq(stat, StatsPerMatch(ArchiveRounds) + 1, Len(stat))
                /\ UNCHANGED phase
  /\ UNCHANGED <<given, encoder, blk, heap, file>>

\* Copy literal data up to the block end
DecodeTailIO ==
  /\ phase = "copyIO" /\ stat = <<>>
  /\ LET rest == Len(Literals(blk)) - used
     IN  IF rest # End(blk) - Start(blk) - Len(out)
           THEN phase' = "bad" /\ UNCHANGED out
           ELSE out' = out \o NextLiterals(rest) /\ phase' = "written"
  /\ UNCHANGED <<given, encoder, blk, stat, heap, used, file>>

\* decompress_main goes on after decompress
FinishIO ==
  /\ phase = "written"
  /\ Decoded
  /\ UNCHANGED <<given, encoder, heap>>

-----------------------------------------------------------------------------
(* Decoder of Future-LZ and Index-LZ: decompress_FUTURE_LZ.                *)

\* The matches in the list of the block
List == ReadList(stat, TRUE, ArchiveRounds, FUTURELZ_BASE_LEN, Start(blk))

BadMatch(m, block_pos) ==
  \/ m.src < block_pos \/ m.src >= End(blk)
  \/ m.len > End(blk) - m.src
  \/ m.dest <= m.src

Pending(m, data) == [src |-> m.src, dest |-> m.dest, len |-> m.len, data |-> data]

\* 1. Insert into lz_matches matches with LZ.dest in the current block
InsertMatches ==
  /\ phase = "insert"
  /\ LET list == List
     IN  IF \E n \in DOMAIN list :
              BadMatch(list[n], IF n = 1 THEN Start(blk) ELSE list[n - 1].src)
           THEN phase' = "bad" /\ UNCHANGED heap
           ELSE /\ heap' = heap \union {Pending(m, NoData) :
                                          m \in {k \in ToSet(list) : k.dest < End(blk)}}
                /\ phase' = "copy"
  /\ UNCHANGED <<given, encoder, blk, stat, out, used, file>>

\* The bytes of match m after the bytes o of the block
CopyMatch(m, o) ==
  IF m.len >= maximum_save /\ m.src < Start(blk)
    THEN o \o SubSeq(file, m.src + 1, m.src + m.len)
  ELSE IF m.data # NoData THEN o \o m.data
  ELSE CopyInBlock(o, m.src - Start(blk), m.len)

Due == {m \in heap : m.dest < End(blk)}

\* 2. The match with the lowest destination: literals up to it, then its bytes
DecodeMatch ==
  /\ phase = "copy" /\ Due # {}
  /\ LET m   == CHOOSE m \in Due : \A n \in Due : m.dest <= n.dest
         lit == m.dest - Start(blk) - Len(out)
     IN  IF lit < 0 \/ used + lit > Len(Literals(blk))
              \/ Len(out) + lit + m.len > End(blk) - Start(blk)
           THEN phase' = "bad" /\ UNCHANGED <<heap, out, used>>
           ELSE /\ out' = CopyMatch(m, out \o NextLiterals(lit))
                /\ used' = used + lit
                /\ heap' = heap \ {m}
                /\ UNCHANGED phase
  /\ UNCHANGED <<given, encoder, blk, stat, file>>

\* Copy literal data up to the block end
DecodeTail ==
  /\ phase = "copy" /\ Due = {}
  /\ LET rest == Len(Literals(blk)) - used
     IN  IF rest # End(blk) - Start(blk) - Len(out)
           THEN phase' = "bad" /\ UNCHANGED <<out, used>>
           ELSE /\ out' = out \o NextLiterals(rest)
                /\ used' = used + rest
                /\ phase' = "future"
  /\ UNCHANGED <<given, encoder, blk, stat, heap, file>>

\* Mutant: the bytes of long matches are saved, too
SavedBytesAll(m) == SubSeq(out, m.src - Start(blk) + 1, m.src - Start(blk) + m.len)

\* The bytes of match m that save_match_data() keeps
SavedBytes(m) ==
  IF m.len >= maximum_save THEN NoData
  ELSE SubSeq(out, m.src - Start(blk) + 1, m.src - Start(blk) + m.len)

\* 3. Insert into lz_matches matches with LZ.dest in future blocks; then
\* decompress_main goes on
FinishBlock ==
  /\ phase = "future"
  /\ heap' = heap \union {Pending(m, SavedBytes(m)) :
                            m \in {k \in ToSet(List) : k.dest >= End(blk)}}
  /\ Decoded
  /\ UNCHANGED <<given, encoder>>

-----------------------------------------------------------------------------
(* Information mode: the RAM estimate from the lists in the archive.       *)

Info ==
  LET I[b \in 0 .. NumBlocks] ==
        IF b = 0 THEN [heap |-> {}, ram |-> 0, max |-> 0]
        ELSE LET list  == ReadList(stats[b], TRUE, ArchiveRounds, FUTURELZ_BASE_LEN, Start(b))
                 gone  == {m \in I[b - 1].heap : m.dest < End(b)}
                 saved == {[dest |-> m.dest, len |-> m.len] :
                             m \in {k \in ToSet(list) : /\ k.dest >= End(b)
                                                        /\ k.len < maximum_save}}
                 now   == I[b - 1].ram - SumNeedMem(gone) + SumNeedMem(saved)
             IN  [heap |-> (I[b - 1].heap \ gone) \union saved, ram |-> now,
                  max  |-> Max({now, I[b - 1].max})]
  IN  I

-----------------------------------------------------------------------------
Init ==
  /\ \E c \in Cases : format = c.format /\ round = c.round /\ total = c.total
  /\ matches = <<>>
  /\ phase = "find" /\ lz_matches = <<>> /\ i = 1 /\ stats = <<>>
  /\ eheap = {} /\ ram = 0 /\ rams = <<>>
  /\ blk = 1 /\ stat = <<>> /\ heap = {} /\ out = <<>> /\ used = 0 /\ file = <<>>

Next == FindMatch \/ FirstPassEnds \/ SortMatches \/ EncodeBlock \/ OverflowStatbuf
          \/ ReadBlock \/ DecodeIO \/ DecodeTailIO \/ FinishIO
          \/ InsertMatches \/ DecodeMatch \/ DecodeTail \/ FinishBlock

Spec == Init /\ [][Next]_vars

\* Compressor and decompressor are run to their end
FairSpec == Spec /\ WF_vars(Next)

-----------------------------------------------------------------------------

\* What was decoded is what was compressed.
OutputCorrect ==
  LET data == Data
  IN  /\ \A n \in DOMAIN file : file[n] = data[n - 1]
      /\ \A n \in DOMAIN out : out[n] = data[Start(blk) + n - 1]

\* The RAM estimate printed by the compressor is what the decoder needs: after
\* each block the chunks it holds are those the second pass counted.  The
\* information mode computes the same from the archive.
EstimateExact ==
  format # "io" =>
    /\ phase = "read" /\ blk > 1 =>
         SumNeedMem({[dest |-> m.dest, len |-> m.len] : m \in {n \in heap : n.data # NoData}})
           = rams[blk - 1]
    /\ phase = "done" => Info[NumBlocks].max = Max(ToSet(rams))

\* "Should point AFTER the last match belonging to the block": the list that is
\* decoded with a block is the one the second pass made for it.
ListIsOwn == phase = "insert" => stat = stats[blk]

\* "So we just alloc block_size bytes": the list of a block fits in statbuf.
StatbufHolds == phase # "overflow"

\* The decoder's buffer (srep_dec.cpp:175) holds what the encoder's buffers hold:
\* a block is refused for its size only in I/O-LZ, and only if the shortest match
\* has less than half of the bytes of its record in the list.
ListsAccepted ==
  phase = "refused" => format = "io" /\ 2 * BASE_LEN < StatSize * StatsPerMatch(round)

\* Decoding comes to its end with the whole file: the decoder never rejects
\* what the same program compressed, but for the two cases above.
RoundTrip == <>(\/ phase = "done" /\ Len(file) = total
                \/ phase \in {"overflow", "refused"})
=============================================================================
