------------------------------ MODULE HashTable -------------------------------
(***************************************************************************)
(* The search engine of -m1 to -m5 (hash_table.cpp): chunkarr, an open      *)
(* hash table whose slots hold a chunk number and some bits of a hash;      *)
(* hasharr and digestarr, what is known of each chunk; bitarr, asked first; *)
(* SliceHash, which tells hopeless matches of -m5.  The machine is the way  *)
(* compress<> walks over a block to fill and ask them; how it takes matches *)
(* is in BlockCompressor.  Words are narrower than 64 bits.                 *)
(***************************************************************************)
EXTENDS Integers, Sequences, SequencesExt, FiniteSetsExt

CONSTANTS
  TableJobs,        \* explored: [text, block, L, MIN_MATCH, CYCLES, accel, digests]
  MAX_HASH_CHAIN,   \* 12
  HashBits,         \* bits of BigHash and size_t: 64.  A Chunk or uint32 has half
  SlicesInBlock,    \* slices_in_block: 8
  BITS              \* bits of the hash of a slice: 4

\* Blocks are whole chunks, a probe is a part of one, and check looks at the slices of
\* one chunk at most; the program enforces none of this, see the README.  A word can
\* hold the size of the table
min_hash_size(n) == (n \div 4 + 1) * 5
ASSUME TableAssumption ==
  /\ {MAX_HASH_CHAIN, HashBits, HashBits \div 2, SlicesInBlock, BITS} \subseteq Nat \ {0}
  /\ BITS <= HashBits \div 2
  /\ \A j \in TableJobs :
       /\ j.text \in Seq(Nat) /\ {j.block, j.L, j.MIN_MATCH, j.CYCLES} \subseteq Nat \ {0}
       /\ j.block % j.L = 0 /\ j.L % j.CYCLES = 0 /\ j.L % SlicesInBlock = 0
       /\ j.MIN_MATCH >= j.L
       /\ (j.MIN_MATCH - j.L) \div (j.L \div SlicesInBlock) - 1 <= SlicesInBlock
       /\ min_hash_size(Max({Len(j.text), j.L}) \div j.L) <= 2 ^ HashBits

VARIABLES
  table,                     \* the text, and the options
  tablePc,
  blockStart, place, upto,   \* block_start, i and next_chunk
  chunkarr, hasharr, digestarr, bitarr, slices,
  lost                       \* history: chunks whose slot was given to others,
                             \* or that of the chunk that stood for them
tableVars == <<table, tablePc, blockStart, place, upto, chunkarr, hasharr, digestarr,
               bitarr, slices, lost>>

NOT_FOUND == 0
BigValues == 2 ^ HashBits
ChunkValues == 2 ^ (HashBits \div 2)
CHAR_BIT == 8
BytesAt(p, n) == SubSeq(table.text, p + 1, p + n)

-----------------------------------------------------------------------------
(* The constructor: sizes *)

roundup_to_power_of(n) == IF n = 0 THEN 0 ELSE Min({q \in {2 ^ k : k \in 0 .. HashBits} : q >= n})
filesize == Max({Len(table.text), table.L})

\* Content-defined chunks may be small: there is room for more of them
Chunks1024 == filesize \div table.L
total_chunks(cdc) ==
  Chunks1024 + IF cdc THEN Chunks1024 \div (IF Chunks1024 > 1024 THEN 10 ELSE 1) ELSE 0
chunknum_mask(cdc) == roundup_to_power_of(total_chunks(cdc) + 2) - 1
hashsize(cdc) == roundup_to_power_of(min_hash_size(total_chunks(cdc)))
bitarrsize ==
  roundup_to_power_of(Max({(total_chunks(FALSE) \div CHAR_BIT) * table.accel * 8, 2}))

EmptyTable(cdc) == [s \in 0 .. hashsize(cdc) - 1 |-> NOT_FOUND]

-----------------------------------------------------------------------------
(* chunkarr *)

\* The hash above the chunk number, and both of them in a slot
get_chunk(cdc, value) == value % (chunknum_mask(cdc) + 1)
get_hash(cdc, value)  == value - get_chunk(cdc, value)
chunkarr_value(cdc, index, chunk) == get_hash(cdc, index % ChunkValues) + chunk
stored_hash(hash2) == hash2 \div ChunkValues

next_hash_slot(h) ==
  (h * (123456791 % BigValues) + (h \div 2 ^ (HashBits \div 4)) + (462782923 % BigValues))
     % BigValues

\* The slots a hash may be in: neighbours, with a jump after every fourth
Slots(cdc, index) ==
  LET h[k \in 1 .. MAX_HASH_CHAIN] ==
        IF k = 1 THEN index
        ELSE IF (MAX_HASH_CHAIN - (k - 1)) % 4 = 0 THEN next_hash_slot(h[k - 1] + 1)
        ELSE (h[k - 1] + 1) % BigValues
  IN  [k \in 1 .. MAX_HASH_CHAIN |-> h[k] % hashsize(cdc)]

\* Where the loops of add_hash0 and find_match0 stop: at an empty slot, at one of
\* the chunks that are the same, or at the last slot, whatever it holds
StopAt(cdc, index, same) ==
  LET slot == Slots(cdc, index)
      Stops(value) == \/ value = NOT_FOUND
                      \/ /\ get_hash(cdc, value) = chunkarr_value(cdc, index, 0)
                         /\ get_chunk(cdc, value) \in same
      k == Min({k \in 1 .. MAX_HASH_CHAIN : k = MAX_HASH_CHAIN \/ Stops(chunkarr[slot[k]])})
  IN  [slot |-> slot[k],
       found |-> IF k = MAX_HASH_CHAIN THEN NOT_FOUND ELSE get_chunk(cdc, chunkarr[slot[k]]),
       full |-> k = MAX_HASH_CHAIN]

\* add_hash0: the new chunk takes the slot.  Chunk 0 cannot be told from none
AddedTo(arr, cdc, index, chunk, stop) ==
  IF chunk = NOT_FOUND THEN arr ELSE [arr EXCEPT ![stop.slot] = chunkarr_value(cdc, index, chunk)]

-----------------------------------------------------------------------------
(* Hashes of the text *)

PRIME1 == 153191
Poly1(p, n) ==
  LET bytes == BytesAt(p, n)
      v[j \in 0 .. n] == IF j = 0 THEN 0 ELSE (v[j - 1] * (PRIME1 % BigValues) + bytes[j]) % BigValues
  IN  v[n]

\* hash2 of L bytes, and hash1 of as many of them as all chunks share that start
\* between two probes
OFFSET == table.CYCLES - 1
hash1(p) == Poly1(p, table.L - OFFSET)
hash2(p) == Poly1(p, table.L)

\* prepare_buffer keeps the digest of every whole chunk: here, its bytes
ChunkDigest(k) == BytesAt(k * table.L, table.L)

\* The bit of a hash: the byte from its upper bits, the bit from its lowest
BitOf(h) == <<(h * bitarrsize) \div BigValues, h % CHAR_BIT>>
check_match_possibility(h) == table.accel = 0 \/ BitOf(h) \in bitarr

\* Mutant: one window fewer
MarkedShort(p) == {BitOf(hash1(p + s)) : s \in 0 .. OFFSET - 1}

\* mark_match_possibility, for all windows of the chunk at p
Marked(p) == {BitOf(hash1(p + s)) : s \in 0 .. OFFSET}

-----------------------------------------------------------------------------
(* SliceHash *)

slice_size == table.L \div SlicesInBlock
SliceHashOf(bytes) ==
  LET mix(v, b) == (v * (123456791 % ChunkValues) + b) % ChunkValues
  IN  mix(FoldLeft(mix, 111222341 % ChunkValues, bytes), 0) \div (ChunkValues \div 2 ^ BITS)
SliceOf(p) == SliceHashOf(BytesAt(p, slice_size))
SlicesOf(p) == [j \in 0 .. SlicesInBlock - 1 |-> SliceOf(p + j * slice_size)]

BlockEnd == Min({blockStart + table.block, Len(table.text)})
check_slices == (table.MIN_MATCH - table.L) \div slice_size - 1   \* io_accelerator

\* check: equal slices after the match and before it
SliceCheck(chunk, p) ==
  LET i == p - blockStart
      after  == {j \in 0 .. check_slices : j = check_slices
                   \/ slices[chunk + 1][j] # SliceOf(p + table.L + j * slice_size)}
      before == {k \in 0 .. check_slices - Min(after) : k + Min(after) = check_slices
                   \/ slices[chunk - 1][SlicesInBlock - (k + 1)] # SliceOf(p - (k + 1) * slice_size)}
  IN  \/ check_slices <= 0
      \/ i < table.L \/ BlockEnd - p < 2 * table.L
      \/ Min(after) = check_slices
      \/ Min(before) + Min(after) = check_slices

-----------------------------------------------------------------------------
(* Asking and filling the table in a block of compress<> *)

\* Chunks that are the same as chunk k, or as the bytes at p, for all the table knows
AddedSame(k) ==
  {c \in DOMAIN hasharr : /\ hasharr[c] = stored_hash(hash2(k * table.L))
                          /\ table.digests => digestarr[c] = digestarr[k]}
FoundSame(p) ==
  {c \in DOMAIN hasharr : /\ hasharr[c] = stored_hash(hash2(p))
                          /\ table.digests => digestarr[c] = BytesAt(p, table.L)}

\* find_match.  Without digests the first chunk with this hash is the last tried
find_match0(p) ==
  LET stop == StopAt(FALSE, hash2(p), FoundSame(p))
  IN  IF table.digests \/ stop.found = NOT_FOUND \/ SliceCheck(stop.found, p) THEN stop.found
      ELSE NOT_FOUND

TableIdle ==
  /\ table = <<>> /\ tablePc = "idle" /\ blockStart = 0 /\ place = 0 /\ upto = 0
  /\ chunkarr = <<>> /\ hasharr = <<>> /\ digestarr = <<>> /\ slices = <<>>
  /\ bitarr = {} /\ lost = {}
TableInit ==
  /\ table \in TableJobs /\ tablePc = "read" /\ blockStart = 0 /\ place = 0 /\ upto = 0
  /\ chunkarr = EmptyTable(FALSE)
  /\ hasharr = <<>> /\ digestarr = <<>> /\ slices = <<>> /\ bitarr = {} /\ lost = {}

\* prepare_buffer, by the background thread: digests and slices of all chunks so far.
\* A block of less than two chunks is not searched
PrepareBuffer ==
  /\ tablePc = "read" /\ blockStart < Len(table.text)
  /\ LET last == BlockEnd \div table.L - 1
     IN  /\ digestarr' = [k \in 0 .. last |-> ChunkDigest(k)]
         /\ slices' = [k \in 0 .. last |-> SlicesOf(k * table.L)]
  /\ IF blockStart + 2 * table.L <= BlockEnd
       THEN tablePc' = "add" /\ place' = blockStart /\ UNCHANGED blockStart
       ELSE tablePc' = "read" /\ blockStart' = BlockEnd /\ UNCHANGED place
  /\ UNCHANGED <<table, upto, chunkarr, hasharr, bitarr, lost>>

\* The chunks that are found by way of a slot
StoodFor(value) ==
  IF value = NOT_FOUND THEN {} ELSE AddedSame(get_chunk(FALSE, value))

\* add_hash of the chunk at i and the bits of its windows; the next chunk, or block
AddHash ==
  /\ tablePc = "add"
  /\ LET k     == place \div table.L
         index == hash2(place)
         stop  == StopAt(FALSE, index, AddedSame(k))
     IN  /\ hasharr' = [c \in DOMAIN hasharr \cup {k} |->
                          IF c = k THEN stored_hash(index) ELSE hasharr[c]]
         /\ chunkarr' = AddedTo(chunkarr, FALSE, index, k, stop)
         /\ lost' = lost \cup (IF k = NOT_FOUND THEN {k}
                               ELSE IF stop.full THEN {k} \cup StoodFor(chunkarr[stop.slot])
                               ELSE {})
  /\ bitarr' = bitarr \cup Marked(place)
  /\ IF place + 2 * table.L <= BlockEnd
       THEN tablePc' = "scan" /\ upto' = place + table.L /\ UNCHANGED blockStart
       ELSE tablePc' = "read" /\ blockStart' = BlockEnd /\ UNCHANGED upto
  /\ UNCHANGED <<table, place, digestarr, slices>>

\* The positions a match covers are not looked up
SkipCovered ==
  /\ tablePc = "scan"
  /\ \E p \in place + 1 .. upto - table.CYCLES : p % table.CYCLES = 0 /\ place' = p
  /\ UNCHANGED <<table, tablePc, blockStart, upto, chunkarr, hasharr, digestarr, bitarr, slices, lost>>

\* One probe for CYCLES positions, after place: if its bit is set, all are looked up
Probe == check_match_possibility(hash1(place + 1 + OFFSET))
LookedUp == IF tablePc = "scan" /\ Probe THEN place + 1 .. place + table.CYCLES ELSE {}
ScanOn ==
  /\ tablePc = "scan"
  /\ place' = place + table.CYCLES
  /\ tablePc' = IF place' < upto THEN "scan" ELSE "add"
  /\ UNCHANGED <<table, blockStart, upto, chunkarr, hasharr, digestarr, bitarr, slices, lost>>

TableNext == PrepareBuffer \/ AddHash \/ SkipCovered \/ ScanOn
TableSpec == TableInit /\ [][TableNext]_tableVars

-----------------------------------------------------------------------------
\* The match that match_len would find around position p and chunk k
Extent(k, p) ==
  LET q == k * table.L
      alike(t) == table.text[q + t + 1] = table.text[p + t + 1]
      before == Max({n \in 0 .. Min({q, table.L, p - blockStart}) : \A t \in 1 .. n : alike(-t)})
      len == Max({n \in 0 .. BlockEnd - p : \A t \in 0 .. n - 1 : alike(t)})
  IN  before + len

\* A position whose bytes repeat a chunk that was added is looked up and the lookup
\* finds a chunk with these bytes (by a digest) or this hash, but for chunks that lost
\* their slot and for chunk 0; the slices only refuse what is too short.
NothingMissed ==
  tablePc = "scan" =>
    \A p \in place + 1 .. place + table.CYCLES : \A k \in DOMAIN hasharr \ lost :
      digestarr[k] = BytesAt(p, table.L) =>
        LET hit == StopAt(FALSE, hash2(p), FoundSame(p)).found
        IN  /\ p \in LookedUp
            /\ hit # NOT_FOUND
            /\ table.digests => digestarr[hit] = BytesAt(p, table.L)
            /\ Extent(hit, p) >= table.MIN_MATCH => find_match0(p) = hit
=============================================================================
