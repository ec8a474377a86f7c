------------------------------ MODULE VmDecoder ------------------------------
(***************************************************************************)
(* The Future-LZ decoder when it runs out of memory (decompress_FUTURE_LZ  *)
(* and VIRTUAL_MEMORY_MANAGER of decompress.cpp).  Matches whose bytes are *)
(* known before they are needed wait in a heap sorted by destination.  To  *)
(* stay within the memory limit, the ones needed last go to blocks of a    *)
(* temporary file; for each block a mark in the heap says when it must be  *)
(* read back.                                                              *)
(*                                                                         *)
(* Destinations are numbers: slot d lies in block DestBlock(d), and only   *)
(* the order of slots matters.  The bytes of a match go where the match    *)
(* goes and are left out; MemoryManager and Archive are about them.        *)
(***************************************************************************)
EXTENDS Integers, Sequences, FiniteSetsExt

CONSTANTS
  NumBlocks, SlotsPerBlock, \* file explored: blocks, destinations in each
  Lengths,                  \* lengths of matches explored
  Reach,                    \* bound: matches skip less than so many free slots
  maximum_save,             \* matches this long are not kept in memory
  USEFUL_CHUNK_SPACE,       \* bytes in a chunk of memory
  useful_memory,            \* bytes in all chunks within the memory limit
  VMBLOCK_SIZE,             \* bytes in a block of the temporary file
  RecordHeader, EndMark     \* bytes around the data of a match in it: 20, 4

ASSUME VmDecoderAssumption ==
  /\ {NumBlocks, SlotsPerBlock, USEFUL_CHUNK_SPACE, VMBLOCK_SIZE, RecordHeader,
      EndMark, Reach} \subseteq Nat \ {0}
  /\ {useful_memory, maximum_save} \subseteq Nat
  /\ useful_memory % USEFUL_CHUNK_SPACE = 0
  /\ Lengths \subseteq Nat \ {0} /\ Lengths # {}

Dests    == 1 .. NumBlocks * SlotsPerBlock
DestBlock(d) == (d - 1) \div SlotsPerBlock + 1
BarrierDest  == NumBlocks * SlotsPerBlock + 1   \* Offset(-1)

\* The source of a match does not matter any more; a mark has its block there
Matches == [dest : Dests, src : {0}, len : Lengths]

VARIABLES
  blk,         \* block being decoded
  heap,        \* lz_matches without the barrier: see Entry and Mark
  vmfile,      \* matches in each block of the temporary file
  free_blocks, \* stack of blocks whose matches have been read back
  pc,          \* what happens next
  cur,         \* the match to save, or the mark to restore
  base,        \* save_to_disk: destination of the entry lz.base() points to
  min_dest,    \* save_to_disk: destination of the last match saved
  vmbuf,       \* save_to_disk: matches in the block
  taken        \* destination of the last match copied

decoder == <<blk, taken>>
scan    == <<base, min_dest, vmbuf>>
vars    == <<decoder, heap, vmfile, free_blocks, pc, cur, scan>>

\* Match m in the heap; `saved`: its bytes are in memory (index is valid)
Entry(m, saved) == [dest |-> m.dest, src |-> m.src, len |-> m.len, saved |-> saved]
Match(e) == [dest |-> e.dest, src |-> e.src, len |-> e.len]

\* Mutant: the mark is not made one
MarkUnset(b, d) == [dest |-> d, src |-> b, len |-> 1, saved |-> FALSE]

\* set_marking_point(): a match of length 0 for block b of the file
Mark(b, d) == [dest |-> d, src |-> b, len |-> 0, saved |-> FALSE]
IsMark(e)  == e.len = 0
Marks      == {e \in heap : IsMark(e)}
NoMatch    == Mark(0, 0)

new_block == Len(vmfile)

First == CHOOSE e \in heap : \A f \in heap : e.dest <= f.dest
Due   == {e \in heap : DestBlock(e.dest) <= blk}

\* MEMORY_MANAGER: chunks of the matches in memory, and what is left
UsedChunks ==
  MapThenSumSet(LAMBDA e : (e.len - 1) \div USEFUL_CHUNK_SPACE + 1,
                {e \in heap : e.saved})

available_space ==
  IF useful_memory > UsedChunks * USEFUL_CHUNK_SPACE
  THEN useful_memory - UsedChunks * USEFUL_CHUNK_SPACE ELSE 0

OnDisk == UNION {vmfile[e.src] : e \in Marks}

\* All matches that have been given to the decoder and not been copied yet
Pending == {Match(e) : e \in heap \ Marks} \union OnDisk \union vmbuf
             \union (IF pc \in {"save", "scan, save"} THEN {Match(cur)} ELSE {})

\* Destinations that matches may still have, among the first free ones
FreeDests(b) ==
  LET free == {d \in Dests : DestBlock(d) >= b /\ d > taken
                               /\ \A m \in Pending : m.dest # d}
  IN  {d \in free : Cardinality({c \in free : c < d}) < Reach}

-----------------------------------------------------------------------------
(* decompress_FUTURE_LZ                                                    *)

\* 1. Matches within the block; their length does not matter here
AnyLength == CHOOSE n \in Lengths : TRUE

InsertMatches ==
  /\ pc = "insert"
  /\ \E D \in SUBSET {d \in FreeDests(blk) : DestBlock(d) = blk} :
       heap' = heap \union
         {Entry([dest |-> d, src |-> 0, len |-> AnyLength], FALSE) : d \in D}
  /\ pc' = "copy"
  /\ UNCHANGED <<decoder, vmfile, free_blocks, cur, scan>>

Missing == {m \in Pending : DestBlock(m.dest) <= blk}

\* 2. The first match.  One that comes too late is taken for bad data
CopyMatch ==
  /\ pc = "copy" /\ Due # {} /\ ~IsMark(First)
  /\ IF First.dest < taken \/ DestBlock(First.dest) < blk
       THEN pc' = "bad" /\ UNCHANGED <<heap, taken>>
       ELSE /\ taken' = First.dest
            /\ heap' = heap \ {First}
            /\ UNCHANGED pc
  /\ UNCHANGED <<blk, vmfile, free_blocks, cur, scan>>

RestoreCall ==
  /\ pc = "copy" /\ Due # {} /\ IsMark(First)
  /\ cur' = First
  /\ pc' = "restore"
  /\ UNCHANGED <<decoder, heap, vmfile, free_blocks, scan>>

\* The literals left must fill the block, which they do not if a match is missing
CopyTail ==
  /\ pc = "copy" /\ Due = {}
  /\ pc' = IF Missing = {} THEN "future" ELSE "bad"
  /\ UNCHANGED <<decoder, heap, vmfile, free_blocks, cur, scan>>

\* 3. A match with its destination in a later block
FutureMatch ==
  /\ pc = "future"
  /\ \E d \in FreeDests(blk + 1), n \in Lengths :
       LET m == [dest |-> d, src |-> 0, len |-> n]
       IN  IF n >= maximum_save
             THEN heap' = heap \union {Entry(m, FALSE)} /\ UNCHANGED <<cur, pc>>
             ELSE cur' = Entry(m, TRUE) /\ pc' = "save" /\ UNCHANGED heap
  /\ UNCHANGED <<decoder, vmfile, free_blocks, scan>>

SaveMatch ==
  /\ pc = "save" /\ cur.len <= available_space
  /\ heap' = heap \union {cur}
  /\ cur' = NoMatch
  /\ pc' = "future"
  /\ UNCHANGED <<decoder, vmfile, free_blocks, scan>>

\* The caller goes on with the next block; after the last one only the barrier
\* may be left in the heap
NextBlock ==
  /\ pc = "future"
  /\ IF blk < NumBlocks THEN blk' = blk + 1 /\ pc' = "insert"
     ELSE pc' = (IF heap = {} THEN "done" ELSE "bad") /\ UNCHANGED blk
  /\ UNCHANGED <<taken, heap, vmfile, free_blocks, cur, scan>>

-----------------------------------------------------------------------------
(* VIRTUAL_MEMORY_MANAGER                                                  *)

MoreMemory == \/ pc = "save" /\ cur.len > available_space
              \/ pc = "restore" /\ available_space < VMBLOCK_SIZE

\* save_to_disk(): lz starts at the barrier, which it passes at once
SaveToDisk ==
  /\ MoreMemory
  /\ pc' = IF pc = "save" THEN "scan, save" ELSE "scan, restore"
  /\ base' = BarrierDest /\ min_dest' = BarrierDest /\ vmbuf' = {}
  /\ UNCHANGED <<decoder, heap, vmfile, free_blocks, cur>>

Scanning == pc \in {"scan, save", "scan, restore"}

Below(d)   == {e \in heap : e.dest < d}
Nearest(d) == CHOOSE e \in Below(d) : \A f \in Below(d) : f.dest <= e.dest

\* Room in the block: vmbuf + VMBLOCK_SIZE - p
Room == VMBLOCK_SIZE - MapThenSumSet(LAMBDA m : RecordHeader + m.len, vmbuf)

Fits(e) == RecordHeader + EndMark + e.len <= Room

\* An entry without data in memory
ScanSkip ==
  /\ Scanning /\ Below(base) # {} /\ ~Nearest(base).saved
  /\ base' = Nearest(base).dest
  /\ UNCHANGED <<decoder, heap, vmfile, free_blocks, pc, cur, min_dest, vmbuf>>

\* What remains of lz after the entry at d was erased and `lz++`: it passes
\* over the entry before.  If there is none, this steps back from
\* begin(): undefined, and a red-black tree gives begin() or end()
AfterErase(d) == IF Below(d) # {} THEN {Nearest(d).dest} ELSE {d, BarrierDest}

\* Mutant: the mark stands where the last match of the block belongs
ScanSaveFirstDest ==
  /\ Scanning /\ Below(base) # {} /\ Nearest(base).saved /\ Fits(Nearest(base))
  /\ LET e == Nearest(base)
     IN  /\ vmbuf' = vmbuf \union {Match(e)}
         /\ min_dest' = IF vmbuf = {} THEN e.dest ELSE min_dest
         /\ heap' = {f \in heap : f.dest # e.dest}
         /\ base' \in AfterErase(e.dest)
  /\ UNCHANGED <<decoder, vmfile, free_blocks, pc, cur>>

\* A match goes to the block and leaves the heap and the memory
ScanSave ==
  /\ Scanning /\ Below(base) # {} /\ Nearest(base).saved /\ Fits(Nearest(base))
  /\ LET e == Nearest(base)
     IN  /\ vmbuf' = vmbuf \union {Match(e)}
         /\ min_dest' = e.dest
         /\ heap' = {f \in heap : f.dest # e.dest}
         /\ base' \in AfterErase(e.dest)
  /\ UNCHANGED <<decoder, vmfile, free_blocks, pc, cur>>

\* The block is full, or all of the heap has been seen: write it and mark it
BlockEnd == Below(base) # {} => Nearest(base).saved /\ ~Fits(Nearest(base))

WriteBlock ==
  /\ Scanning /\ BlockEnd
  /\ LET b == IF free_blocks = <<>> THEN new_block + 1 ELSE Head(free_blocks)
     IN  /\ vmfile' = IF b > new_block THEN Append(vmfile, vmbuf)
                      ELSE [vmfile EXCEPT ![b] = vmbuf]
         /\ free_blocks' = IF free_blocks = <<>> THEN <<>> ELSE Tail(free_blocks)
         /\ heap' = heap \union {Mark(b, min_dest)}
  /\ vmbuf' = {}
  /\ pc' = IF pc = "scan, save" THEN "save" ELSE "restore"
  /\ UNCHANGED <<decoder, cur, base, min_dest>>

\* Mutant: the block is read whatever memory there is
RestoreBlockAnyway ==
  /\ pc = "restore"
  /\ heap' = (heap \ {cur}) \union {Entry(m, TRUE) : m \in vmfile[cur.src]}
  /\ free_blocks' = <<cur.src>> \o free_blocks
  /\ cur' = NoMatch
  /\ pc' = "copy"
  /\ UNCHANGED <<decoder, vmfile, scan>>

\* restore_from_disk() once there is enough memory, and the caller's erase()
RestoreBlock ==
  /\ pc = "restore" /\ available_space >= VMBLOCK_SIZE
  /\ heap' = (heap \ {cur}) \union {Entry(m, TRUE) : m \in vmfile[cur.src]}
  /\ free_blocks' = <<cur.src>> \o free_blocks
  /\ cur' = NoMatch
  /\ pc' = "copy"
  /\ UNCHANGED <<decoder, vmfile, scan>>

-----------------------------------------------------------------------------
Init ==
  /\ blk = 1 /\ taken = 0 /\ heap = {}
  /\ vmfile = <<>> /\ free_blocks = <<>>
  /\ pc = "insert" /\ cur = NoMatch
  /\ base = BarrierDest /\ min_dest = BarrierDest /\ vmbuf = {}

Decode  == InsertMatches \/ CopyMatch \/ RestoreCall \/ CopyTail \/ FutureMatch
             \/ SaveMatch \/ NextBlock
Virtual == SaveToDisk \/ ScanSkip \/ ScanSave \/ WriteBlock \/ RestoreBlock
Next == Decode \/ Virtual

Spec == Init /\ [][Next]_vars

\* The decoder runs until it ends
FairSpec == Spec /\ WF_vars(Next)

-----------------------------------------------------------------------------

\* A mark is never later than any match in its block of the file: they are all
\* read back before the first of them is needed.  Holds as long as no scan of
\* save_to_disk() has stepped back from the first entry.
MarksInTime ==
  \A e \in Marks : \A m \in vmfile[e.src] : e.dest <= m.dest

\* A block of the file is marked once in the heap or free once, never both.
BlocksNotShared ==
  /\ \A e, f \in Marks : e.src = f.src => e = f
  /\ \A e \in Marks, n \in DOMAIN free_blocks : free_blocks[n] # e.src
  /\ \A m, n \in DOMAIN free_blocks : free_blocks[m] = free_blocks[n] => m = n

\* The scan of save_to_disk() does not step back from the first entry of the heap:
\* what it erases has another entry below it.  Whether this holds depends on the
\* lengths of the matches and the order in which they are in the heap.
ScanStaysInHeap ==
  Scanning /\ Below(base) # {} /\ Nearest(base).saved /\ Fits(Nearest(base)) =>
    Below(Nearest(base).dest) # {}

\* Swapping out and in again loses no match nor comes too late with it.
SwapInvariant == MarksInTime /\ BlocksNotShared

\* For all lengths: swapping goes wrong only if a scan stepped back before.
SwapSafe == []ScanStaysInHeap => []SwapInvariant

\* The data of all matches fits into the limit, also after a block was read.
MemoryWithinLimit == UsedChunks * USEFUL_CHUNK_SPACE <= useful_memory

\* Decoding comes to its end: no file is rejected because of where its matches
\* were kept, and no wait for memory is for ever.
DecodingEnds == <>(pc = "done")

\* For its caller the heap with its temporary file is one big heap in memory:
\* every match comes back, once, and in the order of destinations.
Queue == INSTANCE MatchQueue WITH pending <- Pending
ImplementsMatchQueue == Queue!Spec
=============================================================================
