--------------------------- MODULE MemoryManager ----------------------------
(***************************************************************************)
(* MEMORY_MANAGER (decompress.h, decompress.cpp): areas of any size kept   *)
(* in chunks of fixed size, each chunk holding the index of the next one.  *)
(* Chunks come from blocks of K; those not in use are a list, too, headed  *)
(* by first_free.  Index 0 means "no chunk", so chunk 0 is never used.     *)
(*                                                                         *)
(* Its only user is the Future-LZ decoder, which is sequential: one call   *)
(* at a time.  A call is one step per iteration of its loop.  Byte n of    *)
(* the area saved under the name v is <<v, n>>.                            *)
(***************************************************************************)
EXTENDS Integers, FiniteSets

CONSTANTS
  K,                  \* chunks in a block
  USEFUL_CHUNK_SPACE, \* bytes of data in a chunk
  MemLimit,           \* memlimit of the constructor, in chunks
  SizeValues,         \* 2^(width of size_t)
  Names, Lengths      \* areas explored: their names and sizes

ASSUME MemoryManagerAssumption ==
  /\ K \in Nat /\ K >= 2
  /\ USEFUL_CHUNK_SPACE \in Nat \ {0}
  /\ MemLimit \in Nat
  /\ SizeValues \in Nat \ {0}
  /\ Lengths \subseteq Nat \ {0}

INVALID_INDEX == 0

VARIABLES
  block_addr,   \* number of blocks allocated
  first_free,   \* first chunk of the list of free ones
  used_chunks,
  next,         \* "next chunk" field of each chunk
  data,         \* bytes in each chunk
  pc,           \* call in progress
  name, len,    \* its area: name and size
  done,         \* bytes saved or restored so far
  index,        \* last chunk saved, or next chunk to restore or to free
  first_index,  \* handle of the area
  buffer,       \* what restore() has copied to ptr
  answer,       \* what the last restore() had copied at its end
  held          \* areas the decoder holds: name and size for each handle

\* History variables, not in the code: the area (its handle) each chunk belongs
\* to, and where in it; for a free chunk, its distance from the end of the list.
VARIABLES owner, place

memory     == <<block_addr, first_free, used_chunks, next, data>>
call       == <<name, len, done, index, first_index>>
ghost      == <<owner, place>>
memoryVars == <<memory, pc, call, buffer, answer, held, ghost>>

FreeList == 0    \* "owner" of the free chunks
Nobody   == -1   \* owner of chunk 0
Garbage  == [m \in {} |-> m] \* contents of a chunk not in use
NoName   == ""

NumChunks == block_addr * K

Bytes(v, from, n) == [m \in 0 .. n - 1 |-> <<v, from + m>>]

mymin(a, b) == IF a < b THEN a ELSE b

\* Mutant: chunk 0 is counted as usable
useful_memory_all ==
  (((MemLimit \div K) * K) * USEFUL_CHUNK_SPACE) % SizeValues

\* The constructor, in the arithmetic of size_t
useful_memory ==
  (((MemLimit \div K) * K - 1) * USEFUL_CHUNK_SPACE) % SizeValues

available_space ==
  IF useful_memory > used_chunks * USEFUL_CHUNK_SPACE
  THEN useful_memory - used_chunks * USEFUL_CHUNK_SPACE ELSE 0

NoCall == /\ name = NoName /\ len = 0 /\ done = 0
          /\ index = INVALID_INDEX /\ first_index = INVALID_INDEX

MemoryInit ==
  /\ block_addr = 0 /\ first_free = INVALID_INDEX /\ used_chunks = 0
  /\ next = [c \in {} |-> INVALID_INDEX] /\ data = [c \in {} |-> Garbage]
  /\ pc = "idle" /\ NoCall
  /\ buffer = Garbage /\ answer = Garbage
  /\ held = [h \in {} |-> Garbage]
  /\ owner = [c \in {} |-> Nobody] /\ place = [c \in {} |-> 0]

Return ==
  /\ pc' = "idle"
  /\ name' = NoName /\ len' = 0 /\ done' = 0
  /\ index' = INVALID_INDEX /\ first_index' = INVALID_INDEX

-----------------------------------------------------------------------------
(* save()                                                                  *)

Save(v, n) ==
  /\ pc = "idle"
  /\ pc' = "save"
  /\ name' = v /\ len' = n /\ done' = 0
  /\ index' = INVALID_INDEX /\ first_index' = INVALID_INDEX
  /\ UNCHANGED <<memory, buffer, answer, held, ghost>>

\* decompress_FUTURE_LZ makes room first (decompress.cpp:387-389).  The other caller,
\* restore_from_disk, which tests for a whole block and then saves its matches one
\* after the other, is in VmDecoder
SaveCall == \E v \in Names, n \in Lengths : n <= available_space /\ Save(v, n)

NumFree == IF first_free = INVALID_INDEX THEN 0 ELSE place[first_free]

\* allocate_block(), called by allocate() when no chunk is free: the chunks of
\* the new block in order, before those of the list
AllocateBlock ==
  /\ pc = "save" /\ done < len /\ first_free = INVALID_INDEX
  /\ LET old == NumChunks
         new == old + K
     IN  /\ block_addr' = block_addr + 1
         /\ next' = [c \in 0 .. new - 1 |->
                       IF c < old THEN next[c]
                       ELSE IF c < new - 1 THEN c + 1 ELSE first_free]
         /\ first_free' = IF old = INVALID_INDEX THEN 1 ELSE old
         /\ data' = [c \in 0 .. new - 1 |-> IF c < old THEN data[c] ELSE Garbage]
         /\ owner' = [c \in 0 .. new - 1 |->
                        IF c < old THEN owner[c]
                        ELSE IF c = 0 THEN Nobody ELSE FreeList]
         /\ place' = [c \in 0 .. new - 1 |-> IF c < old THEN place[c] ELSE new - c]
  /\ UNCHANGED <<used_chunks, pc, call, buffer, answer, held>>

\* The loop: allocate a chunk, link it behind the one before, fill it
SaveChunk ==
  /\ pc = "save" /\ done < len /\ first_free # INVALID_INDEX
  /\ LET c     == first_free
         bytes == mymin(len - done, USEFUL_CHUNK_SPACE)
     IN  /\ first_free' = next[c]
         /\ used_chunks' = used_chunks + 1
         /\ next' = IF index # INVALID_INDEX THEN [next EXCEPT ![index] = c] ELSE next
         /\ first_index' = IF index # INVALID_INDEX THEN first_index ELSE c
         /\ index' = c
         /\ data' = [data EXCEPT ![c] = Bytes(name, done, bytes)]
         /\ done' = done + bytes
         /\ owner' = [owner EXCEPT ![c] = first_index']
         /\ place' = [place EXCEPT ![c] = done]
  /\ UNCHANGED <<block_addr, pc, name, len, buffer, answer, held>>

\* Mutant: the last chunk keeps its link into the free list
SaveReturnUnended ==
  /\ pc = "save" /\ done = len
  /\ held' = [h \in DOMAIN held \union {first_index} |->
                IF h = first_index THEN [name |-> name, len |-> len] ELSE held[h]]
  /\ Return
  /\ UNCHANGED <<block_addr, first_free, used_chunks, next, data, buffer, answer, ghost>>

SaveReturn ==
  /\ pc = "save" /\ done = len
  /\ next' = [next EXCEPT ![index] = INVALID_INDEX]
  /\ held' = [h \in DOMAIN held \union {first_index} |->
                IF h = first_index THEN [name |-> name, len |-> len] ELSE held[h]]
  /\ Return
  /\ UNCHANGED <<block_addr, first_free, used_chunks, data, buffer, answer, ghost>>

-----------------------------------------------------------------------------
(* restore()                                                               *)

RestoreCall ==
  /\ pc = "idle"
  /\ \E h \in DOMAIN held :
       /\ name' = held[h].name /\ len' = held[h].len
       /\ index' = h /\ first_index' = h
  /\ done' = 0
  /\ pc' = "restore"
  /\ buffer' = Garbage
  /\ UNCHANGED <<memory, answer, held, ghost>>

\* Mutant: ptr is not advanced
RestoreChunkSamePlace ==
  /\ pc = "restore" /\ done < len
  /\ LET bytes == mymin(len - done, USEFUL_CHUNK_SPACE)
     IN  /\ buffer' = [m \in DOMAIN buffer \union 0 .. bytes - 1 |->
                         IF m < bytes THEN data[index][m] ELSE buffer[m]]
         /\ done' = done + bytes
  /\ index' = next[index]
  /\ UNCHANGED <<memory, pc, name, len, first_index, answer, held, ghost>>

RestoreChunk ==
  /\ pc = "restore" /\ done < len
  /\ LET bytes == mymin(len - done, USEFUL_CHUNK_SPACE)
     IN  /\ buffer' = [m \in 0 .. done + bytes - 1 |->
                         IF m < done THEN buffer[m] ELSE data[index][m - done]]
         /\ done' = done + bytes
  /\ index' = next[index]
  /\ UNCHANGED <<memory, pc, name, len, first_index, answer, held, ghost>>

RestoreReturn ==
  /\ pc = "restore" /\ done = len
  /\ answer' = buffer
  /\ buffer' = Garbage
  /\ Return
  /\ UNCHANGED <<memory, held, ghost>>

-----------------------------------------------------------------------------
(* free().  What is in a free chunk is never used again: it is forgotten.   *)

FreeCall ==
  /\ pc = "idle"
  /\ \E h \in DOMAIN held :
       /\ name' = held[h].name /\ len' = held[h].len
       /\ index' = h /\ first_index' = h
       /\ held' = [g \in DOMAIN held \ {h} |-> held[g]]
  /\ done' = 0
  /\ pc' = "free"
  /\ UNCHANGED <<memory, buffer, answer, ghost>>

\* mark_as_free() after the next index has been read
FreeChunk ==
  /\ pc = "free" /\ index # INVALID_INDEX
  /\ next' = [next EXCEPT ![index] = first_free]
  /\ first_free' = index
  /\ used_chunks' = used_chunks - 1
  /\ index' = next[index]
  /\ data' = [data EXCEPT ![index] = Garbage]
  /\ owner' = [owner EXCEPT ![index] = FreeList]
  /\ place' = [place EXCEPT ![index] = NumFree + 1]
  /\ UNCHANGED <<block_addr, pc, name, len, done, first_index, buffer, answer, held>>

FreeReturn ==
  /\ pc = "free" /\ index = INVALID_INDEX
  /\ Return
  /\ UNCHANGED <<memory, buffer, answer, held, ghost>>

-----------------------------------------------------------------------------
Step == AllocateBlock \/ SaveChunk \/ SaveReturn \/ RestoreChunk
          \/ RestoreReturn \/ FreeChunk \/ FreeReturn

MemoryNext == SaveCall \/ RestoreCall \/ FreeCall \/ Step

MemorySpec == MemoryInit /\ [][MemoryNext]_memoryVars

-----------------------------------------------------------------------------
\* Every variable keeps its type: indices are those of chunks that exist, and
\* never more than a whole area has been saved or restored.
TypeOK ==
  /\ block_addr \in Nat /\ used_chunks \in Nat
  /\ next  \in [0 .. NumChunks - 1 -> 0 .. NumChunks - 1]
  /\ owner \in [0 .. NumChunks - 1 -> Int]
  /\ place \in [0 .. NumChunks - 1 -> Nat]
  /\ DOMAIN data = 0 .. NumChunks - 1
  /\ first_free \in Nat /\ index \in Nat /\ first_index \in Nat
  /\ len \in Nat /\ done \in 0 .. len
  /\ pc \in {"idle", "save", "restore", "free"}
  /\ pc # "idle" => name \in Names /\ len \in Lengths

\* restore() reads the chunk that the next bytes of the area were saved in,
\* however many areas were saved and freed in between.
RestoreReadsSaved ==
  pc = "restore" /\ done < len =>
    /\ index \in DOMAIN data
    /\ data[index] = Bytes(name, done, mymin(len - done, USEFUL_CHUNK_SPACE))

\* used_chunks, from which the decoder decides to swap, counts the chunks that
\* are not free
UsedCounted ==
  used_chunks = Cardinality({c \in 1 .. NumChunks - 1 : owner[c] # FreeList})

\* The memory taken from the system stays within the limit, as the user asked
\* ("amount of RAM used by future-LZ/index-LZ decompression"), and the count the
\* decoder compares with it does not drift in any sequence of calls.
BlocksFit == NumChunks <= MemLimit
MemoryWithinLimit == BlocksFit /\ UsedCounted

\* Areas are kept under their own handles and come back as they were saved.
Handles  == 1 .. MemLimit - 1
Contents == {Bytes(v, 0, n) : v \in Names, n \in Lengths}
Store    == [h \in DOMAIN held |-> Bytes(held[h].name, 0, held[h].len)]
StoreSpec == INSTANCE ChunkStore WITH store <- Store
ImplementsChunkStore == StoreSpec!Spec

-----------------------------------------------------------------------------
(* The inductive invariant behind these properties.  A chunk is free or     *)
(* belongs to one area; "owner" says to which, "place" where in it.         *)

\* No chunk is lost, none belongs to an area that is not there
Owned ==
  \A c \in 0 .. NumChunks - 1 :
    IF c = 0 THEN owner[c] = Nobody
    ELSE \/ owner[c] = FreeList
         \/ owner[c] \in DOMAIN held
         \/ pc \in {"save", "free"} /\ owner[c] = first_index

IsChunk(c) == c \in 1 .. NumChunks - 1

\* The list of free chunks has all of them, each one nearer to the end than
\* the one before; used_chunks counts the others
FreeListLinked ==
  /\ first_free # INVALID_INDEX => IsChunk(first_free) /\ owner[first_free] = FreeList
  /\ used_chunks + NumFree + 1 = IF block_addr = 0 THEN 1 ELSE NumChunks
  /\ \A c \in 1 .. NumChunks - 1 : owner[c] = FreeList =>
       /\ place[c] \in 1 .. NumFree
       /\ IF place[c] = 1 THEN next[c] = INVALID_INDEX
          ELSE /\ IsChunk(next[c]) /\ owner[next[c]] = FreeList
               /\ place[next[c]] = place[c] - 1
  /\ \A c, d \in 1 .. NumChunks - 1 :
       owner[c] = FreeList /\ owner[d] = FreeList /\ c # d => place[c] # place[d]

\* Chunk c of area h has the bytes of its place, and is linked to the chunk
\* of the next place, if the area has one
ChunkOk(h, c, v, n) ==
  /\ place[c] < n
  /\ data[c] = Bytes(v, place[c], mymin(n - place[c], USEFUL_CHUNK_SPACE))
  /\ ~(pc = "save" /\ c = index) =>
       IF place[c] + USEFUL_CHUNK_SPACE >= n THEN next[c] = INVALID_INDEX
       ELSE /\ IsChunk(next[c]) /\ owner[next[c]] = h
            /\ place[next[c]] = place[c] + USEFUL_CHUNK_SPACE

\* Different chunks of an area have different bytes of it
Apart ==
  \A c, d \in 1 .. NumChunks - 1 :
    owner[c] = owner[d] /\ owner[c] # FreeList /\ c # d =>
      \/ place[c] + USEFUL_CHUNK_SPACE <= place[d]
      \/ place[d] + USEFUL_CHUNK_SPACE <= place[c]

HeldLinked ==
  /\ \A h \in DOMAIN held :
       /\ held[h].name \in Names /\ held[h].len \in Lengths
       /\ IsChunk(h) /\ owner[h] = h /\ place[h] = 0
  /\ \A c \in 1 .. NumChunks - 1 : owner[c] \in DOMAIN held =>
       ChunkOk(owner[c], c, held[owner[c]].name, held[owner[c]].len)

SaveLinked ==
  pc = "save" =>
    /\ first_index \notin DOMAIN held
    /\ IF index = INVALID_INDEX THEN first_index = INVALID_INDEX /\ done = 0
       ELSE /\ IsChunk(first_index) /\ owner[first_index] = first_index
            /\ place[first_index] = 0
            /\ IsChunk(index) /\ owner[index] = first_index
            /\ done = place[index] + mymin(len - place[index], USEFUL_CHUNK_SPACE)
            /\ \A c \in 1 .. NumChunks - 1 : owner[c] = first_index =>
                 /\ ChunkOk(first_index, c, name, len)
                 /\ place[c] <= place[index]

RestoreLinked ==
  pc = "restore" =>
    /\ first_index \in DOMAIN held
    /\ held[first_index].name = name /\ held[first_index].len = len
    /\ done < len => /\ IsChunk(index) /\ owner[index] = first_index
                     /\ place[index] = done
    /\ buffer = Bytes(name, 0, done)

FreeLinked ==
  pc = "free" =>
    /\ first_index \notin DOMAIN held /\ first_index # INVALID_INDEX
    /\ index # INVALID_INDEX => IsChunk(index) /\ owner[index] = first_index
    /\ \A c \in 1 .. NumChunks - 1 : owner[c] = first_index =>
         /\ ChunkOk(first_index, c, name, len)
         /\ index # INVALID_INDEX /\ place[index] <= place[c]

\* The area being saved still fits, as long as the limit is met
StillFits ==
  pc = "save" => used_chunks * USEFUL_CHUNK_SPACE + (len - done) <= useful_memory

IInv == /\ TypeOK /\ Owned /\ FreeListLinked /\ UsedCounted /\ Apart /\ HeldLinked
        /\ SaveLinked /\ RestoreLinked /\ FreeLinked
=============================================================================
