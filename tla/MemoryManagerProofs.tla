------------------------ MODULE MemoryManagerProofs -------------------------
(***************************************************************************)
(* Proofs about MemoryManager: its invariant is inductive for blocks and   *)
(* chunks of every size, any names and any lengths.                        *)
(***************************************************************************)
EXTENDS MemoryManager, FiniteSetTheorems, TLAPS

LEMMA InitInv == ASSUME MemoryInit PROVE IInv
<1>1. NumChunks = 0
  BY MemoryManagerAssumption DEF MemoryInit, NumChunks
<1>2. {c \in 1 .. NumChunks - 1 : owner[c] # FreeList} = {}
  BY <1>1
<1>3. UsedCounted
  BY <1>2, FS_EmptySet DEF MemoryInit, UsedCounted
<1>4. TypeOK /\ FreeListLinked
  BY <1>1, MemoryManagerAssumption
     DEF MemoryInit, NoCall, TypeOK, FreeListLinked, NumFree, INVALID_INDEX
<1>5. Owned /\ Apart /\ HeldLinked /\ SaveLinked /\ RestoreLinked /\ FreeLinked
  BY <1>1 DEF MemoryInit, Owned, Apart, HeldLinked, SaveLinked, RestoreLinked, FreeLinked
<1> QED  BY <1>3, <1>4, <1>5 DEF IInv

LEMMA SaveCallInv == ASSUME IInv, SaveCall PROVE IInv'
<1> PICK v \in Names, n \in Lengths : Save(v, n)  BY DEF SaveCall
<1> USE MemoryManagerAssumption DEF Save, memory, ghost, INVALID_INDEX
<1>1. TypeOK'  BY DEF IInv, TypeOK, NumChunks
<1>2. Owned'  BY DEF IInv, Owned, NumChunks
<1>3. FreeListLinked' /\ UsedCounted'
  BY DEF IInv, FreeListLinked, UsedCounted, NumChunks, NumFree, IsChunk
<1>4. Apart'  BY DEF IInv, Apart, NumChunks
<1>5. HeldLinked'  BY DEF IInv, TypeOK, HeldLinked, ChunkOk, NumChunks, IsChunk
<1>6. SaveLinked'  BY DEF IInv, HeldLinked, SaveLinked, IsChunk
<1>7. RestoreLinked' /\ FreeLinked'  BY DEF RestoreLinked, FreeLinked
<1> QED  BY <1>1, <1>2, <1>3, <1>4, <1>5, <1>6, <1>7 DEF IInv

LEMMA SaveChunkInv == ASSUME IInv, SaveChunk PROVE IInv'
<1>c. PICK c : c = first_free  OBVIOUS
<1>b. PICK bytes : bytes = mymin(len - done, USEFUL_CHUNK_SPACE)  OBVIOUS
<1>f. PICK first : first = IF index # INVALID_INDEX THEN first_index ELSE c  OBVIOUS
<1>0. /\ pc = "save" /\ done < len /\ c # INVALID_INDEX
      /\ first_free' = next[c] /\ used_chunks' = used_chunks + 1
      /\ next' = IF index # INVALID_INDEX THEN [next EXCEPT ![index] = c] ELSE next
      /\ first_index' = first
      /\ index' = c
      /\ data' = [data EXCEPT ![c] = Bytes(name, done, bytes)]
      /\ done' = done + bytes
      /\ owner' = [owner EXCEPT ![c] = first]
      /\ place' = [place EXCEPT ![c] = done]
      /\ UNCHANGED <<block_addr, pc, name, len, buffer, answer, held>>
  BY <1>c, <1>b, <1>f DEF SaveChunk
<1>1. NumChunks \in Nat /\ NumChunks' = NumChunks
  BY <1>0, MemoryManagerAssumption DEF IInv, TypeOK, NumChunks
<1>2. IsChunk(c) /\ owner[c] = FreeList 
  BY <1>0, <1>c DEF IInv, FreeListLinked, IsChunk
<1>3. /\ bytes \in Nat /\ bytes >= 1
      /\ bytes <= len - done /\ bytes <= USEFUL_CHUNK_SPACE
  BY <1>0, <1>b, MemoryManagerAssumption DEF IInv, TypeOK, mymin
<1>4. ASSUME index # INVALID_INDEX
      PROVE  /\ IsChunk(index) /\ index # c /\ owner[index] = first_index
             /\ place[index] + USEFUL_CHUNK_SPACE = done
             /\ IsChunk(first_index) /\ owner[first_index] = first_index
             /\ place[first_index] = 0 /\ first_index # c
             /\ \A d \in 1 .. NumChunks - 1 : owner[d] = first_index =>
                  ChunkOk(first_index, d, name, len) /\ place[d] <= place[index]
  <2>1. /\ IsChunk(index) /\ owner[index] = first_index
        /\ IsChunk(first_index) /\ owner[first_index] = first_index
        /\ place[first_index] = 0
        /\ done = place[index] + mymin(len - place[index], USEFUL_CHUNK_SPACE)
        /\ \A d \in 1 .. NumChunks - 1 : owner[d] = first_index =>
                  ChunkOk(first_index, d, name, len) /\ place[d] <= place[index]
    BY <1>0, <1>4 DEF IInv, SaveLinked
  <2>2. first_index # FreeList
    BY <2>1 DEF IsChunk, FreeList
  <2>3. place[index] \in Nat /\ len \in Nat /\ done \in Nat
    BY <1>1, <2>1 DEF IInv, TypeOK, IsChunk
  <2>4. place[index] + USEFUL_CHUNK_SPACE = done
    BY <1>0, <2>1, <2>3, MemoryManagerAssumption DEF mymin
  <2> QED  BY <2>1, <2>2, <2>4, <1>2
<1>5. /\ first \notin DOMAIN held /\ IsChunk(first) /\ first # FreeList
      /\ index = INVALID_INDEX => /\ first = c /\ done = 0 /\ first_index = FreeList
                                  /\ \A d \in 0 .. NumChunks - 1 : owner[d] # c
      /\ index # INVALID_INDEX => first = first_index
  <2>1. first_index \notin DOMAIN held /\ (index = INVALID_INDEX => done = 0 /\ first_index = FreeList)
    BY <1>0 DEF IInv, SaveLinked, INVALID_INDEX, FreeList
  <2>2. c \notin DOMAIN held
    BY <1>2 DEF IInv, HeldLinked, FreeList, IsChunk
  <2>3. c # FreeList /\ c # Nobody
    BY <1>2 DEF IsChunk, FreeList, Nobody
  <2>4. ASSUME index = INVALID_INDEX, NEW d \in 0 .. NumChunks - 1
        PROVE  owner[d] # c
    BY <2>1, <2>2, <2>3, <2>4 DEF IInv, Owned, IsChunk, FreeList
  <2> QED  BY <1>f, <1>2, <1>4, <2>1, <2>2, <2>3, <2>4 DEF IsChunk, FreeList
<1>6. /\ first_free' = next[c]
      /\ \A d \in 0 .. NumChunks - 1 :
           /\ owner'[d] = IF d = c THEN first ELSE owner[d]
           /\ place'[d] = IF d = c THEN done ELSE place[d]
           /\ data'[d] = IF d = c THEN Bytes(name, done, bytes) ELSE data[d]
           /\ next'[d] = IF index # INVALID_INDEX /\ d = index THEN c ELSE next[d]
           /\ next[d] \in 0 .. NumChunks - 1 /\ owner[d] \in Int /\ place[d] \in Nat
  BY <1>0, <1>1 DEF IInv, TypeOK
<1>7. /\ len \in Nat /\ done \in Nat /\ done' = done + bytes /\ index' = c /\ first_index' = first
      /\ pc = "save" /\ pc' = "save" /\ len' = len /\ held' = held /\ name' = name
      /\ used_chunks \in Nat /\ used_chunks' = used_chunks + 1 /\ block_addr' = block_addr
      /\ done < len /\ first_free = c
      /\ USEFUL_CHUNK_SPACE \in Nat /\ USEFUL_CHUNK_SPACE > 0
  BY <1>0, <1>c, MemoryManagerAssumption DEF IInv, TypeOK
<1>8. TypeOK'
  <2>1. /\ first_free' \in Nat /\ index' \in Nat /\ first_index' \in Nat
        /\ len' \in Nat /\ done' \in 0 .. len' /\ used_chunks' \in Nat /\ block_addr' \in Nat
        /\ pc' \in {"idle", "save", "restore", "free"}
        /\ name' \in Names /\ len' \in Lengths
    BY <1>2, <1>3, <1>5, <1>6, <1>7 DEF IInv, TypeOK, IsChunk
  <2>2. /\ next' \in [0 .. NumChunks - 1 -> 0 .. NumChunks - 1]
        /\ owner' \in [0 .. NumChunks - 1 -> Int]
        /\ place' \in [0 .. NumChunks - 1 -> Nat]
        /\ DOMAIN data' = 0 .. NumChunks - 1
    <3>1. /\ next  \in [0 .. NumChunks - 1 -> 0 .. NumChunks - 1]
          /\ owner \in [0 .. NumChunks - 1 -> Int]
          /\ place \in [0 .. NumChunks - 1 -> Nat]
          /\ DOMAIN data = 0 .. NumChunks - 1
      BY DEF IInv, TypeOK
    <3>2. c \in 0 .. NumChunks - 1 /\ first \in Int
      BY <1>1, <1>2, <1>5 DEF IsChunk
    <3>3. next' \in [0 .. NumChunks - 1 -> 0 .. NumChunks - 1]
      BY <1>0, <3>1, <3>2
    <3>4. owner' \in [0 .. NumChunks - 1 -> Int]
      BY <1>0, <3>1, <3>2
    <3>5. place' \in [0 .. NumChunks - 1 -> Nat]
      BY <1>0, <1>7, <3>1, <3>2
    <3>6. DOMAIN data' = 0 .. NumChunks - 1
      BY <1>0, <3>1
    <3> QED  BY <3>3, <3>4, <3>5, <3>6
  <2> QED  BY <1>1, <2>1, <2>2 DEF TypeOK
<1>9. Owned'
  BY <1>1, <1>2, <1>5, <1>6, <1>7 DEF IInv, Owned, IsChunk
<1>10. FreeListLinked'
  <2>1. /\ NumFree = place[c] /\ place[c] \in 1 .. NumFree
        /\ used_chunks + NumFree + 1 = NumChunks /\ block_addr # 0
        /\ IF place[c] = 1 THEN next[c] = INVALID_INDEX
           ELSE /\ IsChunk(next[c]) /\ owner[next[c]] = FreeList
                /\ place[next[c]] = place[c] - 1
    BY <1>1, <1>2, <1>7 DEF IInv, FreeListLinked, NumFree, IsChunk, INVALID_INDEX, NumChunks
  <2>2. NumFree' = NumFree - 1 /\ first_free' # c
    BY <1>1, <1>2, <1>6, <1>7, <2>1 DEF NumFree, IsChunk, INVALID_INDEX
  <2>3. first_free' # INVALID_INDEX => IsChunk(first_free)' /\ owner'[first_free'] = FreeList
    BY <1>1, <1>2, <1>6, <2>1, <2>2 DEF IsChunk, INVALID_INDEX
  <2>4. ASSUME NEW d \in 1 .. NumChunks - 1, owner'[d] = FreeList
        PROVE  /\ place'[d] \in 1 .. NumFree'
               /\ IF place'[d] = 1 THEN next'[d] = INVALID_INDEX
                  ELSE /\ next'[d] \in 1 .. NumChunks - 1 /\ owner'[next'[d]] = FreeList
                       /\ place'[next'[d]] = place'[d] - 1
    <3>1. d # c /\ owner[d] = FreeList /\ (index # INVALID_INDEX => d # index)
      BY <1>4, <1>5, <1>6, <2>4
    <3>2. place[d] \in 1 .. NumFree /\ place[d] # place[c]
      BY <1>2, <3>1 DEF IInv, FreeListLinked, IsChunk
    <3>3. IF place[d] = 1 THEN next[d] = INVALID_INDEX
          ELSE /\ IsChunk(next[d]) /\ owner[next[d]] = FreeList
               /\ place[next[d]] = place[d] - 1
      BY <3>1 DEF IInv, FreeListLinked
    <3>4. next[d] # c
      BY <1>2, <1>6, <2>1, <3>2, <3>3 DEF IsChunk, INVALID_INDEX
    <3> QED  BY <1>1, <1>6, <2>1, <2>2, <3>1, <3>2, <3>3, <3>4 DEF IsChunk
  <2>5. ASSUME NEW d \in 1 .. NumChunks - 1, NEW e \in 1 .. NumChunks - 1,
               owner'[d] = FreeList, owner'[e] = FreeList, d # e
        PROVE  place'[d] # place'[e]
    BY <1>1, <1>5, <1>6, <2>5 DEF IInv, FreeListLinked
  <2> QED  BY <1>1, <1>2, <1>6, <1>7, <2>1, <2>2, <2>3, <2>4, <2>5
       DEF FreeListLinked, IsChunk
<1>11. Apart'
  <2> SUFFICES ASSUME NEW d \in 1 .. NumChunks - 1, NEW e \in 1 .. NumChunks - 1,
                      owner'[d] = owner'[e], owner'[d] # FreeList, d # e
               PROVE  \/ place'[d] + USEFUL_CHUNK_SPACE <= place'[e]
                      \/ place'[e] + USEFUL_CHUNK_SPACE <= place'[d]
    BY <1>1 DEF Apart
  <2>1. CASE d # c /\ e # c
    BY <1>6, <2>1 DEF IInv, Apart
  <2>2. CASE index # INVALID_INDEX /\ d = c
    BY <1>2, <1>4, <1>5, <1>6, <1>7, <2>2 DEF IsChunk
  <2>3. CASE index # INVALID_INDEX /\ e = c
    BY <1>2, <1>4, <1>5, <1>6, <1>7, <2>3 DEF IsChunk
  <2>4. CASE index = INVALID_INDEX /\ (d = c \/ e = c)
    BY <1>5, <1>6, <2>4
  <2> QED  BY <2>1, <2>2, <2>3, <2>4
<1>12. HeldLinked'
  <2>1. ASSUME NEW h \in DOMAIN held
        PROVE  /\ held[h].name \in Names /\ held[h].len \in Lengths
               /\ IsChunk(h)' /\ owner'[h] = h /\ place'[h] = 0
    BY <1>1, <1>2, <1>6 DEF IInv, HeldLinked, IsChunk, FreeList
  <2>2. ASSUME NEW d \in 1 .. NumChunks - 1, owner'[d] \in DOMAIN held
        PROVE  ChunkOk(owner[d], d, held[owner[d]].name, held[owner[d]].len)'
    <3>1. d # c /\ owner'[d] = owner[d] /\ (index # INVALID_INDEX => d # index)
      BY <1>4, <1>5, <1>6, <2>2
    <3>2. ChunkOk(owner[d], d, held[owner[d]].name, held[owner[d]].len)
      BY <2>2, <3>1 DEF IInv, HeldLinked
    <3>3. (pc = "save" /\ d = index) = FALSE
      BY <3>1 DEF INVALID_INDEX
    <3>4. owner[d] # FreeList
      BY <2>2, <3>1 DEF IInv, HeldLinked, IsChunk, FreeList
    <3> QED  BY <1>1, <1>2, <1>6, <1>7, <3>1, <3>2, <3>3, <3>4 DEF ChunkOk, IsChunk
  <2> QED  BY <1>1, <1>7, <2>1, <2>2 DEF HeldLinked
<1>13. SaveLinked'
  <2>1. ASSUME NEW d \in 1 .. NumChunks - 1, owner'[d] = first
        PROVE  ChunkOk(first_index, d, name, len)' /\ place'[d] <= place'[c]
    <3>1. CASE d = c
      <4>1. place'[d] = done /\ data'[d] = Bytes(name, done, bytes)
        BY <1>6, <3>1
      <4> QED  BY <1>b, <1>6, <1>7, <3>1, <4>1 DEF ChunkOk
    <3>2. CASE d # c /\ index # INVALID_INDEX /\ d # index
      <4>1. ChunkOk(first_index, d, name, len) /\ place[d] <= place[index] /\ owner[d] = first
        BY <1>4, <1>5, <1>6, <2>1, <3>2
      <4>2. place[d] + USEFUL_CHUNK_SPACE <= place[index]
        BY <1>4, <1>5, <1>6, <1>7, <3>2, <4>1 DEF IInv, Apart, IsChunk
      <4>3. /\ IsChunk(next[d]) /\ owner[next[d]] = first
            /\ place[next[d]] = place[d] + USEFUL_CHUNK_SPACE
            /\ next[d] # c
        BY <1>2, <1>4, <1>5, <1>6, <1>7, <3>2, <4>1, <4>2 DEF ChunkOk, IsChunk
      <4> QED  BY <1>1, <1>2, <1>4, <1>5, <1>6, <1>7, <3>2, <4>1, <4>2, <4>3 DEF ChunkOk, IsChunk
    <3>3. CASE d # c /\ index # INVALID_INDEX /\ d = index
      <4>1. ChunkOk(first_index, d, name, len)
        BY <1>4, <1>5, <1>6, <2>1, <3>3
      <4> QED  BY <1>1, <1>2, <1>4, <1>5, <1>6, <1>7, <3>3, <4>1 DEF ChunkOk, IsChunk
    <3>4. CASE d # c /\ index = INVALID_INDEX
      BY <1>5, <1>6, <2>1, <3>4
    <3> QED  BY <3>1, <3>2, <3>3, <3>4
  <2>2. /\ IsChunk(first)' /\ owner'[first] = first /\ place'[first] = 0
        /\ IsChunk(c)' /\ owner'[c] = first /\ place'[c] = done
    BY <1>1, <1>2, <1>4, <1>5, <1>6 DEF IsChunk
  <2>3. c # INVALID_INDEX
    BY <1>2 DEF IsChunk, INVALID_INDEX
  <2> QED  BY <1>b, <1>1, <1>5, <1>7, <2>1, <2>2, <2>3 DEF SaveLinked
<1>14. UsedCounted'
  <2> DEFINE Used == {d \in 1 .. NumChunks - 1 : owner[d] # FreeList}
  <2>1. IsFiniteSet(Used) /\ c \notin Used
    <3>1. IsFiniteSet(1 .. NumChunks - 1)
      BY <1>1, FS_Interval
    <3> QED  BY <1>2, <3>1, FS_Subset
  <2>2. Cardinality(Used \union {c}) = Cardinality(Used) + 1
    BY <2>1, FS_AddElement
  <2>3. {d \in 1 .. NumChunks' - 1 : owner'[d] # FreeList} = Used \union {c}
    BY <1>1, <1>2, <1>5, <1>6 DEF IsChunk
  <2> QED  BY <1>7, <2>2, <2>3 DEF IInv, UsedCounted
<1>15. RestoreLinked' /\ FreeLinked'  BY <1>7 DEF RestoreLinked, FreeLinked
<1> QED  BY <1>8, <1>9, <1>10, <1>11, <1>12, <1>13, <1>14, <1>15 DEF IInv

LEMMA AllocateBlockInv == ASSUME IInv, AllocateBlock PROVE IInv'
<1>0. /\ pc = "save" /\ done < len /\ first_free = INVALID_INDEX
      /\ block_addr' = block_addr + 1
      /\ next' = [c \in 0 .. (NumChunks + K) - 1 |->
                    IF c < NumChunks THEN next[c]
                    ELSE IF c < (NumChunks + K) - 1 THEN c + 1 ELSE first_free]
      /\ first_free' = IF NumChunks = INVALID_INDEX THEN 1 ELSE NumChunks
      /\ data' = [c \in 0 .. (NumChunks + K) - 1 |-> IF c < NumChunks THEN data[c] ELSE Garbage]
      /\ owner' = [c \in 0 .. (NumChunks + K) - 1 |->
                     IF c < NumChunks THEN owner[c]
                     ELSE IF c = 0 THEN Nobody ELSE FreeList]
      /\ place' = [c \in 0 .. (NumChunks + K) - 1 |->
                     IF c < NumChunks THEN place[c] ELSE (NumChunks + K) - c]
  BY DEF AllocateBlock
<1>u. /\ pc' = pc /\ len' = len /\ done' = done /\ index' = index /\ held' = held
      /\ first_index' = first_index /\ name' = name /\ used_chunks' = used_chunks
      /\ pc = "save" /\ done < len /\ first_free = INVALID_INDEX
      /\ block_addr' = block_addr + 1
      /\ first_free' = IF NumChunks = INVALID_INDEX THEN 1 ELSE NumChunks
  BY DEF AllocateBlock, call
<1>1. /\ NumChunks \in Nat /\ K \in Nat /\ K >= 2 /\ NumChunks' = NumChunks + K
      /\ NumChunks = 0 <=> block_addr = 0
  BY <1>u, MemoryManagerAssumption DEF IInv, TypeOK, NumChunks
<1>2. \A c \in 0 .. NumChunks - 1 :
        /\ owner'[c] = owner[c] /\ place'[c] = place[c]
        /\ data'[c] = data[c] /\ next'[c] = next[c]
        /\ next[c] \in 0 .. NumChunks - 1 /\ owner[c] \in Int /\ place[c] \in Nat
  <2> SUFFICES ASSUME NEW c \in 0 .. NumChunks - 1
               PROVE  /\ owner'[c] = owner[c] /\ place'[c] = place[c]
                      /\ data'[c] = data[c] /\ next'[c] = next[c]
                      /\ next[c] \in 0 .. NumChunks - 1
                      /\ owner[c] \in Int /\ place[c] \in Nat
    OBVIOUS
  <2>1. c \in 0 .. (NumChunks + K) - 1 /\ c < NumChunks
    BY <1>1
  <2>2. owner'[c] = owner[c] /\ place'[c] = place[c] /\ data'[c] = data[c] /\ next'[c] = next[c]
    BY <1>0, <2>1
  <2>3. next[c] \in 0 .. NumChunks - 1 /\ owner[c] \in Int /\ place[c] \in Nat
    BY DEF IInv, TypeOK
  <2> QED  BY <2>2, <2>3
<1>3. \A c \in NumChunks .. (NumChunks + K) - 1 :
        /\ owner'[c] = IF c = 0 THEN Nobody ELSE FreeList
        /\ place'[c] = (NumChunks + K) - c
        /\ next'[c] = IF c < (NumChunks + K) - 1 THEN c + 1 ELSE INVALID_INDEX
  BY <1>0, <1>u, <1>1
<1>4. \A c \in 1 .. NumChunks - 1 : owner[c] # FreeList
  BY <1>u, <1>1 DEF IInv, FreeListLinked, NumFree
<1>5. TypeOK'
  <2>1. next' \in [0 .. (NumChunks + K) - 1 -> 0 .. (NumChunks + K) - 1]
    <3>1. ASSUME NEW c \in 0 .. (NumChunks + K) - 1
          PROVE  next'[c] \in 0 .. (NumChunks + K) - 1
      <4>1. CASE c < NumChunks
        BY <1>1, <1>2, <4>1
      <4>2. CASE ~(c < NumChunks)
        BY <1>1, <1>3, <4>2 DEF INVALID_INDEX
      <4> QED  BY <4>1, <4>2
    <3>2. next' = [c \in 0 .. (NumChunks + K) - 1 |-> next'[c]]
      BY <1>0
    <3> QED  BY <3>1, <3>2
  <2>2. owner' \in [0 .. (NumChunks + K) - 1 -> Int]
    <3>1. ASSUME NEW c \in 0 .. (NumChunks + K) - 1
          PROVE  owner'[c] \in Int
      <4>1. CASE c < NumChunks
        BY <1>1, <1>2, <4>1
      <4>2. CASE ~(c < NumChunks)
        BY <1>1, <1>3, <4>2 DEF FreeList, Nobody
      <4> QED  BY <4>1, <4>2
    <3>2. owner' = [c \in 0 .. (NumChunks + K) - 1 |-> owner'[c]]
      BY <1>0
    <3> QED  BY <3>1, <3>2
  <2>3. place' \in [0 .. (NumChunks + K) - 1 -> Nat]
    <3>1. ASSUME NEW c \in 0 .. (NumChunks + K) - 1
          PROVE  place'[c] \in Nat
      <4>1. CASE c < NumChunks
        BY <1>1, <1>2, <4>1
      <4>2. CASE ~(c < NumChunks)
        BY <1>1, <1>3, <4>2
      <4> QED  BY <4>1, <4>2
    <3>2. place' = [c \in 0 .. (NumChunks + K) - 1 |-> place'[c]]
      BY <1>0
    <3> QED  BY <3>1, <3>2
  <2>4. DOMAIN data' = 0 .. (NumChunks + K) - 1
    BY <1>0
  <2>5. /\ block_addr' \in Nat /\ used_chunks' \in Nat /\ first_free' \in Nat
        /\ index' \in Nat /\ first_index' \in Nat /\ len' \in Nat /\ done' \in 0 .. len'
        /\ pc' \in {"idle", "save", "restore", "free"} /\ name' \in Names /\ len' \in Lengths
    BY <1>u, <1>1 DEF IInv, TypeOK
  <2> QED  BY <1>1, <2>1, <2>2, <2>3, <2>4, <2>5 DEF TypeOK
<1>6. Owned'
  BY <1>u, <1>1, <1>2, <1>3 DEF IInv, Owned
<1>7. FreeListLinked'
  <2>1. /\ first_free' \in 1 .. (NumChunks + K) - 1 /\ owner'[first_free'] = FreeList
        /\ first_free' # INVALID_INDEX
    BY <1>u, <1>1, <1>3 DEF INVALID_INDEX
  <2>2. NumFree' = IF NumChunks = 0 THEN K - 1 ELSE K
    BY <1>u, <1>1, <1>3, <2>1 DEF NumFree, INVALID_INDEX
  <2>3. used_chunks' + NumFree' + 1 = NumChunks'
    <3>1. used_chunks \in Nat /\ used_chunks' = used_chunks
      BY <1>u DEF IInv, TypeOK
    <3>2. used_chunks + 1 = IF block_addr = 0 THEN 1 ELSE NumChunks
      <4>1. NumFree = 0
        BY <1>u DEF NumFree
      <4>2. used_chunks + NumFree + 1 = IF block_addr = 0 THEN 1 ELSE NumChunks
        BY DEF IInv, FreeListLinked
      <4> QED  BY <1>1, <3>1, <4>1, <4>2
    <3> QED  BY <1>1, <2>2, <3>1, <3>2
  <2>4. ASSUME NEW c \in 1 .. (NumChunks + K) - 1, owner'[c] = FreeList
        PROVE  /\ place'[c] \in 1 .. NumFree'
               /\ IF place'[c] = 1 THEN next'[c] = INVALID_INDEX
                  ELSE /\ next'[c] \in 1 .. (NumChunks + K) - 1 /\ owner'[next'[c]] = FreeList
                       /\ place'[next'[c]] = place'[c] - 1
               /\ c >= NumChunks
    <3>1. c >= NumChunks
      BY <1>1, <1>2, <1>4, <2>4
    <3> QED  BY <1>1, <1>3, <2>2, <3>1
  <2>5. ASSUME NEW c \in 1 .. (NumChunks + K) - 1, NEW d \in 1 .. (NumChunks + K) - 1,
               owner'[c] = FreeList, owner'[d] = FreeList, c # d
        PROVE  place'[c] # place'[d]
    BY <1>1, <1>3, <2>4, <2>5
  <2> QED  BY <1>u, <1>1, <2>1, <2>3, <2>4, <2>5 DEF IInv, TypeOK, FreeListLinked, IsChunk
<1>8. Apart'
  BY <1>1, <1>2, <1>3 DEF IInv, Apart
<1>9. ASSUME NEW c \in 1 .. NumChunks - 1, NEW h, NEW v, NEW n, ChunkOk(h, c, v, n)
      PROVE  ChunkOk(h, c, v, n)'
  BY <1>u, <1>1, <1>2, <1>9 DEF ChunkOk, IsChunk
<1>10. HeldLinked'
  <2>1. ASSUME NEW h \in DOMAIN held
        PROVE  /\ held[h].name \in Names /\ held[h].len \in Lengths
               /\ IsChunk(h)' /\ owner'[h] = h /\ place'[h] = 0 /\ h # FreeList
    BY <1>1, <1>2 DEF IInv, HeldLinked, IsChunk, FreeList
  <2>2. ASSUME NEW c \in 1 .. (NumChunks + K) - 1, owner'[c] \in DOMAIN held
        PROVE  c \in 1 .. NumChunks - 1 /\ owner'[c] = owner[c]
    BY <1>1, <1>2, <1>3, <2>1, <2>2
  <2>3. ASSUME NEW c \in 1 .. NumChunks - 1, owner[c] \in DOMAIN held
        PROVE  ChunkOk(owner[c], c, held[owner[c]].name, held[owner[c]].len)
    BY <2>3 DEF IInv, HeldLinked
  <2>4. ASSUME NEW c \in 1 .. (NumChunks + K) - 1, owner'[c] \in DOMAIN held
        PROVE  ChunkOk(owner[c], c, held[owner[c]].name, held[owner[c]].len)'
    <3> PICK h, v, n : h = owner[c] /\ v = held[owner[c]].name /\ n = held[owner[c]].len
      OBVIOUS
    <3>1. ChunkOk(h, c, v, n)'
      BY <1>9, <2>2, <2>3, <2>4
    <3>2. h = owner'[c] /\ v = held'[owner'[c]].name /\ n = held'[owner'[c]].len
      BY <1>u, <2>2, <2>4
    <3> QED  BY <3>1, <3>2
  <2> QED  BY <1>u, <1>1, <2>1, <2>4 DEF HeldLinked
<1>11. SaveLinked'
  <2>1. CASE index = INVALID_INDEX
    BY <1>u, <2>1 DEF IInv, SaveLinked
  <2>2. CASE index # INVALID_INDEX
    <3>1. /\ IsChunk(first_index) /\ owner[first_index] = first_index
          /\ place[first_index] = 0
          /\ IsChunk(index) /\ owner[index] = first_index
          /\ done = place[index] + mymin(len - place[index], USEFUL_CHUNK_SPACE)
          /\ first_index \notin DOMAIN held
      BY <1>u, <2>2 DEF IInv, SaveLinked
    <3>2. \A c \in 1 .. NumChunks - 1 : owner[c] = first_index =>
             ChunkOk(first_index, c, name, len) /\ place[c] <= place[index]
      BY <1>u, <2>2 DEF IInv, SaveLinked
    <3>3. ASSUME NEW c \in 1 .. (NumChunks + K) - 1, owner'[c] = first_index
          PROVE  ChunkOk(first_index, c, name, len)' /\ place'[c] <= place'[index]
      <4>1. c \in 1 .. NumChunks - 1 /\ owner[c] = first_index
        BY <1>1, <1>2, <1>3, <3>1, <3>3 DEF IsChunk, FreeList
      <4>2. PICK h, v, n : h = first_index /\ v = name /\ n = len
        OBVIOUS
      <4>3. ChunkOk(h, c, v, n)'
        BY <1>9, <3>2, <4>1, <4>2
      <4>4. h = first_index' /\ v = name' /\ n = len'
        BY <1>u, <4>2
      <4> QED  BY <1>1, <1>2, <3>1, <3>2, <4>1, <4>3, <4>4 DEF IsChunk
    <3>4. /\ IsChunk(first_index)' /\ owner'[first_index] = first_index
          /\ place'[first_index] = 0
          /\ IsChunk(index)' /\ owner'[index] = first_index
          /\ place'[index] = place[index]
      BY <1>u, <1>1, <1>2, <3>1 DEF IsChunk
    <3> QED  BY <1>u, <1>1, <2>2, <3>1, <3>3, <3>4 DEF SaveLinked
  <2> QED  BY <2>1, <2>2
<1>12. RestoreLinked' /\ FreeLinked'  BY <1>u DEF RestoreLinked, FreeLinked
<1>13. UsedCounted'
  <2>1. ASSUME NEW c \in 1 .. NumChunks' - 1
        PROVE  owner'[c] # FreeList <=> c \in 1 .. NumChunks - 1 /\ owner[c] # FreeList
    BY <1>1, <1>2, <1>3
  <2>2. {c \in 1 .. NumChunks' - 1 : owner'[c] # FreeList}
          = {c \in 1 .. NumChunks - 1 : owner[c] # FreeList}
    BY <1>1, <2>1
  <2> QED  BY <1>u, <2>2 DEF IInv, UsedCounted
<1> QED  BY <1>5, <1>6, <1>7, <1>8, <1>10, <1>11, <1>12, <1>13 DEF IInv

\* Steps that touch no chunk
LEMMA ChunksUntouched ==
  ASSUME IInv, UNCHANGED <<memory, ghost>>
  PROVE  /\ FreeListLinked' /\ Apart' /\ UsedCounted'
         /\ NumChunks' = NumChunks
BY DEF IInv, memory, ghost, FreeListLinked, Apart, UsedCounted, NumChunks, NumFree, IsChunk

LEMMA RestoreCallInv == ASSUME IInv, RestoreCall PROVE IInv'
<1>1. PICK h \in DOMAIN held :
        /\ name' = held[h].name /\ len' = held[h].len
        /\ index' = h /\ first_index' = h
  BY DEF RestoreCall
<1>2. /\ pc = "idle" /\ pc' = "restore" /\ done' = 0 /\ buffer' = Garbage
      /\ held' = held
      /\ UNCHANGED <<memory, ghost>>
  BY DEF RestoreCall
<1>3. /\ FreeListLinked' /\ Apart' /\ UsedCounted' /\ NumChunks' = NumChunks
      /\ block_addr' = block_addr /\ first_free' = first_free
      /\ used_chunks' = used_chunks /\ next' = next /\ data' = data
      /\ owner' = owner /\ place' = place
  BY <1>2, ChunksUntouched DEF memory, ghost
<1>4. /\ name' \in Names /\ len' \in Lengths
      /\ h \in 1 .. NumChunks - 1 /\ owner[h] = h /\ place[h] = 0
      /\ ChunkOk(h, h, held[h].name, held[h].len)
  BY <1>1 DEF IInv, HeldLinked, IsChunk
<1>5. TypeOK'
  BY <1>1, <1>2, <1>3, <1>4, MemoryManagerAssumption DEF IInv, TypeOK
<1>6. Owned'
  BY <1>2, <1>3 DEF IInv, Owned
<1>7. HeldLinked'
  BY <1>2, <1>3 DEF IInv, HeldLinked, ChunkOk, IsChunk
<1>8. RestoreLinked'
  <2>1. Garbage = Bytes(held[h].name, 0, 0)
    BY DEF Garbage, Bytes
  <2> QED  BY <1>1, <1>2, <1>3, <1>4, <2>1 DEF RestoreLinked, IsChunk
<1>9. SaveLinked' /\ FreeLinked'  BY <1>2 DEF SaveLinked, FreeLinked
<1> QED  BY <1>3, <1>5, <1>6, <1>7, <1>8, <1>9 DEF IInv

LEMMA RestoreChunkInv == ASSUME IInv, RestoreChunk PROVE IInv'
<1>b. PICK bytes : bytes = mymin(len - done, USEFUL_CHUNK_SPACE)  OBVIOUS
<1>1. /\ pc = "restore" /\ pc' = "restore" /\ done < len /\ done' = done + bytes
      /\ name' = name /\ len' = len /\ first_index' = first_index /\ held' = held
      /\ index' = next[index]
      /\ buffer' = [m \in 0 .. done + bytes - 1 |->
                      IF m < done THEN buffer[m] ELSE data[index][m - done]]
      /\ UNCHANGED <<memory, ghost>>
  BY <1>b DEF RestoreChunk
<1>2. /\ FreeListLinked' /\ Apart' /\ UsedCounted' /\ NumChunks' = NumChunks
      /\ block_addr' = block_addr /\ first_free' = first_free
      /\ used_chunks' = used_chunks /\ next' = next /\ data' = data
      /\ owner' = owner /\ place' = place
  BY <1>1, ChunksUntouched DEF memory, ghost
<1>3. /\ first_index \in DOMAIN held
      /\ held[first_index].name = name /\ held[first_index].len = len
      /\ IsChunk(index) /\ owner[index] = first_index /\ place[index] = done
      /\ buffer = Bytes(name, 0, done)
      /\ done \in Nat /\ len \in Nat /\ next[index] \in 0 .. NumChunks - 1
      /\ USEFUL_CHUNK_SPACE \in Nat /\ USEFUL_CHUNK_SPACE > 0
  BY <1>1, MemoryManagerAssumption DEF IInv, RestoreLinked, TypeOK, IsChunk
<1>4. /\ bytes \in Nat /\ bytes > 0 /\ done + bytes <= len
      /\ done + bytes < len => bytes = USEFUL_CHUNK_SPACE
  BY <1>b, <1>1, <1>3 DEF mymin
<1>5. ChunkOk(first_index, index, name, len)
  BY <1>3 DEF IInv, HeldLinked, IsChunk
<1>6. TypeOK'
  BY <1>1, <1>2, <1>3, <1>4 DEF IInv, TypeOK
<1>7. Owned'
  BY <1>1, <1>2 DEF IInv, Owned
<1>8. HeldLinked'
  BY <1>1, <1>2 DEF IInv, HeldLinked, ChunkOk, IsChunk
<1>9. RestoreLinked'
  <2>1. data[index] = Bytes(name, done, bytes)
    BY <1>3, <1>5, <1>b DEF ChunkOk
  <2>2. ASSUME NEW m \in 0 .. done + bytes - 1
        PROVE  (IF m < done THEN buffer[m] ELSE data[index][m - done]) = <<name, 0 + m>>
    <3>1. CASE m < done
      BY <1>3, <1>4, <3>1 DEF Bytes
    <3>2. CASE ~(m < done)
      <4>1. m - done \in 0 .. bytes - 1 /\ done + (m - done) = 0 + m
        BY <1>3, <1>4, <3>2
      <4> QED  BY <2>1, <3>2, <4>1 DEF Bytes
    <3> QED  BY <3>1, <3>2
  <2>3. buffer' = Bytes(name', 0, done')
    <3>1. 0 .. done + bytes - 1 = 0 .. done' - 1
      BY <1>1, <1>3, <1>4
    <3>2. buffer' = [m \in 0 .. done + bytes - 1 |-> <<name, 0 + m>>]
      BY <1>1, <2>2
    <3> QED  BY <1>1, <3>1, <3>2 DEF Bytes
  <2>4. ASSUME done' < len'
        PROVE  IsChunk(index') /\ owner[index'] = first_index /\ place[index'] = done'
    BY <1>1, <1>3, <1>4, <1>5, <2>4 DEF ChunkOk
  <2>5. done' < len' => IsChunk(index)' /\ owner'[index'] = first_index' /\ place'[index'] = done'
    BY <1>1, <1>2, <2>4 DEF IsChunk
  <2> QED  BY <1>1, <1>3, <2>3, <2>5 DEF RestoreLinked
<1>10. SaveLinked' /\ FreeLinked'  BY <1>1 DEF SaveLinked, FreeLinked
<1> QED  BY <1>2, <1>6, <1>7, <1>8, <1>9, <1>10 DEF IInv

LEMMA RestoreReturnInv == ASSUME IInv, RestoreReturn PROVE IInv'
<1>1. /\ pc = "restore" /\ pc' = "idle" /\ held' = held
      /\ len' = 0 /\ done' = 0 /\ index' = INVALID_INDEX /\ first_index' = INVALID_INDEX
      /\ UNCHANGED <<memory, ghost>>
  BY DEF RestoreReturn, Return
<1>2. /\ FreeListLinked' /\ Apart' /\ UsedCounted' /\ NumChunks' = NumChunks
      /\ block_addr' = block_addr /\ first_free' = first_free
      /\ used_chunks' = used_chunks /\ next' = next /\ data' = data
      /\ owner' = owner /\ place' = place
  BY <1>1, ChunksUntouched DEF memory, ghost
<1>3. TypeOK'
  BY <1>1, <1>2 DEF IInv, TypeOK, INVALID_INDEX
<1>4. Owned'
  BY <1>1, <1>2 DEF IInv, Owned
<1>5. HeldLinked'
  BY <1>1, <1>2 DEF IInv, HeldLinked, ChunkOk, IsChunk
<1>6. SaveLinked' /\ RestoreLinked' /\ FreeLinked'
  BY <1>1 DEF SaveLinked, RestoreLinked, FreeLinked
<1> QED  BY <1>2, <1>3, <1>4, <1>5, <1>6 DEF IInv

LEMMA SaveReturnInv == ASSUME IInv, SaveReturn PROVE IInv'
<1>1. /\ pc = "save" /\ done = len /\ pc' = "idle"
      /\ next' = [next EXCEPT ![index] = INVALID_INDEX]
      /\ held' = [h \in DOMAIN held \union {first_index} |->
                    IF h = first_index THEN [name |-> name, len |-> len] ELSE held[h]]
      /\ len' = 0 /\ done' = 0 /\ index' = INVALID_INDEX /\ first_index' = INVALID_INDEX
      /\ block_addr' = block_addr /\ first_free' = first_free
      /\ used_chunks' = used_chunks /\ data' = data /\ owner' = owner /\ place' = place
  BY DEF SaveReturn, Return, ghost
<1>2. /\ NumChunks' = NumChunks /\ NumFree' = NumFree /\ NumChunks \in Nat
      /\ USEFUL_CHUNK_SPACE \in Nat /\ USEFUL_CHUNK_SPACE > 0
  BY <1>1, MemoryManagerAssumption DEF IInv, TypeOK, NumChunks, NumFree
<1>3. /\ len \in Lengths /\ len \in Nat /\ len > 0 /\ name \in Names
  BY <1>1, MemoryManagerAssumption DEF IInv, TypeOK
<1>4. /\ index # INVALID_INDEX /\ first_index \notin DOMAIN held
      /\ IsChunk(first_index) /\ owner[first_index] = first_index
      /\ place[first_index] = 0
      /\ IsChunk(index) /\ owner[index] = first_index
      /\ done = place[index] + mymin(len - place[index], USEFUL_CHUNK_SPACE)
      /\ \A c \in 1 .. NumChunks - 1 : owner[c] = first_index =>
           ChunkOk(first_index, c, name, len) /\ place[c] <= place[index]
  BY <1>1, <1>3 DEF IInv, SaveLinked
<1>5. /\ DOMAIN held' = DOMAIN held \union {first_index}
      /\ held'[first_index].name = name /\ held'[first_index].len = len
      /\ \A h \in DOMAIN held : held'[h] = held[h]
  BY <1>1, <1>4
<1>6. \A c \in 0 .. NumChunks - 1 :
        /\ next'[c] = IF c = index THEN INVALID_INDEX ELSE next[c]
        /\ next[c] \in 0 .. NumChunks - 1 /\ place[c] \in Nat
  BY <1>1, <1>2 DEF IInv, TypeOK
<1>7. TypeOK'
  <2>1. next' \in [0 .. NumChunks - 1 -> 0 .. NumChunks - 1]
    <3>1. next \in [0 .. NumChunks - 1 -> 0 .. NumChunks - 1]
      BY DEF IInv, TypeOK
    <3>2. 0 \in 0 .. NumChunks - 1
      BY <1>2, <1>4 DEF IsChunk
    <3> QED  BY <1>1, <3>1, <3>2 DEF INVALID_INDEX
  <2>2. /\ owner' \in [0 .. NumChunks - 1 -> Int]
        /\ place' \in [0 .. NumChunks - 1 -> Nat]
        /\ DOMAIN data' = 0 .. NumChunks - 1
        /\ block_addr' \in Nat /\ used_chunks' \in Nat /\ first_free' \in Nat
    BY <1>1 DEF IInv, TypeOK
  <2> QED  BY <1>1, <1>2, <2>1, <2>2 DEF TypeOK, INVALID_INDEX
<1>8. Owned'
  BY <1>1, <1>2, <1>5 DEF IInv, Owned
<1>9. FreeListLinked'
  <2>1. ASSUME NEW c \in 1 .. NumChunks - 1, owner[c] = FreeList
        PROVE  next'[c] = next[c]
    BY <1>4, <1>6, <2>1 DEF IsChunk, FreeList
  <2> QED  BY <1>1, <1>2, <2>1 DEF IInv, FreeListLinked, IsChunk
<1>10. Apart'
  BY <1>1, <1>2 DEF IInv, Apart
<1>11. ASSUME NEW c \in 1 .. NumChunks - 1, owner[c] \in DOMAIN held'
       PROVE  ChunkOk(owner[c], c, held[owner[c]].name, held[owner[c]].len)'
  <2>1. CASE owner[c] # first_index
    <3>1. ChunkOk(owner[c], c, held[owner[c]].name, held[owner[c]].len) /\ c # index
      BY <1>4, <1>5, <1>11, <2>1 DEF IInv, HeldLinked
    <3>2. held'[owner[c]] = held[owner[c]] /\ next'[c] = next[c]
      BY <1>5, <1>6, <1>11, <2>1, <3>1
    <3> QED  BY <1>1, <1>2, <3>1, <3>2 DEF ChunkOk, IsChunk
  <2>2. CASE owner[c] = first_index /\ c # index
    <3>1. ChunkOk(first_index, c, name, len) /\ next'[c] = next[c]
      BY <1>4, <1>6, <2>2
    <3> QED  BY <1>1, <1>2, <1>5, <2>2, <3>1 DEF ChunkOk, IsChunk
  <2>3. CASE c = index
    <3>1. ChunkOk(first_index, c, name, len) /\ next'[c] = INVALID_INDEX
          /\ owner[c] = first_index /\ place[c] \in Nat
      BY <1>4, <1>6, <2>3
    <3>2. place[c] + USEFUL_CHUNK_SPACE >= len
      BY <1>1, <1>2, <1>3, <1>4, <2>3, <3>1 DEF mymin
    <3> QED  BY <1>1, <1>2, <1>5, <3>1, <3>2 DEF ChunkOk, IsChunk
  <2> QED  BY <2>1, <2>2, <2>3
<1>12. HeldLinked'
  <2>1. ASSUME NEW h \in DOMAIN held'
        PROVE  /\ held'[h].name \in Names /\ held'[h].len \in Lengths
               /\ IsChunk(h)' /\ owner'[h] = h /\ place'[h] = 0
    BY <1>1, <1>2, <1>3, <1>4, <1>5 DEF IInv, HeldLinked, IsChunk
  <2> QED  BY <1>1, <1>2, <1>11, <2>1 DEF HeldLinked
<1>13. SaveLinked' /\ RestoreLinked' /\ FreeLinked'
  BY <1>1 DEF SaveLinked, RestoreLinked, FreeLinked
<1>14. UsedCounted'  BY <1>1, <1>2 DEF IInv, UsedCounted
<1> QED  BY <1>7, <1>8, <1>9, <1>10, <1>12, <1>13, <1>14 DEF IInv

LEMMA FreeCallInv == ASSUME IInv, FreeCall PROVE IInv'
<1>1. PICK h \in DOMAIN held :
        /\ name' = held[h].name /\ len' = held[h].len
        /\ index' = h /\ first_index' = h
        /\ held' = [g \in DOMAIN held \ {h} |-> held[g]]
  BY DEF FreeCall
<1>2. /\ pc = "idle" /\ pc' = "free" /\ done' = 0
      /\ UNCHANGED <<memory, ghost>>
  BY DEF FreeCall
<1>3. /\ FreeListLinked' /\ Apart' /\ UsedCounted' /\ NumChunks' = NumChunks
      /\ block_addr' = block_addr /\ first_free' = first_free
      /\ used_chunks' = used_chunks /\ next' = next /\ data' = data
      /\ owner' = owner /\ place' = place
  BY <1>2, ChunksUntouched DEF memory, ghost
<1>4. /\ name' \in Names /\ len' \in Lengths
      /\ h \in 1 .. NumChunks - 1 /\ owner[h] = h /\ place[h] = 0
      /\ \A c \in 1 .. NumChunks - 1 : owner[c] = h =>
           ChunkOk(h, c, held[h].name, held[h].len)
  BY <1>1 DEF IInv, HeldLinked, IsChunk
<1>5. TypeOK'
  BY <1>1, <1>2, <1>3, <1>4, MemoryManagerAssumption DEF IInv, TypeOK
<1>6. Owned'
  BY <1>1, <1>2, <1>3 DEF IInv, Owned
<1>7. HeldLinked'
  BY <1>1, <1>2, <1>3 DEF IInv, HeldLinked, ChunkOk, IsChunk
<1>8. FreeLinked'
  <2>1. ASSUME NEW c \in 1 .. NumChunks - 1, owner[c] = h
        PROVE  ChunkOk(first_index, c, name, len)' /\ place'[h] <= place'[c]
    <3>1. place[c] \in Nat
      BY DEF IInv, TypeOK
    <3> QED  BY <1>1, <1>2, <1>3, <1>4, <2>1, <3>1 DEF ChunkOk, IsChunk
  <2> QED  BY <1>1, <1>2, <1>3, <1>4, <2>1 DEF FreeLinked, IsChunk, INVALID_INDEX
<1>9. SaveLinked' /\ RestoreLinked'  BY <1>2 DEF SaveLinked, RestoreLinked
<1> QED  BY <1>3, <1>5, <1>6, <1>7, <1>8, <1>9 DEF IInv

LEMMA FreeReturnInv == ASSUME IInv, FreeReturn PROVE IInv'
<1>1. /\ pc = "free" /\ index = INVALID_INDEX /\ pc' = "idle" /\ held' = held
      /\ len' = 0 /\ done' = 0 /\ index' = INVALID_INDEX /\ first_index' = INVALID_INDEX
      /\ UNCHANGED <<memory, ghost>>
  BY DEF FreeReturn, Return
<1>2. /\ FreeListLinked' /\ Apart' /\ UsedCounted' /\ NumChunks' = NumChunks
      /\ block_addr' = block_addr /\ first_free' = first_free
      /\ used_chunks' = used_chunks /\ next' = next /\ data' = data
      /\ owner' = owner /\ place' = place
  BY <1>1, ChunksUntouched DEF memory, ghost
<1>3. TypeOK'
  BY <1>1, <1>2 DEF IInv, TypeOK, INVALID_INDEX
<1>4. Owned'
  BY <1>1, <1>2 DEF IInv, Owned, FreeLinked
<1>5. HeldLinked'
  BY <1>1, <1>2 DEF IInv, HeldLinked, ChunkOk, IsChunk
<1>6. SaveLinked' /\ RestoreLinked' /\ FreeLinked'
  BY <1>1 DEF SaveLinked, RestoreLinked, FreeLinked
<1> QED  BY <1>2, <1>3, <1>4, <1>5, <1>6 DEF IInv

LEMMA FreeChunkInv == ASSUME IInv, FreeChunk PROVE IInv'
<1>c. PICK c : c = index  OBVIOUS
<1>1. /\ pc = "free" /\ c # INVALID_INDEX
      /\ next' = [next EXCEPT ![c] = first_free]
      /\ first_free' = c
      /\ used_chunks' = used_chunks - 1
      /\ index' = next[c]
      /\ data' = [data EXCEPT ![c] = Garbage]
      /\ owner' = [owner EXCEPT ![c] = FreeList]
      /\ place' = [place EXCEPT ![c] = NumFree + 1]
      /\ pc' = pc /\ block_addr' = block_addr /\ name' = name /\ len' = len /\ done' = done
      /\ first_index' = first_index /\ held' = held
  BY <1>c DEF FreeChunk
<1>2. /\ NumChunks' = NumChunks /\ NumChunks \in Nat
      /\ USEFUL_CHUNK_SPACE \in Nat /\ USEFUL_CHUNK_SPACE > 0
  BY <1>1, MemoryManagerAssumption DEF IInv, TypeOK, NumChunks
<1>3. /\ first_index \notin DOMAIN held /\ first_index # INVALID_INDEX
      /\ IsChunk(c) /\ owner[c] = first_index
      /\ \A d \in 1 .. NumChunks - 1 : owner[d] = first_index =>
           ChunkOk(first_index, d, name, len) /\ place[c] <= place[d]
  BY <1>c, <1>1 DEF IInv, FreeLinked
<1>4. /\ NumFree \in Nat
      /\ used_chunks + NumFree + 1 = NumChunks
      /\ first_free # INVALID_INDEX => /\ IsChunk(first_free) /\ owner[first_free] = FreeList
                                       /\ place[first_free] = NumFree /\ NumFree > 0
      /\ first_free = INVALID_INDEX => NumFree = 0
  <2>1. first_free # INVALID_INDEX => IsChunk(first_free) /\ owner[first_free] = FreeList
    BY DEF IInv, FreeListLinked
  <2>2. first_free # INVALID_INDEX => place[first_free] = NumFree /\ NumFree > 0 /\ NumFree \in Nat
    BY <2>1 DEF IInv, FreeListLinked, NumFree, IsChunk
  <2>3. first_free = INVALID_INDEX => NumFree = 0
    BY DEF NumFree
  <2>4. block_addr # 0
    BY <1>3, MemoryManagerAssumption DEF NumChunks, IsChunk
  <2>5. used_chunks + NumFree + 1 = NumChunks
    BY <2>4 DEF IInv, FreeListLinked
  <2> QED  BY <2>1, <2>2, <2>3, <2>5
<1>5. \A d \in 0 .. NumChunks - 1 :
        /\ owner'[d] = IF d = c THEN FreeList ELSE owner[d]
        /\ place'[d] = IF d = c THEN NumFree + 1 ELSE place[d]
        /\ data'[d] = IF d = c THEN Garbage ELSE data[d]
        /\ next'[d] = IF d = c THEN first_free ELSE next[d]
        /\ next[d] \in 0 .. NumChunks - 1 /\ owner[d] \in Int /\ place[d] \in Nat
  BY <1>1 DEF IInv, TypeOK
<1> DEFINE Used == {d \in 1 .. NumChunks - 1 : owner[d] # FreeList}
<1>6. /\ used_chunks \in Nat /\ used_chunks > 0
      /\ UsedCounted'
  <2>1. IsFiniteSet(Used) /\ c \in Used
    <3>1. IsFiniteSet(1 .. NumChunks - 1)
      BY <1>2, FS_Interval
    <3>2. IsFiniteSet(Used)
      BY <3>1, FS_Subset
    <3> QED  BY <1>3, <3>2 DEF IsChunk, FreeList, INVALID_INDEX
  <2>2. /\ IsFiniteSet(Used \ {c}) /\ Cardinality(Used \ {c}) = Cardinality(Used) - 1
        /\ Cardinality(Used \ {c}) \in Nat
    BY <2>1, FS_RemoveElement, FS_CardinalityType
  <2>3. used_chunks = Cardinality(Used) /\ Cardinality(Used) \in Nat
    BY <2>1, FS_CardinalityType DEF IInv, UsedCounted
  <2>4. {d \in 1 .. NumChunks' - 1 : owner'[d] # FreeList} = Used \ {c}
    BY <1>2, <1>3, <1>5 DEF IsChunk
  <2>5. used_chunks \in Nat /\ used_chunks > 0 /\ used_chunks' = Cardinality(Used \ {c})
    <3> HIDE DEF Used
    <3> QED  BY <1>1, <2>2, <2>3
  <2> QED  BY <2>4, <2>5 DEF UsedCounted
<1>7. TypeOK'
  <2>1. /\ next  \in [0 .. NumChunks - 1 -> 0 .. NumChunks - 1]
        /\ owner \in [0 .. NumChunks - 1 -> Int]
        /\ place \in [0 .. NumChunks - 1 -> Nat]
        /\ DOMAIN data = 0 .. NumChunks - 1
    BY DEF IInv, TypeOK
  <2>2. first_free \in 0 .. NumChunks - 1
    BY <1>2, <1>3, <1>4 DEF IsChunk, INVALID_INDEX
  <2>3. next' \in [0 .. NumChunks - 1 -> 0 .. NumChunks - 1]
    BY <1>1, <2>1, <2>2
  <2>4. owner' \in [0 .. NumChunks - 1 -> Int]
    <3>1. FreeList \in Int /\ c \in 0 .. NumChunks - 1
      BY <1>2, <1>3 DEF FreeList, IsChunk
    <3> QED  BY <1>1, <2>1, <3>1
  <2>5. place' \in [0 .. NumChunks - 1 -> Nat]
    <3>1. NumFree + 1 \in Nat /\ c \in 0 .. NumChunks - 1
      BY <1>2, <1>3, <1>4 DEF IsChunk
    <3> QED  BY <1>1, <2>1, <3>1
  <2>6. DOMAIN data' = 0 .. NumChunks - 1
    BY <1>1, <2>1
  <2>7. /\ block_addr' \in Nat /\ used_chunks' \in Nat /\ first_free' \in Nat
        /\ index' \in Nat /\ first_index' \in Nat /\ len' \in Nat /\ done' \in 0 .. len'
        /\ pc' \in {"idle", "save", "restore", "free"}
        /\ name' \in Names /\ len' \in Lengths
    BY <1>1, <1>2, <1>3, <1>5, <1>6 DEF IInv, TypeOK, IsChunk
  <2> QED  BY <1>2, <2>3, <2>4, <2>5, <2>6, <2>7 DEF TypeOK
<1>8. Owned'
  BY <1>1, <1>2, <1>3, <1>5 DEF IInv, Owned, IsChunk
<1>9. FreeListLinked'
  <2>1. NumFree' = NumFree + 1
    BY <1>1, <1>2, <1>3, <1>5 DEF NumFree, IsChunk
  <2>2. ASSUME NEW d \in 1 .. NumChunks - 1, owner'[d] = FreeList
        PROVE  /\ place'[d] \in 1 .. NumFree'
               /\ IF place'[d] = 1 THEN next'[d] = INVALID_INDEX
                  ELSE /\ next'[d] \in 1 .. NumChunks - 1 /\ owner'[next'[d]] = FreeList
                       /\ place'[next'[d]] = place'[d] - 1
    <3>1. CASE d = c
      BY <1>3, <1>4, <1>5, <2>1, <3>1 DEF IsChunk, FreeList, INVALID_INDEX
    <3>2. CASE d # c
      <4>1. owner[d] = FreeList /\ next'[d] = next[d] /\ place'[d] = place[d]
        BY <1>5, <2>2, <3>2
      <4>2. /\ place[d] \in 1 .. NumFree
            /\ IF place[d] = 1 THEN next[d] = INVALID_INDEX
               ELSE /\ IsChunk(next[d]) /\ owner[next[d]] = FreeList
                    /\ place[next[d]] = place[d] - 1
        BY <4>1 DEF IInv, FreeListLinked
      <4>3. place[d] # 1 => next[d] # c
        BY <1>3, <4>2 DEF FreeList, INVALID_INDEX
      <4> QED  BY <1>4, <1>5, <2>1, <4>1, <4>2, <4>3 DEF IsChunk
    <3> QED  BY <3>1, <3>2
  <2>3. ASSUME NEW d \in 1 .. NumChunks - 1, NEW e \in 1 .. NumChunks - 1,
               owner'[d] = FreeList, owner'[e] = FreeList, d # e
        PROVE  place'[d] # place'[e]
    <3>1. \A f \in 1 .. NumChunks - 1 : owner[f] = FreeList => place[f] \in 1 .. NumFree
      BY DEF IInv, FreeListLinked
    <3>2. CASE d # c /\ e # c
      BY <1>5, <2>3, <3>2 DEF IInv, FreeListLinked
    <3>3. CASE d = c \/ e = c
      BY <1>4, <1>5, <2>3, <3>1, <3>3
    <3> QED  BY <3>2, <3>3
  <2>4. used_chunks' + NumFree' + 1 = NumChunks
    BY <1>1, <1>4, <1>6, <2>1
  <2>5. block_addr' # 0
    BY <1>1, <1>3, MemoryManagerAssumption DEF NumChunks, IsChunk
  <2>6. IsChunk(first_free)' /\ owner'[first_free'] = FreeList
    BY <1>1, <1>2, <1>3, <1>5 DEF IsChunk
  <2> QED  BY <1>2, <2>2, <2>3, <2>4, <2>5, <2>6 DEF FreeListLinked, IsChunk
<1>10. Apart'
  BY <1>2, <1>3, <1>5 DEF IInv, Apart, IsChunk
<1>11. ASSUME NEW d \in 1 .. NumChunks - 1, NEW h, NEW v, NEW n,
              d # c, owner[d] = h, h # FreeList, ChunkOk(h, d, v, n),
              \A e \in 1 .. NumChunks - 1 : e = c /\ owner[e] = h => place[e] <= place[d]
       PROVE  ChunkOk(h, d, v, n)'
  <2>1. next'[d] = next[d] /\ place'[d] = place[d] /\ data'[d] = data[d]
    BY <1>5, <1>11
  <2>2. (IsChunk(next[d]) /\ owner[next[d]] = h /\ place[next[d]] = place[d] + USEFUL_CHUNK_SPACE)
          => next[d] # c
    BY <1>2, <1>3, <1>5, <1>11 DEF IsChunk
  <2> QED  BY <1>1, <1>2, <1>5, <1>11, <2>1, <2>2 DEF ChunkOk, IsChunk
<1>12. HeldLinked'
  <2>1. ASSUME NEW h \in DOMAIN held
        PROVE  /\ held[h].name \in Names /\ held[h].len \in Lengths
               /\ IsChunk(h)' /\ owner'[h] = h /\ place'[h] = 0 /\ h # FreeList
    BY <1>2, <1>3, <1>5 DEF IInv, HeldLinked, IsChunk, FreeList
  <2>2. ASSUME NEW d \in 1 .. NumChunks - 1, owner'[d] \in DOMAIN held
        PROVE  ChunkOk(owner[d], d, held[owner[d]].name, held[owner[d]].len)'
    <3>1. d # c /\ owner'[d] = owner[d]
      BY <1>5, <2>1, <2>2
    <3> PICK h, v, n : h = owner[d] /\ v = held[owner[d]].name /\ n = held[owner[d]].len
      OBVIOUS
    <3>2. ChunkOk(h, d, v, n)
      BY <2>2, <3>1 DEF IInv, HeldLinked
    <3>3. ChunkOk(h, d, v, n)'
      BY <1>3, <1>11, <2>1, <2>2, <3>1, <3>2
    <3>4. h = owner'[d] /\ v = held'[owner'[d]].name /\ n = held'[owner'[d]].len
      BY <1>1, <3>1
    <3> QED  BY <3>3, <3>4
  <2> QED  BY <1>1, <1>2, <2>1, <2>2 DEF HeldLinked
<1>13. FreeLinked'
  <2>1. ASSUME NEW d \in 1 .. NumChunks - 1, owner'[d] = first_index
        PROVE  /\ ChunkOk(first_index, d, name, len)'
               /\ next[c] # INVALID_INDEX /\ place'[next[c]] <= place'[d]
    <3>1. d # c /\ owner[d] = first_index /\ first_index # FreeList
      BY <1>3, <1>5, <2>1 DEF FreeList, INVALID_INDEX
    <3>2. ChunkOk(first_index, d, name, len) /\ place[c] <= place[d]
      BY <1>3, <3>1
    <3>3. PICK h, v, n : h = first_index /\ v = name /\ n = len
      OBVIOUS
    <3>4. ChunkOk(h, d, v, n)'
      BY <1>11, <3>1, <3>2, <3>3
    <3>5. place[c] + USEFUL_CHUNK_SPACE <= place[d]
      BY <1>2, <1>3, <1>5, <3>1, <3>2 DEF IInv, Apart, IsChunk
    <3>6. /\ IsChunk(next[c]) /\ owner[next[c]] = first_index
          /\ place[next[c]] = place[c] + USEFUL_CHUNK_SPACE
      <4>1. ChunkOk(first_index, c, name, len)
        BY <1>3 DEF IsChunk
      <4>2. place[d] < len /\ place[c] \in Nat /\ place[d] \in Nat /\ len \in Nat
        BY <1>3, <1>5, <3>2 DEF ChunkOk, IsChunk, IInv, TypeOK
      <4>3. ~(pc = "save" /\ c = index)
        BY <1>1
      <4> QED  BY <1>2, <3>5, <4>1, <4>2, <4>3 DEF ChunkOk
    <3>7. next[c] # c /\ next[c] # INVALID_INDEX
      BY <1>2, <1>3, <1>5, <3>6 DEF IsChunk, INVALID_INDEX
    <3>8. h = first_index' /\ v = name' /\ n = len'
      BY <1>1, <3>3
    <3> QED  BY <1>2, <1>5, <3>1, <3>4, <3>5, <3>6, <3>7, <3>8 DEF IsChunk
  <2>2. ASSUME next[c] # INVALID_INDEX
        PROVE  next[c] \in 1 .. NumChunks - 1 /\ owner'[next[c]] = first_index
    BY <1>1, <1>2, <1>3, <1>5, <2>2 DEF ChunkOk, IsChunk
  <2> QED  BY <1>1, <1>2, <1>3, <2>1, <2>2 DEF FreeLinked, IsChunk
<1>14. SaveLinked' /\ RestoreLinked'  BY <1>1 DEF SaveLinked, RestoreLinked
<1> QED  BY <1>6, <1>7, <1>8, <1>9, <1>10, <1>12, <1>13, <1>14 DEF IInv

-----------------------------------------------------------------------------
LEMMA NextInv == ASSUME IInv, [MemoryNext]_memoryVars PROVE IInv'
<1>1. CASE SaveCall  BY <1>1, SaveCallInv
<1>2. CASE AllocateBlock  BY <1>2, AllocateBlockInv
<1>3. CASE SaveChunk  BY <1>3, SaveChunkInv
<1>4. CASE SaveReturn  BY <1>4, SaveReturnInv
<1>5. CASE RestoreCall  BY <1>5, RestoreCallInv
<1>6. CASE RestoreChunk  BY <1>6, RestoreChunkInv
<1>7. CASE RestoreReturn  BY <1>7, RestoreReturnInv
<1>8. CASE FreeCall  BY <1>8, FreeCallInv
<1>9. CASE FreeChunk  BY <1>9, FreeChunkInv
<1>10. CASE FreeReturn  BY <1>10, FreeReturnInv
<1>11. CASE UNCHANGED memoryVars
  <2>1. /\ NumChunks' = NumChunks /\ NumFree' = NumFree
        /\ block_addr' = block_addr /\ first_free' = first_free
        /\ used_chunks' = used_chunks /\ next' = next /\ data' = data
        /\ pc' = pc /\ name' = name /\ len' = len /\ done' = done
        /\ index' = index /\ first_index' = first_index /\ buffer' = buffer
        /\ held' = held /\ owner' = owner /\ place' = place
    BY <1>11 DEF memoryVars, memory, call, ghost, NumChunks, NumFree
  <2>2. TypeOK' /\ Owned' /\ UsedCounted' /\ Apart'
    BY <2>1 DEF IInv, TypeOK, Owned, UsedCounted, Apart
  <2>3. FreeListLinked'
    BY <2>1 DEF IInv, FreeListLinked, IsChunk
  <2>4. HeldLinked' /\ SaveLinked'
    BY <2>1 DEF IInv, HeldLinked, SaveLinked, ChunkOk, IsChunk
  <2>5. RestoreLinked' /\ FreeLinked'
    BY <2>1 DEF IInv, RestoreLinked, FreeLinked, ChunkOk, IsChunk
  <2> QED  BY <2>2, <2>3, <2>4, <2>5 DEF IInv
<1> QED
  BY <1>1, <1>2, <1>3, <1>4, <1>5, <1>6, <1>7, <1>8, <1>9, <1>10, <1>11 DEF MemoryNext, Step

\* The inductive invariant: every chunk is free or belongs to one area, the
\* free list has all free ones, each area is linked in its order.
THEOREM Invariance == MemorySpec => []IInv
<1>1. MemoryInit => IInv  BY InitInv
<1>2. IInv /\ [MemoryNext]_memoryVars => IInv'  BY NextInv
<1> QED  BY <1>1, <1>2, PTL DEF MemorySpec

\* Indices are always those of existing chunks, and used_chunks never falls
\* below zero (it is a size_t).
THEOREM TypeCorrect == MemorySpec => []TypeOK
<1>1. IInv => TypeOK  BY DEF IInv
<1> QED  BY <1>1, Invariance, PTL

\* restore() reads what was saved, for chunks and areas of every size and
\* after any sequence of calls.
THEOREM RestoreCorrect == MemorySpec => []RestoreReadsSaved
<1>1. IInv => RestoreReadsSaved
  <2> SUFFICES ASSUME IInv, pc = "restore", done < len
               PROVE  /\ index \in DOMAIN data
                      /\ data[index] = Bytes(name, done, mymin(len - done, USEFUL_CHUNK_SPACE))
    BY DEF RestoreReadsSaved
  <2>1. /\ first_index \in DOMAIN held
        /\ held[first_index].name = name /\ held[first_index].len = len
        /\ IsChunk(index) /\ owner[index] = first_index /\ place[index] = done
    BY DEF IInv, RestoreLinked
  <2>2. ChunkOk(first_index, index, name, len)
    BY <2>1 DEF IInv, HeldLinked, IsChunk
  <2>3. index \in DOMAIN data
    BY <2>1 DEF IInv, TypeOK, IsChunk
  <2> QED  BY <2>1, <2>2, <2>3 DEF ChunkOk
<1> QED  BY <1>1, Invariance, PTL

-----------------------------------------------------------------------------
\* The memory limit has at least one block, and its bytes are a size_t
LimitIsSize == MemLimit >= K /\ MemLimit * USEFUL_CHUNK_SPACE < SizeValues

\* Products with a positive number are ordered as their factors
LEMMA ProductOrder ==
  ASSUME NEW a \in Int, NEW b \in Int, NEW u \in Nat, u > 0
  PROVE  /\ a * u < b * u => a < b
         /\ a <= b => a * u <= b * u
         /\ (a + 1) * u = a * u + u /\ (a - 1) * u = a * u - u
<1>1. (a + 1) * u = a * u + u /\ (a - 1) * u = a * u - u
  OBVIOUS
<1>2. ASSUME a <= b PROVE a * u <= b * u
  <2>1. (b - a) * u >= 0
    BY <1>2
  <2>2. (b - a) * u = b * u - a * u
    OBVIOUS
  <2>3. a * u \in Int /\ b * u \in Int
    OBVIOUS
  <2> QED  BY <2>1, <2>2, <2>3
<1>3. ASSUME a * u < b * u PROVE a < b
  <2> SUFFICES ASSUME b <= a PROVE FALSE
    OBVIOUS
  <2>1. (a - b) * u >= 0
    OBVIOUS
  <2>2. (a - b) * u = a * u - b * u
    OBVIOUS
  <2>3. a * u \in Int /\ b * u \in Int
    OBVIOUS
  <2> QED  BY <1>3, <2>1, <2>2, <2>3
<1> QED  BY <1>1, <1>2, <1>3

\* The limit in whole blocks
LEMMA UsefulMemory ==
  ASSUME LimitIsSize
  PROVE  LET q == MemLimit \div K
         IN  /\ q \in Nat /\ q >= 1 /\ q * K <= MemLimit
             /\ useful_memory = (q * K - 1) * USEFUL_CHUNK_SPACE
<1> DEFINE q == MemLimit \div K
<1>1. K \in Nat /\ K >= 2 /\ USEFUL_CHUNK_SPACE \in Nat /\ USEFUL_CHUNK_SPACE > 0
      /\ MemLimit \in Nat /\ SizeValues \in Nat /\ SizeValues > 0
  BY MemoryManagerAssumption
<1>2. q \in Nat /\ q * K <= MemLimit /\ q >= 1
  BY <1>1 DEF LimitIsSize
<1> HIDE DEF q
<1>3. q * K \in Nat /\ q * K >= 1
  BY <1>1, <1>2
<1>4. (q * K - 1) * USEFUL_CHUNK_SPACE \in Nat
  BY <1>1, <1>3
<1>5. (q * K - 1) * USEFUL_CHUNK_SPACE <= MemLimit * USEFUL_CHUNK_SPACE
  BY <1>1, <1>2, <1>3, ProductOrder
<1>6. (q * K - 1) * USEFUL_CHUNK_SPACE < SizeValues
  BY <1>1, <1>4, <1>5 DEF LimitIsSize
<1>7. ((q * K - 1) * USEFUL_CHUNK_SPACE) % SizeValues = (q * K - 1) * USEFUL_CHUNK_SPACE
  BY <1>1, <1>4, <1>6
<1> QED  BY <1>2, <1>7 DEF useful_memory, q

LEMMA LimitNext ==
  ASSUME LimitIsSize, IInv, StillFits, BlocksFit, [MemoryNext]_memoryVars
  PROVE  StillFits' /\ BlocksFit'
<1> DEFINE q == MemLimit \div K
           U == USEFUL_CHUNK_SPACE
<1>0. /\ K \in Nat /\ K >= 2 /\ U \in Nat /\ U > 0 /\ MemLimit \in Nat
      /\ used_chunks \in Nat /\ block_addr \in Nat /\ len \in Nat /\ done \in Nat
      /\ done <= len
  BY MemoryManagerAssumption DEF IInv, TypeOK
<1>1. /\ q \in Nat /\ q >= 1 /\ q * K <= MemLimit
      /\ useful_memory = (q * K - 1) * U
  BY UsefulMemory
<1> HIDE DEF q, U
<1>q. q * K \in Nat /\ (q * K - 1) * U \in Int /\ used_chunks * U \in Nat
  BY <1>0, <1>1
<1>2. CASE SaveCall
  <2>1. PICK v \in Names, n \in Lengths : n <= available_space /\ Save(v, n)
    BY <1>2 DEF SaveCall
  <2>2. n \in Nat /\ n > 0
    BY MemoryManagerAssumption
  <2>3. /\ len' = n /\ done' = 0 /\ used_chunks' = used_chunks /\ block_addr' = block_addr
    BY <2>1 DEF Save, memory
  <2>4. used_chunks * U + n <= useful_memory
    BY <1>0, <1>1, <1>q, <2>1, <2>2 DEF available_space, U
  <2> QED  BY <2>2, <2>3, <2>4 DEF StillFits, BlocksFit, NumChunks, U
<1>3. CASE AllocateBlock
  <2>1. /\ pc = "save" /\ done < len /\ first_free = INVALID_INDEX
        /\ block_addr' = block_addr + 1
        /\ used_chunks' = used_chunks /\ len' = len /\ done' = done
    BY <1>3 DEF AllocateBlock, call
  <2>2. used_chunks * U < (q * K - 1) * U
    BY <1>0, <1>1, <1>q, <2>1 DEF StillFits, U
  <2>3. used_chunks < q * K - 1
    BY <1>0, <1>q, <2>2, ProductOrder
  <2>4. block_addr * K <= used_chunks + 1
    <3>1. NumFree = 0
      BY <2>1 DEF NumFree
    <3>2. used_chunks + NumFree + 1 = IF block_addr = 0 THEN 1 ELSE block_addr * K
      BY DEF IInv, FreeListLinked, NumChunks
    <3>3. block_addr = 0 => block_addr * K = 0
      BY <1>0
    <3> QED  BY <1>0, <3>1, <3>2, <3>3
  <2>5. block_addr * K < q * K /\ block_addr * K \in Nat
    BY <1>0, <1>q, <2>3, <2>4
  <2>6. block_addr < q
    BY <1>0, <1>1, <2>5, ProductOrder
  <2>7. (block_addr + 1) * K <= q * K /\ (block_addr + 1) * K \in Nat
    BY <1>0, <1>1, <2>6, ProductOrder
  <2>8. NumChunks' <= MemLimit
    BY <1>0, <1>1, <1>q, <2>1, <2>7 DEF NumChunks
  <2>9. StillFits'
    BY <2>1 DEF StillFits, useful_memory
  <2> QED  BY <2>8, <2>9 DEF BlocksFit
<1>4. CASE SaveChunk
  <2>1. PICK bytes : bytes = mymin(len - done, U)
    OBVIOUS
  <2>2. /\ pc = "save" /\ done < len /\ used_chunks' = used_chunks + 1
        /\ done' = done + bytes /\ len' = len /\ block_addr' = block_addr
    BY <1>4, <2>1 DEF SaveChunk, U
  <2>3. /\ used_chunks * U + (len - done) <= (q * K - 1) * U
        /\ (used_chunks + 1) * U = used_chunks * U + U
    BY <1>0, <1>1, <2>2, ProductOrder DEF StillFits, U
  <2>4. used_chunks' * U + (len' - done') <= (q * K - 1) * U
    <3>1. CASE len - done >= U
      <4>1. bytes = U
        BY <1>0, <2>1, <3>1 DEF mymin
      <4> QED  BY <1>0, <1>q, <2>2, <2>3, <4>1
    <3>2. CASE len - done < U
      <4>1. bytes = len - done
        BY <1>0, <2>1, <3>2 DEF mymin
      <4>2. used_chunks * U < (q * K - 1) * U
        BY <1>0, <1>q, <2>2, <2>3
      <4>3. used_chunks < q * K - 1
        BY <1>0, <1>q, <4>2, ProductOrder
      <4>4. (used_chunks + 1) * U <= (q * K - 1) * U
        BY <1>0, <1>q, <4>3, ProductOrder
      <4> QED  BY <1>0, <1>q, <2>2, <4>1, <4>4
    <3> QED  BY <1>0, <3>1, <3>2
  <2>5. useful_memory' = (q * K - 1) * U
    BY <1>1 DEF useful_memory
  <2> QED  BY <2>2, <2>4, <2>5 DEF StillFits, BlocksFit, NumChunks, U
<1>5. CASE SaveReturn \/ RestoreCall \/ RestoreChunk \/ RestoreReturn \/ FreeCall
             \/ FreeChunk \/ FreeReturn
  <2>1. pc' # "save" /\ block_addr' = block_addr
    BY <1>5 DEF SaveReturn, RestoreCall, RestoreChunk, RestoreReturn, FreeCall, FreeChunk,
       FreeReturn, Return, memory
  <2> QED  BY <2>1 DEF StillFits, BlocksFit, NumChunks
<1>6. CASE UNCHANGED memoryVars
  BY <1>6 DEF memoryVars, memory, call, StillFits, BlocksFit, NumChunks, useful_memory
<1> QED  BY <1>2, <1>3, <1>4, <1>5, <1>6 DEF MemoryNext, Step

\* The memory manager never takes more memory than its limit, if every area
\* that is saved fits into available_space() before: chunks that are partly
\* filled and chunk 0 are accounted for.
THEOREM LimitKept == ASSUME LimitIsSize PROVE MemorySpec => []MemoryWithinLimit
<1>1. MemoryInit => StillFits /\ BlocksFit
  BY MemoryManagerAssumption DEF MemoryInit, StillFits, BlocksFit, NumChunks
<1>2. IInv /\ StillFits /\ BlocksFit /\ [MemoryNext]_memoryVars => StillFits' /\ BlocksFit'
  BY LimitNext
<1>3. IInv /\ BlocksFit => MemoryWithinLimit
  BY DEF IInv, MemoryWithinLimit
<1> QED  BY <1>1, <1>2, <1>3, Invariance, PTL DEF MemorySpec

-----------------------------------------------------------------------------
(* The memory manager implements ChunkStore: the return of save() is the    *)
(* abstract Save, that of restore() is Restore, the call of free() is Free. *)

LEMMA StoreInit == MemoryInit => StoreSpec!Init
BY DEF MemoryInit, StoreSpec!Init, StoreSpec!Nothing, Store, Garbage

LEMMA SaveImplements ==
  ASSUME IInv, MemoryWithinLimit, SaveReturn
  PROVE  StoreSpec!Save
<1>1. /\ pc = "save" /\ done = len
      /\ held' = [h \in DOMAIN held \union {first_index} |->
                    IF h = first_index THEN [name |-> name, len |-> len] ELSE held[h]]
      /\ answer' = answer
  BY DEF SaveReturn
<1>2. len \in Lengths /\ name \in Names /\ len > 0
  BY <1>1, MemoryManagerAssumption DEF IInv, TypeOK
<1>3. /\ first_index \notin DOMAIN held
      /\ first_index \in 1 .. NumChunks - 1
  BY <1>1, <1>2 DEF IInv, SaveLinked, IsChunk
<1>4. first_index \in Handles \ DOMAIN Store
  <2>1. NumChunks \in Int /\ MemLimit \in Int /\ NumChunks <= MemLimit
    BY MemoryManagerAssumption DEF MemoryWithinLimit, BlocksFit, NumChunks, IInv, TypeOK
  <2> QED  BY <1>3, <2>1 DEF Handles, Store
<1>5. PICK c : c = Bytes(name, 0, len)  OBVIOUS
<1>6. c \in Contents
  BY <1>2, <1>5 DEF Contents
<1>7. Store' = [g \in DOMAIN Store \union {first_index} |->
                  IF g = first_index THEN c ELSE Store[g]]
  <2>1. /\ DOMAIN held' = DOMAIN held \union {first_index}
        /\ held'[first_index].name = name /\ held'[first_index].len = len
        /\ \A h \in DOMAIN held : held'[h] = held[h]
    BY <1>1, <1>3
  <2> HIDE <1>1
  <2>2. Store' = [h \in DOMAIN held' |-> Bytes(held'[h].name, 0, held'[h].len)]
    BY DEF Store, Bytes
  <2>3. DOMAIN Store = DOMAIN held
    BY DEF Store
  <2>4. \A h \in DOMAIN held : Store[h] = Bytes(held[h].name, 0, held[h].len)
    BY DEF Store
  <2> QED  BY <1>3, <1>5, <2>1, <2>2, <2>3, <2>4
<1> QED  BY <1>1, <1>4, <1>6, <1>7 DEF StoreSpec!Save

LEMMA RestoreImplements ==
  ASSUME IInv, RestoreReturn
  PROVE  StoreSpec!Restore
<1>1. /\ pc = "restore" /\ done = len
      /\ answer' = buffer /\ held' = held
  BY DEF RestoreReturn
<1>2. /\ first_index \in DOMAIN held
      /\ held[first_index].name = name /\ held[first_index].len = len
      /\ buffer = Bytes(name, 0, len)
  BY <1>1 DEF IInv, RestoreLinked
<1>3. first_index \in DOMAIN Store /\ Store[first_index] = buffer
  BY <1>2 DEF Store
<1>4. Store' = Store
  BY <1>1 DEF Store, Bytes
<1> QED  BY <1>1, <1>3, <1>4 DEF StoreSpec!Restore

LEMMA FreeImplements == ASSUME FreeCall PROVE StoreSpec!Free
<1>1. PICK h \in DOMAIN held : held' = [g \in DOMAIN held \ {h} |-> held[g]]
  BY DEF FreeCall
<1>2. answer' = answer
  BY DEF FreeCall
<1>3. h \in DOMAIN Store
  BY DEF Store
<1>4. Store' = [g \in DOMAIN Store \ {h} |-> Store[g]]
  BY <1>1 DEF Store, Bytes
<1> QED  BY <1>2, <1>3, <1>4 DEF StoreSpec!Free

LEMMA OthersStutter ==
  ASSUME \/ SaveCall \/ AllocateBlock \/ SaveChunk \/ RestoreCall \/ RestoreChunk
         \/ FreeChunk \/ FreeReturn \/ UNCHANGED memoryVars
  PROVE  UNCHANGED <<Store, answer>>
<1>1. held' = held /\ answer' = answer
  BY DEF SaveCall, Save, AllocateBlock, SaveChunk, RestoreCall, RestoreChunk, FreeChunk,
     FreeReturn, memoryVars
<1> QED  BY <1>1 DEF Store, Bytes

\* As long as the limit is the size it means to be, the memory manager is a
\* store of areas: restore() answers what save() was given, under a handle no
\* other area has, whatever was saved and freed in between.
THEOREM Implements == ASSUME LimitIsSize PROVE MemorySpec => ImplementsChunkStore
<1>1. IInv /\ MemoryWithinLimit /\ [MemoryNext]_memoryVars => [StoreSpec!Next]_<<Store, answer>>
  <2> SUFFICES ASSUME IInv, MemoryWithinLimit, [MemoryNext]_memoryVars
               PROVE  [StoreSpec!Next]_<<Store, answer>>
    OBVIOUS
  <2>1. CASE SaveReturn  BY <2>1, SaveImplements DEF StoreSpec!Next
  <2>2. CASE RestoreReturn  BY <2>2, RestoreImplements DEF StoreSpec!Next
  <2>3. CASE FreeCall  BY <2>3, FreeImplements DEF StoreSpec!Next
  <2>4. CASE \/ SaveCall \/ AllocateBlock \/ SaveChunk \/ RestoreCall \/ RestoreChunk
             \/ FreeChunk \/ FreeReturn \/ UNCHANGED memoryVars
    BY <2>4, OthersStutter
  <2> QED  BY <2>1, <2>2, <2>3, <2>4 DEF MemoryNext, Step
<1> QED  BY <1>1, StoreInit, Invariance, LimitKept, PTL
         DEF MemorySpec, ImplementsChunkStore, StoreSpec!Spec
=============================================================================
