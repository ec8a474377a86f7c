-------------------------- MODULE VmDecoderProofs ---------------------------
(***************************************************************************)
(* Proofs about VmDecoder for every size of file, memory, swap block and   *)
(* match: blocks of the file are not shared and no match is lost or held   *)
(* twice; and, as long as save_to_disk() does not step back from the first *)
(* entry of the heap, matches come back in time and in their order; what   *)
(* they take in memory stays within the limit, up to a bound.              *)
(***************************************************************************)
EXTENDS VmDecoder, FoldTheorems

-----------------------------------------------------------------------------
(* The inductive invariant.                                                *)

Entries     == [dest : Dests, src : {0}, len : Lengths, saved : BOOLEAN]
MarkEntries == [dest : 1 .. BarrierDest, src : 1 .. new_block, len : {0}, saved : {FALSE}]

Saving    == pc \in {"save", "scan, save"}
Restoring == pc \in {"restore", "scan, restore"}

VmTypes ==
  /\ heap \subseteq Entries \union MarkEntries
  /\ vmfile \in Seq(SUBSET Matches) /\ free_blocks \in Seq(1 .. new_block)
  /\ pc \in {"insert", "copy", "future", "save", "scan, save", "restore",
             "scan, restore", "done", "bad"}
  /\ Saving => cur \in Entries
  /\ Restoring => cur \in Marks
  /\ base \in 1 .. BarrierDest /\ min_dest \in 1 .. BarrierDest
  /\ vmbuf \subseteq Matches /\ (~Scanning => vmbuf = {})
  /\ taken \in Nat

\* Matches in the temporary file, or on their way there
Away == OnDisk \union vmbuf

\* A match is in the heap, in one block of the file, or on its way
MatchesApart ==
  /\ \A e, f \in heap \ Marks : e.dest = f.dest => e = f
  /\ \A e \in heap \ Marks, m \in Away : m.dest # e.dest
  /\ \A m, n \in Away : m.dest = n.dest => m = n
  /\ \A m \in vmbuf, e \in Marks : m \notin vmfile[e.src]
  /\ \A e, f \in Marks : e # f => vmfile[e.src] \intersect vmfile[f.src] = {}
  /\ Saving => /\ \A m \in Away : m.dest # cur.dest
               /\ \A e \in heap \ Marks : e.dest # cur.dest

\* A mark stands where one of the matches of its block goes
StandsFor(d, S) == IF S = {} THEN d = BarrierDest ELSE \E m \in S : m.dest = d
MarksStand ==
  /\ \A e \in Marks : StandsFor(e.dest, vmfile[e.src])
  /\ Scanning => StandsFor(min_dest, vmbuf)

IInv == VmTypes /\ BlocksNotShared /\ MatchesApart /\ MarksStand

\* The scan goes downwards
ScanOrder ==
  Scanning => base <= min_dest /\ \A m \in vmbuf : min_dest <= m.dest

OInv == IInv /\ MarksInTime /\ ScanOrder

-----------------------------------------------------------------------------
(* Numbers and the heap.                                                   *)

LEMMA Sizes ==
  /\ BarrierDest \in Nat \ {0} /\ Dests = 1 .. BarrierDest - 1 /\ Dests \subseteq Nat \ {0}
  /\ 0 \notin Lengths /\ AnyLength \in Lengths
  /\ BarrierDest \in 1 .. BarrierDest /\ Dests \subseteq 1 .. BarrierDest
<1>1. NumBlocks * SlotsPerBlock \in Nat \ {0}
  BY VmDecoderAssumption
<1>2. AnyLength \in Lengths
  BY VmDecoderAssumption DEF AnyLength
<1>3. BarrierDest \in Nat \ {0} /\ Dests = 1 .. BarrierDest - 1
  <2>1. PICK n \in Nat \ {0} : n = NumBlocks * SlotsPerBlock
    BY <1>1
  <2>2. QED BY <2>1 DEF BarrierDest, Dests
<1>4. QED BY <1>2, <1>3, VmDecoderAssumption

LEMMA HeapFacts ==
  ASSUME VmTypes
  PROVE  /\ \A e \in heap : e.dest \in 1 .. BarrierDest /\ e.dest \in Nat
         /\ Marks \subseteq heap /\ Marks \subseteq MarkEntries
         /\ heap \ Marks \subseteq Entries
         /\ \A e \in MarkEntries : IsMark(e) /\ ~e.saved /\ e.src \in 1 .. new_block
         /\ \A e \in Entries : ~IsMark(e) /\ e.dest \in Dests /\ Match(e) \in Matches
         /\ new_block \in Nat /\ \A b \in 1 .. new_block : vmfile[b] \subseteq Matches
         /\ \A m \in Matches : m.dest \in Dests
<1>1. \A e \in MarkEntries : IsMark(e) /\ ~e.saved /\ e.src \in 1 .. new_block
                               /\ e.dest \in 1 .. BarrierDest
  BY DEF MarkEntries, IsMark
<1>2. \A e \in Entries : ~IsMark(e) /\ e.dest \in Dests /\ Match(e) \in Matches
  BY Sizes DEF Entries, IsMark, Match, Matches
<1>3. /\ new_block \in Nat /\ \A b \in 1 .. new_block : vmfile[b] \subseteq Matches
      /\ \A m \in Matches : m.dest \in Dests
  <2>1. \A m \in Matches : m.dest \in Dests
    BY DEF Matches
  <2>2. vmfile \in Seq(SUBSET Matches) /\ new_block = Len(vmfile)
    BY DEF VmTypes, new_block
  <2>3. new_block \in Nat /\ \A b \in 1 .. new_block : vmfile[b] \in SUBSET Matches
    BY <2>2
  <2>4. QED BY <2>1, <2>3
<1>4. \A e \in heap : e \in Entries \/ e \in MarkEntries
  BY DEF VmTypes
<1>5. \A e \in heap : e.dest \in 1 .. BarrierDest /\ e.dest \in Nat
  BY <1>1, <1>2, <1>4, Sizes
<1>6. Marks \subseteq heap /\ Marks \subseteq MarkEntries /\ heap \ Marks \subseteq Entries
  BY <1>1, <1>2, <1>4 DEF Marks
<1>7. QED BY <1>1, <1>2, <1>3, <1>5, <1>6

LEMMA FirstFacts ==
  ASSUME VmTypes, heap # {}
  PROVE  First \in heap /\ \A f \in heap : First.dest <= f.dest
<1> DEFINE T == {e.dest : e \in heap}
<1>1. T \subseteq Nat /\ T # {}
  BY HeapFacts
<1>2. \E x \in T : \A y \in T : x <= y
  BY <1>1, Least
<1>3. \E e \in heap : \A f \in heap : e.dest <= f.dest
  BY <1>2
<1>4. QED BY <1>3 DEF First

LEMMA LastFacts ==
  ASSUME VmTypes, NEW d \in 1 .. BarrierDest, Below(d) # {}
  PROVE  Nearest(d) \in heap /\ Nearest(d).dest < d /\ Nearest(d).dest \in 1 .. BarrierDest
           /\ \A f \in heap : f.dest < d => f.dest <= Nearest(d).dest
<1> DEFINE T == {BarrierDest - e.dest : e \in Below(d)}
<1>1. \A e \in Below(d) : e \in heap /\ e.dest \in 1 .. BarrierDest /\ e.dest < d
  BY HeapFacts DEF Below
<1>2. T \subseteq Nat /\ T # {}
  BY <1>1, Sizes
<1>3. PICK x \in T : \A y \in T : x <= y
  BY <1>2, Least
<1>4. PICK e \in Below(d) : x = BarrierDest - e.dest
  BY <1>3
<1>5. \A f \in Below(d) : f.dest <= e.dest
  <2>1. ASSUME NEW f \in Below(d) PROVE f.dest <= e.dest
    <3>1. x <= BarrierDest - f.dest
      BY <1>3
    <3>2. QED BY <3>1, <1>1, <1>4, Sizes
  <2>2. QED BY <2>1
<1>6. Nearest(d) \in Below(d) /\ \A f \in Below(d) : f.dest <= Nearest(d).dest
  BY <1>5 DEF Nearest
<1>7. QED BY <1>6, <1>1 DEF Below

\* Entries have destinations of their own; only the marks of empty blocks share one
LEMMA DestsApart ==
  ASSUME IInv, NEW e \in heap \ Marks, NEW f \in heap, e.dest = f.dest
  PROVE  e = f
<1>1. CASE f \in Marks
  <2>1. StandsFor(f.dest, vmfile[f.src])
    BY <1>1 DEF IInv, MarksStand
  <2>2. e.dest \in Dests /\ e.dest # BarrierDest
    BY HeapFacts, Sizes DEF IInv
  <2>3. PICK m \in vmfile[f.src] : m.dest = f.dest
    BY <2>1, <2>2 DEF StandsFor
  <2>4. m \in Away
    BY <2>3, <1>1 DEF Away, OnDisk
  <2>5. QED BY <2>3, <2>4 DEF IInv, MatchesApart
<1>2. CASE f \notin Marks
  BY <1>2 DEF IInv, MatchesApart
<1>3. QED BY <1>1, <1>2

\* What is saved leaves the heap, and nothing else
LEMMA SavedEntry ==
  ASSUME IInv, Scanning, Below(base) # {}, Nearest(base).saved
  PROVE  /\ Nearest(base) \in heap \ Marks /\ Nearest(base) \in Entries
         /\ {f \in heap : f.dest # Nearest(base).dest} = heap \ {Nearest(base)}
         /\ Nearest(base).dest < base
<1>1. VmTypes /\ base \in 1 .. BarrierDest
  BY DEF IInv, VmTypes
<1>2. Nearest(base) \in heap /\ Nearest(base).dest < base
  BY <1>1, LastFacts
<1>3. Nearest(base) \notin Marks /\ Nearest(base) \in Entries
  BY <1>1, <1>2, HeapFacts
<1>4. \A f \in heap : f.dest = Nearest(base).dest => f = Nearest(base)
  BY <1>2, <1>3, DestsApart
<1>5. QED BY <1>2, <1>3, <1>4

-----------------------------------------------------------------------------
(* What a step does to the heap, the file and the matches kept.            *)

USE DEF decoder, scan

\* Marks stay, whatever entries are added or taken away
LEMMA MarksAfter ==
  ASSUME VmTypes, NEW A, A \subseteq Entries, NEW B, B \subseteq Entries,
         heap' = (heap \ B) \union A
  PROVE  Marks' = Marks /\ heap' \ Marks' = ((heap \ Marks) \ B) \union A
<1>1. \A e \in Entries : ~IsMark(e)
  BY HeapFacts
<1>2. QED BY <1>1 DEF Marks, IsMark

\* Steps that move no match
LEMMA Steady ==
  ASSUME IInv, UNCHANGED <<heap, vmfile, free_blocks, taken>>, vmbuf' = {} /\ vmbuf = {},
         pc' \in {"insert", "copy", "future", "save", "scan, save", "restore",
                  "scan, restore", "done", "bad"},
         Saving' => Saving /\ cur' = cur,
         Restoring' => cur' \in Marks,
         base' \in 1 .. BarrierDest, min_dest' \in 1 .. BarrierDest,
         Scanning' => min_dest' = BarrierDest
  PROVE  IInv'
<1>1. Marks' = Marks /\ OnDisk' = OnDisk /\ Away' = Away /\ new_block' = new_block
  BY DEF Marks, IsMark, OnDisk, Away, new_block
<1>2. VmTypes'
  BY <1>1 DEF IInv, VmTypes, MarkEntries, Entries, Saving, Restoring, Scanning
<1>3. BlocksNotShared'
  BY <1>1 DEF IInv, BlocksNotShared
<1>4. MatchesApart'
  BY <1>1 DEF IInv, MatchesApart
<1>5. MarksStand'
  BY <1>1 DEF IInv, MarksStand, StandsFor
<1>6. QED BY <1>2, <1>3, <1>4, <1>5 DEF IInv

LEMMA SteadySteps ==
  ASSUME IInv, RestoreCall \/ CopyTail \/ NextBlock \/ SaveToDisk
  PROVE  IInv'
<1>0. VmTypes
  BY DEF IInv
<1>1. CASE RestoreCall
  <2>1. First \in Marks
    BY <1>0, <1>1, FirstFacts DEF RestoreCall, Due, Marks
  <2>2. QED BY <1>0, <1>1, <2>1, Steady DEF RestoreCall, VmTypes, Saving, Restoring, Scanning
<1>2. CASE CopyTail
  BY <1>0, <1>2, Steady DEF CopyTail, VmTypes, Saving, Restoring, Scanning
<1>3. CASE NextBlock
  BY <1>0, <1>3, Steady DEF NextBlock, VmTypes, Saving, Restoring, Scanning
<1>4. CASE SaveToDisk
  BY <1>0, <1>4, Steady, Sizes DEF SaveToDisk, MoreMemory, VmTypes, Saving, Restoring, Scanning
<1>5. QED BY <1>1, <1>2, <1>3, <1>4

\* All matches that are kept
LEMMA PendingIs ==
  \A x : x \in Pending <=> \/ \E e \in heap \ Marks : x = Match(e)
                           \/ x \in Away
                           \/ Saving /\ x = Match(cur)
BY DEF Pending, Away, Saving

LEMMA PendingNext ==
  \A x : x \in Pending' <=> \/ \E e \in heap' \ Marks' : x = Match(e)
                            \/ x \in Away'
                            \/ Saving' /\ x = Match(cur')
BY DEF Pending, Away, Saving, Match

\* Entries are added with destinations that no match has yet
LEMMA Added ==
  ASSUME IInv, NEW A, A \subseteq Entries, ~Scanning, ~Scanning', ~Restoring',
         heap' = heap \union A, UNCHANGED <<vmfile, free_blocks, vmbuf, base, min_dest>>,
         \A e \in A : \A f \in heap \ Marks : f.dest # e.dest,
         \A e \in A : \A m \in Away : m.dest # e.dest,
         \A e, f \in A : e.dest = f.dest => e = f,
         pc' \in {"insert", "copy", "future"}, taken' \in Nat
  PROVE  IInv'
<1>0. VmTypes
  BY DEF IInv
<1>1. Marks' = Marks /\ heap' \ Marks' = (heap \ Marks) \union A
  <2>1. heap' = (heap \ {}) \union A
    OBVIOUS
  <2>2. QED BY <2>1, <1>0, MarksAfter
<1>2. OnDisk' = OnDisk /\ Away' = Away /\ new_block' = new_block
  BY <1>1 DEF OnDisk, Away, new_block
<1>3. ~Saving'
  BY DEF Saving
<1>4. VmTypes'
  BY <1>0, <1>1, <1>2, <1>3 DEF VmTypes, Entries, MarkEntries, Matches, new_block
<1>5. BlocksNotShared'
  BY <1>1 DEF IInv, BlocksNotShared
<1>6. MatchesApart'
  BY <1>1, <1>2, <1>3 DEF IInv, MatchesApart
<1>7. MarksStand'
  BY <1>1 DEF IInv, MarksStand, StandsFor
<1>8. QED BY <1>4, <1>5, <1>6, <1>7 DEF IInv

\* Destinations given to new matches are free
LEMMA FreeFacts ==
  ASSUME VmTypes, NEW b, NEW d \in FreeDests(b)
  PROVE  /\ d \in Dests /\ d > taken
         /\ \A e \in heap \ Marks : e.dest # d
         /\ \A m \in Away : m.dest # d
         /\ Saving => cur.dest # d
<1>1. d \in Dests /\ d > taken /\ \A m \in Pending : m.dest # d
  BY DEF FreeDests
<1>2. \A e : Match(e).dest = e.dest
  BY DEF Match
<1>3. QED BY <1>1, <1>2, PendingIs

LEMMA InsertKept ==
  ASSUME IInv, InsertMatches
  PROVE  IInv'
<1>0. VmTypes
  BY DEF IInv
<1>1. PICK D \in SUBSET {d \in FreeDests(blk) : DestBlock(d) = blk} :
        heap' = heap \union {Entry([dest |-> d, src |-> 0, len |-> AnyLength], FALSE) : d \in D}
  BY DEF InsertMatches
<1> DEFINE A == {Entry([dest |-> d, src |-> 0, len |-> AnyLength], FALSE) : d \in D}
<1>2. \A e \in A : \E d \in D : e = [dest |-> d, src |-> 0, len |-> AnyLength, saved |-> FALSE]
  BY DEF Entry
<1>3. \A d \in D : d \in FreeDests(blk)
  OBVIOUS
<1>4. heap' = heap \union A
  BY <1>1
<1>. HIDE DEF A
<1>5. A \subseteq Entries
  <2>1. SUFFICES ASSUME NEW e \in A PROVE e \in Entries
    OBVIOUS
  <2>2. PICK d \in D : e = [dest |-> d, src |-> 0, len |-> AnyLength, saved |-> FALSE]
    BY <1>2
  <2>3. d \in Dests
    BY <1>0, <1>3, FreeFacts
  <2>4. QED BY <2>2, <2>3, Sizes DEF Entries
<1>6. \A e \in A : /\ \A f \in heap \ Marks : f.dest # e.dest
                   /\ \A m \in Away : m.dest # e.dest
  BY <1>0, <1>2, <1>3, FreeFacts
<1>7. \A e, f \in A : e.dest = f.dest => e = f
  <2>1. \A e \in A : e = [dest |-> e.dest, src |-> 0, len |-> AnyLength, saved |-> FALSE]
    BY <1>2
  <2>2. QED BY <2>1
<1>8. QED BY <1>0, <1>4, <1>5, <1>6, <1>7, Added
             DEF InsertMatches, Scanning, Restoring, VmTypes

LEMMA FutureKept ==
  ASSUME IInv, FutureMatch
  PROVE  IInv'
<1>0. VmTypes
  BY DEF IInv
<1>1. PICK d \in FreeDests(blk + 1), n \in Lengths :
        IF n >= maximum_save
          THEN heap' = heap \union {Entry([dest |-> d, src |-> 0, len |-> n], FALSE)}
                 /\ UNCHANGED <<cur, pc>>
          ELSE cur' = Entry([dest |-> d, src |-> 0, len |-> n], TRUE) /\ pc' = "save"
                 /\ UNCHANGED heap
  BY DEF FutureMatch
<1>2. /\ d \in Dests
      /\ \A e \in heap \ Marks : e.dest # d
      /\ \A m \in Away : m.dest # d
  BY <1>0, FreeFacts
<1>3. \A s \in BOOLEAN : Entry([dest |-> d, src |-> 0, len |-> n], s) \in Entries
                          /\ Entry([dest |-> d, src |-> 0, len |-> n], s).dest = d
  BY <1>2 DEF Entry, Entries
<1>4. CASE n >= maximum_save
  <2> DEFINE A == {Entry([dest |-> d, src |-> 0, len |-> n], FALSE)}
  <2>1. heap' = heap \union A /\ A \subseteq Entries /\ \A e \in A : e.dest = d
    BY <1>1, <1>3, <1>4
  <2>2. \A e, f \in A : e = f
    OBVIOUS
  <2>3. UNCHANGED <<pc, vmfile, free_blocks, vmbuf, base, min_dest, taken>> /\ pc = "future"
    BY <1>1, <1>4 DEF FutureMatch
  <2>. HIDE DEF A
  <2>4. QED BY <1>0, <1>2, <2>1, <2>2, <2>3, Added DEF Scanning, Restoring, VmTypes
<1>5. CASE ~(n >= maximum_save)
  <2>1. cur' \in Entries /\ cur'.dest = d /\ pc' = "save" /\ pc = "future"
        /\ UNCHANGED <<heap, vmfile, free_blocks, taken, base, min_dest, vmbuf>>
    BY <1>1, <1>3, <1>5 DEF FutureMatch
  <2>2. Marks' = Marks /\ OnDisk' = OnDisk /\ Away' = Away /\ new_block' = new_block
    BY <2>1 DEF Marks, IsMark, OnDisk, Away, new_block
  <2>3. VmTypes'
    BY <1>0, <2>1, <2>2 DEF VmTypes, MarkEntries, Entries, Saving, Restoring, Scanning
  <2>4. BlocksNotShared' /\ MarksStand'
    BY <2>1, <2>2 DEF IInv, BlocksNotShared, MarksStand, StandsFor, Scanning
  <2>5. MatchesApart'
    BY <2>1, <2>2, <1>2 DEF IInv, MatchesApart
  <2>6. QED BY <2>3, <2>4, <2>5 DEF IInv
<1>6. QED BY <1>4, <1>5

LEMMA SaveKept ==
  ASSUME IInv, SaveMatch
  PROVE  IInv'
<1>1. /\ Saving /\ cur \in Entries /\ ~Scanning /\ pc' = "future"
      /\ heap' = heap \union {cur}
      /\ UNCHANGED <<vmfile, free_blocks, vmbuf, base, min_dest, taken>>
  BY DEF SaveMatch, IInv, VmTypes, Saving, Scanning
<1>2. /\ \A m \in Away : m.dest # cur.dest
      /\ \A e \in heap \ Marks : e.dest # cur.dest
  BY <1>1 DEF IInv, MatchesApart
<1> DEFINE A == {cur}
<1>3. /\ A \subseteq Entries /\ heap' = heap \union A
      /\ \A e \in A : \A f \in heap \ Marks : f.dest # e.dest
      /\ \A e \in A : \A m \in Away : m.dest # e.dest
      /\ \A e, f \in A : e.dest = f.dest => e = f
  BY <1>1, <1>2
<1>4. taken' \in Nat /\ ~Scanning' /\ ~Restoring'
  BY <1>1 DEF Scanning, Restoring, IInv, VmTypes
<1>. HIDE DEF A
<1>5. QED BY <1>1, <1>3, <1>4, Added

\* An entry leaves the heap
LEMMA CopyKept ==
  ASSUME IInv, CopyMatch
  PROVE  IInv'
<1>0. VmTypes /\ pc = "copy"
  BY DEF IInv, CopyMatch
<1>1. First \in heap \ Marks /\ First \in Entries
  BY <1>0, FirstFacts, HeapFacts DEF CopyMatch, Due, Marks
<1>2. UNCHANGED <<vmfile, free_blocks, base, min_dest, vmbuf>>
  BY DEF CopyMatch
<1>3. CASE First.dest < taken \/ DestBlock(First.dest) < blk
  BY <1>0, <1>2, <1>3, Steady DEF CopyMatch, VmTypes, Saving, Restoring, Scanning
<1>4. CASE ~(First.dest < taken \/ DestBlock(First.dest) < blk)
  <2>1. heap' = heap \ {First} /\ taken' = First.dest /\ pc' = "copy"
    BY <1>0, <1>4 DEF CopyMatch
  <2>2. Marks' = Marks /\ heap' \ Marks' = (heap \ Marks) \ {First}
    <3>1. heap' = (heap \ {First}) \union {}
      BY <2>1
    <3>2. QED BY <3>1, <1>0, <1>1, MarksAfter
  <2>3. OnDisk' = OnDisk /\ Away' = Away /\ new_block' = new_block
    BY <1>2, <2>2 DEF OnDisk, Away, new_block
  <2>4. taken' \in Nat
    BY <1>1, <2>1, Sizes DEF Entries
  <2>5. VmTypes'
    BY <1>0, <1>2, <2>1, <2>2, <2>3, <2>4
       DEF VmTypes, Entries, MarkEntries, Saving, Restoring, Scanning
  <2>6. BlocksNotShared' /\ MarksStand'
    BY <1>2, <2>1, <2>2 DEF IInv, BlocksNotShared, MarksStand, StandsFor, Scanning
  <2>7. MatchesApart'
    BY <1>2, <2>1, <2>2, <2>3 DEF IInv, MatchesApart, Saving
  <2>8. QED BY <2>5, <2>6, <2>7 DEF IInv
<1>5. QED BY <1>3, <1>4

-----------------------------------------------------------------------------
(* The scan, the temporary file and the way back.                          *)

LEMMA SkipKept ==
  ASSUME IInv, ScanSkip
  PROVE  IInv'
<1>0. VmTypes
  BY DEF IInv
<1>1. /\ base' = Nearest(base).dest /\ base' \in 1 .. BarrierDest
      /\ UNCHANGED <<taken, heap, vmfile, free_blocks, pc, cur, min_dest, vmbuf>>
  BY <1>0, LastFacts DEF ScanSkip, VmTypes
<1>2. Marks' = Marks /\ OnDisk' = OnDisk /\ Away' = Away /\ new_block' = new_block
  BY <1>1 DEF Marks, IsMark, OnDisk, Away, new_block
<1>3. VmTypes'
  BY <1>0, <1>1, <1>2 DEF VmTypes, MarkEntries, Entries, Saving, Restoring, Scanning
<1>4. BlocksNotShared' /\ MarksStand'
  BY <1>1, <1>2 DEF IInv, BlocksNotShared, MarksStand, StandsFor, Scanning
<1>5. MatchesApart'
  BY <1>1, <1>2 DEF IInv, MatchesApart, Saving
<1>6. QED BY <1>3, <1>4, <1>5 DEF IInv

LEMMA ScanSaveFacts ==
  ASSUME IInv, ScanSave
  PROVE  /\ Nearest(base) \in heap \ Marks /\ Nearest(base) \in Entries /\ Nearest(base).dest < base
         /\ heap' = heap \ {Nearest(base)} /\ vmbuf' = vmbuf \union {Match(Nearest(base))}
         /\ min_dest' = Nearest(base).dest /\ base' \in AfterErase(Nearest(base).dest)
         /\ Match(Nearest(base)) \in Matches /\ Match(Nearest(base)).dest = Nearest(base).dest
         /\ Marks' = Marks /\ heap' \ Marks' = (heap \ Marks) \ {Nearest(base)}
         /\ OnDisk' = OnDisk /\ Away' = Away \union {Match(Nearest(base))}
         /\ UNCHANGED <<taken, vmfile, free_blocks, pc, cur>> /\ Scanning
<1> DEFINE e == Nearest(base)
<1>1. /\ Scanning /\ Below(base) # {} /\ e.saved
      /\ vmbuf' = vmbuf \union {Match(e)} /\ min_dest' = e.dest
      /\ heap' = {f \in heap : f.dest # e.dest} /\ base' \in AfterErase(e.dest)
      /\ UNCHANGED <<taken, vmfile, free_blocks, pc, cur>>
  BY DEF ScanSave
<1>2. e \in heap \ Marks /\ e \in Entries /\ heap' = heap \ {e} /\ e.dest < base
  BY <1>1, SavedEntry
<1>3. Match(e) \in Matches /\ Match(e).dest = e.dest
  BY <1>2, HeapFacts DEF IInv, Match
<1>4. Marks' = Marks /\ heap' \ Marks' = (heap \ Marks) \ {e}
  <2>1. heap' = (heap \ {e}) \union {} /\ {e} \subseteq Entries
    BY <1>2
  <2>2. QED BY <2>1, MarksAfter DEF IInv
<1>5. OnDisk' = OnDisk /\ Away' = Away \union {Match(e)}
  BY <1>1, <1>4 DEF OnDisk, Away
<1>6. QED BY <1>1, <1>2, <1>3, <1>4, <1>5

LEMMA ScanSaveKept ==
  ASSUME IInv, ScanSave
  PROVE  IInv'
<1>1. PICK e : e = Nearest(base)
  OBVIOUS
<1>2. /\ e \in heap \ Marks /\ e \in Entries
      /\ heap' = heap \ {e} /\ vmbuf' = vmbuf \union {Match(e)}
      /\ min_dest' = e.dest /\ base' \in AfterErase(e.dest)
      /\ Match(e) \in Matches /\ Match(e).dest = e.dest
      /\ Marks' = Marks /\ heap' \ Marks' = (heap \ Marks) \ {e}
      /\ OnDisk' = OnDisk /\ Away' = Away \union {Match(e)}
      /\ UNCHANGED <<taken, vmfile, free_blocks, pc, cur>> /\ Scanning
  BY <1>1, ScanSaveFacts
<1>3. VmTypes /\ BlocksNotShared /\ MatchesApart /\ MarksStand
  BY DEF IInv
<1>4. VmTypes'
  <2>1. e.dest \in 1 .. BarrierDest
    BY <1>2, Sizes DEF Entries
  <2>2. base' \in 1 .. BarrierDest
    BY <1>2, <1>3, <2>1, LastFacts, Sizes DEF AfterErase
  <2>3. new_block' = new_block /\ MarkEntries' = MarkEntries
    BY <1>2 DEF new_block, MarkEntries
  <2>4. heap' \subseteq Entries \union MarkEntries /\ vmbuf' \subseteq Matches
    BY <1>2, <1>3 DEF VmTypes
  <2>5. QED BY <1>2, <1>3, <2>1, <2>2, <2>3, <2>4
            DEF VmTypes, Saving, Restoring, Scanning
<1>5. BlocksNotShared'
  BY <1>2, <1>3 DEF BlocksNotShared
<1>6. MatchesApart'
  <2>1. \A m \in Away : m.dest # e.dest
    BY <1>2, <1>3 DEF MatchesApart
  <2>2. \A f \in heap \ Marks : f # e => f.dest # e.dest
    BY <1>2, <1>3 DEF MatchesApart
  <2>3. \A f \in Marks : Match(e) \notin vmfile[f.src]
    BY <1>2, <2>1 DEF Away, OnDisk
  <2>4. Saving => cur.dest # e.dest
    BY <1>2, <1>3 DEF MatchesApart
  <2>5. Saving' <=> Saving
    BY <1>2 DEF Saving
  <2>6. \A f \in heap' \ Marks', m \in Away' : m.dest # f.dest
    BY <1>2, <1>3, <2>2 DEF MatchesApart
  <2>7. \A m, n \in Away' : m.dest = n.dest => m = n
    BY <1>2, <1>3, <2>1 DEF MatchesApart
  <2>8. QED BY <1>2, <1>3, <2>3, <2>4, <2>5, <2>6, <2>7 DEF MatchesApart
<1>7. MarksStand'
  BY <1>2, <1>3 DEF MarksStand, StandsFor
<1>8. QED BY <1>4, <1>5, <1>6, <1>7 DEF IInv

\* The block that is written is not one that a mark stands for
LEMMA WriteFacts ==
  ASSUME IInv, WriteBlock
  PROVE  \E b \in 1 .. new_block + 1 :
         /\ \A e \in Marks : e.src # b
         /\ heap' = heap \union {Mark(b, min_dest)} /\ vmbuf' = {}
         /\ Marks' = Marks \union {Mark(b, min_dest)} /\ heap' \ Marks' = heap \ Marks
         /\ vmfile' \in Seq(SUBSET Matches) /\ new_block' >= new_block /\ new_block' >= b
         /\ new_block' \in Nat
         /\ vmfile'[b] = vmbuf /\ \A e \in Marks : vmfile'[e.src] = vmfile[e.src]
         /\ OnDisk' = OnDisk \union vmbuf /\ Away' = Away
         /\ \A n \in DOMAIN free_blocks' :
              /\ free_blocks'[n] # b
              /\ \E k \in DOMAIN free_blocks : free_blocks'[n] = free_blocks[k]
         /\ \A m, n \in DOMAIN free_blocks' : free_blocks'[m] = free_blocks'[n] => m = n
         /\ free_blocks' \in Seq(1 .. new_block)
<1> DEFINE b == IF free_blocks = <<>> THEN new_block + 1 ELSE Head(free_blocks)
<1>0. /\ VmTypes /\ BlocksNotShared /\ new_block \in Nat /\ Len(vmfile) = new_block
      /\ vmfile \in Seq(SUBSET Matches) /\ free_blocks \in Seq(1 .. new_block)
      /\ vmbuf \subseteq Matches
  BY HeapFacts DEF IInv, VmTypes, new_block
<1>1. /\ vmfile' = IF b > new_block THEN Append(vmfile, vmbuf) ELSE [vmfile EXCEPT ![b] = vmbuf]
      /\ free_blocks' = IF free_blocks = <<>> THEN <<>> ELSE Tail(free_blocks)
      /\ heap' = heap \union {Mark(b, min_dest)} /\ vmbuf' = {}
  BY DEF WriteBlock
<1>2. \A e \in Marks : e.src \in 1 .. new_block
  BY <1>0, HeapFacts
<1>3. b \in 1 .. new_block + 1 /\ (\A e \in Marks : e.src # b)
  <2>1. CASE free_blocks = <<>>
    BY <1>0, <1>2, <2>1
  <2>2. CASE free_blocks # <<>>
    <3>1. b = free_blocks[1] /\ 1 \in DOMAIN free_blocks /\ b \in 1 .. new_block
      BY <1>0, <2>2
    <3>2. QED BY <1>0, <3>1 DEF BlocksNotShared
  <2>3. QED BY <2>1, <2>2
<1>4. /\ \A n \in DOMAIN free_blocks' :
           /\ free_blocks'[n] # b
           /\ \E k \in DOMAIN free_blocks : free_blocks'[n] = free_blocks[k]
      /\ \A m, n \in DOMAIN free_blocks' : free_blocks'[m] = free_blocks'[n] => m = n
      /\ free_blocks' \in Seq(1 .. new_block)
  <2>1. CASE free_blocks = <<>>
    <3>1. free_blocks' = <<>> /\ DOMAIN free_blocks' = {}
      BY <1>1, <2>1
    <3>2. QED BY <3>1
  <2>2. CASE free_blocks # <<>>
    <3>1. /\ b = free_blocks[1] /\ 1 \in DOMAIN free_blocks
          /\ free_blocks' \in Seq(1 .. new_block)
          /\ \A n \in DOMAIN free_blocks' :
               n \in Nat /\ n + 1 \in DOMAIN free_blocks /\ free_blocks'[n] = free_blocks[n + 1]
                 /\ n + 1 # 1
      BY <1>0, <1>1, <2>2
    <3>2. \A m, n \in DOMAIN free_blocks : free_blocks[m] = free_blocks[n] => m = n
      BY <1>0 DEF BlocksNotShared
    <3>3. \A n \in DOMAIN free_blocks' : free_blocks'[n] # b
      BY <3>1, <3>2
    <3>4. \A m, n \in DOMAIN free_blocks' : free_blocks'[m] = free_blocks'[n] => m = n
      <4>1. SUFFICES ASSUME NEW m \in DOMAIN free_blocks', NEW n \in DOMAIN free_blocks',
                            free_blocks'[m] = free_blocks'[n]
                     PROVE  m = n
        OBVIOUS
      <4>2. m + 1 = n + 1
        BY <3>1, <3>2, <4>1
      <4>3. QED BY <3>1, <4>2
    <3>5. QED BY <3>1, <3>3, <3>4
  <2>3. QED BY <2>1, <2>2
<1> HIDE DEF b
<1>5. /\ vmfile' \in Seq(SUBSET Matches) /\ Len(vmfile') \in Nat /\ Len(vmfile') >= new_block
      /\ Len(vmfile') >= b
      /\ vmfile'[b] = vmbuf /\ \A c \in 1 .. new_block : c # b => vmfile'[c] = vmfile[c]
  <2>1. CASE b > new_block
    <3>1. b = new_block + 1 /\ vmfile' = Append(vmfile, vmbuf)
      BY <1>0, <1>1, <1>3, <2>1
    <3>2. QED BY <1>0, <3>1
  <2>2. CASE ~(b > new_block)
    <3>1. b \in 1 .. new_block /\ vmfile' = [vmfile EXCEPT ![b] = vmbuf]
      BY <1>0, <1>1, <1>3, <2>2
    <3>2. QED BY <1>0, <3>1
  <2>3. QED BY <2>1, <2>2
<1>6. new_block' = Len(vmfile')
  BY DEF new_block
<1>7. \A e \in Marks : vmfile'[e.src] = vmfile[e.src]
  BY <1>2, <1>3, <1>5
<1>8. Marks' = Marks \union {Mark(b, min_dest)} /\ heap' \ Marks' = heap \ Marks
  <2>1. IsMark(Mark(b, min_dest))
    BY DEF IsMark, Mark
  <2>2. QED BY <1>1, <2>1 DEF Marks, IsMark
<1>9. OnDisk' = OnDisk \union vmbuf /\ Away' = Away
  <2>1. Mark(b, min_dest).src = b
    BY DEF Mark
  <2>2. \A x : x \in OnDisk' <=> \E e \in Marks' : x \in vmfile'[e.src]
    BY DEF OnDisk
  <2>3. \A x : x \in OnDisk <=> \E e \in Marks : x \in vmfile[e.src]
    BY DEF OnDisk
  <2>4. \A x : x \in OnDisk' <=> x \in OnDisk \/ x \in vmbuf
    BY <1>5, <1>7, <1>8, <2>1, <2>2, <2>3
  <2>5. OnDisk' = OnDisk \union vmbuf
    BY <2>4
  <2>6. QED BY <1>1, <2>5 DEF Away
<1>10. QED BY <1>1, <1>3, <1>4, <1>5, <1>6, <1>7, <1>8, <1>9

LEMMA WriteKept ==
  ASSUME IInv, WriteBlock
  PROVE  IInv'
<1>1. PICK b \in 1 .. new_block + 1 :
         /\ \A e \in Marks : e.src # b
         /\ heap' = heap \union {Mark(b, min_dest)} /\ vmbuf' = {}
         /\ Marks' = Marks \union {Mark(b, min_dest)} /\ heap' \ Marks' = heap \ Marks
         /\ vmfile' \in Seq(SUBSET Matches) /\ new_block' >= new_block /\ new_block' >= b
         /\ new_block' \in Nat
         /\ vmfile'[b] = vmbuf /\ \A e \in Marks : vmfile'[e.src] = vmfile[e.src]
         /\ OnDisk' = OnDisk \union vmbuf /\ Away' = Away
         /\ \A n \in DOMAIN free_blocks' :
              /\ free_blocks'[n] # b
              /\ \E k \in DOMAIN free_blocks : free_blocks'[n] = free_blocks[k]
         /\ \A m, n \in DOMAIN free_blocks' : free_blocks'[m] = free_blocks'[n] => m = n
         /\ free_blocks' \in Seq(1 .. new_block)
  BY WriteFacts
<1> DEFINE k == Mark(b, min_dest)
<1>2. k.src = b /\ k.dest = min_dest /\ k = [dest |-> min_dest, src |-> b, len |-> 0, saved |-> FALSE]
  BY DEF Mark
<1>3. /\ Scanning /\ ~Scanning' /\ (Saving <=> Saving') /\ (Restoring <=> Restoring')
      /\ pc' \in {"save", "restore"} /\ UNCHANGED <<taken, cur, base, min_dest>>
  BY DEF WriteBlock, Scanning, Saving, Restoring
<1>4. VmTypes /\ BlocksNotShared /\ MatchesApart /\ MarksStand /\ new_block \in Nat
  BY HeapFacts DEF IInv
<1>. HIDE DEF k
<1>5. heap' = heap \union {k} /\ Marks' = Marks \union {k}
  BY <1>1 DEF k
<1>6. VmTypes'
  <2>0. 1 .. new_block \subseteq 1 .. new_block' /\ b \in 1 .. new_block'
    BY <1>1, <1>4
  <2>1. \A e \in MarkEntries : e \in MarkEntries'
    BY <2>0 DEF MarkEntries, BarrierDest
  <2>2. k \in MarkEntries'
    <3>1. min_dest \in 1 .. BarrierDest
      BY <1>4 DEF VmTypes
    <3>2. QED BY <2>0, <1>2, <3>1 DEF MarkEntries, BarrierDest
  <2>3. heap' \subseteq Entries \union MarkEntries'
    BY <1>5, <2>1, <2>2, <1>4 DEF VmTypes
  <2>4. free_blocks' \in Seq(1 .. new_block')
    BY <2>0, <1>1, SeqMonotonic
  <2>5. QED BY <1>1, <1>3, <1>4, <1>5, <2>3, <2>4 DEF VmTypes
<1>7. BlocksNotShared'
  <2>1. \A e, f \in Marks' : e.src = f.src => e = f
    BY <1>1, <1>2, <1>4, <1>5 DEF BlocksNotShared
  <2>2. \A e \in Marks', n \in DOMAIN free_blocks' : free_blocks'[n] # e.src
    BY <1>1, <1>2, <1>4, <1>5 DEF BlocksNotShared
  <2>3. QED BY <1>1, <2>1, <2>2 DEF BlocksNotShared
<1>8. MatchesApart'
  <2>1. \A e \in Marks : vmfile[e.src] \intersect vmbuf = {}
    BY <1>4 DEF MatchesApart
  <2>2. \A e, f \in Marks' : e # f => vmfile'[e.src] \intersect vmfile'[f.src] = {}
    BY <1>1, <1>2, <1>4, <1>5, <2>1 DEF MatchesApart
  <2>3. QED BY <1>1, <1>3, <1>4, <2>2 DEF MatchesApart
<1>9. MarksStand'
  <2>1. StandsFor(k.dest, vmfile'[k.src])
    BY <1>1, <1>2, <1>3, <1>4 DEF MarksStand
  <2>2. \A e \in Marks : StandsFor(e.dest, vmfile'[e.src])
    BY <1>1, <1>4 DEF MarksStand
  <2>3. QED BY <1>3, <1>5, <2>1, <2>2 DEF MarksStand, StandsFor
<1>10. QED BY <1>6, <1>7, <1>8, <1>9 DEF IInv

LEMMA RestoreFacts ==
  ASSUME IInv, RestoreBlock
  PROVE  /\ cur \in Marks /\ cur.src \in 1 .. new_block /\ vmfile[cur.src] \subseteq Matches
         /\ {Entry(m, TRUE) : m \in vmfile[cur.src]} \subseteq Entries
         /\ \A m \in vmfile[cur.src] : Match(Entry(m, TRUE)) = m /\ Entry(m, TRUE).dest = m.dest
         /\ Marks' = Marks \ {cur}
         /\ heap' \ Marks' = (heap \ Marks) \union {Entry(m, TRUE) : m \in vmfile[cur.src]}
         /\ OnDisk' = OnDisk \ vmfile[cur.src] /\ vmfile[cur.src] \subseteq OnDisk
         /\ Away' = Away \ vmfile[cur.src] /\ Away = OnDisk
         /\ UNCHANGED <<taken, vmfile, vmbuf, base, min_dest>> /\ vmbuf = {}
         /\ free_blocks' = <<cur.src>> \o free_blocks /\ pc = "restore" /\ pc' = "copy"
<1>0. VmTypes
  BY DEF IInv
<1>1. /\ UNCHANGED <<taken, vmfile, vmbuf, base, min_dest>>
      /\ heap' = (heap \ {cur}) \union {Entry(m, TRUE) : m \in vmfile[cur.src]}
      /\ free_blocks' = <<cur.src>> \o free_blocks /\ pc = "restore" /\ pc' = "copy"
  BY DEF RestoreBlock
<1>2. cur \in Marks /\ cur.src \in 1 .. new_block /\ vmfile[cur.src] \subseteq Matches
  BY <1>0, <1>1, HeapFacts DEF VmTypes, Restoring
<1>3. \A m \in Matches : /\ Match(Entry(m, TRUE)) = m /\ Entry(m, TRUE).dest = m.dest
                         /\ Entry(m, TRUE) \in Entries
  BY DEF Match, Entry, Matches, Entries
<1>4. {Entry(m, TRUE) : m \in vmfile[cur.src]} \subseteq Entries
  BY <1>2, <1>3
<1>5. /\ Marks' = Marks \ {cur}
      /\ heap' \ Marks' = (heap \ Marks) \union {Entry(m, TRUE) : m \in vmfile[cur.src]}
  <2>1. \A e \in Entries : ~IsMark(e)
    BY <1>0, HeapFacts
  <2>2. QED BY <1>1, <1>2, <1>4, <2>1 DEF Marks, IsMark
<1>6. OnDisk' = OnDisk \ vmfile[cur.src] /\ vmfile[cur.src] \subseteq OnDisk
  <2>1. \A x : x \in OnDisk' <=> \E e \in Marks' : x \in vmfile[e.src]
    BY <1>1 DEF OnDisk
  <2>2. \A x : x \in OnDisk <=> \E e \in Marks : x \in vmfile[e.src]
    BY DEF OnDisk
  <2>3. \A e \in Marks : e # cur => vmfile[e.src] \intersect vmfile[cur.src] = {}
    BY <1>2 DEF IInv, MatchesApart
  <2>4. \A x : x \in OnDisk' <=> x \in OnDisk /\ x \notin vmfile[cur.src]
    BY <1>2, <1>5, <2>1, <2>2, <2>3
  <2>5. QED BY <1>2, <2>2, <2>4
<1>7. vmbuf = {} /\ Away' = Away \ vmfile[cur.src] /\ Away = OnDisk
  BY <1>0, <1>1, <1>6 DEF VmTypes, Scanning, Away
<1>8. QED BY <1>1, <1>2, <1>3, <1>4, <1>5, <1>6, <1>7

LEMMA RestoreKept ==
  ASSUME IInv, RestoreBlock
  PROVE  IInv'
<1> DEFINE V == vmfile[cur.src]
           A == {Entry(m, TRUE) : m \in V}
<1>1. /\ cur \in Marks /\ cur.src \in 1 .. new_block
      /\ A \subseteq Entries /\ \A m \in V : Entry(m, TRUE).dest = m.dest
      /\ Marks' = Marks \ {cur} /\ heap' \ Marks' = (heap \ Marks) \union A
      /\ V \subseteq Away /\ Away' = Away \ V
      /\ UNCHANGED <<taken, vmfile, vmbuf, base, min_dest>> /\ vmbuf = {}
      /\ free_blocks' = <<cur.src>> \o free_blocks /\ pc = "restore" /\ pc' = "copy"
  BY RestoreFacts
<1>2. \A e \in A : \E m \in V : e = Entry(m, TRUE) /\ e.dest = m.dest
  BY <1>1
<1>3. VmTypes /\ BlocksNotShared /\ MatchesApart /\ MarksStand /\ new_block' = new_block
  BY <1>1 DEF IInv, new_block
<1>4. heap' = (heap \ {cur}) \union A
  BY DEF RestoreBlock
<1>. HIDE DEF A, V
<1>5. VmTypes'
  <2>1. MarkEntries' = MarkEntries /\ heap' \subseteq Entries \union MarkEntries
    BY <1>1, <1>3, <1>4 DEF VmTypes, MarkEntries
  <2>2. free_blocks' \in Seq(1 .. new_block)
    BY <1>1, <1>3 DEF VmTypes
  <2>3. QED BY <1>1, <1>3, <2>1, <2>2 DEF VmTypes, Saving, Restoring, Scanning
<1>6. BlocksNotShared'
  <2>1. /\ free_blocks \in Seq(1 .. new_block)
        /\ \A e \in Marks : e # cur => e.src # cur.src
        /\ \A n \in DOMAIN free_blocks : free_blocks[n] # cur.src
    BY <1>1, <1>3 DEF BlocksNotShared, VmTypes
  <2>2. \A n \in DOMAIN free_blocks' :
          \/ n = 1 /\ free_blocks'[n] = cur.src
          \/ /\ n - 1 \in DOMAIN free_blocks /\ free_blocks'[n] = free_blocks[n - 1]
             /\ n \in Nat
    BY <1>1, <2>1
  <2>3. \A e \in Marks', n \in DOMAIN free_blocks' : free_blocks'[n] # e.src
    BY <1>1, <1>3, <2>1, <2>2 DEF BlocksNotShared
  <2>4. \A m, n \in DOMAIN free_blocks' : free_blocks'[m] = free_blocks'[n] => m = n
    <3>1. SUFFICES ASSUME NEW m \in DOMAIN free_blocks', NEW n \in DOMAIN free_blocks',
                          free_blocks'[m] = free_blocks'[n]
                   PROVE  m = n
      OBVIOUS
    <3>2. CASE m = 1
      BY <3>1, <3>2, <2>1, <2>2
    <3>3. CASE n = 1
      BY <3>1, <3>3, <2>1, <2>2
    <3>4. CASE m # 1 /\ n # 1
      <4>1. m - 1 = n - 1 /\ m \in Nat /\ n \in Nat
        BY <3>1, <3>4, <2>2, <1>3 DEF BlocksNotShared
      <4>2. QED BY <4>1
    <3>5. QED BY <3>2, <3>3, <3>4
  <2>5. QED BY <1>1, <1>3, <2>3, <2>4 DEF BlocksNotShared
<1>7. MatchesApart'
  <2>1. \A m, n \in Away : m.dest = n.dest => m = n
    BY <1>3 DEF MatchesApart
  <2>2. \A e, f \in A : e.dest = f.dest => e = f
    <3>1. SUFFICES ASSUME NEW e \in A, NEW f \in A, e.dest = f.dest PROVE e = f
      OBVIOUS
    <3>2. PICK m \in V : e = Entry(m, TRUE) /\ e.dest = m.dest
      BY <1>2
    <3>3. PICK n \in V : f = Entry(n, TRUE) /\ f.dest = n.dest
      BY <1>2
    <3>4. m = n
      BY <1>1, <2>1, <3>1, <3>2, <3>3
    <3>5. QED BY <3>2, <3>3, <3>4
  <2>3. \A e \in heap \ Marks, f \in A : e.dest # f.dest
    <3>1. SUFFICES ASSUME NEW e \in heap \ Marks, NEW f \in A PROVE e.dest # f.dest
      OBVIOUS
    <3>2. PICK m \in V : f.dest = m.dest
      BY <1>2
    <3>3. m \in Away
      BY <1>1
    <3>4. QED BY <1>3, <3>2, <3>3 DEF MatchesApart
  <2>4. \A e \in A, m \in Away' : m.dest # e.dest
    BY <1>1, <1>2, <2>1
  <2>5. \A e, f \in heap' \ Marks' : e.dest = f.dest => e = f
    BY <1>1, <1>3, <2>2, <2>3 DEF MatchesApart
  <2>6. \A e \in heap' \ Marks', m \in Away' : m.dest # e.dest
    BY <1>1, <1>3, <2>4 DEF MatchesApart
  <2>7. ~Saving'
    BY <1>1 DEF Saving
  <2>8. QED BY <1>1, <1>3, <2>5, <2>6, <2>7 DEF MatchesApart
<1>8. MarksStand'
  BY <1>1, <1>3 DEF MarksStand, StandsFor, Scanning
<1>9. QED BY <1>5, <1>6, <1>7, <1>8 DEF IInv

-----------------------------------------------------------------------------
(* The theorems.                                                           *)

LEMMA InitInv == Init => OInv
<1> SUFFICES ASSUME Init PROVE OInv
  OBVIOUS
<1>1. /\ heap = {} /\ vmfile = <<>> /\ free_blocks = <<>> /\ pc = "insert" /\ taken = 0
      /\ base = BarrierDest /\ min_dest = BarrierDest /\ vmbuf = {}
  BY DEF Init
<1>2. Marks = {} /\ OnDisk = {} /\ Away = {} /\ DOMAIN free_blocks = {}
      /\ ~Scanning /\ ~Saving /\ ~Restoring
  BY <1>1 DEF Marks, OnDisk, Away, Scanning, Saving, Restoring
<1>3. VmTypes
  BY <1>1, <1>2, Sizes DEF VmTypes
<1>4. BlocksNotShared /\ MatchesApart /\ MarksStand /\ MarksInTime /\ ScanOrder
  BY <1>1, <1>2 DEF BlocksNotShared, MatchesApart, MarksStand, MarksInTime, ScanOrder
<1>5. QED BY <1>3, <1>4 DEF OInv, IInv

LEMMA Unchanged ==
  ASSUME UNCHANGED vars
  PROVE  /\ UNCHANGED <<taken, heap, vmfile, free_blocks, pc, cur, base, min_dest, vmbuf>>
         /\ Marks' = Marks /\ OnDisk' = OnDisk /\ Away' = Away /\ new_block' = new_block
         /\ MarkEntries' = MarkEntries
BY DEF vars, Marks, IsMark, OnDisk, Away, new_block, MarkEntries

LEMMA InvStep == IInv /\ [Next]_vars => IInv'
<1> SUFFICES ASSUME IInv, [Next]_vars PROVE IInv'
  OBVIOUS
<1>1. CASE Decode
  BY <1>1, InsertKept, CopyKept, SteadySteps, FutureKept, SaveKept DEF Decode
<1>2. CASE Virtual
  BY <1>2, SteadySteps, SkipKept, ScanSaveKept, WriteKept, RestoreKept DEF Virtual
<1>3. CASE UNCHANGED vars
  <2>1. VmTypes'
    BY <1>3, Unchanged DEF IInv, VmTypes, Saving, Restoring, Scanning
  <2>2. BlocksNotShared' /\ MarksStand'
    BY <1>3, Unchanged DEF IInv, BlocksNotShared, MarksStand, StandsFor, Scanning
  <2>3. MatchesApart'
    BY <1>3, Unchanged DEF IInv, MatchesApart, Saving
  <2>4. QED BY <2>1, <2>2, <2>3 DEF IInv
<1>4. QED BY <1>1, <1>2, <1>3 DEF Next

\* Every match that waits is in one place, and marks stand for what is in their blocks,
\* whatever way the scan takes.
THEOREM Inductive == Spec => []IInv
<1>1. Init => IInv
  BY InitInv DEF OInv
<1>2. IInv /\ [Next]_vars => IInv'
  BY InvStep
<1>3. QED BY <1>1, <1>2, PTL DEF Spec

\* A block of the temporary file is never in use for two marks, nor free and in use.
THEOREM BlocksSafe == Spec => []BlocksNotShared
<1>1. IInv => BlocksNotShared
  BY DEF IInv
<1>2. QED BY <1>1, Inductive, PTL

\* The scan goes downwards unless it steps back from the first entry
LEMMA OrderKept ==
  ASSUME OInv, ScanStaysInHeap, [Next]_vars
  PROVE  MarksInTime' /\ ScanOrder'
<1>0. IInv /\ VmTypes /\ MarksInTime /\ ScanOrder
  BY DEF OInv, IInv
<1>1. CASE InsertMatches \/ FutureMatch \/ SaveMatch \/ CopyMatch \/ RestoreCall \/ CopyTail
             \/ NextBlock
  <2>1. vmfile' = vmfile /\ ~Scanning'
    BY <1>1 DEF InsertMatches, FutureMatch, SaveMatch, CopyMatch, RestoreCall, CopyTail,
                NextBlock, Scanning
  <2>2. Marks' \subseteq Marks
    <3>1. \A e \in heap' : e \in heap \/ ~IsMark(e)
      <4>1. CASE InsertMatches
        <5>1. PICK D : heap' = heap \union
                {Entry([dest |-> d, src |-> 0, len |-> AnyLength], FALSE) : d \in D}
          BY <4>1 DEF InsertMatches
        <5>2. \A d : ~IsMark(Entry([dest |-> d, src |-> 0, len |-> AnyLength], FALSE))
          BY Sizes DEF Entry, IsMark
        <5>3. QED BY <5>1, <5>2
      <4>2. CASE FutureMatch
        <5>1. PICK d \in FreeDests(blk + 1), n \in Lengths :
                heap' = heap \/
                heap' = heap \union {Entry([dest |-> d, src |-> 0, len |-> n], FALSE)}
          BY <4>2 DEF FutureMatch
        <5>2. ~IsMark(Entry([dest |-> d, src |-> 0, len |-> n], FALSE))
          BY Sizes DEF Entry, IsMark
        <5>3. QED BY <5>1, <5>2
      <4>3. CASE SaveMatch
        <5>1. heap' = heap \union {cur} /\ cur \in Entries
          BY <4>3, <1>0 DEF SaveMatch, VmTypes, Saving
        <5>2. QED BY <5>1, <1>0, HeapFacts
      <4>4. CASE CopyMatch \/ RestoreCall \/ CopyTail \/ NextBlock
        BY <4>4 DEF CopyMatch, RestoreCall, CopyTail, NextBlock
      <4>5. QED BY <1>1, <4>1, <4>2, <4>3, <4>4
    <3>2. QED BY <3>1 DEF Marks, IsMark
  <2>3. QED BY <2>1, <2>2, <1>0 DEF MarksInTime, ScanOrder
<1>2. CASE SaveToDisk
  <2>1. UNCHANGED <<heap, vmfile>> /\ base' = BarrierDest /\ min_dest' = BarrierDest /\ vmbuf' = {}
    BY <1>2 DEF SaveToDisk
  <2>2. QED BY <2>1, <1>0, Sizes DEF MarksInTime, ScanOrder, Marks, IsMark
<1>3. CASE ScanSkip
  <2>1. /\ Scanning /\ base' = Nearest(base).dest /\ Below(base) # {} /\ base \in 1 .. BarrierDest
        /\ UNCHANGED <<heap, vmfile, min_dest, vmbuf, pc>>
    BY <1>0, <1>3 DEF ScanSkip, VmTypes
  <2>2. base' \in 1 .. BarrierDest /\ base' < base /\ min_dest \in 1 .. BarrierDest
    BY <2>1, <1>0, LastFacts DEF VmTypes
  <2>3. base' <= min_dest
    BY <2>1, <2>2, <1>0 DEF ScanOrder
  <2>4. QED BY <2>1, <2>3, <1>0 DEF MarksInTime, ScanOrder, Marks, IsMark
<1>4. CASE ScanSave
  <2>1. PICK e : e = Nearest(base)
    OBVIOUS
  <2>2. /\ e \in Entries /\ e.dest < base
        /\ vmbuf' = vmbuf \union {Match(e)} /\ Match(e).dest = e.dest
        /\ min_dest' = e.dest /\ base' \in AfterErase(e.dest)
        /\ Marks' = Marks /\ vmfile' = vmfile /\ Scanning
    BY <2>1, <1>0, <1>4, ScanSaveFacts
  <2>3. Below(e.dest) # {}
    BY <2>1, <1>4 DEF ScanStaysInHeap, ScanSave
  <2>4. e.dest \in 1 .. BarrierDest /\ base \in 1 .. BarrierDest /\ min_dest \in 1 .. BarrierDest
    BY <2>2, <1>0, Sizes DEF Entries, VmTypes
  <2>5. base' = Nearest(e.dest).dest /\ base' < e.dest /\ base' \in 1 .. BarrierDest
    BY <2>2, <2>3, <2>4, <1>0, LastFacts DEF AfterErase
  <2>6. base <= min_dest /\ \A m \in vmbuf : min_dest <= m.dest /\ m.dest \in Dests
    BY <2>2, <1>0, HeapFacts DEF ScanOrder, VmTypes
  <2>7. \A m \in vmbuf' : e.dest <= m.dest
    <3>1. \A m \in vmbuf : e.dest <= m.dest
      BY <2>2, <2>4, <2>6, Sizes
    <3>2. e.dest <= Match(e).dest
      BY <2>2, <2>4
    <3>3. QED BY <3>1, <3>2, <2>2
  <2>8. ScanOrder'
    BY <2>2, <2>4, <2>5, <2>7 DEF ScanOrder
  <2>9. MarksInTime'
    BY <2>2, <1>0 DEF MarksInTime
  <2>10. QED BY <2>8, <2>9
<1>5. CASE WriteBlock
  <2>1. PICK b : /\ Marks' = Marks \union {Mark(b, min_dest)}
                 /\ vmfile'[b] = vmbuf /\ \A e \in Marks : vmfile'[e.src] = vmfile[e.src]
    BY <1>0, <1>5, WriteFacts
  <2>2. Scanning /\ ~Scanning'
    BY <1>5 DEF WriteBlock, Scanning
  <2>3. Mark(b, min_dest).dest = min_dest /\ Mark(b, min_dest).src = b
    BY DEF Mark
  <2>4. QED BY <2>1, <2>2, <2>3, <1>0 DEF MarksInTime, ScanOrder
<1>6. CASE RestoreBlock
  <2>1. Marks' = Marks \ {cur} /\ vmfile' = vmfile /\ pc' = "copy"
    BY <1>0, <1>6, RestoreFacts
  <2>2. QED BY <2>1, <1>0 DEF MarksInTime, ScanOrder, Scanning
<1>7. CASE UNCHANGED vars
  BY <1>0, <1>7, Unchanged DEF MarksInTime, ScanOrder, Scanning
<1>8. QED BY <1>1, <1>2, <1>3, <1>4, <1>5, <1>6, <1>7 DEF Next, Decode, Virtual

\* As long as the scan never steps back from the first entry, it goes downwards and
\* no mark comes later than a match in its block.
THEOREM InTime == Spec /\ []ScanStaysInHeap => []OInv
<1>1. OInv /\ ScanStaysInHeap /\ [Next]_vars => OInv'
  BY OrderKept, InvStep DEF OInv
<1>2. QED BY <1>1, InitInv, PTL DEF Spec

\* As long as the scan never steps back from the first entry, marks come in time and
\* blocks of the file are not shared, for every size of memory, blocks and matches.
THEOREM SwapSound == Spec => SwapSafe
<1>1. OInv => SwapInvariant
  BY DEF OInv, IInv, SwapInvariant
<1>2. QED BY <1>1, InTime, PTL DEF SwapSafe

-----------------------------------------------------------------------------
(* A mark that is being restored is the first entry of the heap until its   *)
(* block is back, so that the scan that makes room for it always has an     *)
(* entry below the one it erases.                                          *)

CurFirst ==
  Restoring => /\ \A f \in heap : cur.dest <= f.dest
               /\ \A m \in vmbuf : cur.dest <= m.dest
               /\ Scanning => cur.dest <= min_dest

LEMMA CurFirstStep ==
  ASSUME IInv, CurFirst, [Next]_vars
  PROVE  CurFirst'
<1>0. VmTypes
  BY DEF IInv
<1>1. CASE RestoreCall
  <2>1. heap # {} /\ cur' = First /\ heap' = heap /\ vmbuf' = {} /\ ~Scanning'
    BY <1>0, <1>1 DEF RestoreCall, Due, VmTypes, Scanning
  <2>2. QED BY <1>0, <2>1, FirstFacts DEF CurFirst
<1>2. CASE SaveToDisk
  <2>1. /\ Restoring' => Restoring
        /\ heap' = heap /\ vmbuf' = {} /\ cur' = cur /\ min_dest' = BarrierDest
    BY <1>2 DEF SaveToDisk, MoreMemory, Restoring
  <2>2. Restoring => cur.dest <= BarrierDest
    <3>1. Restoring => cur \in heap
      BY <1>0 DEF VmTypes, Marks
    <3>2. QED BY <3>1, <1>0, HeapFacts, Sizes
  <2>3. QED BY <2>1, <2>2 DEF CurFirst
<1>3. CASE ScanSkip \/ UNCHANGED vars
  <2>1. UNCHANGED <<heap, vmbuf, cur, min_dest, pc>>
    BY <1>3 DEF ScanSkip, vars
  <2>2. QED BY <2>1 DEF CurFirst, Restoring, Scanning
<1>4. CASE ScanSave
  <2>1. PICK e : e = Nearest(base)
    OBVIOUS
  <2>2. /\ e \in heap /\ heap' \subseteq heap /\ vmbuf' = vmbuf \union {Match(e)}
        /\ min_dest' = e.dest /\ Match(e).dest = e.dest /\ UNCHANGED <<pc, cur>>
    BY <1>4, <2>1, ScanSaveFacts
  <2>3. QED BY <2>2 DEF CurFirst, Restoring, Scanning
<1>5. CASE WriteBlock
  <2>1. PICK b : heap' = heap \union {Mark(b, min_dest)}
    BY <1>5 DEF WriteBlock
  <2>2. /\ vmbuf' = {} /\ cur' = cur /\ Scanning /\ ~Scanning' /\ (Restoring' => Restoring)
        /\ Mark(b, min_dest).dest = min_dest
    BY <1>5 DEF WriteBlock, Scanning, Restoring, Mark
  <2>3. QED BY <2>1, <2>2 DEF CurFirst
<1>6. CASE InsertMatches \/ CopyMatch \/ CopyTail \/ FutureMatch \/ SaveMatch \/ NextBlock
             \/ RestoreBlock
  <2>1. ~Restoring'
    BY <1>6 DEF InsertMatches, CopyMatch, CopyTail, FutureMatch, SaveMatch, NextBlock,
                RestoreBlock, Restoring
  <2>2. QED BY <2>1 DEF CurFirst
<1>7. QED BY <1>1, <1>2, <1>3, <1>4, <1>5, <1>6 DEF Next, Decode, Virtual

\* The scan that makes room for a block never steps back from the first entry.
ScanStaysRestoring == pc = "scan, restore" => ScanStaysInHeap

\* The other scan, which makes room for a match, does not either
ScanStaysSaving == pc = "scan, save" => ScanStaysInHeap

THEOREM RestoreStays == Spec => []ScanStaysRestoring
<1>1. Init => CurFirst
  BY DEF Init, CurFirst, Restoring
<1>2. IInv /\ CurFirst => ScanStaysRestoring
  <2>1. SUFFICES ASSUME IInv, CurFirst, pc = "scan, restore", Below(base) # {},
                        Nearest(base).saved
                 PROVE  Below(Nearest(base).dest) # {}
    BY DEF ScanStaysRestoring, ScanStaysInHeap
  <2>2. VmTypes /\ Restoring /\ Scanning
    BY <2>1 DEF IInv, Restoring, Scanning
  <2>3. cur \in Marks /\ cur \in heap /\ \A f \in heap : cur.dest <= f.dest
    BY <2>1, <2>2 DEF VmTypes, CurFirst, Marks
  <2>4. Nearest(base) \in heap \ Marks
    BY <2>1, <2>2, SavedEntry
  <2>5. Nearest(base).dest # cur.dest
    BY <2>1, <2>3, <2>4, DestsApart
  <2>6. cur.dest < Nearest(base).dest
    <3>1. cur.dest \in Nat /\ Nearest(base).dest \in Nat /\ cur.dest <= Nearest(base).dest
      BY <2>2, <2>3, <2>4, HeapFacts
    <3>2. QED BY <2>5, <3>1
  <2>7. QED BY <2>3, <2>6 DEF Below
<1>3. IInv /\ CurFirst /\ [Next]_vars => CurFirst'
  BY CurFirstStep
<1>4. QED BY <1>1, <1>2, <1>3, Inductive, PTL DEF Spec

\* As long as the scan that makes room for a match stays in the heap, so does the other
\* one, and swapping out and in again loses no match nor comes too late with it.
THEOREM SwapKept == Spec /\ []ScanStaysSaving => []SwapInvariant
<1>1. ScanStaysSaving /\ ScanStaysRestoring => ScanStaysInHeap
  BY DEF ScanStaysSaving, ScanStaysRestoring, ScanStaysInHeap, Scanning
<1>2. QED BY <1>1, RestoreStays, SwapSound, PTL DEF SwapSafe

-----------------------------------------------------------------------------
(* The heap and its temporary file are one queue of matches.               *)

USE DEF Queue!Insert

LEMMA SamePending ==
  ASSUME NEW S, \A x : x \in Pending' <=> x \in S
  PROVE  Pending' = S
OBVIOUS

\* Steps that the caller does not see
LEMMA Unseen ==
  ASSUME OInv, RestoreCall \/ CopyTail \/ NextBlock \/ SaveToDisk \/ ScanSkip \/ SaveMatch
                 \/ ScanSave \/ WriteBlock \/ RestoreBlock \/ UNCHANGED vars
  PROVE  Pending' = Pending /\ taken' = taken
<1>0. IInv /\ VmTypes
  BY DEF OInv, IInv
<1>1. CASE RestoreCall \/ CopyTail \/ NextBlock \/ SaveToDisk \/ ScanSkip \/ UNCHANGED vars
  <2>1. UNCHANGED <<heap, vmfile, vmbuf, taken>> /\ (Saving <=> Saving')
          /\ (Saving => cur' = cur)
    BY <1>0, <1>1 DEF RestoreCall, CopyTail, NextBlock, SaveToDisk, ScanSkip, vars, MoreMemory,
                      Saving, VmTypes, Scanning
  <2>2. Marks' = Marks /\ Away' = Away
    BY <2>1 DEF Marks, IsMark, OnDisk, Away
  <2>3. \A x : x \in Pending' <=> x \in Pending
    BY <2>1, <2>2, PendingIs, PendingNext
  <2>4. QED BY <2>1, <2>3, SamePending
<1>2. CASE SaveMatch
  <2>1. /\ Saving /\ ~Saving' /\ cur \in Entries /\ heap' = heap \union {cur}
        /\ UNCHANGED <<vmfile, vmbuf, taken>>
    BY <1>0, <1>2 DEF SaveMatch, Saving, VmTypes
  <2>2. Marks' = Marks /\ heap' \ Marks' = (heap \ Marks) \union {cur}
    <3> DEFINE A == {cur}
    <3>1. heap' = (heap \ {}) \union A /\ A \subseteq Entries
      BY <2>1
    <3>. HIDE DEF A
    <3>2. Marks' = Marks /\ heap' \ Marks' = (heap \ Marks) \union A
      BY <3>1, <1>0, MarksAfter
    <3>3. QED BY <3>2 DEF A
  <2>3. Away' = Away
    BY <2>1, <2>2 DEF Away, OnDisk
  <2>4. \A x : x \in Pending' <=> x \in Pending
    BY <2>1, <2>2, <2>3, PendingIs, PendingNext
  <2>5. QED BY <2>1, <2>4, SamePending
<1>3. CASE ScanSave
  <2>1. PICK e : e = Nearest(base)
    OBVIOUS
  <2>2. /\ e \in heap \ Marks
        /\ heap' \ Marks' = (heap \ Marks) \ {e} /\ Away' = Away \union {Match(e)}
        /\ UNCHANGED <<taken, pc, cur>>
    BY <2>1, <1>0, <1>3, ScanSaveFacts
  <2>3. Saving' <=> Saving
    BY <2>2 DEF Saving
  <2>4. \A x : x \in Pending' <=> x \in Pending
    BY <2>2, <2>3, PendingIs, PendingNext
  <2>5. QED BY <2>2, <2>4, SamePending
<1>4. CASE WriteBlock
  <2>1. heap' \ Marks' = heap \ Marks /\ Away' = Away
    BY <1>0, <1>4, WriteFacts
  <2>2. cur' = cur /\ taken' = taken /\ (Saving <=> Saving')
    BY <1>4 DEF WriteBlock, Scanning, Saving
  <2>3. \A x : x \in Pending' <=> x \in Pending
    BY <2>1, <2>2, PendingIs, PendingNext
  <2>4. QED BY <2>2, <2>3, SamePending
<1>5. CASE RestoreBlock
  <2> DEFINE V == vmfile[cur.src]
  <2>1. /\ \A m \in V : Match(Entry(m, TRUE)) = m
        /\ heap' \ Marks' = (heap \ Marks) \union {Entry(m, TRUE) : m \in V}
        /\ V \subseteq Away /\ Away' = Away \ V
        /\ taken' = taken /\ ~Saving /\ ~Saving'
    BY <1>0, <1>5, RestoreFacts DEF Saving
  <2>. HIDE DEF V
  <2>2. \A x : (\E e \in heap' \ Marks' : x = Match(e))
                 <=> (\E e \in heap \ Marks : x = Match(e)) \/ x \in V
    <3>1. \A e \in heap' \ Marks' : e \in heap \ Marks \/ \E m \in V : e = Entry(m, TRUE)
      BY <2>1
    <3>2. \A m \in V : Entry(m, TRUE) \in heap' \ Marks'
      BY <2>1
    <3>3. \A e \in heap \ Marks : e \in heap' \ Marks'
      BY <2>1
    <3>4. QED BY <2>1, <3>1, <3>2, <3>3
  <2>3. \A x : x \in Pending' <=> x \in Pending
    BY <2>1, <2>2, PendingIs, PendingNext
  <2>4. QED BY <2>1, <2>3, SamePending
<1>6. QED BY <1>1, <1>2, <1>3, <1>4, <1>5

\* New matches have destinations of their own, after the last that was taken
LEMMA Inserted ==
  ASSUME OInv, InsertMatches \/ FutureMatch
  PROVE  Queue!Insert
<1>0. IInv /\ VmTypes /\ ~Saving
  BY DEF OInv, IInv, InsertMatches, FutureMatch, Saving
<1>1. taken' = taken /\ UNCHANGED <<vmfile, vmbuf>>
  BY DEF InsertMatches, FutureMatch
<1>2. \A d, n : /\ Match(Entry([dest |-> d, src |-> 0, len |-> n], FALSE))
                     = [dest |-> d, src |-> 0, len |-> n]
                /\ Match(Entry([dest |-> d, src |-> 0, len |-> n], TRUE))
                     = [dest |-> d, src |-> 0, len |-> n]
  BY DEF Match, Entry
<1>3. \A d \in Dests, n \in Lengths, s \in BOOLEAN :
        /\ [dest |-> d, src |-> 0, len |-> n] \in Matches
        /\ Entry([dest |-> d, src |-> 0, len |-> n], s) \in Entries
  BY DEF Matches, Entry, Entries
<1>4. \A b : \A d \in FreeDests(b) : d \in Dests /\ d > taken /\ \A m \in Pending : m.dest # d
  BY DEF FreeDests
<1>5. \E b : \E n \in Lengths : \E D \in SUBSET FreeDests(b) :
        Pending' = Pending \union {[dest |-> d, src |-> 0, len |-> n] : d \in D}
  <2>1. CASE InsertMatches
    <3>1. PICK D \in SUBSET FreeDests(blk) :
            heap' = heap \union {Entry([dest |-> d, src |-> 0, len |-> AnyLength], FALSE) : d \in D}
      BY <2>1 DEF InsertMatches
    <3> DEFINE A == {Entry([dest |-> d, src |-> 0, len |-> AnyLength], FALSE) : d \in D}
    <3>2. A \subseteq Entries
      BY <1>3, <1>4, Sizes
    <3>3. heap' = (heap \ {}) \union A
      BY <3>1
    <3>4. Marks' = Marks /\ heap' \ Marks' = (heap \ Marks) \union A
      <4> HIDE DEF A
      <4>1. QED BY <3>2, <3>3, <1>0, MarksAfter
    <3>5. Away' = Away /\ ~Saving'
      BY <1>1, <2>1, <3>4 DEF Away, OnDisk, InsertMatches, Saving
    <3>6. \A x : (\E e \in A : x = Match(e))
                   <=> x \in {[dest |-> d, src |-> 0, len |-> AnyLength] : d \in D}
      <4>1. SUFFICES ASSUME NEW x
                     PROVE  (\E e \in A : x = Match(e))
                              <=> \E d \in D : x = [dest |-> d, src |-> 0, len |-> AnyLength]
        OBVIOUS
      <4>2. ASSUME NEW e \in A, x = Match(e)
            PROVE  \E d \in D : x = [dest |-> d, src |-> 0, len |-> AnyLength]
        <5>1. PICK d \in D : e = Entry([dest |-> d, src |-> 0, len |-> AnyLength], FALSE)
          OBVIOUS
        <5>2. x = [dest |-> d, src |-> 0, len |-> AnyLength]
          BY <1>2, <4>2, <5>1
        <5>3. QED BY <5>2
      <4>3. ASSUME NEW d \in D, x = [dest |-> d, src |-> 0, len |-> AnyLength]
            PROVE  \E e \in A : x = Match(e)
        <5>1. Entry([dest |-> d, src |-> 0, len |-> AnyLength], FALSE) \in A
          OBVIOUS
        <5>2. x = Match(Entry([dest |-> d, src |-> 0, len |-> AnyLength], FALSE))
          BY <1>2, <4>3
        <5>3. QED BY <5>1, <5>2
      <4>4. QED BY <4>2, <4>3
    <3> DEFINE N == {[dest |-> d, src |-> 0, len |-> AnyLength] : d \in D}
    <3>7. \A x : x \in Pending' <=> x \in Pending \union N
      <4> HIDE DEF A, N
      <4>1. \A x : (\E e \in A : x = Match(e)) <=> x \in N
        BY <3>6 DEF N
      <4>2. QED BY <1>0, <3>4, <3>5, <4>1, PendingIs, PendingNext
    <3>8. Pending' = Pending \union N
      <4> HIDE DEF N
      <4>1. QED BY <3>7, SamePending
    <3>9. AnyLength \in Lengths
      BY Sizes
    <3>10. \E E \in SUBSET FreeDests(blk) :
             Pending' = Pending \union {[dest |-> d, src |-> 0, len |-> AnyLength] : d \in E}
      BY <3>1, <3>8
    <3>11. QED
      <4> DEFINE Q(b, n) == \E E \in SUBSET FreeDests(b) :
                   Pending' = Pending \union {[dest |-> d, src |-> 0, len |-> n] : d \in E}
      <4>1. Q(blk, AnyLength)
        BY <3>10
      <4>2. SUFFICES \E b : \E n \in Lengths : Q(b, n)
        OBVIOUS
      <4> HIDE DEF Q
      <4>3. QED BY <3>9, <4>1
  <2>2. CASE FutureMatch
    <3>1. PICK d \in FreeDests(blk + 1), n \in Lengths :
            IF n >= maximum_save
              THEN heap' = heap \union {Entry([dest |-> d, src |-> 0, len |-> n], FALSE)}
                     /\ UNCHANGED <<cur, pc>>
              ELSE cur' = Entry([dest |-> d, src |-> 0, len |-> n], TRUE) /\ pc' = "save"
                     /\ UNCHANGED heap
      BY <2>2 DEF FutureMatch
    <3> DEFINE m == [dest |-> d, src |-> 0, len |-> n]
    <3>2. Pending' = Pending \union {m}
      <4>1. CASE n >= maximum_save
        <5>1. heap' = (heap \ {}) \union {Entry(m, FALSE)} /\ pc' = pc
              /\ {Entry(m, FALSE)} \subseteq Entries
          BY <3>1, <4>1, <1>3, <1>4
        <5> DEFINE A == {Entry(m, FALSE)}
        <5>2. Marks' = Marks /\ heap' \ Marks' = (heap \ Marks) \union A
          <6>1. heap' = (heap \ {}) \union A /\ A \subseteq Entries
            BY <5>1
          <6>. HIDE DEF A
          <6>2. QED BY <6>1, <1>0, MarksAfter
        <5>3. Away' = Away /\ ~Saving'
          BY <1>0, <1>1, <5>1, <5>2 DEF Away, OnDisk, Saving
        <5>4. Match(Entry(m, FALSE)) = m
          BY <1>2
        <5>5. \A x : x \in Pending' <=> x \in Pending \union {m}
          <6>. HIDE DEF m
          <6>1. QED BY <1>0, <5>2, <5>3, <5>4, PendingIs, PendingNext
        <5>6. QED BY <5>5, SamePending
      <4>2. CASE ~(n >= maximum_save)
        <5>1. heap' = heap /\ cur' = Entry(m, TRUE) /\ Saving'
          BY <3>1, <4>2 DEF Saving
        <5>2. Marks' = Marks /\ Away' = Away
          BY <5>1, <1>1 DEF Marks, IsMark, Away, OnDisk
        <5>3. Match(Entry(m, TRUE)) = m
          BY <1>2
        <5>4. \A x : x \in Pending' <=> x \in Pending \union {m}
          <6>. HIDE DEF m
          <6>1. QED BY <1>0, <5>1, <5>2, <5>3, PendingIs, PendingNext
        <5>5. QED BY <5>4, SamePending
      <4>3. QED BY <4>1, <4>2
    <3>3. {d} \in SUBSET FreeDests(blk + 1)
            /\ {[dest |-> c, src |-> 0, len |-> n] : c \in {d}} = {m}
      OBVIOUS
    <3>4. \E D \in SUBSET FreeDests(blk + 1) :
            Pending' = Pending \union {[dest |-> c, src |-> 0, len |-> n] : c \in D}
      <4>1. WITNESS {d} \in SUBSET FreeDests(blk + 1)
      <4>2. QED BY <3>2, <3>3
    <3>5. QED
      <4> DEFINE Q(b, k) == \E E \in SUBSET FreeDests(b) :
                   Pending' = Pending \union {[dest |-> c, src |-> 0, len |-> k] : c \in E}
      <4>1. Q(blk + 1, n)
        BY <3>4
      <4>2. SUFFICES \E b : \E k \in Lengths : Q(b, k)
        OBVIOUS
      <4> HIDE DEF Q
      <4>3. QED BY <4>1
  <2>3. QED BY <2>1, <2>2
<1>6. PICK b : \E n \in Lengths : \E D \in SUBSET FreeDests(b) :
        Pending' = Pending \union {[dest |-> d, src |-> 0, len |-> n] : d \in D}
  BY <1>5
<1>6a. PICK n \in Lengths : \E D \in SUBSET FreeDests(b) :
        Pending' = Pending \union {[dest |-> d, src |-> 0, len |-> n] : d \in D}
  BY <1>6
<1>7. PICK D \in SUBSET FreeDests(b) :
        Pending' = Pending \union {[dest |-> d, src |-> 0, len |-> n] : d \in D}
  BY <1>6a
<1>8. \A m \in Pending' \ Pending :
        /\ m = [dest |-> m.dest, src |-> 0, len |-> n] /\ m.dest \in FreeDests(b)
        /\ m.dest \in Dests /\ m.dest > taken
  <2>1. SUFFICES ASSUME NEW m \in Pending' \ Pending
                 PROVE  m = [dest |-> m.dest, src |-> 0, len |-> n] /\ m.dest \in FreeDests(b)
    BY <1>4
  <2>2. PICK d \in D : m = [dest |-> d, src |-> 0, len |-> n]
    BY <1>7
  <2>3. QED BY <2>2
<1>9. \A m \in Pending' \ Pending : m \in Matches /\ m.dest > taken
  BY <1>3, <1>8
<1>10. ASSUME NEW m \in Pending' \ Pending, NEW k \in Pending', m.dest = k.dest
       PROVE  m = k
  <2>1. CASE k \in Pending
    BY <1>4, <1>8, <1>10, <2>1
  <2>2. CASE k \notin Pending
    BY <1>8, <1>10, <2>2
  <2>3. QED BY <2>1, <2>2
<1>11. QED BY <1>1, <1>7, <1>9, <1>10

\* The first entry of the heap is the first of all matches that wait
LEMMA TakenFirst ==
  ASSUME OInv, CopyMatch
  PROVE  Queue!Take \/ (Pending' = Pending /\ taken' = taken)
<1>0. /\ IInv /\ VmTypes /\ MatchesApart /\ MarksInTime /\ pc = "copy"
      /\ ~Saving /\ ~Scanning /\ vmbuf = {} /\ ~Saving'
  BY DEF OInv, IInv, CopyMatch, VmTypes, Saving, Scanning
<1>1. PICK e : e = First
  OBVIOUS
<1>2. e \in heap \ Marks /\ e \in Entries /\ \A f \in heap : e.dest <= f.dest
  BY <1>0, <1>1, FirstFacts, HeapFacts DEF CopyMatch, Due, Marks
<1>3. CASE e.dest < taken \/ DestBlock(e.dest) < blk
  <2>1. UNCHANGED <<heap, taken, vmfile, vmbuf>>
    BY <1>1, <1>3 DEF CopyMatch
  <2>2. Marks' = Marks /\ Away' = Away
    BY <2>1 DEF Marks, IsMark, Away, OnDisk
  <2>3. \A x : x \in Pending' <=> x \in Pending
    BY <2>1, <2>2, <1>0, PendingIs, PendingNext
  <2>4. QED BY <2>1, <2>3, SamePending
<1>4. CASE ~(e.dest < taken \/ DestBlock(e.dest) < blk)
  <2>1. heap' = heap \ {e} /\ taken' = e.dest /\ UNCHANGED <<vmfile, vmbuf>>
    BY <1>1, <1>4 DEF CopyMatch
  <2>2. Marks' = Marks /\ heap' \ Marks' = (heap \ Marks) \ {e}
    <3>1. heap' = (heap \ {e}) \union {}
      BY <2>1
    <3>2. QED BY <3>1, <1>0, <1>2, MarksAfter
  <2>3. Away' = Away /\ Away = OnDisk
    BY <1>0, <2>1, <2>2 DEF Away, OnDisk
  <2>4. Match(e) \in Pending /\ Match(e).dest = e.dest
    BY <1>2, PendingIs DEF Match
  <2>5. \A n \in Pending : e.dest <= n.dest
    <3>1. \A f \in heap \ Marks : e.dest <= Match(f).dest
      BY <1>2 DEF Match
    <3>2. ASSUME NEW n \in Away PROVE e.dest <= n.dest
      <4>1. PICK f \in Marks : n \in vmfile[f.src]
        BY <2>3 DEF OnDisk
      <4>2. f \in heap /\ f.src \in 1 .. new_block /\ n \in Matches
        BY <4>1, <1>0, HeapFacts
      <4>3. e.dest <= f.dest /\ f.dest <= n.dest
        BY <4>1, <4>2, <1>0, <1>2 DEF MarksInTime
      <4>4. e.dest \in Nat /\ f.dest \in Nat /\ n.dest \in Nat
        BY <4>2, <1>0, <1>2, HeapFacts, Sizes
      <4>5. QED BY <4>3, <4>4
    <3>3. QED BY <3>1, <3>2, <1>0, PendingIs
  <2>6. Pending' = Pending \ {Match(e)}
    <3>1. \A f \in heap \ Marks : Match(f) = Match(e) => f = e
      BY <1>0, <1>2 DEF MatchesApart, Match
    <3>2. Match(e) \notin Away
      BY <1>0, <1>2, <2>4 DEF MatchesApart
    <3>3. \A x : (\E f \in heap' \ Marks' : x = Match(f))
                   <=> (\E f \in heap \ Marks : x = Match(f)) /\ x # Match(e)
      BY <2>2, <3>1
    <3>4. \A x : x \in Pending' <=> x \in Pending \ {Match(e)}
      BY <3>2, <3>3, <2>3, <1>0, PendingIs, PendingNext
    <3>5. QED BY <3>4, SamePending
  <2>7. QED BY <2>1, <2>4, <2>5, <2>6 DEF Queue!Take
<1>5. QED BY <1>3, <1>4

\* For its caller the heap with its temporary file is a queue of matches in the order
\* of destinations, as long as the scan that makes room for a match never steps back
\* from the first entry.
THEOREM Refinement == Spec /\ []ScanStaysSaving => ImplementsMatchQueue
<1>1. Init => Queue!Init
  <2>1. Init => heap = {} /\ vmbuf = {} /\ ~Saving /\ Marks = {} /\ taken = 0
    BY DEF Init, Saving, Marks
  <2>2. Init => Pending = {}
    <3>1. Init => Away = {}
      BY <2>1 DEF Away, OnDisk
    <3>2. Init => \A x : x \notin Pending
      BY <2>1, <3>1, PendingIs
    <3>3. QED BY <3>2
  <2>3. QED BY <2>1, <2>2 DEF Queue!Init
<1>2. OInv /\ [Next]_vars => [Queue!Next]_<<Pending, taken>>
  <2>1. SUFFICES ASSUME OInv, [Next]_vars PROVE [Queue!Next]_<<Pending, taken>>
    OBVIOUS
  <2>2. CASE InsertMatches \/ FutureMatch
    BY <2>1, <2>2, Inserted DEF Queue!Next
  <2>3. CASE CopyMatch
    BY <2>1, <2>3, TakenFirst DEF Queue!Next
  <2>4. CASE RestoreCall \/ CopyTail \/ NextBlock \/ SaveToDisk \/ ScanSkip \/ SaveMatch
                 \/ ScanSave \/ WriteBlock \/ RestoreBlock \/ UNCHANGED vars
    BY <2>1, <2>4, Unseen
  <2>5. QED BY <2>1, <2>2, <2>3, <2>4 DEF Next, Decode, Virtual
<1>3. ScanStaysSaving /\ ScanStaysRestoring => ScanStaysInHeap
  BY DEF ScanStaysSaving, ScanStaysRestoring, ScanStaysInHeap, Scanning
<1>4. QED BY <1>1, <1>2, <1>3, RestoreStays, InTime, PTL
          DEF Spec, ImplementsMatchQueue, Queue!Spec

-----------------------------------------------------------------------------
(* The memory limit.  Chunks and bytes are sums over the matches in memory  *)
(* and in a block of the file.                                             *)

Chunks   == [n \in Lengths |-> (n - 1) \div USEFUL_CHUNK_SPACE + 1]
ChunksIn == [e \in Entries |-> Chunks[e.len]]
BytesIn  == [m \in Matches |-> RecordHeader + m.len]
BlockChunks == [m \in Matches |-> Chunks[m.len]]

LEMMA UsedChunksIs ==
  ASSUME NEW S, S = {e \in heap : e.saved}, S \subseteq Entries
  PROVE  UsedChunks = SumFunctionOnSet(ChunksIn, S)
<1> DEFINE A(g) == [s \in SUBSET S |->
                     IF s = {} THEN 0
                     ELSE ((Some(s).len - 1) \div USEFUL_CHUNK_SPACE + 1) + g[s \ {Some(s)}]]
           B(g) == [s \in SUBSET S |-> Step(ChunksIn, g, s)]
<1>1. ASSUME NEW s \in SUBSET S, s # {}
      PROVE  ChunksIn[Some(s)] = (Some(s).len - 1) \div USEFUL_CHUNK_SPACE + 1
  <2>1. Some(s) \in Entries
    BY <1>1, SomeIn
  <2>2. Some(s).len \in Lengths
    BY <2>1 DEF Entries
  <2>3. QED BY <2>1, <2>2 DEF ChunksIn, Chunks
<1>2. ASSUME NEW g PROVE A(g) = B(g)
  <2>1. \A s \in SUBSET S :
          (IF s = {} THEN 0
           ELSE ((Some(s).len - 1) \div USEFUL_CHUNK_SPACE + 1) + g[s \ {Some(s)}])
            = Step(ChunksIn, g, s)
    BY <1>1 DEF Step
  <2>2. QED BY <2>1
<1>3. UsedChunks = (CHOOSE g : g = A(g))[S]
  BY DEF UsedChunks, MapThenSumSet, MapThenFoldSet, Some
<1>4. SumFunctionOnSet(ChunksIn, S) = (CHOOSE g : g = B(g))[S]
  BY SumIs DEF Sums
<1> HIDE DEF A, B
<1>5. (CHOOSE g : g = A(g)) = (CHOOSE g : g = B(g))
  BY <1>2
<1>6. QED BY <1>3, <1>4, <1>5

LEMMA RoomIs ==
  ASSUME vmbuf \subseteq Matches
  PROVE  Room = VMBLOCK_SIZE - SumFunctionOnSet(BytesIn, vmbuf)
<1> DEFINE A(g) == [s \in SUBSET vmbuf |->
                     IF s = {} THEN 0 ELSE (RecordHeader + Some(s).len) + g[s \ {Some(s)}]]
           B(g) == [s \in SUBSET vmbuf |-> Step(BytesIn, g, s)]
<1>1. ASSUME NEW s \in SUBSET vmbuf, s # {}
      PROVE  BytesIn[Some(s)] = RecordHeader + Some(s).len
  BY <1>1, SomeIn DEF BytesIn
<1>2. ASSUME NEW g PROVE A(g) = B(g)
  <2>1. \A s \in SUBSET vmbuf :
          (IF s = {} THEN 0 ELSE (RecordHeader + Some(s).len) + g[s \ {Some(s)}])
            = Step(BytesIn, g, s)
    BY <1>1 DEF Step
  <2>2. QED BY <2>1
<1>3. Room = VMBLOCK_SIZE - (CHOOSE g : g = A(g))[vmbuf]
  BY DEF Room, MapThenSumSet, MapThenFoldSet, Some
<1>4. SumFunctionOnSet(BytesIn, vmbuf) = (CHOOSE g : g = B(g))[vmbuf]
  BY SumIs DEF Sums
<1> HIDE DEF A, B
<1>5. (CHOOSE g : g = A(g)) = (CHOOSE g : g = B(g))
  BY <1>2
<1>6. QED BY <1>3, <1>4, <1>5

InMemory == {e \in heap : e.saved}

\* The types of the three sums
LEMMA SumTypes ==
  /\ \A n \in Lengths : Chunks[n] \in Nat \ {0} /\ (Chunks[n] - 1) * USEFUL_CHUNK_SPACE < n
                          /\ n <= Chunks[n] * USEFUL_CHUNK_SPACE
  /\ \A e \in Entries : ChunksIn[e] = Chunks[e.len] /\ ChunksIn[e] \in Nat /\ ChunksIn[e] \in Int
  /\ \A m \in Matches : /\ BlockChunks[m] = Chunks[m.len] /\ BlockChunks[m] \in Nat
                        /\ BytesIn[m] = RecordHeader + m.len /\ BytesIn[m] \in Nat
<1>1. ASSUME NEW n \in Lengths
      PROVE  Chunks[n] \in Nat \ {0} /\ (Chunks[n] - 1) * USEFUL_CHUNK_SPACE < n
               /\ n <= Chunks[n] * USEFUL_CHUNK_SPACE
  <2>1. PICK c : c = USEFUL_CHUNK_SPACE
    OBVIOUS
  <2>2. c \in Nat \ {0} /\ n \in Nat \ {0}
    BY <2>1, VmDecoderAssumption
  <2>3. PICK q : q = (n - 1) \div c
    OBVIOUS
  <2>4. q \in Nat /\ q * c <= n - 1 /\ n - 1 < q * c + c
    BY <2>2, <2>3
  <2>5. Chunks[n] = q + 1
    BY <2>1, <2>3 DEF Chunks
  <2>6. (q + 1 - 1) * c = q * c /\ (q + 1) * c = q * c + c
    BY <2>2, <2>4
  <2>7. q * c \in Nat
    BY <2>2, <2>4
  <2>8. q * c < n /\ n <= q * c + c
    BY <2>2, <2>4, <2>7
  <2>9. (Chunks[n] - 1) * c < n /\ n <= Chunks[n] * c
    BY <2>4, <2>5, <2>6, <2>8
  <2>10. QED BY <2>1, <2>4, <2>5, <2>9
<1>2. \A e \in Entries : ChunksIn[e] = Chunks[e.len] /\ e.len \in Lengths
  BY DEF Entries, ChunksIn
<1>3. \A m \in Matches : BlockChunks[m] = Chunks[m.len] /\ m.len \in Lengths
                           /\ BytesIn[m] = RecordHeader + m.len
  BY DEF Matches, BlockChunks, BytesIn
<1>4. \A m \in Matches : BytesIn[m] \in Nat
  <2>1. RecordHeader \in Nat /\ \A n \in Lengths : n \in Nat
    BY VmDecoderAssumption
  <2>2. QED BY <1>3, <2>1
<1>5. QED BY <1>1, <1>2, <1>3, <1>4

\* Matches that have room in a block of the file
FitsBlock(S) == S # {} => SumFunctionOnSet(BytesIn, S) + EndMark <= VMBLOCK_SIZE

SizesKept ==
  /\ IsFiniteSet(heap) /\ IsFiniteSet(vmbuf) /\ FitsBlock(vmbuf)
  /\ \A b \in 1 .. new_block : IsFiniteSet(vmfile[b]) /\ FitsBlock(vmfile[b])

\* Chunks of memory within the limit
TotalChunks == useful_memory \div USEFUL_CHUNK_SPACE

\* A block that is read back needs at most excess chunks more than VMBLOCK_SIZE bytes fill
RestoredFits(excess) ==
  \A S \in SUBSET Matches :
    IsFiniteSet(S) /\ FitsBlock(S) =>
      (SumFunctionOnSet(BlockChunks, S) - excess - 1) * USEFUL_CHUNK_SPACE < VMBLOCK_SIZE

MemoryBound(excess) == UsedChunks <= TotalChunks + excess

InMemorySummed ==
  /\ InMemory \subseteq Entries /\ InMemory \subseteq heap /\ IsFiniteSet(InMemory)
  /\ \A e \in InMemory : ChunksIn[e] \in Nat /\ ChunksIn[e] \in Int
  /\ UsedChunks = SumFunctionOnSet(ChunksIn, InMemory) /\ UsedChunks \in Nat

LEMMA InMemoryFacts == VmTypes /\ IsFiniteSet(heap) => InMemorySummed
<1>0. SUFFICES ASSUME VmTypes, IsFiniteSet(heap) PROVE InMemorySummed
  OBVIOUS
<1>1. InMemory \subseteq Entries /\ InMemory \subseteq heap
  BY <1>0, HeapFacts DEF InMemory, VmTypes
<1>2. IsFiniteSet(InMemory)
  BY <1>0, <1>1, FS_Subset
<1>3. \A e \in InMemory : ChunksIn[e] \in Nat /\ ChunksIn[e] \in Int
  BY <1>1, SumTypes
<1>4. UsedChunks = SumFunctionOnSet(ChunksIn, InMemory)
  BY <1>1, UsedChunksIs DEF InMemory
<1>5. SumFunctionOnSet(ChunksIn, InMemory) \in Nat
  BY <1>2, <1>3, SumGrows
<1>6. QED BY <1>1, <1>2, <1>3, <1>4, <1>5 DEF InMemorySummed

LEMMA InMemoryNext == (VmTypes /\ IsFiniteSet(heap) => InMemorySummed)'
BY InMemoryFacts, PTL

\* Sets of matches stay finite, and what is written fits into a block
LEMMA SizesStep ==
  ASSUME IInv, SizesKept, [Next]_vars
  PROVE  SizesKept'
<1>0. VmTypes /\ vmbuf \subseteq Matches
  BY DEF IInv, VmTypes
<1>1. /\ IsFiniteSet(heap) /\ IsFiniteSet(vmbuf) /\ FitsBlock(vmbuf)
      /\ \A b \in 1 .. new_block : IsFiniteSet(vmfile[b]) /\ FitsBlock(vmfile[b])
  BY DEF SizesKept
<1>2. ASSUME UNCHANGED <<vmbuf, vmfile>>, IsFiniteSet(heap')
      PROVE  SizesKept'
  BY <1>1, <1>2 DEF SizesKept, FitsBlock, new_block, BytesIn, Matches, Dests
<1>3. CASE InsertMatches
  <2>1. PICK D \in SUBSET {d \in FreeDests(blk) : DestBlock(d) = blk} :
          heap' = heap \union {Entry([dest |-> d, src |-> 0, len |-> AnyLength], FALSE) : d \in D}
    BY <1>3 DEF InsertMatches
  <2>2. D \subseteq Dests
    BY DEF FreeDests
  <2>3. IsFiniteSet(Dests)
    BY Sizes, FS_Interval
  <2>4. IsFiniteSet(D)
    BY <2>2, <2>3, FS_Subset
  <2>5. IsFiniteSet({Entry([dest |-> d, src |-> 0, len |-> AnyLength], FALSE) : d \in D})
    <3> DEFINE f == [d \in D |-> Entry([dest |-> d, src |-> 0, len |-> AnyLength], FALSE)]
    <3>1. {Entry([dest |-> d, src |-> 0, len |-> AnyLength], FALSE) : d \in D} = {f[d] : d \in D}
      OBVIOUS
    <3>2. f = [d \in D |-> f[d]]
      OBVIOUS
    <3> HIDE DEF f
    <3>3. IsFiniteSet({f[d] : d \in D})
      BY <2>4, <3>2, ImageFinite
    <3>4. QED BY <3>1, <3>3
  <2>6. IsFiniteSet(heap')
    BY <2>1, <2>5, <1>1, FS_Union
  <2>7. QED BY <1>2, <1>3, <2>6 DEF InsertMatches
<1>4. CASE CopyMatch
  <2>1. heap' \subseteq heap
    BY <1>4 DEF CopyMatch
  <2>2. IsFiniteSet(heap')
    BY <2>1, <1>1, FS_Subset
  <2>3. QED BY <1>2, <1>4, <2>2 DEF CopyMatch
<1>5. CASE FutureMatch \/ SaveMatch
  <2>1. \E e : heap' = heap \union {e} \/ heap' = heap
    BY <1>5 DEF FutureMatch, SaveMatch
  <2>2. IsFiniteSet(heap')
    BY <2>1, <1>1, FS_AddElement
  <2>3. QED BY <1>2, <1>5, <2>2 DEF FutureMatch, SaveMatch
<1>6. CASE RestoreCall \/ CopyTail \/ NextBlock \/ ScanSkip \/ UNCHANGED vars
  <2>1. UNCHANGED <<heap, vmbuf, vmfile>>
    BY <1>6 DEF RestoreCall, CopyTail, NextBlock, ScanSkip, vars
  <2>2. QED BY <1>1, <1>2, <2>1
<1>7. CASE SaveToDisk
  <2>1. UNCHANGED <<heap, vmfile>> /\ vmbuf' = {} /\ IsFiniteSet(vmbuf')
    BY <1>7, FS_EmptySet DEF SaveToDisk
  <2>2. QED BY <1>1, <2>1 DEF SizesKept, FitsBlock, new_block, BytesIn, Matches, Dests
<1>8. CASE ScanSave
  <2>1. PICK e : e = Nearest(base)
    OBVIOUS
  <2>2. /\ Scanning /\ Below(base) # {} /\ e.saved /\ Fits(e)
        /\ vmbuf' = vmbuf \union {Match(e)} /\ vmfile' = vmfile
        /\ heap' \subseteq heap
    BY <1>8, <2>1 DEF ScanSave
  <2>3. e \in Entries /\ Match(e) \in Matches /\ Match(e).len = e.len
    BY <1>8, <2>1, ScanSaveFacts DEF Match
  <2>4. IsFiniteSet(heap') /\ IsFiniteSet(vmbuf')
    BY <1>1, <2>2, FS_Subset, FS_AddElement
  <2>5. FitsBlock(vmbuf')
    <3>1. CASE Match(e) \in vmbuf
      BY <1>1, <2>2, <3>1
    <3>2. CASE Match(e) \notin vmbuf
      <4>1. /\ BytesIn[Match(e)] = RecordHeader + e.len
            /\ \A m \in vmbuf \union {Match(e)} : BytesIn[m] \in Int
        BY <1>0, <2>3, SumTypes
      <4>2. SumFunctionOnSet(BytesIn, vmbuf \union {Match(e)})
              = BytesIn[Match(e)] + SumFunctionOnSet(BytesIn, (vmbuf \union {Match(e)}) \ {Match(e)})
        BY <2>2, <2>4, <4>1, SumRemove
      <4>3. (vmbuf \union {Match(e)}) \ {Match(e)} = vmbuf
        BY <3>2
      <4>4. RecordHeader + EndMark + e.len <= VMBLOCK_SIZE - SumFunctionOnSet(BytesIn, vmbuf)
        BY <1>0, <2>2, RoomIs DEF Fits
      <4>5. SumFunctionOnSet(BytesIn, vmbuf) \in Int
        <5>1. \A m \in vmbuf : BytesIn[m] \in Int
          BY <4>1
        <5>2. QED BY <1>1, <5>1, SumType
      <4>6. {RecordHeader, EndMark, VMBLOCK_SIZE} \subseteq Nat /\ e.len \in Nat
        BY <2>3, VmDecoderAssumption DEF Entries
      <4>7. SumFunctionOnSet(BytesIn, vmbuf') + EndMark <= VMBLOCK_SIZE
        <5> DEFINE s == SumFunctionOnSet(BytesIn, vmbuf)
                   t == SumFunctionOnSet(BytesIn, vmbuf')
        <5>1. t = (RecordHeader + e.len) + s
          BY <2>2, <4>1, <4>2, <4>3
        <5>2. s \in Int /\ RecordHeader + EndMark + e.len <= VMBLOCK_SIZE - s
          BY <4>4, <4>5
        <5> HIDE DEF s, t
        <5>3. RecordHeader \in Nat /\ EndMark \in Nat /\ VMBLOCK_SIZE \in Nat
          BY <4>6
        <5>4. t + EndMark <= VMBLOCK_SIZE
          BY <4>6, <5>1, <5>2, <5>3
        <5>5. QED BY <5>4 DEF t
      <4>8. QED BY <4>7 DEF FitsBlock
    <3>3. QED BY <3>1, <3>2
  <2>6. FitsBlock(vmbuf)' /\ new_block' = new_block
    BY <2>2, <2>5 DEF FitsBlock, BytesIn, Matches, Dests, new_block
  <2>7. \A b \in 1 .. new_block : IsFiniteSet(vmfile'[b]) /\ FitsBlock(vmfile'[b])
    BY <1>1, <2>2
  <2>8. QED BY <2>4, <2>6, <2>7 DEF SizesKept, FitsBlock, BytesIn, Matches, Dests
<1>9. CASE WriteBlock
  <2> DEFINE b == IF free_blocks = <<>> THEN new_block + 1 ELSE Head(free_blocks)
  <2>1. /\ vmfile' = IF b > new_block THEN Append(vmfile, vmbuf) ELSE [vmfile EXCEPT ![b] = vmbuf]
        /\ heap' = heap \union {Mark(b, min_dest)} /\ vmbuf' = {}
    BY <1>9 DEF WriteBlock
  <2>2. IsFiniteSet(heap') /\ IsFiniteSet(vmbuf') /\ FitsBlock(vmbuf')
    BY <1>1, <2>1, FS_AddElement, FS_EmptySet DEF FitsBlock
  <2>3. vmfile \in Seq(SUBSET Matches) /\ new_block = Len(vmfile) /\ new_block \in Nat
    <3>1. vmfile \in Seq(SUBSET Matches)
      BY <1>0 DEF VmTypes
    <3>2. QED BY <3>1 DEF new_block
  <2>4. free_blocks # <<>> => b \in 1 .. new_block
    <3>1. free_blocks \in Seq(1 .. new_block)
      BY <1>0 DEF VmTypes
    <3>2. free_blocks # <<>> => Head(free_blocks) \in 1 .. new_block
      BY <3>1, HeadTailProperties
    <3>3. QED BY <3>2
  <2>5. \A c \in 1 .. new_block' : vmfile'[c] = vmbuf \/ (c \in 1 .. new_block /\ vmfile'[c] = vmfile[c])
    <3>1. new_block' = Len(vmfile')
      BY DEF new_block
    <3>2. CASE free_blocks = <<>>
      <4>1. vmfile' = Append(vmfile, vmbuf)
        BY <2>1, <2>3, <3>2
      <4>2. QED BY <2>3, <3>1, <4>1
    <3>3. CASE free_blocks # <<>>
      <4>1. b \in 1 .. new_block
        BY <2>4, <3>3
      <4> HIDE DEF b
      <4>2. vmfile' = [vmfile EXCEPT ![b] = vmbuf]
        BY <2>1, <2>3, <4>1
      <4>3. QED BY <2>3, <3>1, <4>1, <4>2
    <3>4. QED BY <3>2, <3>3
  <2>6. \A c \in 1 .. new_block' : IsFiniteSet(vmfile'[c]) /\ FitsBlock(vmfile'[c])
    BY <1>1, <2>5
  <2>7. QED BY <2>2, <2>6 DEF SizesKept, FitsBlock, BytesIn, Matches, Dests
<1>10. CASE RestoreBlock
  <2>1. /\ heap' = (heap \ {cur}) \union {Entry(m, TRUE) : m \in vmfile[cur.src]}
        /\ UNCHANGED <<vmfile, vmbuf>>
    BY <1>10 DEF RestoreBlock
  <2>2. IsFiniteSet(vmfile[cur.src])
    BY <1>1, <1>10, RestoreFacts
  <2>3. IsFiniteSet({Entry(m, TRUE) : m \in vmfile[cur.src]})
    <3> DEFINE V == vmfile[cur.src]
               f == [m \in V |-> Entry(m, TRUE)]
    <3>1. {Entry(m, TRUE) : m \in V} = {f[m] : m \in V}
      OBVIOUS
    <3>2. f = [m \in V |-> f[m]]
      OBVIOUS
    <3> HIDE DEF f
    <3>3. IsFiniteSet({f[m] : m \in V})
      BY <2>2, <3>2, ImageFinite
    <3>4. QED BY <3>1, <3>3
  <2>4. IsFiniteSet(heap \ {cur})
    BY <1>1, FS_Subset
  <2>5. IsFiniteSet(heap')
    BY <2>1, <2>3, <2>4, FS_Union
  <2>6. QED BY <1>2, <2>1, <2>5
<1>11. QED BY <1>3, <1>4, <1>5, <1>6, <1>7, <1>8, <1>9, <1>10 DEF Next, Decode, Virtual

\* The sum over the image of a set under a function that keeps its elements apart
LEMMA SumOfImage ==
  ASSUME NEW f, NEW h, NEW g, NEW S, IsFiniteSet(S), g = [x \in S |-> g[x]],
         \A x, y \in S : g[x] = g[y] => x = y,
         \A x \in S : f[x] \in Int /\ h[g[x]] = f[x]
  PROVE  SumFunctionOnSet(h, {g[x] : x \in S}) = SumFunctionOnSet(f, S)
<1> DEFINE Image(V) == {g[x] : x \in V}
           A == {k \in Nat : \A V \in SUBSET S : Cardinality(V) = k =>
                               SumFunctionOnSet(h, Image(V)) = SumFunctionOnSet(f, V)}
<1>1. \A V \in SUBSET S : IsFiniteSet(V) /\ Cardinality(V) \in Nat /\ (Cardinality(V) = 0 <=> V = {})
  BY FS_Subset, FS_CardinalityType, FS_EmptySet
<1>2. 0 \in A
  <2>1. SUFFICES ASSUME NEW V \in SUBSET S, Cardinality(V) = 0
                 PROVE  SumFunctionOnSet(h, Image(V)) = SumFunctionOnSet(f, V)
    OBVIOUS
  <2>2. V = {} /\ Image(V) = {}
    BY <1>1, <2>1
  <2>3. QED BY <2>2, SumEmpty
<1>3. ASSUME NEW k \in Nat, k \in A PROVE k + 1 \in A
  <2>1. SUFFICES ASSUME NEW V \in SUBSET S, Cardinality(V) = k + 1
                 PROVE  SumFunctionOnSet(h, Image(V)) = SumFunctionOnSet(f, V)
    OBVIOUS
  <2>2. PICK y : y \in V
    BY <1>1, <2>1
  <2> DEFINE W == V \ {y}
  <2>3. Cardinality(W) = k /\ W \in SUBSET S
    <3>1. Cardinality(V \ {y}) = Cardinality(V) - 1
      BY <1>1, <2>2, FS_RemoveElement
    <3>2. QED BY <2>1, <3>1
  <2>4. SumFunctionOnSet(h, Image(W)) = SumFunctionOnSet(f, W)
    <3> HIDE DEF W, Image
    <3>1. QED BY <1>3, <2>3
  <2>5. SumFunctionOnSet(f, V) = f[y] + SumFunctionOnSet(f, W)
    BY <1>1, <2>2, SumRemove
  <2>6. g[y] \in Image(V) /\ Image(V) \ {g[y]} = Image(W) /\ \A z \in Image(V) : h[z] \in Int
    BY <2>2
  <2>7. IsFiniteSet(Image(V))
    <3> DEFINE r == [x \in V |-> g[x]]
    <3>0. IsFiniteSet(V)
      BY <1>1
    <3>1. Image(V) = {r[x] : x \in V}
      OBVIOUS
    <3>1a. r = [x \in V |-> r[x]]
      OBVIOUS
    <3> HIDE DEF r
    <3>2. IsFiniteSet({r[x] : x \in V})
      BY <3>0, <3>1a, ImageFinite
    <3> HIDE DEF Image
    <3>3. QED BY <3>1, <3>2
  <2>8. SumFunctionOnSet(h, Image(V)) = h[g[y]] + SumFunctionOnSet(h, Image(V) \ {g[y]})
    <3> HIDE DEF Image
    <3>1. QED BY <2>6, <2>7, SumRemove
  <2>9. h[g[y]] = f[y]
    BY <2>2
  <2> HIDE DEF Image, W
  <2>10. QED BY <2>4, <2>5, <2>6, <2>8, <2>9
<1>4. Cardinality(S) \in A
  <2> HIDE DEF A
  <2>1. QED BY <1>1, <1>2, <1>3, AllNumbers
<1>5. QED BY <1>4

\* What is read back takes as many chunks as its entries in the heap
LEMMA SumOfEntries ==
  ASSUME NEW V, IsFiniteSet(V), V \subseteq Matches,
         \A m \in V : ChunksIn[Entry(m, TRUE)] = BlockChunks[m],
         \A m, n \in V : Entry(m, TRUE) = Entry(n, TRUE) => m = n
  PROVE  /\ IsFiniteSet({Entry(m, TRUE) : m \in V})
         /\ SumFunctionOnSet(ChunksIn, {Entry(m, TRUE) : m \in V}) = SumFunctionOnSet(BlockChunks, V)
<1> DEFINE g == [m \in V |-> Entry(m, TRUE)]
<1>1. /\ {Entry(m, TRUE) : m \in V} = {g[m] : m \in V}
      /\ g = [m \in V |-> g[m]]
      /\ \A m, n \in V : g[m] = g[n] => m = n
      /\ \A m \in V : ChunksIn[g[m]] = BlockChunks[m]
  OBVIOUS
<1>2. \A m \in V : BlockChunks[m] \in Int
  BY SumTypes
<1> HIDE DEF g
<1>3. IsFiniteSet({g[m] : m \in V})
  BY <1>1, ImageFinite
<1>4. SumFunctionOnSet(ChunksIn, {g[m] : m \in V}) = SumFunctionOnSet(BlockChunks, V)
  BY <1>1, <1>2, SumOfImage
<1>5. QED BY <1>1, <1>3, <1>4

LEMMA MemoryInChunks ==
  TotalChunks \in Nat /\ useful_memory = TotalChunks * USEFUL_CHUNK_SPACE
<1>1. PICK c, u : c = USEFUL_CHUNK_SPACE /\ u = useful_memory
  OBVIOUS
<1>2. c \in Nat \ {0} /\ u \in Nat /\ u % c = 0
  BY <1>1, VmDecoderAssumption
<1>3. u \div c \in Nat /\ u = (u \div c) * c
  BY <1>2
<1>4. QED BY <1>1, <1>3 DEF TotalChunks

LEMMA ChunkRounding ==
  ASSUME NEW c \in Nat \ {0}, NEW k \in Nat, NEW u \in Nat, NEW v \in Nat, NEW x \in Nat,
         NEW s \in Nat \ {0}, (v - x - 1) * c < s,
         s <= IF k * c > u * c THEN k * c - u * c ELSE 0
  PROVE  u + v <= k + x
<1>1. k * c \in Nat /\ u * c \in Nat
  OBVIOUS
<1>2. s <= k * c - u * c
  <2> DEFINE p == k * c
             q == u * c
  <2>1. p \in Nat /\ q \in Nat /\ s <= IF p > q THEN p - q ELSE 0
    BY <1>1
  <2> HIDE DEF p, q
  <2>2. s <= p - q
    BY <2>1
  <2>3. QED BY <2>2 DEF p, q
<1>3. SUFFICES ASSUME k + x < u + v PROVE FALSE
  OBVIOUS
<1>4. PICK j \in Nat : v - x - 1 = (k - u) + j
  <2>1. v - x - 1 - (k - u) \in Nat
    BY <1>3
  <2>2. v - x - 1 = (k - u) + (v - x - 1 - (k - u))
    OBVIOUS
  <2>3. QED BY <2>1, <2>2
<1>5. (v - x - 1) * c = (k * c - u * c) + j * c /\ j * c \in Nat
  BY <1>4
<1>6. (v - x - 1) * c < s
  OBVIOUS
<1>7. QED
  <2> DEFINE p == k * c
             q == u * c
             r == j * c
             t == (v - x - 1) * c
  <2>1. p \in Nat /\ q \in Nat /\ r \in Nat /\ t = (p - q) + r /\ t < s /\ s <= p - q
    BY <1>1, <1>2, <1>5, <1>6
  <2> HIDE DEF p, q, r, t
  <2>2. QED BY <2>1

\* The memory in use stays within the limit and the excess of a block
LEMMA BoundStep ==
  ASSUME NEW excess \in Nat, RestoredFits(excess),
         IInv, SizesKept, MemoryBound(excess), [Next]_vars, SizesKept', IInv'
  PROVE  MemoryBound(excess)'
<1>0. VmTypes /\ IsFiniteSet(heap) /\ VmTypes' /\ IsFiniteSet(heap')
  BY DEF IInv, SizesKept
<1>1. /\ InMemory \subseteq Entries /\ InMemory \subseteq heap /\ IsFiniteSet(InMemory)
      /\ \A e \in InMemory : ChunksIn[e] \in Nat /\ ChunksIn[e] \in Int
      /\ UsedChunks = SumFunctionOnSet(ChunksIn, InMemory) /\ UsedChunks \in Nat
  BY <1>0, InMemoryFacts DEF InMemorySummed
<1>2. /\ InMemory' \subseteq Entries /\ IsFiniteSet(InMemory')
      /\ \A e \in InMemory' : ChunksIn[e] \in Nat /\ ChunksIn[e] \in Int
      /\ UsedChunks' = SumFunctionOnSet(ChunksIn, InMemory') /\ UsedChunks' \in Nat
  <2>1. InMemorySummed'
    BY <1>0, InMemoryNext
  <2>2. QED BY <2>1 DEF InMemorySummed
<1>3. PICK c : c = USEFUL_CHUNK_SPACE
  OBVIOUS
<1>4. c \in Nat \ {0} /\ useful_memory \in Nat /\ VMBLOCK_SIZE \in Nat \ {0}
      /\ \A n \in Lengths : n \in Nat \ {0}
  BY <1>3, VmDecoderAssumption
<1>5. PICK k : k = TotalChunks /\ k \in Nat /\ useful_memory = k * c
  BY <1>3, MemoryInChunks
<1>6. ASSUME InMemory' \subseteq InMemory
      PROVE  MemoryBound(excess)'
  <2>1. UsedChunks' <= UsedChunks
    BY <1>1, <1>2, <1>6, SumGrows
  <2>2. QED BY <2>1, <1>1, <1>2, <1>5 DEF MemoryBound
<1>7. CASE InsertMatches
  <2>1. \A e \in heap' : e \in heap \/ e.saved = FALSE
    BY <1>7 DEF InsertMatches, Entry
  <2>2. InMemory' \subseteq InMemory
    BY <2>1 DEF InMemory
  <2>3. QED BY <2>2, <1>6
<1>8. CASE CopyMatch \/ ScanSave \/ RestoreCall \/ CopyTail \/ NextBlock \/ ScanSkip
               \/ SaveToDisk \/ UNCHANGED vars
  <2>1. heap' \subseteq heap
    BY <1>8 DEF CopyMatch, ScanSave, RestoreCall, CopyTail, NextBlock, ScanSkip, SaveToDisk, vars
  <2>2. InMemory' \subseteq InMemory
    BY <2>1 DEF InMemory
  <2>3. QED BY <2>2, <1>6
<1>9. CASE FutureMatch
  <2>1. \A e \in heap' : e \in heap \/ e.saved = FALSE
    BY <1>9 DEF FutureMatch, Entry
  <2>2. InMemory' \subseteq InMemory
    BY <2>1 DEF InMemory
  <2>3. QED BY <2>2, <1>6
<1>10. CASE WriteBlock
  <2>1. \A e \in heap' : e \in heap \/ e.saved = FALSE
    <3>1. PICK b, d : heap' = heap \union {Mark(b, d)}
      BY <1>10 DEF WriteBlock
    <3>2. Mark(b, d).saved = FALSE
      BY DEF Mark
    <3>3. QED BY <3>1, <3>2
  <2>2. InMemory' \subseteq InMemory
    BY <2>1 DEF InMemory
  <2>3. QED BY <2>2, <1>6
<1>11. CASE SaveMatch
  <2>1. heap' = heap \union {cur} /\ cur.len <= available_space /\ cur \in Entries
    BY <1>0, <1>11 DEF SaveMatch, VmTypes, Saving
  <2>2. CASE cur \in InMemory \/ ~cur.saved
    <3>1. InMemory' \subseteq InMemory
      BY <2>1, <2>2 DEF InMemory
    <3>2. QED BY <3>1, <1>6
  <2>3. CASE cur \notin InMemory /\ cur.saved
    <3>1. InMemory' = InMemory \union {cur} /\ InMemory' \ {cur} = InMemory
      BY <2>1, <2>3 DEF InMemory
    <3>2. UsedChunks' = ChunksIn[cur] + UsedChunks
      <4>1. SumFunctionOnSet(ChunksIn, InMemory')
              = ChunksIn[cur] + SumFunctionOnSet(ChunksIn, InMemory' \ {cur})
        BY <1>2, <3>1, SumRemove
      <4>2. QED BY <4>1, <3>1, <1>1, <1>2
    <3>3. cur.len \in Lengths /\ ChunksIn[cur] = Chunks[cur.len]
      BY <2>1, SumTypes DEF Entries
    <3>4. PICK n, q, u : n = cur.len /\ q = Chunks[cur.len] /\ u = UsedChunks
      OBVIOUS
    <3>5. n \in Nat \ {0} /\ q \in Nat \ {0} /\ (q - 1) * c < n /\ u \in Nat
      BY <3>3, <3>4, <1>1, <1>3, <1>4, SumTypes
    <3>6. n <= IF k * c > u * c THEN k * c - u * c ELSE 0
      BY <2>1, <3>4, <1>3, <1>5 DEF available_space
    <3>7. k * c \in Nat /\ u * c \in Nat /\ (q - 1) * c \in Nat
      BY <1>4, <1>5, <3>5
    <3>8. (q - 1) * c < k * c - u * c
      BY <3>5, <3>6, <3>7
    <3>9. (q - 1 + u) * c = (q - 1) * c + u * c
      BY <1>4, <3>5
    <3>10. (q - 1 + u) * c < k * c
      BY <3>7, <3>8, <3>9
    <3>11. q - 1 + u < k
      <4>1. q - 1 + u \in Nat
        BY <3>5
      <4>2. SUFFICES ASSUME k <= q - 1 + u PROVE FALSE
        BY <4>1, <1>5
      <4>3. k * c <= (q - 1 + u) * c
        BY <4>1, <4>2, <1>4, <1>5
      <4>4. QED BY <4>1, <4>3, <3>7, <3>9, <3>10
    <3>12. UsedChunks' <= k
      BY <3>2, <3>3, <3>4, <3>5, <3>11, <1>5
    <3>13. QED BY <3>12, <1>2, <1>5 DEF MemoryBound, TotalChunks
  <2>4. QED BY <2>2, <2>3
<1>12. CASE RestoreBlock
  <2> DEFINE V == vmfile[cur.src]
             A == {Entry(m, TRUE) : m \in V}
  <2>1. /\ available_space >= VMBLOCK_SIZE
        /\ heap' = (heap \ {cur}) \union A
    BY <1>12 DEF RestoreBlock
  <2>2. /\ cur \in Marks /\ cur.src \in 1 .. new_block /\ V \subseteq Matches
        /\ A \subseteq Entries
    BY <1>12, RestoreFacts
  <2>3. IsFiniteSet(V) /\ FitsBlock(V)
    BY <2>2 DEF SizesKept
  <2>4. PICK v : v = SumFunctionOnSet(BlockChunks, V)
    OBVIOUS
  <2>5. v \in Nat /\ (v - excess - 1) * c < VMBLOCK_SIZE
    <3>1. \A m \in V : BlockChunks[m] \in Nat
      BY <2>2, SumTypes
    <3>2. SumFunctionOnSet(BlockChunks, V) \in Nat
      <4> HIDE DEF V
      <4>1. QED BY <2>3, <3>1, SumGrows
    <3>3. QED BY <2>2, <2>3, <2>4, <3>2, <1>3 DEF RestoredFits
  <2>6. UsedChunks' <= UsedChunks + v
    <3>1. InMemory' \subseteq InMemory \union A /\ A \subseteq Entries
      BY <2>1, <2>2 DEF InMemory
    <3>2. IsFiniteSet(A) /\ SumFunctionOnSet(ChunksIn, A) = v
      <4>1. \A m \in V : ChunksIn[Entry(m, TRUE)] = BlockChunks[m]
        <5>1. SUFFICES ASSUME NEW m \in V
                       PROVE  ChunksIn[Entry(m, TRUE)] = BlockChunks[m]
          OBVIOUS
        <5>2. Entry(m, TRUE) \in Entries /\ m \in Matches /\ Entry(m, TRUE).len = m.len
          BY <2>2 DEF Entry
        <5>3. QED BY <5>2, SumTypes
      <4>2. \A m, n \in V : Entry(m, TRUE) = Entry(n, TRUE) => m = n
        <5>1. \A m \in V : Match(Entry(m, TRUE)) = m
          BY <1>12, RestoreFacts
        <5>2. QED BY <5>1
      <4>3. V \subseteq Matches
        BY <2>2
      <4> HIDE DEF V
      <4>4. QED BY <2>3, <2>4, <4>1, <4>2, <4>3, SumOfEntries
    <3> HIDE DEF A
    <3>3. IsFiniteSet(InMemory \union A)
      BY <1>1, <3>2, FS_Union
    <3>4. \A e \in InMemory \union A : ChunksIn[e] \in Nat
      BY <1>1, <2>2, SumTypes
    <3>5. UsedChunks' <= SumFunctionOnSet(ChunksIn, InMemory \union A)
      BY <1>2, <3>1, <3>3, <3>4, SumGrows
    <3> DEFINE B == A \ InMemory
    <3>6. SumFunctionOnSet(ChunksIn, InMemory \union B)
            = UsedChunks + SumFunctionOnSet(ChunksIn, B)
      <4>1. IsFiniteSet(B) /\ InMemory \cap B = {}
        BY <3>2, FS_Subset
      <4>2. \A e \in InMemory \union B : ChunksIn[e] \in Int
        BY <3>4
      <4> HIDE DEF B
      <4>3. QED BY <1>1, <4>1, <4>2, SumUnion
    <3>7. InMemory \union B = InMemory \union A
      OBVIOUS
    <3>8. SumFunctionOnSet(ChunksIn, B) <= v /\ SumFunctionOnSet(ChunksIn, B) \in Nat
      <4>1. B \in SUBSET A /\ \A e \in A : ChunksIn[e] \in Nat
        BY <3>4
      <4> HIDE DEF B
      <4>2. QED BY <3>2, <4>1, SumGrows
    <3>9. QED
      <4> DEFINE w == SumFunctionOnSet(ChunksIn, B)
      <4>1. UsedChunks' <= UsedChunks + w /\ w <= v /\ w \in Nat
        BY <3>5, <3>6, <3>7, <3>8
      <4> HIDE DEF w
      <4>2. QED BY <4>1, <2>5, <1>1, <1>2
  <2>7. PICK u, w, s : u = UsedChunks /\ w = UsedChunks' /\ s = VMBLOCK_SIZE
    OBVIOUS
  <2>8. u \in Nat /\ w \in Nat /\ s \in Nat \ {0} /\ w <= u + v
    BY <2>6, <2>7, <1>1, <1>2, <1>4
  <2>9. s <= IF k * c > u * c THEN k * c - u * c ELSE 0
    <3>1. available_space = IF k * c > u * c THEN k * c - u * c ELSE 0
      BY <2>7, <1>3, <1>5 DEF available_space
    <3>2. k * c \in Nat /\ u * c \in Nat
      BY <1>4, <1>5, <2>8
    <3>3. available_space >= s
      BY <2>1, <2>7
    <3>4. QED
      <4> DEFINE x == k * c
                 y == u * c
      <4>1. x \in Nat /\ y \in Nat /\ (IF x > y THEN x - y ELSE 0) >= s
        BY <3>1, <3>2, <3>3
      <4> HIDE DEF x, y
      <4>2. s <= IF x > y THEN x - y ELSE 0
        BY <4>1, <2>8
      <4>3. QED BY <4>2 DEF x, y
  <2>10. u + v <= k + excess
    <3>1. (v - excess - 1) * c < s
      BY <2>5, <2>7
    <3>2. QED BY <2>5, <2>8, <2>9, <3>1, <1>4, <1>5, ChunkRounding
  <2>11. w <= k + excess
    BY <2>5, <2>8, <2>10, <1>5
  <2>12. QED BY <2>7, <2>11, <1>5 DEF MemoryBound, TotalChunks
<1>13. QED BY <1>7, <1>8, <1>9, <1>10, <1>11, <1>12 DEF Next, Decode, Virtual

\* What the decoder holds is finite, and what it swaps out fits into the blocks
LEMMA SizesInv == Spec => [](IInv /\ SizesKept)
<1>1. Init => SizesKept
  <2>1. Init => heap = {} /\ vmbuf = {} /\ vmfile = <<>>
    BY DEF Init
  <2>2. Init => new_block = 0
    BY <2>1 DEF new_block
  <2>3. IsFiniteSet({}) /\ 1 .. 0 = {}
    BY FS_EmptySet
  <2>4. QED BY <2>1, <2>2, <2>3 DEF SizesKept, FitsBlock
<1>2. IInv /\ SizesKept /\ [Next]_vars => SizesKept'
  BY SizesStep
<1>3. QED BY <1>1, <1>2, Inductive, PTL DEF Spec

LEMMA BoundInit ==
  ASSUME Init, NEW excess \in Nat
  PROVE  MemoryBound(excess)
<1>1. heap = {} /\ InMemory = {}
  BY DEF Init, InMemory
<1>2. UsedChunks = 0
  BY <1>1, UsedChunksIs, SumEmpty DEF InMemory
<1>3. QED BY <1>2, MemoryInChunks DEF MemoryBound

\* Every match of a block takes RecordHeader + 1 bytes and more, and no match needs
\* more chunks than its bytes make of that size
LEMMA BlockNeeds ==
  ASSUME RecordHeader < USEFUL_CHUNK_SPACE,
         NEW S \in SUBSET Matches, IsFiniteSet(S), FitsBlock(S)
  PROVE  SumFunctionOnSet(BlockChunks, S) * (RecordHeader + 1) <= VMBLOCK_SIZE
<1> DEFINE h == RecordHeader + 1
           Chunked(V) == SumFunctionOnSet(BlockChunks, V)
           Sized(V)   == SumFunctionOnSet(BytesIn, V)
           A == {k \in Nat : \A V \in SUBSET S : Cardinality(V) = k => Chunked(V) * h <= Sized(V)}
<1>0. /\ RecordHeader \in Nat /\ h \in Nat \ {0} /\ VMBLOCK_SIZE \in Nat /\ EndMark \in Nat
      /\ USEFUL_CHUNK_SPACE \in Nat \ {0} /\ \A n \in Lengths : n \in Nat \ {0}
  BY VmDecoderAssumption
<1>1. \A V \in SUBSET S : IsFiniteSet(V) /\ Cardinality(V) \in Nat /\ (Cardinality(V) = 0 <=> V = {})
  BY FS_Subset, FS_CardinalityType, FS_EmptySet
<1>2. \A m \in S : /\ BlockChunks[m] = Chunks[m.len] /\ BlockChunks[m] \in Nat /\ BlockChunks[m] \in Int
                   /\ BytesIn[m] = RecordHeader + m.len /\ BytesIn[m] \in Int /\ m.len \in Lengths
  BY SumTypes DEF Matches
<1>3. \A V \in SUBSET S : Chunked(V) \in Int /\ Sized(V) \in Int
  BY <1>1, <1>2, SumType
<1>4. 0 \in A
  <2>1. SUFFICES ASSUME NEW V \in SUBSET S, Cardinality(V) = 0
                 PROVE  Chunked(V) * h <= Sized(V)
    OBVIOUS
  <2>2. Chunked(V) = 0 /\ Sized(V) = 0
    BY <1>1, <2>1, SumEmpty
  <2>3. QED BY <1>0, <2>2
<1>5. ASSUME NEW m \in S PROVE BlockChunks[m] * h <= BytesIn[m]
  <2>1. PICK q, n, c : q = BlockChunks[m] /\ n = m.len /\ c = USEFUL_CHUNK_SPACE
    OBVIOUS
  <2>2. q \in Nat \ {0} /\ n \in Nat \ {0} /\ (q - 1) * c < n /\ c \in Nat \ {0}
    BY <1>0, <1>2, <2>1, SumTypes
  <2>3. h <= c
    BY <1>0, <2>1
  <2>4. PICK p \in Nat : q = p + 1
    <3>1. q - 1 \in Nat /\ q = (q - 1) + 1
      BY <2>2
    <3>2. QED BY <3>1
  <2>5. PICK d \in Nat : c = h + d
    <3>1. c - h \in Nat /\ c = h + (c - h)
      BY <1>0, <2>2, <2>3
    <3>2. QED BY <3>1
  <2> HIDE DEF h
  <2>6. p * c = p * h + p * d /\ p * h \in Nat /\ p * d \in Nat /\ q * h = p * h + h
    BY <1>0, <2>4, <2>5
  <2>7. p * c < n
    BY <2>2, <2>4
  <2>8. p * h < n
    BY <2>2, <2>6, <2>7
  <2>9. q * h <= RecordHeader + n
    BY <1>0, <2>2, <2>6, <2>8 DEF h
  <2>10. QED BY <1>2, <2>1, <2>9
<1>6. ASSUME NEW k \in Nat, k \in A PROVE k + 1 \in A
  <2>1. SUFFICES ASSUME NEW V \in SUBSET S, Cardinality(V) = k + 1
                 PROVE  Chunked(V) * h <= Sized(V)
    OBVIOUS
  <2>2. PICK y : y \in V
    BY <1>1, <2>1
  <2> DEFINE W == V \ {y}
  <2>3. Cardinality(W) = k /\ W \in SUBSET S
    <3>1. Cardinality(V \ {y}) = Cardinality(V) - 1
      BY <1>1, <2>2, FS_RemoveElement
    <3>2. QED BY <2>1, <3>1
  <2>4. Chunked(W) * h <= Sized(W)
    <3> HIDE DEF W, Chunked, Sized
    <3>1. QED BY <1>6, <2>3
  <2>5. Chunked(V) = BlockChunks[y] + Chunked(W) /\ Sized(V) = BytesIn[y] + Sized(W)
    BY <1>1, <1>2, <2>2, SumRemove
  <2>6. BlockChunks[y] * h <= BytesIn[y] /\ BlockChunks[y] \in Nat /\ BytesIn[y] \in Int
    BY <1>2, <1>5, <2>2
  <2> DEFINE a == Chunked(W)
             b == BlockChunks[y]
  <2>7. a \in Int /\ Sized(W) \in Int /\ b \in Int
    BY <1>3, <2>3, <2>6
  <2>8. (b + a) * h = b * h + a * h /\ b * h \in Int /\ a * h \in Int
    <3> HIDE DEF a, b, h
    <3>1. QED BY <1>0, <2>7
  <2> DEFINE bh == b * h
             ah == a * h
  <2>9. bh \in Int /\ ah \in Int /\ (b + a) * h = bh + ah /\ bh <= BytesIn[y] /\ ah <= Sized(W)
    BY <2>4, <2>6, <2>8
  <2>10. Chunked(V) * h = (b + a) * h
    BY <2>5
  <2> HIDE DEF bh, ah, a, b, h, Chunked, Sized, W
  <2>11. QED BY <2>5, <2>6, <2>7, <2>9, <2>10
<1>7. Chunked(S) * h <= Sized(S)
  <2>1. Cardinality(S) \in A
    <3> HIDE DEF A
    <3>1. QED BY <1>1, <1>4, <1>6, AllNumbers
  <2>2. QED BY <2>1
<1>8. CASE S = {}
  <2>1. Chunked(S) = 0
    BY <1>8, SumEmpty
  <2>2. QED BY <1>0, <2>1
<1>9. CASE S # {}
  <2>1. Sized(S) + EndMark <= VMBLOCK_SIZE
    BY <1>9 DEF FitsBlock
  <2>2. Sized(S) \in Int /\ Chunked(S) * h \in Int
    <3>1. Sized(S) \in Int /\ Chunked(S) \in Int
      BY <1>3
    <3> HIDE DEF Sized, Chunked, h
    <3>2. QED BY <1>0, <3>1
  <2> DEFINE x == Chunked(S) * h
             y == Sized(S)
  <2>3. x \in Int /\ y \in Int /\ x <= y /\ y + EndMark <= VMBLOCK_SIZE
    BY <1>7, <2>1, <2>2
  <2> HIDE DEF x, y
  <2>4. x <= VMBLOCK_SIZE
    BY <1>0, <2>3
  <2>5. QED BY <2>4 DEF x
<1>10. QED BY <1>8, <1>9

\* In the worst case, a block full of matches of one byte each
MostExcess == VMBLOCK_SIZE \div (RecordHeader + 1) - VMBLOCK_SIZE \div USEFUL_CHUNK_SPACE

\* With chunks that are longer than the header of a match in the file, and whatever the
\* lengths of matches are: what exceeds the limit is no more than the chunks that a
\* block full of the shortest matches needs beyond its own size.
THEOREM LimitExceeded ==
  ASSUME RecordHeader < USEFUL_CHUNK_SPACE
  PROVE  Spec => []MemoryBound(MostExcess)
<1>1. PICK h, v, c : h = RecordHeader + 1 /\ v = VMBLOCK_SIZE /\ c = USEFUL_CHUNK_SPACE
  OBVIOUS
<1>2. h \in Nat \ {0} /\ v \in Nat \ {0} /\ c \in Nat \ {0}
  BY <1>1, VmDecoderAssumption
<1>3. PICK d, e : d = v \div h /\ e = v \div c
  OBVIOUS
<1>4. /\ d \in Nat /\ v < d * h + h /\ e \in Nat /\ e * c <= v
      /\ MostExcess = d - e /\ h <= c
  <2>1. d \in Nat /\ v < d * h + h /\ e \in Nat /\ e * c <= v
    BY <1>2, <1>3
  <2>2. MostExcess = d - e
    BY <1>1, <1>3 DEF MostExcess
  <2>3. h <= c
    <3>1. RecordHeader \in Nat
      BY VmDecoderAssumption
    <3>2. QED BY <1>1, <1>2, <3>1
  <2>4. QED BY <2>1, <2>2, <2>3
<1>5. ASSUME NEW S \in SUBSET Matches, IsFiniteSet(S), FitsBlock(S)
      PROVE  (SumFunctionOnSet(BlockChunks, S) - MostExcess - 1) * c < v
  <2>1. PICK s : s = SumFunctionOnSet(BlockChunks, S)
    OBVIOUS
  <2>2. s * h <= v
    BY <1>1, <1>5, <2>1, BlockNeeds
  <2>3. s \in Nat
    <3>1. \A m \in S : BlockChunks[m] \in Nat
      BY SumTypes
    <3>2. QED BY <1>5, <2>1, <3>1, SumGrows
  <2>4. s <= d
    <3>1. SUFFICES ASSUME d + 1 <= s PROVE FALSE
      BY <2>3, <1>4
    <3>2. (d + 1) * h <= s * h /\ (d + 1) * h = d * h + h /\ d * h \in Nat /\ s * h \in Nat
      BY <1>2, <2>3, <1>4, <3>1
    <3>3. QED BY <1>2, <2>2, <1>4, <3>2
  <2>5. s - MostExcess - 1 <= e - 1 /\ s - MostExcess - 1 \in Int
    BY <1>4, <2>3, <2>4
  <2>6. PICK r : r = s - MostExcess - 1
    OBVIOUS
  <2>7. r * c <= (e - 1) * c /\ (e - 1) * c = e * c - c /\ r * c \in Int /\ e * c \in Nat
    BY <1>2, <1>4, <2>5, <2>6
  <2>8. r * c < v
    <3> DEFINE x == r * c
               y == e * c
    <3>1. x <= y - c /\ x \in Int /\ y \in Nat /\ y <= v
      BY <1>4, <2>7
    <3> HIDE DEF x, y
    <3>2. x < v
      BY <1>2, <3>1
    <3>3. QED BY <3>2 DEF x
  <2>9. QED BY <2>1, <2>6, <2>8
<1>6. RestoredFits(MostExcess)
  BY <1>1, <1>5 DEF RestoredFits
<1>7. MostExcess \in Nat
  <2>1. e <= d
    <3>1. SUFFICES ASSUME d + 1 <= e PROVE FALSE
      BY <1>4
    <3>2. (d + 1) * h <= e * h /\ (d + 1) * h = d * h + h /\ d * h \in Nat /\ e * h \in Nat
      BY <1>2, <1>4, <3>1
    <3>3. e * h <= e * c /\ e * c \in Nat
      BY <1>2, <1>4
    <3>4. e * h <= v
      BY <1>2, <1>4, <3>2, <3>3
    <3>5. QED BY <1>2, <1>4, <3>2, <3>4
  <2>2. QED BY <1>4, <2>1
<1>8. Init => MemoryBound(MostExcess)
  BY <1>7, BoundInit
<1>9. /\ IInv /\ SizesKept /\ MemoryBound(MostExcess) /\ [Next]_vars /\ (IInv /\ SizesKept)'
      => MemoryBound(MostExcess)'
  BY <1>6, <1>7, BoundStep
<1>10. QED BY <1>8, <1>9, SizesInv, PTL DEF Spec
=============================================================================
