------------------------ MODULE DecompressDriverProofs ------------------------
(***************************************************************************)
(* Proofs about DecompressDriver for every archive and every way of        *)
(* calling: what reaches the output are checked blocks, each in its place, *)
(* nothing is written over, the size that is returned is that of the       *)
(* blocks written, and -i reports the memory that is needed.               *)
(***************************************************************************)
EXTENDS DecompressDriver, FoldTheorems

-----------------------------------------------------------------------------
(* The inductive invariant.                                                *)

BlockKinds == {"header", "list", "literals"}
IndexKinds == {"lists", "sizes", "footer"}
PieceKinds == {"archive header", "seed"} \cup BlockKinds \cup IndexKinds
PieceSet   == [kind : PieceKinds, block : Nat]

Closed == Stream("closed", <<>>)

StreamsOf(kinds, cells) ==
  [kind : kinds, cells : Seq(cells), pos : Int, capacity : Int, owned : {FALSE}]

InputKinds  == {"file", "cursor"}
OutputKinds == {"file", "pipe", "wb", "cursor", "callback"}

TypesKept ==
  /\ arch \in Archives /\ call \in Calls
  /\ fin \in StreamsOf(InputKinds, PieceSet)
  /\ fout \in StreamsOf(OutputKinds, Int)
  /\ fout.kind = Output.kind /\ fout.capacity = Output.capacity
  /\ ftemp \in {Shared, Closed}
  /\ selected_hash \in BOOLEAN /\ origsize \in Nat /\ out \in Int
  /\ lz_matches \subseteq [src : Nat, dest : Nat, len : Nat]

\* Before the first block, and while blocks are decoded and written
Early   == {"archive header", "hash", "seed", "footer", "index info", "tempfile"}
Writing == {"decode", "checksum", "write temp", "write out", "written"}

\* Blocks whose turn to be written has come
Turns == IF pc \in {"checksum", "write temp", "write out"} THEN origsize - 1 ELSE origsize

PhasesKept ==
  /\ pc \in Early \/ call.info => fout = Output
  /\ pc \in Early => ftemp = Shared
  /\ pc \in Early /\ ~call.info => origsize = 0 /\ failed = {} /\ lz_matches = {}
  /\ pc \in Writing => ~call.info
  /\ pc = "index info" => call.info
  /\ pc \in {"tempfile", "block"} /\ INDEX_LZ => ~call.info
  /\ result # None => pc \in {"returning", "returned", "exited"}
  /\ pc = "write out" => ftemp # Shared

\* A block is written after all blocks in the output, and if the output can be
\* sought and is used alone, at its place
InPlace == ftemp = Shared /\ fout.kind # "pipe"

OutputGrows ==
  ~call.info =>
    /\ Size(fout) <= Turns
    /\ ~InPlace => fout.pos = Size(fout)
    /\ InPlace /\ fout.kind = "cursor" /\ pc # "exited" => Size(fout) = Turns
    /\ pc \in {"checksum", "write temp", "write out", "written"} => origsize >= 1

\* Where the pieces of the first k blocks end
HasList(b)  == ~INDEX_LZ /\ ListOf(arch, b) # {}
BlocksStart == IF arch.seed THEN 2 ELSE 1
Lists(k)    == {b \in 1 .. k : HasList(b)}
Before(k)   == BlocksStart + 2 * k + Cardinality(Lists(k))

\* After k blocks; behind the last one the index is taken for blocks
ReadUpTo(k) ==
  /\ fin.pos <= Size(fin)
  /\ k <= arch.blocks => fin.pos = Before(k)
  /\ k > arch.blocks => INDEX_LZ /\ fin.pos >= Before(arch.blocks) + (k - arch.blocks)

\* The position at each step, and the footer of an index was seen
Places ==
  /\ pc = "archive header" => fin.pos = 0
  /\ pc \in {"hash", "seed"} => fin.pos = 1 /\ 1 <= Size(fin)
  /\ pc \in {"footer", "tempfile"} => fin.pos = BlocksStart /\ BlocksStart <= Size(fin)
  /\ ~call.info =>
       /\ pc \in {"block", "checksum", "write temp", "write out", "written"} => ReadUpTo(origsize)
       /\ pc = "decode" => ReadUpTo(origsize + 1)

Whole == ~call.info /\ INDEX_LZ /\ pc \in {"tempfile", "block"} \cup Writing => fin.cells = Pieces(arch)

PositionKept ==
  /\ \E n \in 0 .. Len(Pieces(arch)) : fin.cells = SubSeq(Pieces(arch), 1, n)
  /\ Places /\ Whole

\* With checksums: the block about to be written is the right one, and the output has
\* the blocks that could be written
LastRight ==
  /\ pc \in {"write temp", "write out"} => out = origsize
  /\ pc = "checksum" => out = Bad \/ (out = origsize /\ origsize \in Blocks)
  /\ pc \notin {"checksum", "exited"} => origsize <= arch.blocks

InOutput == {fout.cells[p] : p \in Written}
OutputRight ==
  /\ \A p \in Written : fout.cells[p] \in Blocks /\ fout.cells[p] <= Turns
  /\ \A p, q \in Written : p < q => fout.cells[p] < fout.cells[q]
  /\ InPlace => \A p \in Written : fout.cells[p] = p
  /\ failed \subseteq 1 .. Turns
  /\ pc # "exited" \/ result # None => InOutput \cup failed = 1 .. Turns

Checks      == selected_hash /\ ~call.info
BlocksRight == Checks => LastRight /\ OutputRight

\* In Future-LZ the matches that wait are those over the end of the last block
MatchesWait ==
  ~IO_LZ /\ ~INDEX_LZ /\ ~call.info =>
    lz_matches = {m \in arch.matches : m.src <= origsize /\ m.dest > origsize}

\* What a cut archive ended with
CutBetween ==
  result = "origsize" /\ Checks =>
    \/ origsize = arch.blocks
    \/ /\ origsize < arch.blocks /\ fin.cells # Pieces(arch)
       /\ IO_LZ \/ \A m \in arch.matches : m.src <= origsize => m.dest <= origsize

\* -i: the matches that wait after block k, and what was counted for them
WaitAfter(k) == {m \in arch.matches : m.src <= k /\ k < m.dest /\ m.len < call.maximum_save}

MemoryCounted ==
  call.info /\ ~IO_LZ =>
    /\ lz_matches = WaitAfter(origsize)
    /\ ram = NeedMem(lz_matches)
    /\ max_ram \in {NeedMem(WaitAfter(k)) : k \in 0 .. origsize}
    /\ \A k \in 0 .. origsize : NeedMem(WaitAfter(k)) <= max_ram

IInv == TypesKept /\ PhasesKept /\ OutputGrows /\ PositionKept /\ BlocksRight
          /\ MatchesWait /\ CutBetween /\ MemoryCounted

-----------------------------------------------------------------------------
(* Streams.                                                                *)

LEMMA NewPos ==
  ASSUME NEW kinds, NEW T, NEW s \in StreamsOf(kinds, T), NEW q \in Int
  PROVE  [s EXCEPT !.pos = q] \in StreamsOf(kinds, T) /\ [s EXCEPT !.pos = q].pos = q
BY DEF StreamsOf

LEMMA SamePos ==
  ASSUME NEW kinds, NEW T, NEW s \in StreamsOf(kinds, T)
  PROVE  s = [s EXCEPT !.pos = s.pos]
BY DEF StreamsOf

\* Reading one cell goes on by one, or not at all
LEMMA ReadOne ==
  ASSUME NEW kinds, NEW T, NEW s \in StreamsOf(kinds, T)
  PROVE  /\ ReadCount(s, 1) = IF CanRead(s) /\ s.pos < Size(s) THEN 1 ELSE 0
         /\ AfterRead(s, 1) \in StreamsOf(kinds, T)
         /\ AfterRead(s, 1) = [s EXCEPT !.pos = s.pos + ReadCount(s, 1)]
<1>1. Size(s) \in Nat /\ s.pos \in Int
  BY LenProperties DEF StreamsOf, Size
<1>2. Max({Size(s) - s.pos, 0}) = IF s.pos < Size(s) THEN Size(s) - s.pos ELSE 0
  BY <1>1, Max2
<1>3. ReadCount(s, 1) = IF CanRead(s) /\ s.pos < Size(s) THEN 1 ELSE 0
  BY <1>1, <1>2, Min2 DEF ReadCount
<1>4. AfterRead(s, 1) = [s EXCEPT !.pos = s.pos + ReadCount(s, 1)]
  BY DEF AfterRead
<1>5. s.pos + ReadCount(s, 1) \in Int
  BY <1>1, <1>3
<1>6. QED BY <1>3, <1>4, <1>5, NewPos

\* Seeking changes the position only
LEMMA SeekIs ==
  ASSUME NEW kinds, NEW T, NEW s \in StreamsOf(kinds, T), NEW o \in Int
  PROVE  /\ SeekSet(s, o) \in StreamsOf(kinds, T)
         /\ SeekSet(s, o) = [s EXCEPT !.pos = SeekSet(s, o).pos]
         /\ s.kind = "pipe" => SeekSet(s, o) = s
         /\ s.kind \in {"file", "wb", "callback"} /\ o >= 0 => SeekSet(s, o).pos = o
         /\ s.kind = "cursor" /\ o >= 0 => SeekSet(s, o).pos = IF o <= Size(s) THEN o ELSE Size(s)
<1>1. Size(s) \in Nat /\ s.pos \in Int
  BY LenProperties DEF StreamsOf, Size
<1>2. Max({o, 0}) \in Nat /\ (o >= 0 => Max({o, 0}) = o)
  BY Max2
<1>3. Min({Max({o, 0}), Size(s)}) = IF Max({o, 0}) <= Size(s) THEN Max({o, 0}) ELSE Size(s)
  BY <1>1, <1>2, Min2
<1>4. CASE s.kind = "cursor"
  <2> DEFINE q == Min({Max({o, 0}), Size(s)})
  <2>1. SeekSet(s, o) = [s EXCEPT !.pos = q]
    BY <1>4 DEF SeekSet
  <2>2. q \in Int
    BY <1>1, <1>2, <1>3
  <2>3. SeekSet(s, o).pos = q /\ SeekSet(s, o) \in StreamsOf(kinds, T)
    <3> HIDE DEF q
    <3>1. QED BY <2>1, <2>2, NewPos
  <2>4. QED BY <1>1, <1>2, <1>3, <1>4, <2>1, <2>3
<1>5. CASE s.kind \in {"file", "wb", "callback"} /\ o >= 0
  <2>1. SeekSet(s, o) = [s EXCEPT !.pos = o]
    BY <1>5 DEF SeekSet
  <2>2. QED BY <1>5, <2>1, NewPos
<1>6. CASE s.kind # "cursor" /\ ~(s.kind \in {"file", "wb", "callback"} /\ o >= 0)
  <2>1. SeekSet(s, o) = s
    BY <1>6 DEF SeekSet
  <2>2. QED BY <1>6, <2>1, SamePos
<1>7. QED BY <1>4, <1>5, <1>6

\* A cell written behind all others, maybe behind a gap
LEMMA WriteAtEnd ==
  ASSUME NEW kinds, NEW s \in StreamsOf(kinds, Int), s.pos >= Size(s), NEW v \in Int,
         NEW w, w = AfterWrite(s, <<v>>, 1)
  PROVE  /\ w \in StreamsOf(kinds, Int) /\ w.kind = s.kind /\ w.capacity = s.capacity
         /\ w.pos = s.pos + 1 /\ Size(w) = s.pos + 1
         /\ \A p \in 1 .. Size(s) : w.cells[p] = s.cells[p]
         /\ \A p \in Size(s) + 1 .. s.pos : w.cells[p] = Hole
         /\ w.cells[s.pos + 1] = v
<1>1. Size(s) \in Nat /\ s.pos \in Nat /\ \A p \in 1 .. Size(s) : s.cells[p] \in Int
  BY LenProperties DEF StreamsOf, Size
<1>2. SubSeq(<<v>>, 1, 1) = <<v>> /\ Len(<<v>>) = 1 /\ <<v>> # <<>>
  <2>1. <<v>> \in Seq(Int) /\ Len(<<v>>) = 1 /\ <<v>> # <<>> /\ <<v>>[1] = v
    OBVIOUS
  <2>2. QED BY <2>1, SubSeqFull
<1>3. Max({Size(s), s.pos + 1}) = s.pos + 1
  BY <1>1, Max2
<1> DEFINE c == [p \in 1 .. s.pos + 1 |->
                   IF p \in s.pos + 1 .. s.pos + 1 THEN <<v>>[p - s.pos]
                   ELSE IF p <= Size(s) THEN s.cells[p] ELSE Hole]
<1>4. Put(s, <<v>>) = [s EXCEPT !.pos = s.pos + 1, !.cells = c]
  BY <1>2, <1>3 DEF Put
<1>5. w = [s EXCEPT !.pos = s.pos + 1, !.cells = c]
  <2>1. w = [Put(s, <<v>>) EXCEPT !.capacity = Put(s, <<v>>).capacity]
    BY <1>2 DEF AfterWrite, StreamsOf
  <2> HIDE DEF c
  <2>2. QED BY <1>4, <2>1 DEF StreamsOf
<1>6. /\ c \in [1 .. s.pos + 1 -> Int]
      /\ \A p \in 1 .. Size(s) : c[p] = s.cells[p]
      /\ \A p \in Size(s) + 1 .. s.pos : c[p] = Hole
      /\ c[s.pos + 1] = v
  BY <1>1 DEF Hole
<1> HIDE DEF c
<1>7. c \in Seq(Int) /\ Len(c) = s.pos + 1
  BY <1>1, <1>6, LenProperties
<1>8. /\ w.kind = s.kind /\ w.capacity = s.capacity /\ w.pos = s.pos + 1 /\ w.cells = c
      /\ w \in StreamsOf(kinds, Int)
  <2>1. s.pos + 1 \in Int
    BY <1>1
  <2>2. [s EXCEPT !.pos = s.pos + 1, !.cells = c] \in StreamsOf(kinds, Int)
    BY <1>7, <2>1 DEF StreamsOf
  <2>3. QED BY <1>5, <2>2 DEF StreamsOf
<1>9. QED BY <1>6, <1>7, <1>8 DEF Size

LEMMA WriteNothing ==
  ASSUME NEW kinds, NEW s \in StreamsOf(kinds, Int), NEW v
  PROVE  AfterWrite(s, <<v>>, 0) = s
<1>1. Size(s) \in Nat /\ s.pos \in Int
  BY LenProperties DEF StreamsOf, Size
<1>2. SubSeq(<<v>>, 1, 0) = <<>> /\ Len(<<>>) = 0 /\ s.pos + Len(<<>>) = s.pos
  BY <1>1
<1>3. Max({Size(s), 0}) = Size(s)
  BY <1>1, Max2
<1>4. [p \in 1 .. Size(s) |-> IF p \in s.pos + 1 .. s.pos THEN <<>>[p - s.pos]
                               ELSE IF p <= Size(s) THEN s.cells[p] ELSE Hole] = s.cells
  <2>1. \A p \in 1 .. Size(s) : p \notin s.pos + 1 .. s.pos /\ p <= Size(s)
    BY <1>1
  <2>2. s.cells = [p \in 1 .. Size(s) |-> s.cells[p]]
    BY LenProperties DEF StreamsOf, Size
  <2>3. QED BY <2>1, <2>2
<1>5. Put(s, <<>>) = s
  BY <1>2, <1>3, <1>4 DEF Put, StreamsOf
<1>6. QED BY <1>2, <1>5 DEF AfterWrite, StreamsOf

\* The output at first
LEMMA OutputIs ==
  ASSUME call.entry \in Entries, arch.blocks \in Nat
  PROVE  /\ Output.cells = <<>> /\ Output.pos = 0 /\ Output.owned = FALSE
         /\ Output.capacity \in Nat
         /\ Output.kind = "cursor" => Output.capacity = arch.blocks + 3
         /\ Output \in StreamsOf(OutputKinds, Int)
<1>1. Len(<<>>) = 0 /\ <<>> \in Seq(Int) /\ arch.blocks + 3 \in Int /\ 0 \in Int
  OBVIOUS
<1>2. CASE call.entry = "mem2mem"
  <2>1. Output = [kind |-> "cursor", cells |-> <<>>, pos |-> 0, capacity |-> arch.blocks + 3,
                  owned |-> FALSE]
    BY <1>2 DEF Output, OutputCursor, Stream
  <2>2. Output \in StreamsOf(OutputKinds, Int)
    BY <1>1, <2>1 DEF StreamsOf, OutputKinds
  <2>3. QED BY <1>1, <2>1, <2>2
<1>3. ASSUME NEW k \in {"file", "pipe", "wb", "callback"}, Output = Stream(k, <<>>)
      PROVE  /\ Output.cells = <<>> /\ Output.pos = 0 /\ Output.owned = FALSE
             /\ Output.kind # "cursor" /\ Output.capacity = 0
             /\ Output \in StreamsOf(OutputKinds, Int)
  <2>1. Output = [kind |-> k, cells |-> <<>>, pos |-> 0, capacity |-> 0, owned |-> FALSE]
    BY <1>1, <1>3 DEF Stream
  <2>2. Output \in StreamsOf(OutputKinds, Int)
    BY <1>1, <2>1 DEF StreamsOf, OutputKinds
  <2>3. QED BY <2>1, <2>2
<1>4. CASE call.entry \in {"FILE", "FILE -", "mem", "callbacks"}
  <2>1. PICK k \in {"file", "pipe", "wb", "callback"} : Output = Stream(k, <<>>)
    BY <1>4 DEF Output, CallbackRW
  <2>2. Output.kind # "cursor" /\ Output.capacity = 0
    BY <1>3, <2>1
  <2>3. Output.cells = <<>>
    BY <1>3, <2>1
  <2>4. Output.pos = 0
    BY <1>3, <2>1
  <2>5. Output.owned = FALSE
    BY <1>3, <2>1
  <2>6. Output \in StreamsOf(OutputKinds, Int)
    BY <1>3, <2>1
  <2>7. QED BY <2>2, <2>3, <2>4, <2>5, <2>6
<1>5. QED BY <1>2, <1>4 DEF Entries

-----------------------------------------------------------------------------
(* Where the pieces of an archive are.                                     *)

\* Pieces of the first k blocks
FirstBlocks(k) == FlattenSeq([b \in 1 .. k |-> BlockPieces(arch, b)])

LEMMA IsPiece ==
  ASSUME NEW k \in PieceKinds, NEW b \in Nat
  PROVE  Piece(k, b) \in PieceSet /\ Piece(k, b).kind = k
BY DEF Piece, PieceSet

LEMMA Joined2 ==
  ASSUME NEW T, NEW x \in T, NEW y \in T
  PROVE  <<x>> \o <<y>> = <<x, y>>
<1>1. <<x>> \in Seq(T) /\ <<y>> \in Seq(T) /\ <<x, y>> \in Seq(T)
  OBVIOUS
<1>2. Len(<<x>>) = 1 /\ Len(<<y>>) = 1 /\ Len(<<x, y>>) = 2
        /\ <<x>>[1] = x /\ <<y>>[1] = y /\ <<x, y>>[1] = x /\ <<x, y>>[2] = y
  OBVIOUS
<1> DEFINE s == <<x>>
<1> DEFINE t == <<y>>
<1> DEFINE u == <<x, y>>
<1>3. s \in Seq(T) /\ t \in Seq(T) /\ u \in Seq(T) /\ Len(s) = 1 /\ Len(t) = 1 /\ Len(u) = 2
        /\ s[1] = u[1] /\ t[1] = u[2]
  BY <1>1, <1>2
<1> HIDE DEF s, t, u
<1>4. /\ s \o t \in Seq(T) /\ Len(s \o t) = 2
      /\ (s \o t)[1] = u[1] /\ (s \o t)[2] = u[2]
  BY <1>3, ConcatProperties
<1>5. s \o t = u
  BY <1>3, <1>4, SeqEqual
<1>6. QED BY <1>5 DEF s, t, u

LEMMA Joined3 ==
  ASSUME NEW T, NEW x \in T, NEW y \in T, NEW z \in T
  PROVE  <<x>> \o <<y>> \o <<z>> = <<x, y, z>>
<1> DEFINE s == <<x, y>>
<1> DEFINE t == <<z>>
<1> DEFINE u == <<x, y, z>>
<1>3. s \in Seq(T) /\ t \in Seq(T) /\ u \in Seq(T) /\ Len(s) = 2 /\ Len(t) = 1 /\ Len(u) = 3
        /\ s[1] = u[1] /\ s[2] = u[2] /\ t[1] = u[3]
  OBVIOUS
<1> HIDE DEF s, t, u
<1>4. /\ s \o t \in Seq(T) /\ Len(s \o t) = 3
      /\ (s \o t)[1] = u[1] /\ (s \o t)[2] = u[2] /\ (s \o t)[3] = u[3]
  <2>1. s \in Seq(T) /\ t \in Seq(T)
    BY <1>3
  <2>2. /\ s \o t \in Seq(T) /\ Len(s \o t) = Len(s) + Len(t)
        /\ \A i \in 1 .. Len(s) + Len(t) : (s \o t)[i] = IF i <= Len(s) THEN s[i] ELSE t[i - Len(s)]
    BY <2>1, ConcatProperties
  <2>3. QED BY <1>3, <2>2
<1>5. s \o t = u
  BY <1>3, <1>4, SeqEqual
<1>6. QED BY <1>5, Joined2 DEF s, t, u

LEMMA OfBlock ==
  ASSUME NEW b \in Nat
  PROVE  /\ BlockPieces(arch, b) \in Seq(PieceSet)
         /\ Len(BlockPieces(arch, b)) = IF HasList(b) THEN 3 ELSE 2
         /\ BlockPieces(arch, b)[1].kind = "header"
         /\ \A p \in 1 .. Len(BlockPieces(arch, b)) : BlockPieces(arch, b)[p].kind \in BlockKinds
<1>1. \A k \in BlockKinds : Piece(k, b) \in PieceSet /\ Piece(k, b).kind = k
  BY IsPiece DEF PieceKinds
<1>2. CASE HasList(b)
  <2>1. BlockPieces(arch, b) = <<Piece("header", b), Piece("list", b), Piece("literals", b)>>
    <3>1. BlockPieces(arch, b) = <<Piece("header", b)>> \o <<Piece("list", b)>> \o <<Piece("literals", b)>>
      BY <1>2 DEF BlockPieces, HasList, INDEX_LZ
    <3>2. QED BY <1>1, <3>1, Joined3 DEF BlockKinds
  <2>2. QED BY <1>1, <1>2, <2>1 DEF BlockKinds
<1>3. CASE ~HasList(b)
  <2>1. BlockPieces(arch, b) = <<Piece("header", b), Piece("literals", b)>>
    <3>1. BlockPieces(arch, b) = <<Piece("header", b)>> \o <<>> \o <<Piece("literals", b)>>
      BY <1>3 DEF BlockPieces, HasList, INDEX_LZ
    <3>2. <<Piece("header", b)>> \in Seq(PieceSet)
      BY <1>1 DEF BlockKinds
    <3>3. <<Piece("header", b)>> \o <<>> = <<Piece("header", b)>>
      BY <3>2, ConcatEmptySeq
    <3>4. QED BY <1>1, <3>1, <3>3, Joined2 DEF BlockKinds
  <2>2. QED BY <1>1, <1>3, <2>1 DEF BlockKinds
<1>4. QED BY <1>2, <1>3

LEMMA BeforeNext ==
  ASSUME NEW k \in Nat
  PROVE  /\ Before(k) \in Nat /\ Before(k) >= BlocksStart + 2 * k
         /\ Before(k + 1) = Before(k) + IF HasList(k + 1) THEN 3 ELSE 2
<1>1. IsFiniteSet(Lists(k)) /\ Cardinality(Lists(k)) \in Nat
  <2>1. Lists(k) \in SUBSET (1 .. k) /\ IsFiniteSet(1 .. k)
    BY FS_Interval DEF Lists
  <2>2. QED BY <2>1, FS_Subset, FS_CardinalityType
<1>2. Lists(k + 1) = IF HasList(k + 1) THEN Lists(k) \cup {k + 1} ELSE Lists(k)
  <2>1. 1 .. k + 1 = (1 .. k) \cup {k + 1}
    OBVIOUS
  <2>2. QED BY <2>1 DEF Lists
<1>3. k + 1 \notin Lists(k)
  BY DEF Lists
<1>4. Cardinality(Lists(k + 1)) = Cardinality(Lists(k)) + IF HasList(k + 1) THEN 1 ELSE 0
  BY <1>1, <1>2, <1>3, FS_AddElement
<1>5. QED BY <1>1, <1>4 DEF Before, BlocksStart

LEMMA BeforeFirst == Before(0) = BlocksStart
<1>1. Lists(0) = {}
  BY DEF Lists
<1>2. QED BY <1>1, FS_EmptySet DEF Before, BlocksStart

LEMMA FirstNext ==
  ASSUME NEW k \in Nat
  PROVE  FirstBlocks(k + 1) = FirstBlocks(k) \o BlockPieces(arch, k + 1)
<1> DEFINE s(j) == [b \in 1 .. j |-> BlockPieces(arch, b)]
<1>1. \A j \in Nat : s(j) \in Seq(Seq(PieceSet)) /\ Len(s(j)) = j
  <2>1. SUFFICES ASSUME NEW j \in Nat
                 PROVE  s(j) \in Seq(Seq(PieceSet)) /\ Len(s(j)) = j
    OBVIOUS
  <2>2. \A b \in 1 .. j : BlockPieces(arch, b) \in Seq(PieceSet)
    BY OfBlock
  <2>3. QED BY <2>2
<1>2. BlockPieces(arch, k + 1) \in Seq(PieceSet)
  BY OfBlock
<1>3. s(k + 1) = Append(s(k), BlockPieces(arch, k + 1))
  <2> DEFINE a == Append(s(k), BlockPieces(arch, k + 1))
  <2>1. /\ a \in Seq(Seq(PieceSet)) /\ Len(a) = k + 1 /\ a[k + 1] = BlockPieces(arch, k + 1)
        /\ \A j \in 1 .. k : a[j] = s(k)[j]
    <3> HIDE DEF s
    <3>1. QED BY <1>1, <1>2, AppendProperties
  <2>2. \A j \in 1 .. k + 1 : s(k + 1)[j] = a[j]
    <3>1. \A j \in 1 .. k + 1 : s(k + 1)[j] = BlockPieces(arch, j)
      OBVIOUS
    <3>2. \A j \in 1 .. k : s(k)[j] = BlockPieces(arch, j)
      OBVIOUS
    <3> HIDE DEF s, a
    <3>3. QED BY <2>1, <3>1, <3>2
  <2> HIDE DEF s, a
  <2>3. k + 1 \in Nat /\ s(k + 1) \in Seq(Seq(PieceSet)) /\ Len(s(k + 1)) = Len(a)
    BY <1>1, <2>1
  <2>4. QED BY <1>1, <2>1, <2>2, <2>3, SeqEqual
<1> HIDE DEF s
<1>4. FlattenSeq(s(k + 1)) = FlattenSeq(s(k)) \o BlockPieces(arch, k + 1)
  BY <1>1, <1>2, <1>3, FlattenAppend
<1>5. QED BY <1>4 DEF FirstBlocks, s

\* Each block begins with its header, behind those before it
LEMMA FirstAre ==
  \A k \in Nat :
    /\ FirstBlocks(k) \in Seq(PieceSet) /\ BlocksStart + Len(FirstBlocks(k)) = Before(k)
    /\ \A p \in 1 .. Len(FirstBlocks(k)) : FirstBlocks(k)[p].kind \in BlockKinds
    /\ \A j \in 0 .. k - 1 : /\ Before(j) + 2 <= Before(k)
                             /\ FirstBlocks(k)[Before(j) - BlocksStart + 1].kind = "header"
<1> DEFINE P(k) ==
      /\ FirstBlocks(k) \in Seq(PieceSet) /\ BlocksStart + Len(FirstBlocks(k)) = Before(k)
      /\ \A p \in 1 .. Len(FirstBlocks(k)) : FirstBlocks(k)[p].kind \in BlockKinds
      /\ \A j \in 0 .. k - 1 : /\ Before(j) + 2 <= Before(k)
                               /\ FirstBlocks(k)[Before(j) - BlocksStart + 1].kind = "header"
<1> DEFINE A == {k \in Nat : P(k)}
<1>0. BlocksStart \in {1, 2}
  BY DEF BlocksStart
<1>1. 0 \in A
  <2>1. [b \in 1 .. 0 |-> BlockPieces(arch, b)] = <<>>
    OBVIOUS
  <2>2. FirstBlocks(0) = <<>>
    BY <2>1, FlattenNone DEF FirstBlocks
  <2>3. <<>> \in Seq(PieceSet) /\ Len(<<>>) = 0
    OBVIOUS
  <2>4. P(0)
    <3>1. FirstBlocks(0) \in Seq(PieceSet) /\ Len(FirstBlocks(0)) = 0
      BY <2>2, <2>3
    <3>2. BlocksStart + Len(FirstBlocks(0)) = Before(0)
      BY <1>0, <3>1, BeforeFirst
    <3>3. \A p \in 1 .. Len(FirstBlocks(0)) : FirstBlocks(0)[p].kind \in BlockKinds
      BY <3>1
    <3>4. QED BY <3>1, <3>2, <3>3
  <2>5. QED BY <2>4
<1>2. ASSUME NEW k \in Nat, k \in A
      PROVE  k + 1 \in A
  <2> DEFINE f == FirstBlocks(k)
  <2> DEFINE b == BlockPieces(arch, k + 1)
  <2> DEFINE g == FirstBlocks(k + 1)
  <2>1. P(k) /\ f \in Seq(PieceSet) /\ b \in Seq(PieceSet) /\ g = f \o b
    <3>1. P(k)
      BY <1>2
    <3>2. b \in Seq(PieceSet) /\ g = f \o b
      <4>1. k + 1 \in Nat
        OBVIOUS
      <4>2. QED BY <4>1, FirstNext, OfBlock
    <3>3. f \in Seq(PieceSet)
      BY <3>1
    <3>4. QED BY <3>1, <3>2, <3>3
  <2>2. /\ Len(f) \in Nat /\ Len(b) = (IF HasList(k + 1) THEN 3 ELSE 2) /\ Len(g) = Len(f) + Len(b)
        /\ g \in Seq(PieceSet)
        /\ \A p \in 1 .. Len(g) : g[p] = IF p <= Len(f) THEN f[p] ELSE b[p - Len(f)]
    <3>1. Len(b) = (IF HasList(k + 1) THEN 3 ELSE 2) /\ Len(b) \in Nat
      <4>1. k + 1 \in Nat
        OBVIOUS
      <4>2. Len(b) = (IF HasList(k + 1) THEN 3 ELSE 2)
        BY <4>1, OfBlock
      <4>3. QED BY <4>2
    <3>2. f \in Seq(PieceSet) /\ b \in Seq(PieceSet) /\ g = f \o b
      BY <2>1
    <3> HIDE DEF f, b, g, P
    <3>3. Len(f) \in Nat /\ g \in Seq(PieceSet) /\ Len(g) = Len(f) + Len(b)
      BY <3>2, ConcatProperties, LenProperties
    <3>4. \A p \in 1 .. Len(g) : g[p] = IF p <= Len(f) THEN f[p] ELSE b[p - Len(f)]
      BY <3>2, <3>3, ConcatProperties
    <3>5. QED BY <3>1, <3>3, <3>4
  <2>3. Before(k + 1) = Before(k) + Len(b) /\ Before(k) \in Nat
    BY <2>2, BeforeNext
  <2>4. BlocksStart + Len(g) = Before(k + 1) /\ BlocksStart + Len(f) = Before(k)
    <3>1. BlocksStart + Len(f) = Before(k)
      BY <2>1
    <3> HIDE DEF f, b, g, P
    <3>2. QED BY <1>0, <2>2, <2>3, <3>1
  <2>5. \A p \in 1 .. Len(g) : g[p].kind \in BlockKinds
    <3>1. \A p \in 1 .. Len(f) : f[p].kind \in BlockKinds
      BY <2>1
    <3>2. \A p \in 1 .. Len(b) : b[p].kind \in BlockKinds
      BY OfBlock
    <3> HIDE DEF f, b, g, P
    <3>3. QED BY <2>2, <3>1, <3>2
  <2>6. ASSUME NEW j \in 0 .. k
        PROVE  Before(j) + 2 <= Before(k + 1) /\ g[Before(j) - BlocksStart + 1].kind = "header"
    <3>1. CASE j = k
      <4>1. Before(j) - BlocksStart + 1 = Len(f) + 1 /\ Len(f) + 1 \in 1 .. Len(g)
        <5> HIDE DEF f, b, g, P
        <5>1. QED BY <1>0, <2>2, <2>4, <3>1
      <4>2. g[Len(f) + 1] = b[1]
        <5> HIDE DEF f, b, g, P
        <5>1. QED BY <2>2, <4>1
      <4>3. b[1].kind = "header"
        BY OfBlock
      <4>4. Before(j) + 2 <= Before(k + 1)
        <5> HIDE DEF f, b, g, P
        <5>1. QED BY <2>2, <2>3, <3>1
      <4>5. QED BY <4>1, <4>2, <4>3, <4>4
    <3>2. CASE j # k
      <4>1. j \in 0 .. k - 1 /\ j \in Nat
        BY <3>2
      <4>2. Before(j) + 2 <= Before(k) /\ f[Before(j) - BlocksStart + 1].kind = "header"
        BY <2>1, <4>1
      <4>3. Before(j) \in Nat /\ Before(j) >= BlocksStart
        BY <1>0, <4>1, BeforeNext
      <4> HIDE DEF f, b, g, P
      <4>4. Before(j) - BlocksStart + 1 \in 1 .. Len(f) /\ Len(f) <= Len(g)
        BY <1>0, <2>2, <2>4, <4>2, <4>3
      <4>5. g[Before(j) - BlocksStart + 1] = f[Before(j) - BlocksStart + 1]
        BY <2>2, <4>4
      <4>6. Before(j) + 2 <= Before(k + 1)
        BY <2>2, <2>3, <4>2, <4>3
      <4>7. QED BY <4>2, <4>5, <4>6
    <3>3. QED BY <3>1, <3>2
  <2>7. P(k + 1)
    BY <2>2, <2>4, <2>5, <2>6
  <2>8. QED BY <2>7
<1>3. \A k \in Nat : k \in A
  <2> HIDE DEF A
  <2>1. QED BY <1>1, <1>2, AllNumbers
<1>4. QED BY <1>3

\* A sequence after another: its cells follow, with what all cells of both satisfy
LEMMA Concat ==
  ASSUME NEW T, NEW s \in Seq(T), NEW t \in Seq(T), NEW u, u = s \o t
  PROVE  /\ u \in Seq(T) /\ Len(s) \in Nat /\ Len(t) \in Nat /\ Len(u) = Len(s) + Len(t)
         /\ \A p \in 1 .. Len(s) : u[p] = s[p]
         /\ \A p \in Len(s) + 1 .. Len(u) : u[p] = t[p - Len(s)] /\ p - Len(s) \in 1 .. Len(t)
<1>1. Len(s) \in Nat /\ Len(t) \in Nat
  BY LenProperties
<1>2. /\ u \in Seq(T) /\ Len(u) = Len(s) + Len(t)
      /\ \A i \in 1 .. Len(s) + Len(t) : u[i] = IF i <= Len(s) THEN s[i] ELSE t[i - Len(s)]
  BY ConcatProperties
<1>3. QED BY <1>1, <1>2

IndexPieces ==
  IF ~INDEX_LZ THEN <<>>
  ELSE (IF arch.matches # {} THEN <<Zero("lists")>> ELSE <<>>)
         \o (IF arch.blocks > 0 THEN <<Zero("sizes")>> ELSE <<>>) \o <<Zero("footer")>>

LEMMA OfIndex ==
  /\ IndexPieces \in Seq(PieceSet) /\ Len(IndexPieces) \in 0 .. 3
  /\ INDEX_LZ <=> Len(IndexPieces) > 0
  /\ \A p \in 1 .. Len(IndexPieces) :
       IndexPieces[p].kind \in IF p = Len(IndexPieces) THEN {"footer"} ELSE {"lists", "sizes"}
<1>1. CASE ~INDEX_LZ
  <2>1. IndexPieces = <<>>
    BY <1>1 DEF IndexPieces
  <2>2. QED BY <1>1, <2>1
<1>2. CASE INDEX_LZ
  <2> DEFINE s == IF arch.matches # {} THEN <<Zero("lists")>> ELSE <<>>
  <2> DEFINE t == IF arch.blocks > 0 THEN <<Zero("sizes")>> ELSE <<>>
  <2> DEFINE u == <<Zero("footer")>>
  <2>1. \A k \in {"lists", "sizes", "footer"} : Zero(k) \in PieceSet /\ Zero(k).kind = k
    BY IsPiece DEF Zero, PieceKinds, IndexKinds
  <2>2. s \in Seq(PieceSet) /\ Len(s) \in 0 .. 1 /\ \A p \in 1 .. Len(s) : s[p].kind = "lists"
    BY <2>1
  <2>3. t \in Seq(PieceSet) /\ Len(t) \in 0 .. 1 /\ \A p \in 1 .. Len(t) : t[p].kind = "sizes"
    BY <2>1
  <2>4. u \in Seq(PieceSet) /\ Len(u) = 1 /\ u[1].kind = "footer"
    BY <2>1
  <2>5. IndexPieces = (s \o t) \o u
    BY <1>2 DEF IndexPieces
  <2> HIDE DEF s, t, u
  <2> DEFINE v == s \o t
  <2>6. /\ v \in Seq(PieceSet) /\ Len(v) = Len(s) + Len(t)
        /\ \A p \in 1 .. Len(s) : v[p] = s[p]
        /\ \A p \in Len(s) + 1 .. Len(v) : v[p] = t[p - Len(s)] /\ p - Len(s) \in 1 .. Len(t)
    BY <2>2, <2>3, Concat
  <2>7. IndexPieces = v \o u
    BY <2>5
  <2> HIDE DEF v
  <2>8. \A p \in 1 .. Len(v) : v[p].kind \in {"lists", "sizes"}
    <3>1. \A p \in 1 .. Len(v) : p \in 1 .. Len(s) \/ p \in Len(s) + 1 .. Len(v)
      BY <2>2, <2>3, <2>6
    <3>2. QED BY <2>2, <2>3, <2>6, <3>1
  <2>9. /\ IndexPieces \in Seq(PieceSet) /\ Len(IndexPieces) = Len(v) + Len(u)
        /\ \A p \in 1 .. Len(v) : IndexPieces[p] = v[p]
        /\ \A p \in Len(v) + 1 .. Len(IndexPieces) : IndexPieces[p] = u[p - Len(v)]
    <3>1. v \in Seq(PieceSet)
      BY <2>6
    <3>2. u \in Seq(PieceSet)
      BY <2>4
    <3> HIDE DEF IndexPieces
    <3>3. QED BY <2>7, <3>1, <3>2, Concat
  <2>10. Len(v) \in 0 .. 2 /\ Len(IndexPieces) = Len(v) + 1
    BY <2>2, <2>3, <2>4, <2>6, <2>9
  <2>11. IndexPieces[Len(v) + 1] = u[1]
    BY <2>9, <2>10
  <2>12. QED BY <1>2, <2>4, <2>8, <2>9, <2>10, <2>11
<1>3. QED BY <1>1, <1>2

LEMMA PiecesAre ==
  ASSUME arch \in Archives
  PROVE  LET all == Pieces(arch)
             n   == arch.blocks
         IN  /\ all \in Seq(PieceSet) /\ n \in Nat
             /\ Len(all) = Before(n) + Len(IndexPieces)
             /\ \A k \in 0 .. n - 1 : /\ Before(k) + 2 <= Before(n)
                                      /\ Before(k) + 1 \in 1 .. Len(all)
                                      /\ all[Before(k) + 1].kind = "header"
             /\ \A p \in 1 .. Len(all) :
                  /\ p > Before(n) => all[p].kind \in IndexKinds
                  /\ all[p].kind = "footer" => p = Len(all)
<1> DEFINE n == arch.blocks
<1> DEFINE s == <<Zero("archive header")>>
<1> DEFINE t == IF arch.seed THEN <<Zero("seed")>> ELSE <<>>
<1> DEFINE b == FirstBlocks(n)
<1>1. n \in Nat
  BY DriverAssumption
<1>2. BlocksStart \in {1, 2} /\ Before(n) \in Nat
  BY <1>1, BeforeNext DEF BlocksStart
<1>3. \A k \in {"archive header", "seed"} : Zero(k) \in PieceSet /\ Zero(k).kind = k
  BY IsPiece DEF Zero, PieceKinds
<1>4. s \in Seq(PieceSet) /\ Len(s) = 1 /\ s[1].kind = "archive header"
  <2>1. \A x \in PieceSet : <<x>> \in Seq(PieceSet) /\ Len(<<x>>) = 1 /\ <<x>>[1] = x
    OBVIOUS
  <2>2. QED BY <1>3, <2>1
<1>5. /\ t \in Seq(PieceSet) /\ Len(t) = BlocksStart - 1
      /\ \A p \in 1 .. Len(t) : t[p].kind = "seed"
  <2>1. \A x \in PieceSet : <<x>> \in Seq(PieceSet) /\ Len(<<x>>) = 1 /\ <<x>>[1] = x
    OBVIOUS
  <2>2. CASE arch.seed
    <3>1. t = <<Zero("seed")>> /\ BlocksStart = 2
      BY <2>2 DEF BlocksStart
    <3>2. t \in Seq(PieceSet) /\ Len(t) = 1 /\ t[1] = Zero("seed")
      BY <1>3, <2>1, <3>1
    <3> HIDE DEF t
    <3>3. \A p \in 1 .. Len(t) : p = 1
      BY <3>2
    <3>4. t[1].kind = "seed"
      BY <1>3, <3>2
    <3>5. Len(t) = BlocksStart - 1
      BY <3>1, <3>2
    <3>6. QED BY <3>2, <3>3, <3>4, <3>5
  <2>3. CASE ~arch.seed
    <3>1. t = <<>> /\ BlocksStart = 1
      BY <2>3 DEF BlocksStart
    <3>2. QED BY <3>1
  <2>4. QED BY <2>2, <2>3
<1>6. /\ b \in Seq(PieceSet) /\ BlocksStart + Len(b) = Before(n)
      /\ \A p \in 1 .. Len(b) : b[p].kind \in BlockKinds
      /\ \A k \in 0 .. n - 1 : /\ Before(k) + 2 <= Before(n)
                               /\ b[Before(k) - BlocksStart + 1].kind = "header"
  BY <1>1, FirstAre
<1>7. Pieces(arch) = ((s \o t) \o b) \o IndexPieces
  BY DEF Pieces, IndexPieces, FirstBlocks, INDEX_LZ
<1> DEFINE v == s \o t
<1> DEFINE w == v \o b
<1> DEFINE all == Pieces(arch)
<1>8. all = w \o IndexPieces /\ v = s \o t /\ w = v \o b
  BY <1>7
<1> HIDE DEF n, s, t, b, v, w, all
<1>9. /\ v \in Seq(PieceSet) /\ Len(v) = BlocksStart
      /\ \A p \in 1 .. Len(v) : v[p].kind \in {"archive header", "seed"}
  <2>1. /\ v \in Seq(PieceSet) /\ Len(v) = Len(s) + Len(t)
        /\ \A p \in 1 .. Len(s) : v[p] = s[p]
        /\ \A p \in Len(s) + 1 .. Len(v) : v[p] = t[p - Len(s)] /\ p - Len(s) \in 1 .. Len(t)
    <3>1. s \in Seq(PieceSet) /\ t \in Seq(PieceSet)
      BY <1>4, <1>5
    <3>2. QED BY <1>8, <3>1, Concat
  <2> DEFINE x == Len(s)
  <2> DEFINE y == Len(t)
  <2> DEFINE z == Len(v)
  <2>2. x = 1 /\ y = BlocksStart - 1 /\ z = x + y
    BY <1>4, <1>5, <2>1
  <2> HIDE DEF x, y, z
  <2>3. 1 \in 1 .. x /\ z = BlocksStart /\ \A p \in 1 .. z : p = 1 \/ p \in x + 1 .. z
    BY <1>2, <2>2
  <2>4. \A p \in 1 .. Len(v) : p = 1 \/ p \in Len(s) + 1 .. Len(v)
    BY <2>3 DEF x, z
  <2>5. 1 \in 1 .. Len(s)
    BY <2>3 DEF x
  <2>6. Len(v) = BlocksStart
    BY <2>3 DEF z
  <2>7. \A p \in Len(s) + 1 .. Len(v) : v[p].kind = "seed"
    BY <1>5, <2>1
  <2>8. v[1].kind = "archive header"
    BY <1>4, <2>1, <2>5
  <2>9. QED BY <2>1, <2>4, <2>6, <2>7, <2>8
<1>10. /\ w \in Seq(PieceSet) /\ Len(w) = Before(n)
       /\ \A p \in 1 .. Len(v) : w[p] = v[p]
       /\ \A p \in Len(v) + 1 .. Len(w) : w[p] = b[p - Len(v)] /\ p - Len(v) \in 1 .. Len(b)
  <2>1. /\ w \in Seq(PieceSet) /\ Len(w) = Len(v) + Len(b)
        /\ \A p \in 1 .. Len(v) : w[p] = v[p]
        /\ \A p \in Len(v) + 1 .. Len(w) : w[p] = b[p - Len(v)] /\ p - Len(v) \in 1 .. Len(b)
    <3>1. v \in Seq(PieceSet) /\ b \in Seq(PieceSet)
      BY <1>6, <1>9
    <3>2. QED BY <1>8, <3>1, Concat
  <2>2. Len(w) = Before(n)
    BY <1>6, <1>9, <2>1
  <2>3. QED BY <2>1, <2>2
<1>11. \A p \in 1 .. Len(w) : w[p].kind \in {"archive header", "seed"} \cup BlockKinds
  <2>1. \A p \in 1 .. Len(w) : p \in 1 .. Len(v) \/ p \in Len(v) + 1 .. Len(w)
    <3>1. Len(v) \in Nat /\ Len(w) \in Nat
      <4>1. v \in Seq(PieceSet) /\ w \in Seq(PieceSet)
        BY <1>9, <1>10
      <4>2. QED BY <4>1, LenProperties
    <3>2. QED BY <3>1
  <2>2. \A p \in Len(v) + 1 .. Len(w) : w[p].kind \in BlockKinds
    BY <1>6, <1>10
  <2>3. \A p \in 1 .. Len(v) : w[p].kind \in {"archive header", "seed"}
    BY <1>9, <1>10
  <2>4. QED BY <2>1, <2>2, <2>3
<1>12. \A k \in 0 .. n - 1 : Before(k) + 2 <= Before(n) /\ Before(k) + 1 \in 1 .. Len(w)
                              /\ w[Before(k) + 1].kind = "header"
  <2>1. SUFFICES ASSUME NEW k \in 0 .. n - 1
                 PROVE  Before(k) + 1 \in 1 .. Len(w) /\ w[Before(k) + 1].kind = "header"
    BY <1>6
  <2>2. k \in Nat /\ Before(k) \in Nat /\ Before(k) >= BlocksStart /\ Before(k) + 2 <= Before(n)
    <3>1. k \in Nat
      BY <1>1
    <3>2. Before(k) \in Nat /\ Before(k) >= BlocksStart
      BY <1>2, <3>1, BeforeNext
    <3>3. QED BY <1>6, <3>1, <3>2
  <2>3. /\ Before(k) + 1 \in Len(v) + 1 .. Len(w)
        /\ (Before(k) + 1) - Len(v) = Before(k) - BlocksStart + 1
    <3>1. Len(v) = BlocksStart /\ Len(w) = Before(n)
      BY <1>9, <1>10
    <3>2. Before(k) + 1 \in BlocksStart + 1 .. Before(n)
      BY <1>2, <2>2
    <3>3. (Before(k) + 1) - BlocksStart = Before(k) - BlocksStart + 1
      BY <1>2, <2>2
    <3>4. QED BY <3>1, <3>2, <3>3
  <2>4. Before(k) + 1 \in 1 .. Len(w)
    BY <1>2, <1>10, <2>2
  <2>5. w[Before(k) + 1] = b[Before(k) - BlocksStart + 1]
    BY <1>10, <2>3
  <2>6. b[Before(k) - BlocksStart + 1].kind = "header"
    BY <1>6
  <2>7. QED BY <2>4, <2>5, <2>6
<1>13. /\ all \in Seq(PieceSet) /\ Len(all) = Len(w) + Len(IndexPieces)
       /\ \A p \in 1 .. Len(w) : all[p] = w[p]
       /\ \A p \in Len(w) + 1 .. Len(all) : /\ all[p] = IndexPieces[p - Len(w)]
                                            /\ p - Len(w) \in 1 .. Len(IndexPieces)
  <2>1. w \in Seq(PieceSet) /\ IndexPieces \in Seq(PieceSet)
    BY <1>10, OfIndex
  <2>2. QED BY <1>8, <2>1, Concat
<1>14. \A p \in 1 .. Len(all) : /\ p > Before(n) => all[p].kind \in IndexKinds
                                /\ all[p].kind = "footer" => p = Len(all)
  <2>1. SUFFICES ASSUME NEW p \in 1 .. Len(all)
                 PROVE  /\ p > Before(n) => all[p].kind \in IndexKinds
                        /\ all[p].kind = "footer" => p = Len(all)
    OBVIOUS
  <2>2. CASE p \in 1 .. Len(w)
    <3>1. all[p].kind \in {"archive header", "seed"} \cup BlockKinds
      BY <1>11, <1>13, <2>2
    <3>2. ~(p > Before(n))
      BY <1>2, <1>10, <2>2
    <3>3. all[p].kind # "footer"
      BY <3>1 DEF BlockKinds
    <3>4. QED BY <3>2, <3>3
  <2>3. CASE p \in Len(w) + 1 .. Len(all)
    <3>1. all[p] = IndexPieces[p - Len(w)] /\ p - Len(w) \in 1 .. Len(IndexPieces)
      BY <1>13, <2>3
    <3>2. all[p].kind \in IF p - Len(w) = Len(IndexPieces) THEN {"footer"} ELSE {"lists", "sizes"}
      BY <3>1, OfIndex
    <3>3. p - Len(w) = Len(IndexPieces) => p = Len(all)
      BY <1>2, <1>10, <1>13, <2>3, OfIndex
    <3>4. QED BY <3>2, <3>3 DEF IndexKinds
  <2>4. QED BY <1>2, <1>10, <2>2, <2>3
<1>15. \A k \in 0 .. n - 1 : Before(k) + 1 \in 1 .. Len(all) /\ all[Before(k) + 1].kind = "header"
  BY <1>2, <1>10, <1>12, <1>13, OfIndex
<1>16. QED BY <1>1, <1>10, <1>12, <1>13, <1>14, <1>15 DEF n, all

-----------------------------------------------------------------------------
(* What the steps do.                                                      *)

LEMMA ArchIs ==
  ASSUME arch \in Archives
  PROVE  /\ arch.blocks \in Nat /\ arch.version \in Nat /\ arch.seed \in BOOLEAN
         /\ arch.matches \subseteq [src : Nat, dest : Nat, len : Nat]
         /\ IsFiniteSet(arch.matches)
         /\ \A m \in arch.matches : 1 <= m.src /\ m.src < m.dest /\ m.dest <= arch.blocks
<1>1. arch \in [version : Nat, signature : BOOLEAN, seed : BOOLEAN, blocks : Nat,
                hash : {"known", "not saved", "unknown", "too long"},
                matches : SUBSET [src : Nat, dest : Nat, len : 1 .. Bufsize]]
  BY DriverAssumption
<1>2. arch.matches \in SUBSET [src : Nat, dest : Nat, len : 1 .. Bufsize]
  BY <1>1
<1>3. \A x \in 1 .. Bufsize : x \in Nat
  OBVIOUS
<1>4. arch.matches \subseteq [src : Nat, dest : Nat, len : Nat]
  <2>1. SUFFICES ASSUME NEW m \in arch.matches
                 PROVE  m \in [src : Nat, dest : Nat, len : Nat]
    OBVIOUS
  <2>2. m \in [src : Nat, dest : Nat, len : 1 .. Bufsize]
    BY <1>2
  <2>3. QED BY <1>3, <2>2
<1>5. QED BY <1>1, <1>4, DriverAssumption

LEMMA CallIs ==
  ASSUME call \in Calls
  PROVE  call.entry \in Entries /\ call.maximum_save \in Nat /\ call.info \in BOOLEAN
BY DriverAssumption

\* The archive and the call stay what they are
LEMMA SameCall ==
  ASSUME Next
  PROVE  arch' = arch /\ call' = call
<1>1. CASE CheckHeader \/ ChooseHash \/ ReadSeed \/ ReadFooter \/ IndexInfo \/ OpenTempfile
  BY <1>1 DEF CheckHeader, ChooseHash, ReadSeed, ReadFooter, IndexInfo, OpenTempfile
<1>2. CASE Finish \/ ReadBlock \/ ReadIndexAsBlock \/ Decode \/ CheckBlock
  BY <1>2 DEF Finish, ReadBlock, ReadIndexAsBlock, Decode, CheckBlock
<1>3. CASE WriteTemp \/ WriteOut \/ Loop \/ Destroy \/ CloseFiles
  BY <1>3 DEF WriteTemp, WriteOut, Loop, Destroy, CloseFiles
<1>4. QED BY <1>1, <1>2, <1>3 DEF Next

\* The pieces of the input, the start of those of the archive
LEMMA InputIs ==
  ASSUME arch \in Archives, fin \in StreamsOf(InputKinds, PieceSet), PositionKept
  PROVE  /\ Size(fin) \in 0 .. Len(Pieces(arch)) /\ Pieces(arch) \in Seq(PieceSet)
         /\ \A p \in 1 .. Size(fin) : fin.cells[p] = Pieces(arch)[p]
         /\ Size(fin) = Len(Pieces(arch)) => fin.cells = Pieces(arch)
<1> DEFINE all == Pieces(arch)
<1>1. all \in Seq(PieceSet)
  BY PiecesAre
<1>2. PICK n \in 0 .. Len(all) : fin.cells = SubSeq(all, 1, n)
  BY DEF PositionKept
<1> HIDE DEF all
<1>3. n \in Nat /\ n <= Len(all) /\ Len(all) \in Nat
  BY <1>1, <1>2, LenProperties
<1>4. Len(fin.cells) = n /\ \A p \in 1 .. n : fin.cells[p] = all[p]
  BY <1>1, <1>2, <1>3
<1>5. n = Len(all) => fin.cells = all
  BY <1>1, <1>2, SubSeqFull
<1>6. QED BY <1>1, <1>3, <1>4, <1>5 DEF all, Size

\* A header can only be the next block's, and what follows the last block is the index
LEMMA AtHeader ==
  ASSUME TypesKept, PositionKept, ReadUpTo(origsize), fin.pos < Size(fin)
  PROVE  /\ Next1("header") <=> origsize < arch.blocks
         /\ origsize < arch.blocks => fin.cells[fin.pos + 1].kind = "header"
<1>1. arch.blocks \in Nat /\ origsize \in Nat /\ fin.pos \in Int
  BY ArchIs DEF TypesKept, StreamsOf
<1>2. /\ Size(fin) \in 0 .. Len(Pieces(arch)) /\ Len(Pieces(arch)) \in Nat
      /\ \A p \in 1 .. Size(fin) : fin.cells[p] = Pieces(arch)[p]
  BY InputIs, LenProperties DEF TypesKept
<1>3. Before(origsize) \in Nat /\ Before(arch.blocks) \in Nat
  BY <1>1, BeforeNext
<1>4. CASE origsize < arch.blocks
  <2>1. fin.pos = Before(origsize) /\ origsize \in 0 .. arch.blocks - 1
    BY <1>1, <1>4 DEF ReadUpTo
  <2>2. Pieces(arch)[Before(origsize) + 1].kind = "header"
    BY <2>1, PiecesAre DEF TypesKept
  <2>3. fin.pos + 1 \in 1 .. Size(fin)
    BY <1>1, <1>2, <1>3, <2>1
  <2>4. fin.cells[fin.pos + 1].kind = "header"
    BY <1>2, <2>1, <2>2, <2>3
  <2>5. QED BY <1>4, <2>4 DEF Next1, IsNext
<1>5. CASE ~(origsize < arch.blocks)
  <2>1. fin.pos >= Before(arch.blocks)
    <3>1. CASE origsize = arch.blocks
      BY <1>1, <1>3, <3>1 DEF ReadUpTo
    <3>2. CASE origsize > arch.blocks
      BY <1>1, <1>3, <3>2 DEF ReadUpTo
    <3>3. QED BY <1>1, <1>5, <3>1, <3>2
  <2>2. fin.pos + 1 \in 1 .. Size(fin) /\ fin.pos + 1 \in 1 .. Len(Pieces(arch))
         /\ fin.pos + 1 > Before(arch.blocks)
    BY <1>1, <1>2, <1>3, <2>1
  <2>3. Pieces(arch)[fin.pos + 1].kind \in IndexKinds
    BY <2>2, PiecesAre DEF TypesKept
  <2>4. fin.cells[fin.pos + 1].kind # "header"
    BY <1>2, <2>2, <2>3 DEF IndexKinds
  <2>5. QED BY <1>5, <2>4 DEF Next1, IsNext
<1>6. QED BY <1>4, <1>5

\* No more blocks are decoded than memory was taken for
LEMMA BlocksBound ==
  ASSUME TypesKept, PositionKept, NEW k \in Nat, ReadUpTo(k)
  PROVE  k <= arch.blocks + 3
<1>1. arch.blocks \in Nat /\ fin.pos \in Int
  BY ArchIs DEF TypesKept, StreamsOf
<1>2. Size(fin) \in 0 .. Len(Pieces(arch)) /\ Len(Pieces(arch)) \in Nat
  BY InputIs, LenProperties DEF TypesKept
<1>3. Before(arch.blocks) \in Nat
  BY <1>1, BeforeNext
<1>4. Len(Pieces(arch)) = Before(arch.blocks) + Len(IndexPieces) /\ Len(IndexPieces) \in 0 .. 3
  BY PiecesAre, OfIndex DEF TypesKept
<1>5. CASE k > arch.blocks
  <2>1. fin.pos <= Size(fin) /\ fin.pos >= Before(arch.blocks) + (k - arch.blocks)
    BY <1>5 DEF ReadUpTo
  <2>2. Size(fin) \in Int /\ Size(fin) <= Before(arch.blocks) + 3
    <3> DEFINE x == Len(IndexPieces)
    <3> DEFINE y == Len(Pieces(arch))
    <3> DEFINE z == Size(fin)
    <3> DEFINE c == Before(arch.blocks)
    <3>1. x \in 0 .. 3 /\ y = c + x /\ z \in 0 .. y /\ c \in Nat
      BY <1>2, <1>3, <1>4
    <3> HIDE DEF x, y, z, c
    <3>2. z \in Int /\ z <= c + 3
      BY <3>1
    <3>3. QED BY <3>2 DEF z, c
  <2>3. fin.pos <= Before(arch.blocks) + 3
    BY <1>1, <1>3, <2>1, <2>2
  <2>4. QED BY <1>1, <1>3, <2>1, <2>3
<1>6. CASE ~(k > arch.blocks)
  BY <1>1, <1>6
<1>7. QED BY <1>5, <1>6

\* Where the block is written, if it is
Stores   == (pc = "write temp" /\ ftemp = Shared) \/ pc = "write out"
WritesAt == IF pc = "write temp" THEN AtBlock(fout) ELSE fout

LEMMA PlaceIs ==
  ASSUME TypesKept, PhasesKept, OutputGrows, PositionKept, Stores
  PROVE  /\ WritesAt \in StreamsOf(OutputKinds, Int) /\ WritesAt.cells = fout.cells
         /\ WritesAt.kind = fout.kind /\ WritesAt.capacity = fout.capacity
         /\ WritesAt.pos >= Size(fout) /\ WritesAt.pos <= origsize - 1
         /\ InPlace => WritesAt.pos = origsize - 1
         /\ ~InPlace => WritesAt = fout /\ fout.pos = Size(fout)
         /\ WriteCounts(WritesAt, 1) \subseteq {0, 1}
         /\ fout.kind = "cursor" => WriteCounts(WritesAt, 1) \subseteq {1}
<1> DEFINE at == WritesAt
<1>1. /\ fout \in StreamsOf(OutputKinds, Int) /\ origsize \in Nat /\ origsize >= 1
      /\ ~call.info /\ Turns = origsize - 1 /\ Size(fout) \in Nat /\ Size(fout) <= origsize - 1
      /\ ~InPlace => fout.pos = Size(fout)
  <2>1. ~call.info
    BY DEF Stores, PhasesKept, Writing
  <2>2. Turns = origsize - 1
    BY DEF Stores, Turns
  <2>3. Size(fout) <= origsize - 1 /\ origsize >= 1 /\ (~InPlace => fout.pos = Size(fout))
    BY <2>1, <2>2 DEF Stores, OutputGrows
  <2>4. Size(fout) \in Nat
    BY LenProperties DEF TypesKept, StreamsOf, Size
  <2>5. QED BY <2>1, <2>2, <2>3, <2>4 DEF TypesKept
<1> DEFINE o == origsize - 1
<1> DEFINE z == Size(fout)
<1>0. o \in Nat /\ z \in Nat /\ z <= o
  <2>1. origsize \in Nat /\ origsize >= 1
    BY <1>1
  <2>2. o \in Nat
    BY <2>1
  <2>3. QED BY <1>1, <2>2
<1> HIDE DEF o, z
<1>2. ASSUME InPlace
      PROVE  /\ at \in StreamsOf(OutputKinds, Int) /\ at.cells = fout.cells
             /\ at.kind = fout.kind /\ at.capacity = fout.capacity
             /\ at.pos >= z /\ at.pos <= o
             /\ InPlace => at.pos = o
             /\ ~InPlace => at = fout /\ fout.pos = z
  <2>1. pc = "write temp" /\ ftemp = Shared /\ fout.kind # "pipe"
    BY <1>2 DEF Stores, InPlace, PhasesKept
  <2>2. at = SeekSet(fout, o)
    BY <2>1 DEF WritesAt, AtBlock, o
  <2>3. o \in Int /\ o >= 0
    BY <1>0
  <2>4. /\ at \in StreamsOf(OutputKinds, Int) /\ at = [fout EXCEPT !.pos = at.pos]
        /\ fout.kind \in {"file", "wb", "callback"} => at.pos = o
        /\ fout.kind = "cursor" => at.pos = IF o <= z THEN o ELSE z
    <3>1. fout \in StreamsOf(OutputKinds, Int)
      BY <1>1
    <3> HIDE DEF at
    <3>2. QED BY <2>2, <2>3, <3>1, SeekIs DEF z
  <2>5. at.cells = fout.cells /\ at.kind = fout.kind /\ at.capacity = fout.capacity
    BY <1>1, <2>4 DEF StreamsOf
  <2>6. fout.kind = "cursor" => z = o
    BY <1>1, <1>2, <2>1 DEF OutputGrows, z, o
  <2>7. at.pos = o
    <3>1. fout.kind \in {"file", "wb", "callback", "cursor"}
      BY <1>1, <2>1 DEF StreamsOf, OutputKinds
    <3>2. CASE fout.kind = "cursor"
      BY <1>0, <2>4, <2>6, <3>2
    <3>3. QED BY <2>4, <3>1, <3>2
  <2>8. at.pos >= z /\ at.pos <= o
    <3> HIDE DEF at
    <3>1. QED BY <1>0, <2>7
  <2>9. QED BY <1>2, <2>4, <2>5, <2>7, <2>8
<1>3. ASSUME ~InPlace
      PROVE  /\ at \in StreamsOf(OutputKinds, Int) /\ at.cells = fout.cells
             /\ at.kind = fout.kind /\ at.capacity = fout.capacity
             /\ at.pos >= z /\ at.pos <= o
             /\ InPlace => at.pos = o
             /\ ~InPlace => at = fout /\ fout.pos = z
  <2>1. at = fout
    <3>1. CASE pc = "write temp"
      <4>1. fout.kind = "pipe"
        BY <1>3, <3>1 DEF Stores, InPlace
      <4>2. QED BY <3>1, <4>1 DEF WritesAt, AtBlock, SeekSet
    <3>2. CASE pc # "write temp"
      BY <3>2 DEF WritesAt
    <3>3. QED BY <3>1, <3>2
  <2>2. at.pos = z /\ at.pos >= z /\ at.pos <= o
    <3>1. at.pos = z
      BY <1>1, <1>3, <2>1 DEF z
    <3> HIDE DEF at
    <3>2. QED BY <1>0, <3>1
  <2>3. at \in StreamsOf(OutputKinds, Int)
    BY <1>1, <2>1
  <2>4. QED BY <1>3, <2>1, <2>2, <2>3
<1>4. /\ at \in StreamsOf(OutputKinds, Int) /\ at.cells = fout.cells
      /\ at.kind = fout.kind /\ at.capacity = fout.capacity
      /\ at.pos >= z /\ at.pos <= o
      /\ InPlace => at.pos = o
      /\ ~InPlace => at = fout /\ fout.pos = z
  BY <1>2, <1>3
<1>5. fout.kind = "cursor" => WriteCounts(at, 1) = {1}
  <2>1. SUFFICES ASSUME fout.kind = "cursor" PROVE WriteCounts(at, 1) = {1}
    OBVIOUS
  <2>2. fout.capacity = arch.blocks + 3 /\ arch.blocks \in Nat
    BY <2>1, ArchIs, CallIs, OutputIs DEF TypesKept
  <2>3. ReadUpTo(origsize)
    BY <1>1 DEF Stores, PositionKept, Places
  <2>4. origsize <= arch.blocks + 3
    BY <1>1, <2>3, BlocksBound
  <2>5. at.pos \in Int /\ at.pos + 1 <= at.capacity
    <3>1. at.pos \in Int /\ at.pos <= o /\ at.capacity = arch.blocks + 3
      BY <1>4, <2>2 DEF StreamsOf, o
    <3>2. o <= arch.blocks + 2 /\ o \in Nat
      BY <1>1, <1>0, <2>2, <2>4 DEF o
    <3> HIDE DEF at
    <3>3. QED BY <2>2, <3>1, <3>2
  <2>6. WriteCounts(at, 1) = {CursorRoom(at, 1)} /\ CursorRoom(at, 1) = 1
    BY <1>4, <2>1, <2>5 DEF WriteCounts, CursorRoom
  <2>7. QED BY <2>6
<1>6. fout.kind # "cursor" => WriteCounts(at, 1) \subseteq {0, 1}
  <2>1. 0 .. 1 \subseteq {0, 1}
    <3>1. \A x \in 0 .. 1 : x = 0 \/ x = 1
      OBVIOUS
    <3>2. QED BY <3>1
  <2>2. QED BY <1>4, <2>1 DEF WriteCounts
<1>7. QED BY <1>4, <1>5, <1>6 DEF o, z

\* A block that is stored comes behind all others
StoredCells(n) ==
  /\ fout' \in StreamsOf(OutputKinds, Int)
  /\ fout'.kind = fout.kind /\ fout'.capacity = fout.capacity
  /\ fout.kind = "cursor" => n = 1
  /\ n = 0 => fout'.cells = fout.cells /\ (~InPlace => fout'.pos = fout.pos)
  /\ n = 1 => /\ fout'.pos = WritesAt.pos + 1 /\ Size(fout') = WritesAt.pos + 1
              /\ \A p \in 1 .. Size(fout) : fout'.cells[p] = fout.cells[p]
              /\ \A p \in Size(fout) + 1 .. WritesAt.pos : fout'.cells[p] = Hole
              /\ fout'.cells[WritesAt.pos + 1] = out

Fails ==
  \/ pc' = "block" /\ result' = result
  \/ pc' = "returning" /\ result' = "origsize" /\ INDEX_LZ /\ arch.blocks = 1

LEMMA Stored ==
  ASSUME TypesKept, PhasesKept, OutputGrows, PositionKept, Stores, WriteTemp \/ WriteOut
  PROVE  /\ UNCHANGED <<fin, ftemp, work>>
         /\ \E n \in {0, 1} :
              /\ StoredCells(n)
              /\ n = 1 => pc' = "written" /\ result' = result /\ failed' = failed
              /\ n = 0 => Fails /\ failed' = failed \cup {origsize}
<1>1. /\ UNCHANGED <<fin, ftemp, work>>
      /\ \E n \in WriteCounts(WritesAt, 1) :
           /\ fout' = AfterWrite(WritesAt, <<out>>, n)
           /\ LoopOr("written", n = 1)
           /\ failed' = IF n = 1 THEN failed ELSE failed \cup {origsize}
  <2>1. CASE WriteTemp
    <3>1. pc = "write temp" /\ ftemp = Shared /\ AtBlock(Temp) = WritesAt
      BY <2>1 DEF WriteTemp, Stores, WritesAt, Temp
    <3>2. QED BY <2>1, <3>1 DEF WriteTemp, streams, work
  <2>2. CASE WriteOut
    <3>1. pc = "write out" /\ fout = WritesAt
      BY <2>2 DEF WriteOut, WritesAt
    <3>2. QED BY <2>2, <3>1 DEF WriteOut
  <2>3. QED BY <2>1, <2>2
<1>2. PICK n \in WriteCounts(WritesAt, 1) :
        /\ fout' = AfterWrite(WritesAt, <<out>>, n)
        /\ LoopOr("written", n = 1)
        /\ failed' = IF n = 1 THEN failed ELSE failed \cup {origsize}
  BY <1>1
<1>3. /\ WritesAt \in StreamsOf(OutputKinds, Int) /\ WritesAt.cells = fout.cells
      /\ WritesAt.kind = fout.kind /\ WritesAt.capacity = fout.capacity
      /\ WritesAt.pos >= Size(fout)
      /\ ~InPlace => WritesAt = fout
      /\ n \in {0, 1} /\ (fout.kind = "cursor" => n = 1)
  BY <1>2, PlaceIs
<1>4. Size(WritesAt) = Size(fout) /\ out \in Int
  BY <1>3 DEF Size, TypesKept
<1>5. CASE n = 1
  <2> DEFINE w == AfterWrite(WritesAt, <<out>>, 1)
  <2>1. WritesAt \in StreamsOf(OutputKinds, Int) /\ WritesAt.pos >= Size(WritesAt) /\ out \in Int
    BY <1>3, <1>4
  <2>2. /\ w \in StreamsOf(OutputKinds, Int) /\ w.kind = WritesAt.kind
        /\ w.capacity = WritesAt.capacity
        /\ w.pos = WritesAt.pos + 1 /\ Size(w) = WritesAt.pos + 1
        /\ \A p \in 1 .. Size(WritesAt) : w.cells[p] = WritesAt.cells[p]
        /\ \A p \in Size(WritesAt) + 1 .. WritesAt.pos : w.cells[p] = Hole
        /\ w.cells[WritesAt.pos + 1] = out
    BY <2>1, WriteAtEnd
  <2>3. fout' = w
    BY <1>2, <1>5
  <2> HIDE DEF w
  <2>4. Size(fout)' = Size(w)
    BY <2>3 DEF Size
  <2>5. StoredCells(1)
    BY <1>3, <1>4, <2>2, <2>3, <2>4 DEF StoredCells
  <2>6. pc' = "written" /\ result' = result /\ failed' = failed
    BY <1>2, <1>5 DEF LoopOr, Goto, ending
  <2>7. QED BY <1>1, <2>5, <2>6
<1>6. CASE n = 0
  <2>1. fout' = WritesAt
    BY <1>2, <1>3, <1>6, WriteNothing
  <2>2. StoredCells(0)
    BY <1>3, <1>6, <2>1 DEF StoredCells
  <2>3. Fails
    BY <1>2, <1>6 DEF LoopOr, Goto, Return, ending, Fails
  <2>4. failed' = failed \cup {origsize}
    BY <1>2, <1>6
  <2>5. QED BY <1>1, <2>2, <2>3, <2>4
<1>7. QED BY <1>3, <1>5, <1>6

\* A tempfile that is closed stores nothing
LEMMA NotStored ==
  ASSUME ~Stores, WriteTemp \/ WriteOut
  PROVE  /\ UNCHANGED <<fin, fout, ftemp, work>>
         /\ pc = "write temp" /\ ftemp # Shared
         /\ \/ pc' = "write out" /\ result' = result /\ failed' = failed
            \/ pc' = "exited" /\ result' = result /\ failed' = failed
            \/ Fails /\ failed' = failed \cup {origsize}
<1>1. WriteTemp /\ pc = "write temp" /\ ftemp # Shared
  BY DEF Stores, WriteTemp, WriteOut
<1>2. /\ UNCHANGED <<fin, fout, ftemp, work>>
      /\ \/ LoopOr("write out", TRUE) /\ UNCHANGED failed
         \/ LoopOr("write out", FALSE) /\ failed' = failed \cup {origsize}
         \/ Crash /\ UNCHANGED failed
  BY <1>1 DEF WriteTemp
<1>3. QED BY <1>1, <1>2 DEF LoopOr, Goto, Return, Crash, ending, Fails

\* Reading a match moves the position only, and none in a pipe
LEMMA RereadIs ==
  ASSUME fout \in StreamsOf(OutputKinds, Int), NEW m, m.src \in Int
  PROVE  /\ AfterReread(m) \in StreamsOf(OutputKinds, Int)
         /\ AfterReread(m).kind = fout.kind /\ AfterReread(m).capacity = fout.capacity
         /\ AfterReread(m).cells = fout.cells
         /\ ~InPlace => AfterReread(m).pos = fout.pos
<1>1. CASE ftemp = Shared
  <2> DEFINE o == m.src - 1
  <2> DEFINE s == SeekSet(fout, o)
  <2>1. o \in Int
    OBVIOUS
  <2> HIDE DEF o
  <2>2. /\ s \in StreamsOf(OutputKinds, Int) /\ s = [fout EXCEPT !.pos = s.pos]
        /\ fout.kind = "pipe" => s = fout
    BY <2>1, SeekIs
  <2>3. AfterReread(m) = AfterRead(s, 1)
    BY <1>1 DEF AfterReread, o
  <2> HIDE DEF s
  <2>4. /\ AfterRead(s, 1) \in StreamsOf(OutputKinds, Int)
        /\ AfterRead(s, 1) = [s EXCEPT !.pos = s.pos + ReadCount(s, 1)]
        /\ ReadCount(s, 1) = IF CanRead(s) /\ s.pos < Size(s) THEN 1 ELSE 0
    BY <2>2, ReadOne
  <2>5. s.kind = fout.kind /\ s.capacity = fout.capacity /\ s.cells = fout.cells /\ s.pos \in Int
    BY <2>2 DEF StreamsOf
  <2>6. /\ AfterRead(s, 1).kind = s.kind /\ AfterRead(s, 1).capacity = s.capacity
        /\ AfterRead(s, 1).cells = s.cells /\ AfterRead(s, 1).pos = s.pos + ReadCount(s, 1)
    BY <2>2, <2>4 DEF StreamsOf
  <2>7. ~InPlace => AfterRead(s, 1).pos = fout.pos
    <3>1. SUFFICES ASSUME ~InPlace PROVE AfterRead(s, 1).pos = fout.pos
      OBVIOUS
    <3>2. s = fout /\ ReadCount(s, 1) = 0
      BY <1>1, <2>2, <2>4, <3>1 DEF InPlace, CanRead
    <3>3. QED BY <2>5, <2>6, <3>2
  <2>8. QED BY <2>3, <2>4, <2>5, <2>6, <2>7
<1>2. CASE ftemp # Shared
  BY <1>2 DEF AfterReread
<1>3. QED BY <1>1, <1>2


\* The matches that wait after a block was decoded
WaitingNext(b) ==
  IF IO_LZ THEN {}
  ELSE {m \in lz_matches : m.dest > b} \cup {m \in ListUsed(b) : m.dest > b}

LEMMA ListUsedIs ==
  ASSUME arch \in Archives, NEW b \in Nat, b >= 1
  PROVE  /\ ListUsed(b) \subseteq [src : Nat, dest : Nat, len : Nat]
         /\ ~INDEX_LZ => ListUsed(b) = ListOf(arch, b)
<1>1. CASE INDEX_LZ
  <2>1. SUFFICES ASSUME NEW m \in ListOf(arch, 1)
                 PROVE  [m EXCEPT !.src = b, !.dest = @ + b - 1] \in [src : Nat, dest : Nat, len : Nat]
    BY <1>1 DEF ListUsed
  <2>2. m \in [src : Nat, dest : Nat, len : Nat]
    BY ArchIs DEF ListOf
  <2>3. m.dest + b - 1 \in Nat
    BY <2>2
  <2>4. QED BY <2>2, <2>3
<1>2. CASE ~INDEX_LZ
  BY <1>2, ArchIs DEF ListUsed, ListOf
<1>3. QED BY <1>1, <1>2

\* A block is decoded right, or wrong, or the program ends
LEMMA Decoded ==
  ASSUME TypesKept, Decode
  PROVE  /\ UNCHANGED <<fin, ftemp, selected_hash, ram, max_ram, failed, result>> /\ pc = "decode"
         /\ fout' \in StreamsOf(OutputKinds, Int)
         /\ fout'.kind = fout.kind /\ fout'.capacity = fout.capacity /\ fout'.cells = fout.cells
         /\ ~InPlace => fout'.pos = fout.pos
         /\ \/ pc' = "exited" /\ UNCHANGED <<origsize, lz_matches, out>>
            \/ /\ pc' = "checksum" /\ origsize' = origsize + 1
               /\ out' = Bad \/ (out' = origsize + 1 /\ origsize + 1 \in Blocks)
               /\ lz_matches' = WaitingNext(origsize + 1)
<1> DEFINE b == origsize + 1
<1>1. b \in Nat /\ b >= 1
  BY DEF TypesKept
<1>2. /\ pc = "decode"
      /\ UNCHANGED <<arch, call, fin, ftemp, selected_hash, ram, max_ram, failed>>
      /\ \E o \in Outcomes(b) :
           CASE o = NotOk   -> Error /\ UNCHANGED <<origsize, lz_matches, out, decoded>>
             [] o = Crashes -> Crash /\ UNCHANGED <<origsize, lz_matches, out, decoded>>
             [] OTHER ->
                  /\ out' = o /\ decoded' = Append(decoded, o) /\ origsize' = b
                  /\ lz_matches' = WaitingNext(b)
                  /\ Goto("checksum")
      /\ IF Reread(b) = {} THEN UNCHANGED fout ELSE \E m \in Reread(b) : fout' = AfterReread(m)
  <2> DEFINE rest == \E o \in Outcomes(b) :
           CASE o = NotOk   -> Error /\ UNCHANGED <<origsize, lz_matches, out, decoded>>
             [] o = Crashes -> Crash /\ UNCHANGED <<origsize, lz_matches, out, decoded>>
             [] OTHER ->
                  /\ out' = o /\ decoded' = Append(decoded, o) /\ origsize' = b
                  /\ lz_matches' = WaitingNext(b)
                  /\ Goto("checksum")
  <2>1. rest
    BY DEF Decode, WaitingNext
  <2> HIDE DEF rest
  <2>2. /\ pc = "decode" /\ UNCHANGED <<arch, call, fin, ftemp, selected_hash, ram, max_ram, failed>>
        /\ IF Reread(b) = {} THEN UNCHANGED fout ELSE \E m \in Reread(b) : fout' = AfterReread(m)
    BY DEF Decode
  <2>3. QED BY <2>1, <2>2 DEF rest
<1>3. /\ fout' \in StreamsOf(OutputKinds, Int)
      /\ fout'.kind = fout.kind /\ fout'.capacity = fout.capacity /\ fout'.cells = fout.cells
      /\ ~InPlace => fout'.pos = fout.pos
  <2>1. CASE Reread(b) = {}
    BY <1>2, <2>1 DEF TypesKept
  <2>2. CASE Reread(b) # {}
    <3>1. PICK m \in Reread(b) : fout' = AfterReread(m)
      BY <1>2, <2>2
    <3>2. Used(b) \subseteq [src : Nat, dest : Nat, len : Nat]
      BY <1>1, ListUsedIs DEF Used, TypesKept
    <3>3. m.src \in Int
      BY <3>1, <3>2 DEF Reread
    <3>4. fout \in StreamsOf(OutputKinds, Int)
      BY DEF TypesKept
    <3>5. QED BY <3>1, <3>3, <3>4, RereadIs
  <2>3. QED BY <2>1, <2>2
<1>4. PICK o \in Outcomes(b) :
        CASE o = NotOk   -> Error /\ UNCHANGED <<origsize, lz_matches, out, decoded>>
          [] o = Crashes -> Crash /\ UNCHANGED <<origsize, lz_matches, out, decoded>>
          [] OTHER ->
               /\ out' = o /\ decoded' = Append(decoded, o) /\ origsize' = b
               /\ lz_matches' = WaitingNext(b)
               /\ Goto("checksum")
  BY <1>2
<1>5. CASE o = NotOk \/ o = Crashes
  <2>1. pc' = "exited" /\ result' = result /\ UNCHANGED <<origsize, lz_matches, out>>
    BY <1>4, <1>5 DEF Error, Crash
  <2>2. QED BY <1>2, <1>3, <2>1
<1>6. CASE o # NotOk /\ o # Crashes
  <2>1. pc' = "checksum" /\ result' = result /\ origsize' = b /\ out' = o /\ lz_matches' = WaitingNext(b)
    BY <1>4, <1>6 DEF Goto, ending
  <2>2. o = Bad \/ (o = b /\ b \in Blocks)
    <3>1. CASE b \notin Blocks \/ Used(b) # {m \in arch.matches : m.dest = b}
      <4>1. Outcomes(b) = {NotOk, Bad}
        BY <3>1 DEF Outcomes
      <4>2. QED BY <1>4, <1>6, <4>1
    <3>2. CASE b \in Blocks /\ Used(b) = {m \in arch.matches : m.dest = b}
      <4>1. Outcomes(b) \in {{Bad, Crashes}, {b}, {Bad}}
        BY <3>2 DEF Outcomes
      <4>2. QED BY <1>4, <1>6, <3>2, <4>1
    <3>3. QED BY <3>1, <3>2
  <2>3. QED BY <1>2, <1>3, <2>1, <2>2
<1>7. QED BY <1>5, <1>6

\* Counting a block of -i
CountWaits(b) == (lz_matches \ {m \in lz_matches : m.dest <= b}) \cup Waiting(b)

\* A cell of the input that is there is read
LEMMA ReadNext ==
  ASSUME NEW s \in StreamsOf(InputKinds, PieceSet)
  PROVE  /\ AfterRead(s, 1) \in StreamsOf(InputKinds, PieceSet)
         /\ AfterRead(s, 1).cells = s.cells
         /\ s.pos < Size(s) => AfterRead(s, 1).pos = s.pos + 1
<1>1. s.kind \in InputKinds /\ CanRead(s)
  BY DEF StreamsOf, InputKinds, CanRead
<1>2. /\ AfterRead(s, 1) \in StreamsOf(InputKinds, PieceSet)
      /\ AfterRead(s, 1) = [s EXCEPT !.pos = s.pos + ReadCount(s, 1)]
      /\ ReadCount(s, 1) = IF CanRead(s) /\ s.pos < Size(s) THEN 1 ELSE 0
  BY ReadOne
<1>3. QED BY <1>1, <1>2 DEF StreamsOf

\* The input up to where a block ends
LEMMA BlockRead ==
  ASSUME TypesKept, PositionKept, PhasesKept, ReadBlock
  PROVE  /\ UNCHANGED <<fout, ftemp, selected_hash, out, failed, decoded, result>>
         /\ fin' \in StreamsOf(InputKinds, PieceSet) /\ fin'.cells = fin.cells /\ pc = "block"
         /\ pc' = "exited" \/ (pc' = "block" /\ call.info) \/ (pc' = "decode" /\ ~call.info)
         /\ ~call.info => /\ UNCHANGED <<origsize, lz_matches, ram, max_ram>>
                          /\ pc' = "decode" => ReadUpTo(origsize + 1)'
         /\ call.info => \/ UNCHANGED <<origsize, lz_matches, ram, max_ram>> /\ pc' = "exited"
                         \/ IO_LZ /\ origsize' = origsize + 1 /\ UNCHANGED <<lz_matches, ram, max_ram>>
                         \/ ~IO_LZ /\ CountBlock(origsize + 1)
<1> DEFINE b == origsize + 1
<1> DEFINE hasList == ~INDEX_LZ /\ ListOf(arch, b) # {}
<1> DEFINE list == AfterRead(fin, 1)
<1> DEFINE data == IF hasList THEN AfterRead(list, 1) ELSE list
<1>1. /\ pc = "block" /\ Next1("header")
      /\ UNCHANGED <<arch, call, fout, ftemp, selected_hash, out, history>>
      /\ \/ /\ hasList /\ ~IsNext(list, "list")
            /\ Error /\ UNCHANGED <<fin, origsize, lz_matches, ram, max_ram>>
         \/ /\ hasList => IsNext(list, "list")
            /\ call.info
            /\ fin' = SeekCur(data, 1) /\ Goto("block")
            /\ IF IO_LZ THEN origsize' = b /\ UNCHANGED <<lz_matches, ram, max_ram>> ELSE CountBlock(b)
         \/ /\ hasList => IsNext(list, "list")
            /\ ~call.info
            /\ IF IsNext(data, "literals") THEN Goto("decode") ELSE Error
            /\ fin' = AfterRead(data, 1)
            /\ UNCHANGED <<origsize, lz_matches, ram, max_ram>>
  BY DEF ReadBlock
<1>2. fin \in StreamsOf(InputKinds, PieceSet)
  BY DEF TypesKept
<1>3. /\ list \in StreamsOf(InputKinds, PieceSet) /\ list.cells = fin.cells
      /\ list.pos = fin.pos + 1
  BY <1>1, <1>2, ReadNext DEF Next1, IsNext
<1> HIDE DEF list
<1>4. /\ AfterRead(list, 1) \in StreamsOf(InputKinds, PieceSet) /\ AfterRead(list, 1).cells = fin.cells
      /\ IsNext(list, "list") => AfterRead(list, 1).pos = list.pos + 1
  BY <1>3, ReadNext DEF IsNext
<1>5. /\ data \in StreamsOf(InputKinds, PieceSet) /\ data.cells = fin.cells
      /\ (hasList => IsNext(list, "list")) => data.pos = fin.pos + IF hasList THEN 2 ELSE 1
  <2>1. CASE hasList
    <3>1. data = AfterRead(list, 1) /\ fin.pos \in Int
      BY <1>2, <2>1 DEF StreamsOf
    <3>2. IsNext(list, "list") => AfterRead(list, 1).pos = (fin.pos + 1) + 1
      BY <1>3, <1>4
    <3>3. (fin.pos + 1) + 1 = fin.pos + 2
      BY <3>1
    <3>4. QED BY <1>4, <2>1, <3>1, <3>2, <3>3
  <2>2. CASE ~hasList
    BY <1>3, <2>2
  <2>3. QED BY <2>1, <2>2
<1>6. CASE hasList /\ ~IsNext(list, "list") /\ Error /\ UNCHANGED <<fin, origsize, lz_matches, ram, max_ram>>
  BY <1>1, <1>2, <1>6 DEF Error, history
<1>7. CASE /\ call.info /\ fin' = SeekCur(data, 1) /\ Goto("block")
           /\ IF IO_LZ THEN origsize' = b /\ UNCHANGED <<lz_matches, ram, max_ram>> ELSE CountBlock(b)
  <2> DEFINE o == data.pos + 1
  <2> HIDE DEF data
  <2>0. fin' = SeekSet(data, o)
    BY <1>7 DEF SeekCur
  <2>1. o \in Int
    <3>1. data.pos \in Int
      BY <1>5 DEF StreamsOf
    <3>2. QED BY <3>1
  <2> HIDE DEF o
  <2>2. fin' \in StreamsOf(InputKinds, PieceSet) /\ fin' = [data EXCEPT !.pos = fin'.pos]
    BY <1>5, <2>0, <2>1, SeekIs
  <2>3. fin'.cells = fin.cells
    BY <1>5, <2>2 DEF StreamsOf
  <2>4. QED BY <1>1, <1>7, <2>2, <2>3 DEF Goto, ending, history
<1>8. CASE /\ hasList => IsNext(list, "list")
           /\ ~call.info
           /\ IF IsNext(data, "literals") THEN Goto("decode") ELSE Error
           /\ fin' = AfterRead(data, 1)
           /\ UNCHANGED <<origsize, lz_matches, ram, max_ram>>
  <2>1. /\ fin' \in StreamsOf(InputKinds, PieceSet) /\ fin'.cells = fin.cells
        /\ IsNext(data, "literals") => fin'.pos = data.pos + 1
    <3> HIDE DEF data
    <3>1. QED BY <1>5, <1>8, ReadNext DEF IsNext
  <2>2. ASSUME IsNext(data, "literals")
        PROVE  ReadUpTo(b)'
    <3>1. ReadUpTo(origsize)
      BY <1>1, <1>8 DEF PositionKept, Places
    <3>2. origsize < arch.blocks /\ origsize \in Nat /\ arch.blocks \in Nat
      BY <1>1, <3>1, AtHeader, ArchIs DEF Next1, IsNext, TypesKept
    <3>3. fin.pos = Before(origsize) /\ Before(origsize) \in Nat
           /\ Before(b) = Before(origsize) + IF hasList THEN 3 ELSE 2
      BY <3>1, <3>2, BeforeNext DEF ReadUpTo, HasList
    <3>4. data.pos = fin.pos + IF hasList THEN 2 ELSE 1
      BY <1>5, <1>8
    <3>5. data.pos < Size(fin) /\ Size(fin) \in Nat
      BY <1>2, <1>5, <2>2, LenProperties DEF IsNext, Size, StreamsOf
    <3> HIDE DEF data
    <3>6. fin'.pos = Before(b)
      <4>1. CASE hasList
        BY <2>1, <2>2, <3>3, <3>4, <4>1
      <4>2. CASE ~hasList
        BY <2>1, <2>2, <3>3, <3>4, <4>2
      <4>3. QED BY <4>1, <4>2
    <3>7. Size(fin)' = Size(fin) /\ fin'.pos <= Size(fin)
      <4>1. fin'.pos = data.pos + 1 /\ data.pos \in Int
        BY <1>5, <2>1, <2>2 DEF StreamsOf
      <4>2. QED BY <2>1, <3>5, <4>1 DEF Size
    <3>8. Before(b)' = Before(b) /\ arch' = arch /\ b' = b
      BY <1>1, <1>8 DEF Before, Lists, HasList, BlocksStart, INDEX_LZ
    <3>9. b <= arch.blocks
      BY <3>2
    <3>10. QED BY <3>2, <3>6, <3>7, <3>8, <3>9 DEF ReadUpTo
  <2>3. QED BY <1>1, <1>8, <2>1, <2>2 DEF Goto, Error, ending, history
<1>9. QED BY <1>1, <1>6, <1>7, <1>8


\* The index taken for a block comes behind all blocks
LEMMA IndexRead ==
  ASSUME TypesKept, PositionKept, PhasesKept, ReadIndexAsBlock
  PROVE  /\ UNCHANGED <<fout, ftemp, selected_hash, origsize, lz_matches, out, ram, max_ram,
                        failed, result>>
         /\ fin' \in StreamsOf(InputKinds, PieceSet) /\ fin'.cells = fin.cells
         /\ pc = "block" /\ ~call.info
         /\ pc' = "exited" \/ (pc' = "decode" /\ ReadUpTo(origsize + 1)')
<1>1. /\ pc = "block" /\ INDEX_LZ /\ ~AtEnd /\ ~Next1("header")
      /\ UNCHANGED <<arch, call, fout, ftemp, work, history>>
      /\ \/ Error /\ UNCHANGED fin
         \/ /\ \E n \in 1 .. Size(fin) - fin.pos : fin' = AfterRead(fin, n)
            /\ Goto("decode")
  BY DEF ReadIndexAsBlock
<1>2. fin \in StreamsOf(InputKinds, PieceSet) /\ ~call.info /\ fin.pos \in Int /\ Size(fin) \in Nat
  BY <1>1, LenProperties DEF TypesKept, PhasesKept, StreamsOf, Size
<1>3. CASE Error /\ UNCHANGED fin
  BY <1>1, <1>2, <1>3 DEF Error, work, history
<1>4. CASE Goto("decode") /\ \E n \in 1 .. Size(fin) - fin.pos : fin' = AfterRead(fin, n)
  <2>1. PICK n \in 1 .. Size(fin) - fin.pos : fin' = AfterRead(fin, n)
    BY <1>4
  <2> DEFINE o == fin.pos + n
  <2>2. n \in Nat /\ 1 <= n /\ n <= Size(fin) - fin.pos /\ o \in Int
    BY <1>2, <2>1
  <2>3. ReadCount(fin, n) = n
    <3>1. CanRead(fin)
      BY <1>2 DEF StreamsOf, InputKinds, CanRead
    <3>2. Max({Size(fin) - fin.pos, 0}) = Size(fin) - fin.pos
      BY <1>2, <2>2, Max2
    <3>3. Min({n, Size(fin) - fin.pos}) = n
      BY <1>2, <2>2, Min2
    <3>4. QED BY <3>1, <3>2, <3>3 DEF ReadCount
  <2>4. fin' = [fin EXCEPT !.pos = o]
    BY <2>1, <2>3 DEF AfterRead
  <2> HIDE DEF o
  <2>5. fin' \in StreamsOf(InputKinds, PieceSet) /\ fin'.cells = fin.cells /\ fin'.pos = o
    BY <1>2, <2>2, <2>4, NewPos DEF StreamsOf
  <2>6. ReadUpTo(origsize) /\ fin.pos < Size(fin)
    BY <1>1, <1>2 DEF PositionKept, Places, AtEnd
  <2>7. ~(origsize < arch.blocks) /\ origsize \in Nat /\ arch.blocks \in Nat
    BY <1>1, <2>6, AtHeader, ArchIs DEF TypesKept
  <2>8. Before(arch.blocks) \in Nat /\ fin.pos >= Before(arch.blocks) + (origsize - arch.blocks)
    <3>1. Before(arch.blocks) \in Nat
      BY <2>7, BeforeNext
    <3>2. CASE origsize = arch.blocks
      <4>1. fin.pos = Before(arch.blocks)
        BY <2>6, <2>7, <3>2 DEF ReadUpTo
      <4>2. QED BY <2>7, <3>1, <3>2, <4>1
    <3>3. CASE origsize > arch.blocks
      BY <2>6, <3>1, <3>3 DEF ReadUpTo
    <3>4. QED BY <2>7, <3>2, <3>3
  <2> DEFINE b == origsize + 1
  <2>9. o >= Before(arch.blocks) + (b - arch.blocks) /\ o <= Size(fin) /\ b > arch.blocks
    BY <1>2, <2>2, <2>7, <2>8 DEF o
  <2>10. /\ Size(fin)' = Size(fin) /\ Before(arch.blocks)' = Before(arch.blocks) /\ arch' = arch
         /\ b' = b /\ INDEX_LZ'
    BY <1>1, <2>5 DEF work, Size, Before, Lists, HasList, BlocksStart, INDEX_LZ
  <2>11. ~(b <= arch.blocks)
    BY <2>7
  <2> HIDE DEF b
  <2>12. ReadUpTo(b)'
    BY <2>5, <2>9, <2>10, <2>11 DEF ReadUpTo
  <2>13. QED BY <1>1, <1>2, <1>4, <2>5, <2>12 DEF Goto, ending, work, history, b
<1>5. QED BY <1>1, <1>3, <1>4

\* The steps that leave streams, blocks and waiting matches alone
Quiet ==
  UNCHANGED <<fin, fout, ftemp, origsize, lz_matches, ram, max_ram, failed>>

LEMMA QuietSteps ==
  ASSUME ChooseHash \/ ReadFooter \/ Finish \/ CheckBlock \/ Loop \/ Destroy \/ CloseFiles
  PROVE  Quiet /\ out' = out
<1>1. CASE ChooseHash \/ ReadFooter \/ Finish \/ CheckBlock
  BY <1>1 DEF ChooseHash, ReadFooter, Finish, CheckBlock, Quiet, streams, work, history
<1>2. CASE Loop \/ Destroy \/ CloseFiles
  BY <1>2 DEF Loop, Destroy, CloseFiles, Quiet, streams, work, history
<1>3. QED BY <1>1, <1>2

\* The input is read before the first block
LEMMA FrontRead ==
  ASSUME TypesKept, CheckHeader \/ ReadSeed
  PROVE  /\ UNCHANGED <<fout, ftemp, work, failed, result>>
         /\ fin' \in StreamsOf(InputKinds, PieceSet) /\ fin'.cells = fin.cells
<1>1. fin \in StreamsOf(InputKinds, PieceSet)
  BY DEF TypesKept
<1>2. fin' = AfterRead(fin, 1) \/ fin' = fin
  BY DEF CheckHeader, ReadSeed
<1>3. fin' \in StreamsOf(InputKinds, PieceSet) /\ fin'.cells = fin.cells
  BY <1>1, <1>2, ReadNext
<1>4. UNCHANGED <<fout, ftemp, work, failed, result>>
  BY DEF CheckHeader, ReadSeed, Error, Goto, ending, history
<1>5. QED BY <1>3, <1>4


-----------------------------------------------------------------------------
(* The invariant is kept, conjunct by conjunct.                            *)

LEMMA CountTypes ==
  ASSUME TypesKept, NEW b \in Nat, CountBlock(b)
  PROVE  origsize' \in Nat /\ lz_matches' \subseteq [src : Nat, dest : Nat, len : Nat]
<1>1. origsize' = b /\ lz_matches' = CountWaits(b)
  BY DEF CountBlock, CountWaits
<1>2. Waiting(b) \subseteq [src : Nat, dest : Nat, len : Nat]
  BY ArchIs DEF TypesKept, Waiting
<1>3. QED BY <1>1, <1>2 DEF TypesKept, CountWaits

LEMMA TypesStep ==
  ASSUME TypesKept, PhasesKept, OutputGrows, PositionKept, Next
  PROVE  TypesKept'
<1> DEFINE Inner ==
      /\ fin' \in StreamsOf(InputKinds, PieceSet) /\ fout' \in StreamsOf(OutputKinds, Int)
      /\ fout'.kind = fout.kind /\ fout'.capacity = fout.capacity
      /\ ftemp' \in {Shared, Closed} /\ selected_hash' \in BOOLEAN /\ origsize' \in Nat
      /\ out' \in Int /\ lz_matches' \subseteq [src : Nat, dest : Nat, len : Nat]
<1>1. arch' = arch /\ call' = call
  BY SameCall
<1>2. /\ fin \in StreamsOf(InputKinds, PieceSet) /\ fout \in StreamsOf(OutputKinds, Int)
      /\ ftemp \in {Shared, Closed} /\ selected_hash \in BOOLEAN /\ origsize \in Nat
      /\ out \in Int /\ lz_matches \subseteq [src : Nat, dest : Nat, len : Nat]
      /\ origsize + 1 \in Nat /\ -1 \in Int
  BY DEF TypesKept
<1>3. CASE CheckHeader \/ ReadSeed
  <2>1. /\ UNCHANGED <<fout, ftemp, work>> /\ fin' \in StreamsOf(InputKinds, PieceSet)
    BY <1>3, FrontRead
  <2>2. Inner
    BY <1>2, <2>1 DEF work
  <2>3. QED BY <1>1, <2>2 DEF TypesKept, Output
<1>4. CASE ChooseHash \/ ReadFooter \/ Finish \/ CheckBlock \/ Loop \/ Destroy \/ CloseFiles
  <2>1. Quiet /\ out' = out
    BY <1>4, QuietSteps
  <2>2. selected_hash' \in BOOLEAN
    <3>1. CASE ChooseHash
      BY <3>1 DEF ChooseHash
    <3>2. CASE ~ChooseHash
      BY <1>2, <1>4, <3>2 DEF ReadFooter, Finish, CheckBlock, Loop, Destroy, CloseFiles, work
    <3>3. QED BY <3>1, <3>2
  <2>3. Inner
    BY <1>2, <2>1, <2>2 DEF Quiet
  <2>4. QED BY <1>1, <2>3 DEF TypesKept, Output
<1>5. CASE IndexInfo
  <2>1. UNCHANGED <<streams, selected_hash, out>>
    BY <1>5 DEF IndexInfo
  <2>2. CountBlock(origsize + 1) \/ UNCHANGED <<origsize, lz_matches>>
    BY <1>5 DEF IndexInfo
  <2>3. origsize' \in Nat /\ lz_matches' \subseteq [src : Nat, dest : Nat, len : Nat]
    BY <1>2, <2>2, CountTypes
  <2>4. Inner
    BY <1>2, <2>1, <2>3 DEF streams
  <2>5. QED BY <1>1, <2>4 DEF TypesKept, Output
<1>6. CASE OpenTempfile
  <2>1. UNCHANGED <<fin, fout, work>> /\ (ftemp' = Closed \/ ftemp' = ftemp)
    BY <1>6 DEF OpenTempfile, Closed
  <2>2. Inner
    BY <1>2, <2>1 DEF work
  <2>3. QED BY <1>1, <2>2 DEF TypesKept, Output
<1>7. CASE ReadBlock
  <2>1. /\ UNCHANGED <<fout, ftemp, selected_hash, out>>
        /\ fin' \in StreamsOf(InputKinds, PieceSet)
        /\ ~call.info => UNCHANGED <<origsize, lz_matches>>
        /\ call.info => \/ UNCHANGED <<origsize, lz_matches>>
                        \/ origsize' = origsize + 1 /\ UNCHANGED lz_matches
                        \/ CountBlock(origsize + 1)
    BY <1>7, BlockRead
  <2>2. origsize' \in Nat /\ lz_matches' \subseteq [src : Nat, dest : Nat, len : Nat]
    BY <1>2, <2>1, CountTypes
  <2>3. Inner
    BY <1>2, <2>1, <2>2
  <2>4. QED BY <1>1, <2>3 DEF TypesKept, Output
<1>8. CASE ReadIndexAsBlock
  <2>1. Inner
    BY <1>2, <1>8, IndexRead
  <2>2. QED BY <1>1, <2>1 DEF TypesKept, Output
<1>9. CASE Decode
  <2>1. /\ UNCHANGED <<fin, ftemp, selected_hash>>
        /\ fout' \in StreamsOf(OutputKinds, Int)
        /\ fout'.kind = fout.kind /\ fout'.capacity = fout.capacity
        /\ \/ UNCHANGED <<origsize, lz_matches, out>>
           \/ /\ origsize' = origsize + 1
              /\ out' = Bad \/ out' = origsize + 1
              /\ lz_matches' = WaitingNext(origsize + 1)
    BY <1>9, Decoded
  <2>2. origsize' \in Nat /\ out' \in Int
    BY <1>2, <2>1 DEF Bad
  <2>3. ListUsed(origsize + 1) \subseteq [src : Nat, dest : Nat, len : Nat]
    <3>1. origsize + 1 >= 1
      BY <1>2
    <3>2. QED BY <1>2, <3>1, ListUsedIs DEF TypesKept
  <2>4. lz_matches' \subseteq [src : Nat, dest : Nat, len : Nat]
    BY <1>2, <2>1, <2>3 DEF WaitingNext
  <2>5. Inner
    BY <1>2, <2>1, <2>2, <2>4
  <2>6. QED BY <1>1, <2>5 DEF TypesKept, Output
<1>10. CASE WriteTemp \/ WriteOut
  <2>1. /\ UNCHANGED <<fin, ftemp, work>> /\ fout' \in StreamsOf(OutputKinds, Int)
        /\ fout'.kind = fout.kind /\ fout'.capacity = fout.capacity
    <3>1. CASE Stores
      BY <1>10, <3>1, Stored DEF StoredCells
    <3>2. CASE ~Stores
      BY <1>2, <1>10, <3>2, NotStored
    <3>3. QED BY <3>1, <3>2
  <2>2. Inner
    BY <1>2, <2>1 DEF work
  <2>3. QED BY <1>1, <2>2 DEF TypesKept, Output
<1>11. QED BY <1>3, <1>4, <1>5, <1>6, <1>7, <1>8, <1>9, <1>10 DEF Next


LEMMA PhasesStep ==
  ASSUME TypesKept, PhasesKept, OutputGrows, PositionKept, Next
  PROVE  PhasesKept'
<1>1. arch' = arch /\ call' = call /\ Output' = Output /\ (INDEX_LZ' <=> INDEX_LZ)
  BY SameCall DEF Output, INDEX_LZ
<1>2. CASE CheckHeader \/ ReadSeed
  <2>1. UNCHANGED <<fout, ftemp, work, failed, result>>
    BY <1>2, FrontRead
  <2>2. /\ pc \in {"archive header", "seed"}
        /\ pc' \in {"hash", "exited"} \/ (pc' = "footer" /\ INDEX_LZ) \/ (pc' = "tempfile" /\ ~INDEX_LZ)
    BY <1>2 DEF CheckHeader, ReadSeed, Goto, Error
  <2>3. QED BY <1>1, <2>1, <2>2 DEF PhasesKept, Early, Writing, work
<1>3. CASE ChooseHash
  <2>1. UNCHANGED <<fout, ftemp, origsize, lz_matches, failed, result>> /\ pc = "hash" /\ pc' = "seed"
    BY <1>3 DEF ChooseHash, Goto, streams, history, ending
  <2>2. QED BY <1>1, <2>1 DEF PhasesKept, Early, Writing
<1>4. CASE ReadFooter
  <2>1. /\ UNCHANGED <<fout, ftemp, origsize, lz_matches, failed>> /\ pc = "footer"
        /\ \/ pc' = "exited" /\ result' = result
           \/ pc' = "returning"
           \/ pc' = (IF call.info THEN "index info" ELSE "tempfile") /\ result' = result
    BY <1>4 DEF ReadFooter, Goto, Error, Return, streams, work, history, ending
  <2>2. QED BY <1>1, <2>1 DEF PhasesKept, Early, Writing
<1>5. CASE IndexInfo
  <2>1. /\ UNCHANGED <<fout, ftemp, failed>> /\ pc = "index info"
        /\ \/ pc' = "exited" /\ result' = result
           \/ pc' = "returning"
           \/ pc' = "index info" /\ result' = result
    BY <1>5 DEF IndexInfo, Goto, Error, Return, streams, history, ending
  <2>2. QED BY <1>1, <2>1 DEF PhasesKept, Early, Writing
<1>6. CASE OpenTempfile
  <2>1. /\ UNCHANGED <<fout, origsize, lz_matches, failed, result>> /\ pc = "tempfile"
        /\ pc' \in {"block", "exited"}
    BY <1>6 DEF OpenTempfile, Goto, Error, work, history, ending
  <2>2. QED BY <1>1, <2>1 DEF PhasesKept, Early, Writing
<1>7. CASE Finish
  <2>1. /\ UNCHANGED <<fout, ftemp>> /\ pc = "block"
        /\ (pc' = "exited" /\ result' = result) \/ pc' = "returning"
    BY <1>7 DEF Finish, Error, Return, streams
  <2>2. QED BY <1>1, <2>1 DEF PhasesKept, Early, Writing
<1>8. CASE ReadBlock
  <2>1. /\ UNCHANGED <<fout, ftemp, result>> /\ pc = "block"
        /\ pc' = "exited" \/ (pc' = "block" /\ call.info) \/ (pc' = "decode" /\ ~call.info)
    BY <1>8, BlockRead
  <2>2. QED BY <1>1, <2>1 DEF PhasesKept, Early, Writing
<1>9. CASE ReadIndexAsBlock
  <2>1. /\ UNCHANGED <<fout, ftemp, result>> /\ pc = "block" /\ ~call.info /\ pc' \in {"exited", "decode"}
    BY <1>9, IndexRead
  <2>2. QED BY <1>1, <2>1 DEF PhasesKept, Early, Writing
<1>10. CASE Decode
  <2>1. UNCHANGED <<ftemp, result>> /\ pc = "decode" /\ pc' \in {"exited", "checksum"}
    BY <1>10, Decoded
  <2>2. QED BY <1>1, <2>1 DEF PhasesKept, Early, Writing
<1>11. CASE CheckBlock
  <2>1. UNCHANGED <<ftemp, result>> /\ pc = "checksum" /\ pc' \in {"exited", "write temp"}
    BY <1>11 DEF CheckBlock, Error, Goto, ending, streams
  <2>2. QED BY <1>1, <2>1 DEF PhasesKept, Early, Writing
<1>12. CASE WriteTemp \/ WriteOut
  <2>1. /\ UNCHANGED ftemp /\ pc \in {"write temp", "write out"}
        /\ \/ pc' \in {"exited", "written"} /\ result' = result
           \/ pc' = "write out" /\ result' = result /\ ftemp # Shared
           \/ Fails
    <3>1. CASE Stores
      BY <1>12, <3>1, Stored DEF Stores
    <3>2. CASE ~Stores
      BY <1>12, <3>2, NotStored
    <3>3. QED BY <3>1, <3>2
  <2>2. QED BY <1>1, <2>1 DEF PhasesKept, Early, Writing, Fails
<1>13. CASE Loop
  <2>1. /\ UNCHANGED <<ftemp>> /\ pc = "written"
        /\ (pc' = "block" /\ result' = result) \/ pc' = "returning"
    BY <1>13 DEF Loop, Return, Goto, ending, streams
  <2>2. QED BY <1>1, <2>1 DEF PhasesKept, Early, Writing
<1>14. CASE Destroy \/ CloseFiles
  <2>1. UNCHANGED <<fout, ftemp>> /\ pc \in {"returning", "returned"} /\ pc' \in {"returned", "exited"}
    BY <1>14 DEF Destroy, CloseFiles, Crash, streams
  <2>2. QED BY <1>1, <2>1 DEF PhasesKept, Early, Writing
<1>15. QED BY <1>2, <1>3, <1>4, <1>5, <1>6, <1>7, <1>8, <1>9, <1>10, <1>11, <1>12, <1>13, <1>14 DEF Next

LEMMA OutputStep ==
  ASSUME TypesKept, PhasesKept, OutputGrows, PositionKept, Next
  PROVE  OutputGrows'
<1>1. arch' = arch /\ call' = call
  BY SameCall
<1>2. SUFFICES ASSUME ~call.info
               PROVE  /\ Size(fout)' <= Turns'
                      /\ ~InPlace' => fout'.pos = Size(fout)'
                      /\ InPlace' /\ fout'.kind = "cursor" /\ pc' # "exited" => Size(fout)' = Turns'
                      /\ pc' \in {"checksum", "write temp", "write out", "written"} => origsize' >= 1
  BY <1>1 DEF OutputGrows
<1>3. /\ fout.pos \in Int /\ Size(fout) \in Nat /\ origsize \in Nat
      /\ Size(fout) <= Turns
      /\ ~InPlace => fout.pos = Size(fout)
      /\ InPlace /\ fout.kind = "cursor" /\ pc # "exited" => Size(fout) = Turns
      /\ pc \in {"checksum", "write temp", "write out", "written"} => origsize >= 1
  BY <1>2, LenProperties DEF OutputGrows, TypesKept, StreamsOf, Size
<1> DEFINE z == Size(fout)
<1> DEFINE t == Turns
<1> DEFINE k == origsize
<1>0. z \in Nat /\ t \in Int /\ k \in Nat /\ z <= t /\ t <= k /\ z <= k /\ k + 1 >= 1 /\ k - 1 <= k
  <2>1. z \in Nat /\ k \in Nat /\ z <= t
    BY <1>3
  <2>2. t = k \/ t = k - 1
    BY DEF Turns
  <2> HIDE DEF z, t, k
  <2>3. QED BY <2>1, <2>2
<1> HIDE DEF z, t, k
<1>4. ASSUME UNCHANGED <<fout, ftemp, origsize>>, pc # "exited",
             \/ pc \notin {"checksum", "write temp", "write out"} /\
                pc' \notin {"checksum", "write temp", "write out", "written"}
             \/ pc \in {"checksum", "write temp"} /\ pc' \in {"write temp", "write out"}
             \/ pc' = "exited"
      PROVE  /\ Size(fout)' <= Turns'
             /\ ~InPlace' => fout'.pos = Size(fout)'
             /\ InPlace' /\ fout'.kind = "cursor" /\ pc' # "exited" => Size(fout)' = Turns'
             /\ pc' \in {"checksum", "write temp", "write out", "written"} => origsize' >= 1
  <2>1. Size(fout)' = Size(fout) /\ (InPlace' <=> InPlace)
    BY <1>4 DEF Size, InPlace
  <2>2. Turns' = Turns \/ (Turns' = k /\ pc' = "exited")
    BY <1>4 DEF Turns, k
  <2>3. Size(fout) <= Turns' /\ (pc' # "exited" => Turns' = Turns)
    BY <1>0, <2>2 DEF z, t
  <2>4. pc' \in {"checksum", "write temp", "write out", "written"} => origsize' >= 1
    BY <1>3, <1>4
  <2>5. Size(fout)' <= Turns'
    BY <2>1, <2>3
  <2>6. ~InPlace' => fout'.pos = Size(fout)'
    BY <1>3, <1>4, <2>1
  <2>7. InPlace' /\ fout'.kind = "cursor" /\ pc' # "exited" => Size(fout)' = Turns'
    <3>1. SUFFICES ASSUME InPlace', fout'.kind = "cursor", pc' # "exited"
                   PROVE  Size(fout)' = Turns'
      OBVIOUS
    <3>2. Size(fout) = Turns
      BY <1>3, <1>4, <2>1, <3>1
    <3>3. QED BY <2>1, <2>3, <3>1, <3>2
  <2>8. QED BY <2>4, <2>5, <2>6, <2>7
<1>5. CASE CheckHeader \/ ReadSeed
  <2>1. UNCHANGED <<fout, ftemp, work>> /\ pc \in {"archive header", "seed"}
         /\ pc' \in {"hash", "footer", "tempfile", "exited"}
    BY <1>5, FrontRead DEF CheckHeader, ReadSeed, Goto, Error
  <2>2. QED BY <1>4, <2>1 DEF work
<1>6. CASE ChooseHash \/ ReadFooter \/ Finish \/ CheckBlock \/ Loop \/ Destroy \/ CloseFiles
  <2>1. Quiet
    BY <1>6, QuietSteps
  <2>2. \/ /\ pc \in {"hash", "footer", "block", "written", "returning", "returned"}
           /\ pc' \in {"seed", "index info", "tempfile", "block", "returning", "returned", "exited"}
        \/ pc = "checksum" /\ pc' \in {"write temp", "exited"}
    <3>1. CASE ChooseHash \/ ReadFooter \/ Finish
      BY <3>1 DEF ChooseHash, ReadFooter, Finish, Goto, Error, Return
    <3>2. CASE CheckBlock \/ Loop \/ Destroy \/ CloseFiles
      BY <3>2 DEF CheckBlock, Loop, Destroy, CloseFiles, Goto, Error, Return, Crash
    <3>3. QED BY <1>6, <3>1, <3>2
  <2>3. QED BY <1>4, <2>1, <2>2 DEF Quiet
<1>7. CASE IndexInfo
  BY <1>2, <1>7 DEF IndexInfo, PhasesKept
<1>8. CASE OpenTempfile
  <2>1. UNCHANGED <<fout, origsize>> /\ pc = "tempfile" /\ pc' \in {"block", "exited"}
    BY <1>8 DEF OpenTempfile, Goto, Error, work
  <2>2. fout = Output /\ origsize = 0
    BY <1>2, <2>1 DEF PhasesKept, Early
  <2>3. Size(fout) = 0 /\ fout.pos = 0
    BY <2>2, ArchIs, CallIs, OutputIs DEF TypesKept, Size
  <2>4. Size(fout)' = 0 /\ fout'.pos = 0 /\ Turns' = 0
    BY <2>1, <2>2, <2>3 DEF Size, Turns
  <2>5. pc' \notin {"checksum", "write temp", "write out", "written"}
    BY <2>1
  <2>6. Size(fout)' <= Turns'
    BY <2>4
  <2>7. QED BY <2>4, <2>5, <2>6
<1>9. CASE ReadBlock
  <2>1. UNCHANGED <<fout, ftemp, origsize>> /\ pc = "block" /\ pc' \in {"exited", "decode"}
    BY <1>2, <1>9, BlockRead
  <2>2. QED BY <1>4, <2>1
<1>10. CASE ReadIndexAsBlock
  <2>1. UNCHANGED <<fout, ftemp, origsize>> /\ pc = "block" /\ pc' \in {"exited", "decode"}
    BY <1>10, IndexRead
  <2>2. QED BY <1>4, <2>1
<1>11. CASE Decode
  <2>1. /\ UNCHANGED ftemp /\ pc = "decode" /\ fout'.kind = fout.kind
        /\ fout'.cells = fout.cells /\ (~InPlace => fout'.pos = fout.pos)
        /\ \/ pc' = "exited" /\ origsize' = origsize
           \/ pc' = "checksum" /\ origsize' = origsize + 1
    BY <1>11, Decoded
  <2>2. Turns' = Turns /\ Size(fout)' = Size(fout) /\ (InPlace' <=> InPlace)
    <3>1. Turns = origsize /\ (Turns' = origsize' \/ Turns' = origsize' - 1)
      BY <2>1 DEF Turns
    <3>2. (origsize + 1) - 1 = origsize
      BY <1>0 DEF k
    <3>3. Turns' = Turns
      BY <2>1, <3>1, <3>2 DEF Turns
    <3>4. QED BY <2>1, <3>3 DEF Size, InPlace
  <2>3. pc' \in {"checksum", "write temp", "write out", "written"} => origsize' >= 1
    BY <1>0, <2>1 DEF k
  <2>4. QED BY <1>3, <2>1, <2>2, <2>3
<1>12. CASE WriteTemp \/ WriteOut
  <2>1. CASE Stores
    <3>1. /\ UNCHANGED <<ftemp, work>>
          /\ \E n \in {0, 1} :
               /\ StoredCells(n)
               /\ n = 1 => pc' = "written"
               /\ n = 0 => Fails
      BY <1>12, <2>1, Stored
    <3>2. PICK n \in {0, 1} :
               /\ StoredCells(n)
               /\ n = 1 => pc' = "written"
               /\ n = 0 => Fails
      BY <3>1
    <3>3. pc' \in {"written", "block", "returning"}
      BY <3>2 DEF Fails
    <3>4. Turns = origsize - 1 /\ Turns' = origsize /\ origsize' = origsize
      BY <2>1, <3>1, <3>3 DEF Turns, Stores, work
    <3>5. InPlace' <=> InPlace
      BY <3>1, <3>2 DEF InPlace, StoredCells
    <3>6. /\ WritesAt.pos >= Size(fout) /\ WritesAt.pos <= origsize - 1
          /\ InPlace => WritesAt.pos = origsize - 1
          /\ ~InPlace => WritesAt = fout /\ fout.pos = Size(fout)
          /\ WritesAt.pos \in Int
      BY <2>1, PlaceIs DEF StreamsOf
    <3>7. origsize >= 1
      BY <1>3, <2>1 DEF Stores
    <3>8. CASE n = 1
      <4>1. fout'.pos = WritesAt.pos + 1 /\ Size(fout') = WritesAt.pos + 1
        BY <3>2, <3>8 DEF StoredCells
      <4>2. Size(fout)' = WritesAt.pos + 1
        BY <4>1 DEF Size
      <4>3. WritesAt.pos + 1 <= origsize /\ (InPlace => WritesAt.pos + 1 = origsize)
        <5> DEFINE x == WritesAt.pos
        <5>1. x \in Int /\ x <= k - 1 /\ (InPlace => x = k - 1)
          BY <3>6 DEF k
        <5> HIDE DEF x
        <5>2. x + 1 <= k /\ (InPlace => x + 1 = k)
          BY <1>0, <5>1
        <5>3. QED BY <5>2 DEF x, k
      <4>4. QED BY <3>4, <3>5, <3>7, <4>1, <4>2, <4>3
    <3>9. CASE n = 0
      <4>1. fout'.cells = fout.cells /\ (~InPlace => fout'.pos = fout.pos) /\ fout'.kind # "cursor"
        BY <3>2, <3>9 DEF StoredCells
      <4>2. Size(fout)' = Size(fout)
        BY <4>1 DEF Size
      <4>3. Size(fout) <= origsize
        BY <1>0 DEF z, k
      <4>4. QED BY <1>3, <3>4, <3>5, <3>7, <4>1, <4>2, <4>3
    <3>10. QED BY <3>2, <3>8, <3>9
  <2>2. CASE ~Stores
    <3>1. /\ UNCHANGED <<fout, ftemp, work>> /\ pc = "write temp" /\ ftemp # Shared
          /\ pc' \in {"write out", "exited", "block", "returning"}
      BY <1>12, <2>2, NotStored DEF Fails
    <3>2. CASE pc' \in {"write out", "exited"}
      BY <1>4, <3>1, <3>2 DEF work
    <3>3. CASE pc' \in {"block", "returning"}
      <4>1. Turns = origsize - 1 /\ Turns' = origsize
        BY <3>1, <3>3 DEF Turns, work
      <4>2. ~InPlace /\ ~InPlace' /\ Size(fout)' = Size(fout)
        BY <3>1 DEF InPlace, Size
      <4>3. Size(fout) <= origsize
        BY <1>0 DEF z, k
      <4>4. QED BY <1>3, <3>1, <3>3, <4>1, <4>2, <4>3
    <3>4. QED BY <3>1, <3>2, <3>3
  <2>3. QED BY <2>1, <2>2
<1>13. QED BY <1>5, <1>6, <1>7, <1>8, <1>9, <1>10, <1>11, <1>12 DEF Next


\* The first pieces are read before the blocks
LEMMA StartRead ==
  ASSUME TypesKept, PositionKept, CheckHeader \/ ReadSeed
  PROVE  \/ pc' = "exited"
         \/ pc' = "hash" /\ fin'.pos = 1 /\ 1 <= Size(fin)
         \/ pc' \in {"footer", "tempfile"} /\ fin'.pos = BlocksStart /\ BlocksStart <= Size(fin)
<1>1. fin \in StreamsOf(InputKinds, PieceSet) /\ Size(fin) \in Nat
  BY LenProperties DEF TypesKept, StreamsOf, Size
<1>2. fin.pos < Size(fin) => AfterRead(fin, 1).pos = fin.pos + 1
  BY <1>1, ReadNext
<1>3. CASE CheckHeader
  <2>1. fin.pos = 0 /\ fin' = AfterRead(fin, 1) /\ (pc' = "exited" \/ (pc' = "hash" /\ Next1("archive header")))
    BY <1>3 DEF CheckHeader, PositionKept, Places, Goto, Error
  <2>2. CASE pc' = "exited"
    BY <2>2
  <2>3. CASE pc' = "hash" /\ Next1("archive header")
    <3>1. fin.pos < Size(fin)
      BY <2>3 DEF Next1, IsNext
    <3>2. fin'.pos = 1 /\ 1 <= Size(fin)
      <4>1. AfterRead(fin, 1).pos = fin.pos + 1 /\ fin.pos = 0 /\ fin' = AfterRead(fin, 1)
        BY <1>2, <2>1, <3>1
      <4>2. 1 <= Size(fin)
        BY <1>1, <3>1, <4>1
      <4>3. QED BY <4>1, <4>2
    <3>3. QED BY <2>3, <3>2
  <2>4. QED BY <2>1, <2>2, <2>3
<1>4. CASE ReadSeed
  <2>1. fin.pos = 1 /\ 1 <= Size(fin) /\ pc = "seed"
    BY <1>4 DEF ReadSeed, PositionKept, Places
  <2>2. CASE arch.seed /\ ~Next1("seed")
    BY <1>4, <2>2 DEF ReadSeed, Error
  <2>3. CASE ~(arch.seed /\ ~Next1("seed"))
    <3>1. pc' \in {"footer", "tempfile"} /\ fin' = IF arch.seed THEN AfterRead(fin, 1) ELSE fin
      BY <1>4, <2>3 DEF ReadSeed, Goto
    <3>2. CASE arch.seed
      <4>1. fin.pos < Size(fin) /\ fin' = AfterRead(fin, 1) /\ BlocksStart = 2
        BY <2>3, <3>1, <3>2 DEF Next1, IsNext, BlocksStart
      <4>2. fin'.pos = 2 /\ 2 <= Size(fin)
        BY <1>1, <1>2, <2>1, <4>1
      <4>3. QED BY <3>1, <4>1, <4>2
    <3>3. CASE ~arch.seed
      BY <2>1, <3>1, <3>3 DEF BlocksStart
    <3>4. QED BY <3>2, <3>3
  <2>4. QED BY <2>2, <2>3
<1>5. QED BY <1>3, <1>4

\* The footer is the last piece of a whole archive
LEMMA FooterLast ==
  ASSUME TypesKept, PositionKept, Size(fin) >= 1, Last(fin.cells) = Zero("footer")
  PROVE  fin.cells = Pieces(arch)
<1>1. /\ Size(fin) \in 0 .. Len(Pieces(arch))
      /\ \A p \in 1 .. Size(fin) : fin.cells[p] = Pieces(arch)[p]
      /\ Size(fin) = Len(Pieces(arch)) => fin.cells = Pieces(arch)
  BY InputIs DEF TypesKept
<1>2. Len(Pieces(arch)) \in Nat
  BY PiecesAre, LenProperties DEF TypesKept
<1>3. Last(fin.cells) = fin.cells[Size(fin)] /\ Zero("footer").kind = "footer"
  BY DEF Last, Size, Zero, Piece
<1>4. Size(fin) \in 1 .. Size(fin) /\ Size(fin) \in 1 .. Len(Pieces(arch))
  BY <1>1, <1>2
<1>5. Pieces(arch)[Size(fin)].kind = "footer"
  BY <1>1, <1>3, <1>4
<1>6. Size(fin) = Len(Pieces(arch))
  BY <1>4, <1>5, PiecesAre DEF TypesKept
<1>7. QED BY <1>1, <1>6

LEMMA PositionStep ==
  ASSUME TypesKept, PhasesKept, OutputGrows, PositionKept, Next
  PROVE  PositionKept'
<1>1. arch' = arch /\ call' = call
  BY SameCall
<1>2. /\ Pieces(arch)' = Pieces(arch) /\ BlocksStart' = BlocksStart /\ (INDEX_LZ' <=> INDEX_LZ)
  BY <1>1 DEF Pieces, BlocksStart, INDEX_LZ, BlockPieces, ListOf
<1>3. Places /\ Whole
  BY DEF PositionKept, Places, Whole
<1>4. SUFFICES fin'.cells = fin.cells /\ Places' /\ Whole'
  BY <1>2 DEF PositionKept, Places, Whole
<1>5. ASSUME fin' = fin, origsize' = origsize
      PROVE  ReadUpTo(origsize)' <=> ReadUpTo(origsize)
  BY <1>1, <1>5 DEF ReadUpTo, Before, BlocksStart, Lists, HasList, INDEX_LZ, ListOf, Size
<1>6. CASE CheckHeader \/ ReadSeed
  <2>1. fin'.cells = fin.cells
    BY <1>6, FrontRead
  <2>2. Size(fin)' = Size(fin)
    BY <2>1 DEF Size
  <2>3. /\ \/ pc' = "exited"
           \/ pc' = "hash" /\ fin'.pos = 1 /\ 1 <= Size(fin)
           \/ pc' \in {"footer", "tempfile"} /\ fin'.pos = BlocksStart /\ BlocksStart <= Size(fin)
        /\ pc' = "tempfile" => ~INDEX_LZ
    BY <1>6, StartRead DEF CheckHeader, ReadSeed, Goto, Error
  <2>4. QED BY <1>2, <2>1, <2>2, <2>3 DEF Places, Whole, Writing
<1>7. CASE ChooseHash
  <2>1. fin' = fin /\ pc = "hash" /\ pc' = "seed"
    BY <1>7 DEF ChooseHash, Goto, streams
  <2>2. QED BY <1>3, <2>1 DEF Places, Whole, Writing, Size
<1>8. CASE ReadFooter
  <2>1. /\ fin' = fin /\ pc = "footer"
        /\ \/ pc' \in {"exited", "returning", "index info"}
           \/ pc' = "tempfile" /\ Last(fin.cells) = Zero("footer")
    BY <1>8 DEF ReadFooter, Goto, Error, Return, streams
  <2>2. Size(fin) >= 1
    <3>1. BlocksStart <= Size(fin) /\ BlocksStart \in {1, 2} /\ Size(fin) \in Nat
      BY <1>3, <2>1, LenProperties DEF Places, BlocksStart, TypesKept, StreamsOf, Size
    <3>2. QED BY <3>1
  <2>3. pc' = "tempfile" => fin.cells = Pieces(arch)
    BY <2>1, <2>2, FooterLast
  <2>4. QED BY <1>2, <1>3, <2>1, <2>3 DEF Places, Whole, Writing, Size
<1>9. CASE OpenTempfile
  <2>1. fin' = fin /\ origsize' = origsize /\ pc = "tempfile" /\ pc' \in {"block", "exited"}
    BY <1>9 DEF OpenTempfile, Goto, Error, work
  <2>2. ASSUME ~call.info PROVE ReadUpTo(origsize)
    <3>1. origsize = 0 /\ fin.pos = BlocksStart /\ BlocksStart <= Size(fin)
      BY <1>3, <2>1, <2>2 DEF PhasesKept, Early, Places
    <3>2. arch.blocks \in Nat /\ Before(0) = BlocksStart
      BY ArchIs, BeforeFirst DEF TypesKept
    <3>3. ~(0 > arch.blocks) /\ 0 <= arch.blocks
      BY <3>2
    <3>4. QED BY <3>1, <3>2, <3>3 DEF ReadUpTo
  <2>3. QED BY <1>1, <1>2, <1>3, <1>5, <2>1, <2>2 DEF Places, Whole, Writing
<1>10. CASE IndexInfo
  <2>1. fin' = fin /\ call.info /\ pc' \in {"index info", "returning", "exited"}
    BY <1>10 DEF IndexInfo, Goto, Error, Return, streams, PhasesKept
  <2>2. QED BY <1>1, <2>1 DEF Places, Whole
<1>11. CASE Finish
  <2>1. fin' = fin /\ pc' \in {"returning", "exited"}
    BY <1>11 DEF Finish, Error, Return, streams
  <2>2. QED BY <2>1 DEF Places, Whole, Writing
<1>12. CASE ReadBlock
  <2>1. /\ fin'.cells = fin.cells /\ pc = "block"
        /\ pc' = "exited" \/ (pc' = "block" /\ call.info) \/ (pc' = "decode" /\ ~call.info)
        /\ ~call.info => /\ origsize' = origsize
                         /\ pc' = "decode" => ReadUpTo(origsize + 1)'
    BY <1>12, BlockRead
  <2>2. Places'
    BY <1>1, <2>1 DEF Places
  <2>3. Whole'
    BY <1>1, <1>2, <1>3, <2>1 DEF Whole
  <2>4. QED BY <2>1, <2>2, <2>3
<1>13. CASE ReadIndexAsBlock
  <2>1. /\ fin'.cells = fin.cells /\ pc = "block" /\ origsize' = origsize
        /\ pc' = "exited" \/ (pc' = "decode" /\ ReadUpTo(origsize + 1)')
    BY <1>13, IndexRead
  <2>2. Places'
    BY <1>1, <2>1 DEF Places
  <2>3. Whole'
    BY <1>1, <1>2, <1>3, <2>1 DEF Whole, Writing
  <2>4. QED BY <2>1, <2>2, <2>3
<1>14. CASE Decode
  <2>1. /\ fin' = fin /\ pc = "decode"
        /\ pc' = "exited" \/ (pc' = "checksum" /\ origsize' = origsize + 1)
    BY <1>14, Decoded
  <2>2. ASSUME ReadUpTo(origsize + 1), origsize' = origsize + 1
        PROVE  ReadUpTo(origsize)'
    BY <1>1, <2>1, <2>2 DEF ReadUpTo, Before, BlocksStart, Lists, HasList, INDEX_LZ, ListOf, Size
  <2>3. Places'
    BY <1>1, <1>3, <2>1, <2>2 DEF Places
  <2>4. Whole'
    BY <1>1, <1>2, <1>3, <2>1 DEF Whole, Writing
  <2>5. QED BY <2>1, <2>3, <2>4
<1>15. CASE CheckBlock \/ WriteTemp \/ WriteOut \/ Loop
  <2>1. /\ fin' = fin /\ origsize' = origsize
        /\ pc \in {"checksum", "write temp", "write out", "written"}
        /\ pc' \in {"write temp", "write out", "written", "block", "returning", "exited"}
    <3>1. CASE CheckBlock \/ Loop
      <4>1. Quiet
        BY <3>1, QuietSteps
      <4>2. QED BY <3>1, <4>1 DEF Quiet, CheckBlock, Loop, Goto, Error, Return
    <3>2. CASE (WriteTemp \/ WriteOut) /\ Stores
      BY <3>2, Stored DEF Stores, Fails, work
    <3>3. CASE (WriteTemp \/ WriteOut) /\ ~Stores
      BY <3>3, NotStored DEF Fails, work
    <3>4. QED BY <1>15, <3>1, <3>2, <3>3
  <2>2. Places'
    BY <1>1, <1>3, <1>5, <2>1 DEF Places
  <2>3. Whole'
    BY <1>1, <1>2, <1>3, <2>1 DEF Whole, Writing
  <2>4. QED BY <2>1, <2>2, <2>3
<1>16. CASE Destroy \/ CloseFiles
  <2>1. fin' = fin /\ pc' \in {"returned", "exited"}
    BY <1>16 DEF Destroy, CloseFiles, Crash, streams
  <2>2. QED BY <2>1 DEF Places, Whole, Writing
<1>17. QED BY <1>6, <1>7, <1>8, <1>9, <1>10, <1>11, <1>12, <1>13, <1>14, <1>15, <1>16 DEF Next


\* Each step has one place in the program, and before the blocks the output is empty
LEMMA EarlySteps ==
  ASSUME TypesKept, PhasesKept, Next, pc \in Early, ~call.info
  PROVE  /\ origsize' = 0 /\ failed' = {} /\ fout' = fout /\ fout = Output
         /\ pc' \notin Writing /\ result # "origsize" /\ result' # "origsize"
<1>1. fout = Output /\ origsize = 0 /\ failed = {} /\ result = None /\ pc # "index info"
  BY DEF PhasesKept, Early
<1>2. CASE CheckHeader \/ ReadSeed
  <2>1. UNCHANGED <<fout, work, failed, result>> /\ pc' \in {"hash", "footer", "tempfile", "exited"}
    BY <1>2, FrontRead DEF CheckHeader, ReadSeed, Goto, Error
  <2>2. QED BY <1>1, <2>1 DEF work, Writing, None
<1>3. CASE ChooseHash \/ ReadFooter
  <2>1. /\ UNCHANGED <<fout, origsize, failed>> /\ result' \in {result, "ERROR_IO"}
        /\ pc' \in {"seed", "index info", "tempfile", "exited", "returning"}
    BY <1>3 DEF ChooseHash, ReadFooter, Goto, Error, Return, streams, work, history, ending
  <2>2. QED BY <1>1, <2>1 DEF Writing, None
<1>4. CASE OpenTempfile
  <2>1. UNCHANGED <<fout, work, failed, result>> /\ pc' \in {"block", "exited"}
    BY <1>4 DEF OpenTempfile, Goto, Error, ending, history
  <2>2. QED BY <1>1, <2>1 DEF work, Writing, None
<1>5. CheckHeader \/ ReadSeed \/ ChooseHash \/ ReadFooter \/ OpenTempfile
  <2>1. pc \notin {"block", "decode", "checksum", "write temp", "write out", "written", "returning",
                   "returned", "index info"}
    BY <1>1 DEF Early
  <2>2. ~(IndexInfo \/ Finish \/ ReadBlock \/ ReadIndexAsBlock \/ Decode \/ CheckBlock)
    BY <2>1 DEF IndexInfo, Finish, ReadBlock, ReadIndexAsBlock, Decode, CheckBlock
  <2>3. ~(WriteTemp \/ WriteOut \/ Loop \/ Destroy \/ CloseFiles)
    BY <2>1 DEF WriteTemp, WriteOut, Loop, Destroy, CloseFiles
  <2>4. QED BY <2>2, <2>3 DEF Next
<1>6. QED BY <1>2, <1>3, <1>4, <1>5

LEMMA EarlyBlocks ==
  ASSUME TypesKept, PhasesKept, Next, pc \in Early, ~call.info
  PROVE  LastRight' /\ OutputRight'
<1>1. /\ origsize' = 0 /\ failed' = {} /\ fout' = Output /\ pc' \notin Writing
      /\ Output.cells = <<>> /\ arch.blocks \in Nat /\ arch' = arch
  BY EarlySteps, ArchIs, CallIs, OutputIs, SameCall DEF TypesKept
<1>2. Written' = {} /\ InOutput' = {}
  BY <1>1 DEF Written, InOutput
<1>3. Turns' = 0
  BY <1>1 DEF Turns, Writing
<1>4. 1 .. 0 = {}
  OBVIOUS
<1>5. OutputRight'
  BY <1>1, <1>2, <1>3, <1>4 DEF OutputRight
<1>6. LastRight'
  <2>1. 0 <= arch.blocks
    BY <1>1
  <2>2. QED BY <1>1, <2>1 DEF LastRight, Writing
<1>7. QED BY <1>5, <1>6

\* The output is right as long as the same cells are there
LEMMA SameOutput ==
  ASSUME OutputRight, fout'.cells = fout.cells, fout'.kind = fout.kind, UNCHANGED <<arch, ftemp, failed>>,
         pc # "exited", Turns \in Nat, Turns' \in Nat,
         Turns' = Turns \/ (Turns <= Turns' /\ pc' = "exited" /\ result' = None)
  PROVE  OutputRight'
<1>1. Written' = Written /\ InOutput' = InOutput /\ (InPlace' <=> InPlace) /\ Blocks' = Blocks
  BY DEF Written, InOutput, InPlace, Blocks
<1>2. \A p \in Written : fout.cells[p] \in Blocks /\ fout.cells[p] <= Turns
  BY DEF OutputRight
<1>3. Blocks \subseteq Int
  BY DEF Blocks
<1>4. \A p \in Written : fout.cells[p] <= Turns'
  <2>1. \A x \in Int : x <= Turns => x <= Turns'
    OBVIOUS
  <2>2. QED BY <1>2, <1>3, <2>1
<1>5. 1 .. Turns \subseteq 1 .. Turns'
  OBVIOUS
<1>6. failed' \subseteq 1 .. Turns'
  BY <1>5 DEF OutputRight
<1>7. pc' # "exited" \/ result' # None => InOutput \cup failed = 1 .. Turns'
  BY DEF OutputRight
<1>8. QED BY <1>1, <1>2, <1>4, <1>6, <1>7 DEF OutputRight


\* One more block in the output, behind the others
LEMMA BlockAdded ==
  ASSUME TypesKept, PhasesKept, OutputGrows, PositionKept, LastRight, OutputRight, Stores,
         StoredCells(1), ~call.info, UNCHANGED <<arch, ftemp, origsize, failed>>, pc' = "written"
  PROVE  OutputRight'
<1> DEFINE x == WritesAt.pos + 1
<1> DEFINE z == Size(fout)
<1> DEFINE b == origsize
<1>1. /\ fout'.kind = fout.kind /\ Len(fout'.cells) = x /\ fout'.cells[x] = out
      /\ \A p \in 1 .. z : fout'.cells[p] = fout.cells[p]
      /\ \A p \in z + 1 .. x - 1 : fout'.cells[p] = Hole
      /\ fout' \in StreamsOf(OutputKinds, Int)
  <2>1. WritesAt.pos \in Int
    BY PlaceIs DEF StreamsOf
  <2>2. x - 1 = WritesAt.pos
    BY <2>1
  <2> HIDE DEF x, z
  <2>3. /\ fout'.kind = fout.kind /\ Len(fout'.cells) = WritesAt.pos + 1
        /\ fout'.cells[WritesAt.pos + 1] = out
        /\ \A p \in 1 .. Size(fout) : fout'.cells[p] = fout.cells[p]
        /\ \A p \in Size(fout) + 1 .. WritesAt.pos : fout'.cells[p] = Hole
        /\ fout' \in StreamsOf(OutputKinds, Int)
    BY DEF StoredCells, Size
  <2>4. QED BY <2>2, <2>3 DEF x, z
<1>2. z \in Nat /\ x \in Nat /\ z < x /\ b \in Nat /\ b >= 1 /\ x <= b
  <2>1. z \in Nat
    BY LenProperties DEF TypesKept, StreamsOf, Size
  <2>2. WritesAt.pos \in Int /\ WritesAt.pos >= z /\ WritesAt.pos <= b - 1
    BY PlaceIs DEF StreamsOf
  <2>3. b \in Nat
    BY DEF TypesKept
  <2> DEFINE y == WritesAt.pos
  <2> HIDE DEF y, z, b
  <2>4. z \in Nat /\ y \in Int /\ y >= z /\ y <= b - 1 /\ b \in Nat
    BY <2>1, <2>2, <2>3 DEF y
  <2>5. z \in Nat /\ y + 1 \in Nat /\ z < y + 1 /\ b \in Nat /\ b >= 1 /\ y + 1 <= b
    BY <2>4
  <2>6. QED BY <2>5 DEF y
<1>3. InPlace => x = b
  <2>1. WritesAt.pos \in Int /\ (InPlace => WritesAt.pos = b - 1) /\ b \in Nat
    BY <1>2, PlaceIs DEF StreamsOf
  <2>2. QED BY <2>1
<1>4. out = b /\ b \in Blocks /\ Turns = b - 1 /\ Turns' = b
  <2>1. out = b /\ b <= arch.blocks
    BY DEF LastRight, Stores
  <2>2. Turns = b - 1 /\ Turns' = b
    BY DEF Turns, Stores
  <2>3. arch.blocks \in Nat
    BY ArchIs DEF TypesKept
  <2>4. b \in Blocks
    BY <1>2, <2>1, <2>3 DEF Blocks
  <2>5. QED BY <2>1, <2>2, <2>4
<1>5. /\ \A p \in Written : p \in 1 .. z /\ fout.cells[p] \in Blocks /\ fout.cells[p] <= b - 1
      /\ Blocks \subseteq Int
  <2>1. DOMAIN fout.cells = 1 .. z
    BY LenProperties DEF TypesKept, StreamsOf, Size
  <2>2. QED BY <1>4, <2>1 DEF OutputRight, Written, Blocks
<1>6. DOMAIN fout'.cells = 1 .. x
  BY <1>1, LenProperties DEF StreamsOf
<1> HIDE DEF x, z, b
<1>7. Written' = Written \cup {x}
  <2>1. \A p \in 1 .. x : p \in 1 .. z \/ p \in z + 1 .. x - 1 \/ p = x
    BY <1>2
  <2>2. \A p \in 1 .. z : p \in 1 .. x
    BY <1>2
  <2>3. x \in 1 .. x /\ fout'.cells[x] # Hole
    BY <1>1, <1>2, <1>4 DEF Hole
  <2>4. DOMAIN fout.cells = 1 .. z
    BY LenProperties DEF TypesKept, StreamsOf, Size, z
  <2>5. Written' = {p \in 1 .. x : fout'.cells[p] # Hole}
    BY <1>6 DEF Written
  <2>6. Written = {p \in 1 .. z : fout.cells[p] # Hole}
    BY <2>4 DEF Written
  <2>7. \A p \in 1 .. x : fout'.cells[p] # Hole <=> (p = x \/ (p \in 1 .. z /\ fout.cells[p] # Hole))
    BY <1>1, <2>1, <2>3
  <2>8. QED BY <2>2, <2>3, <2>5, <2>6, <2>7
<1>8. \A p \in Written : p < x /\ fout'.cells[p] = fout.cells[p] /\ fout.cells[p] < b /\ fout.cells[p] \in Int
  <2>1. \A p \in 1 .. z : p < x
    BY <1>2
  <2>2. \A y \in Int : y <= b - 1 => y < b
    BY <1>2
  <2>3. \A p \in Written : p \in 1 .. z /\ fout.cells[p] \in Int /\ fout.cells[p] <= b - 1
    BY <1>5
  <2>4. QED BY <1>1, <2>1, <2>2, <2>3
<1>9. Blocks' = Blocks /\ (InPlace' <=> InPlace)
  BY <1>1 DEF Blocks, InPlace
<1>10. \A p \in Written' : fout'.cells[p] \in Blocks' /\ fout'.cells[p] <= Turns'
  <2>1. b <= b
    BY <1>2
  <2>2. \A p \in Written : fout'.cells[p] <= b
    BY <1>2, <1>8
  <2>3. QED BY <1>1, <1>4, <1>5, <1>7, <1>8, <1>9, <2>1, <2>2
<1>11. \A p, q \in Written' : p < q => fout'.cells[p] < fout'.cells[q]
  <2>1. SUFFICES ASSUME NEW p \in Written', NEW q \in Written', p < q
                 PROVE  fout'.cells[p] < fout'.cells[q]
    OBVIOUS
  <2>2. CASE p \in Written /\ q \in Written
    BY <1>8, <2>1, <2>2 DEF OutputRight
  <2>3. CASE p \in Written /\ q = x
    BY <1>1, <1>4, <1>8, <2>3
  <2>4. CASE p = x /\ q \in Written
    <3>1. q < x /\ x < q /\ q \in Int
      BY <1>5, <1>8, <2>1, <2>4
    <3>2. QED BY <1>2, <3>1
  <2>5. CASE p = x /\ q = x
    BY <1>2, <2>1, <2>5
  <2>6. QED BY <1>7, <2>2, <2>3, <2>4, <2>5
<1>12. InPlace' => \A p \in Written' : fout'.cells[p] = p
  BY <1>1, <1>3, <1>4, <1>7, <1>8, <1>9 DEF OutputRight
<1>13. 1 .. b = (1 .. b - 1) \cup {b}
  BY <1>2
<1>14. failed' \subseteq 1 .. Turns'
  BY <1>4, <1>13 DEF OutputRight
<1>15. InOutput' = InOutput \cup {b}
  <2>1. InOutput' = {fout'.cells[p] : p \in Written'}
    BY DEF InOutput
  <2>2. {fout'.cells[p] : p \in Written} = {fout.cells[p] : p \in Written}
    BY <1>8
  <2>3. QED BY <1>1, <1>4, <1>7, <2>1, <2>2 DEF InOutput
<1>16. InOutput' \cup failed' = 1 .. Turns'
  <2>1. InOutput \cup failed = 1 .. Turns
    BY DEF OutputRight, Stores
  <2>2. QED BY <1>4, <1>13, <1>15, <2>1
<1>17. QED BY <1>10, <1>11, <1>12, <1>14, <1>16 DEF OutputRight

\* A block that could not be written is among the failed ones
LEMMA BlockFailed ==
  ASSUME OutputRight, fout'.cells = fout.cells, fout'.kind = fout.kind, UNCHANGED <<arch, ftemp>>,
         pc # "exited", NEW b \in Nat, b >= 1, Turns = b - 1, Turns' = b, failed' = failed \cup {b}
  PROVE  OutputRight'
<1>1. Written' = Written /\ InOutput' = InOutput /\ (InPlace' <=> InPlace) /\ Blocks' = Blocks
  BY DEF Written, InOutput, InPlace, Blocks
<1>2. \A p \in Written : fout.cells[p] \in Blocks /\ fout.cells[p] <= b - 1
  BY DEF OutputRight
<1>3. \A p \in Written : fout.cells[p] <= b
  <2>1. \A y \in Blocks : y \in Int
    BY DEF Blocks
  <2>2. \A y \in Int : y <= b - 1 => y <= b
    OBVIOUS
  <2>3. QED BY <1>2, <2>1, <2>2
<1>4. 1 .. b = (1 .. b - 1) \cup {b}
  OBVIOUS
<1>5. failed' \subseteq 1 .. Turns' /\ InOutput \cup failed' = 1 .. Turns'
  BY <1>4 DEF OutputRight
<1>6. QED BY <1>1, <1>2, <1>3, <1>5 DEF OutputRight


LEMMA BlocksStep ==
  ASSUME TypesKept, PhasesKept, OutputGrows, PositionKept, BlocksRight, Next
  PROVE  BlocksRight'
<1>1. arch' = arch /\ call' = call
  BY SameCall
<1>2. SUFFICES ASSUME Checks' PROVE LastRight' /\ OutputRight'
  BY DEF BlocksRight
<1>3. ~call.info /\ selected_hash'
  BY <1>1, <1>2 DEF Checks
<1>4. CASE pc \in Early
  BY <1>3, <1>4, EarlyBlocks
<1>5. ASSUME pc \notin Early PROVE selected_hash' = selected_hash
  <2>1. ~(CheckHeader \/ ChooseHash \/ ReadSeed \/ ReadFooter \/ IndexInfo \/ OpenTempfile)
    BY <1>5 DEF CheckHeader, ChooseHash, ReadSeed, ReadFooter, IndexInfo, OpenTempfile, Early
  <2>2. CASE Finish \/ CheckBlock \/ Loop \/ Destroy \/ CloseFiles
    BY <2>2 DEF Finish, CheckBlock, Loop, Destroy, CloseFiles, work
  <2>3. CASE ReadBlock
    BY <2>3, BlockRead
  <2>4. CASE ReadIndexAsBlock
    BY <2>4, IndexRead
  <2>5. CASE Decode
    BY <2>5, Decoded
  <2>6. CASE WriteTemp \/ WriteOut
    BY <2>6, Stored, NotStored DEF work
  <2>7. QED BY <2>1, <2>2, <2>3, <2>4, <2>5, <2>6 DEF Next
<1>6. ASSUME pc \notin Early PROVE LastRight /\ OutputRight
  BY <1>3, <1>5, <1>6 DEF BlocksRight, Checks
<1>7. /\ Blocks' = Blocks /\ arch.blocks \in Nat /\ origsize \in Nat
      /\ origsize >= 1 => origsize - 1 \in Nat
  <2>1. \A k \in Nat : k >= 1 => k - 1 \in Nat
    OBVIOUS
  <2>2. QED BY <1>1, <2>1, ArchIs DEF Blocks, TypesKept
<1>8. ASSUME pc \in {"block", "decode", "checksum", "write temp", "write out", "written"}
      PROVE  Turns \in Nat /\ pc \notin Early
  <2>1. pc \notin Early
    BY <1>8 DEF Early
  <2>2. pc \in {"checksum", "write temp", "write out"} => origsize >= 1
    BY <1>3 DEF OutputGrows
  <2>3. Turns \in Nat
    <3>1. CASE pc \in {"checksum", "write temp", "write out"}
      BY <1>7, <2>2, <3>1 DEF Turns
    <3>2. CASE pc \notin {"checksum", "write temp", "write out"}
      BY <1>7, <3>2 DEF Turns
    <3>3. QED BY <3>1, <3>2
  <2>4. QED BY <2>1, <2>3
<1>9. CASE Finish \/ ReadBlock \/ ReadIndexAsBlock \/ Loop
  <2>1. /\ UNCHANGED <<fout, ftemp, failed, origsize, out>> /\ pc \in {"block", "written"}
        /\ pc' \in {"block", "returning", "decode", "exited"}
    <3>1. CASE Finish \/ Loop
      BY <3>1, QuietSteps DEF Quiet, Finish, Loop, Goto, Error, Return
    <3>2. CASE ReadBlock
      BY <1>3, <3>2, BlockRead
    <3>3. CASE ReadIndexAsBlock
      BY <3>3, IndexRead
    <3>4. QED BY <1>9, <3>1, <3>2, <3>3
  <2>2. Turns' = Turns
    BY <2>1 DEF Turns
  <2>3. OutputRight'
    BY <1>1, <1>6, <1>8, <2>1, <2>2, SameOutput
  <2>4. LastRight'
    BY <1>1, <1>6, <1>8, <2>1 DEF LastRight
  <2>5. QED BY <2>3, <2>4
<1>10. CASE Decode
  <2>1. /\ UNCHANGED <<ftemp, failed>> /\ pc = "decode"
        /\ fout'.kind = fout.kind /\ fout'.cells = fout.cells
        /\ \/ pc' = "exited" /\ origsize' = origsize
           \/ /\ pc' = "checksum" /\ origsize' = origsize + 1
              /\ out' = Bad \/ (out' = origsize + 1 /\ origsize + 1 \in Blocks)
    BY <1>10, Decoded
  <2>2. Turns' = Turns
    <3>1. (origsize + 1) - 1 = origsize
      BY <1>7
    <3>2. QED BY <2>1, <3>1 DEF Turns
  <2>3. OutputRight'
    BY <1>1, <1>6, <1>8, <2>1, <2>2, SameOutput
  <2>4. LastRight'
    BY <1>7, <2>1 DEF LastRight
  <2>5. QED BY <2>3, <2>4
<1>11. CASE CheckBlock
  <2>1. Quiet /\ out' = out /\ pc = "checksum"
    BY <1>11, QuietSteps DEF CheckBlock
  <2>2. \/ pc' = "exited" /\ result' = result
        \/ pc' = "write temp" /\ out # Bad
    BY <1>3, <1>5, <1>11 DEF CheckBlock, Error, Goto, Early
  <2>3. result = None
    BY <2>1 DEF PhasesKept
  <2>4. Turns \in Nat /\ LastRight /\ OutputRight
    BY <1>6, <1>8, <2>1
  <2>5. Turns' = Turns \/ (Turns' = origsize /\ Turns = origsize - 1 /\ pc' = "exited")
    BY <2>1, <2>2 DEF Turns, Quiet
  <2>6. origsize - 1 <= origsize
    BY <1>7
  <2>7. Turns' \in Nat /\ (Turns' = Turns \/ (Turns <= Turns' /\ pc' = "exited"))
    BY <1>7, <2>4, <2>5, <2>6
  <2>8. OutputRight'
    BY <1>1, <2>1, <2>2, <2>3, <2>4, <2>7, SameOutput DEF Quiet
  <2>9. LastRight'
    <3>1. CASE pc' = "exited"
      BY <3>1 DEF LastRight
    <3>2. CASE pc' = "write temp" /\ out # Bad
      <4>1. out = origsize /\ origsize \in Blocks
        BY <2>1, <2>4, <3>2 DEF LastRight
      <4>2. origsize <= arch.blocks
        BY <1>7, <4>1 DEF Blocks
      <4>3. QED BY <1>1, <2>1, <3>2, <4>1, <4>2 DEF LastRight, Quiet
    <3>3. QED BY <2>2, <3>1, <3>2
  <2>10. QED BY <2>8, <2>9
<1>12. CASE (WriteTemp \/ WriteOut) /\ Stores
  <2>1. UNCHANGED <<ftemp, origsize>> /\ pc \in {"write temp", "write out"}
    BY <1>12, Stored DEF Stores, work
  <2>2. LastRight /\ OutputRight /\ Turns = origsize - 1 /\ origsize >= 1
    <3>1. pc \notin Early
      BY <2>1 DEF Early
    <3>2. Turns = origsize - 1 /\ origsize >= 1
      BY <1>3, <2>1 DEF Turns, OutputGrows
    <3>3. QED BY <1>6, <3>1, <3>2
  <2>3. PICK n \in {0, 1} :
          /\ StoredCells(n)
          /\ n = 1 => pc' = "written" /\ result' = result /\ failed' = failed
          /\ n = 0 => Fails /\ failed' = failed \cup {origsize}
    BY <1>12, Stored
  <2>4. pc' \in {"written", "block", "returning"}
    BY <2>3 DEF Fails
  <2>5. LastRight'
    BY <1>1, <2>1, <2>2, <2>4 DEF LastRight
  <2>6. OutputRight'
    <3>1. CASE n = 1
      BY <1>1, <1>3, <1>12, <2>1, <2>2, <2>3, <3>1, BlockAdded
    <3>2. CASE n = 0
      <4>1. fout'.cells = fout.cells /\ fout'.kind = fout.kind
        BY <2>3, <3>2 DEF StoredCells
      <4>2. Turns' = origsize /\ pc # "exited"
        BY <2>1, <2>4 DEF Turns
      <4>3. QED BY <1>1, <1>7, <2>1, <2>2, <2>3, <3>2, <4>1, <4>2, BlockFailed
    <3>3. QED BY <2>3, <3>1, <3>2
  <2>7. QED BY <2>5, <2>6
<1>13. CASE (WriteTemp \/ WriteOut) /\ ~Stores
  <2>1. /\ UNCHANGED <<fout, ftemp, origsize, out>> /\ pc = "write temp"
        /\ \/ pc' = "write out" /\ failed' = failed
           \/ pc' = "exited" /\ result' = result /\ failed' = failed
           \/ pc' \in {"block", "returning"} /\ failed' = failed \cup {origsize}
    BY <1>13, NotStored DEF Fails, work
  <2>2. LastRight /\ OutputRight /\ Turns = origsize - 1 /\ origsize >= 1 /\ Turns \in Nat /\ result = None
    <3>1. pc \notin Early /\ Turns \in Nat
      BY <1>8, <2>1
    <3>2. Turns = origsize - 1 /\ origsize >= 1
      BY <1>3, <2>1 DEF Turns, OutputGrows
    <3>3. QED BY <1>6, <2>1, <3>1, <3>2 DEF PhasesKept
  <2>3. LastRight'
    BY <1>1, <2>1, <2>2 DEF LastRight
  <2>4. OutputRight'
    <3>1. CASE pc' = "write out" /\ failed' = failed
      <4>1. Turns' = Turns
        BY <2>1, <3>1 DEF Turns
      <4>2. QED BY <1>1, <2>1, <2>2, <3>1, <4>1, SameOutput
    <3>2. CASE pc' = "exited" /\ result' = result /\ failed' = failed
      <4>1. Turns' = origsize
        BY <2>1, <3>2 DEF Turns
      <4>2. Turns <= Turns' /\ Turns' \in Nat
        BY <1>7, <2>2, <4>1
      <4>3. QED BY <1>1, <2>1, <2>2, <3>2, <4>2, SameOutput
    <3>3. CASE pc' \in {"block", "returning"} /\ failed' = failed \cup {origsize}
      <4>1. Turns' = origsize
        BY <2>1, <3>3 DEF Turns
      <4>2. QED BY <1>1, <1>7, <2>1, <2>2, <3>3, <4>1, BlockFailed
    <3>4. QED BY <2>1, <3>1, <3>2, <3>3
  <2>5. QED BY <2>3, <2>4
<1>14. CASE Destroy \/ CloseFiles
  <2>1. Quiet /\ pc \in {"returning", "returned"} /\ pc' \in {"returned", "exited"}
    BY <1>14, QuietSteps DEF Destroy, CloseFiles, Crash
  <2>2. LastRight /\ OutputRight
    BY <1>6, <2>1 DEF Early
  <2>3. Turns' = Turns /\ Turns \in Nat
    BY <1>7, <2>1 DEF Turns, Quiet
  <2>4. OutputRight'
    BY <1>1, <2>1, <2>2, <2>3, SameOutput DEF Quiet
  <2>5. LastRight'
    BY <1>1, <2>1, <2>2 DEF LastRight, Quiet
  <2>6. QED BY <2>4, <2>5
<1>15. ASSUME pc \notin Early
       PROVE  ~(CheckHeader \/ ChooseHash \/ ReadSeed \/ ReadFooter \/ IndexInfo \/ OpenTempfile)
  BY <1>15 DEF CheckHeader, ChooseHash, ReadSeed, ReadFooter, IndexInfo, OpenTempfile, Early
<1>16. QED BY <1>4, <1>9, <1>10, <1>11, <1>12, <1>13, <1>14, <1>15 DEF Next


\* The matches that wait in Future-LZ
LEMMA WaitStep ==
  ASSUME TypesKept, PhasesKept, OutputGrows, PositionKept, MatchesWait, Next
  PROVE  MatchesWait'
<1>1. arch' = arch /\ call' = call
  BY SameCall
<1>2. SUFFICES ASSUME ~IO_LZ, ~INDEX_LZ, ~call.info
               PROVE  lz_matches' = {m \in arch.matches : m.src <= origsize' /\ m.dest > origsize'}
  BY <1>1 DEF MatchesWait, IO_LZ, INDEX_LZ
<1>3. /\ lz_matches = {m \in arch.matches : m.src <= origsize /\ m.dest > origsize}
      /\ origsize \in Nat
  BY <1>2 DEF MatchesWait, TypesKept
<1>4. CASE CheckHeader \/ ReadSeed \/ OpenTempfile
  <2>1. UNCHANGED work
    BY <1>4, FrontRead DEF OpenTempfile
  <2>2. QED BY <1>3, <2>1 DEF work
<1>5. CASE ChooseHash \/ ReadFooter \/ Finish \/ CheckBlock \/ Loop \/ Destroy \/ CloseFiles
  BY <1>3, <1>5, QuietSteps DEF Quiet
<1>6. CASE IndexInfo
  BY <1>2, <1>6 DEF IndexInfo, PhasesKept
<1>7. CASE ReadBlock
  BY <1>2, <1>3, <1>7, BlockRead
<1>8. CASE ReadIndexAsBlock
  BY <1>3, <1>8, IndexRead
<1>9. CASE Decode
  <2>1. \/ UNCHANGED <<origsize, lz_matches>>
        \/ origsize' = origsize + 1 /\ lz_matches' = WaitingNext(origsize + 1)
    BY <1>9, Decoded
  <2>2. WaitingNext(origsize + 1) =
          {m \in arch.matches : m.src <= origsize + 1 /\ m.dest > origsize + 1}
    <3> DEFINE b == origsize + 1
    <3>1. ListUsed(b) = {m \in arch.matches : m.src = b}
      BY <1>2 DEF ListUsed, ListOf, IO_LZ
    <3>2. \A m \in arch.matches : m.src \in Nat /\ m.dest \in Nat
      BY ArchIs DEF TypesKept
    <3>3. \A x, y \in Nat : (x <= b /\ y > b) <=> ((x <= origsize /\ y > origsize /\ y > b) \/ (x = b /\ y > b))
      BY <1>3
    <3>4. WaitingNext(b) = {m \in lz_matches : m.dest > b} \cup {m \in ListUsed(b) : m.dest > b}
      BY <1>2 DEF WaitingNext
    <3> HIDE DEF b
    <3>5. QED BY <1>3, <3>1, <3>2, <3>3, <3>4 DEF b
  <2>3. QED BY <1>3, <2>1, <2>2
<1>10. CASE WriteTemp \/ WriteOut
  BY <1>3, <1>10, Stored, NotStored DEF work
<1>11. QED BY <1>4, <1>5, <1>6, <1>7, <1>8, <1>9, <1>10 DEF Next

\* An end behind fewer blocks than the archive has is a cut
LEMMA EndIs ==
  ASSUME TypesKept, PhasesKept, PositionKept, BlocksRight, MatchesWait, Checks, pc = "block",
         AtEnd \/ ZeroWords, lz_matches = {}
  PROVE  \/ origsize = arch.blocks
         \/ /\ origsize < arch.blocks /\ fin.cells # Pieces(arch)
            /\ IO_LZ \/ \A m \in arch.matches : m.src <= origsize => m.dest <= origsize
<1>1. ~call.info /\ ReadUpTo(origsize) /\ origsize <= arch.blocks
  BY DEF Checks, PositionKept, Places, BlocksRight, LastRight
<1>2. arch.blocks \in Nat /\ origsize \in Nat /\ fin.pos \in Int /\ Size(fin) \in Nat
  BY ArchIs, LenProperties DEF TypesKept, StreamsOf, Size
<1>3. SUFFICES ASSUME origsize < arch.blocks
               PROVE  /\ fin.cells # Pieces(arch)
                      /\ IO_LZ \/ \A m \in arch.matches : m.src <= origsize => m.dest <= origsize
  BY <1>1, <1>2
<1>4. AtEnd
  <2>1. SUFFICES ASSUME ~AtEnd, ZeroWords PROVE FALSE
    OBVIOUS
  <2>2. fin.pos < Size(fin)
    BY <1>2, <2>1 DEF AtEnd
  <2>3. Next1("sizes") \/ Next1("footer")
    BY <2>1 DEF ZeroWords
  <2>4. fin.cells[fin.pos + 1].kind = "header"
    BY <1>1, <1>3, <2>2, AtHeader
  <2>5. QED BY <2>3, <2>4 DEF Next1, IsNext
<1>5. fin.cells # Pieces(arch)
  <2>1. origsize \in 0 .. arch.blocks - 1
    BY <1>2, <1>3
  <2>2. Before(origsize) + 1 \in 1 .. Len(Pieces(arch)) /\ Len(Pieces(arch)) \in Nat
    BY <2>1, PiecesAre, LenProperties DEF TypesKept
  <2>3. fin.pos = Before(origsize) /\ Before(origsize) \in Nat
    BY <1>1, <1>2, BeforeNext DEF ReadUpTo
  <2>4. fin.pos >= Size(fin)
    BY <1>4 DEF AtEnd
  <2>5. Size(fin) # Len(Pieces(arch))
    BY <1>2, <2>2, <2>3, <2>4
  <2>6. QED BY <2>5 DEF Size
<1>6. ~INDEX_LZ
  BY <1>1, <1>5 DEF PositionKept, Whole
<1>7. IO_LZ \/ \A m \in arch.matches : m.src <= origsize => m.dest <= origsize
  <2>1. SUFFICES ASSUME ~IO_LZ, NEW m \in arch.matches, m.src <= origsize
                 PROVE  m.dest <= origsize
    OBVIOUS
  <2>2. {n \in arch.matches : n.src <= origsize /\ n.dest > origsize} = {}
    BY <1>1, <1>6, <2>1 DEF MatchesWait
  <2>3. ~(m.dest > origsize) /\ m.dest \in Nat
    BY <2>1, <2>2, ArchIs DEF TypesKept
  <2>4. QED BY <1>2, <2>3
<1>8. QED BY <1>5, <1>7

LEMMA CutStep ==
  ASSUME TypesKept, PhasesKept, OutputGrows, PositionKept, BlocksRight, MatchesWait, CutBetween, Next
  PROVE  CutBetween'
<1> DEFINE cut ==
      \/ origsize = arch.blocks
      \/ /\ origsize < arch.blocks /\ fin.cells # Pieces(arch)
         /\ IO_LZ \/ \A m \in arch.matches : m.src <= origsize => m.dest <= origsize
<1>1. arch' = arch /\ call' = call
  BY SameCall
<1>2. ASSUME UNCHANGED <<fin, origsize, selected_hash>>
      PROVE  (cut' <=> cut) /\ (Checks' <=> Checks)
  BY <1>1, <1>2 DEF IO_LZ, Pieces, BlockPieces, ListOf, Checks
<1>3. SUFFICES ASSUME Checks', result' = "origsize" PROVE cut'
  BY DEF CutBetween
<1>4. ~call.info
  BY <1>1, <1>3 DEF Checks
<1>5. CASE pc \in Early
  BY <1>3, <1>4, <1>5, EarlySteps
<1>6. CASE Finish
  <2>1. /\ UNCHANGED <<fin, origsize, selected_hash>> /\ pc = "block" /\ (AtEnd \/ ZeroWords)
        /\ result # "origsize" /\ (lz_matches # {} => result' = result)
    BY <1>6 DEF Finish, Error, streams, work, PhasesKept, None
  <2>2. Checks /\ lz_matches = {}
    BY <1>2, <1>3, <2>1
  <2>3. cut
    BY <2>1, <2>2, EndIs
  <2>4. QED BY <1>2, <2>1, <2>3
<1>7. CASE ReadBlock
  BY <1>3, <1>7, BlockRead DEF PhasesKept, None
<1>8. CASE ReadIndexAsBlock
  BY <1>3, <1>8, IndexRead DEF PhasesKept, None
<1>9. CASE Decode
  BY <1>3, <1>9, Decoded DEF PhasesKept, None
<1>10. CASE CheckBlock
  BY <1>3, <1>10 DEF CheckBlock, Error, Goto, ending, PhasesKept, None
<1>11. CASE WriteTemp \/ WriteOut \/ Loop
  <2>1. /\ UNCHANGED <<fin, origsize, selected_hash>>
        /\ pc \in {"write temp", "write out", "written"}
        /\ result' = result \/ arch.blocks = 1
    <3>1. CASE Loop
      BY <3>1 DEF Loop, Return, Goto, ending, streams, work
    <3>2. CASE (WriteTemp \/ WriteOut) /\ Stores
      BY <3>2, Stored DEF Stores, Fails, work
    <3>3. CASE (WriteTemp \/ WriteOut) /\ ~Stores
      BY <3>3, NotStored DEF Stores, Fails, work
    <3>4. QED BY <1>11, <3>1, <3>2, <3>3
  <2>2. arch.blocks = 1
    BY <1>3, <2>1 DEF PhasesKept, None
  <2>3. Checks
    BY <1>2, <1>3, <2>1
  <2>4. origsize <= arch.blocks /\ origsize >= 1 /\ origsize \in Nat
    BY <1>4, <2>1, <2>3 DEF BlocksRight, LastRight, OutputGrows, TypesKept
  <2>5. origsize = arch.blocks
    BY <2>2, <2>4
  <2>6. QED BY <1>2, <2>1, <2>5
<1>12. CASE Destroy \/ CloseFiles
  <2>1. UNCHANGED <<fin, origsize, selected_hash, result>>
    BY <1>12 DEF Destroy, CloseFiles, Crash, ending, streams, work
  <2>2. cut
    BY <1>2, <1>3, <2>1 DEF CutBetween
  <2>3. QED BY <1>2, <2>1, <2>2
<1>13. ASSUME pc \notin Early
       PROVE  ~(CheckHeader \/ ChooseHash \/ ReadSeed \/ ReadFooter \/ IndexInfo \/ OpenTempfile)
  BY <1>13 DEF CheckHeader, ChooseHash, ReadSeed, ReadFooter, IndexInfo, OpenTempfile, Early
<1>14. QED BY <1>5, <1>6, <1>7, <1>8, <1>9, <1>10, <1>11, <1>12, <1>13 DEF Next


-----------------------------------------------------------------------------
(* Memory for decompression.                                               *)

LenOf == [m \in arch.matches |-> m.len]

LEMMA NeedMemIs ==
  ASSUME arch \in Archives, NEW ms, ms \subseteq arch.matches
  PROVE  NeedMem(ms) = SumFunctionOnSet(LenOf, ms) /\ NeedMem(ms) \in Int /\ IsFiniteSet(ms)
<1> DEFINE f == [m \in ms |-> m.len]
<1> DEFINE g == LenOf
<1>1. IsFiniteSet(ms)
  BY ArchIs, FS_Subset
<1>2. \A m \in ms : f[m] = g[m] /\ g[m] \in Int
  BY ArchIs DEF LenOf
<1>3. NeedMem(ms) = SumFunctionOnSet(f, ms)
  BY DEF NeedMem
<1> HIDE DEF f, g
<1>4. SumFunctionOnSet(f, ms) = SumFunctionOnSet(g, ms)
  BY <1>1, <1>2, SumSame
<1>5. SumFunctionOnSet(g, ms) \in Int
  BY <1>1, <1>2, SumType
<1>6. QED BY <1>1, <1>3, <1>4, <1>5 DEF g

LEMMA NeedMemUnion ==
  ASSUME arch \in Archives, NEW s, NEW t, s \subseteq arch.matches, t \subseteq arch.matches, s \cap t = {}
  PROVE  NeedMem(s \cup t) = NeedMem(s) + NeedMem(t)
<1>1. IsFiniteSet(s) /\ IsFiniteSet(t) /\ s \cup t \subseteq arch.matches
  BY NeedMemIs
<1>2. \A m \in s \cup t : LenOf[m] \in Int
  BY ArchIs DEF LenOf
<1>3. SumFunctionOnSet(LenOf, s \cup t) = SumFunctionOnSet(LenOf, s) + SumFunctionOnSet(LenOf, t)
  BY <1>1, <1>2, SumUnion
<1>4. QED BY <1>1, <1>3, NeedMemIs

\* Counting a block gives what waits behind it
LEMMA Counted ==
  ASSUME TypesKept, MemoryCounted, call.info, ~IO_LZ, CountBlock(origsize + 1),
         UNCHANGED <<arch, call>>
  PROVE  MemoryCounted'
<1> DEFINE b == origsize + 1
<1> DEFINE over == {m \in lz_matches : m.dest <= b}
<1> DEFINE new == Waiting(b)
<1> DEFINE old == lz_matches
<1>1. /\ lz_matches = WaitAfter(origsize) /\ ram = NeedMem(lz_matches)
      /\ max_ram \in {NeedMem(WaitAfter(k)) : k \in 0 .. origsize}
      /\ \A k \in 0 .. origsize : NeedMem(WaitAfter(k)) <= max_ram
  BY DEF MemoryCounted
<1>2. /\ arch.matches \subseteq [src : Nat, dest : Nat, len : Nat] /\ arch \in Archives
      /\ call.maximum_save \in Nat /\ origsize \in Nat /\ b \in Nat
  BY ArchIs, CallIs DEF TypesKept
<1> DEFINE now == ram - NeedMem(over) + NeedMem(new)
<1>3. /\ lz_matches' = (lz_matches \ over) \cup new /\ ram' = now
      /\ max_ram' = Max({now, max_ram}) /\ origsize' = b
  BY DEF CountBlock
<1>4. over \subseteq arch.matches /\ new \subseteq arch.matches /\ old \subseteq arch.matches
  BY <1>1 DEF WaitAfter, Waiting
<1>5. old \ over \subseteq arch.matches /\ (old \ over) \cap over = {}
      /\ old = (old \ over) \cup over
  BY <1>4
<1>6. (old \ over) \cap new = {}
  <2>1. \A m \in old : m.src <= origsize /\ m.src \in Nat
    BY <1>1, <1>2, <1>4 DEF WaitAfter
  <2>2. \A m \in new : m.src = b
    BY DEF Waiting
  <2>3. ~(b <= origsize)
    BY <1>2
  <2> HIDE DEF b, new, old
  <2>4. QED BY <2>1, <2>2, <2>3
<1>7. (old \ over) \cup new = WaitAfter(b)
  <2>1. \A m \in arch.matches : m.src \in Nat /\ m.dest \in Nat
    BY <1>2
  <2>2. \A x, y \in Nat : (x <= b /\ b < y) <=> ((x <= origsize /\ origsize < y /\ ~(y <= b)) \/ (x = b /\ y > b))
    BY <1>2
  <2>3. new = {m \in arch.matches : m.src = b /\ m.dest > b /\ m.len < call.maximum_save}
    BY DEF Waiting
  <2>4. old = {m \in arch.matches : m.src <= origsize /\ origsize < m.dest /\ m.len < call.maximum_save}
    BY <1>1 DEF WaitAfter
  <2>5. old \ over = {m \in old : ~(m.dest <= b)}
    OBVIOUS
  <2> HIDE DEF b, new, old, over
  <2>6. QED BY <2>1, <2>2, <2>3, <2>4, <2>5 DEF WaitAfter
<1> HIDE DEF over, new, old
<1>8. NeedMem(old) = NeedMem(old \ over) + NeedMem(over)
  BY <1>2, <1>4, <1>5, NeedMemUnion
<1>9. NeedMem((old \ over) \cup new) = NeedMem(old \ over) + NeedMem(new)
  BY <1>2, <1>4, <1>5, <1>6, NeedMemUnion
<1>10. NeedMem(old \ over) \in Int /\ NeedMem(over) \in Int /\ NeedMem(new) \in Int
  BY <1>2, <1>4, <1>5, NeedMemIs
<1>11. now = NeedMem(WaitAfter(b)) /\ now \in Int
  <2>1. ram = NeedMem(old)
    BY <1>1 DEF old
  <2>2. NeedMem(WaitAfter(b)) = NeedMem(old \ over) + NeedMem(new)
    BY <1>7, <1>9
  <2> HIDE DEF b
  <2>3. QED BY <1>8, <1>10, <2>1, <2>2
<1>12. max_ram \in Int
  <2>1. PICK k \in 0 .. origsize : max_ram = NeedMem(WaitAfter(k))
    BY <1>1
  <2>2. WaitAfter(k) \subseteq arch.matches
    BY DEF WaitAfter
  <2>3. QED BY <1>2, <2>1, <2>2, NeedMemIs
<1> HIDE DEF now
<1>13. Max({now, max_ram}) = IF now >= max_ram THEN now ELSE max_ram
  BY <1>11, <1>12, Max2
<1>14. \A k : NeedMem(WaitAfter(k))' = NeedMem(WaitAfter(k))
  BY DEF NeedMem, WaitAfter
<1>15. \A k \in 0 .. b : k \in 0 .. origsize \/ k = b
  BY <1>2
<1>16. \A k \in 0 .. origsize : k \in 0 .. b
  BY <1>2
<1>17. b \in 0 .. b
  BY <1>2
<1> HIDE DEF b
<1>18. max_ram' \in {NeedMem(WaitAfter(k)) : k \in 0 .. b}
  BY <1>1, <1>3, <1>11, <1>13, <1>16, <1>17
<1>19. \A k \in 0 .. b : NeedMem(WaitAfter(k)) <= max_ram'
  <2>1. SUFFICES ASSUME NEW k \in 0 .. b PROVE NeedMem(WaitAfter(k)) <= max_ram'
    OBVIOUS
  <2>2. NeedMem(WaitAfter(k)) \in Int
    <3>1. WaitAfter(k) \subseteq arch.matches
      BY DEF WaitAfter
    <3>2. QED BY <1>2, <3>1, NeedMemIs
  <2>3. NeedMem(WaitAfter(k)) <= max_ram \/ NeedMem(WaitAfter(k)) <= now
    BY <1>1, <1>11, <1>15, <2>2
  <2>4. QED BY <1>3, <1>11, <1>12, <1>13, <2>2, <2>3
<1>20. lz_matches' = WaitAfter(origsize)' /\ ram' = NeedMem(lz_matches)'
  <2>1. lz_matches' = WaitAfter(b)
    BY <1>3, <1>7 DEF old
  <2>2. WaitAfter(origsize)' = WaitAfter(b)
    BY <1>3 DEF WaitAfter
  <2>3. ram' = NeedMem(WaitAfter(b))
    BY <1>3, <1>11
  <2>4. NeedMem(lz_matches)' = NeedMem(lz_matches')
    BY DEF NeedMem
  <2>5. QED BY <2>1, <2>2, <2>3, <2>4
<1>21. /\ max_ram' \in {NeedMem(WaitAfter(k)) : k \in 0 .. origsize}'
       /\ (\A k \in 0 .. origsize : NeedMem(WaitAfter(k)) <= max_ram)'
  BY <1>3, <1>14, <1>18, <1>19
<1>22. QED BY <1>20, <1>21 DEF MemoryCounted


LEMMA CountStep ==
  ASSUME TypesKept, PhasesKept, OutputGrows, PositionKept, MemoryCounted, Next
  PROVE  MemoryCounted'
<1>1. arch' = arch /\ call' = call
  BY SameCall
<1>2. ASSUME UNCHANGED <<origsize, lz_matches, ram, max_ram>> PROVE MemoryCounted'
  BY <1>1, <1>2 DEF MemoryCounted, NeedMem, WaitAfter, IO_LZ
<1>3. SUFFICES ASSUME call.info, ~IO_LZ PROVE MemoryCounted'
  BY <1>1 DEF MemoryCounted, IO_LZ
<1>4. CASE CheckHeader \/ ReadSeed \/ OpenTempfile
  <2>1. UNCHANGED work
    BY <1>4, FrontRead DEF OpenTempfile
  <2>2. QED BY <1>2, <2>1 DEF work
<1>5. CASE ChooseHash \/ ReadFooter \/ Finish \/ CheckBlock \/ Loop \/ Destroy \/ CloseFiles
  BY <1>2, <1>5, QuietSteps DEF Quiet
<1>6. CASE IndexInfo
  <2>1. CountBlock(origsize + 1) \/ UNCHANGED <<origsize, lz_matches, ram, max_ram>>
    BY <1>6 DEF IndexInfo
  <2>2. QED BY <1>1, <1>2, <1>3, <2>1, Counted
<1>7. CASE ReadBlock
  <2>1. CountBlock(origsize + 1) \/ UNCHANGED <<origsize, lz_matches, ram, max_ram>>
    BY <1>3, <1>7, BlockRead
  <2>2. QED BY <1>1, <1>2, <1>3, <2>1, Counted
<1>8. CASE ReadIndexAsBlock
  BY <1>3, <1>8, IndexRead
<1>9. CASE Decode \/ WriteTemp \/ WriteOut
  BY <1>3, <1>9 DEF Decode, WriteTemp, WriteOut, PhasesKept, Writing
<1>10. QED BY <1>4, <1>5, <1>6, <1>7, <1>8, <1>9 DEF Next

LEMMA Start ==
  ASSUME Init
  PROVE  IInv
<1>1. /\ arch \in Archives /\ call \in Calls /\ fout = Output /\ ftemp = Shared
      /\ pc = "archive header" /\ selected_hash = FALSE /\ origsize = 0 /\ lz_matches = {}
      /\ out = Hole /\ ram = 0 /\ max_ram = 0 /\ result = None /\ failed = {}
  BY DEF Init
<1>2. PICK n \in 0 .. Len(Pieces(arch)), kind \in Inputs :
        fin = Stream(kind, SubSeq(Pieces(arch), 1, n))
  BY DEF Init
<1>3. /\ Output.cells = <<>> /\ Output.pos = 0 /\ Output \in StreamsOf(OutputKinds, Int)
      /\ arch.blocks \in Nat
  BY <1>1, ArchIs, CallIs, OutputIs
<1>4. fin \in StreamsOf(InputKinds, PieceSet) /\ fin.pos = 0 /\ fin.cells = SubSeq(Pieces(arch), 1, n)
  <2> DEFINE c == SubSeq(Pieces(arch), 1, n)
  <2>1. Pieces(arch) \in Seq(PieceSet)
    BY <1>1, PiecesAre
  <2>2. c \in Seq(PieceSet)
    <3> DEFINE all == Pieces(arch)
    <3>1. all \in Seq(PieceSet) /\ n \in 0 .. Len(all)
      BY <1>2, <2>1
    <3> HIDE DEF all
    <3>2. \A p \in 1 .. n : p \in 1 .. Len(all)
      BY <3>1, LenProperties
    <3>3. SubSeq(all, 1, n) \in Seq(PieceSet)
      BY <3>1, <3>2, LenProperties, SubSeqProperties
    <3>4. QED BY <3>3 DEF all
  <2>3. Len(c) \in Int
    BY <2>2, LenProperties
  <2>4. kind \in InputKinds
    BY <1>1, <1>2, CallIs DEF Inputs, InputKinds, Entries
  <2> HIDE DEF c
  <2>5. fin = [kind |-> kind, cells |-> c, pos |-> 0, capacity |-> Len(c), owned |-> FALSE]
    BY <1>2 DEF Stream, c
  <2>6. fin \in StreamsOf(InputKinds, PieceSet) /\ fin.pos = 0 /\ fin.cells = c
    BY <2>2, <2>3, <2>4, <2>5 DEF StreamsOf
  <2>7. QED BY <2>6 DEF c
<1>5. TypesKept
  <2>1. fout \in StreamsOf(OutputKinds, Int) /\ fout.kind = Output.kind /\ fout.capacity = Output.capacity
    BY <1>1, <1>3
  <2>2. out \in Int /\ origsize \in Nat /\ selected_hash \in BOOLEAN /\ ftemp \in {Shared, Closed}
    <3>1. out \in Int /\ origsize \in Nat
      <4>1. out = 0 /\ origsize = 0
        BY <1>1 DEF Hole
      <4>2. QED BY <4>1
    <3>2. selected_hash \in BOOLEAN
      BY <1>1
    <3>3. ftemp \in {Shared, Closed}
      BY <1>1
    <3>4. QED BY <3>1, <3>2, <3>3
  <2>3. lz_matches \subseteq [src : Nat, dest : Nat, len : Nat]
    BY <1>1
  <2>4. QED BY <1>1, <1>4, <2>1, <2>2, <2>3 DEF TypesKept
<1>6. PhasesKept
  BY <1>1 DEF PhasesKept, Early, Writing
<1>7. OutputGrows
  <2>1. Size(fout) = 0 /\ fout.pos = 0
    BY <1>1, <1>3 DEF Size
  <2>2. Turns = 0
    BY <1>1 DEF Turns
  <2>3. pc \notin {"checksum", "write temp", "write out", "written"}
    BY <1>1
  <2>4. Size(fout) <= Turns
    BY <2>1, <2>2
  <2>5. QED BY <2>1, <2>2, <2>3, <2>4 DEF OutputGrows
<1>8. PositionKept
  BY <1>1, <1>2, <1>4 DEF PositionKept, Places, Whole, Writing
<1>9. BlocksRight /\ CutBetween
  BY <1>1 DEF BlocksRight, CutBetween, Checks, None
<1>10. \A m \in arch.matches : ~(m.src <= 0)
  <2>1. \A m \in arch.matches : m.src \in Nat /\ 1 <= m.src
    BY <1>1, ArchIs
  <2>2. QED BY <2>1
<1>11. MatchesWait
  BY <1>1, <1>10 DEF MatchesWait
<1>12. MemoryCounted
  <2>1. WaitAfter(0) = {}
    BY <1>10 DEF WaitAfter
  <2>2. NeedMem({}) = 0
    BY SumEmpty DEF NeedMem
  <2>3. \A k \in 0 .. 0 : k = 0
    OBVIOUS
  <2>4. 0 \in 0 .. 0 /\ 0 <= 0
    OBVIOUS
  <2>5. QED BY <1>1, <2>1, <2>2, <2>3, <2>4 DEF MemoryCounted
<1>13. QED BY <1>5, <1>6, <1>7, <1>8, <1>9, <1>11, <1>12 DEF IInv

LEMMA Stutter ==
  ASSUME IInv, UNCHANGED vars
  PROVE  IInv'
<1>1. /\ UNCHANGED <<arch, call, fin, fout, ftemp, pc, selected_hash, origsize, lz_matches, out>>
      /\ UNCHANGED <<ram, max_ram, result, failed>>
  BY DEF vars, streams, work, ending, history
<1>2. TypesKept' /\ PhasesKept' /\ OutputGrows'
  BY <1>1 DEF IInv, TypesKept, PhasesKept, OutputGrows, Output, INDEX_LZ, InPlace, Turns, Size
<1>3. PositionKept'
  <2>1. /\ Pieces(arch)' = Pieces(arch) /\ BlocksStart' = BlocksStart /\ (INDEX_LZ' <=> INDEX_LZ)
        /\ Size(fin)' = Size(fin)
    BY <1>1 DEF Pieces, BlocksStart, INDEX_LZ, BlockPieces, ListOf, Size
  <2>2. /\ ReadUpTo(origsize)' <=> ReadUpTo(origsize)
        /\ ReadUpTo(origsize + 1)' <=> ReadUpTo(origsize + 1)
    BY <1>1 DEF ReadUpTo, Before, BlocksStart, Lists, HasList, INDEX_LZ, ListOf, Size
  <2>3. Places' /\ Whole'
    BY <1>1, <2>1, <2>2 DEF IInv, PositionKept, Places, Whole
  <2>4. QED BY <1>1, <2>1, <2>3 DEF IInv, PositionKept
<1>4. BlocksRight' /\ CutBetween'
  BY <1>1 DEF IInv, BlocksRight, CutBetween, Checks, LastRight, OutputRight, InOutput, Written, Turns,
              InPlace, Blocks, IO_LZ, Pieces, BlockPieces, ListOf
<1>5. MatchesWait' /\ MemoryCounted'
  BY <1>1 DEF IInv, MatchesWait, MemoryCounted, NeedMem, WaitAfter, IO_LZ, INDEX_LZ
<1>6. QED BY <1>2, <1>3, <1>4, <1>5 DEF IInv

-----------------------------------------------------------------------------
(* The theorems.                                                           *)

\* The invariant holds before the header is read, and every step of the driver keeps it.
THEOREM Inductive == Spec => []IInv
<1>1. Init => IInv
  BY Start
<1>2. IInv /\ [Next]_vars => IInv'
  <2>1. SUFFICES ASSUME IInv, [Next]_vars PROVE IInv'
    OBVIOUS
  <2>2. CASE Next
    <3>1. TypesKept'
      BY <2>1, <2>2, TypesStep DEF IInv
    <3>2. PhasesKept' /\ OutputGrows' /\ PositionKept'
      BY <2>1, <2>2, PhasesStep, OutputStep, PositionStep DEF IInv
    <3>3. BlocksRight'
      BY <2>1, <2>2, BlocksStep DEF IInv
    <3>4. MatchesWait' /\ CutBetween' /\ MemoryCounted'
      BY <2>1, <2>2, WaitStep, CutStep, CountStep DEF IInv
    <3>5. QED BY <3>1, <3>2, <3>3, <3>4 DEF IInv
  <2>3. CASE UNCHANGED vars
    BY <2>1, <2>3, Stutter
  <2>4. QED BY <2>1, <2>2, <2>3
<1>3. QED BY <1>1, <1>2, PTL DEF Spec

\* With checksums only right blocks reach the output, in their order and, in a file
\* that can be sought and is used alone, each at its place; for every archive, cut
\* anywhere, with writes that fail and a tempfile that lost its FILE.
THEOREM DataChecked == Spec => []OnlyCheckedData
<1>1. IInv => OnlyCheckedData
  <2>1. SUFFICES ASSUME IInv, selected_hash
                 PROVE  /\ \A p \in Written : fout.cells[p] \in Blocks
                        /\ \A p, q \in Written : p < q => fout.cells[p] < fout.cells[q]
                        /\ ftemp = Shared /\ fout.kind # "pipe" => \A p \in Written : fout.cells[p] = p
    BY DEF OnlyCheckedData
  <2>2. CASE call.info
    <3>1. fout.cells = <<>>
      BY <2>1, <2>2, ArchIs, CallIs, OutputIs DEF IInv, TypesKept, PhasesKept
    <3>2. Written = {}
      BY <3>1 DEF Written
    <3>3. QED BY <3>2
  <2>3. CASE ~call.info
    <3>1. OutputRight
      BY <2>1, <2>3 DEF IInv, BlocksRight, Checks
    <3>2. QED BY <3>1 DEF OutputRight, InPlace
  <2>4. QED BY <2>2, <2>3
<1>2. QED BY <1>1, Inductive, PTL

\* A size that is returned says that these blocks were written or their write failed,
\* and that nothing else was in the archive or it was cut where no match waits.
THEOREM SizeRight == Spec => []SizeMeansBlocks
<1>1. IInv => SizeMeansBlocks
  <2>1. SUFFICES ASSUME IInv, result = "origsize", selected_hash, ~call.info
                 PROVE  /\ InOutput \cup failed = 1 .. origsize
                        /\ \/ origsize = arch.blocks
                           \/ /\ origsize < arch.blocks /\ fin.cells # Pieces(arch)
                              /\ IO_LZ \/ \A m \in arch.matches : m.src <= origsize => m.dest <= origsize
    BY DEF SizeMeansBlocks, InOutput
  <2>2. Checks
    BY <2>1 DEF Checks
  <2>3. InOutput \cup failed = 1 .. Turns
    BY <2>1, <2>2 DEF IInv, BlocksRight, OutputRight, None
  <2>4. Turns = origsize
    BY <2>1 DEF IInv, PhasesKept, None, Turns
  <2>5. QED BY <2>1, <2>2, <2>3, <2>4 DEF IInv, CutBetween
<1>2. QED BY <1>1, Inductive, PTL

\* The memory that -i reports is that of the matches waiting at the worst block end.
THEOREM InfoRight == Spec => []InfoExact
<1>1. IInv => InfoExact
  <2>1. SUFFICES ASSUME IInv, call.info, ~IO_LZ
                 PROVE  max_ram = Max({NeedMem(WaitAfter(k)) : k \in 0 .. origsize})
    BY DEF InfoExact, WaitAfter
  <2> DEFINE S == {NeedMem(WaitAfter(k)) : k \in 0 .. origsize}
  <2>2. max_ram \in S /\ \A x \in S : x <= max_ram
    BY <2>1 DEF IInv, MemoryCounted
  <2>3. \A x \in S : x \in Int
    <3>1. SUFFICES ASSUME NEW k \in 0 .. origsize PROVE NeedMem(WaitAfter(k)) \in Int
      OBVIOUS
    <3>2. WaitAfter(k) \subseteq arch.matches
      BY DEF WaitAfter
    <3>3. QED BY <2>1, <3>2, NeedMemIs DEF IInv, TypesKept
  <2> HIDE DEF S
  <2>4. \A y \in S : max_ram >= y
    BY <2>2, <2>3
  <2>5. Max(S) \in S /\ \A y \in S : Max(S) >= y
    BY <2>2, <2>4 DEF Max
  <2>6. QED BY <2>2, <2>3, <2>5 DEF S
<1>2. QED BY <1>1, Inductive, PTL

\* No step writes over a block that is in the output.
THEOREM NothingOverwritten == Spec => NeverOverwritten
<1> DEFINE kept == \A p \in Written : p \in DOMAIN fout'.cells /\ fout'.cells[p] = fout.cells[p]
<1>1. IInv /\ Next => kept
  <2>1. SUFFICES ASSUME IInv, Next PROVE kept
    OBVIOUS
  <2>2. TypesKept /\ PhasesKept /\ OutputGrows /\ PositionKept
    BY <2>1 DEF IInv
  <2>3. ASSUME fout'.cells = fout.cells PROVE kept
    BY <2>3 DEF Written
  <2>4. CASE CheckHeader \/ ReadSeed
    BY <2>2, <2>3, <2>4, FrontRead
  <2>5. CASE ChooseHash \/ ReadFooter \/ Finish \/ CheckBlock \/ Loop \/ Destroy \/ CloseFiles
    BY <2>3, <2>5, QuietSteps DEF Quiet
  <2>6. CASE IndexInfo \/ OpenTempfile
    BY <2>3, <2>6 DEF IndexInfo, OpenTempfile, streams
  <2>7. CASE ReadBlock \/ ReadIndexAsBlock
    BY <2>2, <2>3, <2>7, BlockRead, IndexRead
  <2>8. CASE Decode
    BY <2>2, <2>3, <2>8, Decoded
  <2>9. CASE (WriteTemp \/ WriteOut) /\ ~Stores
    BY <2>3, <2>9, NotStored
  <2>10. CASE (WriteTemp \/ WriteOut) /\ Stores
    <3>1. PICK n \in {0, 1} : StoredCells(n)
      BY <2>2, <2>10, Stored
    <3>2. CASE n = 0
      BY <2>3, <3>1, <3>2 DEF StoredCells
    <3>3. CASE n = 1
      <4>1. /\ Size(fout') = WritesAt.pos + 1 /\ fout' \in StreamsOf(OutputKinds, Int)
            /\ \A p \in 1 .. Size(fout) : fout'.cells[p] = fout.cells[p]
        BY <3>1, <3>3 DEF StoredCells
      <4>2. WritesAt.pos \in Int /\ WritesAt.pos >= Size(fout) /\ Size(fout) \in Nat
        BY <2>2, <2>10, PlaceIs, LenProperties DEF StreamsOf, TypesKept, Size
      <4>3. DOMAIN fout.cells = 1 .. Size(fout) /\ DOMAIN fout'.cells = 1 .. WritesAt.pos + 1
        BY <2>2, <4>1, LenProperties DEF StreamsOf, TypesKept, Size
      <4>4. 1 .. Size(fout) \subseteq 1 .. WritesAt.pos + 1
        BY <4>2
      <4>5. QED BY <4>1, <4>3, <4>4 DEF Written
    <3>4. QED BY <3>1, <3>2, <3>3
  <2>11. QED BY <2>1, <2>4, <2>5, <2>6, <2>7, <2>8, <2>9, <2>10 DEF Next
<1>2. IInv /\ UNCHANGED vars => kept
  BY DEF vars, streams, Written
<1>3. IInv /\ [Next]_vars => [kept]_vars
  BY <1>1, <1>2
<1>4. QED BY <1>3, Inductive, PTL DEF Spec, NeverOverwritten
=============================================================================
