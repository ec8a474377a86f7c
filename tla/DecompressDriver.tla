-------------------------- MODULE DecompressDriver --------------------------
(***************************************************************************)
(* decompress_or_info_intrnl and decompress_main (srep_dec.cpp), and what  *)
(* main does with the result: headers, footer, choice of the tempfile, the *)
(* loop over the blocks with its checks and writes.                        *)
(*                                                                         *)
(* An archive is a stream with one cell per piece (header, seed, header of *)
(* block b, ...), the output one with a cell per block; a cell is the      *)
(* number of its block if its data are right.  A match copies (a part of)  *)
(* block src to block dest.  Match lists are read here as sets; words and  *)
(* bytes are in Archive, swapping of saved matches in VmDecoder.           *)
(***************************************************************************)
EXTENDS Streams, SequencesExt

CONSTANTS
  Archives,     \* explored: [version, signature, hash, seed, blocks, matches]
  Calls,        \* explored: [entry, seekable, check, maximum_save, info, main, delete]
  Bufsize       \* largest match, in units of MEMORY_MANAGER::needmem

Version == [min |-> 1, io |-> 2, future |-> 3, max |-> 4]  \* SREP_FORMAT_VERSION1..4

\* The functions a program can call, decompress_or_info once with a file's name and
\* once with "-" for the output: main does; a library's caller may use all others
Entries == {"FILE", "FILE -", "mem", "mem2mem", "callbacks"}

ASSUME DriverAssumption ==
  /\ Archives \subseteq
       [version : Nat, signature : BOOLEAN, seed : BOOLEAN, blocks : Nat,
        hash : {"known", "not saved", "unknown", "too long"},
        matches : SUBSET [src : Nat, dest : Nat, len : 1 .. Bufsize]]
  /\ \A a \in Archives : /\ IsFiniteSet(a.matches)
                         /\ \A m \in a.matches : /\ 1 <= m.src /\ m.src < m.dest
                                                 /\ m.dest <= a.blocks
  /\ Calls \subseteq
       [entry : Entries, seekable : BOOLEAN, check : BOOLEAN, maximum_save : Nat \ {0},
        info : BOOLEAN, main : BOOLEAN, delete : BOOLEAN]

VARIABLES
  arch, call,     \* the archive, as it was written, and the call
  fin, fout,      \* Readable and Writable the caller passed
  ftemp,          \* the stream on the tempfile, or Shared
  pc,
  selected_hash,  \* does a checksum get compared?
  origsize,       \* blocks decoded so far
  lz_matches,     \* matches waiting for their block, without the barrier
  out,            \* the last decoded block: its number, or Bad
  ram, max_ram,   \* in -i mode: memory for decompression
  result,         \* of decompress_or_info_intrnl
  exit, input,    \* of main: exit status, and the input file
  decoded, failed \* history: decoded blocks, and blocks whose write failed

streams == <<fin, fout, ftemp>>
history == <<decoded, failed>>
ending  == <<result, exit, input>>
work    == <<selected_hash, origsize, lz_matches, out, ram, max_ram>>
vars    == <<arch, call, streams, pc, work, ending, history>>

\* Data that are not right, and decoding that fails or ends the program
Bad == -1
NotOk == -2
Crashes == -3
None == "none"

\* ftemp = &fout
Shared == Stream("shared", <<>>)

IO_LZ     == arch.version <= Version.io
FUTURE_LZ == arch.version = Version.future
INDEX_LZ  == arch.version = Version.max

Piece(k, b) == [kind |-> k, block |-> b]
Zero(k)     == Piece(k, 0)

\* The matches stored with a block: by destination in I/O-LZ, else by source
ListOf(a, b) == {m \in a.matches : IF a.version <= Version.io THEN m.dest = b ELSE m.src = b}

\* Pieces of a block; an empty list takes no place, and in Index-LZ all lists
\* follow the last block, then their sizes and the footer
BlockPieces(a, b) ==
  <<Piece("header", b)>>
    \o (IF a.version # Version.max /\ ListOf(a, b) # {} THEN <<Piece("list", b)>> ELSE <<>>)
    \o <<Piece("literals", b)>>
Pieces(a) ==
  <<Zero("archive header")>> \o (IF a.seed THEN <<Zero("seed")>> ELSE <<>>)
    \o FlattenSeq([b \in 1 .. a.blocks |-> BlockPieces(a, b)])
    \o (IF a.version # Version.max THEN <<>>
        ELSE (IF a.matches # {} THEN <<Zero("lists")>> ELSE <<>>)
               \o (IF a.blocks > 0 THEN <<Zero("sizes")>> ELSE <<>>) \o <<Zero("footer")>>)

\* error() ends the program
Error == pc' = "exited" /\ exit' = "error" /\ UNCHANGED <<result, input>>

\* return, or goto cleanup
Return(r) == pc' = "returning" /\ result' = r /\ UNCHANGED <<exit, input>>

\* Using a FILE after fclose may end the program
Crash == pc' = "exited" /\ exit' = "crash" /\ UNCHANGED <<result, input>>

Goto(l) == pc' = l /\ UNCHANGED ending

IsNext(s, kind) == s.pos < Size(s) /\ s.cells[s.pos + 1].kind = kind
Next1(kind)     == IsNext(fin, kind)

-----------------------------------------------------------------------------
(* Before the blocks                                                       *)

CheckHeader ==
  /\ pc = "archive header"
  /\ fin' = AfterRead(fin, 1)
  /\ IF /\ Next1("archive header") /\ arch.signature
        /\ arch.version \in Version.min .. Version.max
       THEN Goto("hash") ELSE Error
  /\ UNCHANGED <<arch, call, fout, ftemp, work, history>>

\* A checksum that was not saved, or that this program cannot compute, is not
\* compared: the hash "" has no function
ChooseHash ==
  /\ pc = "hash"
  /\ selected_hash' = (call.check /\ arch.hash = "known")
  /\ Goto("seed")
  /\ UNCHANGED <<arch, call, streams, origsize, lz_matches, out, ram, max_ram, history>>

ReadSeed ==
  /\ pc = "seed"
  /\ IF arch.seed /\ ~Next1("seed") THEN Error /\ UNCHANGED fin
     ELSE /\ Goto(IF INDEX_LZ THEN "footer" ELSE "tempfile")
          /\ fin' = IF arch.seed THEN AfterRead(fin, 1) ELSE fin
  /\ UNCHANGED <<arch, call, fout, ftemp, work, history>>

\* The footer is longer than the archive header: if there is nothing else, the
\* read falls short and the call returns without output.  With other pieces in its
\* place there is no signature.  The lists and their sizes are read with it
ReadFooter ==
  /\ pc = "footer"
  /\ IF Size(fin) = 1 THEN Return("ERROR_IO")
     ELSE IF Last(fin.cells) # Zero("footer") THEN Error
     ELSE Goto(IF call.info THEN "index info" ELSE "tempfile")
  /\ UNCHANGED <<arch, call, streams, work, history>>

\* A match in -i mode: its source lies in block b
Waiting(b)  == {m \in arch.matches : m.src = b /\ m.dest > b /\ m.len < call.maximum_save}
NeedMem(ms) == SumFunctionOnSet([m \in ms |-> m.len], ms)

\* -i, for one block: what ends in it is given back, then what starts in it counts
CountBlock(b) ==
  LET over == {m \in lz_matches : m.dest <= b}
      now  == ram - NeedMem(over) + NeedMem(Waiting(b))
  IN  /\ lz_matches' = (lz_matches \ over) \cup Waiting(b)
      /\ ram' = now /\ max_ram' = Max({now, max_ram})
      /\ origsize' = b

\* -i of an Index-LZ archive looks at all lists and at the first block header
\* (in an empty archive this is the footer, which some hashes make too short)
IndexInfo ==
  /\ pc = "index info"
  /\ IF origsize < arch.blocks THEN CountBlock(origsize + 1) /\ Goto("index info")
     ELSE /\ Return("info") \/ (arch.blocks = 0 /\ Error)
          /\ UNCHANGED <<origsize, lz_matches, ram, max_ram>>
  /\ UNCHANGED <<arch, call, streams, selected_hash, out, history>>

\* The callers of the library say so; decompress_or_info takes strequ for strcmp
is_out_seekable ==
  IF call.entry \in {"FILE", "FILE -"} THEN call.entry = "FILE -" ELSE call.seekable

\* unsigned(-1): no match is too long to be saved
NoMaximum == Bufsize + 1

\* Output that will be read again goes to a tempfile too, if it is not seekable.
\* The File made for it is a temporary object: its destructor closes the FILE that
\* ftemp_ has just taken over
Rereads == IO_LZ \/ call.maximum_save # NoMaximum

OpenTempfile ==
  /\ pc = "tempfile"
  /\ IF Rereads /\ ~is_out_seekable
       THEN \/ ftemp' = Stream("closed", <<>>) /\ Goto("block")
            \/ Error /\ UNCHANGED ftemp    \* it cannot be opened
       ELSE Goto("block") /\ UNCHANGED ftemp
  /\ UNCHANGED <<arch, call, fin, fout, work, history>>

-----------------------------------------------------------------------------
(* One block                                                               *)

Blocks == 1 .. arch.blocks

AtEnd == fin.pos >= Size(fin)

\* Two zero words where a block header should be: the sizes of two empty lists, or
\* the footer of an archive without matches and blocks
ZeroWords ==
  /\ ~AtEnd /\ arch.matches = {}
  /\ \/ Next1("sizes") /\ arch.blocks > 1
     \/ Next1("footer") /\ arch.blocks = 0

\* Mutant: the end of the file is accepted with matches waiting
FinishAnyway ==
  /\ pc = "block" /\ (AtEnd \/ ZeroWords) /\ Return("origsize")
  /\ UNCHANGED <<arch, call, streams, work, history>>

\* Mutant: goes on reading until nothing waits
FinishLater ==
  /\ pc = "block" /\ (AtEnd \/ ZeroWords)
  /\ IF lz_matches = {} THEN Return("origsize") ELSE Goto("block")
  /\ UNCHANGED <<arch, call, streams, work, history>>

\* No more data; nothing may be waiting.  The loop ends after one more callback
Finish ==
  /\ pc = "block" /\ (AtEnd \/ ZeroWords)
  /\ IF lz_matches = {} THEN Return("origsize") ELSE Error
  /\ UNCHANGED <<arch, call, streams, work, history>>

\* Header, match list and literals of a block.  -i passes over the literals.  The
\* sizes in the headers of these archives are within the buffers (Archive has the
\* test at srep_dec.cpp:35-45, which ends like the errors here)
ReadBlock ==
  /\ pc = "block" /\ Next1("header")
  /\ LET b       == origsize + 1
         hasList == ~INDEX_LZ /\ ListOf(arch, b) # {}
         list    == AfterRead(fin, 1)
         data    == IF hasList THEN AfterRead(list, 1) ELSE list
     IN  \/ /\ hasList /\ ~IsNext(list, "list")
            /\ Error /\ UNCHANGED <<fin, origsize, lz_matches, ram, max_ram>>
         \/ /\ hasList => IsNext(list, "list")
            /\ IF call.info
                 THEN /\ fin' = SeekCur(data, 1) /\ Goto("block")
                      /\ IF IO_LZ THEN origsize' = b /\ UNCHANGED <<lz_matches, ram, max_ram>>
                         ELSE CountBlock(b)
                 ELSE /\ IF IsNext(data, "literals") THEN Goto("decode") ELSE Error
                      /\ fin' = AfterRead(data, 1)
                      /\ UNCHANGED <<origsize, lz_matches, ram, max_ram>>
  /\ UNCHANGED <<arch, call, fout, ftemp, selected_hash, out, history>>

\* After the blocks of an Index-LZ archive the loop goes on with the index, since
\* only a copy of statsize_ptr reached the end: some of it is taken for a block
ReadIndexAsBlock ==
  /\ pc = "block" /\ INDEX_LZ /\ ~AtEnd /\ ~Next1("header") /\ ~ZeroWords
  /\ \/ Error /\ UNCHANGED fin
     \/ /\ \E n \in 1 .. Size(fin) - fin.pos : fin' = AfterRead(fin, n)
        /\ Goto("decode")
  /\ UNCHANGED <<arch, call, fout, ftemp, work, history>>

\* The stream that old data are read from, and whether they are right
Temp == IF ftemp = Shared THEN fout ELSE ftemp
RereadsRight(src) ==
  Read(SeekSet(Temp, src - 1), 1) = <<src>>

\* The list decoded with block b.  statptr stays at the first list of an index
ListUsed(b) ==
  IF INDEX_LZ
    THEN {[m EXCEPT !.src = b, !.dest = @ + b - 1] : m \in ListOf(arch, 1)}
    ELSE ListOf(arch, b)

\* Data of a match of block b: from the output if they were written before, or
\* saved when block src was decoded.  Nothing checks what read returns
DataRight(m, b) ==
  IF IO_LZ \/ m.len >= call.maximum_save THEN RereadsRight(m.src)
  ELSE decoded[m.src] = m.src

\* What decompress and decompress_FUTURE_LZ may leave: wrong matches do not fill
\* the block exactly, or they fill it with wrong data
Used(b)   == IF IO_LZ THEN ListUsed(b) ELSE {m \in lz_matches : m.dest = b}
Reread(b) == {m \in Used(b) : IO_LZ \/ m.len >= call.maximum_save}
Outcomes(b) ==
  IF b \notin Blocks \/ Used(b) # {m \in arch.matches : m.dest = b} THEN {NotOk, Bad}
  ELSE IF Temp.kind = "closed" /\ Reread(b) # {} THEN {Bad, Crashes}
  ELSE IF \A m \in Used(b) : DataRight(m, b) THEN {b} ELSE {Bad}

\* The output after reading a match: the position has moved
AfterReread(m) ==
  IF ftemp = Shared THEN AfterRead(SeekSet(fout, m.src - 1), 1) ELSE fout

Decode ==
  /\ pc = "decode"
  /\ LET b == origsize + 1 IN
     \E o \in Outcomes(b) :
       CASE o = NotOk   -> Error /\ UNCHANGED <<origsize, lz_matches, out, decoded>>
         [] o = Crashes -> Crash /\ UNCHANGED <<origsize, lz_matches, out, decoded>>
         [] OTHER ->
              /\ out' = o /\ decoded' = Append(decoded, o) /\ origsize' = b
              /\ lz_matches' = IF IO_LZ THEN {}
                               ELSE {m \in lz_matches : m.dest > b}
                                      \cup {m \in ListUsed(b) : m.dest > b}
              /\ Goto("checksum")
  /\ LET reread == Reread(origsize + 1) IN
     IF reread = {} THEN UNCHANGED fout ELSE \E m \in reread : fout' = AfterReread(m)
  /\ UNCHANGED <<arch, call, fin, ftemp, selected_hash, ram, max_ram, failed>>

\* Mutant: checksums are compared after the output was written
CheckBlockLate ==
  /\ pc = "checksum" /\ Goto("write temp")
  /\ UNCHANGED <<arch, call, streams, work, history>>

CheckBlock ==
  /\ pc = "checksum"
  /\ IF selected_hash /\ out = Bad THEN Error ELSE Goto("write temp")
  /\ UNCHANGED <<arch, call, streams, work, history>>

\* A failed write leaves decompress_main with ERROR_IO, which is positive, and its
\* caller stops at negative results only.  The callback then sees the block anyway
LoopOr(l, ok) ==
  IF ok THEN Goto(l)
  ELSE IF INDEX_LZ /\ arch.blocks = 1 THEN Return("origsize") ELSE Goto("block")

\* Mutant: blocks are written wherever the stream stands
AtBlockNot(s) == s

\* ftemp.seek(block_start)
AtBlock(s) == SeekSet(s, origsize - 1)

\* A write to a FILE that was closed may do anything but
\* store the data
WriteTemp ==
  /\ pc = "write temp"
  /\ LET at == AtBlock(Temp) IN
     \/ /\ ftemp = Shared
        /\ \E n \in WriteCounts(at, 1) :
             /\ fout' = AfterWrite(at, <<out>>, n)
             /\ LoopOr("written", n = 1)
             /\ failed' = IF n = 1 THEN failed ELSE failed \cup {origsize}
        /\ UNCHANGED ftemp
     \/ /\ ftemp # Shared
        /\ \/ LoopOr("write out", TRUE) /\ UNCHANGED failed
           \/ LoopOr("write out", FALSE) /\ failed' = failed \cup {origsize}
           \/ Crash /\ UNCHANGED failed
        /\ UNCHANGED <<fout, ftemp>>
  /\ UNCHANGED <<arch, call, fin, work, decoded>>

\* With a tempfile the output gets the block too, wherever it stands
WriteOut ==
  /\ pc = "write out"
  /\ \E n \in WriteCounts(fout, 1) :
       /\ fout' = AfterWrite(fout, <<out>>, n)
       /\ LoopOr("written", n = 1)
       /\ failed' = IF n = 1 THEN failed ELSE failed \cup {origsize}
  /\ UNCHANGED <<arch, call, fin, ftemp, work, decoded>>

\* The callback.  An index of one list ends the loop
Loop ==
  /\ pc = "written"
  /\ IF INDEX_LZ /\ arch.blocks = 1 THEN Return("origsize") ELSE Goto("block")
  /\ UNCHANGED <<arch, call, streams, work, history>>

\* The destructors: ftemp_ closes its FILE a second time
Destroy ==
  /\ pc = "returning"
  /\ \/ pc' = "returned" /\ UNCHANGED ending
     \/ ftemp # Shared /\ Crash
  /\ UNCHANGED <<arch, call, streams, work, history>>

\* main takes no notice of the result
CloseFiles ==
  /\ pc = "returned" /\ call.main
  /\ pc' = "exited" /\ exit' = "ok"
  /\ input' = IF call.delete THEN "removed" ELSE input
  /\ UNCHANGED <<arch, call, streams, work, result, history>>

-----------------------------------------------------------------------------
(* The entry points                                                        *)

\* What archives are read from
Inputs ==
  CASE call.entry \in {"FILE", "FILE -"}  -> {"file"}
    [] call.entry \in {"mem", "mem2mem"}  -> {"cursor"}
    [] call.entry = "callbacks"           -> {"file", "cursor"}

\* The output, empty; memory has room for all blocks
Output ==
  CASE call.entry = "FILE"      -> Stream("file", <<>>)
    [] call.entry = "FILE -"    -> Stream("pipe", <<>>)
    [] call.entry = "mem"       -> Stream("wb", <<>>)
    [] call.entry = "mem2mem"   -> OutputCursor(arch.blocks + 3)
    [] call.entry = "callbacks" -> CallbackRW(<<>>)

Init ==
  /\ arch \in Archives /\ call \in Calls
  /\ \E n \in 0 .. Len(Pieces(arch)), kind \in Inputs :
       fin = Stream(kind, SubSeq(Pieces(arch), 1, n))
  /\ fout = Output /\ ftemp = Shared
  /\ pc = "archive header" /\ selected_hash = FALSE
  /\ origsize = 0 /\ lz_matches = {} /\ out = Hole /\ ram = 0 /\ max_ram = 0
  /\ result = None /\ exit = None /\ input = "kept"
  /\ decoded = <<>> /\ failed = {}

Next == \/ CheckHeader \/ ChooseHash \/ ReadSeed \/ ReadFooter \/ IndexInfo
        \/ OpenTempfile \/ Finish \/ ReadBlock \/ ReadIndexAsBlock \/ Decode
        \/ CheckBlock \/ WriteTemp \/ WriteOut \/ Loop \/ Destroy \/ CloseFiles

\* One thread runs until the call is over
Spec == Init /\ [][Next]_vars /\ WF_vars(Next)

-----------------------------------------------------------------------------

Written == {p \in DOMAIN fout.cells : fout.cells[p] # Hole}

\* With checksums, whatever happened to the tempfile, to writes and to the archive,
\* the output consists of right blocks in their order; in a file that can be sought
\* each is at its place.
OnlyCheckedData ==
  selected_hash =>
    /\ \A p \in Written : fout.cells[p] \in Blocks
    /\ \A p, q \in Written : p < q => fout.cells[p] < fout.cells[q]
    /\ ftemp = Shared /\ fout.kind # "pipe" => \A p \in Written : fout.cells[p] = p

\* When decompression returns its size, all these blocks were written, but those
\* whose write failed; and it is the whole archive, or one cut between two blocks
\* over which no match waits.
SizeMeansBlocks ==
  result = "origsize" /\ selected_hash /\ ~call.info =>
    /\ {fout.cells[p] : p \in Written} \cup failed = 1 .. origsize
    /\ \/ origsize = arch.blocks
       \/ /\ origsize < arch.blocks /\ fin.cells # Pieces(arch)
          /\ IO_LZ \/ \A m \in arch.matches : m.src <= origsize => m.dest <= origsize

\* The memory that -i reports is what decompression needs: the matches waiting at
\* the end of some block.
InfoExact ==
  result # None /\ call.info /\ ~IO_LZ =>
    LET waiting(k) == {m \in arch.matches :
                         m.src <= k /\ k < m.dest /\ m.len < call.maximum_save}
    IN  result # "ERROR_IO" => max_ram = Max({NeedMem(waiting(k)) : k \in 0 .. origsize})

\* A block that is in the output stays there: no later block, and no read for a
\* match, makes a write go over it.
NeverOverwritten ==
  [][\A p \in Written : p \in DOMAIN fout'.cells /\ fout'.cells[p] = fout.cells[p]]_vars

\* Decompression ends, whatever the archive and the output do.
DriverEnds == <>(pc = "exited" \/ (pc = "returned" /\ ~call.main))

\* "-delete: delete source file after successful (de)compression" (srep.cpp:389)
DeletedMeansDecoded ==
  input = "removed" => {fout.cells[p] : p \in Written} = Blocks
=============================================================================
