----------------------------- MODULE BgPipeline -----------------------------
(***************************************************************************)
(* The first compression pass: the main thread of srep.cpp and the         *)
(* BG_COMPRESSION_THREAD of io.cpp work on two buffer slots and hand them  *)
(* to each other through the auto-reset events ReadDone and WriteReady;    *)
(* BgThreadFinished closes the pass.                                       *)
(*                                                                         *)
(* Data is abstracted to the number of the block it was computed from:     *)
(* dict[j] is the block whose bytes lie in the j-th bufsize-sized part of  *)
(* the circular input dictionary, slot[i].stat the block whose match list  *)
(* is in statbuf[i], and so on.  A pc names the operation its thread is    *)
(* inside of, so two threads touching the same memory at the same time is  *)
(* a predicate on the two pcs.                                             *)
(***************************************************************************)
EXTENDS Integers, Sequences

CONSTANTS
  MaxBlocks,  \* bound: the input file has 0..MaxBlocks blocks
  Modes,      \* which of the output formats are explored
  Window,     \* roundUp(MAX_DIST, bufsize) / bufsize: blocks of look-back
  Faults      \* which faults may happen: "write", "toolong", "temp"

ASSUME PipelineAssumption ==
  /\ MaxBlocks \in Nat
  /\ Modes \subseteq {"io", "future", "index"}
  /\ Window \in Nat
  /\ Faults \subseteq {"write", "toolong", "temp"}

BUFFERS == 2
None    == -1

\* Mutant: no part of the dictionary reserved for background I/O
DictWithoutReserve == Window

\* dictsize, in blocks: the look-back plus BUFFERS blocks for background I/O
DictBlocks == Window + BUFFERS

VARIABLES
  mode,       \* "io", "future" or "index": IO_LZ, FUTURE_LZ, INDEX_LZ
  nblocks,    \* number of blocks in the input file
  limit,      \* number of blocks `filesize` allows
  usetemp,    \* tempfile && *tempfile
  bgPc,       \* where the background thread is
  pos,        \* its file position, in blocks
  dict,       \* the circular input dictionary
  slot,       \* bufptr[], len[], hashtable[], header[], statbuf[], stat_size[]
  readDone, writeReady, bgFinished,   \* the three events
  bgErr,      \* BG_COMPRESSION_THREAD::errcode
  mainPc,     \* where the main thread is
  k,          \* BG_COMPRESSION_THREAD::k, the slot the main thread works on
  origsize,   \* blocks the main thread has finished
  mainErr,    \* main()'s errcode
  blocks,     \* the COMPRESSED_BLOCK list kept for the second pass
  ftemp,      \* blocks in the tempfile
  out,        \* what was written to fout/fstat after the archive header
  freed,      \* the buffers and *this of the background thread are gone
  removed     \* the output file was deleted

inputVars == <<mode, nblocks, limit, usetemp>>
bgVars    == <<bgPc, pos, dict, out, bgErr, bgFinished>>
mainVars  == <<mainPc, k, origsize, mainErr, blocks, ftemp, freed, removed>>
vars      == <<inputVars, bgVars, mainVars, slot, readDone, writeReady>>

-----------------------------------------------------------------------------
(* Background thread: run() and save_data().                               *)

\* i = 1 0 1 0 1 ...
BgSlot    == (pos + 1) % BUFFERS
\* Mutant: save_data(i)
SavesOwnSlot == BgSlot
PrevSlot  == pos % BUFFERS
FirstBlock == pos = 0

\* The return from main() ends the process, and this thread with it
BgAt(pc)   == bgPc = pc /\ mainPc # "exit"
BgGoto(pc) == bgPc' = pc

\* 1. Read input data into the next bufsize bytes of the dictionary
BgRead ==
  /\ BgAt("read")
  /\ slot' = [slot EXCEPT ![BgSlot].ptr = pos % DictBlocks,
                          ![BgSlot].len = IF pos < nblocks THEN 1 ELSE 0]
  /\ dict' = IF pos < nblocks THEN [dict EXCEPT ![pos % DictBlocks] = pos]
                              ELSE dict
  /\ BgGoto("size")
  /\ UNCHANGED <<inputVars, mainVars, pos, out, bgErr, bgFinished,
                 readDone, writeReady>>

\* filesize - pos < len[i]: input longer than announced
BgTooLong ==
  /\ BgAt("size")
  /\ slot[BgSlot].len = 1 /\ pos >= limit
  /\ bgErr' = "io"
  /\ BgGoto("giveUp")
  /\ UNCHANGED <<inputVars, mainVars, pos, dict, slot, out, bgFinished,
                 readDone, writeReady>>

BgSizeOk ==
  /\ BgAt("size")
  /\ slot[BgSlot].len = 0 \/ pos < limit
  /\ BgGoto("prepare")
  /\ UNCHANGED <<inputVars, mainVars, pos, dict, slot, out, bgErr, bgFinished,
                 readDone, writeReady>>

\* Mutant: break without ReadDone.Signal()
BgGiveUpSilently ==
  /\ BgAt("giveUp")
  /\ BgGoto("cleanup")
  /\ UNCHANGED <<inputVars, mainVars, pos, dict, slot, out, bgErr, bgFinished,
                 readDone, writeReady>>

BgGiveUp ==
  /\ BgAt("giveUp")
  /\ readDone' = TRUE
  /\ BgGoto("cleanup")
  /\ UNCHANGED <<inputVars, mainVars, pos, dict, slot, out, bgErr, bgFinished,
                 writeReady>>

\* 2. Block checksum into header[i]+3 (for the empty block at EOF too), chunk
\*    digests and the in-memory compressor's index
BgPrepare ==
  /\ BgAt("prepare")
  /\ slot' = [slot EXCEPT ![BgSlot].hash = pos, ![BgSlot].idx = pos]
  /\ BgGoto("waitWrite")
  /\ UNCHANGED <<inputVars, mainVars, pos, dict, out, bgErr, bgFinished,
                 readDone, writeReady>>

\* Mutant: goes on without the output data of the previous block
BgWaitNever ==
  /\ BgAt("waitWrite")
  /\ BgGoto("signal")
  /\ UNCHANGED <<inputVars, mainVars, pos, dict, slot, out, bgErr, bgFinished,
                 readDone, writeReady>>

\* 3. WriteReady.Wait(), skipped for the first block
BgWaitWrite ==
  /\ BgAt("waitWrite")
  /\ FirstBlock \/ writeReady
  /\ writeReady' = IF FirstBlock THEN writeReady ELSE FALSE
  /\ BgGoto("signal")
  /\ UNCHANGED <<inputVars, mainVars, pos, dict, slot, out, bgErr, bgFinished,
                 readDone>>

BgSignalRead ==
  /\ BgAt("signal")
  /\ readDone' = TRUE
  /\ BgGoto(IF FirstBlock \/ mode = "future" THEN "eof" ELSE "saveHeader")
  /\ UNCHANGED <<inputVars, mainVars, pos, dict, slot, out, bgErr, bgFinished,
                 writeReady>>

\* save_data((i-1+BUFFERS)%BUFFERS): header, match list, literals
BgSaveHeader ==
  /\ BgAt("saveHeader")
  /\ out' = Append(out, [part |-> "header", blk |-> slot[PrevSlot].hdr,
                         hash |-> slot[PrevSlot].hash])
  /\ BgGoto("saveStat")
  /\ UNCHANGED <<inputVars, mainVars, pos, dict, slot, bgErr, bgFinished,
                 readDone, writeReady>>

\* stat_size is 0 in index mode: nothing is written and nothing can fail
BgSaveStat ==
  /\ BgAt("saveStat")
  /\ out' = IF mode = "index" THEN out
            ELSE Append(out, [part |-> "stat", blk |-> slot[PrevSlot].stat,
                              hash |-> None])
  /\ BgGoto("saveLiterals")
  /\ UNCHANGED <<inputVars, mainVars, pos, dict, slot, bgErr, bgFinished,
                 readDone, writeReady>>

\* The list is one that fits the block, as BlockCompressor shows, so that save_data
\* has no bad data to refuse (io.cpp:184-185)
BgSaveLiterals ==
  /\ BgAt("saveLiterals")
  /\ out' = Append(out, [part |-> "literals", blk |-> dict[slot[PrevSlot].ptr],
                         hash |-> None])
  /\ BgGoto("eof")
  /\ UNCHANGED <<inputVars, mainVars, pos, dict, slot, bgErr, bgFinished,
                 readDone, writeReady>>

\* A failed checked_file_write of save_data, and the goto cleanup after it
BgWriteFails ==
  /\ "write" \in Faults
  /\ \/ BgAt("saveHeader") \/ BgAt("saveLiterals")
     \/ BgAt("saveStat") /\ mode # "index"
  /\ bgErr' = "io"
  /\ BgGoto("cleanup")
  /\ UNCHANGED <<inputVars, mainVars, pos, dict, slot, out, bgFinished,
                 readDone, writeReady>>

\* 4. Stop on EOF, else advance to the next block and the other slot
BgAdvance ==
  /\ BgAt("eof")
  /\ IF slot[BgSlot].len = 0
       THEN BgGoto("cleanup") /\ UNCHANGED pos
       ELSE BgGoto("read") /\ pos' = pos + 1
  /\ UNCHANGED <<inputVars, mainVars, dict, slot, out, bgErr, bgFinished,
                 readDone, writeReady>>

BgFinish ==
  /\ BgAt("cleanup")
  /\ bgFinished' = TRUE
  /\ BgGoto("done")
  /\ UNCHANGED <<inputVars, mainVars, pos, dict, slot, out, bgErr,
                 readDone, writeReady>>

BgNext ==
  \/ BgRead \/ BgTooLong \/ BgSizeOk \/ BgGiveUp \/ BgPrepare
  \/ BgWaitWrite \/ BgSignalRead
  \/ BgSaveHeader \/ BgSaveStat \/ BgSaveLiterals \/ BgWriteFails
  \/ BgAdvance \/ BgFinish

-----------------------------------------------------------------------------
(* Main thread: the block loop of main(), read(), write() and wait().      *)

MainGoto(pc) == mainPc' = pc

\* bg_thread.read(): ReadDone.Wait() and switch to the other slot
MainRead ==
  /\ mainPc = "read"
  /\ readDone
  /\ readDone' = FALSE
  /\ k' = (k + 1) % BUFFERS
  /\ MainGoto("checkRead")
  /\ UNCHANGED <<inputVars, bgVars, slot, writeReady, origsize, mainErr, blocks,
                 ftemp, freed, removed>>

Abort(err) == mainErr' = err /\ MainGoto("destroy")

\* if (bg_thread.errcode) {errcode = bg_thread.errcode; goto cleanup;}
\* after read(), after write() and after the loop
MainSeesError ==
  /\ mainPc \in {"checkRead", "checkWrite", "checkEnd"}
  /\ bgErr # "ok"
  /\ Abort(bgErr)
  /\ UNCHANGED <<inputVars, bgVars, slot, readDone, writeReady, k, origsize,
                 blocks, ftemp, freed, removed>>

\* len == 0 is the end of the input
MainCheckRead ==
  /\ mainPc = "checkRead" /\ bgErr = "ok"
  /\ MainGoto(IF slot[k].len = 0 THEN "wait"
              ELSE IF usetemp THEN "temp" ELSE "compress")
  /\ UNCHANGED <<inputVars, bgVars, slot, readDone, writeReady, k, origsize,
                 mainErr, blocks, ftemp, freed, removed>>

\* file_seek(ftemp, origsize); checked_file_write(ftemp, buf, len)
MainTempWrite ==
  /\ mainPc = "temp"
  /\ ftemp' = Append(SubSeq(ftemp, 1, origsize), dict[slot[k].ptr])
  /\ MainGoto("compress")
  /\ UNCHANGED <<inputVars, bgVars, slot, readDone, writeReady, k, origsize,
                 mainErr, blocks, freed, removed>>

MainTempFails ==
  /\ mainPc = "temp"
  /\ "temp" \in Faults
  /\ Abort("io")
  /\ UNCHANGED <<inputVars, bgVars, slot, readDone, writeReady, k, origsize,
                 blocks, ftemp, freed, removed>>

\* Compress the block: fill statbuf[k] from buf and the look-back window
MainCompress ==
  /\ mainPc = "compress"
  /\ slot' = [slot EXCEPT ![k].stat = dict[slot[k].ptr]]
  /\ MainGoto("fill")
  /\ UNCHANGED <<inputVars, bgVars, readDone, writeReady, k, origsize, mainErr,
                 blocks, ftemp, freed, removed>>

\* header[0..2] = literal_bytes, len, stat_size
MainFillHeader ==
  /\ mainPc = "fill"
  /\ slot' = [slot EXCEPT ![k].hdr = slot[k].stat]
  /\ MainGoto("write")
  /\ UNCHANGED <<inputVars, bgVars, readDone, writeReady, k, origsize, mainErr,
                 blocks, ftemp, freed, removed>>

\* bg_thread.write(): pass the sizes, WriteReady.Signal()
MainWrite ==
  /\ mainPc = "write"
  /\ writeReady' = TRUE
  /\ MainGoto("checkWrite")
  /\ UNCHANGED <<inputVars, bgVars, slot, readDone, k, origsize, mainErr,
                 blocks, ftemp, freed, removed>>

MainCheckWrite ==
  /\ mainPc = "checkWrite" /\ bgErr = "ok"
  /\ MainGoto(IF mode = "io" THEN "read" ELSE "store")
  /\ origsize' = IF mode = "io" THEN origsize + 1 ELSE origsize
  /\ UNCHANGED <<inputVars, bgVars, slot, readDone, writeReady, k, mainErr,
                 blocks, ftemp, freed, removed>>

\* Save header[] and statbuf[] to the COMPRESSED_BLOCK struct; origsize += len
MainStore ==
  /\ mainPc = "store"
  /\ blocks' = Append(blocks, [hdr  |-> slot[k].hdr, hash |-> slot[k].hash,
                               stat |-> slot[k].stat])
  /\ origsize' = origsize + 1
  /\ MainGoto("read")
  /\ UNCHANGED <<inputVars, bgVars, slot, readDone, writeReady, k, mainErr,
                 ftemp, freed, removed>>

\* bg_thread.wait(): BgThreadFinished.Wait(), then the buffers are freed
MainWait ==
  /\ mainPc = "wait"
  /\ bgFinished
  /\ bgFinished' = FALSE
  /\ freed' = TRUE
  /\ MainGoto("checkEnd")
  /\ UNCHANGED <<inputVars, bgPc, pos, dict, slot, out, bgErr,
                 readDone, writeReady, k, origsize, mainErr, blocks, ftemp,
                 removed>>

\* Mutant: errors of the last writes go unnoticed
MainCheckEndNever ==
  /\ mainPc = "checkEnd"
  /\ MainGoto("destroy")
  /\ UNCHANGED <<inputVars, bgVars, slot, readDone, writeReady, k, origsize,
                 mainErr, blocks, ftemp, freed, removed>>

MainCheckEnd ==
  /\ mainPc = "checkEnd" /\ bgErr = "ok"
  /\ MainGoto("destroy")
  /\ UNCHANGED <<inputVars, bgVars, slot, readDone, writeReady, k, origsize,
                 mainErr, blocks, ftemp, freed, removed>>

\* Leaving the scope destroys bg_thread, inmem, h and mmap_infile
MainDestroy ==
  /\ mainPc = "destroy"
  /\ freed' = TRUE
  /\ MainGoto("cleanup")
  /\ UNCHANGED <<inputVars, bgVars, slot, readDone, writeReady, k, origsize,
                 mainErr, blocks, ftemp, removed>>

\* cleanup: close the files, delete the output on error, return the exit code
MainCleanup ==
  /\ mainPc = "cleanup"
  /\ removed' = (mainErr # "ok")
  /\ MainGoto("exit")
  /\ UNCHANGED <<inputVars, bgVars, slot, readDone, writeReady, k, origsize,
                 mainErr, blocks, ftemp, freed>>

MainNext ==
  \/ MainRead \/ MainSeesError \/ MainCheckRead
  \/ MainTempWrite \/ MainTempFails \/ MainCompress
  \/ MainFillHeader \/ MainWrite \/ MainCheckWrite \/ MainStore
  \/ MainWait \/ MainCheckEnd \/ MainDestroy \/ MainCleanup

-----------------------------------------------------------------------------
EmptySlot == [ptr |-> 0, len |-> 0, hash |-> None, idx |-> None,
              hdr |-> None, stat |-> None]

Init ==
  /\ mode \in Modes
  /\ nblocks \in 0 .. MaxBlocks
  /\ limit \in IF "toolong" \in Faults THEN 0 .. nblocks ELSE {nblocks}
  /\ usetemp \in BOOLEAN
  /\ bgPc = "read" /\ pos = 0 /\ bgErr = "ok"
  /\ dict = [j \in 0 .. DictBlocks - 1 |-> None]
  /\ slot = [i \in 0 .. BUFFERS - 1 |-> EmptySlot]
  /\ readDone = FALSE /\ writeReady = FALSE /\ bgFinished = FALSE
  /\ mainPc = "read" /\ k = 0 /\ origsize = 0 /\ mainErr = "ok"
  /\ blocks = <<>> /\ ftemp = <<>> /\ out = <<>>
  /\ freed = FALSE /\ removed = FALSE

Next == BgNext \/ MainNext

Spec == Init /\ [][Next]_vars

\* Both threads keep running and every read and write returns
Fairness == WF_vars(BgNext) /\ WF_vars(MainNext)

FairSpec == Spec /\ Fairness

-----------------------------------------------------------------------------
(* The pass as FirstPass describes it.                                     *)

Parts == IF mode = "index" THEN <<"header", "literals">>
                           ELSE <<"header", "stat", "literals">>

result == IF mainPc # "exit" THEN "running"
          ELSE IF mainErr = "ok" THEN "ok" ELSE "failed"

Promise == INSTANCE FirstPass WITH
  total   <- nblocks,
  parts   <- Parts,
  written <- out,
  kept    <- [b \in DOMAIN blocks |-> blocks[b].stat]

\* Two threads, two slots and three events do what one loop would do: each
\* step of the pipeline is a step of FirstPass or leaves its state alone.
ImplementsFirstPass == Promise!Spec

-----------------------------------------------------------------------------
(* Properties.                                                             *)

Block == 0 .. MaxBlocks
BgPcs   == {"read", "size", "giveUp", "prepare", "waitWrite", "signal",
            "saveHeader", "saveStat", "saveLiterals", "eof", "cleanup", "done"}
MainPcs == {"read", "checkRead", "temp", "compress", "fill", "write",
            "checkWrite", "store", "wait", "checkEnd", "destroy", "cleanup",
            "exit"}
MaybeBlock == Block \union {None}
SlotType == [ptr : 0 .. DictBlocks - 1, len : {0, 1}, hash : MaybeBlock,
             idx : MaybeBlock, hdr : MaybeBlock, stat : MaybeBlock]

\* Every variable keeps its type, and the file position never passes the end
\* of the input.
TypeOK ==
  /\ mode \in Modes /\ nblocks \in Block /\ limit \in 0 .. nblocks
  /\ usetemp \in BOOLEAN
  /\ bgPc \in BgPcs /\ pos \in 0 .. nblocks
  /\ dict \in [0 .. DictBlocks - 1 -> MaybeBlock]
  /\ slot \in [0 .. BUFFERS - 1 -> SlotType]
  /\ readDone \in BOOLEAN /\ writeReady \in BOOLEAN /\ bgFinished \in BOOLEAN
  /\ bgErr \in {"ok", "io"} /\ mainErr \in {"ok", "io"}
  /\ mainPc \in MainPcs
  /\ k \in 0 .. BUFFERS - 1 /\ origsize \in 0 .. nblocks
  /\ blocks \in Seq([hdr : MaybeBlock, hash : MaybeBlock, stat : MaybeBlock])
  /\ ftemp \in Seq(MaybeBlock)
  /\ out \in Seq([part : {"header", "stat", "literals"}, blk : MaybeBlock,
                  hash : MaybeBlock])
  /\ freed \in BOOLEAN /\ removed \in BOOLEAN

\* The memory a thread is reading or writing while it is at its pc: a field of
\* a slot, or a part of the dictionary.
Field(f, i) == <<f, i>>
DictPart(j) == <<"dict", j % DictBlocks>>
Lookback == {DictPart(b) : b \in {c \in 0 .. origsize : c >= origsize - Window}}

BgWrites ==
  CASE bgPc = "read"    -> {Field("ptr", BgSlot), Field("len", BgSlot),
                            DictPart(pos)}
    [] bgPc = "prepare" -> {Field("hash", BgSlot), Field("idx", BgSlot)}
    [] OTHER            -> {}

BgReads ==
  CASE bgPc \in {"size", "eof"} -> {Field("len", BgSlot)}
    [] bgPc = "prepare"      -> {Field("ptr", BgSlot), Field("len", BgSlot),
                                 DictPart(pos)}
    [] bgPc = "saveHeader"   -> {Field("hdr", PrevSlot), Field("hash", PrevSlot)}
    [] bgPc = "saveStat"     -> {Field("stat", PrevSlot), Field("size", PrevSlot)}
    [] bgPc = "saveLiterals" -> {Field("ptr", PrevSlot), Field("len", PrevSlot),
                                 Field("stat", PrevSlot),
                                 DictPart(slot[PrevSlot].ptr)}
    [] OTHER                 -> {}

MainWrites ==
  CASE mainPc = "compress" -> {Field("stat", k)}
    [] mainPc = "fill"     -> {Field("hdr", k)}
    [] mainPc = "write"    -> {Field("size", k)}
    [] OTHER               -> {}

MainReads ==
  CASE mainPc = "checkRead" -> {Field("ptr", k), Field("len", k)}
    [] mainPc = "temp"      -> {DictPart(slot[k].ptr)}
    [] mainPc = "compress"  -> {Field("idx", k)} \union Lookback
    [] mainPc = "store"     -> {Field("hdr", k), Field("hash", k),
                                Field("stat", k)}
    [] OTHER                -> {}

Races == (BgWrites \intersect (MainReads \union MainWrites))
           \union (MainWrites \intersect BgReads)

\* Double buffering: the threads never touch the same part of a slot or of the
\* dictionary at once (bufptr/len/hashtable/statbuf/sizes, and the look-back
\* window against the block being read in), save for the checksum part of
\* header[], which SavedHeaderIntact is about.
OnlyChecksumsRace == Races \subseteq {Field("hash", i) : i \in 0 .. BUFFERS - 1}

\* What save_data wrote is always a prefix of the parts of blocks 0, 1, 2, ...
\* with each header holding the checksum of its own block.
OutputIsInOrder == \A n \in DOMAIN out : out[n] = Promise!Item(n)

\* The match lists kept for the second pass are those of blocks 0, 1, 2, ...
RecordsAreInOrder ==
  \A b \in DOMAIN blocks : blocks[b].hdr = b - 1 /\ blocks[b].stat = b - 1

\* The tempfile, read again by the second pass, holds the input so far.
TempfileHoldsInput ==
  /\ \A b \in DOMAIN ftemp : ftemp[b] = b - 1
  /\ usetemp => Len(ftemp) >= origsize

\* Until one of them has failed, no thread signals ReadDone or WriteReady while
\* it is still set: an auto-reset event would swallow the second signal.
NoSignalSwallowed ==
  bgErr = "ok" /\ mainErr = "ok" =>
    /\ bgPc = "signal" => ~readDone
    /\ mainPc = "write" => ~writeReady

\* Exit code 0 of the first pass means that everything reached its place: all
\* blocks are in the output or kept for the second pass, and in the tempfile.
SuccessMeansComplete ==
  mainPc = "exit" /\ mainErr = "ok" =>
    /\ origsize = nblocks /\ ~removed
    /\ Len(out) = IF mode = "future" THEN 0 ELSE nblocks * Len(Parts)
    /\ Len(blocks) = IF mode = "io" THEN 0 ELSE nblocks
    /\ Len(ftemp) = IF usetemp THEN nblocks ELSE 0

\* An input longer than announced never ends in success.
TooLongMeansError == mainPc = "exit" /\ limit < nblocks => mainErr # "ok"

\* What is saved to a COMPRESSED_BLOCK has the checksum of that block.
SavedHeaderIntact == \A b \in DOMAIN blocks : blocks[b].hash = b - 1

\* The background thread gives up at block `limit` if the input goes on there;
\* else its error is a failed write
WriteFailed == bgErr # "ok" /\ ~(limit < nblocks /\ pos = limit)
Failed == bgErr # "ok" \/ mainErr # "ok" \/ limit < nblocks

\* The main thread gets to its exit, also when the input is longer than
\* announced or the tempfile cannot be written.  When the background thread cannot
\* write, the main thread waits for it for ever (README, section 4).
MainExits == <>(mainPc = "exit" \/ WriteFailed)

\* Without a failure both threads end.
BothEnd == <>((mainPc = "exit" /\ bgPc = "done") \/ Failed)

\* The two together: the handshake of the threads never comes to a stop before
\* the exit, be it with all blocks processed or with an error.
ThreadsEnd == MainExits /\ BothEnd

=============================================================================
