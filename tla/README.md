# Formal verification of srep

srep is a long-range LZ77 preprocessor: it finds repetitions at any distance in
a big file, replaces them by matches, and leaves the literals to another
compressor. This directory holds TLA+ models of its parts, the TLC runs that
check them and the TLAPS proofs about them. Paths below are relative to
`src/Compression/SREP/` unless they start with `src/`.

## 1. The system

| component | code | state it keeps | operations |
|---|---|---|---|
| first pass | `srep.cpp:509-807`, `io.cpp` | two slots (input, match list, header), the circular input dictionary, three events, `errcode` | read, compress, write a block; save the records for the second pass |
| second pass (Future-LZ, Index-LZ) | `srep.cpp:813-985` | the list of blocks, all matches sorted by source, a heap for the RAM estimate | group matches by the block their source lies in, write them |
| thread pools | `src/Compression/MultiThreading.h` | queues with a ring buffer, events, worker threads | `Put`, `Get`, `start`, `finish` |
| content-defined chunking | `compress_cdc.cpp` | jobs with chunk boundaries and hashes, the pool's two queues | split a stripe, hash its chunks in workers, search matches in order |
| fixed-size chunk compressor | `compress.cpp` | rolling hashes, current chunk | slide, look up, extend, encode |
| in-memory compressor | `compress_inmem.cpp` | hash table over the input dictionary | index a block, find matches near by |
| hash table | `hash_table.cpp/.h` | `chunkarr` (slots with chains), `hasharr`, `digestarr`, `startarr`, bit array, slice hashes | `add_hash`, `find_match`, `prepare_buffer`, both for chunks of one length and for `-m1`, `-m2` |
| match codec | `srep.h` | - | `ENCODE_LZ_MATCH`, `DECODE_LZ_MATCH` in two formats |
| chunk store | `decompress.h/.cpp` `MEMORY_MANAGER` | arena blocks of chunks on a free list, `used_chunks` | `save`, `restore`, `free` |
| Future-LZ decoder | `decompress.cpp` | heap of pending matches by destination | copy now or save for later, restore, literals |
| virtual memory | `decompress.cpp` `VIRTUAL_MEMORY_MANAGER` | matches swapped out to a file, free VM blocks | `save_to_disk`, `restore_from_disk` |
| I/O-LZ decoder | `decompress.cpp` | output file | copy literals, read matches back from the output |
| decompression driver | `srep_dec.cpp`, `srep.cpp:986-1020` | input, output and tempfile streams, position, block buffer, index tables | headers and footer, loop over blocks, checksums, writes, information mode |
| streams | `util.cpp/.hpp` | `File`, `Cursor`, `CallbackRW`: a position each | read, write, seek |
| command line and files | `srep.cpp:85-525, 1000-1020` | options, four files, exit code | parse, derive lengths, name and open files, write the header, clean up |
| message digests | `hashes.cpp`, `md5.c`, `sha1.c`, `sha512.c` | block buffer, length, chaining words | init, process, done |
| keyed hashes | `hashes.cpp`, `vmac.c`, `siphash.c`, `aes.c` | key schedules; a running polynomial in the VMAC context | set a key, hash a block |
| random numbers | `hashes.cpp`, `fortuna.c` | entropy pools, key, counter | seed, reseed, read |
| rolling hashes | `hashes.cpp` | value of the window, powers or tables | update by 1 or by N bytes, move |

How they interact. The main thread and the background thread of the first pass
share two buffer slots and hand them to each other through auto-reset events.
For content-defined chunking the main thread in addition feeds a pool of
worker threads through two bounded queues. The second pass runs alone, on the
records the first pass kept, and either reads the input again from its tempfile
(Future-LZ, `-mNf`) or only writes the index (Index-LZ, the default). The decompressor is
sequential: for every block the driver reads header, match list and literals
and calls one of the decoders; the Future-LZ decoder keeps data for future
blocks in the chunk store and, above a memory limit, in the virtual memory
file. Blocks that matches go back to are read from the output, or from a
tempfile if that cannot be read. The two programs meet in the archive only: its
header names the format, the length unit and the hash function, with the random
seed that keys it.

What is hard there, with the properties that make each part correct (the module
that states them in parentheses):

* interleaving in the first pass: no buffer is touched by both threads, no
  signal is lost, output in block order, success means complete, every error
  path ends (`BgPipeline`);
* blocking queues without a bound check, and shutdown of a pool: no lost
  wake-up, nothing lost, reordered or deadlocked (`SyncQueue`, `CdcPool`);
* two passes, three formats and several readers that must agree on lengths,
  units and positions: what is decoded is what was compressed (`MatchCodec`,
  `CodecOptions`, `Archive`);
* checksums that two programs compute, one of them in another thread and with an
  object that is used for block after block: equal for equal blocks, and the
  published functions (`MessageDigests`, `HashObjects`, `SelfTests`), under seeds
  that never repeat (`Fortuna`);
* a hash of a window that two passes reach in different steps, and a lossy table
  behind a filter: equal chunks are found (`RollingHash`, `HashTable`,
  `Chunking`);
* two searches merged into one list, over a dictionary that another thread
  overwrites: matches repeat what was there, lists stay valid (`BlockCompressor`);
* memory shared by overlapping lifetimes: every area of the decoder's store
  comes back as it was saved, within the limit (`MemoryManager`);
* matches that move between memory and a file while others come due: they come
  back once and in time, and the decoder never waits for ever (`VmDecoder`);
* partial failure: writes that fail or fall short, tempfiles that cannot be used,
  archives cut at any piece (`BgPipeline`, `DecompressDriver`).

The hazards at their lines are in `PROJECT.json`.

## 2. Modules

| module | models | kind |
|---|---|---|
| `FirstPass` | what the first pass promises | abstract specification |
| `BgPipeline` | main and background thread of the first pass | implements `FirstPass` |
| `BgPipelineInv` | its inductive invariant | proofs |
| `Fifo` | what a queue promises | abstract specification |
| `SyncQueue` | the blocking queue, step by step | implements `Fifo` |
| `StripeOrder` | chunking by one thread | abstract specification |
| `CdcPool` | thread pool and `compress_CDC`, on queues as `Fifo` has them | implements `StripeOrder` |
| `CompressorThreads` | `BgPipeline`, `CdcPool` and `SyncQueue`, one after the other | composition |
| `ThreadProofs` | theorems of `BgPipeline`, `SyncQueue` and `CdcPool` | proofs |
| `MatchCodec` | coding of a match in STAT words | operators, used by the next three |
| `CommandLine` | the options, word by word | operators, used by the next |
| `CodecOptions`, `MCCodecOptions` | from the command line to opened files, the archive header, a coded match and back | model, command lines explored |
| `BlockCompressor`, `MCBlockCompressor`, `BlockCompressorProofs` | search for matches in one block | model on `MatchCodec`, files explored; the proofs on both |
| `Archive`, `MCArchive`, `ArchiveProofs` | second pass, archive formats, block decoders | model on `MatchCodec`, files explored |
| `ChunkStore` | what the decoder's store promises | abstract specification |
| `MemoryManager`, `MemoryManagerProofs` | the store as lists of chunks | implements `ChunkStore` |
| `ArchiveMemory` | `Archive` and `MemoryManager`, one after the other | composition |
| `MatchQueue` | the decoder's heap, as if memory had no limit | abstract specification |
| `VmDecoder`, `VmDecoderProofs` | heap, memory limit and swap file | implements `MatchQueue` |
| `Streams` | `File`, `Cursor`, `CallbackRW` | operators, used by the next |
| `DecompressDriver`, `MCDecompressDriver`, `DecompressDriverProofs` | the decompressor around its decoders | model on `Streams`, archives explored |
| `FoldTheorems` | sums over finite sets and over matches, sequences joined, folded and in order, numbers divided, powers of 2 | lemmas for the proofs about `Archive`, `BlockCompressor`, `VmDecoder`, `DecompressDriver` and `Agreement` |
| `Words` | machine words as sequences of bytes | operators, used by the next four |
| `MessageDigests` | MD5, SHA-1, SHA-512 | model |
| `KeyedHashes`, `HashObjects` | SipHash, VMAC, AES; the hash objects of both programs | operators, model |
| `SelfTests` | the tables of test vectors in the sources | data |
| `RollingHash` | both rolling hashes | model |
| `Fortuna` | the generator of seeds | model |
| `Hashes`, `MCHashes` | the five above side by side | composition, texts explored |
| `HashTable` | table of chunks, with the walk of `compress<>` over it | model |
| `Chunking`, `MCChunking` | content-defined chunks, on `HashTable` | model, texts explored of both |
| `Agreement`, `MCAgreement` | `CodecOptions`, `Hashes`, `HashTable`, `Chunking` side by side | composition |
| `AgreementProofs` | theorems of `CodecOptions`, `Fortuna`, `HashTable` and `Chunking`, as parts of `Agreement` | proofs |

A definition whose comment begins with "Mutant" is a changed form of the
definition after it, with a bug of the kind its code invites. No specification
uses one; they show that the properties notice such a change.

Several properties are conjunctions of named parts, one per thing that has to
hold together: `QueueInvariant`, `PoolInvariant`, `LengthsAgree`, `ListIsSound`,
`MemoryWithinLimit` of `MemoryManager`. The parts are defined just before.

### 2.1 FirstPass and BgPipeline: the first compression pass

`BgPipeline` models both threads of the first pass, one action per stretch of
code between two operations another thread can see. `bgPc`/`mainPc` name the
operation a thread is inside of, so "two threads access the same memory at
once" is a predicate on the two pcs (`OnlyChecksumsRace`).

| code | model |
|---|---|
| `run()` io.cpp:125-170 | `BgRead`, `BgTooLong`/`BgSizeOk`, `BgGiveUp`, `BgPrepare`, `BgWaitWrite`, `BgSignalRead`, `BgAdvance`, `BgFinish` |
| `save_data()` io.cpp:173-198 | `BgSaveHeader`, `BgSaveStat`, `BgSaveLiterals`, `BgWriteFails` |
| `read()`, `write()`, `wait()` io.cpp:96-122 | `MainRead`, `MainWrite`, `MainWait` |
| block loop of `main()` srep.cpp:623-807 | `MainCheckRead`, `MainTempWrite`, `MainTempFails`, `MainCompress`, `MainFillHeader`, `MainCheckWrite`, `MainStore`, `MainCheckEnd`, `MainSeesError` |
| scope end, `cleanup:` srep.cpp:807, 1000-1019 | `MainDestroy`, `MainCleanup` |
| `bufptr, len, hashtable, header, statbuf` | `slot[i].ptr, len, idx, (hdr, hash), stat` |
| `dict`, `dictsize` | `dict`, `DictBlocks` |
| the three `Event`s | `readDone`, `writeReady`, `bgFinished` |

Data is the number of the block it came from. A header has two parts, the sizes
main writes (`hdr`) and the checksum the background thread writes (`hash`).
`FirstPass` is what all this promises: a stream of parts of blocks 0, 1, 2, ...,
a list of records 0, 1, 2, ..., and success only when nothing is missing.
`ImplementsFirstPass` says that every behaviour of `BgPipeline` is one of it,
reading `written` as the files, `kept` as the record list and `result` as the
exit code.

* `threads` checks all three formats (21 thousand states), with and without
  tempfile, with failing writes, a failing tempfile and an input longer than
  announced. `ThreadsEnd` does not ask the main thread to end after a failed
  write, since it may not (section 4).
* `pipeline_header` shows a disagreement between the code and its comments
  (section 4).

Bounds. There are two slots and the thread reads one block ahead, so the shape
of a state repeats from the third block on; `MaxBlocks = 4` covers first,
second, steady and last block. `Window = 1` gives a dictionary of three parts,
which four blocks wrap. The proofs hold for every `MaxBlocks` and `Window`.

Fairness is weak fairness of each thread as a whole: both are threads of the
operating system, and an auto-reset event that is set stays so until its only
waiter takes it. Nothing is assumed of a fault: it may happen or not.

### 2.2 Fifo and SyncQueue: the blocking queue

| code (`MultiThreading.h`) | model |
|---|---|
| `SetSize` 26-33, `ObjectsInQueue` 16-17 | `size`, `ObjectsInQueue` |
| `Put` 36-43: lock; signal if empty; store | `PutLock`, `PutSignal`, `PutStore` |
| `Get` 46-63: lock; take or miss; reset if empty; wait | `GetLock`, `GetTake`/`GetMiss`, `GetReset`, `GetWait` |
| critical section, `ObjectAdded` | `mutex`, `ObjectAdded` |

`outstanding` states what the comment on the class asks of its clients: they
never put more than `SetSize` was called for; that `CdcPool`, the only client,
keeps to it is the part `QueuesFit` of its `PoolInvariant`, and that the ring then never
looks empty when full the part `ObjectsCounted` of `QueueInvariant`. `threads` has two putters, two
getters, a ring of two (and the spare element) and four objects: the ring wraps,
is full and is empty, and both getters can miss, sleep and be woken by one
signal. `EventMeansObject`, another part, is what excludes a lost wake-up,
`EveryObjectIsTaken` its consequence under fairness of each thread, and
`ImplementsFifo` says that objects come out once and in order. Getters end in an
endless wait, as the workers of a pool do, hence no check for deadlock.

### 2.3 StripeOrder and CdcPool: threads of content-defined chunking

| code | model |
|---|---|
| `WorkerThread` MultiThreading.h:155-166 | `WorkerGet`, `WorkerProcess`, `WorkerSignal`, `WorkerFinish` |
| `Put` 137-143, `Get` 146-152 | `PutEvent`, `PutWorker`, `PutFinished`; `GetTask`, `GetWait` |
| `finish` 172-183, `start` 190-209 | `Stop`, `WaitStop`, `DeleteEvents`; `PoolInit` |
| `compress_CDC` compress_cdc.cpp:173-216 | `LoopTest`, `Push`, `Search` |
| `CDC_Job`, storages 100-142 | `storage[t]`, the stripe whose marks and hashes are in storage t |

A stripe is its number; where its chunks lie is a matter of content. The
abstract specification is the sequential program: all stripes in their order,
each with its own results (`ImplementsStripeOrder`). `PoolInvariant` says that
queues fit, that no storage is written while another thread may read it
(`StorageNotShared`), and that no worker is left when its events are deleted
(`WorkersGoneAtEnd`). `threads` (210 of its 250 thousand
states) has three workers and up to two blocks of up to four stripes, so that
jobs wrap around the storages and a block ends with all jobs in flight, with
fewer, and with one. Each thread is treated fairly, as in 2.1.

`CompressorThreads` puts the three models of 2.1 to 2.3 into one run, `threads`, in the order
pool, first pass, queue: in a behaviour at most one of them has anything to do. A pool or a
pass that has nothing to do only starts and ends; the queue is used only after both of these. So every
model has all of its own behaviours, and the run no product of them.

### 2.4 MatchCodec, CommandLine and CodecOptions: options, files, lengths

`MatchCodec` has `ENCODE_LZ_MATCH` and `DECODE_LZ_MATCH` (srep.h:115-156): three
or four STAT words, cut to the width of STAT, in units of L with rounding.
`CodecOptions` follows one match from the command line to a reader:

| code | model |
|---|---|
| options srep.cpp:85-265 | `CommandLine`: `Branches` in the order of the code, `ParseOption`; one word a step (`ParseNext`) |
| derived lengths srep.cpp:267-326 | `DeriveLengths` |
| names, copy of stdin, opening srep.cpp:404-525 | `NameFiles`, `OpenFiles`, `OpenFails` |
| archive header srep.cpp:598-617, srep_dec.cpp:201-264 | `WriteHeader`, `ReadHeader` |
| the three compressors, as far as they decide on position, length and base length | `FindInDictionary`, `FindChunk`, `FindCdcChunk` |
| encoders and readers of a list | `EncodeMatch`, `ReadMatch` |

An option is its text up to the number and the number with its unit. The order
of the branches matters, as a word belongs to the first that accepts it, and is
that of the code. `LengthsAgree` says that no match makes the encoder fail
(`EncodeAccepts`) and every reader gets it back (`ReadBack`); `HeaderKept` that the decoder takes
from the header what the encoder used, through the widths of its fields; and
`InputRereadable` that what is read twice is a file that can be, and has not been
emptied by opening the others.

They are checked by `agreement` (section 2.10) for all methods, formats and
lengths of a small set, with options of all kinds in between and nine lists of
file names. `LengthsAgree` has a condition on the derived lengths, `LengthsFit`, which the
defaults meet and each part of which is needed: for content-defined chunking with a minimum length other than
BASE_LEN `ReadBack` fails (section 4), and so it does for `-m3` without dictionary with chunks
that are not whole units, as record_match rounds to L, the encoder to BASE_LEN. The encoder then
writes archives that the decoder refuses (`-m3 -l512 -c256`). Lengths are powers
of 2 up to 4, blocks of 4 bytes, STAT of 3 bits: all orders of the derived
lengths occur, and positions beyond the width of a STAT, so that offsets need two
words. The program's constants are scaled with them (a kilobyte is 2, an unsigned
has 10 bits, a header byte 7).

### 2.5 BlockCompressor: from bytes to a match list

| code | model |
|---|---|
| circular dictionary io.cpp:56-60, 132-138 | `Held(x)`: the byte of the file that place x holds now |
| `prepare_buffer` compress_inmem.cpp:56-81 | `Indexed`: what the hash table may hold |
| `DictionaryCompressor::compress` 83-139 | `InmemStep` with `Distance`, `From`, `To`, `find_match_start`, `find_match_end` |
| the list handed over, with its pseudo-match srep.cpp:642-690 | `InmemEnd`, `Fence` |
| `compress<>` compress.cpp:53-211 | `CheckFirst`, `NextInput`/`NoInput`, `SkipMatch`, `LookAhead`, `AddChunk` |
| `record_match`, `check_match` compress.cpp:9-50 | `FindMatch`, `Record` |
| `match_len` hash_table.cpp:383-457 | `add_len`, `DigestLen`, `RereadLen`, `Run` |

`Archive` lets the search find any match that is a repetition. This module shows
that the search finds nothing else, for one block, wherever it lies in the file
and in the dictionary. Bytes are those of a file. What a table answers is open:
any position or chunk that was ever put into it, whatever its bytes are (hashes
collide, `-m4` and `-m5` look at a few bits only), or none (slots are reused,
chains cut off). So what holds here holds for every hash function and every
way of replacing entries. Only the digests of `-m3` are taken to tell bytes
apart. `ahead` says whether the other thread has read the next block already,
over the oldest part of the dictionary; `StaysInWindow` says that a comparison
never gets there, and never beyond its own position. Of `ListIsSound`,
`ListIsValid` is what the decoders and the buffers rely on (`statbuf_size`,
`aux_statbuf_size` from `MAX_STATS_PER_BLOCK`), `InputsKept` that merging loses no
in-memory match that it read. compress<> takes one of them per look-ahead, so
that several short ones in a row are written late, and those it has not come to
at the end of the block become literals; this costs compression only.

`block_compressor` (477 thousand states): three files of five blocks, a
pattern of period 1 or 3 with two bytes changed, so that repetitions of many
distances are cut at any place. Blocks of 12 bytes with chunks of 4, a dictionary
of three blocks that wraps in the fourth, `MAX_DIST` of 11, so that no block boundary and no step coincides with
the end of the window. Steps of the rolling hash are scaled from 4 bytes to 2,
the look-ahead to 2 and the pieces read back to 4 bytes, as a chunk
has 4 bytes instead of 512: a chunk still takes several steps and look-aheads,
matches end inside of them, and old data takes several reads. With the bit array
(`CYCLES` above 1) the loop looks up some of the same positions only, which an
open table covers; the run has `CYCLES` of 1.

`WholeUnits` is what the model asks and the program does not enforce: a block is a
whole number of chunks (with `-m3 -b100000b` archives cannot be decoded), a chunk a
whole number of steps (the program warns unless it is a power of 2), and with `-m3`
and no dictionary also of the shortest match (section 2.4).

### 2.6 Archive: second pass, formats and decoders

One model from the matches of the first pass to the decoder's output, for the
three formats, so that two programs that must agree are checked against each
other and not against a third description.

| code | model |
|---|---|
| `record_match` compress.cpp:9-27, any match it may record | `FindMatch`, `Statbuf` |
| collecting and sorting srep.cpp:822-843 (std::sort: equal sources in any order) | `Collected`, `SortMatches` |
| pieces, `saved_i`, RAM estimate srep.cpp:861-916 | `EncodeBlock` with `Pieces`, `SavedI`, `SumNeedMem` |
| the buffer of the list srep.cpp:820, 875-890 | `StatbufFits`, `OverflowStatbuf` |
| loop over blocks, end tests, checksum srep_dec.cpp:17-142 | `ReadBlock`, `EndMark`, `Decoded` |
| buffer and test of sizes srep_dec.cpp:33-45, 175-177 | `compbufsize`, `TooLarge` |
| `decompress` (I/O-LZ) decompress.cpp:18-50 | `DecodeIO`, `DecodeTailIO`, `FinishIO` |
| `decompress_FUTURE_LZ` 326-394 | `InsertMatches`, `DecodeMatch`, `DecodeTail`, `FinishBlock` |
| information mode srep_dec.cpp:68-98 | `Info` |

Byte p of the file is p itself if it is a literal, otherwise the byte its match
copies. Two positions thus hold the same value only when the matches say so, and
a copy from a wrong place is always seen (`OutputCorrect`). `RoundTrip` asks in
addition that the decoder accepts every list and writes the whole file, unless it stops
where a buffer ends; it needs fairness of `Next` only, as both programs are run to their
end.

Two buffers bound the lists. The second pass has room for bufsize / 4 STATs
(`FUTURELZ_MAX_STATS_PER_BLOCK`) and writes four for each piece without a test
(srep.cpp:820, 875-890). More than bufsize / 16 pieces from one block go beyond the buffer;
with the default `-l512` and blocks of 8 MB this takes more than 32 blocks copied from
one and the same, with shorter matches fewer. What follows is undefined,
so the model ends there (`OverflowStatbuf`, phase "overflow"), and section 4 has the run.
The lists of the first pass always fit their buffers (`ListIsValid` of `BlockCompressor`).
The decoder refuses a block whose literals and list are larger than its buffer
(`TooLarge`, phase "refused"); `ListsAccepted` says which of the program's own archives can be
refused: none of the second pass, and in I/O-LZ only those with matches shorter than half of a
record, less than 8 bytes. `-l` has no lower bound in the program (srep.cpp:292-320), so that both
cases can be met. An index is read into memory of its own, whatever its size.

* `archive` (20 thousand states for this, 286 thousand for section 2.7) tries every set of up to two matches in files of
  two full blocks and a half one (blocks of 4 bytes, 10 bytes in all), for
  I/O-LZ and Future-LZ with and without rounding, and Index-LZ for one block.
  Two matches are enough for overlaps, equal sources, a chain (the source of one
  is the other), a match across one or two block boundaries, and two pieces in
  one list; three blocks for a match that skips one. STAT has 5 values, so
  offsets need both words. A position stands for more than a byte here:
  lists have room for two pieces in a block of four positions.
* `archive_limits` (9 thousand states) has the buffers in the proportions of the program,
  a STAT being as long as a position, and matches of one position and more: lists fill
  the buffer of the second pass and overflow it, and I/O-LZ blocks are refused or just not.
* `archive_overflow`: two blocks that copy a third one (section 4).
* `archive_index`: Index-LZ with more than one block (section 4).

The model's output can be read back, as with the library calls
(`decompress_or_info_mem2mem`, callbacks). The memory limit is left to
`VmDecoder`, the storage of saved bytes to `MemoryManager`.

### 2.7 ChunkStore and MemoryManager: the decoder's store

| code | model |
|---|---|
| constructor, `available_space` decompress.cpp:142-156 | `useful_memory` (in the arithmetic of size_t), `available_space` |
| `save` with `allocate`, `allocate_block` 58-75, 95-140 | `SaveCall`, `AllocateBlock`, `SaveChunk`, `SaveReturn` |
| `restore` 77-86 | `RestoreCall`, `RestoreChunk`, `RestoreReturn` |
| `free` with `mark_as_free` 87-119 | `FreeCall`, `FreeChunk`, `FreeReturn` |
| link of a chunk, `first_free`, `used_chunks` | `next`, `first_free`, `used_chunks` |

`owner` and `place` are history variables: the area each chunk belongs to and
where in it. The caller asks `available_space()` before it saves, as
`decompress_FUTURE_LZ` does. `ImplementsChunkStore` hides chunks and lists:
areas under their own handles that come back as they were saved. `archive`
(`ArchiveMemory`: the manager's calls come after a file without matches) has blocks of three chunks, a limit of two blocks, areas
of one and of two chunks under two names: blocks run out, the free list mixes
chunks of all blocks, areas are scattered over them. Several areas may have the
same name and length, so the number of areas is bounded by the memory only.
`MemoryWithinLimit` includes that `used_chunks` is the number of chunks in use,
which `available_space` relies on.

### 2.8 MatchQueue and VmDecoder: swapping

| code (`decompress.cpp`) | model |
|---|---|
| `decompress_FUTURE_LZ` 318-397 as far as the heap goes | `InsertMatches`, `CopyMatch`, `CopyTail`, `FutureMatch`, `SaveMatch`, `NextBlock` |
| `save_to_disk` 235-283: scan of the heap, erase, write | `SaveToDisk`, `ScanSkip`, `ScanSave`, `WriteBlock` |
| `restore_from_disk` 284-309 and the erase of its caller | `RestoreCall`, `MoreMemory`, `RestoreBlock` |
| `lz_matches`, marks (length 0), the reverse iterator | `heap`, `Mark`, `base` |

A match is its destination, its length and whether its bytes are in memory.
After `erase` the reverse iterator is one entry further (`AfterErase`); where it
would step back from the first entry, the two outcomes a red-black tree gives are
both explored. Swapping is right if a mark in the heap comes no later than
what it stands for (`MarksInTime`) and a block of the file is marked or free and
not both (`BlocksNotShared`).

`MarksInTime` depends on the lengths. After an erase the scan passes over the next entry,
so that where long and short matches alternate only the short ones are saved, and the scan
can save the first entry before the block is full. Then it steps back from that entry
(`ScanStaysInHeap` is false) and may start again from the end: what it saves next is later than what is in
the block already, and so is the mark. Lengths decide if it gets there; `vm_decoder` has lengths
with which it does not, `vm_decoder_first` such with which it does. `SwapSafe`
says for all lengths that this is the only way for swapping to go wrong, and `BlocksNotShared` holds in
any case.

`MemoryWithinLimit`
is about chunks, with what is read back; the lengths of the run are such that what fits into
a swap block takes no more chunks than VMBLOCK_SIZE bytes (`RestoredFits(0)` of `VmDecoderProofs`).
This is not so for all lengths, nor for the default `-l512`; `LimitExceeded` (section 3) bounds the excess.
`ImplementsMatchQueue` says that swapping is not to be noticed: every match comes
back once, in the order of destinations. `DecodingEnds` (fairness of `Next`, the
decoder is sequential) says that no wait for memory is for ever.

`vm_decoder` (152 thousand states): four blocks of two destinations, lengths of
60, 144 and 396 bytes, room for nine chunks of 60 bytes and swap blocks of
168 bytes, so that swap blocks hold one or two matches, several are in use at
once, and reading one back forces another one out. `Reach` bounds how far ahead
a match may lie among the free destinations. Matches of 396 bytes are not saved but
read again, and the shorter ones fit into a swap block; with saved ones that do not
the program may never end (section 4). The memory is the least that srep_dec.cpp:193-194
gives, four swap blocks: ten chunks of 64 bytes less one, with 60 useful bytes each.

`vm_decoder_first` has the same memory and lengths of 8, 60 and 144 bytes, so that a heap
may have three short matches among longer ones and the scan gets to the first of them with
room left in the block. `MarksInTime` does not hold there (section 4): a decoder that goes on
takes a correct file for bad data. `SwapSafe` holds with these lengths, too, and `BlocksNotShared` whatever the
scan does, by the theorems of section 3.

### 2.9 Streams and DecompressDriver: the decompressor around its decoders

| code | model |
|---|---|
| `File`, `Cursor`, `CallbackRW` util.cpp, util.hpp | `Streams`: a record with cells and a position; `Read`, `SeekSet`, `SeekCur`, `WriteCounts`, `AfterWrite` |
| `decompress_or_info`, `_mem`, `_mem2mem`, `_intrnl_p` (callbacks) srep_dec.cpp:407-474 | `Inputs`, `Output`, `is_out_seekable` |
| `decompress_or_info_intrnl` 147-396 | `CheckHeader`, `ChooseHash`, `ReadSeed`, `ReadFooter`, `IndexInfo`, `OpenTempfile`, `Loop`, `Destroy` |
| `decompress_main` 13-142 | `Finish`, `ReadBlock`, `ReadIndexAsBlock`, `Decode`, `CheckBlock`, `WriteTemp`, `WriteOut` |
| `main` srep.cpp:989-1020 | `CloseFiles` |

An archive has a cell per piece (archive header, seed, header, list, literals,
index, footer), the output a cell per block. An archive may be cut after any
piece, may be foreign or of an unknown version or hash, and every write may fail
or fall short where the stream's kind allows it. What a decoder leaves follows
from what it is given: the block, if its list is its own and the data its matches
go back to are right; otherwise a wrong block, or an error.

* `OnlyCheckedData`: with checksums the output consists of right blocks in their
  order, whatever happened to tempfile, writes and archive. `NeverOverwritten`:
  nothing is written over a block that is in the output, although matches are
  read through the same position (srep_dec.cpp:135 seeks back). `SizeMeansBlocks`
  relates the size returned to the blocks written. `InfoExact`, that `-i` reports the
  memory needed, is proved only. `DriverEnds` needs fairness of `Next`: one thread runs until the
  call is over.
* `decompress_driver` (273 thousand states) has archives of up to three blocks and
  two matches, for each way of calling; three blocks are a first one, one written
  after a read of older data, and a match over a whole block. Limits for saved
  matches are 2 and 3 with matches of 1 and 2, so that a match is saved, or read
  back, and a tempfile is needed or not.
* `driver_delete` shows that an archive is deleted although decompression ended with an
  error (section 4).

### 2.10 Agreement: what both programs must compute alike

`Agreement` puts the parts side by side whose result is a function of their
input: a behaviour is one of one part, the variables of the others do not change.
`agreement` (344 thousand states) checks all of them.

*Hashes.* Words have the code's width and are sequences of bytes (`Words`), as TLC's
integers are too small. `MessageDigests` has init, process and done of the three
digests with their block buffer, one step per call and per round. `BlocksOfText`
says that, however a text is cut into calls, the blocks compressed are those of the
padded text; texts have the lengths around one and two blocks where the padding
changes. `KeyedHashes` has SipHash, VMAC with its polynomial and AES encryption with the tables
of aes_tab.c; `HashObjects` the objects that compressor and decompressor create from one
seed and use block after block. `SidesAgree`: equal blocks get equal checksums,
whatever was hashed before. (Blocks that go through `vhash_update` first are
included; vmac.h offers it, srep calls only `vhash`.) `ArithmeticExact` compares
the reductions with the definition modulo 2^127 - 1 and 2^64 - 257, at operands
around the moduli. `KnownAnswers` compares all functions with the vectors of the
self-tests in their sources (`SelfTests`); srep does not build these tests. The
published vectors of VMAC are for NH blocks of 128 bytes, hence `NhBytes` is 128
where srep has 4096. For other processors vmac.c has other variants of the same
arithmetic; the 64-bit one is modelled.

*Seeds.* In `Fortuna` SHA-512 and AES are symbols: a key is the list of steps it was
derived in. `SeedsFresh` says that no two blocks given out are one counter under
one key, none is a half of the next key, and every piece of entropy goes into
exactly the key that the schedule of pools has it in. Four pools instead of 32 and a reseed
every third read: all pools are drained within nine reads.

*Rolling hashes.* `RollsExactly`: after updates by one byte, by each stride the code
has, and after moves, the value is the hash of the window. Words of 32 and 64 bits,
windows of 1 to 20 bytes, which the strides divide or do not. With the CRC instruction
of a processor the first table of CrcRollingHash is not used.

*Chunks.* `HashTable` has all arrays of the table and is driven by the walk of
`compress<>`: prepare a block, skip covered positions, probe the bit array, look up
`CYCLES` positions. `NothingMissed`: a position that repeats a chunk is looked up,
and the lookup finds a chunk with these bytes or this hash, unless its slot, or that of a chunk that
stood for it, was given away (`lost`); the slices refuse only what is too short. `Chunking` cuts blocks by content,
both ways the code has, and looks chunks up in the same table. `ChunksRepeat`:
boundaries are in order and fit their array, every byte is in one chunk, and
every match repeats older bytes, since a chunk's digest is taken to tell bytes apart.
Stripes are one step each, as `CdcPool` shows their order. The texts are
256 sequences of phrases that repeat at every distance, for `Chunking` the 64 of
them that end with the two phrases they begin with. `HashBits` 14 (64) makes chunks share
slots, bits and hashes; `MAX_HASH_CHAIN` 4 (12) chains overflow; `SlicesInBlock` 4
(8); `STRIPE` 13 (116 KB), `WINSIZE` 2 (48), `MinimalMatch` 2 (16) and `Reach` 5
(8000) put two or more stripes in a block of 25 bytes and several chunks in a stripe.

The assumptions on the table's options (`TableAssumption`) are not enforced by the
program; section 4 says what happens without them. `ChunkingAssumption` types the jobs, and asks that the number of
every chunk of the shortest length fits a word of the table (`2 ^ HashBits` values), as 32 bits are for files up to terabytes.

## 3. Proofs

All theorems are checked by TLAPS with no step left out.

| theorem | says | for |
|---|---|---|
| `ThreadProofs!Inductive` | `IInv` is an invariant | every number of blocks, window, set of formats and faults |
| `TypeCorrect`, `OutputOrder`, `RecordOrder`, `TempfileComplete`, `SignalsKept`, `SuccessComplete`, `TooLongRefused`, `RaceFree` | the safety properties of the first pass | the same |
| `ThreadProofs!Refinement` | `BgPipeline` implements `FirstPass` | the same |
| `ThreadProofs!QueueInductive`, `QueueSound` | no lost wake-up, the ring never overfull (`QueueInvariant`) | every number of putters, getters and objects, every size |
| `ThreadProofs!QueueIsFifo` | `SyncQueue` implements `Fifo` | the same |
| `ThreadProofs!PoolInductive`, `PoolSound` | storages not shared, queues fit, workers gone at the end (`PoolInvariant`) | every number of workers, blocks and stripes |
| `ThreadProofs!PoolInOrder` | `CdcPool` implements `StripeOrder` | the same |
| `BlockCompressorProofs!OwnListRoundTrip`, `FutureListRoundTrip`, `RoundedRoundTrip` | decoding gives back what was encoded, if it fits the width of STAT, both sides use the same base and, with rounding, it consists of whole units | every base length, position, STAT width |
| `BlockCompressorProofs!Inductive` | `IInv` is an invariant | every file, block, window, chunk and step, every answer of the tables |
| `MatchesRight`, `WindowKept`, `ListSound` | `MatchesRepeat`, `StaysInWindow`, `ListIsSound` | the same |
| `ArchiveProofs!ListReadBack` | a match list is read back as the matches it was made from | every list whose records fit, in both orders, with and without rounding |
| `ArchiveProofs!OutputIsInput`, `WholeFileDecoded` | `OutputCorrect`; the decoder finds no bad data, the file is whole at its end, and only I/O-LZ blocks with matches of less than 8 bytes are refused for their size (`ListsAccepted`) | every file, block size, set of matches and limit of saved ones, as long as the lists of the second pass fit their buffer; Index-LZ files of one block (`IndexIsOneBlock`) |
| `ArchiveProofs!EstimateRight` | `EstimateExact` | the same |
| `MemoryManagerProofs!Invariance`, `TypeCorrect`, `RestoreCorrect` | lists are kept apart and complete; restore reads what was saved | every size of chunks, blocks and areas |
| `MemoryManagerProofs!LimitKept`, `Implements` | memory stays within the limit; `ChunkStore` is implemented | limits of at least one block, within the width of size_t |
| `VmDecoderProofs!Inductive`, `BlocksSafe` | every waiting match is in one place; a block of the file is marked or free, not both | every size of memory, swap blocks and matches, whatever way the scan takes |
| `VmDecoderProofs!RestoreStays` | the scan that makes room for a swap block does not step back from the first entry | the same |
| `VmDecoderProofs!SwapSound` | `SwapSafe` | the same |
| `VmDecoderProofs!SwapKept`, `Refinement` | `SwapInvariant`; `VmDecoder` implements `MatchQueue` | the same, for behaviours in which the scan that makes room for a match does not step back either (`ScanStaysSaving`) |
| `VmDecoderProofs!LimitExceeded` | by how much matches in memory can exceed the limit | the same; chunks longer than a match header, as 60 and 20 bytes are |
| `DecompressDriverProofs!Inductive` | `IInv` is an invariant | every archive, cut, call and fault |
| `DataChecked`, `SizeRight`, `InfoRight`, `NothingOverwritten` | `OnlyCheckedData`, `SizeMeansBlocks`, `InfoExact`, `NeverOverwritten` | the same |
| `AgreementProofs!SeedsStayFresh` | `SeedsFresh` | every number of pools, key length, number and size of reads, and answers of the system's generator |
| `AgreementProofs!TableMissesNothing` | `NothingMissed` | every text, block, chunk, table size, chain length, step of the probe, length and number of slices that `TableAssumption` allows |
| `AgreementProofs!ChunksAreRepeats` | `ChunksRepeat` | every text, block, stripe, chunk size, window and reach that `ChunkingAssumption` allows |
| `AgreementProofs!HeaderStaysKept`, `InputStaysRereadable` | `HeaderKept`, `InputRereadable` | every command line |
| `AgreementProofs!LengthsStayAgreed` | `LengthsAgree` | every command line, block size below the width of STAT, default length |
| `AgreementProofs!BlocksAreOfText` | `BlocksOfText` | MD5, SHA-1 and SHA-512, every text and every way to cut it into calls |
| `AgreementProofs!SidesStayAgreed` | `SidesAgree` | VMAC and SipHash, every seed, text and NH block size |

`FoldTheorems` has the lemmas about sums over sets and joined sequences that these rest on.

The assumptions are the named ASSUMEs of the modules, which give constants
their types and say that what is finite in the program is (the putters of a queue, the
matches of an archive), that the pieces a digest is given are its text (`DigestAssumption`) and that texts are bytes (`ObjectsAssumption`), `WholeUnits` of `BlockCompressor` (section 2.5), `TableAssumption` of `HashTable`
and `ChunkingAssumption`
(section 2.10; among them that the positions of the table and the numbers of all chunks fit its words, as the
code takes for granted), that a block is shorter than the width of a STAT (`OptionsAssumption`,
`CompressorAssumption`: bufsize is an unsigned), and hypotheses in the statements. `LimitIsSize`, for the
last two theorems on the memory manager: for a smaller limit the subtraction in the
constructor wraps around and the property is false. `[]ScanStaysSaving`, for two
theorems on the decoder: where it does not hold, the program has undefined behaviour
(`vm_decoder_first`); `SwapSound` and `BlocksSafe` do without it. `BufferAssumption` says of the
second pass's buffer that it has a STAT for each four bytes of a block at least. `IndexIsOneBlock`, for the theorems on
`Archive`: larger Index-LZ files are decoded with the wrong lists (section 4, `archive_index`).

*First pass.* The safety properties are not inductive: that the output is in
order depends on what the slots hold, and this on who may write them. `IInv`
(`BgPipelineInv`) reads off the two pcs how often each event was signalled and
waited for, `Consumed <= Written <= Taken <= Offered`, with the two event flags
as the differences (`Handshake`). From this follows which thread owns which slot,
and then, per pair of pcs, which block each field of a slot belongs to (`BgInv`,
`MainInv`, `WrittenInv`), how much is in output, records and tempfile
(`OutputInv`, `RecordInv`, `TempInv`), and how the threads end (`EndInv`). The
proof has one lemma per action, and in it one step per conjunct. Race freedom and
the refinement are proved from `IInv` without a further induction.

*Queue.* The event and the ring change in different steps of one critical section,
in an order that differs between `Put` and `Get`. `EventAhead` says what is true at
every step: the event is set while there is an object, and also while a putter is
about to store one or a getter about to reset it. With the mutual exclusion of
`MutexHeld` this gives `EventMeansObject` wherever a thread enters.
`AllCounted` counts the objects in the ring and those in the hands of putters and
getters against `outstanding`, which gives `ObjectsCounted`. For the refinement the
abstract queue is the ring read from its head, with what is stored or taken in the
current step counted at the step that takes effect.

*Pool.* Seen from the main thread the tasks of a block are a window of consecutive
stripes: `TasksInOrder` numbers them, with the storages taking turns, so that fewer
than `NumThreads` stripes have different ones. `OnePlace` says
that a task has one of the three places between the two queues, and `EventsApart`
that no two tasks have the same event; so a signal is for one task, and the main
thread wakes up for the right one. `StoragesKept` follows a storage from the worker that fills it to
the search that uses it, `StopsCounted` the workers `finish` has stopped. The tasks
that wait for a worker have different events, of which there are as many as storages,
so the pigeonhole principle gives `QueuesFit`.

*Search.* The properties speak of the list as its readers decode it, the steps of
positions and lengths that are encoded. `RecordRead` leads from one to the other: a record
that is appended is read, behind those before it, as the match it was made from, by the round-trip
theorems. So `Written` can say of the decoded list that its matches copy bytes of the file
(`Copies`), follow one another in the block (`InOrder`), end where `last_match_end` says,
and leave `literal_bytes`. What a match must have to be written is `Fits`; that the
search has it is shown for each way to a length: bytes compared both ways in the
dictionary (`Compared`: two places of the circle are the same distance apart in the
file, and neither was overwritten), digests of whole chunks and bytes after them
(`DigestLenIs`), bytes read back in pieces (`RereadLenIs`), rounded down (`Rounded`). An input
match that is cut by own matches is a part of a match that was right. For `InputsKept`,
`InputsCovered` says that what was read is covered up to the last `BASE_LEN - 1` bytes, and the
input that waits up to `last_match_end`; this needs `StepsEven`, by which the search
does not pass the end of a chunk. The buffers suffice because no match is shorter than
`Low`, so that a block has at most its length divided by `Low` of them.

*Archive.* The proof goes once through both programs. The lists: `ListReadBack` joins the
round trips of single records along a list, each record counted from the position the one
before it leaves (`From`), so that the second pass collects the matches the first pass
found (`CollectedHolds`), in whatever order of equal sources (`BySource`). The pieces:
`PiecesAre` says that the list of a block consists of just the parts of matches whose
source lies in the block (`PiecesOf`), because `SavedI` passes by none that reaches it
(`SavedPassed`); every byte a match covers is covered by one piece of it
(`PiecesCover`, `OnePiece`). The decoder: at position `pos` of block `b` its heap has just the
pieces that come from an earlier block, or from this one and end up in it, and still have to be
copied (`HeapIn`), each with its bytes if they were to be saved (`Held`). `Right` says that
what was put out is the file, and `FutureAt` adds that no piece is half copied and how
many literals were used; then the first piece due is the next one, the literals before it
are those of the file, and the copy, which may read what it writes, gives its bytes (`CopyRight`,
from the output file, from saved bytes or from the block). In I/O-LZ `IOAt` says the same of
the matches of the block, one after the other. `Data` and `Literals` are recursive
functions; that they exist and what they return is shown with `AllNumbers` (`DataExists`,
`PrefixExists`).

For the estimate, `SavedAfter(b)` is the set of pieces that come from the first `b` blocks,
end up later and are short enough to be saved. Second pass, information mode and decoder
compute it differently; each step removes and adds disjoint parts (`SavesNext`, `SavedNext`), so
all sums agree (`SumUnion`), and so do the maxima.

For `ListsAccepted`: a list of the second pass was written to a buffer of bufsize / 4 STATs (`StatsFit`), which the
decoder's buffer has room for besides a block of literals (`RecordsFit`). In I/O-LZ a match of 8 bytes and more
takes away as many literals as half of its record is long (`Room`, `OwnPasses`).

*Memory manager.* `IInv` gives every chunk one owner (`Owned`), says that the free
list has all free chunks, each nearer to the end than the one before
(`FreeListLinked`: `place` is the distance to the end, which replaces an induction
over the list), that an area's chunks are linked in the order of their bytes
(`ChunkOk`, `Apart`, `HeldLinked`), and where a running call stands
(`SaveLinked`, `RestoreLinked`, `FreeLinked`). `UsedCounted` links `used_chunks`
with the number of chunks not free; `LimitKept` needs it and counts chunks.

*Decoder with swap file.* `MatchesApart` says that no two matches have one
destination, wherever they are: in the heap, in a block, in the buffer being filled or
in the caller's hand. `MarksStand` says that a mark has the destination of one of the
matches in its block. Both survive a scan that goes wrong; `MarksInTime` does not, and
needs `ScanOrder`, that what was saved last is the lowest, and with it that no scan steps
back from the first entry. While a block is being restored its mark is the first entry of the
heap (`CurFirst`) and is not saved, so that this is only in question for the scan that makes
room for a match. The refinement maps heap, buffer and
marked blocks to one set of matches: saving and restoring are stutters, and the
next match that is copied is the least of them, as its mark would come before it.
For the memory, `FitsBlock` bounds the sum of records in each block, and a step that saves
one match leaves whole chunks, but one that restores a block compares bytes of the block
with bytes of chunks: a match of 61 bytes takes 81 bytes of the block and two chunks of
60. `LimitExceeded` bounds the difference with `SumBound`-like inductions over the matches of
a block; for the constants of the program, chunks of 60 bytes, 20 bytes of header and blocks of
8 MB, it is 259 thousand chunks, 15 MB above the limit.

*Decompressor.* That nothing is written over and that the output has right blocks
depend on each other through the position of the output. `OutputGrows` says
that the output is never longer than the blocks whose turn came (`Turns`), and
where the next write goes: in a file or on memory it is sought to the place of the block,
otherwise it is at the end. `PositionKept` locates the input: after k blocks it is
at `Before(k)`, the sum of the header, the seed, two pieces a block and a list for each block that has one,
so that a header that is read is that of the next block, and an index or a footer cannot pass
for one (for the index with an uncut archive, see `Whole`). `BlocksRight` then relates
block, output and failed writes, `MatchesWait` and `CutBetween` the end of an archive that was
cut. `MemoryCounted` says that `ram` is the sum over the matches that wait after the
current block: what is added and removed at one block are disjoint parts of that sum, hence
`SumUnion`.

*Seeds.* `FortunaInv` says in closed form what the generator holds after n pieces of
entropy. Those a pool was given are every `Pools`-th of them (`Share`), and the pool has all
of them until the reseed with number 2^x, from when on it is empty: that reseeds with a multiple of 2^x
as number get the whole share, all others nothing of it, is arithmetic of powers of 2
(`BitsOfMultiple`), so that each share is in one key (`PowerOnce`, `KeyAdded`). `Fresh` is about
the counter, which is never set back: every block given out is below it, no two had the same, and a key
made of the generator's own output consists of two that were not given out. Together they
give `PoolSchedule` (`FoldedOnce`, `ScheduleKept`) and the rest of `SeedsFresh`.

*Table of chunks.* A chunk that was added is `Findable` as long as some slot of its chain
but the last has a chunk that is the same for the comparison, and none before it is
empty; the walk of `find_match0` then ends at that slot or at an earlier one that is
the same. It is kept when a slot is taken (`ChunkAdded`), as `add_hash0` takes an empty
one, one with the same chunk, or the last but one, and what that one stood for is in `lost`. The
attempt to prove this showed that `lost` has to have more than the displaced chunk: chunks whose entries
were not stored because an equal one was there are gone with it. Whatever is in the bit array stays there
(`AllMarked`), and a position that the walk probes is the one of `CYCLES` consecutive positions at which
a window of a chunk that was added has been marked (`ProbeHolds`). The slices compare
what lies whole between the chunk and the end of the shortest match, each way; if they refuse, a slice
differs, and so do bytes within its reach (`SliceAfter`, `SliceBefore`, `BytesDiffer`), so
that the match would be too short (`ExtentIs`). `TableInv` joins these; the hash functions are
any functions of bytes.

*Chunks cut by content.* `ChunkInv` joins four parts. `Spots`: the chunks taken so far tile the block
up to `last_chunk`, the marks that are left lie in order in one stripe, behind it, and the last mark of
a block is its end. `Hashed`: the hash kept for a mark is that of the bytes from the mark before it,
which for the first one left may be in an earlier stripe. `Stocks`: what the table keeps as
digest and start of a chunk belongs together, up to the chunk being added. `Matched`: each match repeats the bytes
at its offset, and what the matches and literals stand for adds up to the way of the decoder. A stripe keeps
them because the marks that either search returns are in order and not nearer to each other than the
shortest chunk (`MarksFound`), so that they fit `MAX_CHUNKS`. Both searches are folds
over the positions, whose state at every place is given by the one before (`CutRuns`, `ZpaqRuns`). What `find_match_CDC`
takes from the table is a chunk of equal digest or none (`StopFound`), so that the bytes are equal as far as digests tell
bytes apart; if its size is the same, too, the bytes since the last match become literals before a new match (`MatchTaken`),
otherwise the chunk adds to the literals (`MatchedOn`).

*Options.* `OptionsInv` says that the settings stay ones the program knows
(`Settings`): 39 branches and 21 switches are gone through (`BranchTexts`, `SwitchSets`), and only those that check
it touch the method, the format or the name of the hash function. Four digits packed into a word come back
(`BytesBack`), for any base; version, number and sizes are such digits, the size of the checksum
less 16 modulo the base, and name and number of a hash function each tell which it is (`HashFound`). For the files,
`FilesNamed` is what `NameFiles` makes sure of: different names, and a copy if stdin is to be read twice.
`LengthInv` follows a match: what each of the three compressors finds is as long as the base length it is
written with, fits its words and, if it is rounded, consists of whole units (`WholeChunks`), so that its record can be
written and read back (`RecordRead`).

*Digests.* `BlocksOfText` looks at the blocks only. `DigestInv` says of the state between two calls where
in the text it is: after `m` bytes in whole blocks, with the next `r` in the buffer and everything
behind them in the pieces still to come (`ReadUpTo`; `Lies` locates a list of pieces in a text, so that taking a
block directly or filling up the buffer is a step from one place to the next).
`BlocksAre` computes the padded text block by block: blocks of the text, then the rest with its padding, in one block or in two
(`Ended`, which is the branch on 56 or 112 bytes in `done`). The step `close` finds just this in the buffer, and the
block it may have compressed before is the next one of the padded text (`Closing`).

*Keyed hashes.* `Running` is the hash of a text after each of its NH blocks, as `vhash` computes it. `vhash_update`
goes on with it from any block (`UpdatesGoOn`: the first block is added to the key, all others are steps of the polynomial),
and so does the `vhash` of what is left (`RestRuns`); so a hash is that of the text, whatever part
of it was given to `vhash_update` (`WholeHash`). `ObjectInv` says that between two texts an object is as
its key made it (`Ready`, which is what `vhash_abort` has to restore), and that all sums are functions of seed and text.

*Sums, joined sequences and powers.* The community modules define both with recursive
functions. The induction theorems of the library take an operator as a parameter,
which the provers cannot instantiate; `FoldTheorems` replaces induction on a formula
by the least element of a set of numbers (`Least`, `AllNumbers`), the set of those for which
the formula fails. It shows that the recursive functions exist, that they do not depend on
the order a set is taken in, and how they grow by one element, which is all that the
other proofs use.

Model-checked only: all liveness properties (`ThreadsEnd`, `EveryObjectIsTaken`,
`PoolEnds`, `RoundTrip`, `DecodingEnds`, `DriverEnds`), as TLAPS has no rule for
fairness; of `VmDecoder` `MemoryWithinLimit`, and `SwapInvariant` and the refinement
without the condition `ScanStaysSaving`, which depend on the lengths of matches (section 2.8); and of `Agreement` the values of the digests, the keyed and the rolling hashes
(`KnownAnswers`, `ArithmeticExact`, `RollsExactly`), which are
functions that recurse over texts and words, so that their values need an induction over data.

## 4. Disagreements between code and comments

Each one is a run that ends with a counterexample. Details and lines are in
`PROJECT.json`.

| run | what happens |
|---|---|
| `pipeline_header` | In Future-LZ mode the main thread copies a header to the record list after it gave the slot back; the checksum in it may be that of a later block, or of none. |
| `archive_overflow` | The second pass writes the match list of a block beyond its buffer when more than bufsize / 16 pieces come from that block. |
| `vm_decoder_first` | When the swapping scan saves the first entry of the heap, it goes on from the end of the heap: the mark of the swap block comes later than matches in it, and a correct archive is refused. |
| `archive_index` | Index-LZ files of more than one block: every block is decoded with the list of the first, as the pointers into the index are passed by value. |
| `driver_delete` | With `-delete` the archive is removed although it was not decoded: main does not look at the result of decompression. In the run the footer cannot be read; a write that fails has the same effect. |

`pipeline_header` and `archive_index` were seen with the program built from this source, too. What
follows was met while modelling and has no run of its own.

First pass and options:

* after a late write error the background thread ends, and the main thread waits
  for ever in `read()` or `wait()` (io.cpp:159-160, 168-169), so that the incomplete
  output is not deleted (srep.cpp:1010);
* an error leaves the scope of the first pass by `goto cleanup` (srep.cpp:633, 701,
  805), its destructors running while the thread may still work;
* content-defined chunking counts lengths from its own minimum
  (compress_cdc.cpp:179, 208), all readers from BASE_LEN; with both `-c` and `-l`,
  or a short `-l` or `-dl`, they differ, and files cannot be decoded;
* `-m3` with blocks that are not a whole number of chunks (2.5) or with chunks
  shorter than the shortest match (2.4) makes archives that cannot be decoded;
* `-vmfile=` and `-vmblock=` are never recognised, because the branch for options
  that begin with `-v` comes first (srep.cpp:183, 193-196); `-d` takes no notice
  of `-temp=` and `-index=`; `-d name`, where name does not end in .srep, writes to
  name.srep; and `-index=` or `-temp=` with the name of the input empties it;
* the check by slices shifts by 32 bits or more and misses matches when it has
  more than 8 slices to look at, as with `-m5 -l767` (hash_table.cpp:64-65, 78); for
  chunks of less than 8 bytes it divides by zero (17-20); and the last incomplete
  chunk gets an entry that `memreq` does not count (28, 56-60).

Decompression:

* `is_out_seekable` is taken from `strequ` as if this were strcmp, so that output to a
  file counts as not seekable and stdout as seekable (srep_dec.cpp:416);
* the `File` made for the tempfile is a temporary object whose destructor closes the
  `FILE` that has just been stored (srep_dec.cpp:369);
* a write that fails leaves `decompress_main` with a positive code, and its caller
  stops at negative ones only (srep_dec.cpp:387); the callback is called once more
  after the last block, with the old contents;
* a `Cursor` on memory of its caller limits a write that does not fit to
  `size + n - capacity` bytes, which is more than is left or fewer (util.cpp:110);
* a match that does not fit into a swap block, once it is the last one in memory,
  makes `save_to_disk` write empty blocks for ever (decompress.cpp:252-254, 387-388;
  the usage text, srep.cpp:376-377, names no such limit).

The models have all of these as the code has them, or exclude them by a named
assumption or a named set of inputs.

## 5. What is not modelled, and the plan

| part | why not |
|---|---|
| `MTCompressor` and the buffers around it in MultiThreading.h | not instantiated by any code of the repository |
| type headers and macros of LZMA2, headers of tomcrypt with prototypes | no behaviour |
| messages, progress, timing, wording of the usage text, the signal handler | nothing of the above depends on them |
| memory allocation, large pages, mapping of files in Common.cpp | calls of the operating system |
| variants of VMAC for other processors, AES decryption, xvhash | not built, or the same function of the same input |
| export, import and self-test of Fortuna | not called |
| semaphores and timed waits of the thread shims | not used by srep |

Plan:

1. `BgPipeline`, `MemoryManager`, `MatchCodec`, `SyncQueue`, `CdcPool`, `VmDecoder`,
   `DecompressDriver`, `BlockCompressor`: models and proofs done.
2. `Archive`: model and proofs done.
3. `Agreement`: models done; proofs of `CodecOptions`, `Fortuna`, `HashTable`, `Chunking`,
   `MessageDigests` and `HashObjects` done. Left: what the hash functions compute, for every text.
