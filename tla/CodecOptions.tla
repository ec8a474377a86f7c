---------------------------- MODULE CodecOptions ----------------------------
(***************************************************************************)
(* From the command line to a match that is written and read again: the    *)
(* options, the lengths srep.cpp derives from -m, -l, -c, -d and -dl, the  *)
(* files it opens, the archive header that tells the decoder of all this,  *)
(* the matches each compressor can find with them, and the base length     *)
(* each of them gives ENCODE_LZ_MATCH.  The readers of a block's own list  *)
(* use BASE_LEN: save_data and the second pass their own, the I/O-LZ       *)
(* decoder the one in the header.                                          *)
(***************************************************************************)
EXTENDS MatchCodec, CommandLine

CONSTANTS
  CommandLines,       \* explored: [words, check], what is typed to compress, and
                      \* whether checksums are compared to decompress (no -hash-)
  ByteValues,         \* values of a byte in the archive header: 256
  LengthDefault,      \* 512, or 4096 for content-defined chunking
  MINIMAL_MIN_MATCH,  \* 16
  DEFAULT_MIN_MATCH,  \* 32
  DictMinDefault,     \* 512
  DEFAULT_ACCEL,      \* 4
  AccelDivisor,       \* 32 bytes of a chunk to a step of the default -a
  Processors,         \* GetProcessorsCount()
  BlockSize           \* bufsize

ASSUME OptionsAssumption ==
  /\ \A c \in CommandLines :
       c.check \in BOOLEAN /\ c.words \in Seq({c.words[n] : n \in DOMAIN c.words})
  /\ ByteValues \in Nat /\ ByteValues > 64
  /\ LengthDefault \in Nat \ {0}
  /\ {MINIMAL_MIN_MATCH, DEFAULT_MIN_MATCH, DictMinDefault, DEFAULT_ACCEL, AccelDivisor,
      Processors} \subseteq Nat \ {0}
  /\ BlockSize \in Nat \ {0} /\ BlockSize < StatValues   \* an unsigned

VARIABLES
  line,   \* the command line
  args,   \* words not looked at yet
  opt,    \* the settings
  par,    \* what was derived of it
  files,  \* names of the files: in, out, temp; once open, those opened in this order
  match,  \* the match found: by, pos, dest, src, len
  words,  \* its record in the STAT buffer
  found,  \* what a reader takes from this record
  header, \* archive header: version, hash, sizes; FUTURELZ_BASE_LEN
  check,  \* does the decoder compare checksums?
  dec,    \* what the decoder takes from the header
  stage   \* "parse" -> "options" -> "names" -> "open" -> "header" -> "search" ->
          \* "encode" -> "read" -> "done"; or "error"; or "usage"; or "decompress"
          \* if nothing is compressed

command == <<line, args, check>>
vars == <<command, opt, par, files, header, dec, match, words, found, stage>>

Nothing == <<>>

InMemory == opt.method = 0
CDC      == opt.method \in {1, 2}

\* rounddown_to_power_of(n, 2)
RoundDownToPower(n) == Max({p \in {2 ^ k : k \in 0 .. n} : p <= n})

\* The loop over the words.  After "--" all are file names
ParseNext ==
  /\ stage = "parse" /\ args # <<>>
  /\ IF Head(args).text = "--"
       THEN /\ opt' = [opt EXCEPT !.filenames = @ \o [n \in 1 .. Len(args) - 1 |-> args[n + 1].text]]
            /\ args' = <<>> /\ UNCHANGED stage
       ELSE /\ opt' = ParseOption(opt, Head(args))
            /\ args' = Tail(args)
            /\ stage' = IF opt'.errcode = 0 THEN "parse" ELSE "error"
  /\ UNCHANGED <<line, check, par, files, header, dec, match, words, found>>

ParseEnds ==
  /\ stage = "parse" /\ args = <<>> /\ stage' = "options"
  /\ UNCHANGED <<command, opt, par, files, header, dec, match, words, found>>

\* The lengths derived from the options
DeriveLengths ==
  /\ stage = "options"
  /\ LET dict  == opt.dictsize # 0 \/ InMemory
         l0    == IF opt.L = Unset /\ opt.min_match = Unset THEN LengthDefault
                  ELSE opt.min_match
         L     == IF opt.L # Unset THEN opt.L
                  ELSE IF opt.method = 5 THEN RoundDownToPower(l0 + 1) \div 2
                  ELSE l0
         l1    == IF opt.L = Unset /\ CDC THEN Unset ELSE l0
         min_match == IF l1 # Unset THEN l1 ELSE IF CDC THEN DEFAULT_MIN_MATCH ELSE L
         dict_min  == IF opt.dict_min_match = Unset THEN DictMinDefault ELSE opt.dict_min_match
     IN  IF CDC /\ dict
           THEN stage' = "error" /\ UNCHANGED par   \* Incompatible options
           ELSE /\ par' = [L |-> L, min_match |-> min_match, dict |-> dict,
                           dict_min_match |-> dict_min,
                           BASE_LEN |-> Min({min_match, dict_min}),
                           round |-> opt.method = 3 /\ ~dict]
                /\ stage' = "names"
  /\ UNCHANGED <<command, opt, files, header, dec, match, words, found>>

-----------------------------------------------------------------------------
(* The files                                                               *)

Stdio == "-"
SREP_EXT == ".srep"

EndsWith(name, ext) ==
  Len(ext) <= Len(name) /\ SubSeq(name, Len(name) - Len(ext) + 1, Len(name)) = ext
IsPacked(name) == EndsWith(name, SREP_EXT)
WithoutExt(name) == SubSeq(name, 1, Len(name) - Len(SREP_EXT))

\* Without any name, and with both ends redirected, data pass from stdin to stdout
FileNames(redirected) ==
  IF opt.filenames = <<>> /\ redirected THEN <<Stdio, Stdio>> ELSE opt.filenames

\* A single name tells what to do and what the other file is called
OutputName(names) ==
  CASE opt.cmdmode = "info" -> "/dev/null"
    [] Len(names) = 2 -> names[2]
    [] OTHER -> IF IsPacked(names[1]) THEN WithoutExt(names[1]) ELSE names[1] \o SREP_EXT
Command(names) ==
  IF opt.cmdmode # "info" /\ Len(names) = 1 /\ IsPacked(names[1]) THEN "decompress" ELSE opt.cmdmode

\* Mutant: Future-LZ forgotten, whose second pass reads the data again as well
MatchesOnlyOnce == opt.method <= 3

\* -m0 to -m3 other than Future-LZ
single_pass_compression == opt.method <= 3 /\ opt.format # "future"

\* A copy of what comes from stdin, if it has to be read again
MustCopy(names) ==
  /\ Command(names) = "compress" /\ ~single_pass_compression /\ names[1] = Stdio

NameFiles ==
  /\ stage = "names"
  /\ \E redirected \in BOOLEAN :
       LET names == FileNames(redirected)
           out   == OutputName(names)
       IN  IF names = <<>> THEN stage' = "usage" /\ UNCHANGED <<opt, files>>
           ELSE IF \/ Len(names) > IF opt.cmdmode = "info" THEN 1 ELSE 2  \* Too much filenames
                   \/ MustCopy(names) /\ opt.tempfile = ""
                   \/ names[1] # Stdio /\ names[1] = out  \* should have different names
             THEN stage' = "error" /\ UNCHANGED <<opt, files>>
           ELSE /\ opt' = [opt EXCEPT !.cmdmode = Command(names)]
                /\ files' = [in |-> names[1], out |-> out, opened |-> <<>>,
                             temp |-> IF opt.tempfile # "default" THEN opt.tempfile
                                      ELSE IF MustCopy(names) THEN "srep-data.tmp" ELSE ""]
                /\ stage' = "open"
  /\ UNCHANGED <<command, par, header, dec, match, words, found>>

Opened(file, name, mode) == [file |-> file, name |-> name, mode |-> mode]

\* fin, fout, fstat and, to compress, ftemp: what is opened under which name
ToOpen ==
  LET compress == opt.cmdmode = "compress"
      fin      == Opened("fin", files.in, "rb")
      fout     == Opened("fout", files.out, "w+b")
      fstat    == IF opt.index_file # ""
                    THEN Opened("fstat", opt.index_file, IF compress THEN "wb" ELSE "rb")
                  ELSE IF compress THEN [fout EXCEPT !.file = "fstat"] ELSE [fin EXCEPT !.file = "fstat"]
      ftemp    == IF files.temp # "" THEN Opened("ftemp", files.temp, "w+b")
                  ELSE [fin EXCEPT !.file = "ftemp"]
  IN  <<fin, fout, fstat>> \o IF compress THEN <<ftemp>> ELSE <<>>

\* -a is smaller for small L, and steps over at most 16 positions at a time
DefaultAccel == IF opt.accel # 9000 THEN opt.accel
                ELSE Min({Max({par.L \div AccelDivisor, 1}), DEFAULT_ACCEL})

\* The n-th of them may be missing or refused, stdin and what is open already not
MayFail(n) ==
  /\ ToOpen[n].name # Stdio
  /\ ToOpen[n].file = "fstat" => opt.index_file # ""

OpenFails ==
  /\ stage = "open"
  /\ \E n \in DOMAIN ToOpen :
       /\ MayFail(n) /\ \A k \in 1 .. n - 1 : ToOpen[k].name # ""
       /\ files' = [files EXCEPT !.opened = SubSeq(ToOpen, 1, n - 1)]
  /\ stage' = "error"
  /\ UNCHANGED <<command, opt, par, header, dec, match, words, found>>

OpenFiles ==
  /\ stage = "open"
  /\ \A n \in DOMAIN ToOpen : ToOpen[n].name # ""
  /\ files' = [files EXCEPT !.opened = ToOpen]
  /\ opt' = [opt EXCEPT !.accel = DefaultAccel,
                        !.ACCELERATOR = IF opt.ACCELERATOR = 9000 THEN Min({DefaultAccel, 16})
                                         ELSE opt.ACCELERATOR,
                        !.NumThreads = IF opt.NumThreads = Unset THEN Processors ELSE opt.NumThreads,
                        !.use_mmap = opt.use_mmap /\ (opt.cmdmode = "compress" => files.temp = "")]
  /\ stage' = IF opt.cmdmode = "compress" THEN "header" ELSE "decompress"
  /\ UNCHANGED <<command, par, header, dec, match, words, found>>

-----------------------------------------------------------------------------
(* The archive header                                                      *)

hash == hash_by_name(opt.selected_hash)

\* SREP_FORMAT_VERSION1 .. 4
FormatVersion ==
  CASE opt.format = "index" -> 4 [] opt.format = "future" -> 3
    [] opt.format = "io" -> IF par.round THEN 1 ELSE 2

\* Place value of byte n
Power(n) == LET B == ByteValues IN <<1, B, B * B, B * B * B, B * B * B * B>>[n + 1]

\* Mutant: the sizes share a byte
HeaderWordShared ==
  FormatVersion + hash.num * Power(1) + hash.seed * Power(2) + hash.size * Power(2)

\* header[2]; a checksum shorter than 16 bytes gives a negative size, which wraps
HeaderWord ==
  (FormatVersion + hash.num * Power(1) + hash.seed * Power(2)
     + ((hash.size - 16) % ByteValues) * Power(3)) % Power(4)

WriteHeader ==
  /\ stage = "header"
  /\ header' = <<HeaderWord, IF opt.format = "io" THEN par.BASE_LEN ELSE 0>>
  /\ stage' = "decoder"
  /\ UNCHANGED <<command, opt, par, files, dec, match, words, found>>

HeaderByte(n) == (header[1] \div Power(n)) % ByteValues

\* What decompress_or_info_intrnl reads.  A hash it does not know, or of which it
\* has only a shorter form, is not compared; a key of the wrong size makes no object
ReadHeader ==
  /\ stage = "decoder"
  /\ LET version   == HeaderByte(0)
         seed_size == HeaderByte(2)
         hash_size == (HeaderByte(3) + 16) % ByteValues
         saved     == hash_by_num(HeaderByte(1))
         known     == saved # NoHash /\ seed_size <= saved.seed /\ hash_size <= saved.size
         selected  == IF check /\ known THEN saved ELSE hash_by_name("")
     IN  dec' = [format |-> CASE version <= 2 -> "io" [] version = 3 -> "future"
                              [] OTHER -> "index",
                 round |-> version = 1, BASE_LEN |-> header[2],
                 seed_size |-> seed_size, hash_size |-> hash_size, hash |-> selected,
                 object |-> selected.object /\ seed_size = selected.seed]
  /\ stage' = "search"
  /\ UNCHANGED <<command, opt, par, files, header, match, words, found>>

-----------------------------------------------------------------------------
(* A match                                                                 *)


\* A match in the current block, its literals starting at pos
Match(by, pos, dest, src, len) ==
  [by |-> by, pos |-> pos, dest |-> dest, src |-> src, len |-> len]

\* The current block is the second of the file
Positions == BlockSize .. 2 * BlockSize - 1

\* In-memory compressor: any distance, at least dict_min_match bytes.  With -m3
\* to -m5 its matches come in a list of their own and may be cut to BASE_LEN
\* bytes before they are written
FindInDictionary ==
  /\ stage = "search" /\ par.dict
  /\ \E pos, dest \in Positions, src \in 0 .. 2 * BlockSize - 2, len \in 1 .. BlockSize :
       /\ pos <= dest /\ src < dest /\ dest + len <= 2 * BlockSize
       /\ len >= IF InMemory THEN par.dict_min_match ELSE par.BASE_LEN
       /\ match' = Match("dictionary", pos, dest, src, len)
  /\ stage' = "encode"
  /\ UNCHANGED <<command, opt, par, files, header, dec, words, found>>

\* compress<>: chunk k of L bytes is found again at i, by its digest with -m3, by
\* a hash otherwise.  -m4 and -m5 extend the match to the left.  A match of at
\* least min_match bytes is recorded (record_match), without dictionary in -m3
\* after its length has been rounded down to whole chunks
FindChunk ==
  /\ stage = "search" /\ opt.method \in 3 .. 5
  /\ \E pos, i \in Positions, k \in 1 .. 2 * BlockSize, len \in 1 .. BlockSize :
     \E add_len \in IF opt.method = 3 THEN {0} ELSE {0, 1} :
       LET dest == i - add_len
           src  == k * par.L - add_len
       IN  /\ pos <= dest /\ k * par.L < i /\ src >= 0
           /\ dest + len <= 2 * BlockSize /\ len >= par.min_match
           /\ opt.method = 3 => len >= par.L
           /\ match' = Match("chunk", pos, dest, src,
                             IF par.round THEN (len \div par.L) * par.L ELSE len)
  /\ stage' = "encode"
  /\ UNCHANGED <<command, opt, par, files, header, dec, words, found>>

\* MIN_MATCH of compress_CDC
CdcMinMatch == Max({par.min_match, MINIMAL_MIN_MATCH})

\* compress_CDC: a chunk of any size that was seen before
FindCdcChunk ==
  /\ stage = "search" /\ CDC
  /\ \E pos, dest \in Positions, src \in 0 .. 2 * BlockSize - 2, len \in 1 .. BlockSize :
       /\ pos <= dest /\ src < dest /\ dest + len <= 2 * BlockSize
       /\ len >= CdcMinMatch
       /\ match' = Match("cdc", pos, dest, src, len)
  /\ stage' = "encode"
  /\ UNCHANGED <<command, opt, par, files, header, dec, words, found>>

\* Mutant: the dictionary compressor counts lengths from its own minimum
DictionaryBase == IF match.by = "cdc" THEN CdcMinMatch
                  ELSE IF match.by = "dictionary" THEN par.dict_min_match
                  ELSE par.BASE_LEN

\* The base length the compressor that found the match encodes with
WriterBase == IF match.by = "cdc" THEN CdcMinMatch ELSE par.BASE_LEN

\* ENCODE_LZ_MATCH, which ends the program if the match is too short
EncodeMatch ==
  /\ stage = "encode"
  /\ IF CanEncode(WriterBase, match.len)
       THEN /\ words' = Encode(par.round, WriterBase, match.dest - match.pos,
                               match.dest - match.src, match.len)
            /\ stage' = "read"
       ELSE stage' = "error" /\ UNCHANGED words
  /\ UNCHANGED <<command, opt, par, files, header, dec, match, found>>

\* DECODE_LZ_MATCH by a reader of the block's list: the compressor in the background
\* thread or the second pass, or the decoder
ReadMatch ==
  /\ stage = "read"
  /\ LET reader == IF opt.format = "io" THEN dec ELSE par IN
     found' = Decode(FALSE, reader.round, reader.BASE_LEN, match.pos, words)
  /\ stage' = "done"
  /\ UNCHANGED <<command, opt, par, files, header, dec, match, words>>

Init ==
  /\ \E c \in CommandLines : line = c.words /\ args = line /\ check = c.check
  /\ opt = Defaults
  /\ header = Nothing /\ dec = Nothing
  /\ par = Nothing /\ files = Nothing /\ match = Nothing /\ words = Nothing /\ found = Nothing
  /\ stage = "parse"

Next == ParseNext \/ ParseEnds \/ DeriveLengths \/ NameFiles \/ OpenFails \/ OpenFiles
          \/ WriteHeader \/ ReadHeader \/ FindInDictionary \/ FindChunk \/ FindCdcChunk
          \/ EncodeMatch \/ ReadMatch

Spec == Init /\ [][Next]_vars

-----------------------------------------------------------------------------
\* What the decoder takes from the header is what the encoder used: the format, the
\* length and unit of the lists it reads, the place checksums take in the block
\* headers, and, if it compares them, the function and its key.
HeaderKept ==
  dec # Nothing =>
    /\ dec.format = opt.format
    /\ opt.format = "io" => dec.round = par.round /\ dec.BASE_LEN = par.BASE_LEN
    /\ opt.format # "io" => ~dec.round /\ dec.BASE_LEN = 0
    /\ dec.hash_size = hash.size /\ dec.seed_size = hash.seed
    /\ check => dec.hash = hash /\ dec.object = hash.object
    /\ ~check => ~dec.hash.func

\* Where the compressor goes back to data it has read, to check a match or in the
\* second pass of Future-LZ, it reads a file and not stdin, which gives nothing a
\* second time (a copy named "-" is a file); that file is the input or a copy being
\* made of it; and opening the others, in whatever order, has not emptied it, unless
\* the user named it for one of them.
InputRereadable ==
  stage = "header" =>
    LET ftemp == files.opened[4]
    IN  /\ opt.method > 3 \/ opt.format = "future" => ftemp.name # Stdio \/ ftemp.mode = "w+b"
        /\ ftemp.name = files.in \/ (ftemp.name = files.temp /\ ftemp.mode = "w+b")
        /\ \A k \in DOMAIN files.opened :
             files.opened[k].mode \in {"wb", "w+b"} /\ files.opened[k].name \notin {opt.index_file, files.temp}
               => files.opened[k].name # files.in \/ files.in = Stdio

\* A match that a compressor records can be written: ENCODE_LZ_MATCH does not
\* find it too short.
EncodeAccepts == match # Nothing => stage # "error"

\* What the readers of a match list see is the match that was found.
ReadBack ==
  stage = "done" =>
    found = [lit  |-> match.dest - match.pos, len |-> match.len,
             src  |-> match.src, dest |-> match.dest]

\* Where they can: content-defined chunking counts lengths from its own minimum,
\* and -m3 without dictionary writes chunks in units of BASE_LEN, the distance in
\* a single STAT
LengthsFit ==
  par # Nothing =>
    /\ {par.L, par.min_match, par.dict_min_match} \subseteq Nat \ {0}
    /\ CDC => CdcMinMatch = par.BASE_LEN
    /\ par.round => par.L % par.BASE_LEN = 0 /\ 2 * BlockSize <= StatValues * par.BASE_LEN

\* Writers and readers of match lists agree on the base length and the unit, and
\* no compressor records a match that is too short for them.
LengthsAgree == LengthsFit => EncodeAccepts /\ ReadBack
=============================================================================
