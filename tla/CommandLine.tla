---------------------------- MODULE CommandLine ----------------------------
(***************************************************************************)
(* The options of the program (srep.cpp, with parseInt, parseMem64 and     *)
(* split of Common.cpp): a chain of tests in which the first branch that   *)
(* fits takes the word.  A word is its leading text, as some branch or the *)
(* usage text spells it, and what follows: digits, a unit and, after a     *)
(* percentage, an amount to take off.                                      *)
(***************************************************************************)
EXTENDS Integers, Sequences, FiniteSetsExt

CONSTANTS
  Kb,              \* kb = 1024
  UnsignedValues,  \* values of unsigned: 2^32
  PhysicalMemory   \* GetPhysicalMemory()

ASSUME CommandLineAssumption ==
  Kb \in Nat \ {0} /\ UnsignedValues \in Nat \ {0} /\ PhysicalMemory \in Nat

\* What follows the text of a word; n is -1 if there are no digits
Arg(n, unit) == [n |-> n, unit |-> unit, less |-> 0]
NoArg        == Arg(-1, "")
CmdWord(text, arg) == [text |-> text, arg |-> arg]

Mb == Kb * Kb
Unset == 0
Unlimited == -1

\* Settings before the first option.  Zero stands for "not given" where the code
\* does so
Defaults ==
  [cmdmode |-> "compress", format |-> "index", method |-> 3, maximum_save |-> Unlimited,
   dictsize |-> 0, dict_hashsize |-> Unset, dict_min_match |-> Unset, dict_chunk |-> Unset,
   L |-> Unset, min_match |-> Unset, accel |-> 9000, ACCELERATOR |-> 9000,
   bufsize |-> 8 * Mb, vm_block |-> 8 * Mb, vm_mem |-> 75 * (PhysicalMemory \div 100),
   filesize |-> 25, NumThreads |-> Unset, io_accelerator |-> 1, LargePageMode |-> "try",
   selected_hash |-> "vmac", use_mmap |-> FALSE, delete |-> FALSE, print_pc |-> FALSE,
   verbosity |-> 2, option_s |-> "+", index_file |-> "", tempfile |-> "default",
   vmfile_name |-> "default", filenames |-> <<>>, errcode |-> 0]

AsUnsigned(n) == n % UnsignedValues
Fail(s) == [s EXCEPT !.errcode = 1]

\* parseInt: digits and nothing else
SetInt(s, field, arg) ==
  IF arg.n >= 0 /\ arg.unit = "" THEN [s EXCEPT ![field] = AsUnsigned(arg.n)] ELSE Fail(s)

\* parseMem64 looks at the character after the digits and ignores the rest
Factor(unit) == CASE unit = "b" -> 1 [] unit = "k" -> Kb [] unit = "m" -> Mb [] OTHER -> Kb * Mb
UnitOf(arg, spec) == IF arg.unit = "" THEN spec ELSE arg.unit
IsMem(arg, spec)  == arg.n >= 0 /\ UnitOf(arg, spec) \in {"b", "k", "m", "g", "^"}
Mem(arg, spec)    == IF UnitOf(arg, spec) = "^" THEN 2 ^ arg.n ELSE arg.n * Factor(UnitOf(arg, spec))
SetMem(s, field, arg, spec) ==
  IF IsMem(arg, spec) THEN [s EXCEPT ![field] = AsUnsigned(Mem(arg, spec))] ELSE Fail(s)

\* parse_mem_option: an amount, or a percentage of the memory less an amount
SetMemOption(s, field, arg) ==
  IF IsMem(arg, "m") THEN [s EXCEPT ![field] = Mem(arg, "m")]
  ELSE IF arg.n >= 0 /\ arg.unit \in {"%", "p"}
    THEN [s EXCEPT ![field] = arg.n * (PhysicalMemory \div 100) - arg.less]
  ELSE Fail(s)

\* hash_descriptors: numbers and sizes of keys and checksums in bytes, and whether
\* there is an object and a function
hash_descriptors ==
  <<[name |-> "md5",     num |-> 0, seed |-> 0,  size |-> 16, object |-> FALSE, func |-> TRUE],
    [name |-> "",        num |-> 1, seed |-> 0,  size |-> 16, object |-> FALSE, func |-> FALSE],
    [name |-> "sha1",    num |-> 2, seed |-> 0,  size |-> 20, object |-> FALSE, func |-> TRUE],
    [name |-> "sha512",  num |-> 3, seed |-> 0,  size |-> 64, object |-> FALSE, func |-> TRUE],
    [name |-> "vmac",    num |-> 4, seed |-> 32, size |-> 16, object |-> TRUE,  func |-> TRUE],
    [name |-> "siphash", num |-> 5, seed |-> 16, size |-> 8,  object |-> TRUE,  func |-> TRUE]>>

NoHash == [name |-> "?", num |-> -1, seed |-> 0, size |-> 0, object |-> FALSE, func |-> FALSE]
FirstHash(ks) == IF ks = {} THEN NoHash ELSE hash_descriptors[Min(ks)]
hash_by_name(n) == FirstHash({k \in DOMAIN hash_descriptors : hash_descriptors[k].name = n})
hash_by_num(n)  == FirstHash({k \in DOMAIN hash_descriptors : hash_descriptors[k].num = n})

SetHash(s, name) ==
  IF hash_by_name(name) = NoHash THEN Fail(s) ELSE [s EXCEPT !.selected_hash = name]

\* -m with a digit or x: a method and a format, else a limit for matches in memory
SetMethod(s, w) ==
  LET method == IF w.text = "-mx" THEN 5 ELSE w.arg.n
      format == CASE w.arg.unit = "" -> "index" [] w.arg.unit = "f" -> "future"
                  [] w.arg.unit = "o" -> "io" [] OTHER -> "none"
  IN  IF method \in 0 .. 5 /\ format # "none"
        THEN [s EXCEPT !.method = method, !.format = format]
      ELSE IF w.text = "-mx" THEN Fail(s)
      ELSE SetMem(s, "maximum_save", w.arg, "b")

\* A part of -d.  split() takes several apart at colons, to the same effect as that
\* many options.  What -da sets is dropped
SetDict(s, part) ==
  CASE part.text = "a" -> [s EXCEPT !.errcode = SetInt(s, "accel", part.arg).errcode]
    [] part.text = "c" -> SetMem(s, "dict_chunk", part.arg, "b")
    [] part.text = "l" -> SetMem(s, "dict_min_match", part.arg, "b")
    [] part.text \in {"", "d"} -> SetMemOption(s, "dictsize", part.arg)
    [] part.text = "h" -> SetMemOption(s, "dict_hashsize", part.arg)
    [] OTHER -> Fail(s)

-----------------------------------------------------------------------------
\* The branches in their order: the text tested for, and whether it must be all
\* of the word
Branches ==
  LET E(t) == [text |-> t, exact |-> TRUE]
      P(t) == [text |-> t, exact |-> FALSE]
  IN  <<E("-d"), E("-i"), E("-delete"), E("-mmap"), E("-nommap"), E("-s"), E("-s-"), E("-s+"), E("-sX.Y"),
        P("-m"), E("-f"), E("-a-"), P("-a"), E("-ia-"), E("-ia+"), E("-slp"), E("-slp-"),
        E("-slp+"), E("-hash-"), E("-nomd5"), P("-hash="), E("-v"), P("-v"), P("-pc"),
        P("-index="), P("-temp="), P("-vmfile="), P("-vmblock="), P("-mem"), P("-l"), P("-c"),
        P("-s"), P("-b"), E("-d-"), E("-d+"), P("-d"), P("-t"), P("-rem"), P("-")>>

StartsWith(text, prefix) ==
  Len(prefix) <= Len(text) /\ SubSeq(text, 1, Len(prefix)) = prefix

\* Two branches look at the character after their text as well
Applies(w, b) ==
  /\ IF b.exact THEN w.text = b.text /\ w.arg = NoArg ELSE StartsWith(w.text, b.text)
  /\ b.text = "-m" => w.text = "-mx" \/ (w.text = "-m" /\ w.arg.n >= 0)
  /\ b.text = "-a" => w.text = "-a" /\ w.arg.n >= 0

Branch(w) == Branches[Min({k \in DOMAIN Branches : Applies(w, Branches[k])})]

\* The branches that set something to what their text says
Switches ==
  [t \in {"-d", "-i", "-delete", "-mmap", "-nommap", "-s", "-s-", "-s+", "-sX.Y", "-f",
          "-a-", "-ia-", "-ia+", "-slp", "-slp-", "-slp+", "-hash-", "-nomd5", "-v", "-d-", "-d+"} |->
    CASE t = "-d" -> <<"cmdmode", "decompress">>   [] t = "-i" -> <<"cmdmode", "info">>
      [] t = "-delete" -> <<"delete", TRUE>>       [] t = "-mmap" -> <<"use_mmap", TRUE>>
      [] t = "-nommap" -> <<"use_mmap", FALSE>>    [] t = "-s" -> <<"option_s", "">>
      [] t = "-s-" -> <<"option_s", "-">>          [] t = "-s+" -> <<"option_s", "+">>
      [] t = "-sX.Y" -> <<"option_s", "X.Y">>
      [] t = "-f" -> <<"format", "future">>        [] t = "-a-" -> <<"accel", 0>>
      [] t = "-ia-" -> <<"io_accelerator", -1>>    [] t = "-ia+" -> <<"io_accelerator", 1>>
      [] t = "-slp" -> <<"LargePageMode", "try">>  [] t = "-slp-" -> <<"LargePageMode", "disable">>
      [] t = "-slp+" -> <<"LargePageMode", "force">>
      [] t \in {"-hash-", "-nomd5"} -> <<"selected_hash", "">>
      [] t = "-v" -> <<"verbosity", 1>>            [] t = "-d-" -> <<"dictsize", 0>>
      [] t = "-d+" -> <<"dictsize", 512 * Mb>>]

\* One round of the loop.  Where a longer word was caught by a shorter branch, its
\* argument does not start with a digit
ParseOption(s, w) ==
  LET b   == Branch(w)
      arg == IF w.text = b.text THEN w.arg ELSE NoArg
  IN  IF ~StartsWith(w.text, "-") \/ w.text = "-"
        THEN [s EXCEPT !.filenames = Append(@, w.text)]
      ELSE IF b.exact THEN [s EXCEPT ![Switches[b.text][1]] = Switches[b.text][2]]
      ELSE CASE b.text = "-m" -> SetMethod(s, w)
             [] b.text = "-a" -> [s EXCEPT !.accel = w.arg.n,
                                           !.ACCELERATOR = IF w.arg.unit = "/" THEN w.arg.less ELSE 9000,
                                           !.errcode = IF w.arg.unit \in {"", "/"} THEN 0 ELSE 1]
             [] b.text = "-hash=" -> SetHash(s, w.arg.unit)
             [] b.text = "-v" -> SetInt(s, "verbosity", arg)
             [] b.text = "-pc" -> [s EXCEPT !.print_pc = TRUE,
                                            !.errcode = IF arg = NoArg \/ IsMem(arg, "m") THEN 0 ELSE 1]
             [] b.text = "-index=" -> [s EXCEPT !.index_file = w.arg.unit]
             [] b.text = "-temp=" -> [s EXCEPT !.tempfile = w.arg.unit]
             [] b.text = "-vmfile=" -> [s EXCEPT !.vmfile_name = w.arg.unit]
             [] b.text = "-vmblock=" -> SetMem(s, "vm_block", arg, "m")
             [] b.text = "-mem" -> SetMemOption(s, "vm_mem", arg)
             [] b.text = "-l" -> SetMem(s, "min_match", arg, "b")
             [] b.text = "-c" -> SetMem(s, "L", arg, "b")
             [] b.text = "-s" -> IF IsMem(arg, "b") THEN [s EXCEPT !.filesize = Mem(arg, "b")]
                                 ELSE Fail(s)
             [] b.text = "-b" -> SetMem(s, "bufsize", arg, "m")
             [] b.text = "-d" -> SetDict(s, [text |-> SubSeq(w.text, 3, Len(w.text)), arg |-> w.arg])
             [] b.text = "-t" -> SetInt(s, "NumThreads", arg)
             [] b.text = "-rem" -> s
             [] OTHER -> Fail(s)
=============================================================================
