--------------------------- MODULE MCCodecOptions ---------------------------
(***************************************************************************)
(* Command lines for the runs of CodecOptions.  Lengths are powers of 2:   *)
(* the program warns of others.                                            *)
(***************************************************************************)
EXTENDS CodecOptions

AllLines == [method : 0 .. 5, format : {"", "o"}, dict : BOOLEAN,
             l : {Unset, 1, 2, 4}, c : {Unset, 1, 2, 4}, dl : {Unset, 1, 2, 4}]

Option(text, n) == IF n = Unset THEN <<>> ELSE <<CmdWord(text, Arg(n, ""))>>

WordsOf(o) ==
  <<CmdWord("-m", Arg(o.method, o.format))>> \o (IF o.dict THEN <<CmdWord("-d", Arg(1, "k"))>> ELSE <<>>)
    \o Option("-l", o.l) \o Option("-c", o.c) \o Option("-dl", o.dl)

\* Checksums in all formats, and options of all other kinds between them
Flags == <<"-d", "-i", "-delete", "-mmap", "-nommap", "-s", "-s-", "-s+", "-sX.Y", "-f", "-a-",
           "-ia-", "-ia+", "-slp", "-slp-", "-slp+", "-hash-", "-nomd5", "-v", "-d-", "-d+">>
Others == <<CmdWord("-v", Arg(2, "")), CmdWord("-a", Arg(4, "/")), CmdWord("-index=", Arg(-1, "i")),
            CmdWord("-temp=", Arg(-1, "")), CmdWord("-mem", Arg(75, "%")), CmdWord("-mem", Arg(6, "m")),
            CmdWord("-s", Arg(3, "")), CmdWord("-b", Arg(1, "")), CmdWord("-t", Arg(2, "")), CmdWord("-rem", NoArg),
            CmdWord("-da", Arg(1, "")), CmdWord("-dc", Arg(1, "")), CmdWord("-dh", Arg(1, "")), CmdWord("-pc", NoArg),
            CmdWord("-m", Arg(64, "b")), CmdWord("-mx", Arg(-1, "f")), CmdWord("-x", NoArg), CmdWord("file", NoArg),
            CmdWord("-vmfile=", Arg(-1, "v")), CmdWord("-vmblock=", Arg(1, "")), CmdWord("--", NoArg)>>
AnyWord == {CmdWord(Flags[k], NoArg) : k \in DOMAIN Flags} \cup {Others[k] : k \in DOMAIN Others}

Methods == {CmdWord("-m", Arg(m, f)) : m \in {3, 4}, f \in {"", "f", "o"}}
HashLines ==
  {<<m, CmdWord("-hash=", Arg(-1, h))>> :
     m \in Methods, h \in {"md5", "", "sha1", "sha512", "vmac", "siphash"}}
OtherLines == {<<m, CmdWord("-hash=", Arg(-1, "sha1")), w>> : m \in Methods, w \in AnyWord}

\* Names of files: one or two of them, none, too many, and the same one twice
Names == {<<>>, <<"file">>, <<"file.srep">>, <<"-">>, <<"file", "file">>, <<"file", "out">>,
          <<"-", "out">>, <<"file", "-">>, <<"file", "out", "more">>}
FileLines ==
  {<<CmdWord("-m", Arg(m, f))>> \o options \o [k \in DOMAIN names |-> CmdWord(names[k], NoArg)] :
     m \in {3, 4}, f \in {"", "f"}, names \in Names,
     options \in {<<>>, <<CmdWord("-d", NoArg)>>, <<CmdWord("-i", NoArg)>>,
                 <<CmdWord("-index=", Arg(-1, "i"))>>,
                 <<CmdWord("-temp=", Arg(-1, ""))>>, <<CmdWord("-temp=", Arg(-1, "t"))>>}}

Checked(lines) == {[words |-> l, check |-> TRUE] : l \in lines}
MCLines == Checked({WordsOf(o) : o \in AllLines} \cup HashLines \cup OtherLines \cup FileLines)
             \cup {[words |-> l, check |-> FALSE] : l \in HashLines}
=============================================================================
