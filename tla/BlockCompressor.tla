-------------------------- MODULE BlockCompressor --------------------------
(***************************************************************************)
(* One block of -m0, -m3, -m4 or -m5, from the bytes read to its list of   *)
(* matches: DictionaryCompressor::compress on the circular dictionary,     *)
(* then compress<> with HashTable, which merges what it finds with the      *)
(* matches of the first.  A hash may collide with any other, tables may    *)
(* have lost any entry; only a digest tells its bytes.                     *)
(***************************************************************************)
EXTENDS MatchCodec, SequencesExt, FiniteSetsExt

CONSTANTS
  Files,            \* contents explored: functions from 0 .. size-1 to bytes
  Modes,            \* [only (-m0), dict, digests (-m3) : BOOLEAN, min_match : Nat]
  BlockSize,        \* bufsize
  InmemL,           \* -dc: chunk of the in-memory compressor
  MAX_DIST,         \* -d: its dictionary
  dict_min_match,   \* -dl
  L,                \* chunk of compress<>
  CYCLES,           \* 1 or ACCELERATOR
  Unroll,           \* bytes hashed at once: 4
  LOOKAHEAD,        \* 256 or 128
  BUFSIZE           \* bytes read back at once: 4096

\* Numbers fit the words of a record
ASSUME CompressorAssumption ==
  /\ Modes \subseteq [only : BOOLEAN, dict : BOOLEAN, digests : BOOLEAN, min_match : Nat \ {0}]
  /\ {BlockSize, InmemL, MAX_DIST, dict_min_match, L, CYCLES, Unroll, LOOKAHEAD, BUFSIZE}
        \subseteq Nat \ {0}
  /\ BlockSize + 1 < StatValues
  /\ \A f \in Files : \E size \in 1 .. StatValues * StatValues :
       /\ DOMAIN f = 0 .. size - 1
       /\ \A m \in Modes : m.digests /\ ~m.dict
                              => size <= StatValues * Min({m.min_match, dict_min_match})

\* What the program does not enforce.  Chunks are numbered by position \div L, so
\* blocks must be whole chunks; the search takes steps that must end where chunks do
\* (L should be a power of 2, the program warns); -m3 rounds lengths to L, but
\* writes them in units of the smallest length
ASSUME WholeUnits ==
  /\ BlockSize % L = 0
  /\ L % Max({CYCLES, Unroll}) = 0
  /\ \A m \in Modes : m.digests /\ ~m.dict => L % Min({m.min_match, dict_min_match}) = 0

VARIABLES
  file, mode, n,   \* the input, the options, the number of the block
  ahead,           \* the next block was already read into the dictionary
  pc,
  last_i,          \* in-memory: start of the step, in the dictionary
  i, next_chunk,   \* compress<>: position in the block, end of the chunk
  last_match_end,  \* end of the last match written, in the block
  literal_bytes,
  list,            \* statbuf: the records written
  aux, instat,     \* aux_statbuf and the index of its next record
  input            \* the input match: start in the block, len, offset

job    == <<file, mode, n, ahead>>
output == <<last_match_end, literal_bytes, list>>
inputs == <<aux, instat, input>>
vars   == <<job, pc, last_i, i, next_chunk, output, inputs>>

-----------------------------------------------------------------------------
Size  == Cardinality(DOMAIN file)
Start == n * BlockSize
Length  == Min({BlockSize, Size - Start})
BASE_LEN == Min({mode.min_match, dict_min_match})
ROUND_MATCHES == mode.digests /\ ~mode.dict

\* The dictionary of the first pass, and the position of the block in it
dictsize == ((MAX_DIST + BlockSize - 1) \div BlockSize + 2) * BlockSize
bufstart == Start % dictsize
bufend   == bufstart + Length

\* Words in statbuf and in aux_statbuf, which holds the fence alone if there is no
\* in-memory compressor
MAX_STATS_PER_BLOCK(size, min_match) == (size \div min_match + 1) * 4
statbuf_size     == MAX_STATS_PER_BLOCK(BlockSize, BASE_LEN) + 10
aux_statbuf_size == IF mode.dict THEN MAX_STATS_PER_BLOCK(BlockSize, dict_min_match) + 10
                    ELSE StatsPerMatch(ROUND_MATCHES)

\* End of what was read so far
ReadEnd == Min({Size, Start + (IF ahead THEN 2 ELSE 1) * BlockSize})

\* Position in the file of the byte that dict[x] holds, negative if none
Held(x) == IF x \in 0 .. dictsize - 1 THEN (ReadEnd - 1) - ((ReadEnd - 1 - x) % dictsize) ELSE -1

SameInDict(x, y) == Held(x) >= 0 /\ Held(y) >= 0 /\ file[Held(x)] = file[Held(y)]

\* Bytes from position b that repeat those from a, within the block
Run(a, b) == Max({r \in 0 .. Start + Length - b : \A t \in 0 .. r - 1 : file[a + t] = file[b + t]})

SameChunk(a, b) == \A t \in 0 .. L - 1 : file[a + t] = file[b + t]

\* ENCODE_LZ_MATCH, which ends the program if the match is too short
Record(dest, offset, len, next) ==
  /\ list' = Append(list, Encode(ROUND_MATCHES, BASE_LEN, dest - last_match_end, offset, len))
  /\ last_match_end' = dest + len
  /\ literal_bytes' = literal_bytes - len
  /\ pc' = IF CanEncode(BASE_LEN, len) THEN next ELSE "error"

-----------------------------------------------------------------------------
(* DictionaryCompressor::compress; x and m are positions in the dictionary *)

\* What hasharr may hold: positions of earlier steps, of this block or of those
\* before, also if they were overwritten since.  0 means that a slot is empty
Indexed ==
  LET steps == (BlockSize \div InmemL - 1) * InmemL
      old   == {p \in 0 .. Start - 1 : p % BlockSize < steps}
      new   == Start .. Start + last_i - bufstart - 1
  IN  {p % dictsize : p \in old \cup new} \ {0}

DataStart == (bufstart + dictsize - MAX_DIST) % dictsize

Distance(x, m) == IF m < x THEN x - m ELSE dictsize - m + x

Near(x, m) == Distance(x, m) <= MAX_DIST

LowBound(x, m) ==
  IF m < DataStart THEN x - m
  ELSE IF m - DataStart > x THEN 0 ELSE x - (m - DataStart)

\* Mutant: the position that wraps around is the one in the block
HighBoundAny(x, m) == dictsize

HighBound(x, m) == IF m < x THEN dictsize ELSE dictsize - m + x

\* The positions around x that may be compared with those around m
From(x, m) == Max({bufstart + last_match_end, LowBound(x, m)})
To(x, m)   == Min({bufend, HighBound(x, m)})

find_match_start(x, m) ==
  Min({s \in From(x, m) .. x : \A t \in s .. x - 1 : SameInDict(t - x + m, t)} \cup {x})

find_match_end(x, m) ==
  Max({e \in x .. To(x, m) : \A t \in x .. e - 1 : SameInDict(t - x + m, t)} \cup {x})

\* One step of InmemL bytes, in which the position with the largest hash is
\* looked up and indexed
InmemStep ==
  /\ pc = "inmem" /\ mode.dict /\ last_i + 2 * InmemL <= bufend
  /\ last_i' = last_i + InmemL
  /\ \/ \E x \in last_i .. last_i + InmemL - 1, m \in Indexed :
          /\ x >= bufstart + last_match_end
          /\ Near(x, m)
          /\ LET start == find_match_start(x, m)
                 end   == find_match_end(x, m)
             IN  /\ end - start >= dict_min_match
                 /\ Record(start - bufstart, Distance(x, m), end - start, "inmem")
     \/ UNCHANGED <<output, pc>>
  /\ UNCHANGED <<job, i, next_chunk, inputs>>

-----------------------------------------------------------------------------
(* compress<> *)

\* DECODE_LZ_MATCH of the next input match, at a position in the block
ReadInput(pos, words) ==
  LET d == Decode(FALSE, ROUND_MATCHES, BASE_LEN, Start + pos, words)
  IN  [start |-> d.dest - Start, len |-> d.len, offset |-> d.dest - d.src]

\* Pseudo-match used to limit what is read from the input list
Fence == Encode(ROUND_MATCHES, BASE_LEN, Length + 1, BASE_LEN, BASE_LEN)

\* The in-memory list is complete: it is the result, or the input of compress<>
InmemEnd ==
  /\ pc = "inmem" /\ (mode.dict => last_i + 2 * InmemL > bufend)
  /\ IF mode.only
       THEN /\ pc' = "done"
            /\ UNCHANGED <<output, i, next_chunk, inputs>>
       ELSE /\ aux' = Append(list, Fence)
            /\ instat' = 2 /\ input' = ReadInput(0, aux'[1])
            /\ list' = <<>> /\ last_match_end' = 0 /\ literal_bytes' = Length
            /\ i' = 0 /\ next_chunk' = L
            /\ pc' = IF 2 * L <= Length THEN "first" ELSE "done"
  /\ UNCHANGED <<job, last_i>>

\* Chunks of earlier blocks and of this one that were added.  Chunk 0 never is
Chunks(added) == 1 .. (Start + added) \div L - 1

\* Mutant: equal hashes are taken for equal chunks
find_match_by_hash(p, k) == TRUE

\* find_match: -m3 compares digests, -m4 and -m5 some bits of hashes
find_match(p, k) == mode.digests => SameChunk(k * L, Start + p)

\* match_len before the match: -m3 leaves it out, the others compare up to L bytes
add_len(p, k) ==
  LET old == k * L
      b   == IF old < Start THEN Min({old, L, p - last_match_end})
                            ELSE Min({old - Start, L, p - last_match_end})
  IN  IF mode.digests THEN 0
      ELSE Max({c \in 0 .. b : \A t \in 1 .. c : file[Start + p - t] = file[old - t]})

\* match_len from the match on, -m3: whole chunks by their digests as far as they
\* lie before the block, then bytes
DigestLen(p, k) ==
  LET before == {c \in 1 .. Length \div L + 1 : (k + c) * L < Start}
      differ == {c \in before : \/ Length - (p + c * L) < L
                                \/ ~SameChunk((k + c) * L, Start + p + c * L)}
      c      == Max(before \cup {0}) + 1
  IN  IF differ # {} THEN Min(differ) * L
      ELSE c * L + Run((k + c) * L, Start + p + c * L)

\* -m4 and -m5: bytes, read back in pieces as far as they lie before the block;
\* a piece that the end of the file cuts off is not used
RereadLen(p, k) ==
  LET cut == {c \in 0 .. Size : /\ k * L + c * BUFSIZE < Start
                                /\ k * L + (c + 1) * BUFSIZE > Size}
      run == Run(k * L, Start + p)
  IN  IF cut = {} THEN run ELSE Min({run, Min(cut) * BUFSIZE})

\* record_match
FindMatch(p, k, next) ==
  LET len     == add_len(p, k) + IF mode.digests THEN DigestLen(p, k) ELSE RereadLen(p, k)
      rounded == IF ROUND_MATCHES THEN (len \div L) * L ELSE len
  IN  /\ find_match(p, k) /\ len >= mode.min_match
      /\ Record(p - add_len(p, k), Start + p - k * L, rounded, next)

\* The first position of the block is looked up whatever the input match is
CheckFirst ==
  /\ pc = "first"
  /\ \/ \E k \in Chunks(0) : FindMatch(0, k, "input")
     \/ pc' = "input" /\ UNCHANGED output
  /\ UNCHANGED <<job, last_i, i, next_chunk, inputs>>

\* Mutant: any rest is written
RestIsAny == input.start + input.len > last_match_end

\* At least BASE_LEN bytes are left of the input match after the last match
RestIsLong == input.start + input.len - BASE_LEN >= last_match_end

\* The start of the input match is reached: what own matches have left of it is
\* written, and the next one is read
NextInput ==
  /\ pc = "input" /\ i >= input.start
  /\ LET start == Max({input.start, last_match_end})
         end   == input.start + input.len
     IN  /\ IF RestIsLong THEN Record(start, input.offset, end - start, "skip")
                          ELSE pc' = "skip" /\ UNCHANGED output
         /\ input' = ReadInput(end, aux[instat])
  /\ instat' = instat + 1
  /\ UNCHANGED <<job, last_i, i, next_chunk, aux>>

NoInput ==
  /\ pc = "input" /\ i < input.start /\ pc' = "skip"
  /\ UNCHANGED <<job, last_i, i, next_chunk, output, inputs>>

X == Max({CYCLES, Unroll})

\* Where the search may go on, inside the match that was written last
next_i == Min({next_chunk - CYCLES, Max({last_match_end - 1, 0})})

\* Hash on without looking up, in steps of X bytes
SkipMatch ==
  /\ pc = "skip" /\ pc' = "look"
  /\ i' = IF next_i >= i + L \div 2 THEN (next_i \div X) * X
          ELSE i + (Max({next_i - i, 0}) \div X) * X
  /\ UNCHANGED <<job, last_i, next_chunk, output, inputs>>

\* Look up the next positions that no match covers; the first match found ends it
LookAhead ==
  LET last == Min({next_chunk, i + LOOKAHEAD})
      next == i + Max({(last - i + X - 1) \div X, 0}) * X
      then == IF next < next_chunk THEN "input" ELSE "add"
  IN  /\ pc = "look" /\ i' = next
      /\ \/ \E p \in i + 1 .. next, k \in Chunks(next_chunk) :
              /\ p >= last_match_end /\ p < input.start
              /\ FindMatch(p, k, then)
         \/ pc' = then /\ UNCHANGED output
      /\ UNCHANGED <<job, last_i, next_chunk, inputs>>

\* add_hash of the chunk at i, and the next chunk
AddChunk ==
  /\ pc = "add"
  /\ IF i <= Length - 2 * L THEN pc' = "input" /\ next_chunk' = i + L
                            ELSE pc' = "done" /\ UNCHANGED next_chunk
  /\ UNCHANGED <<job, last_i, i, output, inputs>>

-----------------------------------------------------------------------------
\* Any block of any file, as the read thread hands it over
Init ==
  /\ file \in Files /\ mode \in Modes /\ ahead \in BOOLEAN
  /\ n \in 0 .. (Size - 1) \div BlockSize
  /\ pc = "inmem" /\ last_i = bufstart
  /\ i = 0 /\ next_chunk = 0
  /\ last_match_end = 0 /\ literal_bytes = Length /\ list = <<>>
  /\ aux = <<>> /\ instat = 1 /\ input = [start |-> 0, len |-> 0, offset |-> 0]

Next == InmemStep \/ InmemEnd \/ CheckFirst \/ NextInput \/ NoInput \/ SkipMatch
          \/ LookAhead \/ AddChunk

Spec == Init /\ [][Next]_vars

-----------------------------------------------------------------------------
\* Where a decoder stands after k records of a list
ReadTo(round, base, start, records) ==
  LET pos[k \in 0 .. Len(records)] ==
        IF k = 0 THEN start
        ELSE LET d == Decode(FALSE, round, base, pos[k - 1], records[k]) IN d.dest + d.len
  IN  pos

\* The match in the k-th record, read as every decoder does
ReadMatch(round, base, start, records, k) ==
  Decode(FALSE, round, base, ReadTo(round, base, start, records)[k - 1], records[k])

FirstMatches(records, k) ==
  {ReadMatch(ROUND_MATCHES, BASE_LEN, Start, records, j) : j \in 1 .. k}

Matches(records) == FirstMatches(records, Len(records))

\* Every match written copies bytes of the file from an earlier position.
MatchesRepeat ==
  \A d \in Matches(list) :
    /\ 0 <= d.src /\ d.src < d.dest
    /\ \A t \in 0 .. d.len - 1 : file[d.src + t] = file[d.dest + t]

\* A list can be encoded, its matches lie in the block and do not overlap, and
\* header[0], the number of literals, is what they leave; it fits into statbuf, and
\* the list of the in-memory compressor with the fence into aux_statbuf.
ListIsValid ==
  LET ms == Matches(list)
  IN  /\ pc # "error"
      /\ \A d \in ms : Start <= d.dest /\ d.dest + d.len <= Start + Length
      /\ literal_bytes = Length - SumFunctionOnSet([d \in ms |-> d.len], ms)
      /\ Len(list) * StatsPerMatch(ROUND_MATCHES)
           <= IF pc = "inmem" /\ ~mode.only THEN aux_statbuf_size ELSE statbuf_size
      /\ Len(aux) * StatsPerMatch(ROUND_MATCHES) <= aux_statbuf_size

\* When the block is done, the matches of the in-memory compressor that were read are
\* in the list, save for those of which the matches with earlier blocks leave too little.
InputsKept ==
  pc = "done" /\ aux # <<>> =>
    LET read    == FirstMatches(aux, instat - 2)
        covered == UNION {d.dest .. d.dest + d.len - 1 : d \in Matches(list)}
    IN  \A d \in read : Cardinality((d.dest .. d.dest + d.len - 1) \ covered) < BASE_LEN

\* The merged list is one that can be encoded and decoded, and lost no match of the
\* in-memory compressor that was read.
ListIsSound == ListIsValid /\ InputsKept

\* Comparing two places of the dictionary never leaves it and never reads what the
\* background thread may overwrite, nor bytes of a later position.
StaysInWindow ==
  pc = "inmem" /\ mode.dict /\ last_i + 2 * InmemL <= bufend =>
    \A x \in last_i .. last_i + InmemL - 1, m \in Indexed :
      x >= bufstart + last_match_end /\ Near(x, m) =>
        \A t \in From(x, m) .. To(x, m) - 1 :
          Held(t - x + m) \in Start - MAX_DIST .. Held(t) - 1

=============================================================================
