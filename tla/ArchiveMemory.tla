----------------------------- MODULE ArchiveMemory -----------------------------
(***************************************************************************)
(* A file that goes through the second pass and the decoder (Archive), and *)
(* the memory manager where the decoder keeps the bytes of matches         *)
(* (MemoryManager), one after the other.  They share no state here: the    *)
(* calls of the manager are all sequences of calls, made after a file      *)
(* without matches.                                                        *)
(***************************************************************************)
EXTENDS MCArchive, MemoryManager

NoMatches ==
  /\ [format |-> format, round |-> round, total |-> total] = CHOOSE c \in Cases : TRUE
  /\ matches = <<>>

RoundTripStep == Next /\ UNCHANGED memoryVars
MemoryStep    == NoMatches /\ phase = "done" /\ MemoryNext /\ UNCHANGED vars

DecoderInit == Init /\ MemoryInit
DecoderNext == RoundTripStep \/ MemoryStep
DecoderSpec == DecoderInit /\ [][DecoderNext]_<<vars, memoryVars>>

\* Compressor and decompressor are run to their end
DecoderFairSpec == DecoderSpec /\ WF_vars(RoundTripStep)
=============================================================================
