------------------------------ MODULE Agreement -------------------------------
(* The parts whose result is a function of their input, side by side: the     *)
(* numbers of the options and the header (CodecOptions), the hash functions   *)
(* (Hashes), the search for repeated chunks (HashTable) and content-defined   *)
(* chunks (Chunking).  What they compute, the compressor and the decompressor *)
(* must agree on, or two threads, or two blocks.  They share no state: a      *)
(* behaviour is one of one part, and the others stay idle.                    *)
EXTENDS CodecOptions, Hashes, Chunking

OptionsIdle ==
  /\ line = <<>> /\ args = <<>> /\ check = FALSE /\ opt = Defaults
  /\ par = Nothing /\ files = Nothing /\ match = Nothing /\ words = Nothing /\ found = Nothing
  /\ header = Nothing /\ dec = Nothing /\ stage = "idle"

AgreementInit ==
  \/ part = "options" /\ Init /\ HashesIdle /\ TableIdle /\ ChunksIdle
  \/ HashInit /\ OptionsIdle /\ TableIdle /\ ChunksIdle
  \/ part = "table" /\ HashesIdle /\ OptionsIdle /\ TableInit /\ ChunksIdle
  \/ part = "chunks" /\ HashesIdle /\ OptionsIdle /\ ChunksInit

AgreementNext ==
  \/ part = "options" /\ Next /\ UNCHANGED <<hashVars, tableVars, chunkVars>>
  \/ HashNext /\ UNCHANGED <<vars, tableVars, chunkVars>>
  \/ part = "table" /\ TableNext /\ UNCHANGED <<vars, hashVars, chunkVars>>
  \/ part = "chunks" /\ ChunksNext /\ UNCHANGED <<vars, hashVars>>
AgreementSpec == AgreementInit /\ [][AgreementNext]_<<vars, hashVars, tableVars, chunkVars>>
=============================================================================
