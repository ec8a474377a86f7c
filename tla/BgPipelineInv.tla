--------------------------- MODULE BgPipelineInv ---------------------------
(***************************************************************************)
(* The inductive invariant of BgPipeline.  The four counters say how often *)
(* each event was signalled and waited for; they are read off the pcs, so  *)
(* the two-slot handshake becomes  consumed <= written <= taken <= offered *)
(* with the two event flags as the differences.                            *)
(***************************************************************************)
EXTENDS BgPipeline

BgAhead == {"read", "size", "prepare", "waitWrite"}
BgSaves == {"saveHeader", "saveStat", "saveLiterals"}
MainWork == {"temp", "compress", "fill", "write", "checkWrite", "store"}
MainEnds == {"wait", "checkEnd", "destroy", "cleanup", "exit"}

\* ReadDone signals, WriteReady waits, WriteReady signals, ReadDone waits
Offered  == IF bgPc \in BgSaves \union {"eof", "cleanup", "done"}
              THEN pos + 1 ELSE pos
Consumed == IF pos # 0 /\ bgPc \in BgAhead THEN pos - 1 ELSE pos
Written  == IF mainPc \in {"checkWrite", "store"} THEN origsize + 1 ELSE origsize
Taken    == IF mainPc = "read" THEN origsize ELSE origsize + 1

\* Match list and header of slot i are those of block b
Encoded(i, b) == slot[i].stat = b /\ slot[i].hdr = b

\* Input data of block b is in slot i
Loaded(i, b) ==
  /\ slot[i].len = 1 /\ slot[i].ptr = b % DictBlocks
  /\ dict[b % DictBlocks] = b

\* The types that the steps preserve by themselves: control, then data
ControlTypes ==
  /\ mode \in Modes /\ nblocks \in Block /\ limit \in 0 .. nblocks
  /\ usetemp \in BOOLEAN
  /\ bgPc \in BgPcs /\ pos \in Nat
  /\ readDone \in BOOLEAN /\ writeReady \in BOOLEAN /\ bgFinished \in BOOLEAN
  /\ bgErr \in {"ok", "io"} /\ mainErr \in {"ok", "io"}
  /\ mainPc \in MainPcs
  /\ k \in 0 .. BUFFERS - 1 /\ origsize \in Nat
  /\ freed \in BOOLEAN /\ removed \in BOOLEAN

DataTypes ==
  /\ dict \in [0 .. DictBlocks - 1 -> MaybeBlock]
  /\ slot \in [0 .. BUFFERS - 1 -> SlotType]
  /\ blocks \in Seq([hdr : MaybeBlock, hash : MaybeBlock, stat : MaybeBlock])
  /\ ftemp \in Seq(MaybeBlock)
  /\ out \in Seq([part : {"header", "stat", "literals"}, blk : MaybeBlock,
                  hash : MaybeBlock])

\* An error takes its thread out of its loop
ErrorInv ==
  /\ bgErr # "ok" => bgPc \in {"giveUp", "cleanup", "done"}
  /\ bgPc = "giveUp" => bgErr # "ok"
  /\ mainErr # "ok" => mainPc \in {"destroy", "cleanup", "exit"}

\* The events are what is signalled and not yet waited for, and the threads
\* work on alternate slots
Handshake ==
  bgErr = "ok" /\ mainErr = "ok" =>
    /\ Offered  = IF readDone   THEN Taken + 1    ELSE Taken
    /\ Written  = IF writeReady THEN Consumed + 1 ELSE Consumed

KInv == mainErr = "ok" => k = Taken % BUFFERS

\* What the background thread has put in its two slots
BgInv ==
  /\ pos <= nblocks /\ pos <= limit + 1
  /\ bgErr = "ok" /\ bgPc # "read" =>
       /\ pos < nblocks => Loaded(BgSlot, pos)
       /\ pos = nblocks => slot[BgSlot].len = 0
       /\ bgPc # "size" /\ pos < nblocks => pos < limit
  /\ bgErr = "ok" /\ bgPc \notin {"read", "size", "prepare"} =>
       slot[BgSlot].hash = pos
  /\ bgErr = "ok" /\ pos # 0 =>
       Loaded(PrevSlot, pos - 1) /\ slot[PrevSlot].hash = pos - 1
  /\ pos # 0 => pos <= limit
  /\ bgErr = "ok" /\ bgPc \in {"cleanup", "done"} => pos = nblocks

\* What the main thread has put in the slot it works on
MainInv ==
  /\ origsize <= nblocks
  /\ mainPc \in MainWork => origsize < nblocks
  /\ mainPc \in {"temp", "compress", "fill", "write"} => Loaded(k, origsize)
  /\ mainPc \in {"fill", "write", "checkWrite", "store"} =>
       slot[k].stat = origsize
  /\ mainPc \in {"write", "checkWrite", "store"} => slot[k].hdr = origsize
  /\ mainPc \in MainEnds /\ mainErr = "ok" => origsize = nblocks

\* What WriteReady stands for: the previous slot, or the current one, is ready
\* to be saved
WrittenInv ==
  /\ writeReady /\ bgPc \in BgAhead =>
       pos # 0 /\ Encoded(PrevSlot, pos - 1)
  /\ writeReady /\ bgPc \in BgSaves \union {"signal", "eof"} =>
       Encoded(BgSlot, pos)
  /\ pos # 0 /\ bgPc \in BgSaves \union {"signal"} => Encoded(PrevSlot, pos - 1)

\* How far the output is: whole blocks, and parts of the block being saved
PartsPerBlock == IF mode = "index" THEN 2 ELSE 3
BlocksSaved == IF bgPc \in BgAhead \union BgSaves \union {"signal"} /\ pos # 0
                 THEN pos - 1 ELSE pos
PartsOfBlock == IF bgPc = "saveStat" THEN 1
                ELSE IF bgPc = "saveLiterals" THEN PartsPerBlock - 1 ELSE 0
PartsSaved == IF mode = "future" THEN 0
              ELSE PartsPerBlock * BlocksSaved + PartsOfBlock

OutputInv ==
  /\ OutputIsInOrder
  /\ bgErr = "ok" => Len(out) = PartsSaved
  /\ Len(out) <= PartsPerBlock * pos
  /\ bgPc \in BgSaves => pos # 0 /\ mode # "future"

\* How far the records and the tempfile are
RecordInv ==
  /\ RecordsAreInOrder
  /\ Len(blocks) = IF mode = "io" THEN 0 ELSE origsize
  /\ mainPc = "store" => mode # "io"

TempInv ==
  /\ \A b \in DOMAIN ftemp : ftemp[b] = b - 1
  /\ mainPc = "temp" => usetemp
  /\ ~usetemp => ftemp = <<>>
  /\ usetemp /\ mainErr = "ok" =>
       Len(ftemp) = IF mainPc \in MainWork \ {"temp"} THEN origsize + 1 ELSE origsize
  /\ usetemp => origsize <= Len(ftemp)

\* How both threads end
EndInv ==
  /\ bgFinished => bgPc = "done"
  /\ mainErr = "ok" /\ mainPc \in {"checkEnd", "destroy", "cleanup", "exit"} =>
       bgPc = "done"
  /\ mainErr = "ok" /\ mainPc \in {"destroy", "cleanup", "exit"} => bgErr = "ok"
  /\ mainPc = "exit" => removed = (mainErr # "ok")
  /\ mainErr = "ok" /\ freed => bgPc = "done"

IInv ==
  /\ ControlTypes
  /\ DataTypes
  /\ ErrorInv
  /\ Handshake
  /\ KInv
  /\ BgInv
  /\ MainInv
  /\ WrittenInv
  /\ OutputInv
  /\ RecordInv
  /\ TempInv
  /\ EndInv
=============================================================================
