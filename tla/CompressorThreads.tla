-------------------------- MODULE CompressorThreads ---------------------------
(***************************************************************************)
(* What the compressor does in threads, one after the other: the pool of   *)
(* workers of the content-defined method (CdcPool), the first pass         *)
(* (BgPipeline) and the queue the pool is built on (SyncQueue).  They      *)
(* share no state here: at most one of them has anything to do in a        *)
(* behaviour.  A pool or a pass without work only starts and ends.         *)
(***************************************************************************)
EXTENDS BgPipeline, CdcPool, SyncQueue

\* A pool that is started and stopped, and an empty input in the first pass
EmptyPool == stripes = <<>>
EmptyPass == nblocks = 0 /\ ~usetemp /\ mode = CHOOSE m \in Modes : TRUE

ThreadsInit == PoolInit /\ Init /\ QueueInit /\ (EmptyPool \/ EmptyPass)

Pool(step)  == step /\ UNCHANGED <<vars, queueVars>>
Pass(step)  == pc = "over" /\ step /\ UNCHANGED <<cdcVars, queueVars>>
Queue(step) == EmptyPool /\ EmptyPass /\ mainPc = "exit" /\ step /\ UNCHANGED <<vars, cdcVars>>

ThreadsNext == Pool(PoolNext) \/ Pass(Next) \/ Queue(QueueNext)

threadVars == <<vars, cdcVars, queueVars>>
ThreadsSpec == ThreadsInit /\ [][ThreadsNext]_threadVars

\* Every thread goes on whenever it can
ThreadsFairness ==
  /\ PoolFairness
  /\ WF_vars(Pass(BgNext)) /\ WF_vars(Pass(MainNext))
  /\ \A p \in Putters : WF_queueVars(Queue(PutNext(p)))
  /\ \A g \in Getters : WF_queueVars(Queue(GetNext(g)))

ThreadsFairSpec == ThreadsSpec /\ ThreadsFairness
=============================================================================
