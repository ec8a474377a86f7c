------------------------------- MODULE CdcPool -------------------------------
(***************************************************************************)
(* compress_CDC on top of MultipleProcessingThreads: the main thread cuts  *)
(* each block into stripes, workers find the chunks of a stripe and hash   *)
(* them into one of NumThreads storages, and the main thread searches the  *)
(* stripes for matches in their order.  The three SyncQueues are sequences *)
(* here: that is what module SyncQueue shows of them.  A task is           *)
(*   [blk, stripe, t, event]: the job's stripe, its storage and its event. *)
(***************************************************************************)
EXTENDS Naturals, Sequences, FiniteSets

CONSTANTS
  NumThreads,  \* number of worker threads, storages and jobs
  MaxPoolBlocks,   \* bound: blocks compressed
  MaxStripes   \* bound: stripes in a block

ASSUME PoolAssumption ==
  NumThreads \in Nat \ {0} /\ MaxPoolBlocks \in Nat /\ MaxStripes \in Nat \ {0}

MaxJobs  == NumThreads
Workers  == 1 .. NumThreads
Storages == 0 .. NumThreads - 1
Events   == 1 .. MaxJobs

NullTask == [blk |-> 0, stripe |-> 0, t |-> 0, event |-> 0]

VARIABLES
  stripes,       \* number of stripes in each block of the input
  WorkerQueue, FinishedQueue, FreeEvents,
  signaled,     \* events that are set
  WorkerThreadFinished,
  wpc, wtask,   \* where each worker is, and its task
  storage,      \* <<blk, stripe>> whose marks and hashes ThreadStorage[t] has
  pc,           \* where the main thread is
  blk, ptr,     \* block being compressed, stripes of it put so far
  free_jobs, num_thread,
  job,          \* task being put or got
  searched,     \* what find_match_CDC was called for
  stopped       \* workers that finish() has waited for

poolVars   == <<WorkerQueue, FinishedQueue, FreeEvents, signaled>>
workerVars == <<wpc, wtask, WorkerThreadFinished>>
loopVars   == <<blk, ptr, free_jobs, num_thread>>
cdcVars == <<stripes, poolVars, workerVars, storage, pc, loopVars, job, searched,
          stopped>>

Goto(l)     == pc' = l
WGoto(w, l) == wpc' = [wpc EXCEPT ![w] = l]

-----------------------------------------------------------------------------
(* WorkerThread().                                                         *)

\* WorkerQueue.Get(); the task without an event ends the thread
WorkerGet(w) ==
  /\ wpc[w] = "get"
  /\ WorkerQueue # <<>>
  /\ wtask' = [wtask EXCEPT ![w] = Head(WorkerQueue)]
  /\ WorkerQueue' = Tail(WorkerQueue)
  /\ WGoto(w, IF Head(WorkerQueue).event = 0 THEN "finish" ELSE "process")
  /\ UNCHANGED <<stripes, FinishedQueue, FreeEvents, signaled,
                 WorkerThreadFinished, storage, pc, loopVars, job, searched,
                 stopped>>

\* job.process(): chunk boundaries and hashes into the storage
WorkerProcess(w) ==
  /\ wpc[w] = "process"
  /\ storage' = [storage EXCEPT ![wtask[w].t] = <<wtask[w].blk, wtask[w].stripe>>]
  /\ WGoto(w, "signal")
  /\ UNCHANGED <<stripes, poolVars, WorkerThreadFinished, wtask, pc, loopVars,
                 job, searched, stopped>>

\* Mutant: the event is not signalled
WorkerSignalNever(w) ==
  /\ wpc[w] = "signal"
  /\ WGoto(w, "get")
  /\ UNCHANGED <<stripes, poolVars, WorkerThreadFinished, wtask, storage, pc,
                 loopVars, job, searched, stopped>>

WorkerSignal(w) ==
  /\ wpc[w] = "signal"
  /\ signaled' = signaled \union {wtask[w].event}
  /\ WGoto(w, "get")
  /\ UNCHANGED <<stripes, WorkerQueue, FinishedQueue, FreeEvents,
                 WorkerThreadFinished, wtask, storage, pc, loopVars, job,
                 searched, stopped>>

WorkerFinish(w) ==
  /\ wpc[w] = "finish"
  /\ WorkerThreadFinished' = TRUE
  /\ WGoto(w, "gone")
  /\ UNCHANGED <<stripes, poolVars, wtask, storage, pc, loopVars, job, searched,
                 stopped>>

WorkerNext(w) == WorkerGet(w) \/ WorkerProcess(w) \/ WorkerSignal(w)
                   \/ WorkerFinish(w)

-----------------------------------------------------------------------------
(* Main thread: compress_CDC() for each block, then finish().              *)

\* The loop condition of compress_CDC and its return; after the last block
\* ~CDC_Global calls finish()
LoopTest ==
  /\ pc = "loop"
  /\ IF free_jobs < NumThreads \/ ptr < stripes[blk]
       THEN Goto("push") /\ UNCHANGED loopVars
       ELSE IF blk < Len(stripes)
         THEN /\ blk' = blk + 1 /\ ptr' = 0
              /\ free_jobs' = NumThreads /\ num_thread' = 0
              /\ Goto("loop")
         ELSE Goto("stop") /\ UNCHANGED loopVars
  /\ UNCHANGED <<stripes, poolVars, workerVars, storage, job, searched, stopped>>

\* Mutant: every job uses the first storage
PushSameStorage ==
  /\ pc = "push"
  /\ IF free_jobs > 0 /\ ptr < stripes[blk]
       THEN /\ job' = [blk |-> blk, stripe |-> ptr + 1, t |-> 0, event |-> 0]
            /\ ptr' = ptr + 1 /\ free_jobs' = free_jobs - 1
            /\ Goto("takeEvent")
            /\ UNCHANGED <<blk, num_thread>>
       ELSE Goto("get") /\ UNCHANGED <<job, loopVars>>
  /\ UNCHANGED <<stripes, poolVars, workerVars, storage, searched, stopped>>

\* while (free_jobs > 0 && ptr < bufend): the job for the next stripe
Push ==
  /\ pc = "push"
  /\ IF free_jobs > 0 /\ ptr < stripes[blk]
       THEN /\ job' = [blk |-> blk, stripe |-> ptr + 1, t |-> num_thread,
                       event |-> 0]
            /\ ptr' = ptr + 1 /\ free_jobs' = free_jobs - 1
            /\ num_thread' = (num_thread + 1) % NumThreads
            /\ Goto("takeEvent")
            /\ UNCHANGED blk
       ELSE Goto("get") /\ UNCHANGED <<job, loopVars>>
  /\ UNCHANGED <<stripes, poolVars, workerVars, storage, searched, stopped>>

\* Put(): an event from FreeEvents, then the task into both queues
PutEvent ==
  /\ pc = "takeEvent"
  /\ FreeEvents # <<>>
  /\ job' = [job EXCEPT !.event = Head(FreeEvents)]
  /\ FreeEvents' = Tail(FreeEvents)
  /\ Goto("putWorker")
  /\ UNCHANGED <<stripes, WorkerQueue, FinishedQueue, signaled, workerVars,
                 storage, loopVars, searched, stopped>>

PutWorker ==
  /\ pc = "putWorker"
  /\ WorkerQueue' = Append(WorkerQueue, job)
  /\ Goto("putFinished")
  /\ UNCHANGED <<stripes, FinishedQueue, FreeEvents, signaled, workerVars,
                 storage, loopVars, job, searched, stopped>>

PutFinished ==
  /\ pc = "putFinished"
  /\ FinishedQueue' = Append(FinishedQueue, job)
  /\ Goto("push")
  /\ UNCHANGED <<stripes, WorkerQueue, FreeEvents, signaled, workerVars, storage,
                 loopVars, job, searched, stopped>>

\* Get(): the oldest task, its event, the event back to FreeEvents
GetTask ==
  /\ pc = "get"
  /\ FinishedQueue # <<>>
  /\ job' = Head(FinishedQueue)
  /\ FinishedQueue' = Tail(FinishedQueue)
  /\ Goto("waitEvent")
  /\ UNCHANGED <<stripes, WorkerQueue, FreeEvents, signaled, workerVars, storage,
                 loopVars, searched, stopped>>

\* Mutant: the task is returned without waiting for its event
GetNoWait ==
  /\ pc = "waitEvent"
  /\ FreeEvents' = Append(FreeEvents, job.event)
  /\ Goto("search")
  /\ UNCHANGED <<stripes, WorkerQueue, FinishedQueue, signaled, workerVars,
                 storage, loopVars, job, searched, stopped>>

GetWait ==
  /\ pc = "waitEvent"
  /\ job.event \in signaled
  /\ signaled' = signaled \ {job.event}
  /\ FreeEvents' = Append(FreeEvents, job.event)
  /\ Goto("search")
  /\ UNCHANGED <<stripes, WorkerQueue, FinishedQueue, workerVars, storage,
                 loopVars, job, searched, stopped>>

\* The hash of the chunk split between two stripes, then find_match_CDC for
\* every chunk of the stripe; free_jobs++
Search ==
  /\ pc = "search"
  /\ searched' = Append(searched, storage[job.t])
  /\ free_jobs' = free_jobs + 1
  /\ Goto("loop")
  /\ UNCHANGED <<stripes, poolVars, workerVars, storage, blk, ptr, num_thread,
                 job, stopped>>

\* finish(): one task without an event at a time
Stop ==
  /\ pc = "stop"
  /\ IF stopped < NumThreads
       THEN WorkerQueue' = Append(WorkerQueue, NullTask) /\ Goto("waitStop")
       ELSE UNCHANGED WorkerQueue /\ Goto("deleteEvents")
  /\ UNCHANGED <<stripes, FinishedQueue, FreeEvents, signaled, workerVars,
                 storage, loopVars, job, searched, stopped>>

WaitStop ==
  /\ pc = "waitStop"
  /\ WorkerThreadFinished
  /\ WorkerThreadFinished' = FALSE
  /\ stopped' = stopped + 1
  /\ Goto("stop")
  /\ UNCHANGED <<stripes, poolVars, wpc, wtask, storage, loopVars, job, searched>>

\* Get and delete all MaxJobs events
DeleteEvents ==
  /\ pc = "deleteEvents"
  /\ Len(FreeEvents) >= MaxJobs
  /\ FreeEvents' = <<>>
  /\ Goto("over")
  /\ UNCHANGED <<stripes, WorkerQueue, FinishedQueue, signaled, workerVars,
                 storage, loopVars, job, searched, stopped>>

CdcNext ==
  \/ LoopTest \/ Push \/ PutEvent \/ PutWorker \/ PutFinished
  \/ GetTask \/ GetWait \/ Search \/ Stop \/ WaitStop \/ DeleteEvents

-----------------------------------------------------------------------------
\* start(), and the main thread before its first block
PoolInit ==
  /\ stripes \in UNION {[1 .. n -> 1 .. MaxStripes] : n \in 0 .. MaxPoolBlocks}
  /\ WorkerQueue = <<>> /\ FinishedQueue = <<>>
  /\ FreeEvents = [e \in Events |-> e]
  /\ signaled = {} /\ WorkerThreadFinished = FALSE
  /\ wpc = [w \in Workers |-> "get"] /\ wtask = [w \in Workers |-> NullTask]
  /\ storage = [t \in Storages |-> <<0, 0>>]
  /\ pc = IF stripes = <<>> THEN "stop" ELSE "loop"
  /\ blk = 1 /\ ptr = 0 /\ free_jobs = NumThreads /\ num_thread = 0
  /\ job = NullTask /\ searched = <<>> /\ stopped = 0

PoolNext == CdcNext \/ \E w \in Workers : WorkerNext(w)

PoolSpec == PoolInit /\ [][PoolNext]_cdcVars

\* Every thread goes on whenever it can
PoolFairness == WF_cdcVars(CdcNext) /\ \A w \in Workers : WF_cdcVars(WorkerNext(w))

PoolFairSpec == PoolSpec /\ PoolFairness

StripePromise == INSTANCE StripeOrder WITH blocks <- stripes, over <- pc = "over"

\* The pool does what one thread would do.
ImplementsStripeOrder == StripePromise!Spec

-----------------------------------------------------------------------------
\* "The class relies on assumption that client code will never try to put
\* excessive elements to the queue": start() made the queues large enough.
QueuesFit ==
  /\ Len(WorkerQueue) <= MaxJobs + 1
  /\ Len(FinishedQueue) <= MaxJobs
  /\ Len(FreeEvents) <= MaxJobs

\* A storage is used by one thread at a time, by a worker that fills it or by
\* the main thread that reads it (and hashes the split chunk into it), and no
\* result is overwritten before it was searched: the tasks that were put and
\* not yet searched have different storages and events.
StorageNotShared ==
  /\ \A w \in Workers : wpc[w] = "process" =>
       /\ pc = "search" => wtask[w].t # job.t
       /\ \A v \in Workers \ {w} : wpc[v] = "process" => wtask[v].t # wtask[w].t
  /\ \A i, j \in DOMAIN FinishedQueue : i # j =>
       /\ FinishedQueue[i].t # FinishedQueue[j].t
       /\ FinishedQueue[i].event # FinishedQueue[j].event

\* The events and queues are only deleted when no worker can use them any more.
WorkersGoneAtEnd ==
  pc \in {"deleteEvents", "over"} => \A w \in Workers : wpc[w] = "gone"

\* What the pool's code takes for granted of its storages, its queues and its end.
PoolInvariant == StorageNotShared /\ QueuesFit /\ WorkersGoneAtEnd

\* Compression ends, and the pool with it.
PoolEnds == <>(pc = "over")
=============================================================================
