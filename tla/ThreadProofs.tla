---------------------------- MODULE ThreadProofs ----------------------------
(***************************************************************************)
(* Proofs about the threads of the compressor, for every number of them    *)
(* and every size.  Of SyncQueue: what a thread finds when it enters the   *)
(* critical section, and that the queue is first-in first-out.  Of         *)
(* CdcPool, the pool on top of it: storages and events are used by one     *)
(* thread at a time, the queues never overflow, the workers are gone       *)
(* before the queues, and the stripes are searched in their order.  Of     *)
(* BgPipeline, for every window and every set of faults: the two threads   *)
(* of the first pass.                                                      *)
(***************************************************************************)
EXTENDS SyncQueue, CdcPool, BgPipelineInv, FiniteSetTheorems, SequenceTheorems, TLAPS

-----------------------------------------------------------------------------
(* The queue.                                                              *)

USE DEF Threads, QGoto, Leave, Enter, ring

-----------------------------------------------------------------------------
(* The inductive invariant.                                                *)

PutAt == {"idle", "putLock", "signal", "store"}
GetAt == {"getLock", "look", "reset", "wait"}

QueueTypes ==
  /\ mutex \in Threads \union {Free} /\ ObjectAdded \in BOOLEAN
  /\ a \in [0 .. size - 1 -> Nat] /\ head \in 0 .. size - 1 /\ tail \in 0 .. size - 1
  /\ qpc \in [Threads -> PutAt \union GetAt]
  /\ \A p \in Putters : qpc[p] \in PutAt
  /\ \A g \in Getters : qpc[g] \in GetAt
  /\ tmp \in [Getters -> 0 .. size - 1] /\ object \in [Threads -> Nat]
  /\ puts \in 0 .. MaxPuts /\ outstanding \in 0 .. MaxElements

\* The mutex is held by the thread that is inside
Inside == {"signal", "store", "look", "reset"}
MutexHeld == \A t \in Threads : qpc[t] \in Inside <=> mutex = t

Storing == \E p \in Putters : qpc[p] = "store"
Taking  == \E g \in Getters : qpc[g] = "reset"

\* The event is set while there is an object, and around both of the steps that
\* make it the first or the last
EventAhead == ObjectAdded <=> ObjectsInQueue > 0 \/ Storing \/ Taking

\* Objects outside of the ring are those of putters on their way in and of the
\* getter on its way out
OnTheWayIn == {p \in Putters : qpc[p] \in {"putLock", "signal", "store"}}
AllCounted ==
  outstanding = ObjectsInQueue + Cardinality(OnTheWayIn) + IF Taking THEN 1 ELSE 0

\* What is put are the objects 1, 2, ...
ObjectsGiven == \A p \in OnTheWayIn : object[p] \in 1 .. MaxPuts

QueueIInv == QueueTypes /\ MutexHeld /\ EventAhead /\ AllCounted /\ ObjectsGiven

-----------------------------------------------------------------------------
(* Arithmetic of the ring.                                                 *)

LEMMA SizeFacts == size \in Nat /\ size >= 2 /\ MaxElements = size - 1 /\ MaxElements \in Nat
BY QueueAssumption DEF size

\* An index wraps around at most once
LEMMA Wraps ==
  ASSUME NEW s \in Nat, s >= 1, NEW x \in 0 .. (2 * s - 1)
  PROVE  x % s = IF x < s THEN x ELSE x - s
<1> DEFINE q == x \div s
           r == x % s
<1>1. q \in Nat /\ r \in 0 .. s - 1 /\ x = s * q + r
  OBVIOUS
<1> HIDE DEF q, r
<1>2. CASE q = 0
  BY <1>1, <1>2 DEF r
<1>3. CASE q = 1
  BY <1>1, <1>3 DEF r
<1>4. CASE q >= 2
  <2>1. s * q >= s * 2
    BY <1>1, <1>4
  <2>2. QED BY <2>1, <1>1
<1>5. QED BY <1>1, <1>2, <1>3, <1>4

LEMMA WrapsOnce ==
  \A x \in 0 .. (2 * size - 1) : x % size = IF x < size THEN x ELSE x - size
<1>1. size \in Nat /\ size >= 1
  BY SizeFacts
<1>2. QED BY <1>1, Wraps

\* The number of objects, without the remainder
LEMMA Counted ==
  ASSUME NEW h \in 0 .. size - 1, NEW t \in 0 .. size - 1
  PROVE  (t + size - h) % size = IF h <= t THEN t - h ELSE t + size - h
<1> DEFINE x == t + size - h
<1>1. x \in 0 .. (2 * size - 1) /\ (x < size <=> ~(h <= t))
  BY SizeFacts
<1>2. x % size = IF x < size THEN x ELSE x - size
  BY <1>1, WrapsOnce
<1>3. x - size = t - h
  BY SizeFacts
<1>. HIDE DEF x
<1>4. x % size = IF h <= t THEN t - h ELSE x
  BY <1>1, <1>2, <1>3
<1>5. QED BY <1>4 DEF x

LEMMA Next1 ==
  ASSUME NEW h \in 0 .. size - 1
  PROVE  (h + 1) % size = IF h = size - 1 THEN 0 ELSE h + 1
<1>1. PICK x \in 0 .. (2 * size - 1) : x = h + 1
  BY SizeFacts
<1>2. x % size = IF x < size THEN x ELSE x - size
  BY WrapsOnce
<1>3. (x < size <=> h # size - 1) /\ (x >= size => x - size = 0)
  BY <1>1, SizeFacts
<1>4. x % size = IF h = size - 1 THEN 0 ELSE x
  BY <1>2, <1>3, <1>1, SizeFacts
<1>5. QED BY <1>4, <1>1

LEMMA Place ==
  ASSUME NEW h \in 0 .. size - 1, NEW n \in 1 .. size
  PROVE  (h + n - 1) % size = IF h + n <= size THEN h + n - 1 ELSE h + n - 1 - size
<1>1. PICK x \in 0 .. (2 * size - 1) : x = h + n - 1
  BY SizeFacts
<1>2. x % size = IF x < size THEN x ELSE x - size
  BY WrapsOnce
<1>3. x < size <=> h + n <= size
  BY <1>1, SizeFacts
<1>4. x % size = IF h + n <= size THEN x ELSE x - size
  BY <1>2, <1>3
<1>5. QED BY <1>4, <1>1, SizeFacts

LEMMA CountedRange ==
  ASSUME QueueTypes
  PROVE  /\ ObjectsInQueue = IF head <= tail THEN tail - head ELSE tail + size - head
         /\ ObjectsInQueue \in 0 .. MaxElements
<1>1. ObjectsInQueue = IF head <= tail THEN tail - head ELSE tail + size - head
  BY Counted DEF QueueTypes, ObjectsInQueue
<1>2. QED BY <1>1, SizeFacts DEF QueueTypes
-----------------------------------------------------------------------------
(* Types and the mutex.                                                    *)

LEMMA Disjoint ==
  /\ \A p \in Putters : p \in Threads /\ p # Free /\ p \notin Getters
  /\ \A g \in Getters : g \in Threads /\ g # Free /\ g \notin Putters
BY QueueAssumption

LEMMA TypesKept ==
  ASSUME QueueIInv, [QueueNext]_queueVars
  PROVE  QueueTypes'
<1> USE DEF QueueIInv, QueueTypes, PutAt, GetAt
<1>1. ASSUME NEW p \in Putters, PutCall(p) PROVE QueueTypes'
  <2>1. puts' \in 0 .. MaxPuts /\ outstanding' \in 0 .. MaxElements
    BY <1>1, SizeFacts, QueueAssumption DEF PutCall
  <2>2. object' \in [Threads -> Nat]
    BY <1>1, QueueAssumption DEF PutCall
  <2>3. QED BY <1>1, <2>1, <2>2, Disjoint DEF PutCall
<1>2. ASSUME NEW p \in Putters, PutLock(p) PROVE QueueTypes'
  BY <1>2, Disjoint DEF PutLock
<1>3. ASSUME NEW p \in Putters, PutSignal(p) PROVE QueueTypes'
  BY <1>3, Disjoint DEF PutSignal
<1>4. ASSUME NEW p \in Putters, PutStore(p) PROVE QueueTypes'
  <2>1. tail' \in 0 .. size - 1
    BY <1>4, Next1, SizeFacts DEF PutStore
  <2>2. a' \in [0 .. size - 1 -> Nat]
    BY <1>4, Disjoint DEF PutStore
  <2>3. QED BY <1>4, <2>1, <2>2, Disjoint DEF PutStore
<1>5. ASSUME NEW g \in Getters, GetLock(g) PROVE QueueTypes'
  BY <1>5, Disjoint DEF GetLock
<1>6. ASSUME NEW g \in Getters, GetTake(g) PROVE QueueTypes'
  <2>1. head' \in 0 .. size - 1
    BY <1>6, Next1, SizeFacts DEF GetTake
  <2>2. QED BY <1>6, <2>1, Disjoint DEF GetTake
<1>7. ASSUME NEW g \in Getters, GetMiss(g) PROVE QueueTypes'
  BY <1>7, Disjoint DEF GetMiss
<1>8. ASSUME NEW g \in Getters, GetReset(g) PROVE QueueTypes'
  <2>1. outstanding' \in 0 .. MaxElements
    <3>1. Taking
      BY <1>8 DEF GetReset, Taking
    <3>2. Cardinality(OnTheWayIn) \in Nat
      BY QueueAssumption, FS_Subset, FS_CardinalityType DEF OnTheWayIn
    <3>3. outstanding >= 1
      BY <3>1, <3>2, CountedRange, SizeFacts DEF AllCounted
    <3>4. QED BY <1>8, <3>3, SizeFacts DEF GetReset
  <2>2. object' \in [Threads -> Nat]
    BY <1>8, Disjoint, SizeFacts DEF GetReset
  <2>3. QED BY <1>8, <2>1, <2>2, Disjoint DEF GetReset
<1>9. ASSUME NEW g \in Getters, GetSleep(g) PROVE QueueTypes'
  BY <1>9, Disjoint DEF GetSleep
<1>10. CASE UNCHANGED queueVars
  BY <1>10 DEF queueVars
<1>11. QED BY <1>1, <1>2, <1>3, <1>4, <1>5, <1>6, <1>7, <1>8, <1>9, <1>10
           DEF QueueNext, PutNext, GetNext

LEMMA MutexKept ==
  ASSUME QueueIInv, [QueueNext]_queueVars
  PROVE  MutexHeld'
<1> USE Disjoint DEF QueueIInv, QueueTypes, PutAt, GetAt, MutexHeld, Inside
<1>1. ASSUME NEW p \in Putters, PutCall(p) PROVE MutexHeld'
  BY <1>1 DEF PutCall
<1>2. ASSUME NEW p \in Putters, PutLock(p) PROVE MutexHeld'
  BY <1>2 DEF PutLock
<1>3. ASSUME NEW p \in Putters, PutSignal(p) PROVE MutexHeld'
  BY <1>3 DEF PutSignal
<1>4. ASSUME NEW p \in Putters, PutStore(p) PROVE MutexHeld'
  BY <1>4 DEF PutStore
<1>5. ASSUME NEW g \in Getters, GetLock(g) PROVE MutexHeld'
  BY <1>5 DEF GetLock
<1>6. ASSUME NEW g \in Getters, GetTake(g) PROVE MutexHeld'
  BY <1>6 DEF GetTake
<1>7. ASSUME NEW g \in Getters, GetMiss(g) PROVE MutexHeld'
  BY <1>7 DEF GetMiss
<1>8. ASSUME NEW g \in Getters, GetReset(g) PROVE MutexHeld'
  BY <1>8 DEF GetReset
<1>9. ASSUME NEW g \in Getters, GetSleep(g) PROVE MutexHeld'
  BY <1>9 DEF GetSleep
<1>10. CASE UNCHANGED queueVars
  BY <1>10 DEF queueVars
<1>11. QED BY <1>1, <1>2, <1>3, <1>4, <1>5, <1>6, <1>7, <1>8, <1>9, <1>10
           DEF QueueNext, PutNext, GetNext
-----------------------------------------------------------------------------
(* The event and the number of objects.                                    *)

LEMMA WayInFinite ==
  IsFiniteSet(OnTheWayIn) /\ Cardinality(OnTheWayIn) \in Nat
BY QueueAssumption, FS_Subset, FS_CardinalityType DEF OnTheWayIn

\* A thread inside is alone there
LEMMA AloneInside ==
  ASSUME QueueIInv, NEW t \in Threads, qpc[t] \in Inside
  PROVE  /\ mutex = t
         /\ \A u \in Threads : u # t => qpc[u] \notin Inside
BY DEF QueueIInv, MutexHeld

\* A putter inside finds room for its object
LEMMA RoomForOne ==
  ASSUME QueueIInv, NEW p \in Putters, qpc[p] = "store"
  PROVE  ObjectsInQueue < MaxElements
<1>1. Cardinality(OnTheWayIn) >= 1
  <2>1. p \in OnTheWayIn
    BY DEF OnTheWayIn
  <2>2. QED BY <2>1, WayInFinite, FS_EmptySet
<1>2. QED BY <1>1, WayInFinite, CountedRange, SizeFacts DEF QueueIInv, AllCounted, QueueTypes

LEMMA OneMore ==
  ASSUME QueueIInv, NEW p \in Putters, PutStore(p)
  PROVE  ObjectsInQueue' = ObjectsInQueue + 1
<1>1. tail' = (tail + 1) % size /\ head' = head /\ qpc[p] = "store"
  BY DEF PutStore
<1>2. head \in 0 .. size - 1 /\ tail \in 0 .. size - 1
  BY DEF QueueIInv, QueueTypes
<1>3. tail' = IF tail = size - 1 THEN 0 ELSE tail + 1
  BY <1>1, <1>2, Next1
<1>4. tail' \in 0 .. size - 1
  BY <1>2, <1>3, SizeFacts
<1>5. ObjectsInQueue' = IF head <= tail' THEN tail' - head ELSE tail' + size - head
  BY <1>1, <1>2, <1>4, Counted DEF ObjectsInQueue
<1>6. ObjectsInQueue = IF head <= tail THEN tail - head ELSE tail + size - head
  BY CountedRange DEF QueueIInv
<1>7. ObjectsInQueue < size - 1
  BY <1>1, RoomForOne, SizeFacts
<1>8. QED BY <1>2, <1>3, <1>5, <1>6, <1>7, SizeFacts

LEMMA OneLess ==
  ASSUME QueueIInv, NEW g \in Getters, GetTake(g)
  PROVE  ObjectsInQueue' = ObjectsInQueue - 1 /\ ObjectsInQueue > 0
<1>1. head' = (head + 1) % size /\ tail' = tail /\ ObjectsInQueue > 0
  BY DEF GetTake
<1>2. head \in 0 .. size - 1 /\ tail \in 0 .. size - 1
  BY DEF QueueIInv, QueueTypes
<1>3. head' = IF head = size - 1 THEN 0 ELSE head + 1
  BY <1>1, <1>2, Next1
<1>4. head' \in 0 .. size - 1
  BY <1>2, <1>3, SizeFacts
<1>5. ObjectsInQueue' = IF head' <= tail THEN tail - head' ELSE tail + size - head'
  BY <1>1, <1>2, <1>4, Counted DEF ObjectsInQueue
<1>6. ObjectsInQueue = IF head <= tail THEN tail - head ELSE tail + size - head
  BY CountedRange DEF QueueIInv
<1>7. QED BY <1>1, <1>2, <1>3, <1>5, <1>6, SizeFacts

LEMMA EventKept ==
  ASSUME QueueIInv, [QueueNext]_queueVars
  PROVE  EventAhead'
<1> USE Disjoint DEF EventAhead, Storing, Taking
<1>0. /\ EventAhead /\ qpc \in [Threads -> PutAt \union GetAt]
      /\ ObjectAdded \in BOOLEAN /\ ObjectsInQueue \in Nat
      /\ \A p \in Putters : qpc[p] \in PutAt
      /\ \A g \in Getters : qpc[g] \in GetAt
  BY CountedRange, SizeFacts DEF QueueIInv, QueueTypes
<1>1. ASSUME NEW p \in Putters, PutCall(p) PROVE EventAhead'
  BY <1>0, <1>1 DEF PutCall, ObjectsInQueue
<1>2. ASSUME NEW p \in Putters, PutLock(p) PROVE EventAhead'
  BY <1>0, <1>2 DEF PutLock, ObjectsInQueue
<1>3. ASSUME NEW p \in Putters, PutSignal(p) PROVE EventAhead'
  <2>1. ~Storing /\ ~Taking
    BY <1>3, AloneInside DEF PutSignal, Inside
  <2>2. ObjectAdded' /\ qpc'[p] = "store"
    BY <1>0, <1>3, <2>1 DEF PutSignal
  <2>3. QED BY <2>2
<1>4. ASSUME NEW p \in Putters, PutStore(p) PROVE EventAhead'
  <2>1. ObjectAdded /\ ObjectAdded' = ObjectAdded
    BY <1>0, <1>4 DEF PutStore
  <2>2. ObjectsInQueue' > 0
    BY <1>0, <1>4, OneMore
  <2>3. QED BY <2>1, <2>2
<1>5. ASSUME NEW g \in Getters, GetLock(g) PROVE EventAhead'
  BY <1>0, <1>5 DEF GetLock, ObjectsInQueue
<1>6. ASSUME NEW g \in Getters, GetTake(g) PROVE EventAhead'
  <2>1. ObjectAdded' /\ qpc'[g] = "reset"
    BY <1>0, <1>6, OneLess DEF GetTake
  <2>2. QED BY <2>1
<1>7. ASSUME NEW g \in Getters, GetMiss(g) PROVE EventAhead'
  BY <1>0, <1>7 DEF GetMiss, ObjectsInQueue
<1>8. ASSUME NEW g \in Getters, GetReset(g) PROVE EventAhead'
  <2>1. \A t \in Threads : qpc'[t] \notin {"store", "reset"}
    BY <1>0, <1>8, AloneInside DEF GetReset, Inside
  <2>2. ObjectsInQueue' = ObjectsInQueue /\ ObjectAdded
    BY <1>0, <1>8 DEF GetReset, ObjectsInQueue
  <2>3. ObjectAdded' <=> ObjectsInQueue' > 0
    BY <1>0, <1>8, <2>2 DEF GetReset
  <2>4. QED BY <2>1, <2>3
<1>9. ASSUME NEW g \in Getters, GetSleep(g) PROVE EventAhead'
  BY <1>0, <1>9 DEF GetSleep, ObjectsInQueue
<1>10. CASE UNCHANGED queueVars
  BY <1>0, <1>10 DEF queueVars, ObjectsInQueue
<1>11. QED BY <1>1, <1>2, <1>3, <1>4, <1>5, <1>6, <1>7, <1>8, <1>9, <1>10
           DEF QueueNext, PutNext, GetNext

LEMMA CountKept ==
  ASSUME QueueIInv, [QueueNext]_queueVars
  PROVE  AllCounted'
<1> USE Disjoint DEF AllCounted, Taking
<1>0. /\ AllCounted /\ qpc \in [Threads -> PutAt \union GetAt]
      /\ outstanding \in Nat /\ ObjectsInQueue \in Nat
      /\ \A p \in Putters : qpc[p] \in PutAt
      /\ \A g \in Getters : qpc[g] \in GetAt
      /\ IsFiniteSet(OnTheWayIn) /\ Cardinality(OnTheWayIn) \in Nat
  BY CountedRange, WayInFinite, SizeFacts DEF QueueIInv, QueueTypes
<1>1. ASSUME NEW p \in Putters, PutCall(p) PROVE AllCounted'
  <2>1. OnTheWayIn' = OnTheWayIn \union {p} /\ p \notin OnTheWayIn
    BY <1>0, <1>1 DEF PutCall, OnTheWayIn
  <2>2. Cardinality(OnTheWayIn') = Cardinality(OnTheWayIn) + 1
    BY <1>0, <2>1, FS_AddElement
  <2>3. ObjectsInQueue' = ObjectsInQueue /\ outstanding' = outstanding + 1 /\ (Taking' <=> Taking)
    BY <1>0, <1>1 DEF PutCall, ObjectsInQueue
  <2>4. QED BY <1>0, <2>2, <2>3
<1>2. ASSUME NEW p \in Putters, PutLock(p) PROVE AllCounted'
  <2>1. OnTheWayIn' = OnTheWayIn
    BY <1>0, <1>2 DEF PutLock, OnTheWayIn
  <2>2. QED BY <1>0, <1>2, <2>1 DEF PutLock, ObjectsInQueue
<1>3. ASSUME NEW p \in Putters, PutSignal(p) PROVE AllCounted'
  <2>1. OnTheWayIn' = OnTheWayIn
    BY <1>0, <1>3 DEF PutSignal, OnTheWayIn
  <2>2. QED BY <1>0, <1>3, <2>1 DEF PutSignal, ObjectsInQueue
<1>4. ASSUME NEW p \in Putters, PutStore(p) PROVE AllCounted'
  <2>1. OnTheWayIn' = OnTheWayIn \ {p} /\ p \in OnTheWayIn
    BY <1>0, <1>4 DEF PutStore, OnTheWayIn
  <2>2. Cardinality(OnTheWayIn') = Cardinality(OnTheWayIn) - 1
    BY <1>0, <2>1, FS_RemoveElement
  <2>3. outstanding' = outstanding /\ (Taking' <=> Taking)
    BY <1>0, <1>4 DEF PutStore
  <2>4. QED BY <1>0, <1>4, <2>2, <2>3, OneMore
<1>5. ASSUME NEW g \in Getters, GetLock(g) PROVE AllCounted'
  <2>1. OnTheWayIn' = OnTheWayIn
    BY <1>0, <1>5 DEF GetLock, OnTheWayIn
  <2>2. QED BY <1>0, <1>5, <2>1 DEF GetLock, ObjectsInQueue
<1>6. ASSUME NEW g \in Getters, GetTake(g) PROVE AllCounted'
  <2>1. OnTheWayIn' = OnTheWayIn
    BY <1>0, <1>6 DEF GetTake, OnTheWayIn
  <2>2. Taking' /\ ~Taking
    BY <1>0, <1>6, AloneInside DEF GetTake, Inside
  <2>3. outstanding' = outstanding
    BY <1>6 DEF GetTake
  <2>4. QED BY <1>0, <1>6, <2>1, <2>2, <2>3, OneLess
<1>7. ASSUME NEW g \in Getters, GetMiss(g) PROVE AllCounted'
  <2>1. OnTheWayIn' = OnTheWayIn
    BY <1>0, <1>7 DEF GetMiss, OnTheWayIn
  <2>2. QED BY <1>0, <1>7, <2>1 DEF GetMiss, ObjectsInQueue
<1>8. ASSUME NEW g \in Getters, GetReset(g) PROVE AllCounted'
  <2>1. OnTheWayIn' = OnTheWayIn
    BY <1>0, <1>8 DEF GetReset, OnTheWayIn
  <2>2. Taking /\ ~Taking'
    BY <1>0, <1>8, AloneInside DEF GetReset, Inside
  <2>3. outstanding' = outstanding - 1 /\ ObjectsInQueue' = ObjectsInQueue
    BY <1>8 DEF GetReset, ObjectsInQueue
  <2>4. QED BY <1>0, <2>1, <2>2, <2>3
<1>9. ASSUME NEW g \in Getters, GetSleep(g) PROVE AllCounted'
  <2>1. OnTheWayIn' = OnTheWayIn
    BY <1>0, <1>9 DEF GetSleep, OnTheWayIn
  <2>2. QED BY <1>0, <1>9, <2>1 DEF GetSleep, ObjectsInQueue
<1>10. CASE UNCHANGED queueVars
  BY <1>0, <1>10 DEF queueVars, ObjectsInQueue, OnTheWayIn
<1>11. QED BY <1>1, <1>2, <1>3, <1>4, <1>5, <1>6, <1>7, <1>8, <1>9, <1>10
           DEF QueueNext, PutNext, GetNext
LEMMA ObjectsKept ==
  ASSUME QueueIInv, [QueueNext]_queueVars
  PROVE  ObjectsGiven'
<1> USE Disjoint DEF ObjectsGiven, OnTheWayIn
<1>0. /\ ObjectsGiven /\ qpc \in [Threads -> PutAt \union GetAt]
      /\ object \in [Threads -> Nat] /\ puts \in 0 .. MaxPuts
  BY DEF QueueIInv, QueueTypes
<1>1. ASSUME NEW p \in Putters, PutCall(p) PROVE ObjectsGiven'
  BY <1>0, <1>1, QueueAssumption DEF PutCall
<1>2. ASSUME NEW p \in Putters, PutLock(p) PROVE ObjectsGiven'
  BY <1>0, <1>2 DEF PutLock
<1>3. ASSUME NEW p \in Putters, PutSignal(p) PROVE ObjectsGiven'
  BY <1>0, <1>3 DEF PutSignal
<1>4. ASSUME NEW p \in Putters, PutStore(p) PROVE ObjectsGiven'
  BY <1>0, <1>4 DEF PutStore
<1>5. ASSUME NEW g \in Getters, GetLock(g) PROVE ObjectsGiven'
  BY <1>0, <1>5 DEF GetLock
<1>6. ASSUME NEW g \in Getters, GetTake(g) PROVE ObjectsGiven'
  BY <1>0, <1>6 DEF GetTake
<1>7. ASSUME NEW g \in Getters, GetMiss(g) PROVE ObjectsGiven'
  BY <1>0, <1>7 DEF GetMiss
<1>8. ASSUME NEW g \in Getters, GetReset(g) PROVE ObjectsGiven'
  BY <1>0, <1>8 DEF GetReset
<1>9. ASSUME NEW g \in Getters, GetSleep(g) PROVE ObjectsGiven'
  BY <1>0, <1>9 DEF GetSleep
<1>10. CASE UNCHANGED queueVars
  BY <1>0, <1>10 DEF queueVars
<1>11. QED BY <1>1, <1>2, <1>3, <1>4, <1>5, <1>6, <1>7, <1>8, <1>9, <1>10
           DEF QueueNext, PutNext, GetNext

LEMMA QueueInitInv == QueueInit => QueueIInv
<1> SUFFICES ASSUME QueueInit PROVE QueueIInv
  OBVIOUS
<1>1. QueueTypes
  <2>1. /\ qpc \in [Threads -> PutAt \union GetAt]
        /\ \A p \in Putters : qpc[p] \in PutAt
        /\ \A g \in Getters : qpc[g] \in GetAt
    BY Disjoint DEF QueueInit, PutAt, GetAt
  <2>2. a \in [0 .. size - 1 -> Nat] /\ tmp \in [Getters -> 0 .. size - 1]
        /\ object \in [Threads -> Nat] /\ 0 \in 0 .. size - 1
    BY SizeFacts DEF QueueInit
  <2>3. puts \in 0 .. MaxPuts /\ outstanding \in 0 .. MaxElements
    BY QueueAssumption DEF QueueInit
  <2>4. QED BY <2>1, <2>2, <2>3 DEF QueueInit, QueueTypes
<1>2. ObjectsInQueue = 0
  BY <1>1, CountedRange DEF QueueInit
<1>3. OnTheWayIn = {} /\ ~Taking /\ ~Storing
  BY Disjoint DEF QueueInit, OnTheWayIn, Taking, Storing
<1>4. MutexHeld /\ ObjectsGiven
  BY <1>3, Disjoint DEF QueueInit, MutexHeld, Inside, ObjectsGiven
<1>5. EventAhead
  BY <1>2, <1>3 DEF QueueInit, EventAhead
<1>6. AllCounted
  BY <1>2, <1>3, FS_EmptySet DEF QueueInit, AllCounted
<1>7. QED BY <1>1, <1>4, <1>5, <1>6 DEF QueueIInv

\* The ring, its mutex and its event keep their invariant, whatever the threads do
THEOREM QueueInductive == QueueSpec => []QueueIInv
<1>1. QueueIInv /\ [QueueNext]_queueVars => QueueIInv'
  BY TypesKept, MutexKept, EventKept, CountKept, ObjectsKept DEF QueueIInv
<1>2. QED BY QueueInitInv, <1>1, PTL DEF QueueSpec

\* A thread that enters the critical section finds the event set exactly if there
\* is an object, and as many objects as were put and not taken (Put and Get of
\* MultiThreading.h): for every number of threads and every size
THEOREM QueueSound == QueueSpec => []QueueInvariant
<1>1. QueueIInv => QueueInvariant
  <2> SUFFICES ASSUME QueueIInv, mutex = Free
               PROVE  /\ ObjectAdded <=> ObjectsInQueue > 0
                      /\ ObjectsInQueue = outstanding - Cardinality({p \in Putters : qpc[p] = "putLock"})
    BY DEF QueueInvariant, EventMeansObject, ObjectsCounted
  <2>1. ~Storing /\ ~Taking
    BY Disjoint DEF QueueIInv, MutexHeld, Inside, Storing, Taking
  <2>2. OnTheWayIn = {p \in Putters : qpc[p] = "putLock"}
    BY Disjoint DEF QueueIInv, MutexHeld, Inside, OnTheWayIn
  <2>3. ObjectAdded <=> ObjectsInQueue > 0
    BY <2>1 DEF QueueIInv, EventAhead
  <2>4. ObjectsInQueue = outstanding - Cardinality(OnTheWayIn)
    BY <2>1, WayInFinite, CountedRange, SizeFacts DEF QueueIInv, AllCounted
  <2>5. QED BY <2>2, <2>3, <2>4
<1>2. QED BY <1>1, QueueInductive, PTL

-----------------------------------------------------------------------------
(* The refinement of Fifo.                                                 *)

ReadFromHead ==
  /\ Contents \in Seq(Nat) /\ Len(Contents) = ObjectsInQueue
  /\ \A n \in 1 .. ObjectsInQueue :
       Contents[n] = a[IF head + n <= size THEN head + n - 1 ELSE head + n - 1 - size]

LEMMA ContentsFacts == QueueIInv => ReadFromHead
<1> SUFFICES ASSUME QueueIInv PROVE ReadFromHead
  OBVIOUS
<1>1. ObjectsInQueue \in Nat /\ ObjectsInQueue < size
  BY CountedRange, SizeFacts DEF QueueIInv
<1>2. head \in 0 .. size - 1 /\ a \in [0 .. size - 1 -> Nat]
  BY DEF QueueIInv, QueueTypes
<1>3. \A n \in 1 .. ObjectsInQueue :
        /\ (head + n - 1) % size = IF head + n <= size THEN head + n - 1 ELSE head + n - 1 - size
        /\ (head + n - 1) % size \in 0 .. size - 1
  <2> SUFFICES ASSUME NEW n \in 1 .. ObjectsInQueue
               PROVE  /\ (head + n - 1) % size = IF head + n <= size THEN head + n - 1 ELSE head + n - 1 - size
                      /\ (head + n - 1) % size \in 0 .. size - 1
    OBVIOUS
  <2>1. n \in 1 .. size
    BY <1>1, SizeFacts
  <2>2. (head + n - 1) % size = IF head + n <= size THEN head + n - 1 ELSE head + n - 1 - size
    BY <1>2, <2>1, Place
  <2>3. QED BY <1>2, <2>1, <2>2, SizeFacts
<1>4. \A n \in 1 .. ObjectsInQueue : a[(head + n - 1) % size] \in Nat
  BY <1>2, <1>3
<1>5. Contents \in [1 .. ObjectsInQueue -> Nat]
  BY <1>4 DEF Contents
<1>6. Contents \in Seq(Nat) /\ Len(Contents) = ObjectsInQueue
  BY <1>1, <1>5, SeqDef
<1>7. QED BY <1>3, <1>6 DEF Contents, ReadFromHead
LEMMA PutAppends ==
  ASSUME QueueIInv, NEW p \in Putters, PutStore(p), QueueIInv'
  PROVE  /\ Contents' = Append(Contents, object[p]) /\ object[p] \in 1 .. MaxPuts
         /\ Len(Contents) < MaxElements
<1>1. /\ head' = head /\ tail' = (tail + 1) % size /\ qpc[p] = "store"
      /\ a' = [a EXCEPT ![tail] = object[p]]
  BY DEF PutStore
<1>2. /\ head \in 0 .. size - 1 /\ tail \in 0 .. size - 1
      /\ a \in [0 .. size - 1 -> Nat] /\ object[p] \in Nat
  BY Disjoint DEF QueueIInv, QueueTypes
<1>3. object[p] \in 1 .. MaxPuts
  BY <1>1 DEF QueueIInv, ObjectsGiven, OnTheWayIn
<1> DEFINE count == ObjectsInQueue
           At(n) == IF head + n <= size THEN head + n - 1 ELSE head + n - 1 - size
           new == Append(Contents, object[p])
<1>4. /\ count \in Nat /\ count < MaxElements
      /\ count = IF head <= tail THEN tail - head ELSE tail + size - head
  BY <1>1, CountedRange, RoomForOne, SizeFacts DEF QueueIInv
<1>5. /\ Contents \in Seq(Nat) /\ Len(Contents) = count
      /\ \A n \in 1 .. count : Contents[n] = a[At(n)]
  BY ContentsFacts DEF ReadFromHead
<1>6. /\ Contents' \in Seq(Nat) /\ Len(Contents') = count + 1
      /\ \A n \in 1 .. count + 1 : Contents'[n] = a'[At(n)]
  <2>1. /\ Contents' \in Seq(Nat) /\ Len(Contents') = ObjectsInQueue'
        /\ \A n \in 1 .. ObjectsInQueue' :
              Contents'[n] = a'[IF head' + n <= size THEN head' + n - 1 ELSE head' + n - 1 - size]
    <3>1. ReadFromHead'
      BY ContentsFacts, PTL
    <3>2. QED BY <3>1 DEF ReadFromHead
  <2>2. QED BY <2>1, <1>1, OneMore
<1>7. At(count + 1) = tail /\ \A n \in 1 .. count : At(n) # tail /\ At(n) \in 0 .. size - 1
  BY <1>2, <1>4, SizeFacts
<1>8. /\ new \in Seq(Nat) /\ Len(new) = count + 1
      /\ \A n \in 1 .. count : new[n] = Contents[n]
      /\ new[count + 1] = object[p]
  BY <1>2, <1>5, AppendProperties
<1>. HIDE DEF count, At, new
<1>9. \A n \in 1 .. count + 1 : Contents'[n] = new[n]
  <2>1. ASSUME NEW n \in 1 .. count PROVE Contents'[n] = new[n]
    <3>1. n \in 1 .. count + 1
      BY <2>1, <1>4
    <3>2. Contents'[n] = a'[At(n)]
      BY <1>6, <3>1
    <3>3. a'[At(n)] = a[At(n)]
      BY <1>1, <1>2, <1>7, <2>1
    <3>4. new[n] = Contents[n] /\ Contents[n] = a[At(n)]
      BY <1>5, <1>8, <2>1
    <3>5. QED BY <3>2, <3>3, <3>4
  <2>2. Contents'[count + 1] = new[count + 1]
    <3>1. count + 1 \in 1 .. count + 1
      BY <1>4
    <3>2. Contents'[count + 1] = a'[At(count + 1)]
      BY <1>6, <3>1
    <3>3. a'[At(count + 1)] = object[p]
      BY <1>1, <1>2, <1>7
    <3>4. QED BY <3>2, <3>3, <1>8
  <2>3. QED BY <2>1, <2>2, <1>4
<1>10. Contents' = Append(Contents, object[p])
  BY <1>4, <1>6, <1>8, <1>9, SeqEqual DEF new
<1>11. QED BY <1>3, <1>4, <1>5, <1>10 DEF count

LEMMA TakeHead ==
  ASSUME QueueIInv, NEW g \in Getters, GetTake(g), QueueIInv'
  PROVE  /\ Contents # <<>> /\ Contents' = Tail(Contents) /\ Head(Contents) = a[head]
<1>1. head' = (head + 1) % size /\ tail' = tail /\ a' = a
  BY DEF GetTake
<1>2. head \in 0 .. size - 1 /\ tail \in 0 .. size - 1
  BY DEF QueueIInv, QueueTypes
<1>3. head' = IF head = size - 1 THEN 0 ELSE head + 1
  BY <1>1, <1>2, Next1
<1> DEFINE count == ObjectsInQueue
           At(n) == IF head + n <= size THEN head + n - 1 ELSE head + n - 1 - size
<1>4. /\ count \in Nat /\ count < size /\ count > 0
  BY CountedRange, OneLess, SizeFacts DEF QueueIInv
<1>5. /\ Contents \in Seq(Nat) /\ Len(Contents) = count
      /\ \A n \in 1 .. count : Contents[n] = a[At(n)]
  BY ContentsFacts DEF ReadFromHead
<1>6. /\ Contents' \in Seq(Nat) /\ Len(Contents') = count - 1
      /\ \A n \in 1 .. count - 1 : Contents'[n] = a[At(n + 1)]
  <2>1. /\ Contents' \in Seq(Nat) /\ Len(Contents') = ObjectsInQueue'
        /\ \A n \in 1 .. ObjectsInQueue' :
              Contents'[n] = a'[IF head' + n <= size THEN head' + n - 1 ELSE head' + n - 1 - size]
    <3>1. ReadFromHead'
      BY ContentsFacts, PTL
    <3>2. QED BY <3>1 DEF ReadFromHead
  <2>2. \A n \in 1 .. count - 1 :
          At(n + 1) = IF head' + n <= size THEN head' + n - 1 ELSE head' + n - 1 - size
    BY <1>2, <1>3, <1>4, SizeFacts
  <2>3. ObjectsInQueue' = count - 1
    BY OneLess
  <2> HIDE DEF count, At
  <2>4. ASSUME NEW n \in 1 .. count - 1 PROVE Contents'[n] = a[At(n + 1)]
    <3>1. n \in 1 .. ObjectsInQueue'
      BY <2>3
    <3>2. Contents'[n] = a'[IF head' + n <= size THEN head' + n - 1 ELSE head' + n - 1 - size]
      BY <2>1, <3>1, Zenon
    <3>3. QED BY <1>1, <2>2, <3>2, Zenon
  <2>5. QED BY <2>1, <2>3, <2>4, Zenon
<1>7. Contents # <<>>
  BY <1>4, <1>5, EmptySeq
<1>8. /\ Tail(Contents) \in Seq(Nat) /\ Len(Tail(Contents)) = count - 1
      /\ \A n \in 1 .. count - 1 : Tail(Contents)[n] = Contents[n + 1]
  BY <1>5, <1>7, HeadTailProperties
<1>. HIDE DEF count, At
<1>9. \A n \in 1 .. count - 1 : Tail(Contents)[n] = Contents'[n]
  <2> SUFFICES ASSUME NEW n \in 1 .. count - 1
               PROVE  Tail(Contents)[n] = Contents'[n]
    OBVIOUS
  <2>1. n + 1 \in 1 .. count
    BY <1>4
  <2>2. Contents[n + 1] = a[At(n + 1)]
    BY <1>5, <2>1
  <2>3. Tail(Contents)[n] = Contents[n + 1]
    BY <1>8
  <2>4. Contents'[n] = a[At(n + 1)]
    BY <1>6
  <2>5. QED BY <2>2, <2>3, <2>4
<1>10. Contents' = Tail(Contents)
  BY <1>6, <1>8, <1>9, SeqEqual
<1>11. Head(Contents) = a[head]
  <2>1. Head(Contents) = Contents[1]
    BY <1>5, <1>7
  <2>2. At(1) = head
    BY <1>2, SizeFacts DEF At
  <2>3. QED BY <1>4, <1>5, <2>1, <2>2
<1>12. QED BY <1>7, <1>10, <1>11

LEMMA InitFifo == QueueInit => FifoPromise!Init
<1> SUFFICES ASSUME QueueInit PROVE FifoPromise!Init
  OBVIOUS
<1>1. QueueIInv
  BY QueueInitInv
<1>2. ObjectsInQueue = 0
  BY <1>1, CountedRange DEF QueueInit, QueueIInv
<1>3. Contents = <<>>
  BY <1>1, <1>2, ContentsFacts DEF ReadFromHead
<1>4. Delivered = [g \in Getters |-> 0]
  BY Disjoint DEF QueueInit, Delivered
<1>5. QED BY <1>3, <1>4 DEF FifoPromise!Init

LEMMA StepFifo ==
  ASSUME QueueIInv, QueueIInv', [QueueNext]_queueVars
  PROVE  [FifoPromise!Next]_(FifoPromise!vars)
<1> USE Disjoint DEF FifoPromise!vars
<1> DEFINE Same == Contents' = Contents /\ Delivered' = Delivered
<1>0. /\ qpc \in [Threads -> PutAt \union GetAt] /\ object \in [Threads -> Nat]
      /\ tmp \in [Getters -> 0 .. size - 1]
      /\ \A p \in Putters : qpc[p] \in PutAt
      /\ \A g \in Getters : qpc[g] \in GetAt
  BY DEF QueueIInv, QueueTypes
<1>1. ASSUME NEW p \in Putters, PutCall(p) \/ PutLock(p) \/ PutSignal(p) PROVE Same
  <2>1. Contents' = Contents
    BY <1>1 DEF PutCall, PutLock, PutSignal, Contents, ObjectsInQueue
  <2>2. \A g \in Getters : qpc'[g] = qpc[g] /\ object'[g] = object[g]
    BY <1>0, <1>1 DEF PutCall, PutLock, PutSignal
  <2>3. a' = a /\ tmp' = tmp
    BY <1>1 DEF PutCall, PutLock, PutSignal
  <2>4. QED BY <2>1, <2>2, <2>3 DEF Delivered
<1>2. ASSUME NEW p \in Putters, PutStore(p) PROVE FifoPromise!Next
  <2>1. \A g \in Getters : qpc'[g] = qpc[g] /\ qpc[g] # "reset"
    BY <1>0, <1>2, AloneInside DEF PutStore, Inside
  <2>2. Delivered' = Delivered
    BY <1>2, <2>1 DEF PutStore, Delivered
  <2>3. QED BY <1>2, <2>2, PutAppends DEF FifoPromise!Next, FifoPromise!Put
<1>3. ASSUME NEW g \in Getters, GetLock(g) \/ GetMiss(g) \/ GetSleep(g) PROVE Same
  <2>1. Contents' = Contents
    BY <1>3 DEF GetLock, GetMiss, GetSleep, Contents, ObjectsInQueue
  <2>2. \A h \in Getters : qpc'[h] = "reset" <=> qpc[h] = "reset"
    BY <1>0, <1>3 DEF GetLock, GetMiss, GetSleep
  <2>3. a' = a /\ tmp' = tmp /\ object' = object
    BY <1>3 DEF GetLock, GetMiss, GetSleep
  <2>4. QED BY <2>1, <2>2, <2>3 DEF Delivered
<1>4. ASSUME NEW g \in Getters, GetTake(g) PROVE FifoPromise!Next
  <2>1. \A h \in Getters : h # g => qpc'[h] = qpc[h] /\ qpc[h] # "reset"
    BY <1>0, <1>4, AloneInside DEF GetTake, Inside
  <2>2. qpc'[g] = "reset" /\ tmp'[g] = head /\ a' = a /\ object' = object
    BY <1>0, <1>4 DEF GetTake
  <2>3. qpc[g] # "reset"
    BY <1>4 DEF GetTake
  <2>4. Delivered' = [Delivered EXCEPT ![g] = a[head]]
    BY <2>1, <2>2, <2>3 DEF Delivered
  <2>5. FifoPromise!Get(g)
    BY <1>4, <2>4, TakeHead DEF FifoPromise!Get
  <2>6. QED BY <2>5 DEF FifoPromise!Next
<1>5. ASSUME NEW g \in Getters, GetReset(g) PROVE Same
  <2>1. Contents' = Contents
    BY <1>5 DEF GetReset, Contents, ObjectsInQueue
  <2>2. \A h \in Getters : h # g => qpc'[h] = qpc[h] /\ qpc[h] # "reset" /\ object'[h] = object[h]
    BY <1>0, <1>5, AloneInside DEF GetReset, Inside
  <2>3. qpc[g] = "reset" /\ qpc'[g] = "getLock" /\ object'[g] = a[tmp[g]]
    BY <1>0, <1>5 DEF GetReset
  <2>4. QED BY <2>1, <2>2, <2>3 DEF Delivered
<1>6. CASE UNCHANGED queueVars
  BY <1>6 DEF queueVars, Contents, ObjectsInQueue, Delivered
<1>7. QED BY <1>1, <1>2, <1>3, <1>4, <1>5, <1>6 DEF QueueNext, PutNext, GetNext

\* Ring, mutex and event together are a first-in first-out queue: every object comes
\* out once, in the order in which they went in
THEOREM QueueIsFifo == QueueSpec => ImplementsFifo
BY InitFifo, StepFifo, QueueInductive, PTL DEF QueueSpec, ImplementsFifo, FifoPromise!Spec

HIDE DEF Threads, QGoto, Leave, Enter, ring

-----------------------------------------------------------------------------
(* The pool.                                                               *)

-----------------------------------------------------------------------------
(* The inductive invariant.                                                *)

Task == [blk : Nat, stripe : Nat, t : Storages, event : 0 .. MaxJobs]

\* Phases of the main thread
Putting  == pc \in {"takeEvent", "putWorker", "putFinished"}
Getting  == pc \in {"waitEvent", "search"}
Ending   == pc \in {"stop", "waitStop", "deleteEvents", "over"}
HasEvent == pc \in {"putWorker", "putFinished", "waitEvent"}

One(P) == IF P THEN 1 ELSE 0

\* Stripes of the block that were got back
Got == ptr - Len(FinishedQueue) - One(Putting)

\* Tasks that have an event and are on their way through the workers
InHand == {FinishedQueue[i] : i \in DOMAIN FinishedQueue}
            \union {x \in {job} : pc \in {"putFinished", "waitEvent"}}

Holds(w) == wpc[w] \in {"process", "signal"}

PoolTypes ==
  /\ stripes \in Seq(Nat \ {0})
  /\ WorkerQueue \in Seq(Task) /\ FinishedQueue \in Seq(Task)
  /\ FreeEvents \in Seq(Events) /\ signaled \subseteq Events
  /\ WorkerThreadFinished \in BOOLEAN
  /\ wpc \in [Workers -> {"get", "process", "signal", "finish", "gone"}]
  /\ wtask \in [Workers -> Task]
  /\ storage \in [Storages -> Nat \X Nat]
  /\ pc \in {"loop", "push", "takeEvent", "putWorker", "putFinished", "get",
             "waitEvent", "search", "stop", "waitStop", "deleteEvents", "over"}
  /\ blk \in Nat \ {0} /\ ptr \in Nat
  /\ free_jobs \in 0 .. NumThreads /\ num_thread \in Storages
  /\ job \in Task /\ searched \in Seq(Nat \X Nat) /\ stopped \in 0 .. NumThreads
  /\ ~Ending => blk <= Len(stripes) /\ ptr <= stripes[blk]

\* Every job is free, in the queue or in the main thread's hands, and so is
\* every event
JobsCounted ==
  /\ free_jobs + Len(FinishedQueue) + One(Putting \/ Getting) = NumThreads
  /\ Ending => free_jobs = NumThreads
  /\ pc # "over" => Len(FreeEvents) + Len(FinishedQueue) + One(HasEvent) = MaxJobs
  /\ pc = "over" => FreeEvents = <<>>
  /\ num_thread = ptr % NumThreads
  /\ Got \in Nat /\ (Getting => Got >= 1)

\* Tasks are queued in the order of their stripes, storages taking turns
IsTask(x, s) == x.blk = blk /\ x.stripe = s /\ x.t = (s - 1) % NumThreads
TasksInOrder ==
  /\ \A i \in DOMAIN FinishedQueue :
       IsTask(FinishedQueue[i], Got + i) /\ FinishedQueue[i].event \in Events
  /\ Putting => IsTask(job, ptr)
  /\ Getting => IsTask(job, Got)
  /\ HasEvent => job.event \in Events

\* An event is free or belongs to one task
EventsApart ==
  /\ \A i, j \in DOMAIN FinishedQueue :
       i # j => FinishedQueue[i].event # FinishedQueue[j].event
  /\ \A i, j \in DOMAIN FreeEvents : i # j => FreeEvents[i] # FreeEvents[j]
  /\ \A i \in DOMAIN FinishedQueue, j \in DOMAIN FreeEvents :
       FinishedQueue[i].event # FreeEvents[j]
  /\ HasEvent =>
       /\ \A i \in DOMAIN FinishedQueue : FinishedQueue[i].event # job.event
       /\ \A j \in DOMAIN FreeEvents : FreeEvents[j] # job.event

\* Workers have tasks that are in hand
TasksInHand ==
  /\ \A i \in DOMAIN WorkerQueue :
       WorkerQueue[i] \in InHand \/ (Ending /\ WorkerQueue[i] = NullTask)
  /\ \A w \in Workers : Holds(w) => wtask[w] \in InHand
  /\ \A e \in signaled : \E x \in InHand : x.event = e

\* A task waits for a worker, is a worker's, or was signaled
OnePlace ==
  /\ \A i, j \in DOMAIN WorkerQueue :
       i # j => WorkerQueue[i].event # WorkerQueue[j].event
  /\ \A i \in DOMAIN WorkerQueue, w \in Workers :
       Holds(w) => WorkerQueue[i].event # wtask[w].event
  /\ \A v, w \in Workers :
       Holds(v) /\ Holds(w) /\ v # w => wtask[v].event # wtask[w].event
  /\ \A i \in DOMAIN WorkerQueue : WorkerQueue[i].event \notin signaled
  /\ \A w \in Workers : Holds(w) => wtask[w].event \notin signaled

\* The storage has what the task asked for, until the stripe was searched
Done(x) == storage[x.t] = <<x.blk, x.stripe>>
StoragesKept ==
  /\ \A x \in InHand : x.event \in signaled => Done(x)
  /\ \A w \in Workers : wpc[w] = "signal" => Done(wtask[w])
  /\ pc = "search" => Done(job)

Gone     == {w \in Workers : wpc[w] = "gone"}
NoFinish == \A w \in Workers : wpc[w] # "finish"

\* One worker is stopped at a time
StopsCounted ==
  /\ Cardinality(Gone) = stopped + One(WorkerThreadFinished)
  /\ pc # "waitStop" => NoFinish /\ ~WorkerThreadFinished
  /\ ~Ending => stopped = 0
  /\ pc \in {"stop", "deleteEvents", "over"} => WorkerQueue = <<>>
  /\ pc \in {"deleteEvents", "over"} => stopped = NumThreads
  /\ pc = "waitStop" =>
       /\ stopped < NumThreads
       /\ \/ WorkerQueue = <<NullTask>> /\ NoFinish /\ ~WorkerThreadFinished
          \/ /\ WorkerQueue = <<>> /\ ~WorkerThreadFinished
             /\ \E w \in Workers : \A v \in Workers : wpc[v] = "finish" <=> v = w
          \/ WorkerQueue = <<>> /\ NoFinish /\ WorkerThreadFinished

\* The main thread knows which stripe is the next to be searched
Searched == Got - One(Getting)
SearchesInOrder ==
  /\ ~Ending => StripePromise!Following =
       IF Searched < stripes[blk] THEN <<blk, Searched + 1>> ELSE <<blk + 1, 1>>
  /\ Ending => StripePromise!Following = <<Len(stripes) + 1, 1>>

PoolIInv == /\ PoolTypes /\ JobsCounted /\ TasksInOrder /\ EventsApart
        /\ TasksInHand /\ OnePlace /\ StoragesKept /\ StopsCounted
        /\ SearchesInOrder

-----------------------------------------------------------------------------
(* Storages take turns.                                                    *)

LEMMA Sizes ==
  /\ NumThreads \in Nat /\ NumThreads >= 1 /\ MaxJobs = NumThreads
  /\ 0 \in Storages /\ 0 % NumThreads = 0
BY PoolAssumption DEF MaxJobs, Storages

LEMMA Remainder ==
  ASSUME NEW s \in Nat
  PROVE  s % NumThreads \in Storages
BY Sizes DEF Storages

\* The turn after s
LEMMA NextTurn ==
  ASSUME NEW s \in Nat
  PROVE  ((s % NumThreads) + 1) % NumThreads = (s + 1) % NumThreads
<1> DEFINE N == NumThreads
           q == s \div N
           r == s % N
<1>1. N \in Nat /\ N >= 1 /\ q \in Nat /\ r \in 0 .. N - 1 /\ s = N * q + r
  BY Sizes
<1> HIDE DEF N, q, r
<1>2. CASE r < N - 1
  <2>1. (s + 1) = N * q + (r + 1) /\ r + 1 \in 0 .. N - 1
    BY <1>1, <1>2
  <2>2. (s + 1) % N = r + 1
    BY <1>1, <2>1
  <2>3. (r + 1) % N = r + 1
    BY <1>1, <2>1
  <2>4. QED BY <2>2, <2>3 DEF N, r
<1>3. CASE r = N - 1
  <2>1. s + 1 = N * q + N
    BY <1>1, <1>3
  <2>2. s + 1 = N * (q + 1)
    BY <2>1, <1>1
  <2>3. (s + 1) % N = 0
    BY <1>1, <2>2
  <2>4. r + 1 = N /\ N % N = 0
    BY <1>1, <1>3
  <2>5. QED BY <2>3, <2>4 DEF N, r
<1>4. QED BY <1>1, <1>2, <1>3

\* Fewer than NumThreads stripes have different storages
LEMMA TurnsDiffer ==
  ASSUME NEW s \in Nat, NEW u \in Nat, s < u, u - s < NumThreads
  PROVE  s % NumThreads # u % NumThreads
<1> DEFINE N == NumThreads
           q == s \div N
           p == u \div N
           r == s % N
           z == u % N
<1>1. /\ N \in Nat /\ N >= 1 /\ q \in Nat /\ r \in 0 .. N - 1 /\ s = N * q + r
      /\ p \in Nat /\ z \in 0 .. N - 1 /\ u = N * p + z
  BY Sizes
<1>2. u - s < N /\ s < u
  BY DEF N
<1>. HIDE DEF N, q, p, r, z
<1>3. SUFFICES ASSUME r = z PROVE FALSE
  BY DEF N, r, z
<1>4. u - s = N * p - N * q
  BY <1>1, <1>3
<1>5. PICK d \in Int : d = p - q
  BY <1>1
<1>6. N * p - N * q = N * d
  BY <1>1, <1>5
<1>7. N * d > 0 /\ N * d < N
  BY <1>1, <1>2, <1>4, <1>6
<1>8. CASE d <= 0
  <2>1. N * d <= 0
    BY <1>8, <1>1, <1>5
  <2>2. QED BY <2>1, <1>7, <1>1
<1>9. CASE d >= 1
  <2>1. N * d >= N
    BY <1>9, <1>1, <1>5
  <2>2. QED BY <2>1, <1>7, <1>1
<1>10. QED BY <1>8, <1>9, <1>5

-----------------------------------------------------------------------------
(* Types.                                                                  *)

USE DEF Goto, WGoto, loopVars, poolVars, workerVars

LEMMA NullIsTask == NullTask \in Task /\ \A w \in Workers : w \in Nat
BY Sizes DEF NullTask, Task, Workers

\* What workers leave alone
mainView == <<stripes, FinishedQueue, FreeEvents, pc, blk, ptr, free_jobs,
              num_thread, job, searched, stopped>>

LEMMA WorkersApart ==
  ASSUME NEW w \in Workers, WorkerNext(w)
  PROVE  UNCHANGED mainView
BY DEF WorkerNext, WorkerGet, WorkerProcess, WorkerSignal, WorkerFinish, mainView

LEMMA TypesKeptByWorkers ==
  ASSUME PoolIInv, NEW w \in Workers, WorkerNext(w)
  PROVE  PoolTypes'
<1> USE DEF PoolIInv, PoolTypes, Ending
<1>1. CASE WorkerGet(w)
  <2>1. WorkerQueue # <<>> /\ Head(WorkerQueue) \in Task /\ Tail(WorkerQueue) \in Seq(Task)
    BY <1>1 DEF WorkerGet
  <2>2. QED BY <2>1, <1>1 DEF WorkerGet
<1>2. CASE WorkerProcess(w)
  <2>1. wtask[w].t \in Storages /\ <<wtask[w].blk, wtask[w].stripe>> \in Nat \X Nat
    BY DEF Task
  <2>2. QED BY <2>1, <1>2 DEF WorkerProcess
<1>3. CASE WorkerSignal(w)
  <2>1. wtask[w].event \in Events
    BY <1>3 DEF WorkerSignal, TasksInHand, InHand, Holds, TasksInOrder, HasEvent
  <2>2. QED BY <2>1, <1>3 DEF WorkerSignal
<1>4. CASE WorkerFinish(w)
  BY <1>4 DEF WorkerFinish
<1>5. QED BY <1>1, <1>2, <1>3, <1>4 DEF WorkerNext

LEMMA TypesKeptByMain ==
  ASSUME PoolIInv, CdcNext
  PROVE  PoolTypes'
<1> USE DEF PoolIInv, PoolTypes, Ending
<1>1. CASE LoopTest
  <2>1. NumThreads \in 0 .. NumThreads /\ 0 \in Storages
    BY Sizes
  <2>2. CASE free_jobs < NumThreads \/ ptr < stripes[blk]
    BY <2>2, <1>1 DEF LoopTest
  <2>3. CASE ~(free_jobs < NumThreads \/ ptr < stripes[blk]) /\ blk < Len(stripes)
    <3>1. blk + 1 \in 1 .. Len(stripes) /\ stripes[blk + 1] \in Nat /\ 0 <= stripes[blk + 1]
      BY <2>3
    <3>2. /\ blk' = blk + 1 /\ ptr' = 0 /\ free_jobs' = NumThreads /\ num_thread' = 0
          /\ pc' = "loop"
      BY <2>3, <1>1 DEF LoopTest
    <3>3. UNCHANGED <<stripes, poolVars, workerVars, storage, job, searched, stopped>>
      BY <1>1 DEF LoopTest
    <3>4. blk' <= Len(stripes)' /\ ptr' <= stripes'[blk'] /\ blk' \in Nat \ {0} /\ ptr' \in Nat
      BY <3>1, <3>2, <3>3
    <3>5. free_jobs' \in 0 .. NumThreads /\ num_thread' \in Storages
      BY <3>2, <2>1
    <3>6. QED BY <3>2, <3>3, <3>4, <3>5
  <2>4. CASE ~(free_jobs < NumThreads \/ ptr < stripes[blk]) /\ ~(blk < Len(stripes))
    BY <2>4, <1>1 DEF LoopTest
  <2>5. QED BY <2>2, <2>3, <2>4
<1>2. CASE Push
  <2>1. CASE free_jobs > 0 /\ ptr < stripes[blk]
    <3>1. job' = [blk |-> blk, stripe |-> ptr + 1, t |-> num_thread, event |-> 0]
          /\ ptr' = ptr + 1 /\ free_jobs' = free_jobs - 1
          /\ num_thread' = (num_thread + 1) % NumThreads
      BY <2>1, <1>2 DEF Push
    <3>2. job' \in Task
      BY <3>1, Sizes DEF Task
    <3>3. num_thread' \in Storages
      <4>1. PICK s \in Nat : s = num_thread + 1
        BY Sizes DEF Storages
      <4>2. QED BY <3>1, <4>1, Remainder
    <3>4. free_jobs' \in 0 .. NumThreads /\ ptr' \in Nat
      BY <3>1, <2>1, Sizes
    <3>5. blk \in 1 .. Len(stripes) /\ stripes[blk] \in Nat /\ ptr + 1 <= stripes[blk]
      BY <2>1, <1>2 DEF Push
    <3>6. QED BY <3>1, <3>2, <3>3, <3>4, <3>5, <2>1, <1>2 DEF Push
  <2>2. CASE ~(free_jobs > 0 /\ ptr < stripes[blk])
    BY <2>2, <1>2 DEF Push
  <2>3. QED BY <2>1, <2>2
<1>3. CASE PutEvent
  <2>1. Head(FreeEvents) \in Events /\ Tail(FreeEvents) \in Seq(Events)
    BY <1>3 DEF PutEvent
  <2>2. job' = [job EXCEPT !.event = Head(FreeEvents)]
    BY <1>3 DEF PutEvent
  <2>4. Head(FreeEvents) \in 0 .. MaxJobs
    BY <2>1, Sizes DEF Events
  <2>5. job' \in Task
    BY <2>2, <2>4 DEF Task
  <2>3. QED BY <2>1, <2>5, <1>3 DEF PutEvent
<1>4. CASE PutWorker
  BY <1>4 DEF PutWorker
<1>5. CASE PutFinished
  BY <1>5 DEF PutFinished
<1>6. CASE GetTask
  <2>1. Head(FinishedQueue) \in Task /\ Tail(FinishedQueue) \in Seq(Task)
    BY <1>6 DEF GetTask
  <2>2. QED BY <2>1, <1>6 DEF GetTask
<1>7. CASE GetWait
  <2>1. job.event \in Events
    BY <1>7 DEF GetWait
  <2>2. Append(FreeEvents, job.event) \in Seq(Events)
    BY <2>1
  <2>3. QED BY <2>1, <2>2, <1>7 DEF GetWait
<1>8. CASE Search
  <2>1. job.t \in Storages
    BY DEF Task
  <2>2. storage[job.t] \in Nat \X Nat
    BY <2>1
  <2>3. free_jobs' \in 0 .. NumThreads
    BY <1>8, Sizes DEF Search, JobsCounted, One, Getting
  <2>4. searched' \in Seq(Nat \X Nat)
    BY <2>2, <1>8 DEF Search
  <2>5. pc' = "loop" /\ pc = "search"
    BY <1>8 DEF Search
  <2>6. UNCHANGED <<stripes, poolVars, workerVars, storage, blk, ptr, num_thread, job, stopped>>
    BY <1>8 DEF Search
  <2>7. QED BY <2>3, <2>4, <2>5, <2>6
<1>9. CASE Stop
  <2>1. Append(WorkerQueue, NullTask) \in Seq(Task)
    BY NullIsTask
  <2>2. QED BY <2>1, <1>9 DEF Stop
<1>10. CASE WaitStop
  <2>1. stopped' \in 0 .. NumThreads
    BY <1>10, Sizes DEF WaitStop, StopsCounted
  <2>2. QED BY <2>1, <1>10 DEF WaitStop
<1>11. CASE DeleteEvents
  BY <1>11 DEF DeleteEvents
<1>12. QED BY <1>1, <1>2, <1>3, <1>4, <1>5, <1>6, <1>7, <1>8, <1>9, <1>10, <1>11
           DEF CdcNext

-----------------------------------------------------------------------------
(* Jobs and events.                                                        *)

LEMMA MainViewKept ==
  ASSUME PoolIInv, UNCHANGED mainView
  PROVE  JobsCounted' /\ TasksInOrder' /\ EventsApart' /\ SearchesInOrder'
<1>1. JobsCounted'
  BY DEF PoolIInv, mainView, JobsCounted, Putting, Getting, Ending, HasEvent, Got, One
<1>2. TasksInOrder'
  BY DEF PoolIInv, mainView, TasksInOrder, Putting, Getting, HasEvent, Got, One, IsTask
<1>3. EventsApart'
  BY DEF PoolIInv, mainView, EventsApart, HasEvent
<1>4. SearchesInOrder'
  BY DEF PoolIInv, mainView, SearchesInOrder, Ending, Searched, Got, Putting, Getting, One,
         StripePromise!Following, StripePromise!After
<1>5. QED BY <1>1, <1>2, <1>3, <1>4

LEMMA QueueFacts ==
  ASSUME PoolTypes
  PROVE  /\ Len(FinishedQueue) \in Nat /\ Len(FreeEvents) \in Nat
         /\ FinishedQueue # <<>> =>
              /\ Len(FinishedQueue) >= 1 /\ Len(Tail(FinishedQueue)) = Len(FinishedQueue) - 1
              /\ Head(FinishedQueue) = FinishedQueue[1]
              /\ \A i \in DOMAIN Tail(FinishedQueue) :
                   /\ i + 1 \in DOMAIN FinishedQueue
                   /\ Tail(FinishedQueue)[i] = FinishedQueue[i + 1]
         /\ FreeEvents # <<>> =>
              /\ Len(FreeEvents) >= 1 /\ Len(Tail(FreeEvents)) = Len(FreeEvents) - 1
              /\ Head(FreeEvents) = FreeEvents[1]
              /\ \A i \in DOMAIN Tail(FreeEvents) :
                   /\ i + 1 \in DOMAIN FreeEvents
                   /\ Tail(FreeEvents)[i] = FreeEvents[i + 1]
         /\ WorkerQueue # <<>> =>
              /\ Head(WorkerQueue) = WorkerQueue[1] /\ 1 \in DOMAIN WorkerQueue
              /\ \A i \in DOMAIN Tail(WorkerQueue) :
                   /\ i + 1 \in DOMAIN WorkerQueue
                   /\ Tail(WorkerQueue)[i] = WorkerQueue[i + 1]
BY DEF PoolTypes

LEMMA CountsKept ==
  ASSUME PoolIInv, CdcNext
  PROVE  JobsCounted'
<1> USE QueueFacts, Sizes
    DEF PoolIInv, PoolTypes, JobsCounted, Putting, Getting, Ending, HasEvent, Got, One
<1>1. CASE LoopTest
  <2>1. CASE free_jobs < NumThreads \/ ptr < stripes[blk]
    BY <2>1, <1>1 DEF LoopTest
  <2>2. CASE ~(free_jobs < NumThreads \/ ptr < stripes[blk]) /\ blk < Len(stripes)
    <3>1. free_jobs = NumThreads /\ Len(FinishedQueue) = 0
      BY <2>2, <1>1 DEF LoopTest
    <3>2. QED BY <3>1, <2>2, <1>1 DEF LoopTest
  <2>3. CASE ~(free_jobs < NumThreads \/ ptr < stripes[blk]) /\ ~(blk < Len(stripes))
    BY <2>3, <1>1 DEF LoopTest
  <2>4. QED BY <2>1, <2>2, <2>3
<1>2. CASE Push
  <2>1. CASE free_jobs > 0 /\ ptr < stripes[blk]
    <3>1. num_thread' = ptr' % NumThreads
      BY <2>1, <1>2, NextTurn DEF Push
    <3>2. QED BY <3>1, <2>1, <1>2 DEF Push
  <2>2. CASE ~(free_jobs > 0 /\ ptr < stripes[blk])
    BY <2>2, <1>2 DEF Push
  <2>3. QED BY <2>1, <2>2
<1>3. CASE PutEvent
  BY <1>3 DEF PutEvent
<1>4. CASE PutWorker
  BY <1>4 DEF PutWorker
<1>5. CASE PutFinished
  <2>1. Len(FinishedQueue') = Len(FinishedQueue) + 1
    BY <1>5 DEF PutFinished
  <2>2. QED BY <2>1, <1>5 DEF PutFinished
<1>6. CASE GetTask
  BY <1>6 DEF GetTask
<1>7. CASE GetWait
  <2>1. Len(FreeEvents') = Len(FreeEvents) + 1
    BY <1>7 DEF GetWait
  <2>2. QED BY <2>1, <1>7 DEF GetWait
<1>8. CASE Search
  BY <1>8 DEF Search
<1>9. CASE Stop
  BY <1>9 DEF Stop
<1>10. CASE WaitStop
  BY <1>10 DEF WaitStop
<1>11. CASE DeleteEvents
  BY <1>11 DEF DeleteEvents
<1>12. QED BY <1>1, <1>2, <1>3, <1>4, <1>5, <1>6, <1>7, <1>8, <1>9, <1>10, <1>11
           DEF CdcNext

\* How much of the block was got back after a step
LEMMA GotAfter ==
  ASSUME PoolIInv
  PROVE  /\ Push \/ PutEvent \/ PutWorker \/ PutFinished \/ GetWait \/ Search
              => Got' = Got /\ blk' = blk
         /\ GetTask => Got' = Got + 1 /\ blk' = blk
         /\ Stop \/ WaitStop \/ DeleteEvents => Got' = Got /\ blk' = blk
<1> USE QueueFacts, Sizes DEF PoolIInv, PoolTypes, JobsCounted, Putting, Got, One
<1>1. Push => Got' = Got /\ blk' = blk
  <2>1. CASE free_jobs > 0 /\ ptr < stripes[blk]
    <3>1. ASSUME Push PROVE Got' = Got /\ blk' = blk
      <4>1. ptr' = ptr + 1 /\ pc = "push" /\ pc' = "takeEvent" /\ blk' = blk
            /\ FinishedQueue' = FinishedQueue
        BY <2>1, <3>1 DEF Push
      <4>2. QED BY <4>1
    <3>2. QED BY <3>1
  <2>2. CASE ~(free_jobs > 0 /\ ptr < stripes[blk])
    BY <2>2 DEF Push
  <2>3. QED BY <2>1, <2>2
<1>2. PutEvent => Got' = Got /\ blk' = blk
  BY DEF PutEvent
<1>3. PutWorker => Got' = Got /\ blk' = blk
  BY DEF PutWorker
<1>4. PutFinished => Got' = Got /\ blk' = blk
  <2>1. PutFinished => Len(FinishedQueue') = Len(FinishedQueue) + 1
    BY DEF PutFinished
  <2>2. QED BY <2>1 DEF PutFinished
<1>5. GetWait => Got' = Got /\ blk' = blk
  BY DEF GetWait
<1>6. Search => Got' = Got /\ blk' = blk
  BY DEF Search
<1>7. GetTask => Got' = Got + 1 /\ blk' = blk
  BY DEF GetTask
<1>8. Stop \/ WaitStop \/ DeleteEvents => Got' = Got /\ blk' = blk
  BY DEF Stop, WaitStop, DeleteEvents
<1>9. QED BY <1>1, <1>2, <1>3, <1>4, <1>5, <1>6, <1>7, <1>8

LEMMA OrderKept ==
  ASSUME PoolIInv, CdcNext
  PROVE  TasksInOrder'
<1> USE DEF TasksInOrder, IsTask, HasEvent, Putting, Getting
<1>0. /\ PoolTypes /\ JobsCounted /\ TasksInOrder
      /\ \A i \in DOMAIN FinishedQueue : FinishedQueue[i] \in Task
      /\ DOMAIN FinishedQueue = 1 .. Len(FinishedQueue)
  BY DEF PoolIInv, PoolTypes
<1>1. CASE LoopTest
  <2>1. CASE free_jobs < NumThreads \/ ptr < stripes[blk]
    BY <1>0, <2>1, <1>1 DEF LoopTest, Got, One
  <2>2. CASE ~(free_jobs < NumThreads \/ ptr < stripes[blk])
    <3>1. Len(FinishedQueue) = 0 /\ DOMAIN FinishedQueue = {}
      <4>1. free_jobs = NumThreads /\ FinishedQueue \in Seq(Task) /\ Len(FinishedQueue) \in Nat
        BY <1>0, <2>2, <1>1, Sizes DEF LoopTest, PoolTypes
      <4>2. Len(FinishedQueue) = 0
        BY <4>1, <1>0, Sizes DEF JobsCounted, One
      <4>3. QED BY <4>1, <4>2
    <3>2. FinishedQueue' = FinishedQueue /\ pc' \in {"loop", "stop"}
      BY <2>2, <1>1 DEF LoopTest
    <3>3. QED BY <3>1, <3>2
  <2>3. QED BY <2>1, <2>2
<1>2. CASE Push
  <2>1. Got' = Got /\ blk' = blk /\ FinishedQueue' = FinishedQueue
    BY <1>2, GotAfter DEF Push
  <2>2. CASE free_jobs > 0 /\ ptr < stripes[blk]
    <3>1. /\ job' = [blk |-> blk, stripe |-> ptr + 1, t |-> num_thread, event |-> 0]
          /\ ptr' = ptr + 1 /\ pc' = "takeEvent"
      BY <2>2, <1>2 DEF Push
    <3>2. ptr' - 1 = ptr /\ num_thread = ptr % NumThreads
      BY <1>0, <3>1 DEF JobsCounted, PoolTypes
    <3>3. IsTask(job, ptr)'
      BY <3>1, <3>2, <2>1
    <3>4. QED BY <2>1, <3>1, <3>3, <1>0
  <2>3. CASE ~(free_jobs > 0 /\ ptr < stripes[blk])
    <3>1. pc' = "get"
      BY <2>3, <1>2 DEF Push
    <3>2. QED BY <2>1, <3>1, <1>0
  <2>4. QED BY <2>2, <2>3
<1>3. CASE PutEvent
  <2>1. Got' = Got /\ blk' = blk /\ FinishedQueue' = FinishedQueue
    BY <1>3, GotAfter DEF PutEvent
  <2>2. /\ pc = "takeEvent" /\ pc' = "putWorker" /\ ptr' = ptr
        /\ job' = [job EXCEPT !.event = Head(FreeEvents)] /\ Head(FreeEvents) \in Events
    BY <1>3, <1>0 DEF PutEvent, PoolTypes
  <2>3. job'.blk = job.blk /\ job'.stripe = job.stripe /\ job'.t = job.t
        /\ job'.event \in Events
    BY <2>2, <1>0 DEF PoolTypes, Task
  <2>4. QED BY <2>1, <2>2, <2>3, <1>0
<1>4. CASE PutWorker
  <2>1. Got' = Got /\ blk' = blk /\ FinishedQueue' = FinishedQueue
    BY <1>4, GotAfter DEF PutWorker
  <2>2. QED BY <2>1, <1>4, <1>0 DEF PutWorker
<1>5. CASE PutFinished
  <2>1. Got' = Got /\ blk' = blk /\ FinishedQueue' = Append(FinishedQueue, job)
        /\ pc = "putFinished" /\ pc' = "push" /\ job \in Task
    BY <1>5, <1>0, GotAfter DEF PutFinished, PoolTypes
  <2>2. IsTask(job, ptr) /\ job.event \in Events
    BY <2>1, <1>0
  <2>3. ptr = Got + Len(FinishedQueue) + 1
    BY <2>1, <1>0, QueueFacts DEF Got, One, PoolTypes
  <2>4. ASSUME NEW i \in DOMAIN FinishedQueue'
        PROVE  IsTask(FinishedQueue'[i], Got + i) /\ FinishedQueue'[i].event \in Events
    <3>1. CASE i = Len(FinishedQueue) + 1
      <4>1. Got + i = ptr
        BY <3>1, <2>3, <1>0, QueueFacts DEF JobsCounted
      <4>2. FinishedQueue'[i] = job
        BY <3>1, <2>1, <1>0 DEF PoolTypes
      <4>3. QED BY <4>1, <4>2, <2>2
    <3>2. CASE i # Len(FinishedQueue) + 1
      <4>1. i \in DOMAIN FinishedQueue /\ FinishedQueue'[i] = FinishedQueue[i]
        <5>1. FinishedQueue \in Seq(Task)
          BY <1>0 DEF PoolTypes
        <5>2. Len(FinishedQueue) \in Nat /\ i \in 1 .. Len(FinishedQueue) + 1
          BY <5>1, <2>1
        <5>3. i \in 1 .. Len(FinishedQueue)
          BY <5>2, <3>2
        <5>4. QED BY <5>1, <5>3, <2>1
      <4>2. QED BY <4>1, <1>0
    <3>3. QED BY <3>1, <3>2
  <2>5. QED BY <2>1, <2>4
<1>6. CASE GetTask
  <2>1. Got' = Got + 1 /\ blk' = blk /\ FinishedQueue' = Tail(FinishedQueue)
        /\ job' = FinishedQueue[1] /\ 1 \in DOMAIN FinishedQueue /\ pc' = "waitEvent"
    BY <1>6, <1>0, GotAfter, QueueFacts DEF GetTask, PoolTypes
  <2>2. IsTask(job, Got)' /\ job'.event \in Events
    BY <2>1, <1>0
  <2>3. ASSUME NEW i \in DOMAIN FinishedQueue'
        PROVE  IsTask(FinishedQueue[i], Got + i)' /\ FinishedQueue'[i].event \in Events
    <3>1. i + 1 \in DOMAIN FinishedQueue /\ FinishedQueue'[i] = FinishedQueue[i + 1]
      BY <2>1, <1>6, <1>0, QueueFacts DEF GetTask
    <3>2. Got' + i = Got + (i + 1)
      BY <2>1, <1>0, QueueFacts DEF JobsCounted, PoolTypes
    <3>3. QED BY <3>1, <3>2, <2>1, <1>0
  <2>4. QED BY <2>1, <2>2, <2>3
<1>7. CASE GetWait
  <2>1. Got' = Got /\ blk' = blk /\ FinishedQueue' = FinishedQueue
    BY <1>7, GotAfter DEF GetWait
  <2>2. QED BY <2>1, <1>7, <1>0 DEF GetWait
<1>8. CASE Search
  <2>1. Got' = Got /\ blk' = blk /\ FinishedQueue' = FinishedQueue
    BY <1>8, GotAfter DEF Search
  <2>2. QED BY <2>1, <1>8, <1>0 DEF Search
<1>9. CASE Stop \/ WaitStop \/ DeleteEvents
  <2>1. Got' = Got /\ blk' = blk /\ FinishedQueue' = FinishedQueue
    BY <1>9, GotAfter DEF Stop, WaitStop, DeleteEvents
  <2>2. QED BY <2>1, <1>9, <1>0 DEF Stop, WaitStop, DeleteEvents
<1>10. QED BY <1>1, <1>2, <1>3, <1>4, <1>5, <1>6, <1>7, <1>8, <1>9 DEF CdcNext

LEMMA EventsKeptApart ==
  ASSUME PoolIInv, CdcNext
  PROVE  EventsApart'
<1> USE DEF EventsApart, HasEvent
<1>0. PoolTypes /\ EventsApart /\ TasksInOrder /\ DOMAIN FreeEvents = 1 .. Len(FreeEvents)
      /\ DOMAIN FinishedQueue = 1 .. Len(FinishedQueue)
  BY DEF PoolIInv, PoolTypes
<1>1. CASE LoopTest \/ Push \/ Search \/ Stop \/ WaitStop
  <2>1. UNCHANGED <<FinishedQueue, FreeEvents>> /\ ~HasEvent'
    BY <1>1 DEF LoopTest, Push, Search, Stop, WaitStop
  <2>2. QED BY <2>1, <1>0
<1>2. CASE PutEvent
  <2>1. /\ FinishedQueue' = FinishedQueue /\ FreeEvents' = Tail(FreeEvents)
        /\ FreeEvents # <<>> /\ job' = [job EXCEPT !.event = Head(FreeEvents)]
    BY <1>2 DEF PutEvent
  <2>2. job'.event = FreeEvents[1] /\ 1 \in DOMAIN FreeEvents
    BY <2>1, <1>0, QueueFacts DEF PoolTypes, Task
  <2>3. \A i \in DOMAIN FreeEvents' :
          i + 1 \in DOMAIN FreeEvents /\ FreeEvents'[i] = FreeEvents[i + 1] /\ i \in Nat \ {0}
    BY <2>1, <1>0, QueueFacts DEF PoolTypes
  <2>4. QED BY <2>1, <2>2, <2>3, <1>0
<1>3. CASE PutWorker
  BY <1>3, <1>0 DEF PutWorker
<1>4. CASE PutFinished
  <2>1. /\ FinishedQueue' = Append(FinishedQueue, job) /\ FreeEvents' = FreeEvents
        /\ HasEvent /\ ~HasEvent'
    BY <1>4 DEF PutFinished
  <2>2. \A i \in DOMAIN FinishedQueue' :
          \/ i \in DOMAIN FinishedQueue /\ FinishedQueue'[i] = FinishedQueue[i]
          \/ i = Len(FinishedQueue) + 1 /\ FinishedQueue'[i] = job
    BY <2>1, <1>0 DEF PoolTypes
  <2>3. \A i, j \in DOMAIN FinishedQueue' :
          i # j => FinishedQueue'[i].event # FinishedQueue'[j].event
    BY <2>1, <2>2, <1>0
  <2>4. \A i \in DOMAIN FinishedQueue', j \in DOMAIN FreeEvents :
          FinishedQueue'[i].event # FreeEvents[j]
    BY <2>1, <2>2, <1>0
  <2>5. QED BY <2>1, <2>3, <2>4, <1>0
<1>5. CASE GetTask
  <2>1. /\ FinishedQueue' = Tail(FinishedQueue) /\ FreeEvents' = FreeEvents
        /\ job' = FinishedQueue[1] /\ 1 \in DOMAIN FinishedQueue
    BY <1>5, <1>0, QueueFacts DEF GetTask
  <2>2. \A i \in DOMAIN FinishedQueue' :
          /\ i + 1 \in DOMAIN FinishedQueue /\ FinishedQueue'[i] = FinishedQueue[i + 1]
          /\ i \in Nat \ {0}
    BY <2>1, <1>5, <1>0, QueueFacts DEF GetTask, PoolTypes
  <2>3. \A i, j \in DOMAIN FinishedQueue' :
          i # j => FinishedQueue'[i].event # FinishedQueue'[j].event
    BY <2>2, <1>0
  <2>4. \A i \in DOMAIN FinishedQueue', j \in DOMAIN FreeEvents :
          FinishedQueue'[i].event # FreeEvents[j]
    BY <2>2, <1>0
  <2>5. \A i \in DOMAIN FinishedQueue' : FinishedQueue'[i].event # job'.event
    <3>1. ASSUME NEW i \in DOMAIN FinishedQueue'
          PROVE  FinishedQueue'[i].event # job'.event
      <4>1. i + 1 # 1
        BY <2>2
      <4>2. QED BY <4>1, <2>1, <2>2, <1>0
    <3>2. QED BY <3>1
  <2>6. \A j \in DOMAIN FreeEvents : FreeEvents[j] # job'.event
    BY <2>1, <1>0
  <2>7. QED BY <2>1, <2>3, <2>4, <2>5, <2>6, <1>0
<1>6. CASE GetWait
  <2>1. /\ FreeEvents' = Append(FreeEvents, job.event) /\ FinishedQueue' = FinishedQueue
        /\ HasEvent /\ ~HasEvent' /\ job.event \in Events
    BY <1>6, <1>0 DEF GetWait, TasksInOrder
  <2>2. \A i \in DOMAIN FreeEvents' :
          \/ i \in DOMAIN FreeEvents /\ FreeEvents'[i] = FreeEvents[i]
          \/ i = Len(FreeEvents) + 1 /\ FreeEvents'[i] = job.event
    BY <2>1, <1>0 DEF PoolTypes
  <2>3. QED BY <2>1, <2>2, <1>0
<1>7. CASE DeleteEvents
  <2>1. FinishedQueue' = FinishedQueue /\ DOMAIN FreeEvents' = {} /\ ~HasEvent'
    BY <1>7 DEF DeleteEvents
  <2>2. QED BY <2>1, <1>0
<1>8. QED BY <1>1, <1>2, <1>3, <1>4, <1>5, <1>6, <1>7 DEF CdcNext

-----------------------------------------------------------------------------
(* Tasks in hand.                                                          *)

\* Two tasks that are not yet searched have different events and storages
LEMMA HandApart ==
  ASSUME PoolIInv
  PROVE  /\ \A x \in InHand : x \in Task /\ x.event \in Events /\ x.t \in Storages
         /\ \A x, y \in InHand : x # y => x.event # y.event /\ x.t # y.t
         /\ pc = "search" => \A x \in InHand : x.t # job.t
         /\ pc = "putWorker" => \A x \in InHand : x.event # job.event
         /\ Ending => InHand = {}
<1> DEFINE L == Len(FinishedQueue)
<1>1. /\ L \in Nat /\ DOMAIN FinishedQueue = 1 .. L /\ Got \in Nat
      /\ \A i \in 1 .. L : FinishedQueue[i] \in Task /\ FinishedQueue[i].event \in Events
      /\ \A i \in 1 .. L : FinishedQueue[i].t = (Got + i - 1) % NumThreads
      /\ L <= NumThreads /\ (Putting \/ Getting => L <= NumThreads - 1)
      /\ job \in Task /\ NumThreads \in Nat
  <2>1. /\ L \in Nat /\ DOMAIN FinishedQueue = 1 .. L /\ Got \in Nat /\ job \in Task
        /\ \A i \in 1 .. L : FinishedQueue[i] \in Task
    BY DEF PoolIInv, PoolTypes, JobsCounted
  <2>2. \A i \in 1 .. L : FinishedQueue[i].t = (Got + i - 1) % NumThreads
                           /\ FinishedQueue[i].event \in Events
    BY <2>1 DEF PoolIInv, TasksInOrder, IsTask
  <2>3. NumThreads \in Nat /\ L <= NumThreads /\ (Putting \/ Getting => L <= NumThreads - 1)
    <3> DEFINE one == One(Putting \/ Getting)
    <3>1. free_jobs \in Nat /\ free_jobs + L + one = NumThreads
      BY DEF PoolIInv, PoolTypes, JobsCounted
    <3>2. one \in {0, 1} /\ (Putting \/ Getting => one = 1)
      BY DEF One
    <3> HIDE DEF one, L
    <3>3. QED BY <2>1, <3>1, <3>2, Sizes
  <2>4. QED BY <2>1, <2>2, <2>3
<1>2. \A x \in Task : x.t \in Storages
  BY DEF Task
<1>3. /\ pc \in {"putFinished", "waitEvent"} => job.event \in Events
      /\ pc = "putFinished" => job.t = (Got + L + 1 - 1) % NumThreads
      /\ Getting => job.t = (Got - 1) % NumThreads /\ Got >= 1
  <2>1. pc = "putFinished" => ptr = Got + L + 1
    BY <1>1 DEF PoolIInv, PoolTypes, Got, One, Putting
  <2>2. QED BY <2>1 DEF PoolIInv, JobsCounted, TasksInOrder, HasEvent, IsTask, Putting, Getting
<1>4. ASSUME NEW i \in 0 .. L + 1, NEW j \in 0 .. L + 1, i # j,
             i - j < NumThreads, j - i < NumThreads, Got + i >= 1, Got + j >= 1
      PROVE  (Got + i - 1) % NumThreads # (Got + j - 1) % NumThreads
  <2>0. Got + i - 1 \in Nat /\ Got + j - 1 \in Nat
    BY <1>1, <1>4
  <2>1. PICK m \in Nat, b \in Nat : m = Got + i - 1 /\ b = Got + j - 1
    BY <2>0
  <2>2. (m < b /\ b - m < NumThreads) \/ (b < m /\ m - b < NumThreads)
    BY <2>1, <1>1, <1>4
  <2>3. m % NumThreads # b % NumThreads
    BY <2>2, TurnsDiffer
  <2>4. QED BY <2>1, <2>3
<1> HIDE DEF L
<1>5. \A i, j \in 1 .. L : i # j => FinishedQueue[i].t # FinishedQueue[j].t
                                      /\ FinishedQueue[i].event # FinishedQueue[j].event
  <2>1. SUFFICES ASSUME NEW i \in 1 .. L, NEW j \in 1 .. L, i # j
                 PROVE  FinishedQueue[i].t # FinishedQueue[j].t
    BY <1>1 DEF PoolIInv, EventsApart
  <2>2. i - j < NumThreads /\ j - i < NumThreads /\ Got + i >= 1 /\ Got + j >= 1
        /\ i \in 0 .. L + 1 /\ j \in 0 .. L + 1
    BY <1>1, <2>1
  <2>3. QED BY <1>1, <1>4, <2>1, <2>2
<1>6. pc \in {"putFinished", "waitEvent"} =>
        \A i \in 1 .. L : FinishedQueue[i].event # job.event /\ FinishedQueue[i].t # job.t
  <2>1. SUFFICES ASSUME pc \in {"putFinished", "waitEvent"}, NEW i \in 1 .. L
                 PROVE  FinishedQueue[i].t # job.t
    BY <1>1 DEF PoolIInv, EventsApart, HasEvent
  <2>2. PICK j \in {0, L + 1} : job.t = (Got + j - 1) % NumThreads /\ Got + j >= 1
    <3>1. CASE pc = "waitEvent"
      <4>1. Got + 0 - 1 = Got - 1 /\ Got + 0 = Got
        BY <1>1
      <4>5. job.t = (Got - 1) % NumThreads /\ Got >= 1
        BY <1>3, <3>1, Zenon DEF Getting
      <4>2. job.t = (Got + 0 - 1) % NumThreads /\ Got + 0 >= 1
        BY <4>1, <4>5, Zenon
      <4>3. 0 \in {0, L + 1}
        OBVIOUS
      <4>4. QED BY <4>2, <4>3, Zenon
    <3>2. CASE pc = "putFinished"
      <4>1. L \in Nat /\ Got \in Nat
        BY <1>1
      <4>2. Got + (L + 1) - 1 = Got + L + 1 - 1 /\ Got + (L + 1) >= 1
        BY <4>1
      <4>6. job.t = (Got + L + 1 - 1) % NumThreads
        BY <1>3, <3>2, Zenon
      <4>3. job.t = (Got + (L + 1) - 1) % NumThreads
        BY <4>2, <4>6, Zenon
      <4>4. L + 1 \in {0, L + 1}
        OBVIOUS
      <4>5. QED BY <4>2, <4>3, <4>4, Zenon
    <3>3. QED BY <2>1, <3>1, <3>2
  <2>3. i - j < NumThreads /\ j - i < NumThreads /\ Got + i >= 1 /\ i # j
        /\ i \in 0 .. L + 1 /\ j \in 0 .. L + 1
    <3>1. L \in Nat /\ NumThreads \in Nat /\ Got \in Nat /\ L <= NumThreads - 1
      BY <1>1, <2>1 DEF Putting, Getting
    <3>2. QED BY <2>1, <3>1
  <2>4. QED BY <1>1, <1>4, <2>2, <2>3
<1>7. pc = "search" => \A i \in 1 .. L : FinishedQueue[i].t # job.t
  <2>1. SUFFICES ASSUME pc = "search", NEW i \in 1 .. L
                 PROVE  FinishedQueue[i].t # job.t
    OBVIOUS
  <2>2. job.t = (Got + 0 - 1) % NumThreads /\ Got + 0 >= 1
    BY <2>1, <1>1, <1>3 DEF Getting
  <2>3. i - 0 < NumThreads /\ 0 - i < NumThreads /\ Got + i >= 1 /\ i # 0
        /\ i \in 0 .. L + 1 /\ 0 \in 0 .. L + 1
    BY <1>1, <2>1 DEF Getting
  <2>4. QED BY <1>1, <1>4, <2>2, <2>3
<1>8. \A x \in InHand : (\E i \in 1 .. L : x = FinishedQueue[i])
                          \/ (x = job /\ pc \in {"putFinished", "waitEvent"})
  BY <1>1 DEF InHand
<1>9. pc = "putWorker" => \A x \in InHand : x.event # job.event
  BY <1>8, <1>1 DEF PoolIInv, EventsApart, HasEvent
<1>10. Ending => InHand = {}
  <2>1. Ending => L = 0
    BY <1>1 DEF PoolIInv, JobsCounted, One, PoolTypes, L
  <2>2. QED BY <2>1, <1>8 DEF Ending
<1>11. \A x \in InHand : x \in Task /\ x.event \in Events /\ x.t \in Storages
  BY <1>8, <1>1, <1>2, <1>3
<1>12. \A x, y \in InHand : x # y => x.event # y.event /\ x.t # y.t
  BY <1>8, <1>5, <1>6
<1>13. pc = "search" => \A x \in InHand : x.t # job.t
  BY <1>8, <1>7
<1>14. QED BY <1>9, <1>10, <1>11, <1>12, <1>13

\* Only PutWorker and GetWait change what is in hand
LEMMA HandAfter ==
  ASSUME PoolIInv
  PROVE  /\ LoopTest \/ Push \/ PutEvent \/ PutFinished \/ GetTask \/ Search \/ Stop
              \/ WaitStop \/ DeleteEvents => InHand' = InHand
         /\ PutWorker => InHand' = InHand \union {job}
         /\ GetWait => InHand' = InHand \ {job} /\ job \in InHand
         /\ UNCHANGED mainView => InHand' = InHand
<1> USE DEF InHand
<1>0. PoolTypes
  BY DEF PoolIInv
<1>1. LoopTest \/ Push \/ PutEvent \/ Search \/ Stop \/ WaitStop \/ DeleteEvents
        => InHand' = InHand
  BY DEF LoopTest, Push, PutEvent, Search, Stop, WaitStop, DeleteEvents
<1>2. PutFinished => InHand' = InHand
  <2>1. SUFFICES ASSUME PutFinished PROVE InHand' = InHand
    OBVIOUS
  <2>2. /\ FinishedQueue' = Append(FinishedQueue, job) /\ job' = job
        /\ pc = "putFinished" /\ pc' = "push"
    BY <2>1 DEF PutFinished
  <2>3. /\ DOMAIN FinishedQueue' = DOMAIN FinishedQueue \union {Len(FinishedQueue) + 1}
        /\ FinishedQueue'[Len(FinishedQueue) + 1] = job
        /\ \A i \in DOMAIN FinishedQueue : FinishedQueue'[i] = FinishedQueue[i]
    BY <2>2, <1>0 DEF PoolTypes
  <2>4. QED BY <2>2, <2>3
<1>3. GetTask => InHand' = InHand
  <2>1. SUFFICES ASSUME GetTask PROVE InHand' = InHand
    OBVIOUS
  <2>2. /\ FinishedQueue' = Tail(FinishedQueue) /\ job' = FinishedQueue[1]
        /\ pc = "get" /\ pc' = "waitEvent" /\ 1 \in DOMAIN FinishedQueue
        /\ FinishedQueue \in Seq(Task) /\ FinishedQueue # <<>>
    BY <2>1, <1>0, QueueFacts DEF GetTask, PoolTypes
  <2>3. /\ \A i \in DOMAIN FinishedQueue' : i + 1 \in DOMAIN FinishedQueue
                                            /\ FinishedQueue'[i] = FinishedQueue[i + 1]
        /\ \A i \in DOMAIN FinishedQueue :
             i = 1 \/ (i - 1 \in DOMAIN FinishedQueue' /\ (i - 1) + 1 = i)
    BY <2>2
  <2>4. \A i \in DOMAIN FinishedQueue :
          i = 1 \/ \E j \in DOMAIN FinishedQueue' : FinishedQueue'[j] = FinishedQueue[i]
    BY <2>3
  <2>5. \A x : x \in InHand <=> \E i \in DOMAIN FinishedQueue : x = FinishedQueue[i]
    BY <2>2
  <2>6. \A x : x \in InHand' <=>
          x = FinishedQueue[1] \/ \E i \in DOMAIN FinishedQueue' : x = FinishedQueue'[i]
    BY <2>2
  <2>7. \A x : x \in InHand <=> x \in InHand'
    <3> HIDE DEF InHand
    <3>1. ASSUME NEW x, x \in InHand PROVE x \in InHand'
      BY <3>1, <2>2, <2>4, <2>5, <2>6
    <3>2. ASSUME NEW x, x \in InHand' PROVE x \in InHand
      BY <3>2, <2>2, <2>3, <2>5, <2>6
    <3>3. QED BY <3>1, <3>2
  <2>8. QED BY <2>7
<1>4. PutWorker => InHand' = InHand \union {job}
  BY DEF PutWorker
<1>5. GetWait => InHand' = InHand \ {job} /\ job \in InHand
  <2>1. SUFFICES ASSUME GetWait PROVE InHand' = InHand \ {job} /\ job \in InHand
    OBVIOUS
  <2>2. /\ FinishedQueue' = FinishedQueue /\ job' = job
        /\ pc = "waitEvent" /\ pc' = "search"
    BY <2>1 DEF GetWait
  <2>3. \A i \in DOMAIN FinishedQueue : FinishedQueue[i] # job
    BY <2>2 DEF PoolIInv, EventsApart, HasEvent
  <2>4. QED BY <2>2, <2>3
<1>6. UNCHANGED mainView => InHand' = InHand
  BY DEF mainView
<1>7. QED BY <1>1, <1>2, <1>3, <1>4, <1>5, <1>6

-----------------------------------------------------------------------------
(* What the workers have.                                                  *)

\* The parts of the invariant that speak of the workers, in a step that leaves
\* workers, storages, queue and hand alone
LEMMA WorkersKept ==
  ASSUME PoolIInv, UNCHANGED <<WorkerQueue, signaled, wpc, wtask, storage>>, InHand' = InHand,
         pc' = "search" => pc = "search" /\ job' = job, Ending => Ending'
  PROVE  TasksInHand' /\ OnePlace' /\ StoragesKept'
<1>1. TasksInHand'
  BY DEF PoolIInv, TasksInHand, Holds
<1>2. OnePlace'
  BY DEF PoolIInv, OnePlace, Holds
<1>3. StoragesKept'
  BY DEF PoolIInv, StoragesKept, Done
<1>4. QED BY <1>1, <1>2, <1>3

LEMMA WorkersKeptByMain ==
  ASSUME PoolIInv, CdcNext
  PROVE  TasksInHand' /\ OnePlace' /\ StoragesKept'
<1>0. PoolTypes /\ TasksInHand /\ OnePlace /\ StoragesKept
  BY DEF PoolIInv
<1>1. CASE LoopTest \/ Push \/ PutEvent \/ PutFinished \/ GetTask \/ Search \/ WaitStop
             \/ DeleteEvents
  <2>1. InHand' = InHand
    BY <1>1, HandAfter
  <2>2. /\ UNCHANGED <<WorkerQueue, signaled, wpc, wtask, storage>>
        /\ pc' # "search" /\ (Ending => Ending')
    BY <1>1 DEF LoopTest, Push, PutEvent, PutFinished, GetTask, Search, WaitStop,
                DeleteEvents, Ending
  <2>3. QED BY <2>1, <2>2, WorkersKept
<1>2. CASE PutWorker
  <2>1. /\ WorkerQueue' = Append(WorkerQueue, job) /\ ~Ending /\ pc = "putWorker"
        /\ UNCHANGED <<signaled, wpc, wtask, storage>> /\ pc' # "search" /\ ~Ending'
    BY <1>2 DEF PutWorker, Ending
  <2>2. InHand' = InHand \union {job}
    BY <1>2, HandAfter
  <2>3. \A x \in InHand : x.event # job.event
    BY <2>1, HandApart
  <2>4. \A i \in DOMAIN WorkerQueue' :
          \/ i \in DOMAIN WorkerQueue /\ WorkerQueue'[i] = WorkerQueue[i]
          \/ i = Len(WorkerQueue) + 1 /\ WorkerQueue'[i] = job
    BY <2>1, <1>0 DEF PoolTypes
  <2>5. \A i \in DOMAIN WorkerQueue : WorkerQueue[i].event # job.event
    BY <2>1, <2>3, <1>0 DEF TasksInHand
  <2>6. (\A w \in Workers : Holds(w) => wtask[w].event # job.event) /\ job.event \notin signaled
    BY <2>1, <2>3, <1>0 DEF TasksInHand
  <2>7. TasksInHand'
    BY <2>1, <2>2, <2>4, <1>0 DEF TasksInHand, Holds
  <2>8. OnePlace'
    <3>1. \A i, j \in DOMAIN WorkerQueue' :
            i # j => WorkerQueue'[i].event # WorkerQueue'[j].event
      BY <2>4, <2>5, <1>0 DEF OnePlace
    <3>2. /\ \A i \in DOMAIN WorkerQueue', w \in Workers :
               Holds(w) => WorkerQueue'[i].event # wtask[w].event
          /\ \A i \in DOMAIN WorkerQueue' : WorkerQueue'[i].event \notin signaled
      BY <2>4, <2>6, <1>0 DEF OnePlace
    <3>3. QED BY <3>1, <3>2, <2>1, <1>0 DEF OnePlace, Holds
  <2>9. StoragesKept'
    BY <2>1, <2>2, <2>6, <1>0 DEF StoragesKept, Done
  <2>10. QED BY <2>7, <2>8, <2>9
<1>3. CASE GetWait
  <2>1. /\ UNCHANGED <<WorkerQueue, wpc, wtask, storage, job>> /\ pc = "waitEvent"
        /\ job.event \in signaled /\ signaled' = signaled \ {job.event} /\ ~Ending
    BY <1>3 DEF GetWait, Ending
  <2>2. InHand' = InHand \ {job} /\ job \in InHand
    BY <1>3, HandAfter
  <2>3. TasksInHand'
    <3>1. \A i \in DOMAIN WorkerQueue : WorkerQueue[i] \in InHand \ {job}
      BY <2>1, <1>0 DEF TasksInHand, OnePlace
    <3>2. \A w \in Workers : Holds(w) => wtask[w] \in InHand \ {job}
      BY <2>1, <1>0 DEF TasksInHand, OnePlace
    <3>3. \A e \in signaled' : \E x \in InHand \ {job} : x.event = e
      BY <2>1, <1>0 DEF TasksInHand
    <3>4. QED BY <3>1, <3>2, <3>3, <2>1, <2>2 DEF TasksInHand, Holds
  <2>4. OnePlace'
    BY <2>1, <1>0 DEF OnePlace, Holds
  <2>5. StoragesKept'
    <3>1. Done(job)
      BY <2>1, <2>2, <1>0 DEF StoragesKept
    <3>2. QED BY <3>1, <2>1, <2>2, <1>0 DEF StoragesKept, Done
  <2>6. QED BY <2>3, <2>4, <2>5
<1>4. CASE Stop
  <2>1. InHand' = InHand /\ InHand = {}
    BY <1>4, HandAfter, HandApart DEF Stop, Ending
  <2>2. /\ UNCHANGED <<signaled, wpc, wtask, storage>> /\ pc' # "search"
        /\ Ending' /\ WorkerQueue = <<>>
        /\ WorkerQueue' = <<>> \/ WorkerQueue' = Append(WorkerQueue, NullTask)
    BY <1>4 DEF Stop, Ending, PoolIInv, StopsCounted
  <2>3. \A i \in DOMAIN WorkerQueue' : i = 1 /\ WorkerQueue'[i] = NullTask
    BY <2>2
  <2>4. TasksInHand'
    BY <2>1, <2>2, <2>3, <1>0 DEF TasksInHand, Holds
  <2>5. OnePlace'
    BY <2>1, <2>2, <2>3, <1>0 DEF OnePlace, TasksInHand, Holds
  <2>6. StoragesKept'
    BY <2>1, <2>2, <1>0 DEF StoragesKept, Done
  <2>7. QED BY <2>4, <2>5, <2>6
<1>5. QED BY <1>1, <1>2, <1>3, <1>4 DEF CdcNext

LEMMA WorkersKeptByWorkers ==
  ASSUME PoolIInv, NEW w \in Workers, WorkerNext(w)
  PROVE  TasksInHand' /\ OnePlace' /\ StoragesKept'
<1>0. /\ PoolTypes /\ TasksInHand /\ OnePlace /\ StoragesKept
      /\ UNCHANGED mainView /\ InHand' = InHand
  BY WorkersApart, HandAfter DEF PoolIInv
<1>a. pc' = pc /\ job' = job /\ (Ending <=> Ending')
  BY <1>0 DEF mainView, Ending
<1>1. CASE WorkerGet(w)
  <2>1. /\ wtask' = [wtask EXCEPT ![w] = WorkerQueue[1]] /\ WorkerQueue' = Tail(WorkerQueue)
        /\ 1 \in DOMAIN WorkerQueue /\ UNCHANGED <<signaled, storage>>
        /\ wpc[w] = "get"
        /\ wpc' = [wpc EXCEPT ![w] = IF WorkerQueue[1].event = 0 THEN "finish" ELSE "process"]
    BY <1>1, <1>0, QueueFacts DEF WorkerGet
  <2>2. \A i \in DOMAIN WorkerQueue' :
          /\ i + 1 \in DOMAIN WorkerQueue /\ WorkerQueue'[i] = WorkerQueue[i + 1]
          /\ i \in Nat \ {0}
    BY <1>1, <1>0, QueueFacts DEF WorkerGet, PoolTypes
  <2>3. \A v \in Workers :
          /\ v # w => wpc'[v] = wpc[v] /\ wtask'[v] = wtask[v]
          /\ v = w => wtask'[v] = WorkerQueue[1]
    BY <2>1, <1>0 DEF PoolTypes
  <2>4. Holds(w)' => WorkerQueue[1] \in InHand
    BY <2>1, <1>0 DEF Holds, PoolTypes, TasksInHand, NullTask
  <2>5. \A v \in Workers : v # w => (Holds(v)' <=> Holds(v))
    BY <2>3 DEF Holds
  <2>6. wpc'[w] # "signal"
    BY <2>1, <1>0 DEF PoolTypes
  <2>7. TasksInHand'
    BY <2>1, <2>2, <2>3, <2>4, <2>5, <1>0, <1>a DEF TasksInHand
  <2>8. OnePlace'
    <3>1. \A i, j \in DOMAIN WorkerQueue' :
            i # j => WorkerQueue'[i].event # WorkerQueue'[j].event
      BY <2>2, <1>0 DEF OnePlace
    <3>2. \A i \in DOMAIN WorkerQueue', v \in Workers :
            Holds(v)' => WorkerQueue'[i].event # wtask'[v].event
      <4>1. SUFFICES ASSUME NEW i \in DOMAIN WorkerQueue', NEW v \in Workers, Holds(v)'
                     PROVE  WorkerQueue'[i].event # wtask'[v].event
        OBVIOUS
      <4>2. i + 1 # 1 /\ i + 1 \in DOMAIN WorkerQueue /\ WorkerQueue'[i] = WorkerQueue[i + 1]
        BY <2>2
      <4>3. QED BY <4>1, <4>2, <2>1, <2>3, <2>5, <1>0 DEF OnePlace
    <3>3. \A u, v \in Workers :
            Holds(u)' /\ Holds(v)' /\ u # v => wtask'[u].event # wtask'[v].event
      BY <2>1, <2>3, <2>5, <1>0 DEF OnePlace
    <3>4. \A i \in DOMAIN WorkerQueue' : WorkerQueue'[i].event \notin signaled'
      BY <2>1, <2>2, <1>0 DEF OnePlace
    <3>5. \A v \in Workers : Holds(v)' => wtask'[v].event \notin signaled'
      BY <2>1, <2>3, <2>5, <1>0 DEF OnePlace
    <3>6. QED BY <3>1, <3>2, <3>3, <3>4, <3>5 DEF OnePlace
  <2>9. StoragesKept'
    BY <2>1, <2>3, <2>6, <1>0, <1>a DEF StoragesKept, Done
  <2>10. QED BY <2>7, <2>8, <2>9
<1>2. CASE WorkerProcess(w)
  <2>1. /\ storage' = [storage EXCEPT ![wtask[w].t] = <<wtask[w].blk, wtask[w].stripe>>]
        /\ UNCHANGED <<WorkerQueue, signaled, wtask>>
        /\ wpc[w] = "process" /\ wpc' = [wpc EXCEPT ![w] = "signal"]
    BY <1>2 DEF WorkerProcess
  <2>2. \A v \in Workers : v # w => wpc'[v] = wpc[v]
    BY <2>1, <1>0 DEF PoolTypes
  <2>3. \A v \in Workers : Holds(v)' <=> Holds(v)
    BY <2>1, <1>0 DEF PoolTypes, Holds
  <2>4. Holds(w) /\ wtask[w] \in InHand /\ wtask[w].t \in Storages
    BY <2>1, <1>0, HandApart DEF Holds, TasksInHand
  <2>5. TasksInHand' /\ OnePlace'
    BY <2>1, <2>3, <1>0, <1>a DEF TasksInHand, OnePlace
  <2>6. ASSUME NEW x, x.t # wtask[w].t PROVE storage'[x.t] = storage[x.t]
    BY <2>6, <2>1, <1>0 DEF PoolTypes
  <2>7. \A x \in InHand : x.event \in signaled => storage'[x.t] = storage[x.t]
    BY <2>4, <2>6, <1>0, HandApart DEF OnePlace
  <2>8. \A v \in Workers \ {w} : Holds(v) => storage'[wtask[v].t] = storage[wtask[v].t]
    BY <2>4, <2>6, <1>0, HandApart DEF OnePlace, TasksInHand
  <2>9. Done(wtask[w])'
    BY <2>1, <2>4, <1>0 DEF Done, PoolTypes
  <2>10. pc = "search" => storage'[job.t] = storage[job.t]
    BY <2>4, <2>6, HandApart
  <2>11. StoragesKept'
    <3>1. \A x \in InHand' : x.event \in signaled' => Done(x)'
      BY <2>7, <2>1, <1>0 DEF StoragesKept, Done
    <3>2. \A v \in Workers : wpc'[v] = "signal" => Done(wtask[v])'
      BY <2>2, <2>8, <2>9, <2>1, <1>0 DEF StoragesKept, Done, Holds
    <3>3. QED BY <3>1, <3>2, <2>10, <1>0, <1>a DEF StoragesKept, Done
  <2>12. QED BY <2>5, <2>11
<1>3. CASE WorkerSignal(w)
  <2>1. /\ signaled' = signaled \union {wtask[w].event}
        /\ UNCHANGED <<WorkerQueue, wtask, storage>>
        /\ wpc[w] = "signal" /\ wpc' = [wpc EXCEPT ![w] = "get"]
    BY <1>3 DEF WorkerSignal
  <2>2. \A v \in Workers : v # w => wpc'[v] = wpc[v]
    BY <2>1, <1>0 DEF PoolTypes
  <2>3. (\A v \in Workers : v # w => (Holds(v)' <=> Holds(v))) /\ ~Holds(w)' /\ Holds(w)
    BY <2>1, <2>2, <1>0 DEF PoolTypes, Holds
  <2>4. wtask[w] \in InHand
    BY <2>3, <1>0 DEF TasksInHand
  <2>5. TasksInHand'
    BY <2>1, <2>3, <2>4, <1>0, <1>a DEF TasksInHand
  <2>6. OnePlace'
    BY <2>1, <2>3, <1>0, <1>a DEF OnePlace
  <2>7. StoragesKept'
    <3>1. \A x \in InHand : x.event = wtask[w].event => x = wtask[w]
      BY <2>4, HandApart
    <3>2. Done(wtask[w])
      BY <2>1, <1>0 DEF StoragesKept
    <3>3. QED BY <3>1, <3>2, <2>1, <2>2, <1>0, <1>a DEF StoragesKept, Done, PoolTypes
  <2>8. QED BY <2>5, <2>6, <2>7
<1>4. CASE WorkerFinish(w)
  <2>1. /\ UNCHANGED <<WorkerQueue, signaled, wtask, storage>>
        /\ wpc[w] = "finish" /\ wpc' = [wpc EXCEPT ![w] = "gone"]
    BY <1>4 DEF WorkerFinish
  <2>2. \A v \in Workers : (Holds(v)' <=> Holds(v)) /\ (wpc'[v] = "signal" <=> wpc[v] = "signal")
    BY <2>1, <1>0 DEF PoolTypes, Holds
  <2>3. TasksInHand' /\ OnePlace'
    BY <2>1, <2>2, <1>0, <1>a DEF TasksInHand, OnePlace
  <2>4. StoragesKept'
    BY <2>1, <2>2, <1>0, <1>a DEF StoragesKept, Done
  <2>5. QED BY <2>3, <2>4
<1>5. QED BY <1>1, <1>2, <1>3, <1>4 DEF WorkerNext

-----------------------------------------------------------------------------
(* The end of the workers.                                                 *)

LEMMA GoneFacts ==
  /\ IsFiniteSet(Workers) /\ Cardinality(Workers) = NumThreads
  /\ IsFiniteSet(Gone) /\ Cardinality(Gone) \in Nat
  /\ Cardinality(Gone) = NumThreads => Gone = Workers
<1>1. IsFiniteSet(Workers) /\ Cardinality(Workers) = NumThreads
  BY FS_Interval, Sizes DEF Workers
<1>2. IsFiniteSet(Gone) /\ (Cardinality(Gone) = Cardinality(Workers) => Gone = Workers)
  BY <1>1, FS_Subset DEF Gone
<1>3. Cardinality(Gone) \in Nat
  BY <1>2, FS_CardinalityType
<1>4. QED BY <1>1, <1>2, <1>3

LEMMA StopsKeptByMain ==
  ASSUME PoolIInv, CdcNext
  PROVE  StopsCounted'
<1>0. StopsCounted /\ PoolTypes /\ NumThreads \in Nat /\ Cardinality(Gone) \in Nat
  BY GoneFacts, Sizes DEF PoolIInv
<1>1. CASE LoopTest
  <2>1. pc' = "stop" => WorkerQueue = <<>>
    <3>1. SUFFICES ASSUME pc' = "stop" PROVE WorkerQueue = <<>>
      OBVIOUS
    <3>2. free_jobs = NumThreads /\ pc = "loop"
      BY <1>1, <3>1, <1>0 DEF LoopTest, PoolTypes
    <3>3. Len(FinishedQueue) = 0
      BY <3>2, <1>0 DEF PoolIInv, JobsCounted, One, PoolTypes
    <3>4. InHand = {}
      BY <3>2, <3>3, <1>0 DEF InHand, PoolTypes
    <3>5. DOMAIN WorkerQueue = {}
      BY <3>2, <3>4 DEF PoolIInv, TasksInHand, Ending
    <3>6. QED BY <3>5, <1>0 DEF PoolTypes
  <2>2. UNCHANGED <<wpc, WorkerQueue, WorkerThreadFinished, stopped>>
        /\ pc' \in {"push", "loop", "stop"} /\ pc = "loop"
    BY <1>1 DEF LoopTest
  <2>3. QED BY <2>1, <2>2, <1>0 DEF StopsCounted, Gone, NoFinish, Ending, One
<1>2. CASE Push \/ PutEvent \/ PutWorker \/ PutFinished \/ GetTask \/ GetWait \/ Search
  <2>1. UNCHANGED <<wpc, WorkerThreadFinished, stopped>> /\ ~Ending /\ ~Ending'
    BY <1>2 DEF Push, PutEvent, PutWorker, PutFinished, GetTask, GetWait, Search, Ending
  <2>2. QED BY <2>1, <1>0 DEF StopsCounted, Gone, NoFinish, Ending, One
<1>3. CASE Stop
  <2>1. UNCHANGED <<wpc, WorkerThreadFinished, stopped>> /\ pc = "stop" /\ WorkerQueue = <<>>
        /\ NoFinish /\ ~WorkerThreadFinished
    BY <1>3, <1>0 DEF Stop, StopsCounted
  <2>2. CASE stopped < NumThreads
    <3>1. pc' = "waitStop" /\ WorkerQueue' = <<NullTask>>
      BY <2>1, <2>2, <1>3 DEF Stop
    <3>2. QED BY <2>1, <2>2, <3>1, <1>0 DEF StopsCounted, Gone, NoFinish, Ending, One
  <2>3. CASE ~(stopped < NumThreads)
    <3>1. pc' = "deleteEvents" /\ WorkerQueue' = <<>> /\ stopped = NumThreads
      BY <2>1, <2>3, <1>3, <1>0 DEF Stop, PoolTypes
    <3>2. QED BY <2>1, <3>1, <1>0 DEF StopsCounted, Gone, NoFinish, Ending, One
  <2>4. QED BY <2>2, <2>3
<1>4. CASE WaitStop
  <2>1. /\ UNCHANGED <<wpc, WorkerQueue>> /\ pc = "waitStop" /\ pc' = "stop"
        /\ WorkerThreadFinished /\ ~WorkerThreadFinished' /\ stopped' = stopped + 1
    BY <1>4 DEF WaitStop
  <2>2. WorkerQueue = <<>> /\ NoFinish
    BY <2>1, <1>0 DEF StopsCounted
  <2>3. Cardinality(Gone) = stopped + 1 /\ Gone' = Gone /\ stopped \in Nat
    BY <2>1, <1>0 DEF StopsCounted, Gone, One, PoolTypes
  <2>4. QED BY <2>1, <2>2, <2>3, <1>0 DEF StopsCounted, NoFinish, Ending, One
<1>5. CASE DeleteEvents
  <2>1. UNCHANGED <<wpc, WorkerQueue, WorkerThreadFinished, stopped>>
        /\ pc = "deleteEvents" /\ pc' = "over"
    BY <1>5 DEF DeleteEvents
  <2>2. QED BY <2>1, <1>0 DEF StopsCounted, Gone, NoFinish, Ending, One
<1>6. QED BY <1>1, <1>2, <1>3, <1>4, <1>5 DEF CdcNext

LEMMA StopsKeptByWorkers ==
  ASSUME PoolIInv, NEW w \in Workers, WorkerNext(w)
  PROVE  StopsCounted'
<1>0. /\ StopsCounted /\ PoolTypes /\ UNCHANGED mainView
  BY WorkersApart DEF PoolIInv
<1>a. pc' = pc /\ stopped' = stopped /\ (Ending <=> Ending')
  BY <1>0 DEF mainView, Ending
<1>1. CASE WorkerGet(w)
  <2>1. /\ wpc[w] = "get" /\ 1 \in DOMAIN WorkerQueue /\ WorkerQueue # <<>>
        /\ WorkerQueue' = Tail(WorkerQueue) /\ WorkerThreadFinished' = WorkerThreadFinished
        /\ wpc' = [wpc EXCEPT ![w] = IF WorkerQueue[1].event = 0 THEN "finish" ELSE "process"]
    BY <1>1, <1>0, QueueFacts DEF WorkerGet
  <2>2. \A v \in Workers : v # w => wpc'[v] = wpc[v]
    BY <2>1, <1>0 DEF PoolTypes
  <2>3. Gone' = Gone
    BY <2>1, <2>2, <1>0 DEF Gone, PoolTypes
  <2>4. CASE ~Ending
    <3>1. WorkerQueue[1].event # 0
      BY <2>1, <2>4, HandApart DEF PoolIInv, TasksInHand, Events
    <3>2. NoFinish'
      BY <2>1, <2>2, <2>4, <3>1, <1>0 DEF NoFinish, StopsCounted, Ending, PoolTypes
    <3>3. QED BY <2>1, <2>3, <2>4, <3>2, <1>0, <1>a DEF StopsCounted, Ending, One
  <2>5. CASE Ending
    <3>1. pc = "waitStop" /\ WorkerQueue = <<NullTask>> /\ NoFinish /\ ~WorkerThreadFinished
      BY <2>1, <2>5, <1>0 DEF StopsCounted, Ending
    <3>2. WorkerQueue' = <<>> /\ wpc'[w] = "finish"
      BY <2>1, <3>1, <1>0 DEF NullTask, PoolTypes
    <3>3. \A v \in Workers : wpc'[v] = "finish" <=> v = w
      BY <2>2, <3>1, <3>2 DEF NoFinish
    <3>4. QED BY <2>1, <2>3, <3>1, <3>2, <3>3, <1>0, <1>a DEF StopsCounted, Ending, One
  <2>6. QED BY <2>4, <2>5
<1>2. CASE WorkerProcess(w) \/ WorkerSignal(w)
  <2>1. /\ UNCHANGED <<WorkerQueue, WorkerThreadFinished>>
        /\ wpc[w] \in {"process", "signal"}
        /\ \E l \in {"signal", "get"} : wpc' = [wpc EXCEPT ![w] = l]
    BY <1>2 DEF WorkerProcess, WorkerSignal
  <2>2. \A v \in Workers : /\ wpc'[v] = "gone" <=> wpc[v] = "gone"
                           /\ wpc'[v] = "finish" <=> wpc[v] = "finish"
    BY <2>1, <1>0 DEF PoolTypes
  <2>3. Gone' = Gone /\ (NoFinish <=> NoFinish')
    BY <2>2 DEF Gone, NoFinish
  <2>4. QED BY <2>1, <2>2, <2>3, <1>0, <1>a DEF StopsCounted, One
<1>3. CASE WorkerFinish(w)
  <2>1. /\ wpc[w] = "finish" /\ wpc' = [wpc EXCEPT ![w] = "gone"]
        /\ WorkerThreadFinished' /\ WorkerQueue' = WorkerQueue
    BY <1>3 DEF WorkerFinish
  <2>2. /\ pc = "waitStop" /\ ~WorkerThreadFinished /\ WorkerQueue = <<>>
        /\ \A v \in Workers : wpc[v] = "finish" <=> v = w
    BY <2>1, <1>0 DEF StopsCounted, NoFinish
  <2>3. NoFinish'
    BY <2>1, <2>2, <1>0 DEF NoFinish, PoolTypes
  <2>4. Gone' = Gone \union {w} /\ w \notin Gone
    BY <2>1, <1>0 DEF Gone, PoolTypes
  <2>5. Cardinality(Gone') = Cardinality(Gone) + 1
    BY <2>4, GoneFacts, FS_AddElement
  <2>6. Cardinality(Gone') = stopped + 1
    BY <2>5, <2>2, <1>0 DEF StopsCounted, One, PoolTypes
  <2>7. QED BY <2>1, <2>2, <2>3, <2>6, <1>0, <1>a DEF StopsCounted, Ending, One
<1>4. QED BY <1>1, <1>2, <1>3 DEF WorkerNext

-----------------------------------------------------------------------------
(* The order of the searches.                                              *)

LEMMA FollowingAfter ==
  ASSUME PoolTypes, NEW b \in Nat, NEW s \in Nat, searched' = Append(searched, <<b, s>>),
         stripes' = stripes
  PROVE  StripePromise!Following' = IF s < stripes[b] THEN <<b, s + 1>> ELSE <<b + 1, 1>>
<1>1. searched' # <<>> /\ searched'[Len(searched')] = <<b, s>>
  <2>1. searched \in Seq(Nat \X Nat) /\ <<b, s>> \in Nat \X Nat
    BY DEF PoolTypes
  <2>2. /\ Append(searched, <<b, s>>) # <<>>
        /\ Append(searched, <<b, s>>)[Len(searched) + 1] = <<b, s>>
        /\ Len(Append(searched, <<b, s>>)) = Len(searched) + 1
    BY <2>1, AppendProperties
  <2>3. QED BY <2>2, Zenon
<1>2. searched'[Len(searched')][1] = b /\ searched'[Len(searched')][2] = s
  BY <1>1
<1>3. StripePromise!Following' =
        IF searched'[Len(searched')][2] < stripes[searched'[Len(searched')][1]]
          THEN <<searched'[Len(searched')][1], searched'[Len(searched')][2] + 1>>
          ELSE <<searched'[Len(searched')][1] + 1, 1>>
  BY <1>1 DEF StripePromise!Following, StripePromise!After
<1>4. QED BY <1>2, <1>3

LEMMA SearchOrderKept ==
  ASSUME PoolIInv, CdcNext
  PROVE  SearchesInOrder'
<1>0. /\ PoolTypes /\ JobsCounted /\ SearchesInOrder /\ stripes' = stripes
      /\ stripes \in Seq(Nat \ {0}) /\ Got \in Nat /\ NumThreads \in Nat
  BY Sizes DEF PoolIInv, PoolTypes, JobsCounted, CdcNext, LoopTest, Push, PutEvent, PutWorker,
      PutFinished, GetTask, GetWait, Search, Stop, WaitStop, DeleteEvents
<1>1. CASE Search
  <2>1. pc = "search" /\ searched' = Append(searched, storage[job.t]) /\ pc' = "loop"
        /\ Got' = Got /\ blk' = blk
    BY <1>1, GotAfter DEF Search
  <2>2. storage[job.t] = <<blk, Got>>
    BY <2>1 DEF PoolIInv, StoragesKept, Done, TasksInOrder, IsTask, Getting
  <2>3. StripePromise!Following' = IF Got < stripes[blk] THEN <<blk, Got + 1>> ELSE <<blk + 1, 1>>
    BY <2>1, <2>2, <1>0, FollowingAfter DEF PoolTypes
  <2>4. Searched' = Got /\ ~Ending'
    BY <2>1, <1>0 DEF Searched, Getting, Ending, One
  <2>5. QED BY <2>1, <2>3, <2>4, <1>0 DEF SearchesInOrder
<1>2. CASE ~Search
  <2>1. searched' = searched
    BY <1>2 DEF CdcNext, LoopTest, Push, PutEvent, PutWorker, PutFinished, GetTask,
                GetWait, Stop, WaitStop, DeleteEvents
  <2>2. StripePromise!Following' = StripePromise!Following
    BY <2>1, <1>0 DEF StripePromise!Following, StripePromise!After
  <2>3. CASE LoopTest
    <3>1. CASE free_jobs < NumThreads \/ ptr < stripes[blk]
      <4>1. Got' = Got /\ blk' = blk /\ pc = "loop" /\ pc' = "push"
        BY <3>1, <2>3 DEF LoopTest, Got, Putting, One
      <4>2. QED BY <4>1, <2>2, <1>0 DEF SearchesInOrder, Searched, Getting, Ending, One
    <3>2. CASE ~(free_jobs < NumThreads \/ ptr < stripes[blk])
      <4>1. /\ free_jobs = NumThreads /\ pc = "loop" /\ ~Ending /\ FinishedQueue' = FinishedQueue
            /\ blk \in 1 .. Len(stripes) /\ stripes[blk] \in Nat /\ ptr = stripes[blk]
        BY <3>2, <2>3, <1>0 DEF LoopTest, PoolTypes, Ending
      <4>2. Len(FinishedQueue) = 0
        BY <4>1, <1>0 DEF JobsCounted, One, PoolTypes
      <4>3. Searched = stripes[blk]
        BY <4>1, <4>2 DEF Searched, Got, Putting, Getting, One
      <4>4. StripePromise!Following = <<blk + 1, 1>>
        BY <4>1, <4>3, <1>0 DEF SearchesInOrder
      <4>5. CASE blk < Len(stripes)
        <5>1. blk' = blk + 1 /\ ptr' = 0 /\ pc' = "loop"
          BY <4>5, <3>2, <2>3 DEF LoopTest
        <5>2. Searched' = 0
          <6>1. ptr' = 0 /\ Len(FinishedQueue') = 0
            BY <4>1, <4>2, <5>1
          <6>2. One(Putting)' = 0 /\ One(Getting)' = 0
            BY <5>1 DEF One, Putting, Getting
          <6>3. Got' = 0
            BY <6>1, <6>2 DEF Got
          <6>4. QED BY <6>2, <6>3 DEF Searched
        <5>3. stripes[blk + 1] \in Nat \ {0}
          BY <4>1, <4>5, <1>0
        <5>4. QED BY <5>1, <5>2, <5>3, <4>4, <2>2, <1>0 DEF SearchesInOrder, Ending
      <4>6. CASE ~(blk < Len(stripes))
        <5>1. pc' = "stop" /\ blk = Len(stripes)
          BY <4>1, <4>6, <3>2, <2>3 DEF LoopTest
        <5>2. QED BY <5>1, <4>4, <2>2, <1>0 DEF SearchesInOrder, Ending
      <4>7. QED BY <4>5, <4>6
    <3>3. QED BY <3>1, <3>2
  <2>4. CASE Push \/ PutEvent \/ PutWorker \/ PutFinished \/ GetWait
    <3>1. Got' = Got /\ blk' = blk
      BY <2>4, GotAfter
    <3>2. ~Ending /\ ~Ending' /\ (Getting <=> Getting')
      BY <2>4 DEF Push, PutEvent, PutWorker, PutFinished, GetWait, Ending, Getting
    <3>3. QED BY <3>1, <3>2, <2>2, <1>0 DEF SearchesInOrder, Searched, One
  <2>5. CASE GetTask
    <3>1. Got' = Got + 1 /\ blk' = blk /\ ~Ending /\ ~Ending' /\ ~Getting /\ Getting'
      BY <2>5, GotAfter DEF GetTask, Ending, Getting
    <3>2. Searched' = Searched
      BY <3>1, <1>0 DEF Searched, One
    <3>3. QED BY <3>1, <3>2, <2>2, <1>0 DEF SearchesInOrder
  <2>6. CASE Stop \/ WaitStop \/ DeleteEvents
    <3>1. Ending /\ Ending'
      BY <2>6 DEF Stop, WaitStop, DeleteEvents, Ending
    <3>2. QED BY <3>1, <2>2, <1>0 DEF SearchesInOrder
  <2>7. QED BY <1>2, <2>3, <2>4, <2>5, <2>6 DEF CdcNext
<1>3. QED BY <1>1, <1>2

-----------------------------------------------------------------------------
(* The theorems.                                                           *)

LEMMA PoolInitInv == PoolInit => PoolIInv
<1> SUFFICES ASSUME PoolInit PROVE PoolIInv
  OBVIOUS
<1>1. PICK n \in 0 .. MaxPoolBlocks : stripes \in [1 .. n -> 1 .. MaxStripes]
  BY DEF PoolInit
<1>2. stripes \in Seq(Nat \ {0}) /\ Len(stripes) = n
        /\ \A b \in 1 .. n : stripes[b] \in 1 .. MaxStripes
  <2>1. n \in Nat /\ 1 .. MaxStripes \subseteq Nat \ {0}
    BY <1>1, PoolAssumption
  <2>2. \A b \in 1 .. n : stripes[b] \in 1 .. MaxStripes /\ stripes[b] \in Nat \ {0}
    BY <1>1, <2>1
  <2>3. stripes \in [1 .. n -> Nat \ {0}]
    BY <1>1, <2>2
  <2>4. QED BY <2>1, <2>2, <2>3
<1>3. /\ WorkerQueue = <<>> /\ FinishedQueue = <<>>
      /\ FreeEvents = [e \in Events |-> e] /\ signaled = {} /\ ~WorkerThreadFinished
      /\ wpc = [w \in Workers |-> "get"] /\ wtask = [w \in Workers |-> NullTask]
      /\ storage = [t \in Storages |-> <<0, 0>>]
      /\ pc = IF stripes = <<>> THEN "stop" ELSE "loop"
      /\ blk = 1 /\ ptr = 0 /\ free_jobs = NumThreads /\ num_thread = 0
      /\ job = NullTask /\ searched = <<>> /\ stopped = 0
      /\ WorkerThreadFinished \in BOOLEAN
  BY DEF PoolInit
<1>4. FreeEvents \in Seq(Events) /\ Len(FreeEvents) = MaxJobs
        /\ DOMAIN FreeEvents = 1 .. MaxJobs /\ \A e \in 1 .. MaxJobs : FreeEvents[e] = e
  BY <1>3, Sizes DEF Events
<1>5. pc = "loop" => Len(stripes) >= 1 /\ stripes[1] \in Nat /\ stripes[1] >= 1
  BY <1>2, <1>3
<1>6. pc \in {"loop", "stop"}
  BY <1>3
<1>7. Got = 0 /\ InHand = {}
  <2>1. Len(FinishedQueue) = 0 /\ DOMAIN FinishedQueue = {}
    BY <1>3
  <2>2. Got = 0
    <3>1. One(Putting) = 0
      BY <1>6 DEF One, Putting
    <3>2. QED BY <2>1, <3>1, <1>3 DEF Got
  <2>3. QED BY <2>1, <2>2, <1>6 DEF InHand
<1>8. PoolTypes
  <2>1. storage \in [Storages -> Nat \X Nat] /\ wtask \in [Workers -> Task]
    BY <1>3, NullIsTask
  <2>2. free_jobs \in 0 .. NumThreads /\ stopped \in 0 .. NumThreads /\ num_thread \in Storages
    BY <1>3, Sizes
  <2>3. ~Ending => blk <= Len(stripes) /\ ptr <= stripes[blk]
    BY <1>3, <1>5, <1>6 DEF Ending
  <2>4. QED BY <1>2, <1>3, <1>4, <1>6, <2>1, <2>2, <2>3, NullIsTask DEF PoolTypes
<1>9. JobsCounted
  BY <1>3, <1>4, <1>6, <1>7, Sizes DEF JobsCounted, One, Putting, Getting, Ending, HasEvent
<1>10. TasksInOrder /\ EventsApart
  <2>1. DOMAIN FinishedQueue = {} /\ ~Putting /\ ~Getting /\ ~HasEvent
    BY <1>3, <1>6 DEF Putting, Getting, HasEvent
  <2>2. QED BY <2>1, <1>4 DEF TasksInOrder, EventsApart
<1>11. TasksInHand /\ OnePlace /\ StoragesKept
  <2>1. DOMAIN WorkerQueue = {} /\ \A w \in Workers : ~Holds(w) /\ wpc[w] # "signal"
    BY <1>3 DEF Holds
  <2>2. QED BY <2>1, <1>3, <1>6 DEF TasksInHand, OnePlace, StoragesKept
<1>12. StopsCounted
  <2>1. Gone = {} /\ NoFinish
    BY <1>3 DEF Gone, NoFinish
  <2>2. Cardinality(Gone) = 0
    BY <2>1, FS_EmptySet
  <2>3. QED BY <2>1, <2>2, <1>3, <1>6 DEF StopsCounted, One, Ending
<1>13. SearchesInOrder
  <2>1. StripePromise!Following = <<1, 1>>
    BY <1>3 DEF StripePromise!Following
  <2>2. CASE pc = "loop"
    <3>1. Searched = 0
      <4>1. One(Getting) = 0
        BY <2>2 DEF One, Getting
      <4>2. QED BY <4>1, <1>7 DEF Searched
    <3>2. QED BY <2>1, <2>2, <3>1, <1>3, <1>5 DEF SearchesInOrder, Ending
  <2>3. CASE pc = "stop"
    <3>1. Len(stripes) = 0
      BY <2>3, <1>3
    <3>2. QED BY <2>1, <2>3, <3>1 DEF SearchesInOrder, Ending
  <2>4. QED BY <2>2, <2>3, <1>6
<1>14. QED BY <1>8, <1>9, <1>10, <1>11, <1>12, <1>13 DEF PoolIInv

LEMMA InvStep == PoolIInv /\ [PoolNext]_cdcVars => PoolIInv'
<1> SUFFICES ASSUME PoolIInv, [PoolNext]_cdcVars PROVE PoolIInv'
  OBVIOUS
<1>1. CASE CdcNext
  BY <1>1, TypesKeptByMain, CountsKept, OrderKept, EventsKeptApart, WorkersKeptByMain,
     StopsKeptByMain, SearchOrderKept DEF PoolIInv
<1>2. ASSUME NEW w \in Workers, WorkerNext(w) PROVE PoolIInv'
  <2>1. UNCHANGED mainView
    BY <1>2, WorkersApart
  <2>2. PoolTypes' /\ TasksInHand' /\ OnePlace' /\ StoragesKept' /\ StopsCounted'
    BY <1>2, TypesKeptByWorkers, WorkersKeptByWorkers, StopsKeptByWorkers
  <2>3. QED BY <2>1, <2>2, MainViewKept DEF PoolIInv
<1>3. CASE UNCHANGED cdcVars
  <2>1. UNCHANGED mainView /\ UNCHANGED <<WorkerQueue, signaled, wpc, wtask, storage>>
        /\ UNCHANGED WorkerThreadFinished
    BY <1>3 DEF cdcVars, mainView
  <2>2. PoolTypes'
    BY <2>1 DEF PoolIInv, PoolTypes, Ending, mainView
  <2>3. InHand' = InHand
    BY <2>1, HandAfter
  <2>4. TasksInHand' /\ OnePlace' /\ StoragesKept'
    BY <2>1, <2>3, WorkersKept DEF mainView, Ending
  <2>5. StopsCounted'
    BY <2>1 DEF PoolIInv, StopsCounted, Gone, NoFinish, Ending, One, mainView
  <2>6. QED BY <2>1, <2>2, <2>4, <2>5, MainViewKept DEF PoolIInv
<1>4. QED BY <1>1, <1>2, <1>3 DEF PoolNext

\* Every state the pool reaches satisfies the inductive invariant.
THEOREM PoolInductive == PoolSpec => []PoolIInv
<1>1. PoolInit => PoolIInv
  BY PoolInitInv
<1>2. PoolIInv /\ [PoolNext]_cdcVars => PoolIInv'
  BY InvStep
<1>3. QED BY <1>1, <1>2, PTL DEF PoolSpec

\* Tasks that wait for a worker have different events, so there are at most MaxJobs
LEMMA WorkerQueueFits ==
  ASSUME PoolIInv
  PROVE  Len(WorkerQueue) <= MaxJobs
<1>0. PoolTypes /\ MaxJobs \in Nat /\ MaxJobs >= 1 /\ Len(WorkerQueue) \in Nat
      /\ DOMAIN WorkerQueue = 1 .. Len(WorkerQueue)
  BY Sizes DEF PoolIInv, PoolTypes
<1>1. CASE ~Ending
  <2> DEFINE n == Len(WorkerQueue)
             f == [i \in 1 .. n |-> WorkerQueue[i].event]
  <2>1. f \in [1 .. n -> 1 .. MaxJobs]
    BY <1>0, <1>1, HandApart DEF PoolIInv, TasksInHand, Events
  <2>2. \A i, j \in 1 .. n : f[i] = f[j] => i = j
    BY <1>0 DEF PoolIInv, OnePlace
  <2>3. /\ IsFiniteSet(1 .. n) /\ Cardinality(1 .. n) = n
        /\ IsFiniteSet(1 .. MaxJobs) /\ Cardinality(1 .. MaxJobs) = MaxJobs
    <3>1. n \in Int /\ MaxJobs \in Int /\ 1 \in Int /\ ~(1 > MaxJobs) /\ MaxJobs - 1 + 1 = MaxJobs
          /\ (IF 1 > n THEN 0 ELSE n - 1 + 1) = n
      BY <1>0
    <3>2. QED BY <3>1, FS_Interval
  <2>4. SUFFICES ASSUME n > MaxJobs PROVE FALSE
    BY <1>0
  <2> HIDE DEF f
  <2>5. \E x, y \in 1 .. n : x # y /\ f[x] = f[y]
    BY <2>1, <2>3, <2>4, FS_PigeonHole
  <2>6. QED BY <2>2, <2>5
<1>2. CASE Ending
  <2>1. WorkerQueue = <<>> \/ WorkerQueue = <<NullTask>>
    BY <1>2 DEF PoolIInv, StopsCounted, Ending
  <2>2. QED BY <2>1, <1>0
<1>3. QED BY <1>1, <1>2

LEMMA InvSound == PoolIInv => PoolInvariant
<1> SUFFICES ASSUME PoolIInv PROVE PoolInvariant
  OBVIOUS
<1>0. PoolTypes
  BY DEF PoolIInv
<1>1. StorageNotShared
  <2>1. \A w \in Workers : wpc[w] = "process" => wtask[w] \in InHand
    BY DEF PoolIInv, TasksInHand, Holds
  <2>2. \A v, w \in Workers :
          v # w /\ wpc[v] = "process" /\ wpc[w] = "process" => wtask[v] # wtask[w]
    BY DEF PoolIInv, OnePlace, Holds
  <2>3. \A w \in Workers : wpc[w] = "process" =>
          /\ pc = "search" => wtask[w].t # job.t
          /\ \A v \in Workers \ {w} : wpc[v] = "process" => wtask[v].t # wtask[w].t
    BY <2>1, <2>2, HandApart
  <2>4. \A i, j \in DOMAIN FinishedQueue : i # j =>
          FinishedQueue[i].event # FinishedQueue[j].event
    BY DEF PoolIInv, EventsApart
  <2>5. \A i, j \in DOMAIN FinishedQueue : i # j => FinishedQueue[i].t # FinishedQueue[j].t
    <3>1. \A i \in DOMAIN FinishedQueue : FinishedQueue[i] \in InHand
      BY DEF InHand
    <3>2. QED BY <2>4, <3>1, HandApart
  <2>6. QED BY <2>3, <2>4, <2>5 DEF StorageNotShared
<1>2. QueuesFit
  <2>1. Len(FinishedQueue) <= MaxJobs /\ Len(FreeEvents) <= MaxJobs
    <3>1. CASE pc = "over"
      <4>1. Len(FinishedQueue) <= MaxJobs
        BY <1>0, Sizes DEF PoolIInv, JobsCounted, One, PoolTypes
      <4>2. QED BY <4>1, <3>1, Sizes DEF PoolIInv, JobsCounted
    <3>2. CASE pc # "over"
      BY <3>2, <1>0, QueueFacts, Sizes DEF PoolIInv, JobsCounted, One
    <3>3. QED BY <3>1, <3>2
  <2>2. Len(WorkerQueue) <= MaxJobs + 1
    BY WorkerQueueFits, <1>0, Sizes DEF PoolTypes
  <2>3. QED BY <2>1, <2>2 DEF QueuesFit
<1>3. WorkersGoneAtEnd
  <2>1. pc \in {"deleteEvents", "over"} => Cardinality(Gone) = NumThreads
    BY <1>0, Sizes DEF PoolIInv, StopsCounted, One
  <2>2. QED BY <2>1, GoneFacts DEF WorkersGoneAtEnd, Gone
<1>4. QED BY <1>1, <1>2, <1>3 DEF PoolInvariant

\* Storages are not shared, the queues do not overflow, and no worker is left when
\* events and queues are deleted, whatever the number of threads and stripes.
THEOREM PoolSound == PoolSpec => []PoolInvariant
BY PoolInductive, InvSound, PTL

LEMMA InitOrder == PoolInit => StripePromise!Init
<1> SUFFICES ASSUME PoolInit PROVE StripePromise!Init
  OBVIOUS
<1>1. stripes \in Seq(Nat \ {0}) /\ searched = <<>>
  BY PoolInitInv DEF PoolIInv, PoolTypes, PoolInit
<1>2. (pc = "over") = FALSE
  BY DEF PoolInit
<1>3. QED BY <1>1, <1>2 DEF StripePromise!Init

\* One step of the pool is a step of one thread that searches the stripes in their
\* order, or none of them
LEMMA StepOrder == PoolIInv /\ [PoolNext]_cdcVars => [StripePromise!Next]_(StripePromise!vars)
<1> SUFFICES ASSUME PoolIInv, [PoolNext]_cdcVars PROVE [StripePromise!Next]_(StripePromise!vars)
  OBVIOUS
<1>0. PoolTypes /\ JobsCounted /\ SearchesInOrder
  BY DEF PoolIInv
<1>1. CASE Search
  <2>1. /\ pc = "search" /\ searched' = Append(searched, storage[job.t]) /\ stripes' = stripes
        /\ pc' = "loop"
    BY <1>1 DEF Search
  <2>2. /\ storage[job.t] = <<blk, Got>> /\ Got >= 1 /\ Got \in Nat /\ Searched = Got - 1
    BY <2>1, <1>0 DEF PoolIInv, StoragesKept, Done, TasksInOrder, IsTask, Getting, JobsCounted,
       Searched, One
  <2>3. blk \in 1 .. Len(stripes) /\ stripes[blk] \in Nat /\ Got <= stripes[blk]
    <3>1. Got <= ptr
      BY <2>1, <1>0, QueueFacts DEF PoolTypes, Got, One, Putting
    <3>2. blk \in 1 .. Len(stripes) /\ stripes[blk] \in Nat /\ ptr <= stripes[blk] /\ ptr \in Nat
      BY <2>1, <1>0 DEF PoolTypes, Ending
    <3>3. QED BY <3>1, <3>2, <2>2
  <2>4. StripePromise!Following = <<blk, Got>>
    <3>1. Searched < stripes[blk] /\ Searched + 1 = Got
      BY <2>2, <2>3
    <3>2. QED BY <2>1, <3>1, <1>0 DEF SearchesInOrder, Ending
  <2>5. ~StripePromise!AllSearched
    BY <2>3, <2>4 DEF StripePromise!AllSearched
  <2>6. StripePromise!Search
    BY <2>1, <2>2, <2>4, <2>5 DEF StripePromise!Search
  <2>7. QED BY <2>6 DEF StripePromise!Next
<1>2. CASE DeleteEvents
  <2>1. UNCHANGED <<stripes, searched>> /\ (pc = "over") = FALSE /\ (pc = "over")' = TRUE
    BY <1>2 DEF DeleteEvents
  <2>2. StripePromise!AllSearched
    BY <1>2, <1>0 DEF DeleteEvents, SearchesInOrder, Ending, StripePromise!AllSearched
  <2>3. StripePromise!Finish
    BY <2>1, <2>2 DEF StripePromise!Finish
  <2>4. QED BY <2>3 DEF StripePromise!Next
<1>3. CASE LoopTest \/ Push \/ PutEvent \/ PutWorker \/ PutFinished \/ GetTask \/ GetWait
             \/ Stop \/ WaitStop
  <2>1. UNCHANGED <<stripes, searched>> /\ (pc = "over") = FALSE /\ (pc = "over")' = FALSE
    BY <1>3 DEF LoopTest, Push, PutEvent, PutWorker, PutFinished, GetTask, GetWait, Stop, WaitStop
  <2>2. QED BY <2>1 DEF StripePromise!vars
<1>4. CASE UNCHANGED mainView
  BY <1>4 DEF mainView, StripePromise!vars
<1>5. QED
  <2>1. CASE UNCHANGED cdcVars
    BY <2>1, <1>4 DEF cdcVars, mainView
  <2>2. QED BY <1>1, <1>2, <1>3, <1>4, <2>1, WorkersApart DEF PoolNext, CdcNext

\* Whatever the number of threads, the stripes are searched in the order of one thread,
\* each with its own chunks and hashes, and the pool ends when all were searched.
THEOREM PoolInOrder == PoolSpec => ImplementsStripeOrder
<1>1. PoolInit => StripePromise!Init
  BY InitOrder
<1>2. PoolIInv /\ [PoolNext]_cdcVars => [StripePromise!Next]_(StripePromise!vars)
  BY StepOrder
<1>3. QED BY <1>1, <1>2, PoolInductive, PTL DEF PoolSpec, ImplementsStripeOrder, StripePromise!Spec

-----------------------------------------------------------------------------
(* The two-thread pipeline of the first pass: see BgPipelineInv.           *)

USE DEF BgAt, BgGoto, MainGoto, Abort, inputVars, bgVars, mainVars

-----------------------------------------------------------------------------
(* Arithmetic of the slots and of the circular dictionary.                 *)

LEMMA DictRange ==
  /\ DictBlocks \in Nat /\ DictBlocks >= 2
  /\ \A b \in Nat : b % DictBlocks \in 0 .. DictBlocks - 1
BY PipelineAssumption DEF DictBlocks, BUFFERS

\* Blocks less than a dictionary apart have different places in it
LEMMA DictDistinct ==
  ASSUME NEW x \in Nat, NEW y \in Nat, x < y, y - x < DictBlocks
  PROVE  x % DictBlocks # y % DictBlocks
<1>1. SUFFICES ASSUME x % DictBlocks = y % DictBlocks PROVE FALSE
  OBVIOUS
<1>. DEFINE q == (y \div DictBlocks) - (x \div DictBlocks)
<1>2. \A c \in Nat : /\ c \div DictBlocks \in Nat
                     /\ c = DictBlocks * (c \div DictBlocks) + (c % DictBlocks)
  BY DictRange
<1>3. y - x = DictBlocks * (y \div DictBlocks) - DictBlocks * (x \div DictBlocks)
  BY <1>1, <1>2, DictRange
<1>4. y - x = DictBlocks * q /\ q \in Int /\ q # 0
  BY <1>2, <1>3, DictRange
<1>5. DictBlocks * q >= DictBlocks \/ DictBlocks * q <= -DictBlocks
  BY <1>4, DictRange
<1>. QED BY <1>4, <1>5, DictRange

LEMMA SlotFacts ==
  ASSUME ControlTypes
  PROVE  /\ BgSlot \in 0 .. 1 /\ PrevSlot \in 0 .. 1 /\ BgSlot # PrevSlot
         /\ pos \in Nat /\ k \in 0 .. 1
BY DEF ControlTypes, BgSlot, PrevSlot, BUFFERS

LEMMA BlockIsMaybe ==
  ASSUME IInv
  PROVE  /\ pos \in MaybeBlock /\ None \in MaybeBlock
         /\ pos # 0 => pos - 1 \in MaybeBlock
BY PipelineAssumption DEF IInv, BgInv, ControlTypes, MaybeBlock, Block, None

\* The background processing of a block leaves what the main thread reads alone
LEMMA PrepareFacts ==
  ASSUME IInv, BgPrepare
  PROVE  /\ slot'[BgSlot].hash = pos /\ slot'[PrevSlot] = slot[PrevSlot]
         /\ \A i \in 0 .. 1 :
              /\ slot'[i].len = slot[i].len /\ slot'[i].ptr = slot[i].ptr
              /\ slot'[i].stat = slot[i].stat /\ slot'[i].hdr = slot[i].hdr
<1>1. slot'[PrevSlot] = slot[PrevSlot]
  BY SlotFacts DEF IInv, DataTypes, BgPrepare, BUFFERS
<1>2. /\ slot'[BgSlot].hash = pos /\ slot'[BgSlot].len = slot[BgSlot].len
      /\ slot'[BgSlot].ptr = slot[BgSlot].ptr
      /\ slot'[BgSlot].stat = slot[BgSlot].stat
      /\ slot'[BgSlot].hdr = slot[BgSlot].hdr
  BY SlotFacts DEF IInv, DataTypes, BgPrepare, SlotType, BUFFERS
<1>3. \A i \in 0 .. 1 : i = BgSlot \/ i = PrevSlot
  BY SlotFacts DEF IInv
<1>. QED BY <1>1, <1>2, <1>3

-----------------------------------------------------------------------------
(* Where the threads are relative to each other.                           *)

\* While the main thread works on a block, the other thread is either ahead
\* with the next one or saving the one before
LEMMA WorkPositions ==
  ASSUME IInv, bgErr = "ok",
         mainPc \in {"checkRead", "temp", "compress", "fill", "write"}
  PROVE  /\ ~readDone /\ ~writeReady
         /\ \/ pos = origsize + 1 /\ bgPc \in BgAhead /\ k = PrevSlot
            \/ pos = origsize /\ bgPc \in BgSaves \union {"eof", "cleanup", "done"}
                 /\ k = BgSlot
<1>1. mainErr = "ok" /\ bgPc # "giveUp"
  BY DEF IInv, ErrorInv
<1>2. Taken = origsize + 1 /\ Written = origsize
  BY DEF Taken, Written
<1>3. CASE bgPc \in BgAhead
  <2>1. Offered = pos /\ Consumed = IF pos # 0 THEN pos - 1 ELSE pos
    BY <1>3 DEF Offered, Consumed, BgAhead, BgSaves
  <2>2. pos = origsize + 1 /\ ~readDone /\ ~writeReady
    BY <1>1, <1>2, <2>1 DEF IInv, Handshake, ControlTypes
  <2>3. k = PrevSlot
    BY <1>1, <1>2, <2>2 DEF IInv, KInv, PrevSlot
  <2>. QED BY <1>3, <2>2, <2>3
<1>4. CASE bgPc = "signal"
  <2>1. Offered = pos /\ Consumed = pos
    BY <1>4 DEF Offered, Consumed, BgAhead, BgSaves
  <2>. QED BY <1>1, <1>2, <2>1 DEF IInv, Handshake, ControlTypes
<1>5. CASE bgPc \in BgSaves \union {"eof", "cleanup", "done"}
  <2>1. Offered = pos + 1 /\ Consumed = pos
    BY <1>5 DEF Offered, Consumed, BgAhead, BgSaves
  <2>2. pos = origsize /\ ~readDone /\ ~writeReady
    BY <1>1, <1>2, <2>1 DEF IInv, Handshake, ControlTypes
  <2>3. k = BgSlot
    BY <1>1, <1>2, <2>2 DEF IInv, KInv, BgSlot
  <2>. QED BY <1>5, <2>2, <2>3
<1>. QED
  BY <1>1, <1>3, <1>4, <1>5 DEF IInv, ControlTypes, BgPcs, BgAhead, BgSaves

-----------------------------------------------------------------------------
(* The items of the output.                                                *)

LEMMA ItemsOfBlock ==
  ASSUME NEW b \in Nat
  PROVE  /\ mode = "index" =>
              /\ Len(Parts) = 2
              /\ Promise!Item(2 * b + 1) = [part |-> "header", blk |-> b, hash |-> b]
              /\ Promise!Item(2 * b + 2) = [part |-> "literals", blk |-> b, hash |-> None]
         /\ mode # "index" =>
              /\ Len(Parts) = 3
              /\ Promise!Item(3 * b + 1) = [part |-> "header", blk |-> b, hash |-> b]
              /\ Promise!Item(3 * b + 2) = [part |-> "stat", blk |-> b, hash |-> None]
              /\ Promise!Item(3 * b + 3) = [part |-> "literals", blk |-> b, hash |-> None]
<1>1. CASE mode = "index"
  <2>1. Parts = <<"header", "literals">> /\ Len(Parts) = 2
    BY <1>1 DEF Parts
  <2>2. (2 * b + 1 - 1) \div 2 = b /\ ((2 * b + 1 - 1) % 2) + 1 = 1
    OBVIOUS
  <2>3. (2 * b + 2 - 1) \div 2 = b /\ ((2 * b + 2 - 1) % 2) + 1 = 2
    OBVIOUS
  <2>. QED BY <1>1, <2>1, <2>2, <2>3 DEF Promise!Item, None
<1>2. CASE mode # "index"
  <2>1. Parts = <<"header", "stat", "literals">> /\ Len(Parts) = 3
    BY <1>2 DEF Parts
  <2>2. (3 * b + 1 - 1) \div 3 = b /\ ((3 * b + 1 - 1) % 3) + 1 = 1
    OBVIOUS
  <2>3. (3 * b + 2 - 1) \div 3 = b /\ ((3 * b + 2 - 1) % 3) + 1 = 2
    OBVIOUS
  <2>4. (3 * b + 3 - 1) \div 3 = b /\ ((3 * b + 3 - 1) % 3) + 1 = 3
    OBVIOUS
  <2>. QED BY <1>2, <2>1, <2>2, <2>3, <2>4 DEF Promise!Item, None
<1>. QED BY <1>1, <1>2

LEMMA NextItem ==
  ASSUME NEW S, out \in Seq(S), OutputIsInOrder, mode' = mode,
         Promise!Item(Len(out) + 1) \in S,
         out' = Append(out, Promise!Item(Len(out) + 1))
  PROVE  OutputIsInOrder' /\ Len(out') = Len(out) + 1
<1>1. \A n : Promise!Item(n)' = Promise!Item(n)
  BY DEF Promise!Item, Parts
<1>2. ASSUME NEW n \in DOMAIN out' PROVE out'[n] = Promise!Item(n)
  BY DEF OutputIsInOrder
<1>. QED BY <1>1, <1>2 DEF OutputIsInOrder

\* What is known of the block that is being saved
LEMMA SavedBlock ==
  ASSUME IInv, bgPc \in BgSaves
  PROVE  /\ pos \in Nat /\ pos - 1 \in Nat /\ pos # 0 /\ mode # "future" /\ bgErr = "ok"
         /\ Encoded(PrevSlot, pos - 1) /\ slot[PrevSlot].hash = pos - 1
         /\ Loaded(PrevSlot, pos - 1)
         /\ Len(out) = PartsPerBlock * (pos - 1) + PartsOfBlock
<1>1. pos \in Nat /\ pos - 1 \in Nat /\ pos # 0 /\ mode # "future" /\ bgErr = "ok"
  BY DEF IInv, OutputInv, ErrorInv, ControlTypes, BgSaves
<1>2. Encoded(PrevSlot, pos - 1)
  BY <1>1 DEF IInv, WrittenInv
<1>3. slot[PrevSlot].hash = pos - 1 /\ Loaded(PrevSlot, pos - 1)
  BY <1>1 DEF IInv, BgInv
<1>4. Len(out) = PartsPerBlock * (pos - 1) + PartsOfBlock
  BY <1>1 DEF IInv, OutputInv, PartsSaved, BlocksSaved
<1>. QED BY <1>1, <1>2, <1>3, <1>4

LEMMA NextPart ==
  ASSUME IInv
  PROVE  /\ bgPc = "saveHeader" =>
              Promise!Item(Len(out) + 1) =
                [part |-> "header", blk |-> pos - 1, hash |-> pos - 1]
         /\ bgPc = "saveStat" /\ mode # "index" =>
              Promise!Item(Len(out) + 1) =
                [part |-> "stat", blk |-> pos - 1, hash |-> None]
         /\ bgPc = "saveLiterals" =>
              Promise!Item(Len(out) + 1) =
                [part |-> "literals", blk |-> pos - 1, hash |-> None]
<1>0. bgPc \in BgSaves => pos - 1 \in Nat /\ Len(out) = PartsPerBlock * (pos - 1) + PartsOfBlock
  BY SavedBlock
<1>1. CASE mode = "index"
  <2>1. bgPc = "saveHeader" => Len(out) + 1 = 2 * (pos - 1) + 1 /\ pos - 1 \in Nat
    BY <1>0, <1>1 DEF BgSaves, PartsPerBlock, PartsOfBlock
  <2>2. bgPc = "saveLiterals" => Len(out) + 1 = 2 * (pos - 1) + 2 /\ pos - 1 \in Nat
    BY <1>0, <1>1 DEF BgSaves, PartsPerBlock, PartsOfBlock
  <2>. QED BY <1>1, <2>1, <2>2, ItemsOfBlock
<1>2. CASE mode # "index"
  <2>1. bgPc = "saveHeader" => Len(out) + 1 = 3 * (pos - 1) + 1 /\ pos - 1 \in Nat
    BY <1>0, <1>2 DEF BgSaves, PartsPerBlock, PartsOfBlock
  <2>2. bgPc = "saveStat" => Len(out) + 1 = 3 * (pos - 1) + 2 /\ pos - 1 \in Nat
    BY <1>0, <1>2 DEF BgSaves, PartsPerBlock, PartsOfBlock
  <2>3. bgPc = "saveLiterals" => Len(out) + 1 = 3 * (pos - 1) + 3 /\ pos - 1 \in Nat
    BY <1>0, <1>2 DEF BgSaves, PartsPerBlock, PartsOfBlock
  <2>. QED BY <1>2, <2>1, <2>2, <2>3, ItemsOfBlock
<1>. QED BY <1>1, <1>2

OutItem == [part : {"header", "stat", "literals"}, blk : MaybeBlock,
            hash : MaybeBlock]

-----------------------------------------------------------------------------
(* The steps of the background thread preserve the invariant.              *)

LEMMA BgReadStep == ASSUME IInv, BgRead PROVE IInv'
<1>1. KInv' /\ RecordInv' /\ TempInv'
  BY DEF IInv, BgRead, KInv, Taken, RecordInv, RecordsAreInOrder, TempInv
<1>2. ControlTypes'
  BY DEF IInv, BgRead, ControlTypes, BgPcs
<1>3. DataTypes'
  <2>1. pos % DictBlocks \in 0 .. DictBlocks - 1
    BY SlotFacts, DictRange DEF IInv
  <2>2. dict' \in [0 .. DictBlocks - 1 -> MaybeBlock]
    BY <2>1, BlockIsMaybe DEF IInv, DataTypes, BgRead
  <2>3. slot' \in [0 .. BUFFERS - 1 -> SlotType]
    BY <2>1, SlotFacts DEF IInv, DataTypes, BgRead, SlotType, BUFFERS
  <2>. QED BY <2>2, <2>3 DEF IInv, DataTypes, BgRead
<1>4. ErrorInv'
  BY DEF IInv, BgRead, ErrorInv
<1>5. Handshake'
  BY DEF IInv, BgRead, ControlTypes, ErrorInv, Handshake, Offered, Consumed,
     Written, Taken, BgAhead, BgSaves
<1>6. BgInv'
  <2>1. pos \in Nat /\ pos % DictBlocks \in 0 .. DictBlocks - 1
    BY SlotFacts, DictRange DEF IInv
  <2>2. pos < nblocks => Loaded(BgSlot, pos)'
    BY <2>1, SlotFacts DEF IInv, DataTypes, BgRead, SlotType, BUFFERS, Loaded,
       BgSlot
  <2>3. pos = nblocks => slot'[BgSlot'].len = 0
    BY <2>1, SlotFacts DEF IInv, DataTypes, BgRead, SlotType, BUFFERS, BgSlot
  <2>4. ASSUME pos # 0, bgErr = "ok"
        PROVE Loaded(PrevSlot, pos - 1)' /\ slot'[PrevSlot'].hash = pos - 1
    <3>3. pos - 1 \in Nat /\ pos - 1 < pos /\ pos - (pos - 1) < DictBlocks
      BY <2>1, <2>4, DictRange
    <3>1. (pos - 1) % DictBlocks # pos % DictBlocks
      BY <2>1, <3>3, DictDistinct
    <3>2. slot'[PrevSlot] = slot[PrevSlot] /\ PrevSlot' = PrevSlot
      BY SlotFacts DEF IInv, DataTypes, BgRead, BUFFERS, PrevSlot
    <3>4. dict'[(pos - 1) % DictBlocks] = dict[(pos - 1) % DictBlocks]
      BY <3>1, <3>3, DictRange DEF IInv, DataTypes, BgRead
    <3>. QED BY <2>4, <3>2, <3>4 DEF IInv, BgInv, Loaded, BgRead
  <2>. QED
    BY <2>2, <2>3, <2>4 DEF IInv, BgInv, BgRead, ControlTypes
<1>7. MainInv'
  <2>1. ASSUME mainPc \in {"temp", "compress", "fill", "write"}
        PROVE  pos = origsize + 1 /\ k # BgSlot /\ k \in 0..1
    <3>1. bgErr = "ok" /\ mainErr = "ok" /\ bgPc = "read"
      BY <2>1 DEF IInv, ErrorInv, ControlTypes, BgRead
    <3>2. pos = origsize + 1
      BY <2>1, <3>1 DEF IInv, ControlTypes, Handshake, Offered, Consumed,
         Written, Taken,
        BgAhead, BgSaves
    <3>3. k = (origsize + 1) % 2 /\ BgSlot = (origsize + 2) % 2
      BY <2>1, <3>1, <3>2 DEF IInv, ControlTypes, KInv, Taken, BgSlot, BUFFERS
    <3>. QED BY <3>2, <3>3 DEF IInv, ControlTypes
  <2>2. ASSUME mainPc \in {"temp", "compress", "fill", "write"}
        PROVE Loaded(k, origsize)'
    <3>1. origsize % DictBlocks # pos % DictBlocks
      <4>1. /\ origsize \in Nat /\ pos \in Nat /\ origsize < pos
            /\ pos - origsize < DictBlocks
        BY <2>1, <2>2, DictRange DEF IInv, ControlTypes
      <4>. QED BY <4>1, DictDistinct
    <3>2. origsize % DictBlocks \in 0 .. DictBlocks - 1
      BY DictRange DEF IInv, ControlTypes
    <3>3. slot'[k] = slot[k]
      BY <2>1, <2>2 DEF IInv, DataTypes, BgRead, BUFFERS
    <3>4. dict'[origsize % DictBlocks] = dict[origsize % DictBlocks]
      BY <3>1, <3>2 DEF IInv, DataTypes, BgRead
    <3>. QED BY <2>2, <3>3, <3>4 DEF IInv, MainInv, Loaded, BgRead
  <2>3. slot'[k].stat = slot[k].stat /\ slot'[k].hdr = slot[k].hdr
    BY SlotFacts DEF IInv, ControlTypes, DataTypes, BgRead, SlotType, BUFFERS
  <2>. QED
    BY <2>2, <2>3 DEF IInv, MainInv, BgRead, MainWork
<1>8. WrittenInv'
  <2>3. \A i \in 0..1 : slot'[i].stat = slot[i].stat /\ slot'[i].hdr = slot[i].hdr
    BY SlotFacts DEF IInv, ControlTypes, DataTypes, BgRead, SlotType, BUFFERS
  <2>4. /\ BgSlot' = BgSlot
        /\ PrevSlot' = PrevSlot
        /\ BgSlot \in 0..1
        /\ PrevSlot \in 0..1
    BY SlotFacts DEF IInv, BgRead, BgSlot, PrevSlot, BUFFERS
  <2>. QED
    BY <2>3, <2>4 DEF IInv, WrittenInv, BgRead, Encoded, BgAhead, BgSaves
<1>9. OutputInv'
  BY DEF IInv, BgRead, ControlTypes, OutputInv, OutputIsInOrder, Promise!Item,
     Parts, PartsPerBlock, PartsSaved, BlocksSaved, PartsOfBlock, BgAhead,
     BgSaves
<1>10. EndInv'
  BY DEF IInv, BgRead, ErrorInv, EndInv
<1>. QED BY <1>1, <1>2, <1>3, <1>4, <1>5, <1>6, <1>7, <1>8, <1>9, <1>10 DEF
     IInv

LEMMA BgTooLongStep == ASSUME IInv, BgTooLong PROVE IInv'
<1>1. DataTypes' /\ KInv' /\ MainInv' /\ RecordInv' /\ TempInv'
  BY DEF IInv, BgTooLong, DataTypes, KInv, Taken, MainInv, Loaded, RecordInv,
     RecordsAreInOrder, TempInv
<1>2. ControlTypes'
  BY DEF IInv, BgTooLong, ControlTypes, BgPcs
<1>3. ErrorInv'
  BY DEF IInv, BgTooLong, ErrorInv
<1>4. Handshake'
  BY DEF IInv, BgTooLong, ControlTypes, ErrorInv, Handshake, Offered, Consumed,
     Written, Taken, BgAhead, BgSaves
<1>5. BgInv'
  BY DEF IInv, BgTooLong, ControlTypes, BgInv, Loaded, BgSlot, PrevSlot
<1>6. WrittenInv'
  BY DEF IInv, BgTooLong, WrittenInv, BgAhead, BgSaves, Encoded, BgSlot,
     PrevSlot
<1>7. OutputInv'
  BY DEF IInv, BgTooLong, ControlTypes, OutputInv, OutputIsInOrder,
     Promise!Item, Parts, PartsPerBlock, PartsSaved, BlocksSaved, PartsOfBlock,
     BgAhead, BgSaves
<1>8. EndInv'
  BY DEF IInv, BgTooLong, ErrorInv, EndInv
<1>. QED BY <1>1, <1>2, <1>3, <1>4, <1>5, <1>6, <1>7, <1>8 DEF IInv

LEMMA BgSizeOkStep == ASSUME IInv, BgSizeOk PROVE IInv'
<1>1. DataTypes' /\ KInv' /\ MainInv' /\ RecordInv' /\ TempInv'
  BY DEF IInv, BgSizeOk, DataTypes, KInv, Taken, MainInv, Loaded, RecordInv,
     RecordsAreInOrder, TempInv
<1>2. ControlTypes'
  BY DEF IInv, BgSizeOk, ControlTypes, BgPcs
<1>3. ErrorInv'
  BY DEF IInv, BgSizeOk, ErrorInv
<1>4. Handshake'
  BY DEF IInv, BgSizeOk, ControlTypes, ErrorInv, Handshake, Offered, Consumed,
     Written, Taken, BgAhead, BgSaves
<1>5. BgInv'
  BY DEF IInv, BgSizeOk, ControlTypes, BgInv, Loaded, BgSlot, PrevSlot
<1>6. WrittenInv'
  BY DEF IInv, BgSizeOk, WrittenInv, BgAhead, BgSaves, Encoded, BgSlot,
     PrevSlot
<1>7. OutputInv'
  BY DEF IInv, BgSizeOk, ControlTypes, OutputInv, OutputIsInOrder,
     Promise!Item, Parts, PartsPerBlock, PartsSaved, BlocksSaved, PartsOfBlock,
     BgAhead, BgSaves
<1>8. EndInv'
  BY DEF IInv, BgSizeOk, ErrorInv, EndInv
<1>. QED BY <1>1, <1>2, <1>3, <1>4, <1>5, <1>6, <1>7, <1>8 DEF IInv

LEMMA BgGiveUpStep == ASSUME IInv, BgGiveUp PROVE IInv'
<1>1. DataTypes' /\ KInv' /\ MainInv' /\ RecordInv' /\ TempInv'
  BY DEF IInv, BgGiveUp, DataTypes, KInv, Taken, MainInv, Loaded, RecordInv,
     RecordsAreInOrder, TempInv
<1>2. ControlTypes'
  BY DEF IInv, BgGiveUp, ControlTypes, BgPcs
<1>3. ErrorInv'
  BY DEF IInv, BgGiveUp, ErrorInv
<1>4. Handshake'
  BY DEF IInv, BgGiveUp, ControlTypes, ErrorInv, Handshake, Offered, Consumed,
     Written, Taken, BgAhead, BgSaves
<1>5. BgInv'
  <2>1. bgErr # "ok"
    BY DEF IInv, ErrorInv, BgGiveUp
  <2>. QED BY <2>1 DEF IInv, BgInv, BgGiveUp
<1>6. WrittenInv'
  BY DEF IInv, BgGiveUp, WrittenInv, BgAhead, BgSaves, Encoded, BgSlot,
     PrevSlot
<1>7. OutputInv'
  BY DEF IInv, BgGiveUp, ControlTypes, OutputInv, OutputIsInOrder,
     Promise!Item, Parts, PartsPerBlock, PartsSaved, BlocksSaved, PartsOfBlock,
     BgAhead, BgSaves
<1>8. EndInv'
  BY DEF IInv, BgGiveUp, ErrorInv, EndInv
<1>. QED BY <1>1, <1>2, <1>3, <1>4, <1>5, <1>6, <1>7, <1>8 DEF IInv

LEMMA BgPrepareStep == ASSUME IInv, BgPrepare PROVE IInv'
<1>1. KInv' /\ RecordInv' /\ TempInv'
  BY DEF IInv, BgPrepare, KInv, Taken, RecordInv, RecordsAreInOrder, TempInv
<1>2. ControlTypes'
  BY DEF IInv, BgPrepare, ControlTypes, BgPcs
<1>3. DataTypes'
  <2>1. slot' \in [0 .. BUFFERS - 1 -> SlotType]
    BY SlotFacts, BlockIsMaybe DEF IInv, DataTypes, BgPrepare, SlotType, BUFFERS
  <2>. QED BY <2>1 DEF IInv, DataTypes, BgPrepare
<1>4. ErrorInv'
  BY DEF IInv, BgPrepare, ErrorInv
<1>5. Handshake'
  BY DEF IInv, BgPrepare, ControlTypes, ErrorInv, Handshake, Offered, Consumed,
     Written, Taken, BgAhead, BgSaves
<1>6. BgInv'
  <2>1. \A i \in 0 .. 1 :
          /\ slot'[i].len = slot[i].len /\ slot'[i].ptr = slot[i].ptr
          /\ slot'[i].stat = slot[i].stat /\ slot'[i].hdr = slot[i].hdr
    BY PrepareFacts DEF BgPrepare

  <2>2. slot'[BgSlot].hash = pos /\ slot'[PrevSlot].hash = slot[PrevSlot].hash
    BY PrepareFacts
  <2>3. BgSlot' = BgSlot /\ PrevSlot' = PrevSlot
    BY DEF BgPrepare, BgSlot, PrevSlot
  <2>. QED BY <2>1, <2>2, <2>3, SlotFacts DEF IInv, BgInv, BgPrepare, Loaded
<1>7. MainInv'
  <2>1. \A i \in 0 .. 1 :
          /\ slot'[i].len = slot[i].len /\ slot'[i].ptr = slot[i].ptr
          /\ slot'[i].stat = slot[i].stat /\ slot'[i].hdr = slot[i].hdr
    BY PrepareFacts DEF BgPrepare

  <2>. QED BY <2>1, SlotFacts DEF IInv, MainInv, BgPrepare, Loaded, MainWork,
              MainEnds
<1>8. WrittenInv'
  <2>1. \A i \in 0 .. 1 :
          /\ slot'[i].len = slot[i].len /\ slot'[i].ptr = slot[i].ptr
          /\ slot'[i].stat = slot[i].stat /\ slot'[i].hdr = slot[i].hdr
    BY PrepareFacts DEF BgPrepare

  <2>2. BgSlot' = BgSlot /\ PrevSlot' = PrevSlot
    BY DEF BgPrepare, BgSlot, PrevSlot
  <2>. QED
    BY <2>1, <2>2, SlotFacts DEF IInv, WrittenInv, BgPrepare, Encoded, BgAhead,
       BgSaves
<1>9. OutputInv'
  BY DEF IInv, BgPrepare, ControlTypes, OutputInv, OutputIsInOrder,
     Promise!Item, Parts, PartsPerBlock, PartsSaved, BlocksSaved, PartsOfBlock,
     BgAhead, BgSaves
<1>10. EndInv'
  BY DEF IInv, BgPrepare, ErrorInv, EndInv
<1>. QED BY <1>1, <1>2, <1>3, <1>4, <1>5, <1>6, <1>7, <1>8, <1>9, <1>10 DEF
     IInv

LEMMA BgWaitWriteStep == ASSUME IInv, BgWaitWrite PROVE IInv'
<1>1. DataTypes' /\ KInv' /\ MainInv' /\ RecordInv' /\ TempInv'
  BY DEF IInv, BgWaitWrite, DataTypes, KInv, Taken, MainInv, Loaded, RecordInv,
     RecordsAreInOrder, TempInv
<1>2. ControlTypes'
  BY DEF IInv, BgWaitWrite, ControlTypes, BgPcs
<1>3. ErrorInv'
  BY DEF IInv, BgWaitWrite, ErrorInv
<1>4. Handshake'
  <2>1. CASE FirstBlock
    BY <2>1 DEF IInv, FirstBlock, BgWaitWrite, Handshake, Offered, Consumed,
       Written,
       Taken, BgAhead, BgSaves
  <2>2. CASE ~FirstBlock
    <3>1. writeReady /\ ~writeReady'
      BY <2>2 DEF BgWaitWrite
    <3>2. pos # 0 /\ pos' = pos /\ pos \in Nat
      BY <2>2, SlotFacts DEF IInv, FirstBlock, BgWaitWrite
    <3>3. Consumed = pos - 1 /\ Consumed' = pos /\ Offered' = Offered
      BY <3>2 DEF BgWaitWrite, Consumed, Offered, BgAhead, BgSaves
    <3>4. Written' = Written /\ Taken' = Taken
      BY DEF BgWaitWrite, Written, Taken
    <3>. QED BY <3>1, <3>2, <3>3, <3>4 DEF IInv, BgWaitWrite, Handshake
  <2>. QED BY <2>1, <2>2
<1>5. BgInv'
  BY DEF IInv, BgWaitWrite, ControlTypes, BgInv, Loaded, BgSlot, PrevSlot
<1>6. WrittenInv'
  <2>1. BgSlot' = BgSlot /\ PrevSlot' = PrevSlot
    BY DEF BgWaitWrite, BgSlot, PrevSlot
  <2>2. CASE FirstBlock
    BY <2>1, <2>2 DEF IInv, FirstBlock, BgWaitWrite, WrittenInv, BgAhead, BgSaves
  <2>3. CASE ~FirstBlock
    BY <2>1, <2>3 DEF IInv, FirstBlock, BgWaitWrite, WrittenInv, Encoded,
       BgAhead, BgSaves
  <2>. QED BY <2>2, <2>3
<1>7. OutputInv'
  BY DEF IInv, BgWaitWrite, ControlTypes, OutputInv, OutputIsInOrder,
     Promise!Item, Parts, PartsPerBlock, PartsSaved, BlocksSaved, PartsOfBlock,
     BgAhead, BgSaves
<1>8. EndInv'
  BY DEF IInv, BgWaitWrite, ErrorInv, EndInv
<1>. QED BY <1>1, <1>2, <1>3, <1>4, <1>5, <1>6, <1>7, <1>8 DEF IInv

LEMMA BgSignalReadStep == ASSUME IInv, BgSignalRead PROVE IInv'
<1>1. DataTypes' /\ KInv' /\ MainInv' /\ RecordInv' /\ TempInv'
  BY DEF IInv, BgSignalRead, DataTypes, KInv, Taken, MainInv, Loaded,
     RecordInv, RecordsAreInOrder, TempInv
<1>2. ControlTypes'
  BY DEF IInv, BgSignalRead, ControlTypes, BgPcs
<1>3. ErrorInv'
  BY DEF IInv, BgSignalRead, ErrorInv
<1>4. Handshake'
  BY DEF IInv, BgSignalRead, ControlTypes, ErrorInv, Handshake, Offered,
     Consumed, Written, Taken, BgAhead, BgSaves
<1>5. BgInv'
  BY DEF IInv, BgSignalRead, ControlTypes, BgInv, Loaded, BgSlot, PrevSlot
<1>6. WrittenInv'
  BY DEF IInv, BgSignalRead, WrittenInv, BgAhead, BgSaves, Encoded, BgSlot,
     PrevSlot
<1>7. OutputInv'
  <2>1. OutputIsInOrder'
    BY DEF IInv, OutputInv, BgSignalRead, OutputIsInOrder, Promise!Item, Parts
  <2>. QED BY <2>1 DEF IInv, ControlTypes, OutputInv, BgSignalRead, BgSaves,
              PartsSaved, PartsOfBlock, BlocksSaved, BgSaves, BgAhead,
              PartsPerBlock, FirstBlock
<1>8. EndInv'
  BY DEF IInv, BgSignalRead, ErrorInv, EndInv
<1>. QED BY <1>1, <1>2, <1>3, <1>4, <1>5, <1>6, <1>7, <1>8 DEF IInv

LEMMA BgSaveHeaderStep == ASSUME IInv, BgSaveHeader PROVE IInv'
<1>1. KInv' /\ MainInv' /\ RecordInv' /\ TempInv'
  BY DEF IInv, BgSaveHeader, KInv, Taken, MainInv, Loaded, RecordInv,
     RecordsAreInOrder, TempInv
<1>2. ControlTypes'
  BY DEF IInv, BgSaveHeader, ControlTypes, BgPcs
<1>3. DataTypes'
  <2>1. out \in Seq(OutItem) /\ out' \in Seq(OutItem)
    <3>1. out \in Seq(OutItem)
      BY DEF IInv, DataTypes, OutItem
    <3>2. PICK e \in OutItem : out' = Append(out, e) \/ out' = out
      BY SavedBlock, BlockIsMaybe DEF BgSaveHeader, BgSaves, Encoded, Loaded,
         OutItem
    <3>. QED BY <3>1, <3>2
  <2>. QED BY <2>1 DEF IInv, DataTypes, BgSaveHeader, OutItem
<1>4. ErrorInv'
  BY DEF IInv, BgSaveHeader, ErrorInv
<1>5. Handshake'
  BY DEF IInv, BgSaveHeader, ControlTypes, ErrorInv, Handshake, Offered,
     Consumed, Written, Taken, BgAhead, BgSaves
<1>6. BgInv'
  BY DEF IInv, BgSaveHeader, ControlTypes, BgInv, Loaded, BgSlot, PrevSlot
<1>7. WrittenInv'
  BY DEF IInv, BgSaveHeader, WrittenInv, BgAhead, BgSaves, Encoded, BgSlot,
     PrevSlot
<1>8. OutputInv'
  <2>. DEFINE e == Promise!Item(Len(out) + 1)
  <2>1. out' = Append(out, e) /\ e \in OutItem
    BY SavedBlock, NextPart, BlockIsMaybe DEF BgSaveHeader, BgSaves, Encoded,
       OutItem
  <2>2. OutputIsInOrder' /\ Len(out') = Len(out) + 1
    <3>. HIDE DEF e
    <3>1. out \in Seq(OutItem) /\ OutputIsInOrder /\ mode' = mode
      BY DEF IInv, DataTypes, OutItem, OutputInv, BgSaveHeader
    <3>. QED BY <2>1, <3>1, NextItem DEF e
  <2>3. /\ Len(out') = PartsPerBlock' * (pos' - 1) + PartsOfBlock'
        /\ PartsPerBlock \in {2, 3}
    BY SavedBlock, <2>2 DEF BgSaveHeader, BgSaves, PartsPerBlock, PartsOfBlock
  <2>4. /\ PartsSaved' = PartsPerBlock * (pos - 1) + 1
        /\ PartsPerBlock' = PartsPerBlock
        /\ pos' = pos
    BY SavedBlock DEF BgSaveHeader, BgSaves, PartsSaved, PartsPerBlock,
       PartsOfBlock, BlocksSaved
  <2>5. Len(out') <= PartsPerBlock * pos
    BY <2>3, <2>4, SavedBlock DEF BgSaveHeader, BgSaves, PartsOfBlock
  <2>6. Len(out') = PartsSaved'
    BY <2>3, <2>4, SavedBlock DEF BgSaveHeader, BgSaves, PartsOfBlock
  <2>7. pos' # 0 /\ mode' # "future"
    BY SavedBlock DEF BgSaveHeader, BgSaves
  <2>8. (Len(out) <= PartsPerBlock * pos)'
    BY <2>4, <2>5
  <2>. QED BY <2>2, <2>6, <2>7, <2>8 DEF OutputInv
<1>9. EndInv'
  BY DEF IInv, BgSaveHeader, ErrorInv, EndInv
<1>. QED BY <1>1, <1>2, <1>3, <1>4, <1>5, <1>6, <1>7, <1>8, <1>9 DEF IInv

LEMMA BgSaveStatStep == ASSUME IInv, BgSaveStat PROVE IInv'
<1>1. KInv' /\ MainInv' /\ RecordInv' /\ TempInv'
  BY DEF IInv, BgSaveStat, KInv, Taken, MainInv, Loaded, RecordInv,
     RecordsAreInOrder, TempInv
<1>2. ControlTypes'
  BY DEF IInv, BgSaveStat, ControlTypes, BgPcs
<1>3. DataTypes'
  <2>1. out \in Seq(OutItem) /\ out' \in Seq(OutItem)
    <3>1. out \in Seq(OutItem)
      BY DEF IInv, DataTypes, OutItem
    <3>2. PICK e \in OutItem : out' = Append(out, e) \/ out' = out
      BY SavedBlock, BlockIsMaybe DEF BgSaveStat, BgSaves, Encoded, Loaded,
         OutItem
    <3>. QED BY <3>1, <3>2
  <2>. QED BY <2>1 DEF IInv, DataTypes, BgSaveStat, OutItem
<1>4. ErrorInv'
  BY DEF IInv, BgSaveStat, ErrorInv
<1>5. Handshake'
  BY DEF IInv, BgSaveStat, ControlTypes, ErrorInv, Handshake, Offered,
     Consumed, Written, Taken, BgAhead, BgSaves
<1>6. BgInv'
  BY DEF IInv, BgSaveStat, ControlTypes, BgInv, Loaded, BgSlot, PrevSlot
<1>7. WrittenInv'
  BY DEF IInv, BgSaveStat, WrittenInv, BgAhead, BgSaves, Encoded, BgSlot,
     PrevSlot
<1>8. OutputInv'
  <2>. DEFINE e == Promise!Item(Len(out) + 1)
  <2>1. CASE mode = "index"
    BY <2>1, SavedBlock DEF IInv, OutputInv, OutputIsInOrder, Promise!Item,
       Parts, BgSaveStat,
       BgSaves, PartsSaved, PartsPerBlock, PartsOfBlock, BlocksSaved
  <2>2. CASE mode # "index"
    <3>1. out' = Append(out, e) /\ e \in OutItem
      BY <2>2, SavedBlock, NextPart, BlockIsMaybe DEF BgSaveStat, BgSaves,
         Encoded, OutItem
    <3>2. OutputIsInOrder' /\ Len(out') = Len(out) + 1
      <4>. HIDE DEF e
      <4>1. out \in Seq(OutItem) /\ OutputIsInOrder /\ mode' = mode
        BY DEF IInv, DataTypes, OutItem, OutputInv, BgSaveStat
      <4>. QED BY <3>1, <4>1, NextItem DEF e
    <3>3. Len(out') = 3 * (pos - 1) + 2
      <4>1. Len(out) = 3 * (pos - 1) + 1 /\ pos - 1 \in Nat
        BY SavedBlock, <2>2 DEF BgSaveStat, BgSaves, PartsPerBlock, PartsOfBlock
      <4>. QED BY <3>2, <4>1
    <3>4. PartsSaved' = 3 * (pos - 1) + 2 /\ PartsPerBlock' = 3 /\ pos' = pos
      BY <2>2, SavedBlock DEF BgSaveStat, BgSaves, PartsSaved, PartsPerBlock,
         PartsOfBlock, BlocksSaved
    <3>5. pos' # 0 /\ mode' # "future" /\ pos \in Nat
      BY SavedBlock DEF BgSaveStat, BgSaves
    <3>6. (Len(out) = PartsSaved)'
      BY <3>3, <3>4
    <3>7. (Len(out) <= PartsPerBlock * pos)'
      BY <3>3, <3>4, <3>5
    <3>. QED BY <3>2, <3>5, <3>6, <3>7 DEF OutputInv
  <2>. QED BY <2>1, <2>2
<1>9. EndInv'
  BY DEF IInv, BgSaveStat, ErrorInv, EndInv
<1>. QED BY <1>1, <1>2, <1>3, <1>4, <1>5, <1>6, <1>7, <1>8, <1>9 DEF IInv

LEMMA BgSaveLiteralsStep == ASSUME IInv, BgSaveLiterals PROVE IInv'
<1>1. KInv' /\ MainInv' /\ RecordInv' /\ TempInv'
  BY DEF IInv, BgSaveLiterals, KInv, Taken, MainInv, Loaded, RecordInv,
     RecordsAreInOrder, TempInv
<1>2. ControlTypes'
  BY DEF IInv, BgSaveLiterals, ControlTypes, BgPcs
<1>3. DataTypes'
  <2>1. out \in Seq(OutItem) /\ out' \in Seq(OutItem)
    <3>1. out \in Seq(OutItem)
      BY DEF IInv, DataTypes, OutItem
    <3>2. PICK e \in OutItem : out' = Append(out, e) \/ out' = out
      BY SavedBlock, BlockIsMaybe DEF BgSaveLiterals, BgSaves, Encoded, Loaded,
         OutItem
    <3>. QED BY <3>1, <3>2
  <2>. QED BY <2>1 DEF IInv, DataTypes, BgSaveLiterals, OutItem
<1>4. ErrorInv'
  BY DEF IInv, BgSaveLiterals, ErrorInv
<1>5. Handshake'
  BY DEF IInv, BgSaveLiterals, ControlTypes, ErrorInv, Handshake, Offered,
     Consumed, Written, Taken, BgAhead, BgSaves
<1>6. BgInv'
  BY DEF IInv, BgSaveLiterals, ControlTypes, BgInv, Loaded, BgSlot, PrevSlot
<1>7. WrittenInv'
  BY DEF IInv, BgSaveLiterals, WrittenInv, BgAhead, BgSaves, Encoded, BgSlot,
     PrevSlot
<1>8. OutputInv'
  <2>. DEFINE e == Promise!Item(Len(out) + 1)
  <2>1. out' = Append(out, e) /\ e \in OutItem
    BY SavedBlock, NextPart, BlockIsMaybe DEF BgSaveLiterals, BgSaves, Loaded,
       OutItem
  <2>2. OutputIsInOrder' /\ Len(out') = Len(out) + 1
    <3>. HIDE DEF e
    <3>1. out \in Seq(OutItem) /\ OutputIsInOrder /\ mode' = mode
      BY DEF IInv, DataTypes, OutItem, OutputInv, BgSaveLiterals
    <3>. QED BY <2>1, <3>1, NextItem DEF e
  <2>3. Len(out') = PartsPerBlock * pos /\ PartsPerBlock \in {2, 3}
    BY SavedBlock, <2>2 DEF BgSaveLiterals, BgSaves, PartsPerBlock, PartsOfBlock
  <2>4. PartsOfBlock' = 0 /\ BlocksSaved' = pos /\ PartsPerBlock' = PartsPerBlock
    BY DEF BgSaveLiterals, PartsPerBlock, PartsOfBlock, BlocksSaved, BgAhead,
       BgSaves
  <2>5. pos' = pos /\ pos # 0 /\ mode' # "future" /\ mode' = mode /\ pos \in Nat
    BY SavedBlock DEF BgSaveLiterals, BgSaves
  <2>6. PartsPerBlock * pos \in Nat
    BY <2>3, <2>5
  <2>7. (Len(out) = PartsSaved)'
    BY <2>3, <2>4, <2>5, <2>6 DEF PartsSaved
  <2>8. (Len(out) <= PartsPerBlock * pos)'
    BY <2>3, <2>4, <2>5, <2>6
  <2>. QED BY <2>2, <2>5, <2>7, <2>8 DEF OutputInv
<1>9. EndInv'
  BY DEF IInv, BgSaveLiterals, ErrorInv, EndInv
<1>. QED BY <1>1, <1>2, <1>3, <1>4, <1>5, <1>6, <1>7, <1>8, <1>9 DEF IInv

LEMMA BgWriteFailsStep == ASSUME IInv, BgWriteFails PROVE IInv'
<1>1. DataTypes' /\ KInv' /\ MainInv' /\ RecordInv' /\ TempInv'
  BY DEF IInv, BgWriteFails, DataTypes, KInv, Taken, MainInv, Loaded,
     RecordInv, RecordsAreInOrder, TempInv
<1>2. ControlTypes'
  BY DEF IInv, BgWriteFails, ControlTypes, BgPcs
<1>3. ErrorInv'
  BY DEF IInv, BgWriteFails, ErrorInv
<1>4. Handshake'
  BY DEF IInv, BgWriteFails, ControlTypes, ErrorInv, Handshake, Offered,
     Consumed, Written, Taken, BgAhead, BgSaves
<1>5. BgInv'
  BY DEF IInv, BgWriteFails, ControlTypes, BgInv, Loaded, BgSlot, PrevSlot
<1>6. WrittenInv'
  BY DEF IInv, BgWriteFails, WrittenInv, BgAhead, BgSaves, Encoded, BgSlot,
     PrevSlot
<1>7. OutputInv'
  BY DEF IInv, BgWriteFails, ControlTypes, OutputInv, OutputIsInOrder,
     Promise!Item, Parts, PartsPerBlock, PartsSaved, BlocksSaved, PartsOfBlock,
     BgAhead, BgSaves
<1>8. EndInv'
  BY DEF IInv, BgWriteFails, ErrorInv, EndInv
<1>. QED BY <1>1, <1>2, <1>3, <1>4, <1>5, <1>6, <1>7, <1>8 DEF IInv

LEMMA BgAdvanceStep == ASSUME IInv, BgAdvance PROVE IInv'
<1>1. DataTypes' /\ KInv' /\ MainInv' /\ RecordInv' /\ TempInv'
  BY DEF IInv, BgAdvance, DataTypes, KInv, Taken, MainInv, Loaded, RecordInv,
     RecordsAreInOrder, TempInv
<1>2. ControlTypes'
  BY DEF IInv, BgAdvance, ControlTypes, BgPcs
<1>3. ErrorInv'
  BY DEF IInv, BgAdvance, ErrorInv
<1>4. Handshake'
  BY DEF IInv, BgAdvance, ControlTypes, ErrorInv, Handshake, Offered, Consumed,
     Written, Taken, BgAhead, BgSaves
<1>5. BgInv'
  <2>1. CASE slot[BgSlot].len = 0
    <3>1. pos <= nblocks /\ pos \in Nat /\ nblocks \in Nat /\ bgErr = "ok"
      BY PipelineAssumption DEF IInv, BgInv, ControlTypes, Block, ErrorInv,
         BgAdvance
    <3>2. pos = nblocks
      BY <2>1, <3>1 DEF IInv, BgInv, BgAdvance, Loaded
    <3>. QED BY <2>1, <3>1, <3>2 DEF IInv, BgInv, BgAdvance, Loaded, BgSlot,
                PrevSlot
  <2>2. CASE slot[BgSlot].len # 0
    <3>1. pos \in Nat /\ pos' = pos + 1 /\ PrevSlot' = BgSlot /\ bgPc' = "read"
      BY <2>2 DEF IInv, BgAdvance, ControlTypes, PrevSlot, BgSlot
    <3>2. bgErr = "ok" /\ bgErr' = "ok"
      BY DEF IInv, ErrorInv, BgAdvance
    <3>3. /\ pos < nblocks
          /\ pos < limit
          /\ Loaded(BgSlot, pos)
          /\ slot[BgSlot].hash = pos
      BY <2>2, <3>1, <3>2 DEF IInv, BgInv, BgAdvance, ControlTypes, Block
    <3>4. pos' - 1 = pos
      BY <3>1
    <3>5. Loaded(PrevSlot, pos - 1)' /\ (slot[PrevSlot].hash = pos - 1)'
      BY <3>1, <3>3, <3>4 DEF BgAdvance, Loaded
    <3>6. nblocks \in Nat /\ limit \in Nat
      BY PipelineAssumption DEF IInv, ControlTypes, Block
    <3>. QED BY <3>1, <3>2, <3>3, <3>5, <3>6 DEF BgInv, BgAdvance
  <2>. QED BY <2>1, <2>2
<1>6. WrittenInv'
  <2>1. CASE slot[BgSlot].len = 0
    BY <2>1 DEF IInv, BgAdvance, WrittenInv, BgAhead, BgSaves
  <2>2. CASE slot[BgSlot].len # 0
    <3>1. pos \in Nat /\ pos' = pos + 1 /\ PrevSlot' = BgSlot
      BY <2>2 DEF IInv, BgAdvance, ControlTypes, PrevSlot, BgSlot
    <3>. QED BY <2>2, <3>1 DEF IInv, BgAdvance, WrittenInv, Encoded, BgAhead,
                BgSaves
  <2>. QED BY <2>1, <2>2
<1>7. OutputInv'
  <2>1. OutputIsInOrder'
    BY DEF IInv, OutputInv, BgAdvance, OutputIsInOrder, Promise!Item, Parts
  <2>2. PartsPerBlock' = PartsPerBlock /\ PartsPerBlock \in {2,3}
    BY DEF PartsPerBlock, BgAdvance
  <2>3. bgErr = "ok" /\ Len(out) = PartsSaved /\ PartsSaved' = PartsSaved
    BY <2>2 DEF IInv, OutputInv, BgAdvance, ErrorInv, PartsSaved, PartsOfBlock,
       BlocksSaved, BgSaves, BgAhead, ControlTypes
  <2>. QED BY <2>1, <2>2, <2>3 DEF IInv, ControlTypes, OutputInv, BgAdvance,
              BgSaves
<1>8. EndInv'
  BY DEF IInv, BgAdvance, ErrorInv, EndInv
<1>. QED BY <1>1, <1>2, <1>3, <1>4, <1>5, <1>6, <1>7, <1>8 DEF IInv

LEMMA BgFinishStep == ASSUME IInv, BgFinish PROVE IInv'
<1>1. DataTypes' /\ KInv' /\ MainInv' /\ RecordInv' /\ TempInv'
  BY DEF IInv, BgFinish, DataTypes, KInv, Taken, MainInv, Loaded, RecordInv,
     RecordsAreInOrder, TempInv
<1>2. ControlTypes'
  BY DEF IInv, BgFinish, ControlTypes, BgPcs
<1>3. ErrorInv'
  BY DEF IInv, BgFinish, ErrorInv
<1>4. Handshake'
  BY DEF IInv, BgFinish, ControlTypes, ErrorInv, Handshake, Offered, Consumed,
     Written, Taken, BgAhead, BgSaves
<1>5. BgInv'
  BY DEF IInv, BgFinish, ControlTypes, BgInv, Loaded, BgSlot, PrevSlot
<1>6. WrittenInv'
  BY DEF IInv, BgFinish, WrittenInv, BgAhead, BgSaves, Encoded, BgSlot,
     PrevSlot
<1>7. OutputInv'
  BY DEF IInv, BgFinish, ControlTypes, OutputInv, OutputIsInOrder,
     Promise!Item, Parts, PartsPerBlock, PartsSaved, BlocksSaved, PartsOfBlock,
     BgAhead, BgSaves
<1>8. EndInv'
  BY DEF IInv, BgFinish, ErrorInv, EndInv
<1>. QED BY <1>1, <1>2, <1>3, <1>4, <1>5, <1>6, <1>7, <1>8 DEF IInv

-----------------------------------------------------------------------------
(* The steps of the main thread preserve the invariant.                    *)

LEMMA MainReadStep == ASSUME IInv, MainRead PROVE IInv'
<1>1. DataTypes' /\ BgInv' /\ WrittenInv' /\ OutputInv'
  BY DEF IInv, MainRead, DataTypes, BgInv, Loaded, BgSlot, PrevSlot,
     WrittenInv, Encoded, OutputInv, OutputIsInOrder, Promise!Item, Parts,
     PartsPerBlock, PartsSaved, BlocksSaved, PartsOfBlock
<1>2. ControlTypes'
  <2>1. k' \in 0 .. BUFFERS - 1
    BY DEF IInv, ControlTypes, MainRead, BUFFERS
  <2>. QED BY <2>1, Zenon DEF IInv, ControlTypes, MainRead, MainPcs
<1>3. ErrorInv'
  BY DEF IInv, MainRead, ErrorInv
<1>4. Handshake'
  BY DEF IInv, MainRead, ControlTypes, ErrorInv, Handshake, Offered, Consumed,
     Written, Taken, BgAhead, BgSaves
<1>5. KInv'
  BY DEF IInv, MainRead, ControlTypes, KInv, Taken, BUFFERS
<1>6. MainInv'
  BY DEF IInv, MainRead, ControlTypes, MainInv, MainWork, MainEnds, Loaded
<1>7. RecordInv'
  BY DEF IInv, MainRead, RecordInv, RecordsAreInOrder
<1>8. TempInv'
  BY DEF IInv, MainRead, ControlTypes, TempInv, MainWork
<1>9. EndInv'
  BY DEF IInv, MainRead, ErrorInv, EndInv
<1>. QED BY <1>1, <1>2, <1>3, <1>4, <1>5, <1>6, <1>7, <1>8, <1>9 DEF IInv

LEMMA MainSeesErrorStep == ASSUME IInv, MainSeesError PROVE IInv'
<1>1. DataTypes' /\ BgInv' /\ WrittenInv' /\ OutputInv'
  BY DEF IInv, MainSeesError, DataTypes, BgInv, Loaded, BgSlot, PrevSlot,
     WrittenInv, Encoded, OutputInv, OutputIsInOrder, Promise!Item, Parts,
     PartsPerBlock, PartsSaved, BlocksSaved, PartsOfBlock
<1>2. ControlTypes'
  BY DEF IInv, MainSeesError, ControlTypes, MainPcs
<1>3. ErrorInv'
  BY DEF IInv, MainSeesError, ErrorInv
<1>4. Handshake'
  BY DEF IInv, MainSeesError, ControlTypes, ErrorInv, Handshake, Offered,
     Consumed, Written, Taken, BgAhead, BgSaves
<1>5. KInv'
  BY DEF IInv, MainSeesError, ControlTypes, KInv, Taken, BUFFERS
<1>6. MainInv'
  BY DEF IInv, MainSeesError, ControlTypes, MainInv, MainWork, MainEnds, Loaded
<1>7. RecordInv'
  BY DEF IInv, MainSeesError, RecordInv, RecordsAreInOrder
<1>8. TempInv'
  BY DEF IInv, MainSeesError, ControlTypes, TempInv, MainWork
<1>9. EndInv'
  BY DEF IInv, MainSeesError, ErrorInv, EndInv
<1>. QED BY <1>1, <1>2, <1>3, <1>4, <1>5, <1>6, <1>7, <1>8, <1>9 DEF IInv

LEMMA MainCheckReadStep == ASSUME IInv, MainCheckRead PROVE IInv'
<1>1. DataTypes' /\ BgInv' /\ WrittenInv' /\ OutputInv'
  BY DEF IInv, MainCheckRead, DataTypes, BgInv, Loaded, BgSlot, PrevSlot,
     WrittenInv, Encoded, OutputInv, OutputIsInOrder, Promise!Item, Parts,
     PartsPerBlock, PartsSaved, BlocksSaved, PartsOfBlock
<1>2. ControlTypes'
  BY DEF IInv, MainCheckRead, ControlTypes, MainPcs
<1>3. ErrorInv'
  BY DEF IInv, MainCheckRead, ErrorInv
<1>4. Handshake'
  BY DEF IInv, MainCheckRead, ControlTypes, ErrorInv, Handshake, Offered,
     Consumed, Written, Taken, BgAhead, BgSaves
<1>5. KInv'
  BY DEF IInv, MainCheckRead, ControlTypes, KInv, Taken, BUFFERS
<1>6. MainInv'
  <2>1. origsize <= nblocks /\ origsize \in Nat /\ nblocks \in Nat
    BY PipelineAssumption DEF IInv, MainInv, ControlTypes, Block
  <2>2. \/ slot[k].len = 1 /\ Loaded(k, origsize) /\ origsize < nblocks
        \/ slot[k].len = 0 /\ origsize = nblocks
    <3>1. CASE pos = origsize + 1 /\ k = PrevSlot
      BY <2>1, <3>1 DEF IInv, MainCheckRead, BgInv, Loaded
    <3>2. CASE pos = origsize /\ k = BgSlot /\ bgPc # "read"
      BY <2>1, <3>2 DEF IInv, MainCheckRead, BgInv, Loaded
    <3>. QED BY <3>1, <3>2, WorkPositions DEF MainCheckRead, BgSaves
  <2>. QED
    BY <2>1, <2>2 DEF IInv, MainInv, MainCheckRead, Loaded, MainWork, MainEnds
<1>7. RecordInv'
  BY DEF IInv, MainCheckRead, RecordInv, RecordsAreInOrder
<1>8. TempInv'
  BY DEF IInv, MainCheckRead, ControlTypes, TempInv, MainWork
<1>9. EndInv'
  BY DEF IInv, MainCheckRead, ErrorInv, EndInv
<1>. QED BY <1>1, <1>2, <1>3, <1>4, <1>5, <1>6, <1>7, <1>8, <1>9 DEF IInv

LEMMA MainTempWriteStep == ASSUME IInv, MainTempWrite PROVE IInv'
<1>1. BgInv' /\ WrittenInv' /\ OutputInv'
  BY DEF IInv, MainTempWrite, BgInv, Loaded, BgSlot, PrevSlot, WrittenInv,
     Encoded, OutputInv, OutputIsInOrder, Promise!Item, Parts, PartsPerBlock,
     PartsSaved, BlocksSaved, PartsOfBlock
<1>2. ControlTypes'
  BY DEF IInv, MainTempWrite, ControlTypes, MainPcs
<1>3. DataTypes'
  <2>1. ftemp' \in Seq(MaybeBlock)
    <3>1. slot[k].ptr \in 0 .. DictBlocks - 1
      BY DEF IInv, ControlTypes, DataTypes, SlotType, BUFFERS
    <3>2. dict[slot[k].ptr] \in MaybeBlock
      BY <3>1 DEF IInv, DataTypes
    <3>3. origsize <= Len(ftemp) /\ origsize \in Nat /\ ftemp \in Seq(MaybeBlock)
      BY DEF IInv, TempInv, MainTempWrite, ControlTypes, DataTypes
    <3>. QED BY <3>2, <3>3 DEF MainTempWrite
  <2>. QED BY <2>1 DEF IInv, DataTypes, MainTempWrite
<1>4. ErrorInv'
  BY DEF IInv, MainTempWrite, ErrorInv
<1>5. Handshake'
  BY DEF IInv, MainTempWrite, ControlTypes, ErrorInv, Handshake, Offered,
     Consumed, Written, Taken, BgAhead, BgSaves
<1>6. KInv'
  BY DEF IInv, MainTempWrite, ControlTypes, KInv, Taken, BUFFERS
<1>7. MainInv'
  BY DEF IInv, MainTempWrite, ControlTypes, MainInv, MainWork, MainEnds, Loaded
<1>8. RecordInv'
  BY DEF IInv, MainTempWrite, RecordInv, RecordsAreInOrder
<1>9. TempInv'
  <2>1. /\ origsize \in Nat /\ origsize <= Len(ftemp) /\ ftemp \in Seq(MaybeBlock)
        /\ usetemp /\ mainErr = "ok"
    BY DEF IInv, TempInv, ErrorInv, MainTempWrite, ControlTypes, DataTypes
  <2>2. dict[slot[k].ptr] = origsize
    BY DEF IInv, MainInv, MainTempWrite, Loaded
  <2>3. /\ Len(ftemp') = origsize + 1
        /\ \A b \in 1 .. origsize : ftemp'[b] = ftemp[b]
        /\ ftemp'[origsize + 1] = origsize
    <3>. DEFINE s == SubSeq(ftemp, 1, origsize)
    <3>1. s \in Seq(MaybeBlock) /\ Len(s) = origsize
          /\ \A b \in 1 .. origsize : s[b] = ftemp[b]
      BY <2>1
    <3>2. ftemp' = Append(s, origsize)
      BY <2>2 DEF MainTempWrite
    <3>. HIDE DEF s
    <3>. QED BY <2>1, <3>1, <3>2
  <2>4. DOMAIN ftemp = 1 .. Len(ftemp) /\ DOMAIN ftemp' = 1 .. origsize + 1
    BY <2>1, <2>3 DEF MainTempWrite
  <2>. QED BY <2>1, <2>3, <2>4 DEF IInv, TempInv, MainTempWrite, MainWork
<1>10. EndInv'
  BY DEF IInv, MainTempWrite, ErrorInv, EndInv
<1>. QED BY <1>1, <1>2, <1>3, <1>4, <1>5, <1>6, <1>7, <1>8, <1>9, <1>10 DEF
     IInv

LEMMA MainTempFailsStep == ASSUME IInv, MainTempFails PROVE IInv'
<1>1. DataTypes' /\ BgInv' /\ WrittenInv' /\ OutputInv'
  BY DEF IInv, MainTempFails, DataTypes, BgInv, Loaded, BgSlot, PrevSlot,
     WrittenInv, Encoded, OutputInv, OutputIsInOrder, Promise!Item, Parts,
     PartsPerBlock, PartsSaved, BlocksSaved, PartsOfBlock
<1>2. ControlTypes'
  BY DEF IInv, MainTempFails, ControlTypes, MainPcs
<1>3. ErrorInv'
  BY DEF IInv, MainTempFails, ErrorInv
<1>4. Handshake'
  BY DEF IInv, MainTempFails, ControlTypes, ErrorInv, Handshake, Offered,
     Consumed, Written, Taken, BgAhead, BgSaves
<1>5. KInv'
  BY DEF IInv, MainTempFails, ControlTypes, KInv, Taken, BUFFERS
<1>6. MainInv'
  BY DEF IInv, MainTempFails, ControlTypes, MainInv, MainWork, MainEnds, Loaded
<1>7. RecordInv'
  BY DEF IInv, MainTempFails, RecordInv, RecordsAreInOrder
<1>8. TempInv'
  BY DEF IInv, MainTempFails, ControlTypes, TempInv, MainWork
<1>9. EndInv'
  BY DEF IInv, MainTempFails, ErrorInv, EndInv
<1>. QED BY <1>1, <1>2, <1>3, <1>4, <1>5, <1>6, <1>7, <1>8, <1>9 DEF IInv

LEMMA MainCompressStep == ASSUME IInv, MainCompress PROVE IInv'
<1>1. OutputInv'
  BY DEF IInv, MainCompress, OutputInv, OutputIsInOrder, Promise!Item, Parts,
     PartsPerBlock, PartsSaved, BlocksSaved, PartsOfBlock
<1>2. ControlTypes'
  BY DEF IInv, MainCompress, ControlTypes, MainPcs
<1>3. DataTypes'
  <2>1. slot[k].ptr \in 0 .. DictBlocks - 1 /\ k \in 0..1
      BY DEF IInv, ControlTypes, DataTypes, SlotType, BUFFERS
  <2>2. slot' \in [0 .. BUFFERS - 1 -> SlotType]
    BY <2>1 DEF IInv, DataTypes, SlotType, MainCompress, BUFFERS
  <2>. QED BY <2>2 DEF IInv, DataTypes, MainCompress
<1>4. ErrorInv'
  BY DEF IInv, MainCompress, ErrorInv
<1>5. Handshake'
  BY DEF IInv, MainCompress, ControlTypes, ErrorInv, Handshake, Offered,
     Consumed, Written, Taken, BgAhead, BgSaves
<1>6. KInv'
  BY DEF IInv, MainCompress, ControlTypes, KInv, Taken, BUFFERS
<1>7. BgInv'
  BY DEF IInv, MainCompress, ControlTypes, BgInv, Loaded, BgSlot, PrevSlot
<1>8. MainInv'
  <2>1. /\ slot'[k].len = slot[k].len /\ slot'[k].ptr = slot[k].ptr
        /\ slot'[k].stat = dict[slot[k].ptr]
    BY SlotFacts DEF IInv, DataTypes, MainCompress, SlotType, BUFFERS
  <2>. QED BY <2>1 DEF IInv, MainInv, MainCompress, Loaded, MainWork, MainEnds
<1>9. WrittenInv'
  <2>1. /\ BgSlot' = BgSlot
        /\ PrevSlot' = PrevSlot
        /\ BgSlot \in 0..1
        /\ PrevSlot \in 0..1
        /\ k \in 0..1 /\ BgSlot # PrevSlot
    BY SlotFacts DEF IInv, MainCompress, BgSlot, PrevSlot, BUFFERS, ControlTypes
  <2>2. \A i \in 0..1 : i # k => slot'[i] = slot[i]
    BY <2>1 DEF IInv, DataTypes, MainCompress, BUFFERS
  <2>3. CASE bgErr = "ok"
    BY <2>1, <2>2, <2>3, WorkPositions DEF IInv, MainCompress, WrittenInv,
       Encoded, BgAhead, BgSaves
  <2>4. CASE bgErr # "ok"
    BY <2>4 DEF IInv, ErrorInv, MainCompress, WrittenInv, BgAhead, BgSaves
  <2>. QED BY <2>3, <2>4
<1>10. RecordInv'
  BY DEF IInv, MainCompress, RecordInv, RecordsAreInOrder
<1>11. TempInv'
  BY DEF IInv, MainCompress, ControlTypes, TempInv, MainWork
<1>12. EndInv'
  BY DEF IInv, MainCompress, ErrorInv, EndInv
<1>. QED BY <1>1, <1>2, <1>3, <1>4, <1>5, <1>6, <1>7, <1>8, <1>9, <1>10, <1>11,
     <1>12 DEF IInv

LEMMA MainFillHeaderStep == ASSUME IInv, MainFillHeader PROVE IInv'
<1>1. OutputInv'
  BY DEF IInv, MainFillHeader, OutputInv, OutputIsInOrder, Promise!Item, Parts,
     PartsPerBlock, PartsSaved, BlocksSaved, PartsOfBlock
<1>2. ControlTypes'
  BY DEF IInv, MainFillHeader, ControlTypes, MainPcs
<1>3. DataTypes'
  <2>2. slot' \in [0 .. BUFFERS - 1 -> SlotType]
    BY DEF IInv, ControlTypes, DataTypes, SlotType, MainFillHeader, BUFFERS
  <2>. QED BY <2>2 DEF IInv, DataTypes, MainFillHeader
<1>4. ErrorInv'
  BY DEF IInv, MainFillHeader, ErrorInv
<1>5. Handshake'
  BY DEF IInv, MainFillHeader, ControlTypes, ErrorInv, Handshake, Offered,
     Consumed, Written, Taken, BgAhead, BgSaves
<1>6. KInv'
  BY DEF IInv, MainFillHeader, ControlTypes, KInv, Taken, BUFFERS
<1>7. BgInv'
  BY DEF IInv, MainFillHeader, ControlTypes, BgInv, Loaded, BgSlot, PrevSlot
<1>8. MainInv'
  <2>1. /\ slot'[k].len = slot[k].len /\ slot'[k].ptr = slot[k].ptr
        /\ slot'[k].stat = slot[k].stat /\ slot'[k].hdr = slot[k].stat
    BY SlotFacts DEF IInv, DataTypes, MainFillHeader, SlotType, BUFFERS
  <2>. QED BY <2>1 DEF IInv, MainInv, MainFillHeader, Loaded, MainWork, MainEnds
<1>9. WrittenInv'
  <2>1. /\ BgSlot' = BgSlot
        /\ PrevSlot' = PrevSlot
        /\ BgSlot \in 0..1
        /\ PrevSlot \in 0..1
        /\ k \in 0..1 /\ BgSlot # PrevSlot
    BY SlotFacts DEF IInv, MainFillHeader, BgSlot, PrevSlot, BUFFERS, ControlTypes
  <2>2. \A i \in 0..1 : i # k => slot'[i] = slot[i]
    BY <2>1 DEF IInv, DataTypes, MainFillHeader, BUFFERS
  <2>3. CASE bgErr = "ok"
    BY <2>1, <2>2, <2>3, WorkPositions DEF IInv, MainFillHeader, WrittenInv,
       Encoded, BgAhead, BgSaves
  <2>4. CASE bgErr # "ok"
    BY <2>4 DEF IInv, ErrorInv, MainFillHeader, WrittenInv, BgAhead, BgSaves
  <2>. QED BY <2>3, <2>4
<1>10. RecordInv'
  BY DEF IInv, MainFillHeader, RecordInv, RecordsAreInOrder
<1>11. TempInv'
  BY DEF IInv, MainFillHeader, ControlTypes, TempInv, MainWork
<1>12. EndInv'
  BY DEF IInv, MainFillHeader, ErrorInv, EndInv
<1>. QED BY <1>1, <1>2, <1>3, <1>4, <1>5, <1>6, <1>7, <1>8, <1>9, <1>10, <1>11,
     <1>12 DEF IInv

LEMMA MainWriteStep == ASSUME IInv, MainWrite PROVE IInv'
<1>1. DataTypes' /\ BgInv' /\ OutputInv'
  BY DEF IInv, MainWrite, DataTypes, BgInv, Loaded, BgSlot, PrevSlot,
     OutputInv, OutputIsInOrder, Promise!Item, Parts, PartsPerBlock,
     PartsSaved, BlocksSaved, PartsOfBlock
<1>2. ControlTypes'
  BY DEF IInv, MainWrite, ControlTypes, MainPcs
<1>3. ErrorInv'
  BY DEF IInv, MainWrite, ErrorInv
<1>4. Handshake'
  BY DEF IInv, MainWrite, ControlTypes, ErrorInv, Handshake, Offered, Consumed,
     Written, Taken, BgAhead, BgSaves
<1>5. KInv'
  BY DEF IInv, MainWrite, ControlTypes, KInv, Taken, BUFFERS
<1>6. MainInv'
  BY DEF IInv, MainWrite, ControlTypes, MainInv, MainWork, MainEnds, Loaded
<1>7. WrittenInv'
  <2>1. /\ BgSlot' = BgSlot
        /\ PrevSlot' = PrevSlot
        /\ BgSlot \in 0..1
        /\ PrevSlot \in 0..1
        /\ k \in 0..1 /\ BgSlot # PrevSlot
    BY SlotFacts DEF IInv, MainWrite, BgSlot, PrevSlot, BUFFERS, ControlTypes
  <2>2. Encoded(k, origsize) /\ origsize \in Nat
    BY DEF IInv, MainWrite, MainInv, Encoded, ControlTypes
  <2>3. CASE bgErr = "ok"
    BY <2>1, <2>2, <2>3, WorkPositions DEF IInv, MainWrite, WrittenInv, Encoded,
       BgAhead, BgSaves
  <2>4. CASE bgErr # "ok"
    BY <2>4 DEF IInv, ErrorInv, MainWrite, WrittenInv, BgAhead, BgSaves
  <2>. QED BY <2>3, <2>4
<1>8. RecordInv'
  BY DEF IInv, MainWrite, RecordInv, RecordsAreInOrder
<1>9. TempInv'
  BY DEF IInv, MainWrite, ControlTypes, TempInv, MainWork
<1>10. EndInv'
  BY DEF IInv, MainWrite, ErrorInv, EndInv
<1>. QED BY <1>1, <1>2, <1>3, <1>4, <1>5, <1>6, <1>7, <1>8, <1>9, <1>10 DEF
     IInv

LEMMA MainCheckWriteStep == ASSUME IInv, MainCheckWrite PROVE IInv'
<1>1. DataTypes' /\ BgInv' /\ WrittenInv' /\ OutputInv'
  BY DEF IInv, MainCheckWrite, DataTypes, BgInv, Loaded, BgSlot, PrevSlot,
     WrittenInv, Encoded, OutputInv, OutputIsInOrder, Promise!Item, Parts,
     PartsPerBlock, PartsSaved, BlocksSaved, PartsOfBlock
<1>2. ControlTypes'
  BY DEF IInv, MainCheckWrite, ControlTypes, MainPcs
<1>3. ErrorInv'
  BY DEF IInv, MainCheckWrite, ErrorInv
<1>4. Handshake'
  BY DEF IInv, MainCheckWrite, ControlTypes, ErrorInv, Handshake, Offered,
     Consumed, Written, Taken, BgAhead, BgSaves
<1>5. KInv'
  BY DEF IInv, MainCheckWrite, ControlTypes, KInv, Taken, BUFFERS
<1>6. MainInv'
  <2>1. origsize < nblocks /\ origsize \in Nat /\ nblocks \in Nat
    BY PipelineAssumption DEF IInv, MainInv, MainCheckWrite, ControlTypes,
       Block, MainWork
  <2>2. CASE mode = "io"
    BY <2>1, <2>2 DEF MainInv, MainCheckWrite, MainWork, MainEnds
  <2>3. CASE mode # "io"
    BY <2>1, <2>3 DEF IInv, MainInv, MainCheckWrite, MainWork, MainEnds
  <2>. QED BY <2>2, <2>3
<1>7. RecordInv'
  BY DEF IInv, MainCheckWrite, RecordInv, RecordsAreInOrder
<1>8. TempInv'
  <2>1. /\ mainErr = "ok"
        /\ origsize \in Nat
        /\ origsize' \in {origsize, origsize + 1}
    BY DEF IInv, ErrorInv, MainCheckWrite, ControlTypes
  <2>2. usetemp => Len(ftemp) = origsize + 1
    BY <2>1 DEF IInv, TempInv, MainCheckWrite, MainWork
  <2>. QED BY <2>1, <2>2 DEF IInv, TempInv, MainCheckWrite, MainWork
<1>9. EndInv'
  BY DEF IInv, MainCheckWrite, ErrorInv, EndInv
<1>. QED BY <1>1, <1>2, <1>3, <1>4, <1>5, <1>6, <1>7, <1>8, <1>9 DEF IInv

LEMMA MainStoreStep == ASSUME IInv, MainStore PROVE IInv'
<1>1. BgInv' /\ WrittenInv' /\ OutputInv'
  BY DEF IInv, MainStore, BgInv, Loaded, BgSlot, PrevSlot, WrittenInv, Encoded,
     OutputInv, OutputIsInOrder, Promise!Item, Parts, PartsPerBlock,
     PartsSaved, BlocksSaved, PartsOfBlock
<1>2. ControlTypes'
  BY DEF IInv, MainStore, ControlTypes, MainPcs
<1>3. DataTypes'
  <2>1. /\ slot[k].hdr \in MaybeBlock /\ slot[k].hash \in MaybeBlock
        /\ slot[k].stat \in MaybeBlock
    BY SlotFacts DEF IInv, DataTypes, SlotType, BUFFERS
  <2>. QED BY <2>1 DEF IInv, DataTypes, MainStore
<1>4. ErrorInv'
  BY DEF IInv, MainStore, ErrorInv
<1>5. Handshake'
  BY DEF IInv, MainStore, ControlTypes, ErrorInv, Handshake, Offered, Consumed,
     Written, Taken, BgAhead, BgSaves
<1>6. KInv'
  BY DEF IInv, MainStore, ControlTypes, KInv, Taken, BUFFERS
<1>7. MainInv'
  <2>1. origsize < nblocks /\ origsize \in Nat /\ nblocks \in Nat
    BY PipelineAssumption DEF IInv, MainInv, MainStore, ControlTypes, Block,
       MainWork
  <2>. QED BY <2>1 DEF MainInv, MainStore, MainWork, MainEnds
<1>8. RecordInv'
  <2>. DEFINE R == [hdr : MaybeBlock, hash : MaybeBlock, stat : MaybeBlock]
              r == [hdr |-> slot[k].hdr, hash |-> slot[k].hash, stat |-> slot[k].stat]
  <2>1. /\ blocks \in Seq(R)
        /\ Len(blocks) = origsize
        /\ mode # "io"
        /\ origsize \in Nat
    BY DEF IInv, DataTypes, ControlTypes, RecordInv, MainStore
  <2>2. r.hdr = origsize /\ r.stat = origsize
    BY DEF IInv, MainInv, MainStore
  <2>3. blocks' = Append(blocks, r)
    BY DEF MainStore
  <2>. HIDE DEF r
  <2>4. /\ Len(blocks') = origsize + 1 /\ DOMAIN blocks' = 1 .. origsize + 1
        /\ DOMAIN blocks = 1 .. origsize
        /\ \A b \in 1 .. origsize : blocks'[b] = blocks[b]
        /\ blocks'[origsize + 1] = r
    BY <2>1, <2>3
  <2>5. RecordsAreInOrder'
    BY <2>1, <2>2, <2>4 DEF IInv, RecordInv, RecordsAreInOrder
  <2>. QED BY <2>1, <2>4, <2>5 DEF RecordInv, MainStore
<1>9. TempInv'
  <2>1. mainErr = "ok" /\ origsize \in Nat /\ origsize' = origsize + 1
    BY DEF IInv, ErrorInv, MainStore, ControlTypes
  <2>2. usetemp => Len(ftemp) = origsize + 1
    BY <2>1 DEF IInv, TempInv, MainStore, MainWork
  <2>. QED BY <2>1, <2>2 DEF IInv, TempInv, MainStore, MainWork
<1>10. EndInv'
  BY DEF IInv, MainStore, ErrorInv, EndInv
<1>. QED BY <1>1, <1>2, <1>3, <1>4, <1>5, <1>6, <1>7, <1>8, <1>9, <1>10 DEF
     IInv

LEMMA MainWaitStep == ASSUME IInv, MainWait PROVE IInv'
<1>1. DataTypes' /\ BgInv' /\ WrittenInv' /\ OutputInv'
  BY DEF IInv, MainWait, DataTypes, BgInv, Loaded, BgSlot, PrevSlot,
     WrittenInv, Encoded, OutputInv, OutputIsInOrder, Promise!Item, Parts,
     PartsPerBlock, PartsSaved, BlocksSaved, PartsOfBlock
<1>2. ControlTypes'
  BY DEF IInv, MainWait, ControlTypes, MainPcs
<1>3. ErrorInv'
  BY DEF IInv, MainWait, ErrorInv
<1>4. Handshake'
  BY DEF IInv, MainWait, ControlTypes, ErrorInv, Handshake, Offered, Consumed,
     Written, Taken, BgAhead, BgSaves
<1>5. KInv'
  BY DEF IInv, MainWait, ControlTypes, KInv, Taken, BUFFERS
<1>6. MainInv'
  BY DEF IInv, MainWait, ControlTypes, MainInv, MainWork, MainEnds, Loaded
<1>7. RecordInv'
  BY DEF IInv, MainWait, RecordInv, RecordsAreInOrder
<1>8. TempInv'
  BY DEF IInv, MainWait, ControlTypes, TempInv, MainWork
<1>9. EndInv'
  BY DEF IInv, MainWait, ErrorInv, EndInv
<1>. QED BY <1>1, <1>2, <1>3, <1>4, <1>5, <1>6, <1>7, <1>8, <1>9 DEF IInv

LEMMA MainCheckEndStep == ASSUME IInv, MainCheckEnd PROVE IInv'
<1>1. DataTypes' /\ BgInv' /\ WrittenInv' /\ OutputInv'
  BY DEF IInv, MainCheckEnd, DataTypes, BgInv, Loaded, BgSlot, PrevSlot,
     WrittenInv, Encoded, OutputInv, OutputIsInOrder, Promise!Item, Parts,
     PartsPerBlock, PartsSaved, BlocksSaved, PartsOfBlock
<1>2. ControlTypes'
  BY DEF IInv, MainCheckEnd, ControlTypes, MainPcs
<1>3. ErrorInv'
  BY DEF IInv, MainCheckEnd, ErrorInv
<1>4. Handshake'
  BY DEF IInv, MainCheckEnd, ControlTypes, ErrorInv, Handshake, Offered,
     Consumed, Written, Taken, BgAhead, BgSaves
<1>5. KInv'
  BY DEF IInv, MainCheckEnd, ControlTypes, KInv, Taken, BUFFERS
<1>6. MainInv'
  BY DEF IInv, MainCheckEnd, ControlTypes, MainInv, MainWork, MainEnds, Loaded
<1>7. RecordInv'
  BY DEF IInv, MainCheckEnd, RecordInv, RecordsAreInOrder
<1>8. TempInv'
  BY DEF IInv, MainCheckEnd, ControlTypes, TempInv, MainWork
<1>9. EndInv'
  BY DEF IInv, MainCheckEnd, ErrorInv, EndInv
<1>. QED BY <1>1, <1>2, <1>3, <1>4, <1>5, <1>6, <1>7, <1>8, <1>9 DEF IInv

LEMMA MainDestroyStep == ASSUME IInv, MainDestroy PROVE IInv'
<1>1. DataTypes' /\ BgInv' /\ WrittenInv' /\ OutputInv'
  BY DEF IInv, MainDestroy, DataTypes, BgInv, Loaded, BgSlot, PrevSlot,
     WrittenInv, Encoded, OutputInv, OutputIsInOrder, Promise!Item, Parts,
     PartsPerBlock, PartsSaved, BlocksSaved, PartsOfBlock
<1>2. ControlTypes'
  BY DEF IInv, MainDestroy, ControlTypes, MainPcs
<1>3. ErrorInv'
  BY DEF IInv, MainDestroy, ErrorInv
<1>4. Handshake'
  BY DEF IInv, MainDestroy, ControlTypes, ErrorInv, Handshake, Offered,
     Consumed, Written, Taken, BgAhead, BgSaves
<1>5. KInv'
  BY DEF IInv, MainDestroy, ControlTypes, KInv, Taken, BUFFERS
<1>6. MainInv'
  BY DEF IInv, MainDestroy, ControlTypes, MainInv, MainWork, MainEnds, Loaded
<1>7. RecordInv'
  BY DEF IInv, MainDestroy, RecordInv, RecordsAreInOrder
<1>8. TempInv'
  BY DEF IInv, MainDestroy, ControlTypes, TempInv, MainWork
<1>9. EndInv'
  BY DEF IInv, MainDestroy, ErrorInv, EndInv
<1>. QED BY <1>1, <1>2, <1>3, <1>4, <1>5, <1>6, <1>7, <1>8, <1>9 DEF IInv

LEMMA MainCleanupStep == ASSUME IInv, MainCleanup PROVE IInv'
<1>1. DataTypes' /\ BgInv' /\ WrittenInv' /\ OutputInv'
  BY DEF IInv, MainCleanup, DataTypes, BgInv, Loaded, BgSlot, PrevSlot,
     WrittenInv, Encoded, OutputInv, OutputIsInOrder, Promise!Item, Parts,
     PartsPerBlock, PartsSaved, BlocksSaved, PartsOfBlock
<1>2. ControlTypes'
  BY DEF IInv, MainCleanup, ControlTypes, MainPcs
<1>3. ErrorInv'
  BY DEF IInv, MainCleanup, ErrorInv
<1>4. Handshake'
  BY DEF IInv, MainCleanup, ControlTypes, ErrorInv, Handshake, Offered,
     Consumed, Written, Taken, BgAhead, BgSaves
<1>5. KInv'
  BY DEF IInv, MainCleanup, ControlTypes, KInv, Taken, BUFFERS
<1>6. MainInv'
  BY DEF IInv, MainCleanup, ControlTypes, MainInv, MainWork, MainEnds, Loaded
<1>7. RecordInv'
  BY DEF IInv, MainCleanup, RecordInv, RecordsAreInOrder
<1>8. TempInv'
  BY DEF IInv, MainCleanup, ControlTypes, TempInv, MainWork
<1>9. EndInv'
  BY DEF IInv, MainCleanup, ErrorInv, EndInv
<1>. QED BY <1>1, <1>2, <1>3, <1>4, <1>5, <1>6, <1>7, <1>8, <1>9 DEF IInv

-----------------------------------------------------------------------------
(* The inductive invariant.                                                *)

LEMMA InitInv == ASSUME Init PROVE IInv
<1>1. DictBlocks \in Nat /\ DictBlocks >= 2 /\ 0 % DictBlocks = 0
  BY DictRange
<1>2. ControlTypes
  BY PipelineAssumption DEF Init, ControlTypes, Block, BgPcs, MainPcs, BUFFERS
<1>3. DataTypes
  <2>1. EmptySlot \in SlotType
    BY <1>1, PipelineAssumption DEF EmptySlot, SlotType, MaybeBlock, None
  <2>. QED BY <2>1 DEF Init, DataTypes, MaybeBlock
<1>4. ErrorInv /\ Handshake /\ KInv
  BY DEF Init, ErrorInv, Handshake, KInv, Offered, Consumed, Written, Taken,
     BgAhead, BgSaves, BUFFERS
<1>5. BgInv
  BY <1>2 DEF Init, BgInv, ControlTypes, Block
<1>6. MainInv /\ WrittenInv
  BY <1>2, PipelineAssumption DEF Init, MainInv, WrittenInv, MainWork, MainEnds,
     Block
<1>7. OutputInv
  BY DEF Init, OutputInv, OutputIsInOrder, PartsSaved, PartsPerBlock, BlocksSaved,
     PartsOfBlock, BgSaves
<1>8. RecordInv /\ TempInv /\ EndInv
  BY DEF Init, RecordInv, RecordsAreInOrder, TempInv, EndInv, MainWork
<1>. QED BY <1>2, <1>3, <1>4, <1>5, <1>6, <1>7, <1>8 DEF IInv

LEMMA StutterInv == ASSUME IInv, UNCHANGED vars PROVE IInv'
<1>1. (ControlTypes /\ DataTypes /\ ErrorInv /\ Handshake /\ KInv)'
  BY DEF IInv, vars, ControlTypes, DataTypes, ErrorInv, Handshake, KInv, Offered,
     Consumed, Written, Taken
<1>2. (BgInv /\ MainInv /\ WrittenInv)'
  BY DEF IInv, vars, BgInv, MainInv, WrittenInv, Loaded, Encoded, BgSlot, PrevSlot
<1>3. (OutputInv /\ RecordInv /\ TempInv /\ EndInv)'
  BY DEF IInv, vars, OutputInv, OutputIsInOrder, Promise!Item, Parts, PartsSaved,
     PartsPerBlock, BlocksSaved, PartsOfBlock, RecordInv, RecordsAreInOrder, TempInv,
     EndInv
<1>. QED BY <1>1, <1>2, <1>3 DEF IInv

\* The handshake of events and slots, and what it implies for the data, is
\* kept by every step of either thread.
THEOREM Inductive == Spec => []IInv
<1>1. Init => IInv
  BY InitInv
<1>2. IInv /\ [Next]_vars => IInv'
  <2>1. ASSUME IInv, BgNext PROVE IInv'
    BY <2>1, BgReadStep, BgTooLongStep, BgSizeOkStep, BgGiveUpStep, BgPrepareStep,
       BgWaitWriteStep, BgSignalReadStep, BgSaveHeaderStep, BgSaveStatStep,
       BgSaveLiteralsStep, BgWriteFailsStep, BgAdvanceStep, BgFinishStep
       DEF BgNext
  <2>2. ASSUME IInv, MainNext PROVE IInv'
    BY <2>2, MainReadStep, MainSeesErrorStep, MainCheckReadStep,
       MainTempWriteStep,
       MainTempFailsStep, MainCompressStep, MainFillHeaderStep, MainWriteStep,
       MainCheckWriteStep, MainStoreStep, MainWaitStep, MainCheckEndStep,
       MainDestroyStep, MainCleanupStep
       DEF MainNext
  <2>. QED BY <2>1, <2>2, StutterInv DEF Next
<1>. QED BY <1>1, <1>2, PTL DEF Spec

-----------------------------------------------------------------------------
(* What follows from it.                                                   *)

\* Type correctness; the positions of both threads stay inside the input.
THEOREM TypeCorrect == Spec => []TypeOK
<1>1. IInv => TypeOK
  BY PipelineAssumption DEF IInv, ControlTypes, DataTypes, BgInv, MainInv,
     TypeOK, Block
<1>. QED BY <1>1, Inductive, PTL

\* The compressed stream is written in input order, each part from its block.
THEOREM OutputOrder == Spec => []OutputIsInOrder
<1>1. IInv => OutputIsInOrder
  BY DEF IInv, OutputInv
<1>. QED BY <1>1, Inductive, PTL

\* The second pass gets its match lists in input order.
THEOREM RecordOrder == Spec => []RecordsAreInOrder
<1>1. IInv => RecordsAreInOrder
  BY DEF IInv, RecordInv
<1>. QED BY <1>1, Inductive, PTL

\* The second pass can read the whole input back from the tempfile.
THEOREM TempfileComplete == Spec => []TempfileHoldsInput
<1>1. IInv => TempfileHoldsInput
  BY DEF IInv, TempInv, TempfileHoldsInput
<1>. QED BY <1>1, Inductive, PTL

\* No signal of the two threads is lost.
THEOREM SignalsKept == Spec => []NoSignalSwallowed
<1>1. ASSUME IInv, bgErr = "ok", mainErr = "ok", bgPc = "signal" PROVE ~readDone
  <2>1. Offered = pos /\ Consumed = pos
    BY <1>1 DEF Offered, Consumed, BgAhead, BgSaves
  <2>2. Written <= Taken /\ Written \in Nat /\ Taken \in Nat /\ pos \in Nat
    BY <1>1 DEF IInv, ControlTypes, Written, Taken
  <2>. QED BY <1>1, <2>1, <2>2 DEF IInv, Handshake
<1>2. ASSUME IInv, bgErr = "ok", mainPc = "write" PROVE ~writeReady
  BY <1>2, WorkPositions
<1>3. IInv => NoSignalSwallowed
  BY <1>1, <1>2 DEF NoSignalSwallowed
<1>. QED BY <1>3, Inductive, PTL

\* Exit code 0 means that nothing is missing.
THEOREM SuccessComplete == Spec => []SuccessMeansComplete
<1>1. ASSUME IInv, mainPc = "exit", mainErr = "ok"
      PROVE  bgPc = "done" /\ bgErr = "ok" /\ pos = nblocks /\ origsize = nblocks
  BY <1>1 DEF IInv, EndInv, MainInv, MainEnds, BgInv
<1>2. ASSUME IInv, mainPc = "exit", mainErr = "ok"
      PROVE  Len(out) = IF mode = "future" THEN 0 ELSE nblocks * Len(Parts)
  <2>1. nblocks \in Nat
    BY <1>2, PipelineAssumption DEF IInv, ControlTypes, Block
  <2>2. Len(out) = IF mode = "future" THEN 0 ELSE PartsPerBlock * nblocks
    BY <1>1, <1>2, <2>1 DEF IInv, OutputInv, PartsSaved, BlocksSaved,
       PartsOfBlock,
       PartsPerBlock, BgAhead, BgSaves
  <2>3. Len(Parts) = PartsPerBlock /\ PartsPerBlock \in {2, 3}
    BY DEF Parts, PartsPerBlock
  <2>. QED BY <2>1, <2>2, <2>3
<1>3. ASSUME IInv, mainPc = "exit", mainErr = "ok"
      PROVE  /\ ~removed /\ Len(blocks) = IF mode = "io" THEN 0 ELSE nblocks
             /\ Len(ftemp) = IF usetemp THEN nblocks ELSE 0
  BY <1>1, <1>3 DEF IInv, EndInv, RecordInv, TempInv, MainWork, ControlTypes
<1>4. IInv => SuccessMeansComplete
  BY <1>1, <1>2, <1>3 DEF SuccessMeansComplete
<1>. QED BY <1>4, Inductive, PTL

\* An input that is longer than announced is refused.
THEOREM TooLongRefused == Spec => []TooLongMeansError
<1>1. IInv => TooLongMeansError
  BY PipelineAssumption DEF IInv, TooLongMeansError, EndInv, BgInv,
     ControlTypes, Block
<1>. QED BY <1>1, Inductive, PTL

-----------------------------------------------------------------------------
(* Freedom from data races.                                                *)

LEMMA FieldsDiffer ==
  /\ \A f, g, i, j : Field(f, i) = Field(g, j) <=> f = g /\ i = j
  /\ \A f, i, j : f # "dict" => Field(f, i) # DictPart(j)
BY DEF Field, DictPart

\* The two threads touch the same memory only where the checksum is stored.
THEOREM RaceFree == Spec => []OnlyChecksumsRace
<1>. DEFINE Hash == {Field("hash", i) : i \in 0 .. BUFFERS - 1}
<1>1. ASSUME IInv, NEW x \in BgWrites, x \in MainReads \union MainWrites
      PROVE  x \in Hash
  <2>1. CASE bgPc = "read"
    <3>1. bgErr = "ok"
      BY <2>1, <1>1 DEF IInv, ErrorInv
    <3>2. x \in {Field("ptr", BgSlot), Field("len", BgSlot), DictPart(pos)}
      BY <1>1, <2>1 DEF BgWrites
    <3>3. CASE mainPc \in {"checkRead", "temp", "compress", "fill", "write"}
      <4>1. pos = origsize + 1 /\ k # BgSlot /\ origsize \in Nat /\ pos \in Nat
        BY <1>1, <2>1, <3>1, <3>3, WorkPositions, SlotFacts
           DEF IInv, BgSaves, ControlTypes
      <4>2. CASE mainPc = "temp"
        <5>1. DictPart(slot[k].ptr) = DictPart(origsize)
          BY <1>1, <4>1, <4>2, DictRange DEF IInv, MainInv, Loaded, DictPart
        <5>2. DictPart(origsize) # DictPart(pos)
          <6>1. origsize < pos /\ pos - origsize < DictBlocks
            BY <4>1, DictRange
          <6>. QED BY <4>1, <6>1, DictDistinct DEF DictPart
        <5>. QED BY <1>1, <3>2, <4>2, <5>1, <5>2, FieldsDiffer DEF MainReads,
                    MainWrites
      <4>3. CASE mainPc = "compress"
        <5>1. ASSUME x \in Lookback PROVE FALSE
          <6>1. PICK b \in 0 .. origsize : b >= origsize - Window /\ x = DictPart(b)
            BY <5>1 DEF Lookback
          <6>2. b \in Nat /\ b < pos /\ pos - b < DictBlocks
            BY <4>1, <6>1, PipelineAssumption DEF DictBlocks, BUFFERS
          <6>3. DictPart(b) # DictPart(pos)
            BY <4>1, <6>2, DictDistinct DEF DictPart
          <6>4. /\ DictPart(b) # Field("ptr", BgSlot)
                /\ DictPart(b) # Field("len", BgSlot)
            BY FieldsDiffer
          <6>. QED BY <3>2, <6>1, <6>3, <6>4
        <5>2. x \in {Field("idx", k), Field("stat", k)}
          BY <1>1, <4>3, <5>1 DEF MainReads, MainWrites
        <5>. QED BY <3>2, <5>2, FieldsDiffer
      <4>4. CASE mainPc \in {"checkRead", "fill", "write"}
        BY <1>1, <3>2, <4>1, <4>4, FieldsDiffer DEF MainReads, MainWrites
      <4>. QED BY <3>3, <4>2, <4>3, <4>4
    <3>4. CASE mainPc \notin {"checkRead", "temp", "compress", "fill", "write"}
      <4>1. x \in {Field("hdr", k), Field("hash", k), Field("stat", k)}
        BY <1>1, <3>4 DEF MainReads, MainWrites
      <4>. QED BY <3>2, <4>1, FieldsDiffer
    <3>. QED BY <3>3, <3>4
  <2>2. CASE bgPc = "prepare"
    <3>1. bgErr = "ok"
      BY <2>2, <1>1 DEF IInv, ErrorInv
    <3>2. x \in {Field("hash", BgSlot), Field("idx", BgSlot)}
      BY <1>1, <2>2 DEF BgWrites
    <3>3. Field("hash", BgSlot) \in Hash
      BY <1>1, SlotFacts DEF IInv, BUFFERS
    <3>4. ASSUME x = Field("idx", BgSlot) PROVE FALSE
      <4>1. mainPc = "compress" /\ k = BgSlot
        <5>1. x \notin Lookback /\ \A j : x # DictPart(j)
          BY <3>4, FieldsDiffer DEF Lookback
        <5>. QED BY <1>1, <3>4, <5>1, FieldsDiffer DEF MainReads, MainWrites
      <4>. QED BY <1>1, <2>2, <3>1, <4>1, WorkPositions, SlotFacts DEF IInv,
                  BgSaves
    <3>. QED BY <3>2, <3>3, <3>4
  <2>. QED BY <1>1, <2>1, <2>2 DEF BgWrites
<1>2. ASSUME IInv, NEW x \in MainWrites, x \in BgReads PROVE FALSE
  <2>1. mainPc \in {"compress", "fill", "write"}
        /\ x \in {Field("stat", k), Field("hdr", k), Field("size", k)}
    BY <1>2 DEF MainWrites
  <2>2. bgPc \in BgSaves /\ k = PrevSlot
    <3>1. \A j : x # DictPart(j)
      BY <2>1, FieldsDiffer
    <3>. QED BY <1>2, <2>1, <3>1, FieldsDiffer DEF BgReads, BgSaves
  <2>3. bgErr = "ok"
    BY <1>2, <2>2 DEF IInv, ErrorInv, BgSaves
  <2>. QED BY <1>2, <2>1, <2>2, <2>3, WorkPositions, SlotFacts DEF IInv,
              BgSaves, BgAhead
<1>3. IInv => OnlyChecksumsRace
  BY <1>1, <1>2 DEF OnlyChecksumsRace, Races
<1>. QED BY <1>3, Inductive, PTL

-----------------------------------------------------------------------------
(* The pipeline implements FirstPass.                                      *)

\* The mapped variables that a step may change
kept == [b \in DOMAIN blocks |-> blocks[b].stat]

LEMMA SameInput ==
  ASSUME UNCHANGED inputVars PROVE nblocks' = nblocks /\ Parts' = Parts
BY DEF inputVars, Parts

LEMMA SaveRefines ==
  ASSUME IInv, bgPc \in BgSaves, mainPc # "exit", UNCHANGED <<inputVars, mainVars>>,
         out' = Append(out, Promise!Item(Len(out) + 1))
  PROVE  Promise!WritePart
<1>1. Len(out) < nblocks * Len(Parts)
  <2>1. Len(Parts) = PartsPerBlock /\ PartsPerBlock \in {2, 3}
    BY DEF Parts, PartsPerBlock
  <2>2. PartsOfBlock \in 0 .. PartsPerBlock - 1
    BY DEF PartsOfBlock, PartsPerBlock
  <2>3. pos <= nblocks /\ nblocks \in Nat
    BY PipelineAssumption DEF IInv, BgInv, ControlTypes, Block
  <2>4. Len(out) = PartsPerBlock * (pos - 1) + PartsOfBlock /\ pos \in Nat
    BY SavedBlock
  <2>. QED BY <2>1, <2>2, <2>3, <2>4
<1>. QED
  BY <1>1, SameInput DEF Promise!WritePart, Promise!input, result

LEMMA StoreRefines == ASSUME IInv, MainStore PROVE Promise!KeepRecord
<1>. DEFINE R == [hdr : MaybeBlock, hash : MaybeBlock, stat : MaybeBlock]
            r == [hdr |-> slot[k].hdr, hash |-> slot[k].hash, stat |-> slot[k].stat]
<1>1. /\ blocks \in Seq(R) /\ Len(blocks) = origsize
      /\ origsize < nblocks /\ origsize \in Nat
  BY DEF IInv, DataTypes, ControlTypes, RecordInv, MainInv, MainStore, MainWork
<1>2. blocks' = Append(blocks, r) /\ r.stat = origsize
  BY DEF IInv, MainInv, MainStore
<1>. HIDE DEF r
<1>3. /\ DOMAIN blocks' = 1 .. origsize + 1 /\ DOMAIN blocks = 1 .. origsize
      /\ \A b \in 1 .. origsize : blocks'[b] = blocks[b]
      /\ blocks'[origsize + 1] = r
  BY <1>1, <1>2
<1>4. kept \in Seq(Int) /\ Len(kept) = origsize
  <2>1. \A b \in 1 .. origsize : blocks[b].stat \in Int
    BY <1>1, <1>3 DEF IInv, RecordInv, RecordsAreInOrder
  <2>. QED BY <1>1, <1>3, <2>1 DEF kept
<1>5. kept' = Append(kept, Len(kept))
  <2>. DEFINE s == Append(kept, Len(kept))
  <2>1. \A b \in 1 .. origsize + 1 :
          /\ kept'[b] = IF b = origsize + 1 THEN origsize ELSE kept[b]
          /\ kept'[b] \in Int
    <3>1. \A b \in 1 .. origsize : kept[b] \in Int
      BY <1>1, <1>4
    <3>. QED BY <1>1, <1>2, <1>3, <3>1 DEF kept
  <2>2. kept' \in Seq(Int) /\ Len(kept') = origsize + 1
    <3>1. kept' = [b \in 1 .. origsize + 1 |-> blocks'[b].stat]
      BY <1>3 DEF kept
    <3>2. kept' \in [1 .. origsize + 1 -> Int] /\ origsize + 1 \in Nat
      BY <1>1, <2>1, <3>1
    <3>. QED BY <3>2
  <2>3. /\ s \in Seq(Int) /\ Len(s) = origsize + 1
        /\ \A b \in 1 .. origsize + 1 :
             s[b] = IF b = origsize + 1 THEN origsize ELSE kept[b]
    <3>1. origsize \in Int /\ s = Append(kept, origsize)
      BY <1>1, <1>4
    <3>. HIDE DEF s
    <3>. QED BY <1>1, <1>4, <3>1
  <2>. HIDE DEF s
  <2>4. kept' = s
    BY <1>1, <2>1, <2>2, <2>3, SeqEqual
  <2>. QED BY <2>4 DEF s
<1>6. /\ result = "running"
      /\ result' = "running"
      /\ UNCHANGED <<nblocks, Parts, out>>
  BY SameInput DEF MainStore, result
<1>. QED
  BY <1>1, <1>4, <1>5, <1>6 DEF Promise!KeepRecord, Promise!input, kept

LEMMA ExitRefines ==
  ASSUME IInv, MainCleanup PROVE Promise!Succeed \/ Promise!Fail
<1>1. /\ result = "running" /\ result' = IF mainErr = "ok" THEN "ok" ELSE "failed"
      /\ UNCHANGED <<nblocks, Parts, out, blocks>>
  BY SameInput DEF MainCleanup, result
<1>2. CASE mainErr # "ok"
  BY <1>1, <1>2 DEF Promise!Fail, Promise!input
<1>3. CASE mainErr = "ok"
  <2>1. bgPc = "done" /\ bgErr = "ok" /\ pos = nblocks /\ origsize = nblocks
    BY <1>3 DEF IInv, EndInv, MainInv, MainEnds, BgInv, MainCleanup
  <2>2. nblocks \in Nat
    BY PipelineAssumption DEF IInv, ControlTypes, Block
  <2>3. Len(out) = IF mode = "future" THEN 0 ELSE nblocks * Len(Parts)
    <3>1. Len(out) = IF mode = "future" THEN 0 ELSE PartsPerBlock * nblocks
      BY <2>1, <2>2 DEF IInv, OutputInv, PartsSaved, BlocksSaved, PartsOfBlock,
         PartsPerBlock, BgAhead, BgSaves
    <3>2. Len(Parts) = PartsPerBlock /\ PartsPerBlock \in {2, 3}
      BY DEF Parts, PartsPerBlock
    <3>. QED BY <2>2, <3>1, <3>2
  <2>4. Len(blocks) = IF mode = "io" THEN 0 ELSE nblocks
    BY <2>1 DEF IInv, RecordInv
  <2>5. Len(kept) = Len(blocks)
    BY DEF IInv, DataTypes, kept
  <2>6. Len(out) + Len(kept) = 0 => nblocks = 0
    <3>1. Len(Parts) \in {2, 3}
      BY DEF Parts
    <3>2. nblocks * Len(Parts) \in Nat /\ (nblocks * Len(Parts) = 0 => nblocks = 0)
      <4>1. CASE Len(Parts) = 2
        BY <2>2, <4>1
      <4>2. CASE Len(Parts) = 3
        BY <2>2, <4>2
      <4>. QED BY <3>1, <4>1, <4>2
    <3>3. CASE mode = "future"
      BY <2>2, <2>3, <2>4, <2>5, <3>3
    <3>4. CASE mode # "future"
      BY <2>2, <2>3, <2>4, <2>5, <3>2, <3>4
    <3>. QED BY <3>3, <3>4
  <2>. QED
    BY <1>1, <1>3, <2>3, <2>4, <2>5, <2>6 DEF Promise!Succeed, Promise!input, kept
<1>. QED BY <1>2, <1>3

\* Two threads, two slots and three events do what one loop would do: every
\* step of the pipeline is a step of FirstPass or changes nothing in it.
THEOREM Refinement == Spec => ImplementsFirstPass
<1>1. Init => Promise!Init
  BY PipelineAssumption DEF Init, Promise!Init, Parts, result, Block
<1>2. ASSUME IInv, [Next]_vars
      PROVE  [Promise!Next]_(Promise!vars)
  <2>1. CASE BgSaveHeader
    <3>1. out' = Append(out, Promise!Item(Len(out) + 1))
      BY <1>2, <2>1, SavedBlock, NextPart DEF BgSaveHeader, BgSaves, Encoded
    <3>. QED BY <1>2, <2>1, <3>1, SaveRefines DEF BgSaveHeader, BgSaves,
                Promise!Next
  <2>2. CASE BgSaveStat
    <3>1. CASE mode = "index"
      BY <2>2, <3>1, SameInput DEF BgSaveStat, kept, result, Promise!vars,
         Promise!input
    <3>2. CASE mode # "index"
      <4>1. out' = Append(out, Promise!Item(Len(out) + 1))
        BY <1>2, <2>2, <3>2, SavedBlock, NextPart DEF BgSaveStat, BgSaves, Encoded
      <4>. QED BY <1>2, <2>2, <4>1, SaveRefines DEF BgSaveStat, BgSaves,
                  Promise!Next
    <3>. QED BY <3>1, <3>2
  <2>3. CASE BgSaveLiterals
    <3>1. out' = Append(out, Promise!Item(Len(out) + 1))
      BY <1>2, <2>3, SavedBlock, NextPart DEF BgSaveLiterals, BgSaves, Loaded
    <3>. QED BY <1>2, <2>3, <3>1, SaveRefines DEF BgSaveLiterals, BgSaves,
                Promise!Next
  <2>4. CASE MainStore
    BY <1>2, <2>4, StoreRefines DEF Promise!Next
  <2>5. CASE MainCleanup
    BY <1>2, <2>5, ExitRefines DEF Promise!Next
  <2>6. CASE BgNext /\ ~BgSaveHeader /\ ~BgSaveStat /\ ~BgSaveLiterals
    <3>1. UNCHANGED <<inputVars, mainPc, mainErr, blocks, out>>
      BY <2>6 DEF BgNext, BgRead, BgTooLong, BgSizeOk, BgGiveUp, BgPrepare,
         BgWaitWrite,
         BgSignalRead, BgWriteFails, BgAdvance, BgFinish
    <3>. QED BY <3>1, SameInput DEF kept, result, Promise!vars, Promise!input
  <2>7. CASE MainNext /\ ~MainStore /\ ~MainCleanup
    <3>1. /\ UNCHANGED <<inputVars, blocks, out>>
          /\ mainPc # "exit"
          /\ mainPc' # "exit"
      BY <2>7 DEF MainNext, MainRead, MainSeesError, MainCheckRead, MainTempWrite,
         MainTempFails, MainCompress, MainFillHeader, MainWrite, MainCheckWrite,
         MainWait, MainCheckEnd, MainDestroy
    <3>. QED BY <3>1, SameInput DEF kept, result, Promise!vars, Promise!input
  <2>8. CASE UNCHANGED vars
    BY <2>8, SameInput DEF vars, kept, result, Promise!vars, Promise!input
  <2>. QED
    BY <1>2, <2>1, <2>2, <2>3, <2>4, <2>5, <2>6, <2>7, <2>8 DEF Next
<1>. QED
  BY <1>1, <1>2, Inductive, PTL
     DEF Spec, ImplementsFirstPass, Promise!Spec
=============================================================================
