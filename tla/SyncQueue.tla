------------------------------ MODULE SyncQueue ------------------------------
(***************************************************************************)
(* SyncQueue of MultiThreading.h: a ring buffer under a mutex, and a       *)
(* manual-reset event that getters wait for outside of the mutex.  One     *)
(* action per operation on the event, so a Wait can fall between any two.  *)
(***************************************************************************)
EXTENDS Naturals, Sequences, FiniteSets

CONSTANTS
  Putters, Getters,  \* threads calling Put and threads calling Get
  Free,              \* the value of mutex when no thread holds it
  MaxElements,       \* argument of SetSize
  MaxPuts            \* bound: number of objects put

ASSUME QueueAssumption ==
  /\ MaxElements \in Nat \ {0} /\ MaxPuts \in Nat
  /\ IsFiniteSet(Putters)
  /\ Putters \intersect Getters = {}
  /\ Free \notin Putters \union Getters

Threads == Putters \union Getters

VARIABLES
  mutex,        \* the thread inside of the critical section, or Free
  ObjectAdded,  \* state of the manual-reset event
  a,            \* the array of objects
  head, tail,   \* indices of queue head and tail
  qpc,          \* where each thread is
  tmp,          \* Get: index of the object to return
  object,       \* Put: its argument; Get: the value it returned last
  puts,         \* objects put so far: the objects are 1, 2, 3, ...
  outstanding   \* objects the clients put, or are putting, and did not get

ring == <<a, head, tail>>
queueVars == <<mutex, ObjectAdded, ring, qpc, tmp, object, puts, outstanding>>

\* SetSize: +1 distinguishes a full queue from an empty one
size == MaxElements + 1

ObjectsInQueue == (tail + size - head) % size

\* Leave the critical section and go on at l
Leave(t, l)  == mutex' = Free /\ qpc' = [qpc EXCEPT ![t] = l]
QGoto(t, l)  == qpc' = [qpc EXCEPT ![t] = l]

Enter(t, l) ==
  /\ mutex = Free
  /\ mutex' = t
  /\ qpc' = [qpc EXCEPT ![t] = l]

-----------------------------------------------------------------------------
\* Put(o) is called; its clients never put excessive elements
PutCall(p) ==
  /\ qpc[p] = "idle" /\ puts < MaxPuts
  /\ outstanding < MaxElements
  /\ puts' = puts + 1 /\ outstanding' = outstanding + 1
  /\ object' = [object EXCEPT ![p] = puts + 1]
  /\ QGoto(p, "putLock")
  /\ UNCHANGED <<mutex, ObjectAdded, ring, tmp>>

PutLock(p) ==
  /\ qpc[p] = "putLock"
  /\ Enter(p, "signal")
  /\ UNCHANGED <<ObjectAdded, ring, tmp, object, puts, outstanding>>

\* Mutant: signals only while there is something in the queue already
SignalWhenFilled(p) ==
  /\ qpc[p] = "signal"
  /\ ObjectAdded' = IF ObjectsInQueue # 0 THEN TRUE ELSE ObjectAdded
  /\ QGoto(p, "store")
  /\ UNCHANGED <<mutex, ring, tmp, object, puts, outstanding>>

PutSignal(p) ==
  /\ qpc[p] = "signal"
  /\ ObjectAdded' = IF ObjectsInQueue = 0 THEN TRUE ELSE ObjectAdded
  /\ QGoto(p, "store")
  /\ UNCHANGED <<mutex, ring, tmp, object, puts, outstanding>>

PutStore(p) ==
  /\ qpc[p] = "store"
  /\ a' = [a EXCEPT ![tail] = object[p]]
  /\ tail' = (tail + 1) % size
  /\ Leave(p, "idle")
  /\ UNCHANGED <<ObjectAdded, head, tmp, object, puts, outstanding>>

-----------------------------------------------------------------------------
GetLock(g) ==
  /\ qpc[g] = "getLock"
  /\ Enter(g, "look")
  /\ UNCHANGED <<ObjectAdded, ring, tmp, object, puts, outstanding>>

\* Mutant: takes an object without looking whether there is one
TakeAlways(g) ==
  /\ qpc[g] = "look"
  /\ tmp' = [tmp EXCEPT ![g] = head]
  /\ head' = (head + 1) % size
  /\ QGoto(g, "reset")
  /\ UNCHANGED <<mutex, ObjectAdded, a, tail, object, puts, outstanding>>

\* There is an object: take it off the head
GetTake(g) ==
  /\ qpc[g] = "look"
  /\ ObjectsInQueue > 0
  /\ tmp' = [tmp EXCEPT ![g] = head]
  /\ head' = (head + 1) % size
  /\ QGoto(g, "reset")
  /\ UNCHANGED <<mutex, ObjectAdded, a, tail, object, puts, outstanding>>

\* There is none: leave the critical section and sleep
GetMiss(g) ==
  /\ qpc[g] = "look"
  /\ ObjectsInQueue = 0
  /\ Leave(g, "wait")
  /\ UNCHANGED <<ObjectAdded, ring, tmp, object, puts, outstanding>>

\* Mutant: resets the event although there are objects left
ResetAlways(g) ==
  /\ qpc[g] = "reset"
  /\ ObjectAdded' = FALSE
  /\ object' = [object EXCEPT ![g] = a[tmp[g]]]
  /\ outstanding' = outstanding - 1
  /\ Leave(g, "getLock")
  /\ UNCHANGED <<ring, tmp, puts>>

\* Reset the event if the queue is empty now; return a[tmp] to the caller,
\* which calls Get again
GetReset(g) ==
  /\ qpc[g] = "reset"
  /\ ObjectAdded' = IF ObjectsInQueue = 0 THEN FALSE ELSE ObjectAdded
  /\ object' = [object EXCEPT ![g] = a[tmp[g]]]
  /\ outstanding' = outstanding - 1
  /\ Leave(g, "getLock")
  /\ UNCHANGED <<ring, tmp, puts>>

\* ObjectAdded.Wait(), and around the loop
GetSleep(g) ==
  /\ qpc[g] = "wait"
  /\ ObjectAdded
  /\ QGoto(g, "getLock")
  /\ UNCHANGED <<mutex, ObjectAdded, ring, tmp, object, puts, outstanding>>

-----------------------------------------------------------------------------
QueueInit ==
  /\ mutex = Free /\ ObjectAdded = FALSE
  /\ a = [i \in 0 .. size - 1 |-> 0] /\ head = 0 /\ tail = 0
  /\ qpc = [t \in Threads |-> IF t \in Putters THEN "idle" ELSE "getLock"]
  /\ tmp = [g \in Getters |-> 0]
  /\ object = [t \in Threads |-> 0]
  /\ puts = 0 /\ outstanding = 0

PutNext(p) == PutCall(p) \/ PutLock(p) \/ PutSignal(p) \/ PutStore(p)
GetNext(g) ==
  GetLock(g) \/ GetTake(g) \/ GetMiss(g) \/ GetReset(g) \/ GetSleep(g)

QueueNext == (\E p \in Putters : PutNext(p)) \/ (\E g \in Getters : GetNext(g))

QueueSpec == QueueInit /\ [][QueueNext]_queueVars

\* Every thread inside of Put or Get goes on
QueueFairness ==
  /\ \A p \in Putters : WF_queueVars(PutNext(p))
  /\ \A g \in Getters : WF_queueVars(GetNext(g))

QueueFairSpec == QueueSpec /\ QueueFairness

-----------------------------------------------------------------------------
\* The ring read from head to tail
Contents == [n \in 1 .. ObjectsInQueue |-> a[(head + n - 1) % size]]

\* An object is delivered when it is taken off the head, though a[tmp] is read
\* later
Delivered ==
  [g \in Getters |-> IF qpc[g] = "reset" THEN a[tmp[g]] ELSE object[g]]

FifoPromise == INSTANCE Fifo WITH
  Objects <- 1 .. MaxPuts, Capacity <- MaxElements,
  queue <- Contents, last <- Delivered

\* Ring, mutex and event together are a first-in first-out queue.
ImplementsFifo == FifoPromise!Spec

-----------------------------------------------------------------------------
\* Outside of the critical section the event is set exactly when there is an
\* object: a getter that waits for it never misses one, nor spins on none.
EventMeansObject == mutex = Free => (ObjectAdded <=> ObjectsInQueue > 0)

\* The ring holds what was put and not taken: with one element to spare, "full"
\* is never mistaken for "empty".
ObjectsCounted ==
  mutex = Free =>
    ObjectsInQueue = outstanding - Cardinality({p \in Putters : qpc[p] = "putLock"})

\* What the threads find whenever they enter the critical section.
QueueInvariant == EventMeansObject /\ ObjectsCounted

\* No object stays in the queue for ever: every waiting getter is woken.
EveryObjectIsTaken ==
  \A n \in 1 .. MaxPuts :
    (\E i \in DOMAIN Contents : Contents[i] = n)
      ~> (\E g \in Getters : Delivered[g] = n)
=============================================================================
