-------------------------------- MODULE Fifo --------------------------------
(***************************************************************************)
(* What SyncQueue promises its callers: objects come out in the order in   *)
(* which they went in, each of them once, to whichever thread asks first.  *)
(***************************************************************************)
EXTENDS Naturals, Sequences

CONSTANTS Getters,   \* threads that take objects
          Objects,   \* what is put into the queue
          Capacity   \* objects the queue may hold

VARIABLES queue,     \* the objects in the queue
          last       \* the object each getter took last, 0 at the beginning

vars == <<queue, last>>

Init == queue = <<>> /\ last = [g \in Getters |-> 0]

Put ==
  /\ Len(queue) < Capacity
  /\ \E o \in Objects : queue' = Append(queue, o)
  /\ UNCHANGED last

Get(g) ==
  /\ queue # <<>>
  /\ queue' = Tail(queue)
  /\ last' = [last EXCEPT ![g] = Head(queue)]

Next == Put \/ \E g \in Getters : Get(g)

Spec == Init /\ [][Next]_vars
=============================================================================
