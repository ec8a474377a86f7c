----------------------------- MODULE MatchQueue -----------------------------
(***************************************************************************)
(* What the Future-LZ decoder needs of its heap of matches: matches come   *)
(* in any order and are taken in the order of their destinations.          *)
(***************************************************************************)
EXTENDS Integers

CONSTANT Matches   \* records with a field dest

VARIABLES
  pending,   \* matches not taken yet
  taken      \* destination of the last match that was

\* Matches with destinations of their own are added
Insert == /\ pending \subseteq pending'
          /\ \A m \in pending' \ pending : m \in Matches /\ m.dest > taken
          /\ \A m \in pending' \ pending, n \in pending' : m.dest = n.dest => m = n
          /\ UNCHANGED taken

Take == \E m \in pending :
          /\ \A n \in pending : m.dest <= n.dest
          /\ taken' = m.dest
          /\ pending' = pending \ {m}

Init == pending = {} /\ taken = 0
Next == Insert \/ Take
Spec == Init /\ [][Next]_<<pending, taken>>
=============================================================================
