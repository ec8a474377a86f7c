----------------------------- MODULE ChunkStore -----------------------------
(***************************************************************************)
(* What MEMORY_MANAGER promises: areas of bytes that are kept under a      *)
(* handle until they are freed.  Which handle an area gets is left open,   *)
(* but it is not the one of another area.                                  *)
(***************************************************************************)
CONSTANTS
  Handles,   \* what save() may return
  Contents   \* what may be saved

VARIABLES
  store,     \* contents of the area of each handle in use
  answer     \* what the last restore() copied

Save == \E h \in Handles \ DOMAIN store, c \in Contents :
          /\ store' = [g \in DOMAIN store \union {h} |->
                         IF g = h THEN c ELSE store[g]]
          /\ UNCHANGED answer

Restore == \E h \in DOMAIN store :
             /\ answer' = store[h]
             /\ UNCHANGED store

Free == \E h \in DOMAIN store :
          /\ store' = [g \in DOMAIN store \ {h} |-> store[g]]
          /\ UNCHANGED answer

Nothing == [x \in {} |-> x]

Init == store = Nothing /\ answer = Nothing
Next == Save \/ Restore \/ Free
Spec == Init /\ [][Next]_<<store, answer>>
=============================================================================
