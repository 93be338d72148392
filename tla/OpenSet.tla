------------------------------ MODULE OpenSet ------------------------------
(***************************************************************************)
(* What the pending index of the escrow promises to the code that uses it  *)
(* (index_add, index_remove, list_pending in src/lib.rs): it is a set of   *)
(* question ids, whichever way one looks.  An id that is looked up and the *)
(* ids found by paging through the list give the same answer after every   *)
(* call: an id is added once, stays until it is removed, and the removal   *)
(* of one id never loses or duplicates another.                            *)
(***************************************************************************)
CONSTANT Ids

VARIABLES
  open,     \* the ids a lookup by id finds
  paged     \* the ids that paging finds

Init == open = {} /\ paged = {}

\* An id that is not listed becomes listed.
Add(q) ==
  /\ q \notin open
  /\ open' = open \cup {q}
  /\ paged' = paged \cup {q}

\* An id leaves the index; removing an absent id changes nothing.
Remove(q) ==
  /\ open' = open \ {q}
  /\ paged' = paged \ {q}

Next == \E q \in Ids : Add(q) \/ Remove(q)

Spec == Init /\ [][Next]_<<open, paged>>
=============================================================================
