---------------------------- MODULE PendingIndex ----------------------------
(***************************************************************************)
(* The pending index of the escrow: a dense array of question ids with the *)
(* position of every id beside it, so that a settlement can remove its id  *)
(* in O(1) by moving the last id into the freed slot.  The three storage   *)
(* families are DataKey::PendingCount, DataKey::PendingAt(slot) and        *)
(* DataKey::PendingPos(id).  A key that is not in storage is outside the   *)
(* DOMAIN of the function that models its family.                          *)
(***************************************************************************)
EXTENDS Integers, Storage

CONSTANT Ids            \* question ids

VARIABLES
  pendingCount,         \* PendingCount: number of slots in use
  pendingAt,            \* PendingAt(slot): the id in a slot
  pendingPos            \* PendingPos(id): the slot of an id

indexVars == <<pendingCount, pendingAt, pendingPos>>

IndexInit ==
  /\ pendingCount = 0
  /\ pendingAt = NoEntries
  /\ pendingPos = NoEntries

\* index_add(): appends the id.  The function itself has no guard; its three
\* callers check that the id is not open (see Next below).
IndexAdd(q) ==
  /\ pendingAt' = Put(pendingAt, pendingCount, q)
  /\ pendingPos' = Put(pendingPos, q, pendingCount)
  /\ pendingCount' = pendingCount + 1

\* Fault: the moved id keeps the position of the slot it left.
SwapRemoveStalePos(q) ==
  LET last == pendingCount - 1
  IN /\ pendingAt' = Without([pendingAt EXCEPT ![pendingPos[q]] = pendingAt[last]], last)
     /\ pendingPos' = Without(pendingPos, q)
     /\ pendingCount' = last

\* index_remove() of an id that has a position: the id in the last slot moves
\* into the freed slot.  When the id is itself the last one, the move is
\* undone by the two removals.
SwapRemove(q) ==
  LET pos    == pendingPos[q]
      last   == pendingCount - 1
      lastId == pendingAt[last]
  IN /\ pendingAt' = Without([pendingAt EXCEPT ![pos] = lastId], last)
     /\ pendingPos' = Without([pendingPos EXCEPT ![lastId] = pos], q)
     /\ pendingCount' = last

\* index_remove(): an id without a position is an early return.
IndexRemove(q) ==
  IF q \in DOMAIN pendingPos THEN SwapRemove(q) ELSE UNCHANGED indexVars

-----------------------------------------------------------------------------
(* The index on its own, under the contract its callers keep: an id is     *)
(* added only when it is not in the index.                                 *)

\* Fault: an id that is already listed is appended again.
IndexNextUnguarded == \E q \in Ids : IndexAdd(q) \/ IndexRemove(q)

IndexNext ==
  \E q \in Ids : \/ q \notin DOMAIN pendingPos /\ IndexAdd(q)
                 \/ IndexRemove(q)

IndexSpec == IndexInit /\ [][IndexNext]_indexVars

\* Slots and positions have the types the storage keys declare.
IndexTypeOK ==
  /\ pendingCount \in Nat
  /\ DOMAIN pendingAt \subseteq Nat
  /\ DOMAIN pendingPos \subseteq Ids
  /\ \A i \in DOMAIN pendingAt : pendingAt[i] \in Ids
  /\ \A q \in DOMAIN pendingPos : pendingPos[q] \in Nat

\* The array is dense and the two maps are inverse: no id is listed twice, no
\* slot is a hole, and every id is found where PendingPos says it is.  A
\* removal that forgets to repoint the moved id breaks this two removals later.
IndexConsistent ==
  /\ DOMAIN pendingAt = 0 .. pendingCount - 1
  /\ \A i \in DOMAIN pendingAt :
        pendingAt[i] \in DOMAIN pendingPos /\ pendingPos[pendingAt[i]] = i
  /\ \A q \in DOMAIN pendingPos :
        pendingPos[q] \in DOMAIN pendingAt /\ pendingAt[pendingPos[q]] = q

\* An id that stays listed never moves to a later slot, so paging from slot 0
\* over a contract that is still settling can skip an id (list_pending() says
\* so) but never returns one twice.
NeverMovesBack ==
  [][\A q \in DOMAIN pendingPos \cap DOMAIN pendingPos' :
        pendingPos'[q] <= pendingPos[q]]_indexVars

\* The index implements the set of open ids: the ids that have a position and
\* the ids that a scan of the slots finds change in step, by exactly the id
\* that a call names.
Listed == Range(pendingAt)
OpenIds == INSTANCE OpenSet WITH open <- DOMAIN pendingPos, paged <- Listed
IndexImplementsSet == OpenIds!Spec
=============================================================================
