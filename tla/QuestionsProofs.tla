-------------------------- MODULE QuestionsProofs --------------------------
(***************************************************************************)
(* For any sets of ids, accounts, assets, amounts, verdicts, windows and   *)
(* timeouts: the pending index lists exactly the open questions, the       *)
(* records of a review exist exactly while the review lasts, the health    *)
(* counters are exact, and every question keeps the promise made to its    *)
(* payer.  The inductive invariant is the conjunction of all four with the *)
(* types: a settlement removes from the index because the question is      *)
(* open, the open count cannot be driven below zero because the index      *)
(* counts the same questions, and a reopened id has no record of an old    *)
(* review because the review ended with its status.  That the questions    *)
(* that moved away are finitely many is part of it: the counters count     *)
(* them.  The index comes first, on its own.                               *)
(***************************************************************************)
EXTENDS Questions, FiniteSetTheorems, TLAPS

-----------------------------------------------------------------------------
(* The index on its own is consistent after any sequence of additions and  *)
(* removals of any set of ids, and implements the set of open ids.  Its    *)
(* invariant joins types and consistency: neither is inductive alone,      *)
(* because a removal reads the last slot through the count and writes      *)
(* positions through the array.                                            *)

IndexInv == IndexTypeOK /\ IndexConsistent

-----------------------------------------------------------------------------
(* What a removal does to the slots, stated once for the three theorems.   *)

\* An addition of an unlisted id keeps the index consistent and appends it.
LEMMA IndexAddKeepsInv ==
  ASSUME IndexInv, NEW q \in Ids, q \notin DOMAIN pendingPos, IndexAdd(q)
  PROVE  IndexInv'
<1> USE DEF IndexInv, IndexTypeOK, IndexConsistent
<1>1. /\ DOMAIN pendingAt' = 0 .. pendingCount
      /\ pendingAt'[pendingCount] = q
      /\ \A i \in DOMAIN pendingAt : i # pendingCount /\ pendingAt'[i] = pendingAt[i]
  BY DEF IndexAdd, Put
<1>2. /\ DOMAIN pendingPos' = DOMAIN pendingPos \cup {q}
      /\ pendingPos'[q] = pendingCount
      /\ \A p \in DOMAIN pendingPos : pendingPos'[p] = pendingPos[p]
  BY DEF IndexAdd, Put
<1>3. pendingCount' = pendingCount + 1
  BY DEF IndexAdd
<1>4. QED  BY <1>1, <1>2, <1>3

\* A removal of a listed id, slot by slot and position by position: the last
\* id takes the freed slot, every other id keeps its own.
LEMMA SwapRemoveEffect ==
  ASSUME IndexInv, NEW q \in DOMAIN pendingPos, SwapRemove(q)
  PROVE  LET pos == pendingPos[q]  last == pendingCount - 1  IN
         /\ pendingCount \in Nat \ {0}
         /\ pos \in 0 .. last
         /\ pendingCount' = last
         /\ DOMAIN pendingAt' = 0 .. last - 1
         /\ \A i \in DOMAIN pendingAt' :
               pendingAt'[i] = IF i = pos THEN pendingAt[last] ELSE pendingAt[i]
         /\ DOMAIN pendingPos' = DOMAIN pendingPos \ {q}
         /\ \A p \in DOMAIN pendingPos' :
               pendingPos'[p] = IF p = pendingAt[last] THEN pos ELSE pendingPos[p]
<1> USE DEF IndexInv, IndexTypeOK, IndexConsistent
<1>1. pendingPos[q] \in 0 .. pendingCount - 1 /\ pendingCount \in Nat \ {0}
  OBVIOUS
<1>2. QED  BY <1>1 DEF SwapRemove, Without, Restrict

\* So a removal keeps the index consistent.
LEMMA SwapRemoveKeepsInv ==
  ASSUME IndexInv, NEW q \in DOMAIN pendingPos, SwapRemove(q)
  PROVE  IndexInv'
<1> DEFINE pos == pendingPos[q]
           last == pendingCount - 1
<1> USE DEF IndexInv, IndexTypeOK, IndexConsistent
<1>1. /\ pendingCount \in Nat \ {0}
      /\ pos \in 0 .. last
      /\ pendingCount' = last
      /\ DOMAIN pendingAt' = 0 .. last - 1
      /\ \A i \in DOMAIN pendingAt' :
            pendingAt'[i] = IF i = pos THEN pendingAt[last] ELSE pendingAt[i]
      /\ DOMAIN pendingPos' = DOMAIN pendingPos \ {q}
      /\ \A p \in DOMAIN pendingPos' :
            pendingPos'[p] = IF p = pendingAt[last] THEN pos ELSE pendingPos[p]
  BY SwapRemoveEffect
<1>2. IndexTypeOK'
  BY <1>1
<1>3. ASSUME NEW i \in DOMAIN pendingAt'
      PROVE  pendingAt'[i] \in DOMAIN pendingPos' /\ pendingPos'[pendingAt'[i]] = i
  <2>1. CASE i = pos
    BY <1>1, <2>1
  <2>2. CASE i # pos
    BY <1>1, <2>2
  <2>3. QED  BY <2>1, <2>2
<1>4. ASSUME NEW p \in DOMAIN pendingPos'
      PROVE  pendingPos'[p] \in DOMAIN pendingAt' /\ pendingAt'[pendingPos'[p]] = p
  <2>1. CASE p = pendingAt[last]
    BY <1>1, <2>1
  <2>2. CASE p # pendingAt[last]
    BY <1>1, <2>2
  <2>3. QED  BY <2>1, <2>2
<1>5. QED  BY <1>1, <1>2, <1>3, <1>4

\* The effect of a step on the set of listed ids: an addition adds its id, a
\* removal removes its id and nothing else.
LEMMA IndexAddLists ==
  ASSUME IndexInv, NEW q \in Ids, q \notin DOMAIN pendingPos, IndexAdd(q)
  PROVE  q \notin Listed /\ Listed' = Listed \cup {q}
<1> USE DEF IndexInv, IndexTypeOK, IndexConsistent, Listed, Range
<1>1. /\ DOMAIN pendingAt' = DOMAIN pendingAt \cup {pendingCount}
      /\ pendingCount \notin DOMAIN pendingAt
      /\ pendingAt'[pendingCount] = q
      /\ \A i \in DOMAIN pendingAt : pendingAt'[i] = pendingAt[i]
  BY DEF IndexAdd, Put
<1>2. QED  BY <1>1

\* A removal takes the id, and no other, off the slots.
LEMMA IndexRemoveUnlists ==
  ASSUME IndexInv, NEW q \in Ids, IndexRemove(q)
  PROVE  Listed' = Listed \ {q}
<1> USE DEF IndexInv, IndexTypeOK, IndexConsistent
<1>1. CASE q \notin DOMAIN pendingPos
  BY <1>1 DEF IndexRemove, indexVars, Listed, Range
<1>2. CASE q \in DOMAIN pendingPos
  <2>1. SwapRemove(q)
    BY <1>2 DEF IndexRemove
  <2>2. IndexInv'
    BY <1>2, <2>1, SwapRemoveKeepsInv
  <2>3. DOMAIN pendingPos' = DOMAIN pendingPos \ {q}
    BY <1>2, <2>1, SwapRemoveEffect
  <2>4. Listed = DOMAIN pendingPos
    <3>1. /\ \A i \in DOMAIN pendingAt : pendingAt[i] \in DOMAIN pendingPos
          /\ \A p \in DOMAIN pendingPos :
               pendingPos[p] \in DOMAIN pendingAt /\ pendingAt[pendingPos[p]] = p
      OBVIOUS
    <3>2. QED  BY ONLY <3>1 DEF Listed, Range
  <2>5. Listed' = DOMAIN pendingPos'
    <3>1. \A i \in DOMAIN pendingAt' : pendingAt'[i] \in DOMAIN pendingPos'
      BY <2>2
    <3>2. \A p \in DOMAIN pendingPos' :
             pendingPos'[p] \in DOMAIN pendingAt' /\ pendingAt'[pendingPos'[p]] = p
      BY <2>2
    <3>3. Listed' = {pendingAt'[i] : i \in DOMAIN pendingAt'}
      BY DEF Listed, Range
    <3>4. ASSUME NEW p \in DOMAIN pendingPos'
          PROVE  p \in Listed'
      <4>1. p = pendingAt'[pendingPos'[p]] /\ pendingPos'[p] \in DOMAIN pendingAt'
        BY <3>2
      <4>2. QED  BY ONLY <4>1, <3>3, Zenon
    <3>5. ASSUME NEW p \in Listed'
          PROVE  p \in DOMAIN pendingPos'
      BY <3>1, <3>3
    <3>6. QED  BY <3>4, <3>5
  <2>6. QED  BY <2>3, <2>4, <2>5
<1>3. QED  BY <1>1, <1>2

-----------------------------------------------------------------------------
(* The theorems about the index on its own.                                *)

\* Every step of the index keeps the inductive invariant.
LEMMA IndexStepKeepsInv ==
  ASSUME IndexInv, [IndexNext]_indexVars
  PROVE  IndexInv'
<1>1. CASE UNCHANGED indexVars
  BY <1>1 DEF IndexInv, IndexTypeOK, IndexConsistent, indexVars
<1>2. ASSUME NEW q \in Ids, q \notin DOMAIN pendingPos, IndexAdd(q)
      PROVE  IndexInv'
  BY <1>2, IndexAddKeepsInv
<1>3. ASSUME NEW q \in Ids, IndexRemove(q)
      PROVE  IndexInv'
  <2>1. CASE q \in DOMAIN pendingPos
    BY <1>3, <2>1, SwapRemoveKeepsInv DEF IndexRemove
  <2>2. CASE q \notin DOMAIN pendingPos
    BY <1>3, <2>2 DEF IndexRemove, IndexInv, IndexTypeOK, IndexConsistent, indexVars
  <2>3. QED  BY <2>1, <2>2
<1>4. QED  BY <1>1, <1>2, <1>3 DEF IndexNext

\* After any sequence of index_add() and index_remove() calls the slots and
\* positions are well typed, the array is dense and the two maps are inverse.
THEOREM IndexIsConsistent == IndexSpec => [](IndexTypeOK /\ IndexConsistent)
<1>1. IndexInit => IndexInv
  BY DEF IndexInit, IndexInv, IndexTypeOK, IndexConsistent, NoEntries
<1>2. IndexInv /\ [IndexNext]_indexVars => IndexInv'
  BY IndexStepKeepsInv
<1>3. QED  BY <1>1, <1>2, PTL DEF IndexSpec, IndexInv

\* No call moves an id that stays listed to a later slot.
THEOREM IndexNeverMovesBack == IndexSpec => NeverMovesBack
<1>1. ASSUME IndexInv, [IndexNext]_indexVars
      PROVE  [\A q \in DOMAIN pendingPos \cap DOMAIN pendingPos' :
                 pendingPos'[q] <= pendingPos[q]]_indexVars
  <2> USE DEF IndexInv, IndexTypeOK, IndexConsistent
  <2>1. ASSUME NEW p \in Ids, p \notin DOMAIN pendingPos, IndexAdd(p),
               NEW q \in DOMAIN pendingPos \cap DOMAIN pendingPos'
        PROVE  pendingPos'[q] <= pendingPos[q]
    BY <1>1, <2>1 DEF IndexAdd, Put
  <2>2. ASSUME NEW p \in DOMAIN pendingPos, SwapRemove(p),
               NEW q \in DOMAIN pendingPos \cap DOMAIN pendingPos'
        PROVE  pendingPos'[q] <= pendingPos[q]
    <3>1. /\ pendingPos'[q] = IF q = pendingAt[pendingCount - 1]
                                THEN pendingPos[p] ELSE pendingPos[q]
          /\ pendingPos[p] \in 0 .. pendingCount - 1
          /\ pendingCount \in Nat \ {0}
      BY <1>1, <2>2, SwapRemoveEffect
    <3>2. CASE q = pendingAt[pendingCount - 1]
      BY <1>1, <3>1, <3>2
    <3>3. CASE q # pendingAt[pendingCount - 1]
      BY <1>1, <3>1, <3>3
    <3>4. QED  BY <3>2, <3>3
  <2>3. QED
    BY <1>1, <2>1, <2>2 DEF IndexNext, IndexRemove
<1>2. QED
  BY <1>1, IndexIsConsistent, PTL DEF IndexSpec, NeverMovesBack, IndexInv

\* The index implements the set of open ids: scanning the slots, like looking
\* up a position, finds exactly the ids that were added and not removed since.
THEOREM IndexRefinesOpenSet == IndexSpec => IndexImplementsSet
<1>1. IndexInit => OpenIds!Init
  BY DEF IndexInit, OpenIds!Init, Listed, Range, NoEntries
<1>2. ASSUME IndexInv, [IndexNext]_indexVars
      PROVE  [OpenIds!Next]_<<DOMAIN pendingPos, Listed>>
  <2>1. CASE UNCHANGED indexVars
    BY <2>1 DEF indexVars, Listed, Range
  <2>2. ASSUME NEW q \in Ids, q \notin DOMAIN pendingPos, IndexAdd(q)
        PROVE  OpenIds!Next
    <3>1. DOMAIN pendingPos' = DOMAIN pendingPos \cup {q}
      BY <2>2 DEF IndexAdd, Put
    <3>2. QED  BY <1>2, <2>2, <3>1, IndexAddLists DEF OpenIds!Next, OpenIds!Add
  <2>3. ASSUME NEW q \in Ids, IndexRemove(q)
        PROVE  OpenIds!Next
    <3>1. DOMAIN pendingPos' = DOMAIN pendingPos \ {q}
      <4>1. CASE q \in DOMAIN pendingPos
        BY <1>2, <2>3, <4>1, SwapRemoveEffect DEF IndexRemove
      <4>2. CASE q \notin DOMAIN pendingPos
        BY <2>3, <4>2 DEF IndexRemove, indexVars
      <4>3. QED  BY <4>1, <4>2
    <3>2. QED  BY <1>2, <2>3, <3>1, IndexRemoveUnlists DEF OpenIds!Next, OpenIds!Remove
  <2>4. QED  BY <1>2, <2>1, <2>2, <2>3 DEF IndexNext
<1>3. QED
  BY <1>1, <1>2, IndexIsConsistent, PTL
     DEF IndexSpec, IndexImplementsSet, OpenIds!Spec, IndexInv

-----------------------------------------------------------------------------
(* The lifecycle.                                                          *)

QuestionsInv ==
  /\ QuestionsTypeOK
  /\ OpenAreListed
  /\ ReviewRecordsMatch
  /\ CountersExact
  /\ IsFiniteSet(WithStatus("Migrated"))

\* The statuses settle_question() is called with.
FinalStatuses == {"Resolved", "Refunded", "Migrated"}

-----------------------------------------------------------------------------
(* What the index and the counters do in a call.                           *)

\* index_add() of an id that is not listed.
LEMMA IndexAddEffect ==
  ASSUME IndexInv, NEW q \in Ids, q \notin DOMAIN pendingPos, IndexAdd(q)
  PROVE  /\ IndexInv'
         /\ DOMAIN pendingPos' = DOMAIN pendingPos \cup {q}
         /\ pendingCount' = pendingCount + 1
<1>1. IndexInv'
  BY IndexAddKeepsInv
<1>2. QED  BY <1>1 DEF IndexAdd, Put

\* index_remove() of a listed id.
LEMMA IndexRemoveEffect ==
  ASSUME IndexInv, NEW q \in DOMAIN pendingPos, IndexRemove(q)
  PROVE  /\ IndexInv'
         /\ DOMAIN pendingPos' = DOMAIN pendingPos \ {q}
         /\ pendingCount' = pendingCount - 1
         /\ pendingCount \in Nat \ {0}
<1>1. SwapRemove(q)
  BY DEF IndexRemove
<1>2. IndexInv'
  BY <1>1, SwapRemoveKeepsInv
<1>3. QED  BY <1>1, <1>2, SwapRemoveEffect

\* bump_counter() for an opening, field by field.
LEMMA CountOpenedEffect ==
  ASSUME counters \in CounterType, CountOpened
  PROVE  /\ counters' \in CounterType
         /\ counters'.open = counters.open + 1
         /\ counters'.opened = counters.opened + 1
         /\ counters'.resolved = counters.resolved
         /\ counters'.refunded = counters.refunded
<1>1. counters' = [open |-> counters.open + 1, opened |-> counters.opened + 1,
                   resolved |-> counters.resolved, refunded |-> counters.refunded]
  BY DEF CountOpened, CounterType
<1>2. QED  BY <1>1 DEF CounterType

\* drop_counter() and bump_counter() for a settlement, while one is open: one
\* question moves from the open ones to the settled ones, or leaves both.
LEMMA CountSettledEffect ==
  ASSUME counters \in CounterType, counters.open > 0,
         NEW status \in FinalStatuses, CountSettled(status)
  PROVE  /\ counters' \in CounterType
         /\ counters'.open = counters.open - 1
         /\ counters'.opened = counters.opened
         /\ counters'.resolved + counters'.refunded
              = counters.resolved + counters.refunded + (IF status = "Migrated" THEN 0 ELSE 1)
<1>1. CASE status = "Resolved"
  <2>1. counters' = [open |-> counters.open - 1, opened |-> counters.opened,
                     resolved |-> counters.resolved + 1, refunded |-> counters.refunded]
    BY <1>1 DEF CountSettled, CounterType
  <2>2. QED  BY <1>1, <2>1 DEF CounterType
<1>2. CASE status = "Refunded"
  <2>1. counters' = [open |-> counters.open - 1, opened |-> counters.opened,
                     resolved |-> counters.resolved, refunded |-> counters.refunded + 1]
    BY <1>2 DEF CountSettled, CounterType
  <2>2. QED  BY <1>2, <2>1 DEF CounterType
<1>3. CASE status = "Migrated"
  <2>1. counters' = [open |-> counters.open - 1, opened |-> counters.opened,
                     resolved |-> counters.resolved, refunded |-> counters.refunded]
    BY <1>3 DEF CountSettled, CounterType
  <2>2. QED  BY <1>3, <2>1 DEF CounterType
<1>4. QED  BY <1>1, <1>2, <1>3 DEF FinalStatuses

\* A question that becomes Pending, new or reopened, keeps the invariant.
LEMMA OpeningKeepsInv ==
  ASSUME QuestionsInv, NEW q \in Ids, q \notin OpenQuestions,
         q \notin WithStatus("Migrated"), NEW record \in QuestionType,
         record.status = "Pending", Deadline(record) <= MaxSeq,
         question' = Put(question, q, record), IndexAdd(q), CountOpened,
         UNCHANGED <<seq, reviewVars, configVars>>
  PROVE  QuestionsInv'
<1>1. /\ IndexInv'
      /\ DOMAIN pendingPos' = DOMAIN pendingPos \cup {q}
      /\ pendingCount' = pendingCount + 1
  BY IndexAddEffect DEF QuestionsInv, QuestionsTypeOK, OpenAreListed, IndexInv
<1>2. /\ DOMAIN question' = DOMAIN question \cup {q}
      /\ question'[q] = record
      /\ \A o \in DOMAIN question : o # q => question'[o] = question[o]
  BY DEF Put
<1>3. OpenQuestions' = OpenQuestions \cup {q}
  BY <1>2 DEF OpenQuestions, OpenStatuses
<1>4. WithStatus("ResolvedPending")' = WithStatus("ResolvedPending")
  BY <1>2 DEF WithStatus, OpenQuestions, OpenStatuses
<1>5. WithStatus("Disputed")' = WithStatus("Disputed")
  BY <1>2 DEF WithStatus, OpenQuestions, OpenStatuses
<1>11. WithStatus("Migrated")' = WithStatus("Migrated")
  BY <1>2 DEF WithStatus
<1>6. QuestionsTypeOK'
  <2>1. counters' \in CounterType
    BY CountOpenedEffect DEF QuestionsInv, QuestionsTypeOK
  <2>2. /\ DOMAIN question' \subseteq Ids
        /\ \A o \in DOMAIN question' :
              question'[o] \in QuestionType /\ Deadline(question'[o]) <= MaxSeq
    BY <1>2 DEF QuestionsInv, QuestionsTypeOK
  <2>3. QED
    BY <1>1, <2>1, <2>2
       DEF QuestionsInv, QuestionsTypeOK, IndexInv, reviewVars, configVars
<1>7. OpenAreListed'
  BY <1>1, <1>3 DEF QuestionsInv, OpenAreListed, IndexInv
<1>8. ReviewRecordsMatch'
  BY <1>4, <1>5 DEF QuestionsInv, ReviewRecordsMatch, reviewVars
<1>9. CountersExact'
  <2>1. Cardinality(WithStatus("Migrated")) \in Nat
    BY FS_CardinalityType DEF QuestionsInv
  <2>2. QED
    BY <1>1, <1>11, <2>1, CountOpenedEffect
       DEF QuestionsInv, QuestionsTypeOK, CountersExact, CounterType
<1>10. QED  BY <1>6, <1>7, <1>8, <1>9, <1>11 DEF QuestionsInv

\* A settlement of an open question keeps everything but, possibly, the match
\* of the review records, which is up to its caller.
LEMMA SettlingEffect ==
  ASSUME QuestionsInv, NEW q \in OpenQuestions, NEW status \in FinalStatuses,
         SettleQuestion(q, status)
  PROVE  /\ DOMAIN question' = DOMAIN question
         /\ \A o \in DOMAIN question' :
               question'[o] \in QuestionType /\ Deadline(question'[o]) <= MaxSeq
         /\ counters' \in CounterType
         /\ IndexTypeOK' /\ OpenAreListed' /\ CountersExact'
         /\ WithStatus("ResolvedPending")' = WithStatus("ResolvedPending") \ {q}
         /\ WithStatus("Disputed")' = WithStatus("Disputed") \ {q}
         /\ IsFiniteSet(WithStatus("Migrated"))'
<1>1. q \in DOMAIN pendingPos
  BY DEF QuestionsInv, OpenAreListed
<1>2. /\ IndexInv'
      /\ DOMAIN pendingPos' = DOMAIN pendingPos \ {q}
      /\ pendingCount' = pendingCount - 1
      /\ pendingCount \in Nat \ {0}
  BY <1>1, IndexRemoveEffect
     DEF QuestionsInv, QuestionsTypeOK, OpenAreListed, IndexInv, SettleQuestion
<1>3. /\ DOMAIN question' = DOMAIN question
      /\ q \in DOMAIN question
      /\ question'[q] = [question[q] EXCEPT !.status = status]
      /\ \A o \in DOMAIN question : o # q => question'[o] = question[o]
  BY DEF SettleQuestion, SetStatus, OpenQuestions
<1>4. \A o \in DOMAIN question : question[o] \in QuestionType /\ Deadline(question[o]) <= MaxSeq
  BY DEF QuestionsInv, QuestionsTypeOK
<1>5. /\ question'[q] \in QuestionType /\ question'[q].status = status
      /\ Deadline(question'[q]) <= MaxSeq
  BY <1>3, <1>4 DEF QuestionType, Statuses, FinalStatuses, Deadline
<1>6. OpenQuestions' = OpenQuestions \ {q}
  BY <1>3, <1>5 DEF OpenQuestions, OpenStatuses, FinalStatuses
<1>7. WithStatus("ResolvedPending")' = WithStatus("ResolvedPending") \ {q}
  BY <1>3, <1>5 DEF WithStatus, FinalStatuses
<1>8. WithStatus("Disputed")' = WithStatus("Disputed") \ {q}
  BY <1>3, <1>5 DEF WithStatus, FinalStatuses
<1>9. OpenAreListed'
  BY <1>2, <1>6 DEF QuestionsInv, OpenAreListed, IndexInv
<1>10. /\ IsFiniteSet(WithStatus("Migrated"))'
       /\ Cardinality(WithStatus("Migrated")) \in Nat
       /\ Cardinality(WithStatus("Migrated"))'
            = Cardinality(WithStatus("Migrated")) + (IF status = "Migrated" THEN 1 ELSE 0)
  <2>1. q \notin WithStatus("Migrated")
    BY DEF OpenQuestions, OpenStatuses, WithStatus
  <2>2. WithStatus("Migrated")'
          = IF status = "Migrated" THEN WithStatus("Migrated") \cup {q}
                                   ELSE WithStatus("Migrated")
    BY <1>3, <1>5, <2>1 DEF WithStatus
  <2> DEFINE moved == WithStatus("Migrated")
  <2>3. IsFiniteSet(moved)
    BY DEF QuestionsInv
  <2>4. q \notin moved
    BY <2>1
  <2>5. moved' = IF status = "Migrated" THEN moved \cup {q} ELSE moved
    BY <2>2
  <2> HIDE DEF moved
  <2>6. /\ IsFiniteSet(moved \cup {q}) /\ Cardinality(moved) \in Nat
        /\ Cardinality(moved \cup {q}) = Cardinality(moved) + 1
    BY <2>3, <2>4, FS_AddElement, FS_CardinalityType
  <2>7. /\ IsFiniteSet(moved') /\ Cardinality(moved) \in Nat
        /\ Cardinality(moved') = Cardinality(moved) + (IF status = "Migrated" THEN 1 ELSE 0)
    BY <2>3, <2>5, <2>6
  <2>8. QED  BY <2>7 DEF moved
<1>11. /\ CountersExact'
       /\ counters' \in CounterType
  <2> DEFINE moved == Cardinality(WithStatus("Migrated"))
  <2>1. /\ counters \in CounterType
        /\ counters.open = pendingCount
        /\ counters.opened = counters.open + counters.resolved + counters.refunded + moved
    BY DEF QuestionsInv, QuestionsTypeOK, CountersExact
  <2>2. CountSettled(status)
    BY DEF SettleQuestion
  <2>3. moved \in Nat /\ moved' = moved + (IF status = "Migrated" THEN 1 ELSE 0)
    BY <1>10
  <2> HIDE DEF moved
  <2>6. /\ counters.open \in Nat /\ counters.resolved \in Nat /\ counters.refunded \in Nat
        /\ counters'.resolved \in Nat /\ counters'.refunded \in Nat
        /\ counters' \in CounterType
        /\ counters'.open = counters.open - 1
        /\ counters'.opened = counters.opened
        /\ counters'.resolved + counters'.refunded
             = counters.resolved + counters.refunded + (IF status = "Migrated" THEN 0 ELSE 1)
    <3>1. counters.open > 0
      BY <1>2, <2>1
    <3>2. QED  BY <2>1, <2>2, <3>1, CountSettledEffect DEF CounterType
  <2>4. /\ counters'.open = pendingCount'
        /\ counters'.opened = counters'.open + counters'.resolved + counters'.refunded + moved'
        /\ counters' \in CounterType
    BY <1>2, <2>1, <2>3, <2>6
  <2>5. QED  BY <2>4 DEF CountersExact, moved
<1>12. QED  BY <1>2, <1>3, <1>4, <1>5, <1>7, <1>8, <1>9, <1>10, <1>11 DEF IndexInv

\* A question that goes from Pending into review keeps the invariant, if its
\* record is stored with it.
LEMMA JudgingEffect ==
  ASSUME QuestionsInv, NEW q, StatusIs(q, "Pending"),
         NEW status \in {"Disputed", "ResolvedPending"}, SetStatus(q, status),
         UNCHANGED <<counters, indexVars>>
  PROVE  /\ DOMAIN question' = DOMAIN question
         /\ \A o \in DOMAIN question' :
               question'[o] \in QuestionType /\ Deadline(question'[o]) <= MaxSeq
         /\ IndexTypeOK' /\ OpenAreListed' /\ CountersExact'
         /\ WithStatus(status)' = WithStatus(status) \cup {q}
         /\ \A other \in {"Disputed", "ResolvedPending"} :
               other # status => WithStatus(other)' = WithStatus(other)
         /\ IsFiniteSet(WithStatus("Migrated"))'
<1>1. /\ DOMAIN question' = DOMAIN question
      /\ q \in DOMAIN question /\ question[q].status = "Pending"
      /\ question'[q] = [question[q] EXCEPT !.status = status]
      /\ \A o \in DOMAIN question : o # q => question'[o] = question[o]
  BY DEF SetStatus, StatusIs
<1>2. \A o \in DOMAIN question : question[o] \in QuestionType /\ Deadline(question[o]) <= MaxSeq
  BY DEF QuestionsInv, QuestionsTypeOK
<1>3. /\ question'[q] \in QuestionType /\ question'[q].status = status
      /\ Deadline(question'[q]) <= MaxSeq
  BY <1>1, <1>2 DEF QuestionType, Statuses, OpenStatuses, Deadline
<1>4. OpenQuestions' = OpenQuestions
  BY <1>1, <1>3 DEF OpenQuestions, OpenStatuses
<1>5. WithStatus(status)' = WithStatus(status) \cup {q}
  BY <1>1, <1>3 DEF WithStatus
<1>6. ASSUME NEW other \in {"Disputed", "ResolvedPending"}, other # status
      PROVE  WithStatus(other)' = WithStatus(other)
  BY <1>1, <1>3, <1>6 DEF WithStatus
<1>9. WithStatus("Migrated")' = WithStatus("Migrated")
  BY <1>1, <1>3 DEF WithStatus
<1>7. IndexTypeOK' /\ OpenAreListed' /\ CountersExact'
  BY <1>4, <1>9 DEF QuestionsInv, QuestionsTypeOK, IndexTypeOK, OpenAreListed, IndexConsistent,
              CountersExact, indexVars
<1>8. QED  BY <1>1, <1>2, <1>3, <1>5, <1>6, <1>7, <1>9 DEF QuestionsInv

-----------------------------------------------------------------------------
(* One lemma per group of entry points.                                    *)

\* Opening and reopening.
LEMMA FundingKeepsInv ==
  ASSUME QuestionsInv, NEW q \in Ids, FundingStep(q), UNCHANGED <<seq, configVars>>
  PROVE  QuestionsInv'
<1> USE LedgerAssumption, QuestionsAssumption
<1>1. /\ seq \in 0 .. MaxSeq /\ timeoutLedgers \in Timeouts
      /\ \A o \in DOMAIN question : question[o] \in QuestionType
  BY DEF QuestionsInv, QuestionsTypeOK
<1>2. ASSUME NEW a \in Amounts, NEW p \in Payers, NEW t \in Tokens, OpenQuestion(q, p, t, a)
      PROVE  QuestionsInv'
  <2> DEFINE record == Opened(p, t, a, timeoutLedgers)
  <2>1. /\ record \in QuestionType
        /\ record.status = "Pending"
        /\ Deadline(record) <= MaxSeq
    BY <1>1, <1>2 DEF OpenQuestion, RoomToOpen, Opened, QuestionType, Statuses, OpenStatuses,
                      Deadline
  <2>2. /\ question' = Put(question, q, record)
        /\ IndexAdd(q) /\ CountOpened
        /\ UNCHANGED reviewVars
        /\ q \notin OpenQuestions /\ q \notin WithStatus("Migrated")
    BY <1>2 DEF OpenQuestion, OpenQuestions, WithStatus
  <2> HIDE DEF record
  <2>3. QED  BY <2>1, <2>2, OpeningKeepsInv
<1>3. ASSUME NEW a \in Amounts, ReopenQuestion(q, a)
      PROVE  QuestionsInv'
  <2> DEFINE record == Reopened(question[q], a)
  <2>1. q \in DOMAIN question /\ question[q].status = "Refunded"
    BY <1>3 DEF ReopenQuestion, StatusIs
  <2>2. /\ record \in QuestionType
        /\ record.status = "Pending"
        /\ Deadline(record) <= MaxSeq
    BY <1>1, <1>3, <2>1
       DEF ReopenQuestion, RoomToOpen, Reopened, Opened, QuestionType, Statuses, OpenStatuses,
           Deadline
  <2>3. q \notin OpenQuestions /\ q \notin WithStatus("Migrated")
    BY <2>1 DEF OpenQuestions, OpenStatuses, WithStatus
  <2>4. /\ question' = Put(question, q, record)
        /\ IndexAdd(q) /\ CountOpened
        /\ UNCHANGED reviewVars
    BY <1>3 DEF ReopenQuestion
  <2> HIDE DEF record
  <2>5. QED  BY <2>2, <2>3, <2>4, OpeningKeepsInv
<1>4. ASSUME NEW a \in Amounts, NEW p \in Payers, NEW t \in Tokens, ImportStep(q, p, t, a)
      PROVE  QuestionsInv'
  <2>1. PICK age \in ImportAges, timeout \in Timeouts :
          age <= seq /\ ImportQuestion(q, p, t, a, seq - age, timeout)
    BY <1>4 DEF ImportStep
  <2> DEFINE record == Imported(p, t, a, seq - age, timeout)
  <2>2. /\ record = [payer |-> p, token |-> t, amount |-> a, status |-> "Pending",
                     createdAt |-> seq - age, timeout |-> timeout]
        /\ seq - age \in 0 .. MaxSeq
    BY <1>1, <2>1 DEF Imported, Opened
  <2>3. seq - age + timeout <= MaxSeq
    BY <1>1, <2>1 DEF ImportQuestion, RoomToOpen
  <2>4. /\ record \in QuestionType
        /\ record.status = "Pending"
        /\ Deadline(record) <= MaxSeq
    BY <2>2, <2>3 DEF QuestionType, Statuses, OpenStatuses, Deadline
  <2>5. /\ question' = Put(question, q, record)
        /\ IndexAdd(q) /\ CountOpened
        /\ UNCHANGED reviewVars
        /\ q \notin OpenQuestions /\ q \notin WithStatus("Migrated")
    BY <2>1 DEF ImportQuestion, OpenQuestions, WithStatus
  <2> HIDE DEF record
  <2>6. QED  BY <2>4, <2>5, OpeningKeepsInv
<1>5. QED  BY <1>2, <1>3, <1>4 DEF FundingStep

\* Settlements from Pending: resolve, refund, refund_timeout, migrate_pending.
LEMMA SettlingKeepsInv ==
  ASSUME QuestionsInv, NEW q \in Ids, StatusIs(q, "Pending"),
         NEW status \in FinalStatuses, SettleQuestion(q, status),
         UNCHANGED <<seq, reviewVars, configVars>>
  PROVE  QuestionsInv'
<1>1. q \in OpenQuestions
  BY DEF StatusIs, OpenQuestions, OpenStatuses
<1>2. q \notin WithStatus("ResolvedPending") /\ q \notin WithStatus("Disputed")
  BY DEF StatusIs, WithStatus
<1>3. ReviewRecordsMatch'
  BY <1>1, <1>2, SettlingEffect DEF QuestionsInv, ReviewRecordsMatch, reviewVars
<1>4. QuestionsTypeOK'
  BY <1>1, SettlingEffect DEF QuestionsInv, QuestionsTypeOK, reviewVars, configVars
<1>5. QED  BY <1>1, <1>3, <1>4, SettlingEffect DEF QuestionsInv

\* escalate_resolve() and finalize_resolve(): the records go with the status.
LEMMA EndOfReviewKeepsInv ==
  ASSUME QuestionsInv, NEW q \in Ids, UNCHANGED <<seq, configVars>>,
         \/ \E v \in Verdicts : ResolveEscalated(q, v)
         \/ FinalizeQuestion(q)
  PROVE  QuestionsInv'
<1>1. CASE \E v \in Verdicts : ResolveEscalated(q, v)
  <2>1. /\ StatusIs(q, "Disputed") /\ SettleQuestion(q, "Resolved")
        /\ escalatedQuestion' = Without(escalatedQuestion, q)
        /\ UNCHANGED <<pendingResolution, challengerBond>>
    BY <1>1 DEF ResolveEscalated
  <2>2. /\ q \in OpenQuestions /\ q \notin WithStatus("ResolvedPending")
        /\ "Resolved" \in FinalStatuses
    BY <2>1 DEF StatusIs, OpenQuestions, OpenStatuses, WithStatus, FinalStatuses
  <2>3. /\ DOMAIN escalatedQuestion' = DOMAIN escalatedQuestion \ {q}
        /\ \A o \in DOMAIN escalatedQuestion' : escalatedQuestion'[o] = escalatedQuestion[o]
    BY <2>1 DEF Without, Restrict
  <2>4. ReviewRecordsMatch'
    BY <2>1, <2>2, <2>3, SettlingEffect DEF QuestionsInv, ReviewRecordsMatch
  <2>5. QuestionsTypeOK'
    BY <2>1, <2>2, <2>3, SettlingEffect DEF QuestionsInv, QuestionsTypeOK, configVars
  <2>6. QED  BY <2>1, <2>2, <2>4, <2>5, SettlingEffect DEF QuestionsInv
<1>2. CASE FinalizeQuestion(q)
  <2>1. /\ StatusIs(q, "ResolvedPending") /\ SettleQuestion(q, "Resolved")
        /\ pendingResolution' = Without(pendingResolution, q)
        /\ challengerBond' = Without(challengerBond, q)
        /\ UNCHANGED escalatedQuestion
    BY <1>2 DEF FinalizeQuestion, Finalizable
  <2>2. /\ q \in OpenQuestions /\ q \notin WithStatus("Disputed")
        /\ "Resolved" \in FinalStatuses
    BY <2>1 DEF StatusIs, OpenQuestions, OpenStatuses, WithStatus, FinalStatuses
  <2>3. /\ DOMAIN pendingResolution' = DOMAIN pendingResolution \ {q}
        /\ \A o \in DOMAIN pendingResolution' : pendingResolution'[o] = pendingResolution[o]
        /\ DOMAIN challengerBond' = DOMAIN challengerBond \ {q}
        /\ \A o \in DOMAIN challengerBond' : challengerBond'[o] = challengerBond[o]
    BY <2>1 DEF Without, Restrict
  <2>4. ReviewRecordsMatch'
    BY <2>1, <2>2, <2>3, SettlingEffect DEF QuestionsInv, ReviewRecordsMatch
  <2>5. QuestionsTypeOK'
    BY <2>1, <2>2, <2>3, SettlingEffect DEF QuestionsInv, QuestionsTypeOK, configVars
  <2>6. QED  BY <2>1, <2>2, <2>4, <2>5, SettlingEffect DEF QuestionsInv
<1>3. QED  BY <1>1, <1>2

\* escalate() and resolve_challengeable(): the record comes with the status.
LEMMA StartOfReviewKeepsInv ==
  ASSUME QuestionsInv, NEW q \in Ids, UNCHANGED <<seq, configVars>>, NEW v \in Verdicts,
         \/ EscalateQuestion(q, v)
         \/ \E window \in Windows : ResolveChallengeable(q, v, window)
  PROVE  QuestionsInv'
<1>1. CASE EscalateQuestion(q, v)
  <2>1. /\ StatusIs(q, "Pending") /\ SetStatus(q, "Disputed")
        /\ escalatedQuestion' = Put(escalatedQuestion, q, v)
        /\ UNCHANGED <<pendingResolution, challengerBond, counters, indexVars>>
    BY <1>1 DEF EscalateQuestion
  <2>2. /\ DOMAIN escalatedQuestion' = DOMAIN escalatedQuestion \cup {q}
        /\ \A o \in DOMAIN escalatedQuestion' : escalatedQuestion'[o] \in Verdicts
    BY <2>1 DEF Put, QuestionsInv, QuestionsTypeOK
  <2>3. /\ WithStatus("Disputed")' = WithStatus("Disputed") \cup {q}
        /\ WithStatus("ResolvedPending")' = WithStatus("ResolvedPending")
    BY <2>1, JudgingEffect
  <2>4. ReviewRecordsMatch'
    BY <2>1, <2>2, <2>3 DEF QuestionsInv, ReviewRecordsMatch
  <2>5. QuestionsTypeOK'
    BY <2>1, <2>2, JudgingEffect DEF QuestionsInv, QuestionsTypeOK, configVars
  <2>6. QED  BY <2>1, <2>4, <2>5, JudgingEffect DEF QuestionsInv
<1>2. ASSUME NEW window \in Windows, ResolveChallengeable(q, v, window)
      PROVE  QuestionsInv'
  <2> DEFINE record == [verdict |-> v, deadline |-> seq + window, disputed |-> FALSE]
  <2>1. /\ StatusIs(q, "Pending") /\ SetStatus(q, "ResolvedPending")
        /\ pendingResolution' = Put(pendingResolution, q, record)
        /\ UNCHANGED <<escalatedQuestion, challengerBond, counters, indexVars>>
        /\ seq + window < MaxSeq
    BY <1>2 DEF ResolveChallengeable
  <2>2. record \in [verdict : Verdicts, deadline : 0 .. MaxSeq, disputed : BOOLEAN]
    BY <2>1, LedgerAssumption, QuestionsAssumption DEF QuestionsInv, QuestionsTypeOK
  <2> HIDE DEF record
  <2>3. /\ DOMAIN pendingResolution' = DOMAIN pendingResolution \cup {q}
        /\ \A o \in DOMAIN pendingResolution' :
              pendingResolution'[o] \in
                [verdict : Verdicts, deadline : 0 .. MaxSeq, disputed : BOOLEAN]
    BY <2>1, <2>2 DEF Put, QuestionsInv, QuestionsTypeOK
  <2>4. /\ WithStatus("ResolvedPending")' = WithStatus("ResolvedPending") \cup {q}
        /\ WithStatus("Disputed")' = WithStatus("Disputed")
    BY <2>1, JudgingEffect
  <2>5. ReviewRecordsMatch'
    BY <2>1, <2>3, <2>4 DEF QuestionsInv, ReviewRecordsMatch
  <2>6. QuestionsTypeOK'
    BY <2>1, <2>3, JudgingEffect DEF QuestionsInv, QuestionsTypeOK, configVars
  <2>7. QED  BY <2>1, <2>5, <2>6, JudgingEffect DEF QuestionsInv
<1>3. QED  BY <1>1, <1>2

\* post_challenge_bond() and dispute_resolve(): no question changes.
LEMMA ChallengeKeepsInv ==
  ASSUME QuestionsInv, NEW q \in Ids, UNCHANGED <<seq, configVars>>,
         \/ \E c \in Challengers, a \in Bonds : PostBond(q, c, a)
         \/ DisputeResolve(q)
  PROVE  QuestionsInv'
<1> USE DEF QuestionsInv
<1>1. CASE \E c \in Challengers, a \in Bonds : PostBond(q, c, a)
  <2>1. PICK c \in Challengers, a \in Bonds : PostBond(q, c, a)
    BY <1>1
  <2>2. /\ DOMAIN challengerBond' = DOMAIN challengerBond \cup {q}
        /\ q \in DOMAIN pendingResolution
        /\ \A o \in DOMAIN challengerBond' :
              challengerBond'[o] \in [challenger : Challengers, amount : Bonds]
        /\ UNCHANGED <<question, pendingResolution, escalatedQuestion, counters, indexVars>>
    BY <2>1 DEF PostBond, Put, QuestionsTypeOK
  <2>3. QuestionsTypeOK'
    BY <2>2 DEF QuestionsTypeOK, IndexTypeOK, indexVars, configVars
  <2>9. IsFiniteSet(WithStatus("Migrated"))'
    BY <2>2 DEF WithStatus
  <2>4. OpenAreListed' /\ ReviewRecordsMatch' /\ CountersExact'
    BY <2>2 DEF OpenAreListed, IndexConsistent, OpenQuestions, ReviewRecordsMatch, WithStatus,
                CountersExact, indexVars
  <2>5. QED  BY <2>3, <2>4, <2>9
<1>2. CASE DisputeResolve(q)
  <2>1. /\ DOMAIN pendingResolution' = DOMAIN pendingResolution
        /\ \A o \in DOMAIN pendingResolution' :
              pendingResolution'[o] \in
                [verdict : Verdicts, deadline : 0 .. MaxSeq, disputed : BOOLEAN]
        /\ UNCHANGED <<question, escalatedQuestion, challengerBond, counters, indexVars>>
    BY <1>2 DEF DisputeResolve, QuestionsTypeOK
  <2>2. QuestionsTypeOK'
    BY <2>1 DEF QuestionsTypeOK, IndexTypeOK, indexVars, configVars
  <2>9. IsFiniteSet(WithStatus("Migrated"))'
    BY <2>1 DEF WithStatus
  <2>3. OpenAreListed' /\ ReviewRecordsMatch' /\ CountersExact'
    BY <2>1 DEF OpenAreListed, IndexConsistent, OpenQuestions, ReviewRecordsMatch, WithStatus,
                CountersExact, indexVars
  <2>4. QED  BY <2>2, <2>3, <2>9
<1>3. QED  BY <1>1, <1>2

\* Steps that touch no record: configuration, time, stuttering.
LEMMA RecordsUnchangedKeepsInv ==
  ASSUME QuestionsInv, UNCHANGED recordVars,
         seq' \in 0 .. MaxSeq, timeoutLedgers' \in Timeouts,
         quorumBounds' \in [min : Nat, max : Nat]
  PROVE  QuestionsInv'
BY DEF QuestionsInv, QuestionsTypeOK, OpenAreListed, ReviewRecordsMatch, CountersExact,
       IndexTypeOK, IndexConsistent, OpenQuestions, WithStatus, recordVars, reviewVars, indexVars

\* Every call on a question.
LEMMA QuestionStepKeepsInv ==
  ASSUME QuestionsInv, NEW q \in Ids, QuestionStep(q), UNCHANGED <<seq, configVars>>
  PROVE  QuestionsInv'
<1>1. CASE FundingStep(q)
  BY <1>1, FundingKeepsInv
<1>2. ASSUME NEW v \in Verdicts, ResolveQuestion(q, v)
      PROVE  QuestionsInv'
  BY <1>2, SettlingKeepsInv DEF ResolveQuestion, FinalStatuses
<1>3. ASSUME RefundQuestion(q) \/ TimeoutQuestion(q) \/ MigrateQuestion(q)
      PROVE  QuestionsInv'
  BY <1>3, SettlingKeepsInv DEF RefundQuestion, TimeoutQuestion, MigrateQuestion, FinalStatuses
<1>4. ASSUME NEW v \in Verdicts,
             \/ EscalateQuestion(q, v)
             \/ \E window \in Windows : ResolveChallengeable(q, v, window)
      PROVE  QuestionsInv'
  BY <1>4, StartOfReviewKeepsInv
<1>5. ASSUME \/ \E v \in Verdicts : ResolveEscalated(q, v)
             \/ FinalizeQuestion(q)
      PROVE  QuestionsInv'
  BY <1>5, EndOfReviewKeepsInv
<1>6. ASSUME \/ \E c \in Challengers, a \in Bonds : PostBond(q, c, a)
             \/ DisputeResolve(q)
      PROVE  QuestionsInv'
  BY <1>6, ChallengeKeepsInv
<1>7. QED
  BY <1>1, <1>2, <1>3, <1>4, <1>5, <1>6 DEF QuestionStep, VerdictStep, ReviewStep

\* One step of the lifecycle.
LEMMA QuestionsNextKeepsInv ==
  ASSUME QuestionsInv, [QuestionsNext]_questionsVars
  PROVE  QuestionsInv'
<1>1. /\ seq \in 0 .. MaxSeq /\ timeoutLedgers \in Timeouts
      /\ quorumBounds \in [min : Nat, max : Nat]
  BY DEF QuestionsInv, QuestionsTypeOK
<1>2. CASE \E q \in Ids : QuestionStep(q) /\ UNCHANGED <<seq, configVars>>
  BY <1>2, QuestionStepKeepsInv
<1>3. CASE ConfigStep /\ UNCHANGED <<seq, recordVars>>
  BY <1>1, <1>3, RecordsUnchangedKeepsInv, QuestionsAssumption
     DEF ConfigStep, SetTimeoutLedgers, SetQuorumBounds
<1>4. CASE Tick /\ UNCHANGED <<recordVars, configVars>>
  BY <1>1, <1>4, RecordsUnchangedKeepsInv, LedgerAssumption DEF Tick, configVars
<1>5. CASE UNCHANGED questionsVars
  BY <1>1, <1>5, RecordsUnchangedKeepsInv DEF questionsVars, configVars
<1>6. QED  BY <1>2, <1>3, <1>4, <1>5 DEF QuestionsNext

\* Initially no question has ever been opened.
LEMMA QuestionsInitInv == QuestionsInit => QuestionsInv
<1> SUFFICES ASSUME QuestionsInit
             PROVE  QuestionsInv
  OBVIOUS
<1>1. QuestionsTypeOK
  BY LedgerAssumption, QuestionsAssumption
     DEF LedgerInit, QuestionsInit, QuestionsTypeOK, IndexInit, IndexTypeOK, NoEntries,
         CounterType
<1>2. WithStatus("Migrated") = {}
  BY DEF QuestionsInit, WithStatus, NoEntries
<1>3. OpenAreListed /\ ReviewRecordsMatch /\ CountersExact
  BY <1>2, FS_EmptySet
     DEF QuestionsInit, IndexInit, OpenAreListed, IndexConsistent, OpenQuestions,
         ReviewRecordsMatch, WithStatus, CountersExact, NoEntries
<1>4. QED  BY <1>1, <1>2, <1>3, FS_EmptySet DEF QuestionsInv

-----------------------------------------------------------------------------

\* Types, index, reviews and counters stay right together.
LEMMA QuestionsInvHolds == QuestionsSpec => []QuestionsInv
<1>1. QuestionsInit => QuestionsInv
  BY QuestionsInitInv
<1>2. QuestionsInv /\ [QuestionsNext]_questionsVars => QuestionsInv'
  BY QuestionsNextKeepsInv
<1>3. QED  BY <1>1, <1>2, PTL DEF QuestionsSpec

\* The index, the review records and the counters agree with the questions in
\* every reachable state, for every value of the constants.
THEOREM QuestionsAreConsistent ==
  QuestionsSpec => [](QuestionsTypeOK /\ OpenAreListed /\ ReviewRecordsMatch /\ CountersExact)
<1>1. QuestionsInv => QuestionsTypeOK /\ OpenAreListed /\ ReviewRecordsMatch /\ CountersExact
  BY DEF QuestionsInv
<1>2. QED  BY <1>1, QuestionsInvHolds, PTL

\* The records keep their types, and no deadline is beyond the clock's bound.
THEOREM LifecycleIsTyped == QuestionsSpec => []QuestionsTypeOK
BY QuestionsAreConsistent, PTL

\* The saturating counters of get_health() never drift from the index, nor from
\* what has happened to every question ever opened.
THEOREM CountersNeverDrift == QuestionsSpec => []CountersExact
BY QuestionsAreConsistent, PTL

-----------------------------------------------------------------------------
(* What the records remember of the calls that wrote them.                 *)

\* A verdict that waits for its window was checked when it was filed.
AcceptedVerdicts == \A q \in DOMAIN pendingResolution : Acceptable(pendingResolution[q].verdict)

\* No clock started in the future, not even that of an imported question.
OpenedBefore == \A q \in DOMAIN question : question[q].createdAt \in 0 .. seq

\* The open questions are as many as the slots of the index, finitely many.
LEMMA OpenIsFinite ==
  ASSUME QuestionsInv
  PROVE  IsFiniteSet(OpenQuestions)
<1> DEFINE slots == 0 .. pendingCount - 1
<1>1. /\ pendingCount \in Nat
      /\ DOMAIN pendingAt = slots
      /\ DOMAIN pendingPos = OpenQuestions
      /\ \A q \in OpenQuestions : pendingPos[q] \in slots /\ pendingAt[pendingPos[q]] = q
  BY DEF QuestionsInv, QuestionsTypeOK, OpenAreListed, IndexTypeOK, IndexConsistent
<1>2. IsFiniteSet(slots)
  BY <1>1, FS_Interval
<1> HIDE DEF slots
<1>3. [q \in OpenQuestions |-> pendingPos[q]] \in Injection(OpenQuestions, slots)
  BY <1>1 DEF Injection, IsInjective
<1>4. QED  BY <1>2, <1>3, FS_Injection

\* No verdict that was not accepted is under review, and no question opened in
\* the future.
LEMMA QuestionStepKeepsHistory ==
  ASSUME QuestionsInv, AcceptedVerdicts, OpenedBefore, NEW q \in Ids, QuestionStep(q),
         UNCHANGED <<seq, configVars>>
  PROVE  AcceptedVerdicts' /\ OpenedBefore'
<1>1. seq \in Nat
  BY DEF QuestionsInv, QuestionsTypeOK
<1>2. CASE FundingStep(q)
  <2>1. AcceptedVerdicts'
    BY <1>2 DEF FundingStep, OpenQuestion, ImportStep, ImportQuestion, ReopenQuestion,
                reviewVars, AcceptedVerdicts
  <2>2. PICK record : question' = Put(question, q, record) /\ record.createdAt \in 0 .. seq
    <3>1. ASSUME NEW p, NEW t, NEW a, OpenQuestion(q, p, t, a)
          PROVE  \E record : question' = Put(question, q, record) /\ record.createdAt \in 0 .. seq
      <4>1. Opened(p, t, a, timeoutLedgers).createdAt \in 0 .. seq
        BY <1>1 DEF Opened
      <4>2. QED  BY <3>1, <4>1 DEF OpenQuestion
    <3>2. ASSUME NEW p, NEW t, NEW a, ImportStep(q, p, t, a)
          PROVE  \E record : question' = Put(question, q, record) /\ record.createdAt \in 0 .. seq
      <4>1. PICK age \in ImportAges, timeout \in Timeouts :
              age <= seq /\ ImportQuestion(q, p, t, a, seq - age, timeout)
        BY <3>2 DEF ImportStep
      <4>2. Imported(p, t, a, seq - age, timeout).createdAt = seq - age
        BY DEF Imported, Opened
      <4>3. seq - age \in 0 .. seq
        BY <1>1, <4>1, QuestionsAssumption
      <4>4. QED  BY <4>1, <4>2, <4>3 DEF ImportQuestion
    <3>3. ASSUME NEW a, ReopenQuestion(q, a)
          PROVE  \E record : question' = Put(question, q, record) /\ record.createdAt \in 0 .. seq
      <4>1. Reopened(question[q], a).createdAt \in 0 .. seq
        BY <1>1 DEF Reopened, Opened
      <4>2. QED  BY <3>3, <4>1 DEF ReopenQuestion
    <3>4. QED  BY <1>2, <3>1, <3>2, <3>3 DEF FundingStep
  <2>3. OpenedBefore'
    BY <2>2 DEF Put, OpenedBefore
  <2>4. QED  BY <2>1, <2>3
<1> DEFINE Kept == question' = question \/ \E status : SetStatus(q, status)
<1>3. ASSUME Kept, q \in DOMAIN question
      PROVE  OpenedBefore'
  <2>1. CASE question' = question
    BY <2>1 DEF OpenedBefore
  <2>2. ASSUME NEW status, SetStatus(q, status)
        PROVE  OpenedBefore'
    <3>1. /\ DOMAIN question' = DOMAIN question
          /\ \A o \in DOMAIN question : question[o] \in QuestionType
      BY <1>3, <2>2 DEF SetStatus, QuestionsInv, QuestionsTypeOK
    <3>2. ASSUME NEW o \in DOMAIN question
          PROVE  question'[o].createdAt = question[o].createdAt
      BY <1>3, <2>2, <3>1 DEF SetStatus, QuestionType
    <3>3. QED  BY <3>1, <3>2 DEF OpenedBefore
  <2>3. QED  BY <1>3, <2>1, <2>2
<1>4. ASSUME NEW v, NEW window, ResolveChallengeable(q, v, window)
      PROVE  AcceptedVerdicts' /\ OpenedBefore'
  <2>1. AcceptedVerdicts'
    BY <1>4 DEF ResolveChallengeable, Put, AcceptedVerdicts
  <2>2. Kept /\ q \in DOMAIN question
    BY <1>4 DEF ResolveChallengeable, StatusIs
  <2>3. QED  BY <1>3, <2>1, <2>2
<1>5. CASE FinalizeQuestion(q) \/ DisputeResolve(q)
  <2>1. CASE FinalizeQuestion(q)
    <3>1. AcceptedVerdicts'
      BY <2>1 DEF FinalizeQuestion, Without, Restrict, AcceptedVerdicts
    <3>2. Kept /\ q \in DOMAIN question
      BY <2>1 DEF FinalizeQuestion, Finalizable, SettleQuestion, StatusIs
    <3>3. QED  BY <1>3, <3>1, <3>2
  <2>2. CASE DisputeResolve(q)
    <3>1. \A o \in DOMAIN pendingResolution :
            pendingResolution[o] \in [verdict : Verdicts, deadline : 0 .. MaxSeq, disputed : BOOLEAN]
      BY DEF QuestionsInv, QuestionsTypeOK
    <3>2. /\ DOMAIN pendingResolution' = DOMAIN pendingResolution
          /\ \A o \in DOMAIN pendingResolution :
                pendingResolution'[o].verdict = pendingResolution[o].verdict
      BY <2>2, <3>1 DEF DisputeResolve
    <3>3. AcceptedVerdicts'
      BY <3>2 DEF AcceptedVerdicts
    <3>4. OpenedBefore'
      BY <2>2 DEF DisputeResolve, OpenedBefore
    <3>5. QED  BY <3>3, <3>4
  <2>3. QED  BY <1>5, <2>1, <2>2
<1> HIDE DEF Kept
<1>6. ASSUME UNCHANGED pendingResolution, Kept, q \in DOMAIN question
      PROVE  AcceptedVerdicts' /\ OpenedBefore'
  BY <1>3, <1>6 DEF AcceptedVerdicts
<1>7. ASSUME NEW v, ResolveQuestion(q, v) \/ EscalateQuestion(q, v) \/ ResolveEscalated(q, v)
      PROVE  AcceptedVerdicts' /\ OpenedBefore'
  BY <1>6, <1>7 DEF ResolveQuestion, EscalateQuestion, ResolveEscalated, SettleQuestion,
                    StatusIs, reviewVars, Kept
<1>8. ASSUME NEW c, NEW a, PostBond(q, c, a)
      PROVE  AcceptedVerdicts' /\ OpenedBefore'
  BY <1>6, <1>8 DEF PostBond, StatusIs, Kept
<1>9. CASE RefundQuestion(q) \/ TimeoutQuestion(q) \/ MigrateQuestion(q)
  BY <1>6, <1>9 DEF RefundQuestion, TimeoutQuestion, MigrateQuestion, SettleQuestion, StatusIs,
                    reviewVars, Kept
<1>10. QED
  BY <1>2, <1>4, <1>5, <1>7, <1>8, <1>9 DEF QuestionStep, VerdictStep, ReviewStep

\* However the entry points interleave, a verdict under review passed the checks
\* of a verdict, and every clock started in the past.
LEMMA HistoryHolds == QuestionsSpec => [](QuestionsInv /\ AcceptedVerdicts /\ OpenedBefore)
<1>1. QuestionsInit => AcceptedVerdicts /\ OpenedBefore
  BY DEF QuestionsInit, AcceptedVerdicts, OpenedBefore, NoEntries
<1>2. ASSUME QuestionsInv, AcceptedVerdicts, OpenedBefore, [QuestionsNext]_questionsVars
      PROVE  AcceptedVerdicts' /\ OpenedBefore'
  <2>1. CASE \E q \in Ids : QuestionStep(q) /\ UNCHANGED <<seq, configVars>>
    BY <1>2, <2>1, QuestionStepKeepsHistory
  <2>2. CASE UNCHANGED <<question, pendingResolution>> /\ seq' \in {seq, seq + 1}
    <3>1. seq \in Nat
      BY <1>2 DEF QuestionsInv, QuestionsTypeOK
    <3>2. QED  BY <1>2, <2>2, <3>1 DEF AcceptedVerdicts, OpenedBefore
  <2>3. QED
    BY <1>2, <2>1, <2>2 DEF QuestionsNext, Tick, recordVars, reviewVars, questionsVars
<1>3. QED  BY <1>1, <1>2, QuestionsInvHolds, PTL DEF QuestionsSpec

-----------------------------------------------------------------------------
(* The promise to the payer.                                               *)

\* A question that is written whole is a deal that is written whole.
LEMMA DealsPut ==
  ASSUME NEW q, NEW record, question' = Put(question, q, record)
  PROVE  Deals' = Put(Deals, q, DealOf(record))
<1>1. /\ DOMAIN question' = DOMAIN question \cup {q}
      /\ \A o \in DOMAIN question' :
            question'[o] = IF o = q THEN record ELSE question[o]
  BY DEF Put
<1>2. /\ DOMAIN Deals = DOMAIN question
      /\ \A o \in DOMAIN question : Deals[o] = DealOf(question[o])
  BY DEF Deals
<1>3. Deals' = [o \in DOMAIN question' |-> DealOf(question'[o])]
  BY DEF Deals, DealOf, Deadline
<1>4. Deals' = [o \in DOMAIN Deals \cup {q} |->
                  IF o = q THEN DealOf(record) ELSE Deals[o]]
  BY <1>1, <1>2, <1>3
<1>5. QED  BY <1>4 DEF Put

\* A change of status is a change of the deal's state and of nothing else.
LEMMA DealsMove ==
  ASSUME NEW q \in DOMAIN question, question[q] \in QuestionType,
         NEW status \in Statuses, SetStatus(q, status)
  PROVE  Deals' = [Deals EXCEPT ![q].state = PromisedState(status)]
<1>1. /\ DOMAIN question' = DOMAIN question
      /\ question'[q] = [question[q] EXCEPT !.status = status]
      /\ \A o \in DOMAIN question : o # q => question'[o] = question[o]
  BY DEF SetStatus
<1>2. /\ question'[q].payer = question[q].payer /\ question'[q].token = question[q].token
      /\ question'[q].amount = question[q].amount /\ question'[q].status = status
      /\ question'[q].createdAt = question[q].createdAt
      /\ question'[q].timeout = question[q].timeout
  BY <1>1 DEF QuestionType
<1>3. DealOf(question'[q]) = [DealOf(question[q]) EXCEPT !.state = PromisedState(status)]
  BY <1>2 DEF DealOf, Deadline
<1>4. Deals' = [o \in DOMAIN question |->
                  IF o = q THEN [Deals[q] EXCEPT !.state = PromisedState(status)] ELSE Deals[o]]
  <2>1. Deals' = [o \in DOMAIN question' |-> DealOf(question'[o])]
    BY DEF Deals, DealOf, Deadline
  <2>2. \A o \in DOMAIN question : Deals[o] = DealOf(question[o])
    BY DEF Deals
  <2>3. QED  BY <1>1, <1>3, <2>1, <2>2
<1>5. DOMAIN Deals = DOMAIN question
  BY DEF Deals
<1>6. QED  BY <1>4, <1>5

\* Every step on a question is a step of the promise about it.
LEMMA QuestionStepKeepsPromise ==
  ASSUME QuestionsInv, NEW q \in Ids, QuestionStep(q), UNCHANGED <<seq, configVars>>
  PROVE  [Promise!Next]_Deals
<1> USE LedgerAssumption, QuestionsAssumption
<1>1. /\ seq \in 0 .. MaxSeq /\ timeoutLedgers \in Timeouts
      /\ \A o \in DOMAIN question : question[o] \in QuestionType
  BY DEF QuestionsInv, QuestionsTypeOK
<1>2. /\ DOMAIN Deals = DOMAIN question
      /\ \A o \in DOMAIN question : Deals[o] = DealOf(question[o])
  BY DEF Deals
<1>3. ASSUME NEW a \in Amounts, NEW p \in Payers, NEW t \in Tokens, OpenQuestion(q, p, t, a)
      PROVE  Promise!Fund(q)
  <2>1. Deals' = Put(Deals, q, DealOf(Opened(p, t, a, timeoutLedgers)))
    BY <1>3, DealsPut DEF OpenQuestion
  <2>2. DealOf(Opened(p, t, a, timeoutLedgers))
          = Promise!Deal(p, t, a, seq + timeoutLedgers, "held")
    BY DEF DealOf, Opened, Deadline, PromisedState, Promise!Deal
  <2>3. seq + timeoutLedgers \in 0 .. MaxSeq
    BY <1>1, <1>3 DEF OpenQuestion, RoomToOpen
  <2>4. q \notin DOMAIN Deals
    BY <1>2, <1>3 DEF OpenQuestion
  <2>5. QED  BY <2>1, <2>2, <2>3, <2>4 DEF Promise!Fund, Promise!Put, Put
<1>4. ASSUME NEW a \in Amounts, ReopenQuestion(q, a)
      PROVE  Promise!FundAgain(q)
  <2>1. Deals' = Put(Deals, q, DealOf(Reopened(question[q], a)))
    BY <1>4, DealsPut DEF ReopenQuestion
  <2>2. DealOf(Reopened(question[q], a))
          = Promise!Deal(question[q].payer, question[q].token, a,
                         seq + question[q].timeout, "held")
    BY DEF DealOf, Reopened, Opened, Deadline, PromisedState, Promise!Deal
  <2>3. q \in DOMAIN question /\ question[q].status = "Refunded"
    BY <1>4 DEF ReopenQuestion, StatusIs
  <2>4. seq + question[q].timeout \in 0 .. MaxSeq
    <3> DEFINE timeout == question[q].timeout
    <3>1. timeout \in Timeouts /\ timeout \in Nat
      BY <1>1, <2>3 DEF QuestionType
    <3>2. seq + timeout <= MaxSeq
      BY <1>4 DEF ReopenQuestion, RoomToOpen
    <3> HIDE DEF timeout
    <3>3. seq + timeout \in 0 .. MaxSeq
      BY <1>1, <3>1, <3>2
    <3>4. QED  BY <3>3 DEF timeout
  <2>5. /\ q \in DOMAIN Deals /\ Deals[q].state = "returned"
        /\ Deals[q].payer = question[q].payer /\ Deals[q].token = question[q].token
    BY <1>2, <2>3 DEF DealOf, PromisedState
  <2>6. QED  BY <2>1, <2>2, <2>4, <2>5 DEF Promise!FundAgain, Promise!Put, Put
<1>13. ASSUME NEW a \in Amounts, NEW p \in Payers, NEW t \in Tokens, ImportStep(q, p, t, a)
       PROVE  Promise!Fund(q)
  <2>1. PICK age \in ImportAges, timeout \in Timeouts :
          age <= seq /\ ImportQuestion(q, p, t, a, seq - age, timeout)
    BY <1>13 DEF ImportStep
  <2>2. Deals' = Put(Deals, q, DealOf(Imported(p, t, a, seq - age, timeout)))
    BY <2>1, DealsPut DEF ImportQuestion
  <2>3. DealOf(Imported(p, t, a, seq - age, timeout))
          = Promise!Deal(p, t, a, seq - age + timeout, "held")
    BY DEF DealOf, Imported, Opened, Deadline, PromisedState, Promise!Deal
  <2>4. seq - age + timeout \in 0 .. MaxSeq
    BY <1>1, <2>1 DEF ImportQuestion, RoomToOpen
  <2>5. q \notin DOMAIN Deals
    BY <1>2, <2>1 DEF ImportQuestion
  <2>6. QED  BY <2>2, <2>3, <2>4, <2>5 DEF Promise!Fund, Promise!Put, Put
<1>5. ASSUME NEW old \in Statuses, StatusIs(q, old), NEW new \in Statuses, SetStatus(q, new)
      PROVE  /\ q \in DOMAIN Deals
             /\ Deals[q].state = PromisedState(old)
             /\ Deals' = [Deals EXCEPT ![q].state = PromisedState(new)]
  BY <1>1, <1>2, <1>5, DealsMove DEF StatusIs, DealOf
<1> USE DEF Statuses, OpenStatuses, PromisedState
<1>6. ASSUME NEW v \in Verdicts, ResolveQuestion(q, v)
      PROVE  Promise!Pay(q)
  BY <1>5, <1>6 DEF ResolveQuestion, SettleQuestion, Promise!Pay, Promise!Moves
<1>7. ASSUME NEW v \in Verdicts, ResolveEscalated(q, v)
      PROVE  Promise!Pay(q)
  BY <1>5, <1>7 DEF ResolveEscalated, SettleQuestion, Promise!Pay, Promise!Moves
<1>8. ASSUME FinalizeQuestion(q)
      PROVE  Promise!Pay(q)
  BY <1>5, <1>8 DEF FinalizeQuestion, Finalizable, SettleQuestion, Promise!Pay, Promise!Moves
<1>9. ASSUME RefundQuestion(q) \/ TimeoutQuestion(q)
      PROVE  Promise!Return(q)
  BY <1>5, <1>9
     DEF RefundQuestion, TimeoutQuestion, SettleQuestion, Promise!Return, Promise!Moves
<1>14. ASSUME MigrateQuestion(q)
       PROVE  Promise!Leave(q)
  BY <1>5, <1>14 DEF MigrateQuestion, SettleQuestion, Promise!Leave, Promise!Moves
<1>10. ASSUME NEW v \in Verdicts,
              \/ EscalateQuestion(q, v)
              \/ \E window \in Windows : ResolveChallengeable(q, v, window)
       PROVE  Promise!Judge(q)
  BY <1>5, <1>10 DEF EscalateQuestion, ResolveChallengeable, Promise!Judge, Promise!Moves
<1>11. ASSUME \/ \E c \in Challengers, a \in Bonds : PostBond(q, c, a)
              \/ DisputeResolve(q)
       PROVE  UNCHANGED Deals
  BY <1>11 DEF PostBond, DisputeResolve, Deals, DealOf
<1>12. QED
  BY <1>3, <1>4, <1>6, <1>7, <1>8, <1>9, <1>10, <1>11, <1>13, <1>14
     DEF QuestionStep, FundingStep, VerdictStep, ReviewStep, Promise!Next

\* Every entry point that touches a question, in any order, keeps what
\* EscrowPromise says of it: fixed terms while the money is held, one payment
\* or one return, no return while a verdict is under review.
THEOREM QuestionsKeepPromise == QuestionsSpec => PromiseKept
<1>1. QuestionsInit => Promise!Init
  BY DEF QuestionsInit, Promise!Init, Promise!NoEntries, Deals, NoEntries
<1>2. ASSUME QuestionsInv, [QuestionsNext]_questionsVars
      PROVE  [Promise!Next]_Deals
  <2>1. CASE \E q \in Ids : QuestionStep(q) /\ UNCHANGED <<seq, configVars>>
    BY <1>2, <2>1, QuestionStepKeepsPromise
  <2>2. CASE UNCHANGED question
    BY <2>2 DEF Deals, DealOf
  <2>3. QED
    BY <1>2, <2>1, <2>2 DEF QuestionsNext, questionsVars, recordVars
<1>3. QED
  BY <1>1, <1>2, QuestionsInvHolds, PTL DEF QuestionsSpec, PromiseKept, Promise!Spec
=============================================================================
