-------------------------- MODULE MigrationProofs --------------------------
(***************************************************************************)
(* To the payer the source and the target are one contract.  The invariant *)
(* behind it, PairInv, says that a question that left the source is known  *)
(* to the target: an import refuses an id that is in use and no action of  *)
(* the target forgets one, so that nothing at the target is ever replaced, *)
(* and a question that is handed over is handed over once.  Nothing in it  *)
(* is about the orchestrator: whatever batches are sent, lost or late, the *)
(* two contracts keep the promise on their own.                            *)
(***************************************************************************)
EXTENDS Migration, TLAPS

RecordType ==
  [payer : Payers, token : Tokens, amount : Amounts, status : Old!Statuses,
   createdAt : Nat, timeout : Timeouts]

\* A record as QuestionsTypeOK has it, with a deadline the clock reaches.
RecordOK(r) == r \in RecordType /\ r.createdAt + r.timeout <= MaxSeq
RecordsOK(records) == \A q \in DOMAIN records : RecordOK(records[q])

PairInv ==
  /\ seq \in Nat /\ oldTimeoutLedgers \in Timeouts /\ newTimeoutLedgers \in Timeouts
  /\ RecordsOK(oldQuestion) /\ RecordsOK(newQuestion)
  /\ Migrated \subseteq DOMAIN newQuestion

-----------------------------------------------------------------------------
(* What an instance in use does to the record of one question.             *)

\* What may happen to the record of a question in one call, other than being
\* handed over: it is opened, reopened, or moves on to a status of its own.
RecordMoves(records, after, q) ==
  \E r :
    /\ RecordOK(r) /\ after = Put(records, q, r)
    /\ \/ q \notin DOMAIN records /\ r.status = "Pending"
       \/ /\ q \in DOMAIN records /\ records[q].status = "Refunded" /\ r.status = "Pending"
          /\ r.payer = records[q].payer /\ r.token = records[q].token
       \/ /\ q \in DOMAIN records
          /\ r.payer = records[q].payer /\ r.token = records[q].token
          /\ r.amount = records[q].amount
          /\ r.createdAt = records[q].createdAt /\ r.timeout = records[q].timeout
          /\ \/ /\ records[q].status = "Pending"
                /\ r.status \in {"Disputed", "ResolvedPending", "Resolved", "Refunded"}
             \/ records[q].status \in {"Disputed", "ResolvedPending"} /\ r.status = "Resolved"

\* The source's calls.
LEMMA SourceUseMoves ==
  ASSUME PairInv, NEW q \in Ids, SourceUse(q)
  PROVE  oldQuestion' = oldQuestion \/ RecordMoves(oldQuestion, oldQuestion', q)
<1>1. CASE Old!FundingStep(q)
  <2>1. PICK a \in Amounts :
          \/ \E p \in Payers, t \in Tokens : Old!OpenQuestion(q, p, t, a) \/ Old!ImportStep(q, p, t, a)
          \/ Old!ReopenQuestion(q, a)
    BY <1>1 DEF Old!FundingStep
  <2>2. ASSUME NEW p \in Payers, NEW t \in Tokens, Old!OpenQuestion(q, p, t, a)
        PROVE  RecordMoves(oldQuestion, oldQuestion', q)
    <3>1. RecordOK(Old!Opened(p, t, a, oldTimeoutLedgers))
      BY <2>2, MigrationAssumption
         DEF PairInv, RecordsOK, RecordOK, RecordType, Old!OpenQuestion, Old!Opened, Old!RoomToOpen,
             Old!Statuses, Old!OpenStatuses
    <3>2. PICK r : r = Old!Opened(p, t, a, oldTimeoutLedgers)
      OBVIOUS
    <3>3. q \notin DOMAIN oldQuestion /\ oldQuestion' = Put(oldQuestion, q, r)
      BY <2>2, <3>2 DEF Old!OpenQuestion, Old!Put, Put
    <3>4. r.status = "Pending"
      BY <3>2 DEF Old!Opened
    <3>5. QED  BY <3>1, <3>2, <3>3, <3>4 DEF RecordMoves
  <2>3. ASSUME NEW p, NEW t, Old!ImportStep(q, p, t, a)
        PROVE  FALSE
    BY <2>3 DEF Old!ImportStep
  <2>4. CASE Old!ReopenQuestion(q, a)
    <3>1. q \in DOMAIN oldQuestion /\ oldQuestion[q] \in RecordType
      BY <2>4 DEF Old!ReopenQuestion, Old!StatusIs, PairInv, RecordsOK, RecordOK
    <3>2. RecordOK(Old!Reopened(oldQuestion[q], a))
      BY <2>4, <3>1, MigrationAssumption
         DEF PairInv, RecordsOK, RecordOK, RecordType, Old!ReopenQuestion, Old!Reopened, Old!Opened,
             Old!RoomToOpen, Old!Statuses, Old!OpenStatuses
    <3>3. PICK r : r = Old!Reopened(oldQuestion[q], a)
      OBVIOUS
    <3>4. oldQuestion[q].status = "Refunded" /\ oldQuestion' = Put(oldQuestion, q, r)
      BY <2>4, <3>3 DEF Old!ReopenQuestion, Old!StatusIs, Old!Put, Put
    <3>5. /\ r.payer = oldQuestion[q].payer /\ r.token = oldQuestion[q].token
          /\ r.status = "Pending"
      BY <3>3 DEF Old!Reopened, Old!Opened
    <3>6. QED  BY <3>1, <3>2, <3>3, <3>4, <3>5 DEF RecordMoves
  <2>5. QED  BY <2>1, <2>2, <2>3, <2>4
<1>2. ASSUME NEW status, Old!SetStatus(q, status), q \in DOMAIN oldQuestion,
             \/ oldQuestion[q].status = "Pending"
                /\ status \in {"Disputed", "ResolvedPending", "Resolved", "Refunded"}
             \/ oldQuestion[q].status \in {"Disputed", "ResolvedPending"} /\ status = "Resolved"
      PROVE  RecordMoves(oldQuestion, oldQuestion', q)
  <2>1. PICK r : r = [oldQuestion[q] EXCEPT !.status = status]
    OBVIOUS
  <2>2. RecordOK(oldQuestion[q])
    BY <1>2 DEF PairInv, RecordsOK
  <2>3. /\ r \in RecordType /\ r.status = status
        /\ r.payer = oldQuestion[q].payer /\ r.token = oldQuestion[q].token
        /\ r.amount = oldQuestion[q].amount
        /\ r.createdAt = oldQuestion[q].createdAt /\ r.timeout = oldQuestion[q].timeout
    BY <1>2, <2>1, <2>2 DEF RecordOK, RecordType, Old!Statuses, Old!OpenStatuses
  <2>4. RecordOK(r)
    BY <2>2, <2>3 DEF RecordOK
  <2>5. oldQuestion' = Put(oldQuestion, q, r)
    BY <1>2, <2>1 DEF Old!SetStatus, Put
  <2>6. QED  BY <1>2, <2>3, <2>4, <2>5 DEF RecordMoves
<1>3. CASE Old!VerdictStep(q)
  <2>1. PICK v \in Verdicts :
          \/ Old!ResolveQuestion(q, v) \/ Old!EscalateQuestion(q, v) \/ Old!ResolveEscalated(q, v)
          \/ \E window \in Windows : Old!ResolveChallengeable(q, v, window)
    BY <1>3 DEF Old!VerdictStep
  <2>2. QED  BY <1>2, <2>1 DEF Old!ResolveQuestion, Old!EscalateQuestion, Old!ResolveEscalated,
               Old!ResolveChallengeable, Old!SettleQuestion, Old!StatusIs
<1>4. CASE Old!ReviewStep(q)
  <2>1. CASE Old!FinalizeQuestion(q)
    BY <1>2, <2>1 DEF Old!FinalizeQuestion, Old!Finalizable, Old!SettleQuestion, Old!StatusIs
  <2>2. QED  BY <1>4, <2>1 DEF Old!ReviewStep, Old!PostBond, Old!DisputeResolve
<1>5. CASE Old!RefundQuestion(q) \/ Old!TimeoutQuestion(q)
  BY <1>2, <1>5 DEF Old!RefundQuestion, Old!TimeoutQuestion, Old!SettleQuestion, Old!StatusIs
<1>6. QED  BY <1>1, <1>3, <1>4, <1>5 DEF SourceUse

\* The target's calls, on the same grounds.
LEMMA TargetUseMoves ==
  ASSUME PairInv, NEW q \in Ids, TargetUse(q)
  PROVE  newQuestion' = newQuestion \/ RecordMoves(newQuestion, newQuestion', q)
<1>1. CASE New!FundingStep(q)
  <2>1. PICK a \in Amounts :
          \/ \E p \in Payers, t \in Tokens : New!OpenQuestion(q, p, t, a) \/ New!ImportStep(q, p, t, a)
          \/ New!ReopenQuestion(q, a)
    BY <1>1 DEF New!FundingStep
  <2>2. ASSUME NEW p \in Payers, NEW t \in Tokens, New!OpenQuestion(q, p, t, a)
        PROVE  RecordMoves(newQuestion, newQuestion', q)
    <3>1. RecordOK(New!Opened(p, t, a, newTimeoutLedgers))
      BY <2>2, MigrationAssumption
         DEF PairInv, RecordsOK, RecordOK, RecordType, New!OpenQuestion, New!Opened, New!RoomToOpen,
             New!Statuses, New!OpenStatuses,
             Old!Statuses, Old!OpenStatuses
    <3>2. PICK r : r = New!Opened(p, t, a, newTimeoutLedgers)
      OBVIOUS
    <3>3. q \notin DOMAIN newQuestion /\ newQuestion' = Put(newQuestion, q, r)
      BY <2>2, <3>2 DEF New!OpenQuestion, New!Put, Put
    <3>4. r.status = "Pending"
      BY <3>2 DEF New!Opened
    <3>5. QED  BY <3>1, <3>2, <3>3, <3>4 DEF RecordMoves
  <2>3. ASSUME NEW p, NEW t, New!ImportStep(q, p, t, a)
        PROVE  FALSE
    BY <2>3 DEF New!ImportStep
  <2>4. CASE New!ReopenQuestion(q, a)
    <3>1. q \in DOMAIN newQuestion /\ newQuestion[q] \in RecordType
      BY <2>4 DEF New!ReopenQuestion, New!StatusIs, PairInv, RecordsOK, RecordOK
    <3>2. RecordOK(New!Reopened(newQuestion[q], a))
      BY <2>4, <3>1, MigrationAssumption
         DEF PairInv, RecordsOK, RecordOK, RecordType, New!ReopenQuestion, New!Reopened, New!Opened,
             New!RoomToOpen, New!Statuses, New!OpenStatuses,
             Old!Statuses, Old!OpenStatuses
    <3>3. PICK r : r = New!Reopened(newQuestion[q], a)
      OBVIOUS
    <3>4. newQuestion[q].status = "Refunded" /\ newQuestion' = Put(newQuestion, q, r)
      BY <2>4, <3>3 DEF New!ReopenQuestion, New!StatusIs, New!Put, Put
    <3>5. /\ r.payer = newQuestion[q].payer /\ r.token = newQuestion[q].token
          /\ r.status = "Pending"
      BY <3>3 DEF New!Reopened, New!Opened
    <3>6. QED  BY <3>1, <3>2, <3>3, <3>4, <3>5 DEF RecordMoves
  <2>5. QED  BY <2>1, <2>2, <2>3, <2>4
<1>2. ASSUME NEW status, New!SetStatus(q, status), q \in DOMAIN newQuestion,
             \/ newQuestion[q].status = "Pending"
                /\ status \in {"Disputed", "ResolvedPending", "Resolved", "Refunded"}
             \/ newQuestion[q].status \in {"Disputed", "ResolvedPending"} /\ status = "Resolved"
      PROVE  RecordMoves(newQuestion, newQuestion', q)
  <2>1. PICK r : r = [newQuestion[q] EXCEPT !.status = status]
    OBVIOUS
  <2>2. RecordOK(newQuestion[q])
    BY <1>2 DEF PairInv, RecordsOK
  <2>3. /\ r \in RecordType /\ r.status = status
        /\ r.payer = newQuestion[q].payer /\ r.token = newQuestion[q].token
        /\ r.amount = newQuestion[q].amount
        /\ r.createdAt = newQuestion[q].createdAt /\ r.timeout = newQuestion[q].timeout
    BY <1>2, <2>1, <2>2 DEF RecordOK, RecordType, New!Statuses, New!OpenStatuses,
             Old!Statuses, Old!OpenStatuses
  <2>4. RecordOK(r)
    BY <2>2, <2>3 DEF RecordOK
  <2>5. newQuestion' = Put(newQuestion, q, r)
    BY <1>2, <2>1 DEF New!SetStatus, Put
  <2>6. QED  BY <1>2, <2>3, <2>4, <2>5 DEF RecordMoves
<1>3. CASE New!VerdictStep(q)
  <2>1. PICK v \in Verdicts :
          \/ New!ResolveQuestion(q, v) \/ New!EscalateQuestion(q, v) \/ New!ResolveEscalated(q, v)
          \/ \E window \in Windows : New!ResolveChallengeable(q, v, window)
    BY <1>3 DEF New!VerdictStep
  <2>2. QED  BY <1>2, <2>1 DEF New!ResolveQuestion, New!EscalateQuestion, New!ResolveEscalated,
               New!ResolveChallengeable, New!SettleQuestion, New!StatusIs
<1>4. CASE New!ReviewStep(q)
  <2>1. CASE New!FinalizeQuestion(q)
    BY <1>2, <2>1 DEF New!FinalizeQuestion, New!Finalizable, New!SettleQuestion, New!StatusIs
  <2>2. QED  BY <1>4, <2>1 DEF New!ReviewStep, New!PostBond, New!DisputeResolve
<1>5. CASE New!RefundQuestion(q) \/ New!TimeoutQuestion(q)
  BY <1>2, <1>5 DEF New!RefundQuestion, New!TimeoutQuestion, New!SettleQuestion, New!StatusIs
<1>6. QED  BY <1>1, <1>3, <1>4, <1>5 DEF TargetUse

-----------------------------------------------------------------------------
(* The two sets of records as one.                                         *)

\* The record that counts: the target's once the question is handed over.
Whole == [q \in DOMAIN oldQuestion |-> IF q \in Migrated THEN newQuestion[q] ELSE oldQuestion[q]]

DealsOf(records) == [q \in DOMAIN records |-> Old!DealOf(records[q])]

\* Both instances read the promise off a record in the same way.
LEMMA HandedOverAreDeals == HandedOver = DealsOf(Whole)
<1>1. \A r : Old!DealOf(r) = New!DealOf(r)
  BY DEF Old!DealOf, New!DealOf, Old!Deadline, New!Deadline, Old!PromisedState, New!PromisedState
<1>2. /\ DOMAIN Whole = DOMAIN oldQuestion
      /\ \A q \in DOMAIN oldQuestion :
           Whole[q] = IF q \in Migrated THEN newQuestion[q] ELSE oldQuestion[q]
  BY DEF Whole
<1>3. \A q \in DOMAIN oldQuestion :
        Old!DealOf(Whole[q]) = IF q \in Migrated THEN New!DealOf(newQuestion[q])
                                                 ELSE Old!DealOf(oldQuestion[q])
  BY <1>1, <1>2
<1> HIDE DEF Whole
<1>4. QED  BY <1>2, <1>3 DEF HandedOver, DealsOf

\* A call keeps the records well formed, forgets no question, changes no record
\* but its own and hands nothing over.
LEMMA RecordsStayOK ==
  ASSUME NEW records, NEW after, NEW q, RecordsOK(records),
         after = records \/ RecordMoves(records, after, q)
  PROVE  /\ RecordsOK(after)
         /\ DOMAIN records \subseteq DOMAIN after
         /\ {p \in DOMAIN after : after[p].status = "Migrated"}
              = {p \in DOMAIN records : records[p].status = "Migrated"}
<1>1. CASE after = records
  BY <1>1
<1>2. CASE RecordMoves(records, after, q)
  <2>1. PICK r : /\ RecordOK(r) /\ after = Put(records, q, r) /\ r.status # "Migrated"
                 /\ q \in DOMAIN records => records[q].status # "Migrated"
    BY <1>2 DEF RecordMoves
  <2>2. /\ DOMAIN after = DOMAIN records \cup {q}
        /\ \A p \in DOMAIN after : after[p] = IF p = q THEN r ELSE records[p]
    BY <2>1 DEF Put
  <2>3. QED  BY <2>1, <2>2 DEF RecordsOK
<1>3. QED  BY <1>1, <1>2

\* The same one step later.
LEMMA HandedOverAreDealsNext == HandedOver' = DealsOf(Whole')
<1>1. (HandedOver = DealsOf(Whole))'
  BY HandedOverAreDeals, PTL
<1>2. QED  BY <1>1 DEF DealsOf

\* A move of a record is a step of the promise.
LEMMA MovesKeepPromise ==
  ASSUME RecordsOK(Whole), NEW q \in Ids, RecordMoves(Whole, Whole', q)
  PROVE  PairPromise!Next
<1>1. PICK w, x : w = Whole /\ x = Whole'
  OBVIOUS
<1>2. PICK r : /\ RecordOK(r) /\ x = Put(w, q, r)
               /\ \/ q \notin DOMAIN w /\ r.status = "Pending"
                  \/ /\ q \in DOMAIN w /\ w[q].status = "Refunded" /\ r.status = "Pending"
                     /\ r.payer = w[q].payer /\ r.token = w[q].token
                  \/ /\ q \in DOMAIN w
                     /\ r.payer = w[q].payer /\ r.token = w[q].token /\ r.amount = w[q].amount
                     /\ r.createdAt = w[q].createdAt /\ r.timeout = w[q].timeout
                     /\ \/ /\ w[q].status = "Pending"
                           /\ r.status \in {"Disputed", "ResolvedPending", "Resolved", "Refunded"}
                        \/ w[q].status \in {"Disputed", "ResolvedPending"} /\ r.status = "Resolved"
  BY <1>1 DEF RecordMoves
<1>3. PICK e, f : e = HandedOver /\ f = HandedOver'
  OBVIOUS
<1>4. e = [p \in DOMAIN w |-> Old!DealOf(w[p])] /\ f = [p \in DOMAIN x |-> Old!DealOf(x[p])]
  BY <1>1, <1>3, HandedOverAreDeals, HandedOverAreDealsNext DEF DealsOf
<1>5. /\ DOMAIN x = DOMAIN w \cup {q} /\ x[q] = r
      /\ \A p \in DOMAIN w : p # q => x[p] = w[p]
  BY <1>2 DEF Put
<1>6. /\ DOMAIN e = DOMAIN w /\ DOMAIN f = DOMAIN e \cup {q}
      /\ f = [p \in DOMAIN e \cup {q} |-> IF p = q THEN Old!DealOf(r) ELSE e[p]]
  BY <1>4, <1>5
<1>7. /\ r.payer \in Payers /\ r.token \in Tokens /\ r.amount \in Amounts
      /\ r.createdAt + r.timeout \in 0 .. MaxSeq
  <2>1. /\ r.payer \in Payers /\ r.token \in Tokens /\ r.amount \in Amounts
        /\ r.createdAt \in Nat /\ r.timeout \in Timeouts /\ r.createdAt + r.timeout <= MaxSeq
    BY <1>2 DEF RecordOK, RecordType
  <2>2. MaxSeq \in Nat /\ r.timeout \in Nat
    BY <2>1, MigrationAssumption
  <2>3. QED  BY <2>1, <2>2
<1>8. ASSUME r.status = "Pending"
      PROVE  Old!DealOf(r) = PairPromise!Deal(r.payer, r.token, r.amount,
                                              r.createdAt + r.timeout, "held")
  BY <1>8 DEF Old!DealOf, Old!Deadline, Old!PromisedState, PairPromise!Deal
<1>9. CASE q \notin DOMAIN w /\ r.status = "Pending"
  <2>1. f = PairPromise!Put(e, q, PairPromise!Deal(r.payer, r.token, r.amount,
                                                   r.createdAt + r.timeout, "held"))
    BY <1>6, <1>8, <1>9 DEF PairPromise!Put
  <2>2. PairPromise!Fund(q)
    BY <1>3, <1>6, <1>7, <1>9, <2>1 DEF PairPromise!Fund
  <2>3. QED  BY <2>2 DEF PairPromise!Next
<1>10. CASE /\ q \in DOMAIN w /\ w[q].status = "Refunded" /\ r.status = "Pending"
            /\ r.payer = w[q].payer /\ r.token = w[q].token
  <2>1. e[q].state = "returned" /\ e[q].payer = r.payer /\ e[q].token = r.token
    BY <1>4, <1>10 DEF Old!DealOf, Old!PromisedState
  <2>2. f = PairPromise!Put(e, q, PairPromise!Deal(e[q].payer, e[q].token, r.amount,
                                                   r.createdAt + r.timeout, "held"))
    BY <1>6, <1>8, <1>10, <2>1 DEF PairPromise!Put
  <2>3. PairPromise!FundAgain(q)
    BY <1>3, <1>6, <1>7, <1>10, <2>1, <2>2 DEF PairPromise!FundAgain
  <2>4. QED  BY <2>3 DEF PairPromise!Next
<1>11. ASSUME q \in DOMAIN w, NEW state,
              r.payer = w[q].payer, r.token = w[q].token, r.amount = w[q].amount,
              r.createdAt = w[q].createdAt, r.timeout = w[q].timeout,
              Old!PromisedState(r.status) = state
       PROVE  HandedOver' = [HandedOver EXCEPT ![q].state = state]
  <2>1. Old!DealOf(r) = [Old!DealOf(w[q]) EXCEPT !.state = state]
    BY <1>11 DEF Old!DealOf, Old!Deadline
  <2>2. e[q] = Old!DealOf(w[q])
    BY <1>4, <1>11
  <2>3. f = [e EXCEPT ![q].state = state]
    BY <1>6, <1>11, <2>1, <2>2
  <2>4. QED  BY <1>3, <2>3
<1>12. CASE /\ q \in DOMAIN w
            /\ r.payer = w[q].payer /\ r.token = w[q].token /\ r.amount = w[q].amount
            /\ r.createdAt = w[q].createdAt /\ r.timeout = w[q].timeout
            /\ \/ /\ w[q].status = "Pending"
                  /\ r.status \in {"Disputed", "ResolvedPending", "Resolved", "Refunded"}
               \/ w[q].status \in {"Disputed", "ResolvedPending"} /\ r.status = "Resolved"
  <2>1. HandedOver' = [HandedOver EXCEPT ![q].state = Old!PromisedState(r.status)]
    BY <1>11, <1>12
  <2>2. q \in DOMAIN HandedOver /\ HandedOver[q].state = Old!PromisedState(w[q].status)
    BY <1>3, <1>4, <1>12 DEF Old!DealOf
  <2>3. \/ /\ Old!PromisedState(w[q].status) = "held"
           /\ Old!PromisedState(r.status) \in {"review", "paid", "returned"}
        \/ Old!PromisedState(w[q].status) = "review" /\ Old!PromisedState(r.status) = "paid"
    BY <1>12 DEF Old!PromisedState
  <2>4. PairPromise!Judge(q) \/ PairPromise!Pay(q) \/ PairPromise!Return(q)
    BY <2>1, <2>2, <2>3
       DEF PairPromise!Judge, PairPromise!Pay, PairPromise!Return, PairPromise!Moves
  <2>5. QED  BY <2>4 DEF PairPromise!Next
<1>13. QED  BY <1>2, <1>9, <1>10, <1>12

-----------------------------------------------------------------------------
(* The steps of the pair.                                                  *)

\* The record that counts is well formed.
LEMMA WholeIsOK ==
  ASSUME PairInv
  PROVE  RecordsOK(Whole)
BY DEF PairInv, RecordsOK, Whole

\* A call at the source moves the record that counts: it cannot be one that was
\* handed over, and hands nothing over itself.
LEMMA SourceUseKeepsPair ==
  ASSUME PairInv, NEW q \in Ids, SourceUse(q)
  PROVE  PairInv' /\ [PairPromise!Next]_HandedOver
<1>1. /\ UNCHANGED <<seq, oldTimeoutLedgers, newTimeoutLedgers, newQuestion>>
      /\ oldQuestion' = oldQuestion \/ RecordMoves(oldQuestion, oldQuestion', q)
  BY SourceUseMoves DEF SourceUse, oldConfig, newConfig, newVars
<1>2. RecordsOK(oldQuestion') /\ Migrated' = Migrated
  BY <1>1, RecordsStayOK DEF PairInv, Migrated
<1>3. PairInv'
  BY <1>1, <1>2 DEF PairInv, RecordsOK
<1>4. CASE oldQuestion' = oldQuestion
  <2>1. Whole' = Whole
    BY <1>1, <1>2, <1>4 DEF Whole
  <2>2. QED  BY <1>3, <2>1, HandedOverAreDeals, HandedOverAreDealsNext
<1>5. CASE RecordMoves(oldQuestion, oldQuestion', q)
  <2>1. PICK r : /\ RecordOK(r) /\ oldQuestion' = Put(oldQuestion, q, r) /\ r.status # "Migrated"
                 /\ q \in DOMAIN oldQuestion => oldQuestion[q].status # "Migrated"
                 /\ \A records : /\ q \in DOMAIN records <=> q \in DOMAIN oldQuestion
                                 /\ q \in DOMAIN records => records[q] = oldQuestion[q]
                                 => RecordMoves(records, Put(records, q, r), q)
    BY <1>5 DEF RecordMoves
  <2>2. q \notin Migrated
    BY <2>1 DEF Migrated
  <2>3. /\ DOMAIN Whole = DOMAIN oldQuestion
        /\ q \in DOMAIN Whole => Whole[q] = oldQuestion[q]
    BY <2>2 DEF Whole
  <2>4. Whole' = Put(Whole, q, r)
    BY <1>1, <1>2, <2>1, <2>2 DEF Whole, Put
  <2>5. RecordMoves(Whole, Whole', q)
    BY <2>1, <2>3, <2>4
  <2>6. QED  BY <1>3, <2>5, WholeIsOK, MovesKeepPromise
<1>6. QED  BY <1>1, <1>3, <1>4, <1>5

\* A call at the target moves the record that counts if the question was handed
\* over; otherwise it is a question of the target's own.
LEMMA TargetUseKeepsPair ==
  ASSUME PairInv, NEW q \in Ids, TargetUse(q)
  PROVE  PairInv' /\ [PairPromise!Next]_HandedOver
<1>1. /\ UNCHANGED <<seq, oldTimeoutLedgers, newTimeoutLedgers, oldQuestion>>
      /\ newQuestion' = newQuestion \/ RecordMoves(newQuestion, newQuestion', q)
  BY TargetUseMoves DEF TargetUse, oldConfig, newConfig, oldVars
<1>2. RecordsOK(newQuestion') /\ DOMAIN newQuestion \subseteq DOMAIN newQuestion'
  BY <1>1, RecordsStayOK DEF PairInv
<1>3. Migrated' = Migrated
  BY <1>1 DEF Migrated
<1>4. PairInv'
  BY <1>1, <1>2, <1>3 DEF PairInv, RecordsOK
<1>5. CASE newQuestion' = newQuestion \/ q \notin Migrated
  <2>1. \A p \in Migrated : newQuestion'[p] = newQuestion[p]
    <3>1. CASE newQuestion' = newQuestion
      BY <3>1
    <3>2. CASE newQuestion' # newQuestion
      <4>1. PICK r : newQuestion' = Put(newQuestion, q, r)
        BY <1>1, <3>2 DEF RecordMoves
      <4>2. QED  BY <1>5, <3>2, <4>1 DEF Put, PairInv
    <3>3. QED  BY <3>1, <3>2
  <2>2. Whole' = Whole
    BY <1>1, <1>3, <2>1 DEF Whole
  <2>3. QED  BY <1>4, <2>2, HandedOverAreDeals, HandedOverAreDealsNext
<1>6. CASE RecordMoves(newQuestion, newQuestion', q) /\ q \in Migrated
  <2>1. PICK r : /\ RecordOK(r) /\ newQuestion' = Put(newQuestion, q, r)
                 /\ \A records : /\ q \in DOMAIN records <=> q \in DOMAIN newQuestion
                                 /\ q \in DOMAIN records => records[q] = newQuestion[q]
                                 => RecordMoves(records, Put(records, q, r), q)
    BY <1>6 DEF RecordMoves
  <2>2. /\ q \in DOMAIN newQuestion /\ q \in DOMAIN Whole /\ Whole[q] = newQuestion[q]
    BY <1>6 DEF PairInv, Whole, Migrated
  <2>3. Whole' = Put(Whole, q, r)
    BY <1>1, <1>3, <1>6, <2>1, <2>2 DEF Whole, Put, Migrated, PairInv
  <2>4. RecordMoves(Whole, Whole', q)
    BY <2>1, <2>2, <2>3
  <2>5. QED  BY <1>4, <2>4, WholeIsOK, MovesKeepPromise
<1>7. QED  BY <1>1, <1>5, <1>6

\* Handing over changes no record that counts: the target's new record is the
\* source's old one.
LEMMA MoveKeepsPair ==
  ASSUME PairInv, MoveNext
  PROVE  PairInv' /\ UNCHANGED HandedOver
<1>1. PICK q : /\ Old!MigrateQuestion(q)
               /\ New!ImportQuestion(q, oldQuestion[q].payer, oldQuestion[q].token,
                                     oldQuestion[q].amount, oldQuestion[q].createdAt,
                                     oldQuestion[q].timeout)
               /\ UNCHANGED <<oldTimeoutLedgers, newTimeoutLedgers, seq>>
  BY DEF MoveNext, MovePending, oldConfig, newConfig
<1>2. PICK r : r = oldQuestion[q]
  OBVIOUS
<1>3. /\ q \in DOMAIN oldQuestion /\ r.status = "Pending" /\ RecordOK(r)
      /\ oldQuestion' = [oldQuestion EXCEPT ![q].status = "Migrated"]
  BY <1>1, <1>2 DEF Old!MigrateQuestion, Old!StatusIs, Old!SettleQuestion, Old!SetStatus, PairInv,
                    RecordsOK
<1>4. q \notin DOMAIN newQuestion /\ newQuestion' = Put(newQuestion, q, r)
  <2>1. New!Imported(r.payer, r.token, r.amount, r.createdAt, r.timeout) = r
    BY <1>3 DEF New!Imported, New!Opened, RecordOK, RecordType
  <2>2. QED  BY <1>1, <1>2, <2>1 DEF New!ImportQuestion, New!Put, Put
<1>5. Migrated' = Migrated \cup {q} /\ q \notin Migrated
  BY <1>2, <1>3 DEF Migrated
<1>6. PairInv'
  <2>1. RecordsOK(oldQuestion')
    <3>1. PICK gone : gone = [r EXCEPT !.status = "Migrated"]
      OBVIOUS
    <3>2. gone \in RecordType /\ gone.createdAt = r.createdAt /\ gone.timeout = r.timeout
      BY <1>3, <3>1 DEF RecordOK, RecordType, Old!Statuses
    <3>3. oldQuestion' = Put(oldQuestion, q, gone)
      BY <1>2, <1>3, <3>1 DEF Put
    <3>4. QED  BY <1>3, <3>2, <3>3 DEF PairInv, RecordsOK, RecordOK, Put
  <2>2. RecordsOK(newQuestion') /\ Migrated' \subseteq DOMAIN newQuestion'
    BY <1>3, <1>4, <1>5 DEF PairInv, RecordsOK, Put
  <2>3. QED  BY <1>1, <2>1, <2>2 DEF PairInv
<1>7. Whole' = Whole
  BY <1>2, <1>3, <1>4, <1>5 DEF Whole, Put, PairInv
<1>8. QED  BY <1>6, <1>7, HandedOverAreDeals, HandedOverAreDealsNext

\* Nothing else touches a record.
LEMMA NextKeepsPair ==
  ASSUME PairInv, [MigrationNext]_migrationVars
  PROVE  PairInv' /\ [PairPromise!Next]_HandedOver
<1>1. ASSUME UNCHANGED <<oldQuestion, newQuestion, oldTimeoutLedgers, newTimeoutLedgers>>, seq' \in Nat
      PROVE  PairInv' /\ UNCHANGED HandedOver
  <2>1. Migrated' = Migrated /\ Whole' = Whole
    BY <1>1 DEF Migrated, Whole
  <2>2. PairInv'
    BY <1>1, <2>1 DEF PairInv, RecordsOK
  <2>3. QED  BY <2>1, <2>2, HandedOverAreDeals, HandedOverAreDealsNext
<1>2. CASE UNCHANGED migrationVars
  BY <1>1, <1>2 DEF migrationVars, oldVars, newVars, oldConfig, newConfig, PairInv
<1>3. CASE CloseLedger
  BY <1>1, <1>3 DEF CloseLedger, Old!Tick, oldVars, newVars, oldConfig, newConfig, PairInv
<1>4. ASSUME NEW b, NEW tx, \/ SetLink(b) \/ Land(tx) \/ Drop(tx) \/ Start \/ NextBatch \/ Crash
      PROVE  PairInv' /\ UNCHANGED HandedOver
  <2>1. UNCHANGED <<seq, oldVars, newVars>>
    BY <1>4 DEF SetLink, Land, Drop, Start, NextBatch, Crash
  <2>2. QED  BY <1>1, <2>1 DEF oldVars, newVars, oldConfig, newConfig, PairInv
<1>5. QED  BY <1>2, <1>3, <1>4, MoveKeepsPair, SourceUseKeepsPair, TargetUseKeepsPair
              DEF MigrationNext

\* To the payer the two instances are one.
THEOREM PairKeepsPromise == MigrationSpec => MigrationKeepsPromise
<1>1. ASSUME MigrationInit
      PROVE  PairInv /\ PairPromise!Init
  <2>1. /\ seq = 0 /\ oldTimeoutLedgers \in Timeouts /\ newTimeoutLedgers \in Timeouts
        /\ DOMAIN oldQuestion = {} /\ DOMAIN newQuestion = {}
    BY <1>1 DEF MigrationInit, Old!QuestionsInit, New!QuestionsInit, Old!NoEntries, New!NoEntries,
                Old!LedgerInit
  <2>2. PairInv
    BY <2>1 DEF PairInv, RecordsOK, Migrated
  <2>3. PairPromise!Init
    BY <2>1 DEF PairPromise!Init, PairPromise!NoEntries, HandedOver
  <2>4. QED  BY <2>2, <2>3
<1>2. PairInv /\ [MigrationNext]_migrationVars => PairInv' /\ [PairPromise!Next]_HandedOver
  BY NextKeepsPair
<1>3. QED  BY <1>1, <1>2, PTL DEF MigrationSpec, MigrationKeepsPromise, PairPromise!Spec
=============================================================================
