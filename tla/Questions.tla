----------------------------- MODULE Questions -----------------------------
(***************************************************************************)
(* The life of a question: everything the entry points do to the record of *)
(* a question, to the records of a verdict under review, to the pending    *)
(* index and to the health counters.  The money that moves in the same     *)
(* call is in OracleEscrow, whose entry points are built from these.       *)
(*                                                                         *)
(*   Pending -> Resolved          resolve                                  *)
(*   Pending -> Refunded          refund, refund_timeout, sweep_timeouts   *)
(*   Pending -> Disputed          escalate                                 *)
(*   Disputed -> Resolved         escalate_resolve                         *)
(*   Pending -> ResolvedPending   resolve_challengeable                    *)
(*   ResolvedPending -> Resolved  finalize_resolve                         *)
(*   Refunded -> Pending          reopen_question                          *)
(*   Pending -> Migrated          migrate_pending, at the source           *)
(*   no entry -> Pending          import_question, at the target           *)
(***************************************************************************)
EXTENDS ContractEnv, PendingIndex, Sequences, FiniteSets

CONSTANTS
  Payers,
  Challengers,       \* accounts that post challenge bonds
  Amounts,           \* amounts a question may escrow
  Bonds,             \* amounts of a challenge bond
  Verdicts,          \* worker lists a quorum may return, valid or not
  Windows,           \* dispute windows the admin may choose
  Timeouts,          \* values of the global timeout
  ImportAges,        \* ages of the questions another instance pushes in
  QuorumLimits,      \* bounds set_quorum_bounds() may set
  MAX_QUORUM_SIZE,   \* 64 in the code
  MaxOpened          \* bound: questions opened or reopened

ASSUME QuestionsAssumption ==
  /\ Amounts \subseteq Nat \ {0}
  /\ Bonds \subseteq Nat \ {0}
  /\ Verdicts \subseteq [workers : Seq(Workers), losers : Seq(Workers)]
  /\ Windows \subseteq Nat
  /\ Timeouts \subseteq Nat \ {0}
  /\ ImportAges \subseteq Nat
  /\ QuorumLimits \subseteq [min : Nat, max : Nat]
  /\ MAX_QUORUM_SIZE \in Nat
  /\ MaxOpened \in Nat

VARIABLES
  question,            \* Question(id), with QuestionToken(id) as its token
  pendingResolution,   \* PendingResolution(id)
  escalatedQuestion,   \* EscalatedQuestion(id)
  challengerBond,      \* ChallengerBond(id)
  counters,            \* OpenQuestionCount and the three Total...Count
  timeoutLedgers,      \* TimeoutLedgers, the global default
  quorumBounds         \* MinQuorum and MaxQuorum

reviewVars == <<pendingResolution, escalatedQuestion, challengerBond>>
configVars == <<timeoutLedgers, quorumBounds>>
recordVars == <<question, reviewVars, counters, indexVars>>
questionsVars == <<seq, recordVars, configVars>>

QuestionsInit ==
  /\ LedgerInit
  /\ IndexInit
  /\ question = NoEntries
  /\ pendingResolution = NoEntries
  /\ escalatedQuestion = NoEntries
  /\ challengerBond = NoEntries
  /\ counters = [open |-> 0, opened |-> 0, resolved |-> 0, refunded |-> 0]
  /\ timeoutLedgers \in Timeouts
  /\ quorumBounds = [min |-> 0, max |-> MAX_QUORUM_SIZE]

-----------------------------------------------------------------------------
(* Reading a question.                                                     *)

StatusIs(q, status) == q \in DOMAIN question /\ question[q].status = status

Deadline(record) == record.createdAt + record.timeout

\* validate_worker_lists(): nobody is named twice.
Duplicates(list) == \E i, j \in DOMAIN list : i # j /\ list[i] = list[j]
ValidWorkerLists(v) ==
  /\ ~Duplicates(v.workers) /\ ~Duplicates(v.losers)
  /\ Range(v.workers) \cap Range(v.losers) = {}

QuorumSize(v) == Len(v.workers) + Len(v.losers)

\* The checks every verdict goes through, and the admin's bounds, which
\* escalate() does not apply to the verdict it files.
Acceptable(v) ==
  /\ v.workers # <<>>
  /\ QuorumSize(v) <= MAX_QUORUM_SIZE
  /\ ValidWorkerLists(v)
InQuorumBounds(v) == QuorumSize(v) \in quorumBounds.min .. quorumBounds.max

-----------------------------------------------------------------------------
(* Opening.                                                                *)

\* bump_counter() for a question that opens.
CountOpened ==
  counters' = [counters EXCEPT !.open = @ + 1, !.opened = @ + 1]

\* Bounds: how many questions open, and deadlines the clock can reach.
RoomToOpen(deadline) ==
  /\ counters.opened < MaxOpened
  /\ deadline <= MaxSeq

Opened(p, t, a, timeout) ==
  [payer |-> p, token |-> t, amount |-> a, status |-> "Pending",
   createdAt |-> seq, timeout |-> timeout]

\* Fault: an id that has been used before is opened again.
OpenQuestionTwice(q, p, t, a) ==
  /\ RoomToOpen(seq + timeoutLedgers)
  /\ question' = Put(question, q, Opened(p, t, a, timeoutLedgers))
  /\ IndexAdd(q)
  /\ CountOpened
  /\ UNCHANGED reviewVars

\* open_question() and record_question().
OpenQuestion(q, p, t, a) ==
  /\ q \notin DOMAIN question
  /\ RoomToOpen(seq + timeoutLedgers)
  /\ question' = Put(question, q, Opened(p, t, a, timeoutLedgers))
  /\ IndexAdd(q)
  /\ CountOpened
  /\ UNCHANGED reviewVars

\* Fault: the question is reopened with what the refund left in it.
ReopenedEmpty(record, a) == Opened(record.payer, record.token, 0, record.timeout)

Reopened(record, a) == Opened(record.payer, record.token, a, record.timeout)

\* reopen_question(): the caller is the question's payer, so that only the
\* amount is new.  The clock restarts, with the old timeout.
ReopenQuestion(q, a) ==
  /\ StatusIs(q, "Refunded")
  /\ RoomToOpen(seq + question[q].timeout)
  /\ question' = Put(question, q, Reopened(question[q], a))
  /\ IndexAdd(q)
  /\ CountOpened
  /\ UNCHANGED reviewVars

Imported(p, t, a, createdAt, timeout) ==
  [Opened(p, t, a, timeout) EXCEPT !.createdAt = createdAt]

\* Fault: the clock of an imported question restarts.
ImportQuestionRestarted(q, p, t, a, createdAt, timeout) ==
  /\ q \notin DOMAIN question
  /\ RoomToOpen(createdAt + timeout)
  /\ question' = Put(question, q, Opened(p, t, a, timeout))
  /\ IndexAdd(q)
  /\ CountOpened
  /\ UNCHANGED reviewVars

\* import_question(): the clock that started in the other instance goes on.
ImportQuestion(q, p, t, a, createdAt, timeout) ==
  /\ q \notin DOMAIN question
  /\ RoomToOpen(createdAt + timeout)
  /\ question' = Put(question, q, Imported(p, t, a, createdAt, timeout))
  /\ IndexAdd(q)
  /\ CountOpened
  /\ UNCHANGED reviewVars

-----------------------------------------------------------------------------
(* Settling.                                                               *)

SetStatus(q, status) == question' = [question EXCEPT ![q].status = status]

\* Fault: a refund does not drop the open count.
CountSettledRefundOpen(status) ==
  counters' =
    [open     |-> IF counters.open = 0 \/ status = "Refunded" THEN counters.open
                                                              ELSE counters.open - 1,
     opened   |-> counters.opened,
     resolved |-> counters.resolved + (IF status = "Resolved" THEN 1 ELSE 0),
     refunded |-> counters.refunded + (IF status = "Refunded" THEN 1 ELSE 0)]

\* drop_counter() and bump_counter() of settle_question().
CountSettled(status) ==
  counters' =
    [open     |-> IF counters.open = 0 THEN 0 ELSE counters.open - 1,
     opened   |-> counters.opened,
     resolved |-> counters.resolved + (IF status = "Resolved" THEN 1 ELSE 0),
     refunded |-> counters.refunded + (IF status = "Refunded" THEN 1 ELSE 0)]

\* Fault: a settled id stays in the pending index.
SettleQuestionStillListed(q, status) ==
  SetStatus(q, status) /\ CountSettled(status) /\ UNCHANGED indexVars

\* settle_question(): the one way out of the index.
SettleQuestion(q, status) ==
  /\ SetStatus(q, status)
  /\ IndexRemove(q)
  /\ CountSettled(status)

\* The question part of settle_resolution().
ResolveQuestion(q, v) ==
  /\ Acceptable(v) /\ InQuorumBounds(v)
  /\ StatusIs(q, "Pending")
  /\ SettleQuestion(q, "Resolved")
  /\ UNCHANGED reviewVars

\* do_refund().
RefundQuestion(q) ==
  /\ StatusIs(q, "Pending")
  /\ SettleQuestion(q, "Refunded")
  /\ UNCHANGED reviewVars

\* Fault: the deadline follows the global timeout of the moment.
TimeoutQuestionGlobal(q) ==
  /\ StatusIs(q, "Pending")
  /\ seq >= question[q].createdAt + timeoutLedgers
  /\ RefundQuestion(q)

\* try_refund_timeout().
TimeoutQuestion(q) ==
  /\ StatusIs(q, "Pending")
  /\ seq >= Deadline(question[q])
  /\ RefundQuestion(q)

\* What migrate_pending() does to each of its ids, before the target is
\* called.
MigrateQuestion(q) ==
  /\ StatusIs(q, "Pending")
  /\ SettleQuestion(q, "Migrated")
  /\ UNCHANGED reviewVars

-----------------------------------------------------------------------------
(* Review of a verdict.                                                    *)

\* escalate(): the question stays listed and counted as open.
EscalateQuestion(q, v) ==
  /\ Acceptable(v)
  /\ StatusIs(q, "Pending")
  /\ escalatedQuestion' = Put(escalatedQuestion, q, v)
  /\ SetStatus(q, "Disputed")
  /\ UNCHANGED <<pendingResolution, challengerBond, counters, indexVars>>

\* The question part of escalate_resolve().
ResolveEscalated(q, v) ==
  /\ Acceptable(v) /\ InQuorumBounds(v)
  /\ StatusIs(q, "Disputed")
  /\ SettleQuestion(q, "Resolved")
  /\ escalatedQuestion' = Without(escalatedQuestion, q)
  /\ UNCHANGED <<pendingResolution, challengerBond>>

\* resolve_challengeable().  Bound: the window ends before the last ledger.
ResolveChallengeable(q, v, window) ==
  /\ Acceptable(v) /\ InQuorumBounds(v)
  /\ StatusIs(q, "Pending")
  /\ seq + window < MaxSeq
  /\ pendingResolution' =
        Put(pendingResolution, q,
            [verdict |-> v, deadline |-> seq + window, disputed |-> FALSE])
  /\ SetStatus(q, "ResolvedPending")
  /\ UNCHANGED <<escalatedQuestion, challengerBond, counters, indexVars>>

\* The question part of post_challenge_bond().
PostBond(q, c, a) ==
  /\ StatusIs(q, "ResolvedPending")
  /\ q \in DOMAIN pendingResolution
  /\ seq < pendingResolution[q].deadline
  /\ q \notin DOMAIN challengerBond
  /\ challengerBond' = Put(challengerBond, q, [challenger |-> c, amount |-> a])
  /\ UNCHANGED <<question, pendingResolution, escalatedQuestion, counters, indexVars>>

\* dispute_resolve().  Neither the window nor the status is looked at.
DisputeResolve(q) ==
  /\ q \in DOMAIN pendingResolution
  /\ pendingResolution' = [pendingResolution EXCEPT ![q].disputed = TRUE]
  /\ UNCHANGED <<question, escalatedQuestion, challengerBond, counters, indexVars>>

\* What finalize_resolve() checks.
Finalizable(q) ==
  /\ q \in DOMAIN pendingResolution
  /\ seq > pendingResolution[q].deadline
  /\ ~pendingResolution[q].disputed
  /\ StatusIs(q, "ResolvedPending")

\* Fault: the records of the review are left behind.
FinalizeQuestionLeavingRecords(q) ==
  Finalizable(q) /\ SettleQuestion(q, "Resolved") /\ UNCHANGED reviewVars

\* Fault: only a verdict that was challenged can be finalized.
FinalizeQuestionChallenged(q) ==
  /\ Finalizable(q)
  /\ q \in DOMAIN challengerBond
  /\ SettleQuestion(q, "Resolved")
  /\ challengerBond' = Without(challengerBond, q)
  /\ pendingResolution' = Without(pendingResolution, q)
  /\ UNCHANGED escalatedQuestion

\* The question part of finalize_resolve(): Without is the identity when no
\* bond was posted.
FinalizeQuestion(q) ==
  /\ Finalizable(q)
  /\ SettleQuestion(q, "Resolved")
  /\ challengerBond' = Without(challengerBond, q)
  /\ pendingResolution' = Without(pendingResolution, q)
  /\ UNCHANGED escalatedQuestion

-----------------------------------------------------------------------------
(* Configuration.                                                          *)

\* set_timeout_ledgers(), for questions opened from now on.
SetTimeoutLedgers(d) == timeoutLedgers' = d /\ UNCHANGED quorumBounds

\* set_quorum_bounds().
SetQuorumBounds(b) ==
  b.min <= b.max /\ quorumBounds' = b /\ UNCHANGED timeoutLedgers

-----------------------------------------------------------------------------
(* The lifecycle on its own.                                               *)

\* A question of some age, opened in another instance.
ImportStep(q, p, t, a) ==
  \E age \in ImportAges, timeout \in Timeouts :
    age <= seq /\ ImportQuestion(q, p, t, a, seq - age, timeout)

FundingStep(q) ==
  \E a \in Amounts :
    \/ \E p \in Payers, t \in Tokens : OpenQuestion(q, p, t, a) \/ ImportStep(q, p, t, a)
    \/ ReopenQuestion(q, a)

VerdictStep(q) ==
  \E v \in Verdicts :
    \/ ResolveQuestion(q, v)
    \/ EscalateQuestion(q, v)
    \/ ResolveEscalated(q, v)
    \/ \E window \in Windows : ResolveChallengeable(q, v, window)

ReviewStep(q) ==
  \/ \E c \in Challengers, a \in Bonds : PostBond(q, c, a)
  \/ DisputeResolve(q)
  \/ FinalizeQuestion(q)

QuestionStep(q) ==
  \/ FundingStep(q)
  \/ VerdictStep(q)
  \/ ReviewStep(q)
  \/ RefundQuestion(q)
  \/ TimeoutQuestion(q)
  \/ MigrateQuestion(q)

ConfigStep ==
  \/ \E d \in Timeouts : SetTimeoutLedgers(d)
  \/ \E b \in QuorumLimits : SetQuorumBounds(b)

QuestionsNext ==
  \/ \E q \in Ids : QuestionStep(q) /\ UNCHANGED <<seq, configVars>>
  \/ ConfigStep /\ UNCHANGED <<seq, recordVars>>
  \/ Tick /\ UNCHANGED <<recordVars, configVars>>

QuestionsSpec == QuestionsInit /\ [][QuestionsNext]_questionsVars

\* What happens without the admin: ledgers close, and refund_timeout() and
\* finalize_resolve() are open to anyone, so whoever is to be paid calls them.
Anyone(A) == A /\ UNCHANGED <<seq, configVars>>
Fairness ==
  /\ WF_questionsVars(Tick /\ UNCHANGED <<recordVars, configVars>>)
  /\ \A q \in Ids : /\ WF_questionsVars(Anyone(TimeoutQuestion(q)))
                    /\ WF_questionsVars(Anyone(FinalizeQuestion(q)))

FairQuestions == QuestionsSpec /\ Fairness

\* The same with an admin who refunds, and rules on escalations, whenever the
\* contract lets it.
AttentiveAdmin ==
  /\ FairQuestions
  /\ \A q \in Ids :
       /\ WF_questionsVars(Anyone(RefundQuestion(q)))
       /\ WF_questionsVars(Anyone(\E v \in Verdicts : ResolveEscalated(q, v)))

-----------------------------------------------------------------------------
OpenStatuses == {"Pending", "Disputed", "ResolvedPending"}
Statuses == OpenStatuses \cup {"Resolved", "Refunded", "Migrated"}

QuestionType ==
  [payer : Payers, token : Tokens, amount : Amounts, status : Statuses,
   createdAt : 0 .. MaxSeq, timeout : Timeouts]

CounterType == [open : Nat, opened : Nat, resolved : Nat, refunded : Nat]

QuestionsTypeOK ==
  /\ seq \in 0 .. MaxSeq
  /\ DOMAIN question \subseteq Ids
  /\ \A q \in DOMAIN question :
        question[q] \in QuestionType /\ Deadline(question[q]) <= MaxSeq
  /\ \A q \in DOMAIN pendingResolution :
        pendingResolution[q] \in
          [verdict : Verdicts, deadline : 0 .. MaxSeq, disputed : BOOLEAN]
  /\ \A q \in DOMAIN escalatedQuestion : escalatedQuestion[q] \in Verdicts
  /\ \A q \in DOMAIN challengerBond :
        challengerBond[q] \in [challenger : Challengers, amount : Bonds]
  /\ counters \in CounterType
  /\ timeoutLedgers \in Timeouts
  /\ quorumBounds \in [min : Nat, max : Nat]
  /\ IndexTypeOK

WithStatus(status) == {q \in DOMAIN question : question[q].status = status}
OpenQuestions == {q \in DOMAIN question : question[q].status \in OpenStatuses}

\* The pending index lists exactly the questions whose money is still held,
\* through every way in (submit, charge, reopen) and out, and while a verdict
\* is under review ("so list_pending() still surfaces it as an open
\* obligation", escalate()).
OpenAreListed == IndexConsistent /\ DOMAIN pendingPos = OpenQuestions

\* A review leaves nothing behind and is never without its record: the three
\* families of review records exist exactly while the status they belong to
\* lasts, whichever way the review started and ended.  A stale
\* PendingResolution would let dispute_resolve() or finalize_resolve() act on
\* a question that was reopened since.
ReviewRecordsMatch ==
  /\ DOMAIN pendingResolution = WithStatus("ResolvedPending")
  /\ DOMAIN escalatedQuestion = WithStatus("Disputed")
  /\ DOMAIN challengerBond \subseteq DOMAIN pendingResolution

\* The health counters, which saturate instead of failing, never drift: the
\* open count is the length of the index, and every question ever opened is
\* open, was settled once, or has moved to another instance.
CountersExact ==
  /\ counters.open = pendingCount
  /\ counters.opened = counters.open + counters.resolved + counters.refunded
                        + Cardinality(WithStatus("Migrated"))

\* What the payer is promised: EscrowPromise, read off the question records.
\* A review of either kind is one "review".
PromisedState(status) ==
  CASE status = "Pending"                         -> "held"
    [] status \in {"Disputed", "ResolvedPending"} -> "review"
    [] status = "Resolved"                        -> "paid"
    [] status = "Refunded"                        -> "returned"
    [] status = "Migrated"                        -> "moved"

DealOf(record) ==
  [payer |-> record.payer, token |-> record.token, amount |-> record.amount,
   due |-> Deadline(record), state |-> PromisedState(record.status)]

Deals == [q \in DOMAIN question |-> DealOf(question[q])]

Promise == INSTANCE EscrowPromise WITH Dues <- 0 .. MaxSeq, escrow <- Deals

\* However the entry points interleave, a question keeps the promise; the
\* deadline a payer was quoted survives set_timeout_ledgers().
PromiseKept == Promise!Spec

\* The fail-safe of refund_timeout(): nothing stays Pending for ever, although
\* the admin may do nothing at all.
PendingLeaves == \A q \in Ids : StatusIs(q, "Pending") ~> ~StatusIs(q, "Pending")

Undisputed(q) == q \in DOMAIN pendingResolution /\ ~pendingResolution[q].disputed
Blocked(q) == q \in DOMAIN pendingResolution /\ pendingResolution[q].disputed

\* A verdict that nobody disputes is executed: finalize_resolve() is open to
\* anyone and nothing else can stand in its way.
UndisputedFinalizes == \A q \in Ids : Undisputed(q) ~> ~Undisputed(q)

\* dispute_resolve() says that the admin can "refund the question directly" or
\* override the resolution "to unblock".
DisputeIsUnblocked == \A q \in Ids : Blocked(q) ~> ~Blocked(q)
=============================================================================
