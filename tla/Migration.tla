----------------------------- MODULE Migration -----------------------------
(***************************************************************************)
(* Two instances of the contract and the orchestrator, tools/migrate, that *)
(* moves every pending question from the source to the target.  Both stay  *)
(* in use meanwhile: questions are opened, judged, refunded and time out   *)
(* on either side between any two steps.                                   *)
(*                                                                         *)
(* The orchestrator keeps nothing between two batches.  It may be killed   *)
(* at any moment and started again while a batch it sent is still on its   *)
(* way, to arrive later or never.  A batch is one transaction: it moves    *)
(* all of its questions, one after another with nothing in between, or,    *)
(* when any of them cannot be moved, none.                                 *)
(***************************************************************************)
EXTENDS Storage, Integers, Sequences, FiniteSets

CONSTANTS
  Tokens, Workers, Payers, Challengers, Ids,
  Amounts, Bonds, Verdicts, Windows, Timeouts, MAX_QUORUM_SIZE,
  MaxSeq,           \* bound: last ledger
  MaxOpened,        \* bound: questions opened or reopened at the source
  MaxOwn,           \* bound: questions opened or reopened at the target
  BatchSize,        \* --batch
  MaxFailures,      \* 5: reverted batches in a row before the run stops
  MaxCrashes        \* bound: times the orchestrator is killed

ASSUME MigrationAssumption ==
  /\ MaxSeq \in Nat
  /\ Timeouts \subseteq Nat
  /\ BatchSize \in Nat \ {0}
  /\ MaxFailures \in Nat
  /\ MaxOwn \in Nat
  /\ MaxCrashes \in Nat

VARIABLES
  seq,                  \* both instances are on the same network
  \* the source's Questions
  oldQuestion, oldPendingResolution, oldEscalated, oldBond, oldCounters,
  oldTimeoutLedgers, oldQuorumBounds, oldPendingCount, oldPendingAt, oldPendingPos,
  \* the target's Questions
  newQuestion, newPendingResolution, newEscalated, newBond, newCounters,
  newTimeoutLedgers, newQuorumBounds, newPendingCount, newPendingAt, newPendingPos,
  linked,               \* the target's MigrationSource is the source
  \* the orchestrator
  phase,                \* "idle", "running", "waiting", "stopped" or "done"
  run,                  \* which run this is
  failures,             \* reverted batches in a row
  \* the network
  inFlight,             \* batches sent and not executed, with the run that sent them
  executing             \* what is left of the batch that is being executed

Old == INSTANCE Questions WITH
  ImportAges <- {}, QuorumLimits <- {},
  question <- oldQuestion, pendingResolution <- oldPendingResolution,
  escalatedQuestion <- oldEscalated, challengerBond <- oldBond, counters <- oldCounters,
  timeoutLedgers <- oldTimeoutLedgers, quorumBounds <- oldQuorumBounds,
  pendingCount <- oldPendingCount, pendingAt <- oldPendingAt, pendingPos <- oldPendingPos

New == INSTANCE Questions WITH
  ImportAges <- {}, QuorumLimits <- {}, MaxOpened <- MaxOpened + MaxOwn,
  question <- newQuestion, pendingResolution <- newPendingResolution,
  escalatedQuestion <- newEscalated, challengerBond <- newBond, counters <- newCounters,
  timeoutLedgers <- newTimeoutLedgers, quorumBounds <- newQuorumBounds,
  pendingCount <- newPendingCount, pendingAt <- newPendingAt, pendingPos <- newPendingPos

oldConfig == <<oldTimeoutLedgers, oldQuorumBounds>>
newConfig == <<newTimeoutLedgers, newQuorumBounds>>
oldVars == <<oldQuestion, oldPendingResolution, oldEscalated, oldBond, oldCounters,
             oldPendingCount, oldPendingAt, oldPendingPos, oldConfig>>
newVars == <<newQuestion, newPendingResolution, newEscalated, newBond, newCounters,
             newPendingCount, newPendingAt, newPendingPos, newConfig>>
runVars == <<phase, run, failures>>
migrationVars == <<seq, oldVars, newVars, linked, runVars, inFlight, executing>>

MigrationInit ==
  /\ Old!QuestionsInit /\ New!QuestionsInit
  /\ linked = FALSE
  /\ phase = "idle" /\ run = 0 /\ failures = 0
  /\ inFlight = {}
  /\ executing = <<>>

-----------------------------------------------------------------------------
(* The two instances in use.                                               *)

Migrated == {q \in DOMAIN oldQuestion : oldQuestion[q].status = "Migrated"}

SourceUse(q) ==
  /\ \/ Old!FundingStep(q) \/ Old!VerdictStep(q) \/ Old!ReviewStep(q)
     \/ Old!RefundQuestion(q) \/ Old!TimeoutQuestion(q)
  /\ UNCHANGED <<seq, oldConfig, newVars, linked, runVars, inFlight, executing>>

\* Bound: the target's own openings leave room for the source's questions.
TargetUse(q) ==
  /\ \/ New!FundingStep(q) /\ newCounters.opened - Cardinality(Migrated) < MaxOwn
     \/ New!VerdictStep(q) \/ New!ReviewStep(q)
     \/ New!RefundQuestion(q) \/ New!TimeoutQuestion(q)
  /\ UNCHANGED <<seq, newConfig, oldVars, linked, runVars, inFlight, executing>>

\* set_migration_source() and clear_migration_source(), by the target's admin.
SetLink(b) ==
  /\ linked' = b
  /\ UNCHANGED <<seq, oldVars, newVars, runVars, inFlight, executing>>

CloseLedger ==
  /\ Old!Tick
  /\ UNCHANGED <<oldVars, newVars, linked, runVars, inFlight, executing>>

-----------------------------------------------------------------------------
(* A batch on the network.                                                 *)

\* list_pending(0, limit) at the source.
HeadPage(limit) ==
  [i \in 1 .. (IF limit <= oldPendingCount THEN limit ELSE oldPendingCount) |->
     oldPendingAt[i - 1]]

\* What import_question() checks of an id that migrate_pending() pushes.
Importable(q) == linked /\ q \notin DOMAIN newQuestion

\* Whether migrate_pending() gets through all its ids.
BatchOK(page) ==
  /\ \A i, j \in DOMAIN page : i # j => page[i] # page[j]
  /\ \A i \in DOMAIN page : Old!StatusIs(page[i], "Pending") /\ Importable(page[i])

\* One turn of migrate_pending(): settle here, import there.
MovePending(q) ==
  LET record == oldQuestion[q]
  IN /\ Old!MigrateQuestion(q)
     /\ New!ImportQuestion(q, record.payer, record.token, record.amount,
                           record.createdAt, record.timeout)

MoveNext ==
  /\ executing # <<>>
  /\ MovePending(Head(executing))
  /\ executing' = Tail(executing)
  /\ UNCHANGED <<seq, oldConfig, newConfig, linked, runVars, inFlight>>

\* The run that waits for this batch reads the result: after a revert it goes
\* on, unless there were too many in a row.
Answered(tx, ok) ==
  IF tx.run = run /\ phase = "waiting"
    THEN /\ failures' = IF ok THEN 0 ELSE failures + 1
         /\ phase' = IF ~ok /\ failures + 1 > MaxFailures THEN "stopped" ELSE "running"
         /\ UNCHANGED run
    ELSE UNCHANGED runVars

Land(tx) ==
  /\ inFlight' = inFlight \ {tx}
  /\ executing' = IF BatchOK(tx.page) THEN tx.page ELSE <<>>
  /\ Answered(tx, BatchOK(tx.page))
  /\ UNCHANGED <<seq, oldVars, newVars, linked>>

\* A batch whose sender is gone may never be executed.
Drop(tx) ==
  /\ tx.run # run
  /\ inFlight' = inFlight \ {tx}
  /\ UNCHANGED <<seq, oldVars, newVars, linked, runVars, executing>>

-----------------------------------------------------------------------------
(* The orchestrator: `migrate.mjs run`.                                    *)

\* plan() finds no problem.
Start ==
  /\ phase \in {"idle", "stopped", "done"}
  /\ \A q \in DOMAIN oldPendingPos : Importable(q)
  /\ linked
  /\ phase' = "running"
  /\ failures' = 0
  /\ UNCHANGED <<seq, oldVars, newVars, linked, run, inFlight, executing>>

\* Fault: a page that is not full is taken for the empty one.
NextBatchFullOnly ==
  /\ phase = "running"
  /\ IF oldPendingCount < BatchSize
       THEN phase' = "done" /\ UNCHANGED inFlight
       ELSE phase' = "waiting" /\ inFlight' = inFlight \cup {[run |-> run, page |-> HeadPage(BatchSize)]}
  /\ UNCHANGED <<seq, oldVars, newVars, linked, run, failures, executing>>

\* The head of the live list is read and sent.
NextBatch ==
  /\ phase = "running"
  /\ IF oldPendingCount = 0
       THEN phase' = "done" /\ UNCHANGED inFlight
       ELSE phase' = "waiting" /\ inFlight' = inFlight \cup {[run |-> run, page |-> HeadPage(BatchSize)]}
  /\ UNCHANGED <<seq, oldVars, newVars, linked, run, failures, executing>>

\* Killed, or a call failed in a way that is not a contract error.
Crash ==
  /\ phase \in {"running", "waiting"}
  /\ run < MaxCrashes
  /\ phase' = "idle"
  /\ run' = run + 1
  /\ UNCHANGED <<seq, oldVars, newVars, linked, failures, inFlight, executing>>

-----------------------------------------------------------------------------
\* While a transaction executes nothing else does.
MigrationNext ==
  \/ MoveNext
  \/ /\ executing = <<>>
     /\ \/ \E q \in Ids : SourceUse(q) \/ TargetUse(q)
        \/ \E b \in BOOLEAN : SetLink(b)
        \/ CloseLedger
        \/ \E tx \in inFlight : Land(tx) \/ Drop(tx)
        \/ Start \/ NextBatch \/ Crash

MigrationSpec == MigrationInit /\ [][MigrationNext]_migrationVars

\* A transaction ends, the network answers, the process goes on, and an
\* operator starts it again when it has died or stopped.  No fairness of the
\* users, of the admins or of the clock.
FairMigration ==
  /\ MigrationSpec
  /\ WF_migrationVars(MoveNext)
  /\ WF_migrationVars(executing = <<>> /\ \E tx \in inFlight : tx.run = run /\ Land(tx))
  /\ WF_migrationVars(executing = <<>> /\ NextBatch)
  /\ WF_migrationVars(executing = <<>> /\ phase # "done" /\ Start)

-----------------------------------------------------------------------------
\* A deal stays where it is until it is handed over, and is the same deal on
\* the other side.
HandedOver ==
  [q \in DOMAIN oldQuestion |->
     IF q \in Migrated THEN New!DealOf(newQuestion[q]) ELSE Old!DealOf(oldQuestion[q])]

PairPromise == INSTANCE EscrowPromise WITH Dues <- 0 .. MaxSeq, escrow <- HandedOver

\* To the payer the two instances are one: through any sequence of batches,
\* kills, restarts and late or lost transactions, the question keeps its
\* amount, payer, asset and deadline, is handed over once, and its money then
\* leaves once, at the target.
MigrationKeepsPromise == PairPromise!Spec

\* The link is set, and everything that the source lists can be moved.
Clear ==
  linked /\ \A q \in DOMAIN oldPendingPos : Old!StatusIs(q, "Pending") /\ Importable(q)

\* Once the link stays set, no verdict is under review at the source and no
\* listed id is in use at the target, a run, restarted when it dies, empties
\* the source, however the settlements on both sides race with its batches.
RunDrainsSource ==
  <>[]Clear => (phase = "running" ~> (phase = "done" /\ oldPendingCount = 0))

\* "Up to `limit` Pending question ids": while the target knows none of the
\* ids, the page that list_pending() returns can be migrated as it is.
HeadPageMigrates ==
  linked /\ DOMAIN newQuestion \cap DOMAIN oldPendingPos = {} => BatchOK(HeadPage(BatchSize))
=============================================================================
