--------------------------- MODULE SettlementRun ---------------------------
(***************************************************************************)
(* One settlement as the code runs it: settle_asset() computes the split   *)
(* of the question's amount, distribute_slashes() takes the losing workers *)
(* one at a time and accumulates three totals, then every matching worker  *)
(* is credited and the platform take leaves the contract.  The module      *)
(* relates the accumulated totals to the closed forms of Settlement, which *)
(* OracleEscrow uses, and to what preview_resolve() announces.             *)
(***************************************************************************)
EXTENDS Settlement, Sequences

CONSTANTS
  Amounts,       \* amounts a question may have
  QuorumSizes,   \* numbers of matching workers
  Slashables,    \* slashable stakes a losing worker may have
  MaxLosers      \* bound: losing workers in one settlement

ASSUME RunAssumption ==
  /\ Amounts \subseteq Nat \ {0}
  /\ QuorumSizes \subseteq Nat \ {0}
  /\ Slashables \subseteq Nat
  /\ MaxLosers \in Nat

VARIABLES
  amount, n,               \* the question's amount and workers.len()
  stakes,                  \* slashable stake of each losing worker seen so far
  slashed,                 \* what slash() took from each of them
  slashPlatformTake,       \* platform_take of distribute_slashes()
  slashRedistPerWorker,    \* slash_redist_per_worker
  totalSlashed,            \* total_slashed
  workerCredit,            \* credited to each matching worker; 0 until paid
  platformTake,            \* transferred to the platform; 0 until paid
  paid

runVars == <<amount, n, stakes, slashed, slashPlatformTake, slashRedistPerWorker,
             totalSlashed, workerCredit, platformTake, paid>>

RunInit ==
  /\ amount \in Amounts
  /\ n \in QuorumSizes
  /\ stakes = <<>>
  /\ slashed = <<>>
  /\ slashPlatformTake = 0
  /\ slashRedistPerWorker = 0
  /\ totalSlashed = 0
  /\ workerCredit = 0
  /\ platformTake = 0
  /\ paid = FALSE

\* Fault: the redistribution's remainder is dropped.
SlashLoserLosesDust(slashable) ==
  LET taken == SlashAmount(slashable, amount)
  IN /\ ~paid /\ Len(slashed) < MaxLosers
     /\ stakes' = Append(stakes, slashable)
     /\ slashed' = Append(slashed, taken)
     /\ slashRedistPerWorker' = slashRedistPerWorker + RedistShare(taken, n)
     /\ slashPlatformTake' = slashPlatformTake + (taken - RedistPortion(taken))
     /\ totalSlashed' = totalSlashed + taken
     /\ UNCHANGED <<amount, n, workerCredit, platformTake, paid>>

\* Fault: the platform keeps the whole slash, and the workers get theirs too.
SlashLoserKeepsAll(slashable) ==
  LET taken == SlashAmount(slashable, amount)
  IN /\ ~paid /\ Len(slashed) < MaxLosers
     /\ stakes' = Append(stakes, slashable)
     /\ slashed' = Append(slashed, taken)
     /\ slashRedistPerWorker' = slashRedistPerWorker + RedistShare(taken, n)
     /\ slashPlatformTake' = slashPlatformTake + taken
     /\ totalSlashed' = totalSlashed + taken
     /\ UNCHANGED <<amount, n, workerCredit, platformTake, paid>>

\* One turn of the loop of distribute_slashes().
SlashLoser(slashable) ==
  LET taken == SlashAmount(slashable, amount)
  IN /\ ~paid /\ Len(slashed) < MaxLosers
     /\ stakes' = Append(stakes, slashable)
     /\ slashed' = Append(slashed, taken)
     /\ slashRedistPerWorker' = slashRedistPerWorker + RedistShare(taken, n)
     /\ slashPlatformTake' = slashPlatformTake + PlatformPortion(taken, n)
     /\ totalSlashed' = totalSlashed + taken
     /\ UNCHANGED <<amount, n, workerCredit, platformTake, paid>>

\* The end of settle_asset(): the credits and the platform transfer.
Pay ==
  /\ ~paid
  /\ paid' = TRUE
  /\ workerCredit' = Share(amount, n) + slashRedistPerWorker
  /\ platformTake' = Fee(amount) + Dust(amount, n) + slashPlatformTake
  /\ UNCHANGED <<amount, n, stakes, slashed, slashPlatformTake,
                 slashRedistPerWorker, totalSlashed>>

RunNext == Pay \/ \E slashable \in Slashables : SlashLoser(slashable)

RunSpec == RunInit /\ [][RunNext]_runVars

-----------------------------------------------------------------------------
\* The totals are natural numbers and the two lists have the losers' length.
RunTypeOK ==
  /\ amount \in Amounts /\ n \in QuorumSizes
  /\ stakes \in Seq(Slashables) /\ slashed \in Seq(Nat)
  /\ Len(stakes) = Len(slashed)
  /\ slashPlatformTake \in Nat /\ slashRedistPerWorker \in Nat
  /\ totalSlashed \in Nat
  /\ workerCredit \in Nat /\ platformTake \in Nat
  /\ paid \in BOOLEAN

\* Nothing is created or lost by a settlement, whatever the rounding: what the
\* workers are credited and what the platform takes is the question's amount
\* and the slashes ("conserved to the last stroop", SLASH_REDISTRIBUTE_BPS).
SettlementConserves ==
  paid => workerCredit * n + platformTake = amount + totalSlashed

\* The same while the slashes are still being shared, which is what makes it
\* hold for any number of losing workers.
SlashesConserved == slashRedistPerWorker * n + slashPlatformTake = totalSlashed

\* One lost quorum never costs a worker more than the question's amount, nor
\* more than the worker has (SLASH_CAP_BPS_OF_AMOUNT, attack A2).
SlashWithinCap ==
  \A i \in DOMAIN slashed : slashed[i] <= amount /\ slashed[i] <= stakes[i]

\* The running totals are the closed forms the escrow module settles with.
TotalsMatchClosedForm ==
  paid => /\ workerCredit = WorkerCredit(amount, n, slashed)
          /\ platformTake = PlatformTake(amount, n, slashed)
          /\ totalSlashed = TotalSlashed(slashed)

\* What preview_resolve() returns for the settlement the run has made.
Previewed ==
  LET taken == [i \in DOMAIN stakes |-> PreviewSlash(stakes[i], amount)]
  IN [share |-> PreviewWorkerCredit(amount, n, taken),
      take  |-> PreviewPlatformTake(amount, n, taken),
      total |-> TotalSlashed(taken)]

\* The preview and the settlement agree whenever at most one worker loses: the
\* two ways of writing basis points and of rounding the redistribution meet.
PreviewExactForOneLoser ==
  paid /\ Len(stakes) <= 1 =>
    Previewed = [share |-> workerCredit, take |-> platformTake, total |-> totalSlashed]
=============================================================================
