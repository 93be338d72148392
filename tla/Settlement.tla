----------------------------- MODULE Settlement -----------------------------
(***************************************************************************)
(* The arithmetic of a settlement: the platform fee, the pool split over   *)
(* the matching workers, the slash of each losing worker and how it is     *)
(* shared.  settle_asset(), escalate_resolve() and finalize_resolve() all  *)
(* compute it; preview_resolve() computes it a second time with formulas   *)
(* of its own.  Amounts are the non-negative part of i128: every amount    *)
(* that enters the contract is checked to be positive.                     *)
(***************************************************************************)
EXTENDS Integers, Functions

CONSTANTS
  BPS_DENOM,                \* 10_000 in the code
  PLATFORM_FEE_BPS,         \* 2_000
  SLASH_BPS,                \* 500
  SLASH_CAP_BPS_OF_AMOUNT,  \* 10_000
  SLASH_REDISTRIBUTE_BPS    \* 5_000

ASSUME BpsAssumption ==
  /\ BPS_DENOM \in Nat \ {0}
  /\ PLATFORM_FEE_BPS \in 0 .. BPS_DENOM
  /\ SLASH_BPS \in 0 .. BPS_DENOM
  /\ SLASH_CAP_BPS_OF_AMOUNT \in 0 .. BPS_DENOM
  /\ SLASH_REDISTRIBUTE_BPS \in 0 .. BPS_DENOM

Min2(a, b) == IF a <= b THEN a ELSE b

\* Fault: divides before it multiplies and forgets the remainder.
MulBpsTruncated(value, bps) == (value \div BPS_DENOM) * bps

\* mul_bps(): divides before it multiplies so that i128 cannot overflow.
MulBps(value, bps) ==
  (value \div BPS_DENOM) * bps + ((value % BPS_DENOM) * bps) \div BPS_DENOM

-----------------------------------------------------------------------------
(* The question's own amount, split over n matching workers.               *)

Fee(amount) == MulBps(amount, PLATFORM_FEE_BPS)
Pool(amount) == amount - Fee(amount)
Share(amount, n) == Pool(amount) \div n
Dust(amount, n) == Pool(amount) - Share(amount, n) * n

(* One losing worker's slash.                                              *)

\* Fault: the slash is not capped by the question's amount.
SlashAmountUncapped(slashable, amount) == Min2(MulBps(slashable, SLASH_BPS), slashable)

\* slash(): SLASH_BPS of the slashable stake, capped by the question's amount
\* and by what there is.
SlashAmount(slashable, amount) ==
  Min2(Min2(MulBps(slashable, SLASH_BPS), MulBps(amount, SLASH_CAP_BPS_OF_AMOUNT)),
       slashable)

(* How one slash is shared: a portion to the n matching workers, and the   *)
(* rest, with the remainder of that division, to the platform.             *)

RedistPortion(slashed) == MulBps(slashed, SLASH_REDISTRIBUTE_BPS)
RedistShare(slashed, n) == RedistPortion(slashed) \div n
RedistDust(slashed, n) == RedistPortion(slashed) - RedistShare(slashed, n) * n

PlatformPortion(slashed, n) == (slashed - RedistPortion(slashed)) + RedistDust(slashed, n)

(* A whole settlement.  `slashed` maps each losing worker to the amount    *)
(* slash() took; distribute_slashes() accumulates over the losing workers. *)

TotalSlashed(slashed) == SumFunction(slashed)
WorkerCredit(amount, n, slashed) ==
  Share(amount, n) + SumFunction([l \in DOMAIN slashed |-> RedistShare(slashed[l], n)])
PlatformTake(amount, n, slashed) ==
  Fee(amount) + Dust(amount, n)
    + SumFunction([l \in DOMAIN slashed |-> PlatformPortion(slashed[l], n)])

-----------------------------------------------------------------------------
(* preview_resolve() and preview_slash(): the same settlement, with the    *)
(* plain product instead of mul_bps() and with the redistribution computed *)
(* once from the total instead of once per losing worker.                  *)

PreviewFee(amount) == (amount * PLATFORM_FEE_BPS) \div BPS_DENOM
PreviewShare(amount, n) == (amount - PreviewFee(amount)) \div n
PreviewDust(amount, n) == (amount - PreviewFee(amount)) - PreviewShare(amount, n) * n
PreviewSlash(slashable, amount) ==
  Min2(Min2((slashable * SLASH_BPS) \div BPS_DENOM,
            (amount * SLASH_CAP_BPS_OF_AMOUNT) \div BPS_DENOM),
       slashable)
PreviewWorkerCredit(amount, n, slashed) ==
  PreviewShare(amount, n) + RedistShare(TotalSlashed(slashed), n)
PreviewPlatformTake(amount, n, slashed) ==
  PreviewFee(amount) + PreviewDust(amount, n) + PlatformPortion(TotalSlashed(slashed), n)
=============================================================================
