----------------------------- MODULE FeeVesting -----------------------------
(***************************************************************************)
(* The fee-vesting treasury, a contract of its own: fee revenue sent to it *)
(* is released to a beneficiary, nothing before a cliff and then linearly  *)
(* from the start to the end of a schedule that never changes.             *)
(*                                                                         *)
(* Integers keep their width: timestamps have one limb of 64 bits, amounts *)
(* two limbs with a sign, intermediate products four.                      *)
(***************************************************************************)
EXTENDS Integers

CONSTANTS
  Limb,             \* 2^64 in the code
  Times,            \* ledger timestamps, u64
  Totals,           \* totals a schedule may have, i128
  Revenues,         \* amounts of fee revenue sent to the contract
  Beneficiaries

Word == Limb * Limb              \* 2^128
MaxAmount == Word \div 2 - 1     \* i128::MAX

ASSUME VestingAssumption ==
  /\ Limb \in Nat \ {0, 1}
  /\ Times \subseteq 0 .. Limb - 1 /\ 0 \in Times
  /\ Totals \subseteq 1 .. MaxAmount
  /\ Revenues \subseteq Nat \ {0}

VARIABLES
  timestamp,     \* env.ledger().timestamp()
  beneficiary,   \* Beneficiary
  schedule,      \* Start, Cliff, End, Total: fixed by initialize()
  claimed,       \* Claimed
  treasury,      \* what the token contract holds for this contract
  received       \* all revenue ever sent here; bounded by the total

vestingVars == <<timestamp, beneficiary, schedule, claimed, treasury, received>>

Schedules ==
  {s \in [start : Times, cliff : Times, end : Times, total : Totals] :
     s.start <= s.cliff /\ s.cliff <= s.end}

-----------------------------------------------------------------------------
(* total * elapsed, when it overflows i128.                                *)

Lo(word) == word % Limb
Hi(word) == word \div Limb

\* Fault: the carry out of the middle limbs is dropped.
MulWideNoCarry(a, b) ==
  LET lh == Lo(a) * Hi(b)
      hl == Hi(a) * Lo(b)
      mid == Hi(Lo(a) * Lo(b)) + Lo(lh) + Lo(hl)
  IN [lo |-> Lo(Lo(a) * Lo(b)) + Lo(mid) * Limb,
      hi |-> Hi(a) * Hi(b) + Hi(lh) + Hi(hl)]

\* mul_wide(): schoolbook multiplication of two words of two limbs; the middle
\* column may carry into the high word.
MulWide(a, b) ==
  LET lh == Lo(a) * Hi(b)
      hl == Hi(a) * Lo(b)
      mid == Hi(Lo(a) * Lo(b)) + Lo(lh) + Lo(hl)
  IN [lo |-> Lo(Lo(a) * Lo(b)) + Lo(mid) * Limb,
      hi |-> Hi(a) * Hi(b) + Hi(lh) + Hi(hl) + Hi(mid)]

\* div_wide_by_i128(): long division bit by bit, first of the high word and
\* then, with its remainder carried over, of the low one, whose quotient is
\* returned.  The shifted remainder does not overflow: a divisor is a time span.
DivWide(product, d) == ((product.hi % d) * Word + product.lo) \div d

\* The last step of vested_amount(): checked_mul() or the wide path.
ProRata(total, elapsed, span) ==
  IF total * elapsed <= MaxAmount THEN (total * elapsed) \div span
                                  ELSE DivWide(MulWide(total, elapsed), span)

\* vested_amount().
Vested(now) ==
  IF now < schedule.cliff THEN 0
  ELSE IF now >= schedule.end \/ schedule.end = schedule.start THEN schedule.total
  ELSE ProRata(schedule.total, now - schedule.start, schedule.end - schedule.start)

\* claimable_amount().
Claimable == Vested(timestamp) - claimed

-----------------------------------------------------------------------------
\* initialize(), which runs once and looks at no clock.
VestingInit ==
  /\ timestamp = 0
  /\ schedule \in Schedules
  /\ beneficiary \in Beneficiaries
  /\ claimed = 0
  /\ treasury = 0
  /\ received = 0

\* Fault: what was claimed before is forgotten.
ClaimVestedAgain ==
  /\ Claimable > 0
  /\ treasury >= Claimable
  /\ claimed' = Claimable
  /\ treasury' = treasury - Claimable
  /\ UNCHANGED <<timestamp, beneficiary, schedule, received>>

\* Fault: nothing can be claimed after the end.
ClaimVestedUntilEnd ==
  /\ timestamp < schedule.end
  /\ Claimable > 0
  /\ treasury >= Claimable
  /\ claimed' = claimed + Claimable
  /\ treasury' = treasury - Claimable
  /\ UNCHANGED <<timestamp, beneficiary, schedule, received>>

\* claim_vested() by anyone and claim_vested_as() by the beneficiary: all that
\* is claimable is paid to the beneficiary, or the transfer fails.
ClaimVested ==
  /\ Claimable > 0
  /\ treasury >= Claimable
  /\ claimed' = claimed + Claimable
  /\ treasury' = treasury - Claimable
  /\ UNCHANGED <<timestamp, beneficiary, schedule, received>>

\* set_beneficiary(), by the admin.
SetBeneficiary(b) ==
  beneficiary' = b /\ UNCHANGED <<timestamp, schedule, claimed, treasury, received>>

\* A transfer of fee revenue to the contract, which the contract does not see.
ReceiveRevenue(amount) ==
  /\ received + amount <= schedule.total
  /\ received' = received + amount
  /\ treasury' = treasury + amount
  /\ UNCHANGED <<timestamp, beneficiary, schedule, claimed>>

\* A ledger closes, some time after the one before.
PassTime(later) ==
  /\ later > timestamp
  /\ timestamp' = later
  /\ UNCHANGED <<beneficiary, schedule, claimed, treasury, received>>

VestingNext ==
  \/ ClaimVested
  \/ \E b \in Beneficiaries : SetBeneficiary(b)
  \/ \E amount \in Revenues : ReceiveRevenue(amount)
  \/ \E later \in Times : PassTime(later)

VestingSpec == VestingInit /\ [][VestingNext]_vestingVars

\* Anyone may claim, so the beneficiary does; time passes.
FairVesting ==
  /\ VestingSpec
  /\ WF_vestingVars(ClaimVested)
  /\ WF_vestingVars(\E later \in Times : PassTime(later))

-----------------------------------------------------------------------------
\* Through both ways of computing it, what is vested at the moment is the exact
\* part of the total, rounded down: never more than the total, never less at a
\* later time, and the whole total from the end on.
VestedIsProRata ==
  LET elapsed == timestamp - schedule.start
      span    == schedule.end - schedule.start
      owing   == schedule.total * elapsed - Vested(timestamp) * span
  IN /\ timestamp < schedule.cliff => Vested(timestamp) = 0
     /\ timestamp >= schedule.cliff /\ timestamp < schedule.end =>
           0 <= owing /\ owing < span
     /\ timestamp >= schedule.end => Vested(timestamp) = schedule.total

\* No sequence of claims, however it is spread over time, pays more than has
\* vested, and every unit of revenue is in the treasury or was paid once.
ClaimsCovered ==
  /\ claimed <= Vested(timestamp)
  /\ treasury + claimed = received

\* Once the schedule has ended and its revenue is in, the beneficiary is paid
\* in full, whatever was claimed before.
FullyPaid ==
  (timestamp >= schedule.end /\ received = schedule.total) ~> (claimed = schedule.total)
=============================================================================
