---------------------------- MODULE VestingProofs ----------------------------
(***************************************************************************)
(* For every schedule, every total and limbs of any width: what the        *)
(* treasury has vested is the exact part of the total, also when the       *)
(* product overflows an amount and goes through the wide multiplication    *)
(* and division; it never shrinks, so that claims never exceed it.         *)
(***************************************************************************)
EXTENDS FeeVesting, TLAPS

-----------------------------------------------------------------------------
(* Division and multiplication of natural numbers.                         *)

\* Quotient and remainder.
LEMMA DivMod ==
  ASSUME NEW a \in Nat, NEW d \in Nat \ {0}
  PROVE  /\ a \div d \in Nat /\ a % d \in 0 .. d - 1
         /\ a = d * (a \div d) + (a % d)
<1> DEFINE k == a \div d
           m == a % d
<1>1. k \in Nat /\ m \in 0 .. d - 1 /\ a = d * k + m
  OBVIOUS
<1>2. QED  BY <1>1

\* Multiplication keeps the order.
LEMMA MulOrder ==
  ASSUME NEW a \in Nat, NEW b \in Nat, NEW c \in Nat, b <= c
  PROVE  a * b <= a * c /\ a * b \in Nat /\ a * b = b * a
OBVIOUS

\* A positive factor keeps it strict.
LEMMA MulStrict ==
  ASSUME NEW a \in Nat \ {0}, NEW b \in Nat, NEW c \in Nat, b < c
  PROVE  a * b < a * c
<1>1. a * (b + 1) <= a * c
  BY MulOrder
<1>2. a * (b + 1) = a * b + a /\ a * b \in Nat /\ a * c \in Nat
  OBVIOUS
<1>3. QED  BY <1>1, <1>2

\* A quotient is the number of whole divisors in its dividend.
LEMMA Quotient ==
  ASSUME NEW a \in Nat, NEW d \in Nat \ {0}
  PROVE  /\ a \div d \in Nat
         /\ 0 <= a - (a \div d) * d
         /\ a - (a \div d) * d < d
<1> DEFINE k == a \div d
           m == a % d
<1>1. k \in Nat /\ m \in 0 .. d - 1 /\ a = d * k + m
  OBVIOUS
<1>2. d * k = k * d /\ k * d \in Nat
  BY <1>1
<1>3. QED  BY <1>1, <1>2

\* Fewer of the same divisor never give a larger quotient.
LEMMA QuotientOrder ==
  ASSUME NEW a \in Nat, NEW b \in Nat, NEW d \in Nat \ {0}, a <= b
  PROVE  a \div d <= b \div d
<1>1. PICK x \in Nat : x = a \div d
  BY DivMod
<1>2. PICK y \in Nat : y = b \div d
  BY DivMod
<1>3. d * x <= a /\ b < d * y + d
  BY <1>1, <1>2, DivMod
<1>4. SUFFICES ASSUME y < x PROVE FALSE
  BY <1>1, <1>2
<1>5. d * (y + 1) <= d * x
  BY <1>4, MulOrder
<1>6. d * (y + 1) = d * y + d /\ d * y \in Nat /\ d * x \in Nat
  OBVIOUS
<1>7. QED  BY <1>3, <1>5, <1>6

-----------------------------------------------------------------------------
(* The wide product.                                                       *)

\* The four partial products in base L, and the middle column.
Columns(L, al, ah, bl, bh, h1, l1, h2, l2, h3, l3, h4, l4) ==
  /\ al * bl = L * h1 + l1
  /\ al * bh = L * h2 + l2
  /\ ah * bl = L * h3 + l3
  /\ h1 + l2 + l3 = L * h4 + l4

\* The two words of the result are the product.
Recombined(L, al, ah, bl, bh, l1, h2, h3, h4, l4) ==
  (ah * bh + h2 + h3 + h4) * (L * L) + (l1 + l4 * L) = (L * ah + al) * (L * bh + bl)

\* Multiplication in two columns of base L: the four partial products, and the
\* middle column with its carry, sum up to the product.
LEMMA Schoolbook ==
  ASSUME NEW L \in Nat, NEW al \in Nat, NEW ah \in Nat, NEW bl \in Nat, NEW bh \in Nat,
         NEW h1 \in Nat, NEW l1 \in Nat, NEW h2 \in Nat, NEW l2 \in Nat,
         NEW h3 \in Nat, NEW l3 \in Nat, NEW h4 \in Nat, NEW l4 \in Nat,
         Columns(L, al, ah, bl, bh, h1, l1, h2, l2, h3, l3, h4, l4)
  PROVE  Recombined(L, al, ah, bl, bh, l1, h2, h3, h4, l4)
<1>1. (L * ah + al) * (L * bh + bl)
         = (ah * bh) * (L * L) + L * (ah * bl) + L * (al * bh) + al * bl
  OBVIOUS
<1>2. L * (L * h3 + l3) = h3 * (L * L) + L * l3
  OBVIOUS
<1>3. L * (L * h2 + l2) = h2 * (L * L) + L * l2
  OBVIOUS
<1>4. L * (h1 + l2 + l3) = L * h1 + L * l2 + L * l3
  OBVIOUS
<1>5. L * (L * h4 + l4) = h4 * (L * L) + L * l4
  OBVIOUS
<1>6. (ah * bh + h2 + h3 + h4) * (L * L) + (l1 + l4 * L)
         = (ah * bh) * (L * L) + h2 * (L * L) + h3 * (L * L) + h4 * (L * L) + l1 + L * l4
  OBVIOUS
<1>7. /\ (ah * bh) * (L * L) \in Nat /\ h2 * (L * L) \in Nat /\ h3 * (L * L) \in Nat
      /\ h4 * (L * L) \in Nat /\ L * l2 \in Nat /\ L * l3 \in Nat /\ L * l4 \in Nat
      /\ L * h1 \in Nat
  OBVIOUS
<1>8. /\ al * bl = L * h1 + l1 /\ al * bh = L * h2 + l2 /\ ah * bl = L * h3 + l3
      /\ h1 + l2 + l3 = L * h4 + l4
  BY DEF Columns
<1>9. QED  BY <1>1, <1>2, <1>3, <1>4, <1>5, <1>6, <1>7, <1>8 DEF Recombined

\* mul_wide() is exact, for factors of any size.
LEMMA MulWideExact ==
  ASSUME NEW a \in Nat, NEW b \in Nat
  PROVE  /\ MulWide(a, b).hi \in Nat
         /\ MulWide(a, b).lo \in 0 .. Word - 1
         /\ MulWide(a, b).hi * Word + MulWide(a, b).lo = a * b
<1> DEFINE ll == Lo(a) * Lo(b)
           lh == Lo(a) * Hi(b)
           hl == Hi(a) * Lo(b)
           mid == Hi(ll) + Lo(lh) + Lo(hl)
<1>1. Limb \in Nat \ {0}
  BY VestingAssumption
<1>2. \A v \in Nat : Hi(v) \in Nat /\ Lo(v) \in 0 .. Limb - 1 /\ v = Limb * Hi(v) + Lo(v)
  BY <1>1, DivMod DEF Hi, Lo
<1>3. Hi(a) \in Nat /\ Lo(a) \in Nat /\ Hi(b) \in Nat /\ Lo(b) \in Nat
  BY <1>1, <1>2
<1>4. ll \in Nat /\ lh \in Nat /\ hl \in Nat
  BY <1>3
<1> HIDE DEF ll, lh, hl
<1>5. mid \in Nat
  <2>1. Hi(ll) \in Nat /\ Lo(lh) \in Nat /\ Lo(hl) \in Nat
    BY <1>1, <1>2, <1>4
  <2>2. QED  BY <2>1
<1> HIDE DEF mid
<1>6. /\ MulWide(a, b).lo = Lo(ll) + Lo(mid) * Limb
      /\ MulWide(a, b).hi = Hi(a) * Hi(b) + Hi(lh) + Hi(hl) + Hi(mid)
  BY DEF MulWide, ll, lh, hl, mid
<1>7. Columns(Limb, Lo(a), Hi(a), Lo(b), Hi(b), Hi(ll), Lo(ll), Hi(lh), Lo(lh),
              Hi(hl), Lo(hl), Hi(mid), Lo(mid))
  <2>1. ll = Limb * Hi(ll) + Lo(ll) /\ lh = Limb * Hi(lh) + Lo(lh)
        /\ hl = Limb * Hi(hl) + Lo(hl) /\ mid = Limb * Hi(mid) + Lo(mid)
    BY <1>2, <1>4, <1>5
  <2>2. QED  BY <2>1 DEF ll, lh, hl, mid, Columns
<1>8. /\ Hi(ll) \in Nat /\ Hi(lh) \in Nat /\ Hi(hl) \in Nat /\ Hi(mid) \in Nat
      /\ Lo(ll) \in 0 .. Limb - 1 /\ Lo(lh) \in Nat /\ Lo(hl) \in Nat
      /\ Lo(mid) \in 0 .. Limb - 1
  BY <1>1, <1>2, <1>4, <1>5
<1>9. (Hi(a) * Hi(b) + Hi(lh) + Hi(hl) + Hi(mid)) * (Limb * Limb) + (Lo(ll) + Lo(mid) * Limb)
         = (Limb * Hi(a) + Lo(a)) * (Limb * Hi(b) + Lo(b))
  <2>1. Limb \in Nat /\ Lo(ll) \in Nat /\ Lo(mid) \in Nat
    BY <1>1, <1>8
  <2>2. Recombined(Limb, Lo(a), Hi(a), Lo(b), Hi(b), Lo(ll), Hi(lh), Hi(hl), Hi(mid), Lo(mid))
    BY <1>3, <1>7, <1>8, <2>1, Schoolbook
  <2>3. QED  BY <2>2 DEF Recombined
<1>10. Lo(ll) + Lo(mid) * Limb \in 0 .. Limb * Limb - 1
  <2>1. PICK x \in 0 .. Limb - 1, y \in 0 .. Limb - 1 : x = Lo(ll) /\ y = Lo(mid)
    BY <1>8
  <2>2. Limb * y <= Limb * (Limb - 1) /\ Limb * y \in Nat /\ Limb * y = y * Limb
    BY <1>1, MulOrder
  <2>3. Limb * (Limb - 1) = Limb * Limb - Limb
    BY <1>1
  <2>4. x + y * Limb \in 0 .. Limb * Limb - 1
    BY <1>1, <2>2, <2>3
  <2>5. QED  BY <2>1, <2>4
<1>11. Hi(a) * Hi(b) + Hi(lh) + Hi(hl) + Hi(mid) \in Nat
  BY <1>3, <1>8
<1>12. a = Limb * Hi(a) + Lo(a) /\ b = Limb * Hi(b) + Lo(b)
  BY <1>2
<1>13. QED  BY <1>6, <1>9, <1>10, <1>11, <1>12 DEF Word

-----------------------------------------------------------------------------
(* The amount vested.                                                      *)

\* Every amount fits the word that products are split into.
LEMMA AmountsFit ==
  Word \in Nat \ {0} /\ MaxAmount \in Int /\ MaxAmount < Word
<1>1. Word \in Nat \ {0}
  BY VestingAssumption DEF Word
<1>2. Word \div 2 \in Nat /\ Word \div 2 <= Word
  BY <1>1
<1>3. QED  BY <1>1, <1>2 DEF MaxAmount

\* Both ways of computing the part of a total give the same quotient: the high
\* word of the product is smaller than the span, so nothing is lost of it.
LEMMA ProRataIsQuotient ==
  ASSUME NEW total \in Nat, total <= MaxAmount,
         NEW elapsed \in Nat, NEW span \in Nat \ {0}, elapsed <= span
  PROVE  ProRata(total, elapsed, span) = (total * elapsed) \div span
<1>1. total < Word /\ Word \in Nat \ {0}
  BY AmountsFit
<1>2. CASE total * elapsed <= MaxAmount
  BY <1>2 DEF ProRata
<1>3. CASE ~(total * elapsed <= MaxAmount)
  <2> DEFINE product == MulWide(total, elapsed)
  <2>1. PICK hi \in Nat, lo \in Nat :
          /\ hi = product.hi /\ lo = product.lo
          /\ hi * Word + lo = total * elapsed
    <3>1. product.hi \in Nat /\ product.lo \in 0 .. Word - 1
          /\ product.hi * Word + product.lo = total * elapsed
      BY MulWideExact
    <3>2. product.lo \in Nat
      BY <1>1, <3>1
    <3> HIDE DEF product
    <3>3. QED  BY <3>1, <3>2
  <2>2. total * elapsed <= total * span /\ span * total < span * Word
        /\ total * span = span * total
    BY <1>1, MulOrder, MulStrict
  <2>3. hi < span
    <3>1. SUFFICES ASSUME span <= hi PROVE FALSE
      OBVIOUS
    <3>2. Word * span <= Word * hi
      BY <1>1, <3>1, MulOrder
    <3>3. Word * span = span * Word /\ Word * hi = hi * Word
      BY <1>1
    <3>4. hi * Word \in Nat /\ span * Word \in Nat /\ total * elapsed \in Nat /\ total * span \in Nat
      BY <1>1
    <3>5. QED  BY <2>1, <2>2, <3>2, <3>3, <3>4
  <2>4. hi % span = hi
    BY <2>3
  <2>5. ProRata(total, elapsed, span) = (hi * Word + lo) \div span
    BY <1>3, <2>1, <2>4 DEF ProRata, DivWide
  <2>6. QED  BY <2>1, <2>5
<1>4. QED  BY <1>2, <1>3

\* What of the schedule every state has.
VestingTypeOK ==
  /\ schedule \in Schedules
  /\ timestamp \in Times
  /\ claimed \in Nat /\ treasury \in Nat /\ received \in Nat

\* What the constructor checks of a schedule.
LEMMA ScheduleFits ==
  ASSUME schedule \in Schedules
  PROVE  /\ schedule.start \in Nat /\ schedule.cliff \in Nat /\ schedule.end \in Nat
         /\ schedule.start <= schedule.cliff /\ schedule.cliff <= schedule.end
         /\ schedule.total \in Nat /\ schedule.total <= MaxAmount
<1>1. Times \subseteq Nat /\ Totals \subseteq Nat /\ \A total \in Totals : total <= MaxAmount
  <2>1. MaxAmount \in Int /\ Limb \in Nat
    BY AmountsFit, VestingAssumption
  <2>2. QED  BY <2>1, VestingAssumption
<1>2. QED  BY <1>1 DEF Schedules

\* The three stages of a schedule.
LEMMA Stages ==
  ASSUME schedule \in Schedules, NEW now \in Nat
  PROVE  /\ now < schedule.cliff => Vested(now) = 0
         /\ now >= schedule.end /\ now >= schedule.cliff => Vested(now) = schedule.total
         /\ now >= schedule.cliff /\ now < schedule.end =>
              /\ now - schedule.start \in Nat
              /\ schedule.end - schedule.start \in Nat \ {0}
              /\ now - schedule.start <= schedule.end - schedule.start
              /\ Vested(now) = (schedule.total * (now - schedule.start))
                                  \div (schedule.end - schedule.start)
<1>1. /\ schedule.start \in Nat /\ schedule.cliff \in Nat /\ schedule.end \in Nat
      /\ schedule.start <= schedule.cliff /\ schedule.cliff <= schedule.end
      /\ schedule.total \in Nat /\ schedule.total <= MaxAmount
  BY ScheduleFits
<1>2. CASE now < schedule.cliff
  BY <1>1, <1>2 DEF Vested
<1>3. CASE now >= schedule.cliff /\ now >= schedule.end
  BY <1>1, <1>3 DEF Vested
<1>4. CASE now >= schedule.cliff /\ now < schedule.end
  <2>1. /\ now - schedule.start \in Nat
        /\ schedule.end - schedule.start \in Nat \ {0}
        /\ now - schedule.start <= schedule.end - schedule.start
        /\ ~(now < schedule.cliff) /\ ~(now >= schedule.end) /\ schedule.end # schedule.start
    BY <1>1, <1>4
  <2>2. Vested(now) = ProRata(schedule.total, now - schedule.start, schedule.end - schedule.start)
    BY <2>1 DEF Vested
  <2>3. QED  BY <1>1, <1>4, <2>1, <2>2, ProRataIsQuotient
<1>5. QED  BY <1>1, <1>2, <1>3, <1>4

\* The exact part, rounded down.
LEMMA PartIsExact ==
  ASSUME schedule \in Schedules, timestamp \in Nat
  PROVE  VestedIsProRata
<1>1. /\ schedule.cliff \in Nat /\ schedule.end \in Nat /\ schedule.total \in Nat
      /\ schedule.cliff <= schedule.end
  BY ScheduleFits
<1>2. ASSUME timestamp >= schedule.cliff, timestamp < schedule.end
      PROVE  LET elapsed == timestamp - schedule.start
                 span    == schedule.end - schedule.start
                 owing   == schedule.total * elapsed - Vested(timestamp) * span
             IN 0 <= owing /\ owing < span
  <2>1. PICK elapsed \in Nat, span \in Nat \ {0} :
          /\ elapsed = timestamp - schedule.start
          /\ span = schedule.end - schedule.start
          /\ Vested(timestamp) = (schedule.total * elapsed) \div span
    BY <1>2, Stages
  <2>2. schedule.total * elapsed \in Nat
    BY <1>1
  <2>3. QED  BY <2>1, <2>2, Quotient
<1>3. timestamp >= schedule.end => timestamp >= schedule.cliff
  BY <1>1
<1>4. QED  BY <1>2, <1>3, Stages DEF VestedIsProRata

\* What has vested never shrinks and never exceeds the total.
LEMMA VestedGrows ==
  ASSUME schedule \in Schedules, NEW now \in Nat, NEW later \in Nat, now <= later
  PROVE  /\ Vested(now) \in Nat
         /\ Vested(now) <= Vested(later)
<1> DEFINE total == schedule.total
           Part(t) == (total * (t - schedule.start)) \div (schedule.end - schedule.start)
<1>1. /\ schedule.start \in Nat /\ schedule.cliff \in Nat /\ schedule.end \in Nat
      /\ schedule.start <= schedule.cliff /\ schedule.cliff <= schedule.end
      /\ total \in Nat
  BY ScheduleFits
<1>2. ASSUME NEW t \in Nat, t >= schedule.cliff, t < schedule.end
      PROVE  Vested(t) \in Nat /\ Vested(t) <= total /\ Vested(t) = Part(t)
  <2>1. PICK elapsed \in Nat, span \in Nat \ {0} :
          /\ elapsed = t - schedule.start /\ span = schedule.end - schedule.start
          /\ elapsed <= span
          /\ Vested(t) = (total * elapsed) \div span
    BY <1>2, Stages
  <2>2. total * elapsed \in Nat /\ total * elapsed <= total * span /\ total * span \in Nat
    BY <1>1, <2>1, MulOrder
  <2>3. (total * elapsed) \div span <= (total * span) \div span
    BY <2>2, QuotientOrder
  <2>4. (total * span) \div span = total
    BY <1>1
  <2>5. (total * elapsed) \div span \in Nat
    BY <2>2, Quotient
  <2>6. QED  BY <2>1, <2>3, <2>4, <2>5
<1>3. ASSUME now >= schedule.cliff, later < schedule.end
      PROVE  Vested(now) <= Vested(later)
  <2>1. PICK e \in Nat, f \in Nat, span \in Nat \ {0} :
          /\ e = now - schedule.start /\ f = later - schedule.start /\ e <= f
          /\ span = schedule.end - schedule.start
    BY <1>1, <1>3
  <2>2. total * e <= total * f /\ total * e \in Nat /\ total * f \in Nat
    BY <1>1, <2>1, MulOrder
  <2>3. (total * e) \div span <= (total * f) \div span
    BY <2>2, QuotientOrder
  <2>4. Vested(now) = (total * e) \div span /\ Vested(later) = (total * f) \div span
    BY <1>1, <1>2, <1>3, <2>1
  <2>5. QED  BY <2>3, <2>4
<1>4. CASE now < schedule.cliff
  <2>1. Vested(now) = 0
    BY <1>4, Stages
  <2>2. Vested(later) \in Nat
    BY <1>1, <1>2, Stages
  <2>3. QED  BY <2>1, <2>2
<1>5. CASE now >= schedule.cliff /\ now < schedule.end
  <2>1. CASE later < schedule.end
    BY <1>2, <1>3, <1>5, <2>1
  <2>2. CASE later >= schedule.end
    <3>1. Vested(later) = total
      BY <1>1, <2>2, Stages
    <3>2. QED  BY <1>2, <1>5, <3>1
  <2>3. QED  BY <1>1, <2>1, <2>2
<1>6. CASE now >= schedule.end
  <2>1. Vested(now) = total /\ Vested(later) = total
    BY <1>1, <1>6, Stages
  <2>2. QED  BY <1>1, <2>1
<1>7. QED  BY <1>1, <1>4, <1>5, <1>6

-----------------------------------------------------------------------------
(* The treasury as it runs.                                                *)

VestingInv == VestingTypeOK /\ ClaimsCovered

\* One step: claims stay within what vested and what arrived.
LEMMA VestingStepKeepsInv ==
  ASSUME VestingInv, [VestingNext]_vestingVars
  PROVE  VestingInv'
<1> USE DEF VestingInv, VestingTypeOK, ClaimsCovered
<1>1. Times \subseteq Nat /\ Revenues \subseteq Nat
  BY VestingAssumption
<1>2. Vested(timestamp) \in Nat /\ timestamp \in Nat
  BY <1>1, VestedGrows
<1>3. ASSUME UNCHANGED <<timestamp, schedule>>
      PROVE  Vested(timestamp)' = Vested(timestamp)
  BY <1>3 DEF Vested
<1>4. CASE UNCHANGED vestingVars
  BY <1>3, <1>4 DEF vestingVars
<1>5. CASE ClaimVested
  <2>1. /\ claimed' = claimed + (Vested(timestamp) - claimed)
        /\ treasury' = treasury - (Vested(timestamp) - claimed)
        /\ treasury >= Vested(timestamp) - claimed
        /\ UNCHANGED <<timestamp, beneficiary, schedule, received>>
    BY <1>5 DEF ClaimVested, Claimable
  <2>2. claimed' = Vested(timestamp) /\ Vested(timestamp)' = Vested(timestamp)
    BY <1>2, <1>3, <2>1
  <2>3. QED  BY <1>2, <2>1, <2>2
<1>6. ASSUME NEW b \in Beneficiaries, SetBeneficiary(b)
      PROVE  VestingInv'
  BY <1>3, <1>6 DEF SetBeneficiary
<1>7. ASSUME NEW amount \in Revenues, ReceiveRevenue(amount)
      PROVE  VestingInv'
  BY <1>1, <1>3, <1>7 DEF ReceiveRevenue
<1>8. ASSUME NEW later \in Times, PassTime(later)
      PROVE  VestingInv'
  <2>1. /\ later \in Nat /\ timestamp <= later
        /\ timestamp' = later /\ UNCHANGED <<beneficiary, schedule, claimed, treasury, received>>
    BY <1>1, <1>2, <1>8 DEF PassTime
  <2>2. Vested(timestamp)' = Vested(later)
    BY <2>1 DEF Vested
  <2>3. Vested(timestamp) <= Vested(later) /\ Vested(later) \in Nat
    BY <1>2, <2>1, VestedGrows
  <2>4. QED  BY <1>2, <1>8, <2>1, <2>2, <2>3
<1>9. QED  BY <1>4, <1>5, <1>6, <1>7, <1>8 DEF VestingNext

\* Claims stay covered by what vested and what arrived.
LEMMA VestingInvHolds == VestingSpec => []VestingInv
<1>1. VestingInit => VestingInv
  <2> SUFFICES ASSUME VestingInit PROVE VestingInv
    OBVIOUS
  <2>1. VestingTypeOK
    BY VestingAssumption DEF VestingInit, VestingTypeOK
  <2>2. Vested(timestamp) \in Nat
    BY <2>1, VestingAssumption, VestedGrows DEF VestingTypeOK
  <2>3. QED  BY <2>1, <2>2 DEF VestingInit, VestingInv, ClaimsCovered
<1>2. VestingInv /\ [VestingNext]_vestingVars => VestingInv'
  BY VestingStepKeepsInv
<1>3. QED  BY <1>1, <1>2, PTL DEF VestingSpec

\* For every schedule, total and width of a limb, the amount vested is the
\* exact part of the total, through either way of computing it.
THEOREM VestingIsExact == VestingSpec => []VestedIsProRata
<1>1. VestingInv => VestedIsProRata
  BY PartIsExact, VestingAssumption DEF VestingInv, VestingTypeOK
<1>2. QED  BY <1>1, VestingInvHolds, PTL

\* For every schedule and every order of revenue, claims and changes of the
\* beneficiary, no more is paid than has vested, and no revenue is lost.
THEOREM ClaimsAreCovered == VestingSpec => []ClaimsCovered
<1>1. VestingInv => ClaimsCovered
  BY DEF VestingInv
<1>2. QED  BY <1>1, VestingInvHolds, PTL
=============================================================================
