---------------------------- MODULE VerdictProofs ----------------------------
(***************************************************************************)
(* What a verdict pays and what a ballot decides.                          *)
(*                                                                         *)
(* A settlement conserves funds and respects its caps for every amount,    *)
(* every quorum, every number of losing workers and every choice of basis  *)
(* points.  The accumulators of distribute_slashes() carry the proof: the  *)
(* conservation of what was slashed so far is the loop invariant, and the  *)
(* split of the amount is added to it once.  The totals the loop arrives   *)
(* at are the sums the closed forms of Settlement write down, and with one *)
(* loser at most they are what preview_resolve() announced.                *)
(*                                                                         *)
(* unanimous_dissenter() compares with the first answer and counts.  For   *)
(* lists of any length and answers of any kind this finds exactly the one  *)
(* position that disagrees with a unanimous rest, the first included.      *)
(* Hence every ruling in a row of them is fair: by the invariant           *)
(* RulingsInv the counts of the leaderboard are the credits that earlier   *)
(* rulings gave.                                                           *)
(***************************************************************************)
EXTENDS SettlementRun, ConsensusRun, AmountProofs

-----------------------------------------------------------------------------
(* The settlement as it runs.                                              *)

\* The inductive invariant: types, the conservation of the slashes shared so
\* far, and the conservation of the whole once it is paid.
RunInv == RunTypeOK /\ SlashesConserved /\ SettlementConserves /\ SlashWithinCap

\* It holds before the first loser is slashed.
LEMMA RunInitInv == RunInit => RunInv
<1> SUFFICES ASSUME RunInit PROVE RunInv
  OBVIOUS
<1>1. n \in Nat /\ slashRedistPerWorker = 0 /\ slashPlatformTake = 0 /\ totalSlashed = 0
  BY RunAssumption DEF RunInit
<1>2. SlashesConserved
  BY <1>1 DEF SlashesConserved
<1>3. RunTypeOK
  <2>1. <<>> \in Seq(Slashables) /\ <<>> \in Seq(Nat) /\ Len(<<>>) = 0
    OBVIOUS
  <2>2. QED  BY <2>1 DEF RunInit, RunTypeOK
<1>4. SettlementConserves /\ SlashWithinCap
  BY DEF RunInit, SettlementConserves, SlashWithinCap
<1>5. QED  BY <1>2, <1>3, <1>4 DEF RunInv

\* The two accumulators grow by the two parts of one slash.
LEMMA AddShares ==
  ASSUME NEW x \in Nat, NEW y \in Nat, NEW p \in Nat, NEW q \in Nat,
         NEW total \in Nat, NEW s \in Nat, x + p = total, y + q = s
  PROVE  (x + y) + (p + q) = total + s
OBVIOUS

\* Slashing one more loser keeps what is shared out equal to what was taken.
LEMMA SlashLoserKeepsInv ==
  ASSUME RunInv, NEW slashable \in Slashables, SlashLoser(slashable)
  PROVE  RunInv'
<1> DEFINE taken == SlashAmount(slashable, amount)
<1> USE DEF RunInv
<1>1. amount \in Nat /\ n \in Nat \ {0} /\ slashable \in Nat
  BY RunAssumption DEF RunTypeOK
<1>2. taken \in Nat /\ taken <= amount /\ taken <= slashable
  BY <1>1, SlashAmountBound
<1>3. /\ RedistShare(taken, n) \in Nat
      /\ PlatformPortion(taken, n) \in Nat
      /\ RedistShare(taken, n) * n + PlatformPortion(taken, n) = taken
  BY <1>1, <1>2, SlashShared
<1> HIDE DEF taken
<1>4. /\ stakes' = Append(stakes, slashable) /\ slashed' = Append(slashed, taken)
      /\ slashRedistPerWorker' = slashRedistPerWorker + RedistShare(taken, n)
      /\ slashPlatformTake' = slashPlatformTake + PlatformPortion(taken, n)
      /\ totalSlashed' = totalSlashed + taken
      /\ ~paid /\ UNCHANGED <<amount, n, workerCredit, platformTake, paid>>
  BY DEF SlashLoser, taken
<1>5. RunTypeOK'
  <2>1. /\ stakes' \in Seq(Slashables) /\ slashed' \in Seq(Nat)
        /\ Len(stakes') = Len(slashed')
    BY <1>2, <1>4 DEF RunTypeOK
  <2>2. /\ slashPlatformTake' \in Nat /\ slashRedistPerWorker' \in Nat
        /\ totalSlashed' \in Nat
    BY <1>2, <1>3, <1>4 DEF RunTypeOK
  <2>3. QED  BY <1>4, <2>1, <2>2 DEF RunTypeOK
<1>6. SlashesConserved'
  <2>1. (slashRedistPerWorker + RedistShare(taken, n)) * n
           = slashRedistPerWorker * n + RedistShare(taken, n) * n
    BY <1>1, <1>3 DEF RunTypeOK
  <2>2. slashRedistPerWorker * n \in Nat /\ RedistShare(taken, n) * n \in Nat
    BY <1>1, <1>3 DEF RunTypeOK
  <2>3. slashRedistPerWorker * n + slashPlatformTake = totalSlashed
    BY DEF SlashesConserved
  <2>4. slashRedistPerWorker' * n'
           = slashRedistPerWorker * n + RedistShare(taken, n) * n
    BY <1>4, <2>1
  <2>5. slashPlatformTake \in Nat /\ totalSlashed \in Nat
    BY DEF RunTypeOK
  <2>6. (slashRedistPerWorker * n + RedistShare(taken, n) * n)
           + (slashPlatformTake + PlatformPortion(taken, n)) = totalSlashed + taken
    BY ONLY <1>2, <1>3, <2>2, <2>3, <2>5, AddShares
  <2>7. slashPlatformTake' = slashPlatformTake + PlatformPortion(taken, n)
        /\ totalSlashed' = totalSlashed + taken
    BY <1>4
  <2>8. QED  BY ONLY <2>4, <2>6, <2>7, Zenon DEF SlashesConserved
<1>7. SettlementConserves'
  BY <1>4 DEF SettlementConserves
<1>8. SlashWithinCap'
  BY <1>2, <1>4 DEF RunTypeOK, SlashWithinCap
<1>9. QED  BY <1>5, <1>6, <1>7, <1>8

\* Paying the winners and the platform pays out the escrow and the slashes.
LEMMA PayKeepsInv ==
  ASSUME RunInv, Pay
  PROVE  RunInv'
<1> USE DEF RunInv
<1>1. amount \in Nat /\ n \in Nat \ {0}
  BY RunAssumption DEF RunTypeOK
<1>2. /\ Fee(amount) \in Nat /\ Share(amount, n) \in Nat /\ Dust(amount, n) \in Nat
      /\ Fee(amount) + Share(amount, n) * n + Dust(amount, n) = amount
  BY <1>1, SplitConserves
<1>3. RunTypeOK'
  BY <1>2 DEF Pay, RunTypeOK
<1>4. SettlementConserves'
  <2>1. (Share(amount, n) + slashRedistPerWorker) * n
           = Share(amount, n) * n + slashRedistPerWorker * n
    BY <1>1, <1>2 DEF RunTypeOK
  <2>2. Share(amount, n) * n \in Nat /\ slashRedistPerWorker * n \in Nat
    BY <1>1, <1>2 DEF RunTypeOK
  <2>3. slashRedistPerWorker * n + slashPlatformTake = totalSlashed
    BY DEF SlashesConserved
  <2>4. workerCredit' = Share(amount, n) + slashRedistPerWorker
        /\ platformTake' = Fee(amount) + Dust(amount, n) + slashPlatformTake
        /\ UNCHANGED <<amount, n, totalSlashed>>
    BY DEF Pay
  <2>5. QED  BY <1>2, <2>1, <2>2, <2>3, <2>4 DEF RunTypeOK, SettlementConserves
<1>5. SlashesConserved' /\ SlashWithinCap'
  BY DEF Pay, SlashesConserved, SlashWithinCap
<1>6. QED  BY <1>3, <1>4, <1>5

\* What holds of every state of a settlement, for all basis points, amounts,
\* quorum sizes and losing stakes.
THEOREM SettlementIsConserved ==
  RunSpec => [](RunTypeOK /\ SlashesConserved /\ SettlementConserves /\ SlashWithinCap)
<1>1. ASSUME RunInv, [RunNext]_runVars
      PROVE  RunInv'
  <2>1. CASE UNCHANGED runVars
    BY <1>1, <2>1 DEF runVars, RunInv, RunTypeOK, SlashesConserved, SettlementConserves,
                      SlashWithinCap
  <2>2. CASE Pay
    BY <1>1, <2>2, PayKeepsInv
  <2>3. ASSUME NEW slashable \in Slashables, SlashLoser(slashable)
        PROVE  RunInv'
    BY <1>1, <2>3, SlashLoserKeepsInv
  <2>4. QED  BY <1>1, <2>1, <2>2, <2>3 DEF RunNext
<1>2. QED  BY <1>1, RunInitInv, PTL DEF RunSpec, RunInv

\* While the slashes are being shared, what is set aside for the workers and
\* for the platform is what was slashed, whatever the number of losing workers.
THEOREM SlashesAreShared == RunSpec => []SlashesConserved
BY SettlementIsConserved, PTL

\* No losing worker loses more than the question's amount or than its stake.
THEOREM SlashesAreCapped == RunSpec => []SlashWithinCap
BY SettlementIsConserved, PTL

-----------------------------------------------------------------------------
(* The running totals and their closed forms.                              *)

RedistShares == [l \in DOMAIN slashed |-> RedistShare(slashed[l], n)]
PlatformPortions == [l \in DOMAIN slashed |-> PlatformPortion(slashed[l], n)]

\* The accumulators of distribute_slashes() are sums over the losers seen so
\* far, each loser's slash is the one slash() takes, and the payment adds the
\* accumulators to the split of the amount.
TotalsInv ==
  /\ slashRedistPerWorker = SumFunction(RedistShares)
  /\ slashPlatformTake = SumFunction(PlatformPortions)
  /\ totalSlashed = SumFunction(slashed)
  /\ \A i \in DOMAIN slashed : slashed[i] = SlashAmount(stakes[i], amount)
  /\ paid => /\ workerCredit = Share(amount, n) + slashRedistPerWorker
             /\ platformTake = Fee(amount) + Dust(amount, n) + slashPlatformTake

\* One more entry at the end adds its part to a sum along a list.
LEMMA SumAppended ==
  ASSUME NEW k \in Nat \ {0}, NEW f, NEW g,
         DOMAIN f = 1 .. k - 1, DOMAIN g = 1 .. k, g[k] \in Int,
         \A i \in 1 .. k - 1 : f[i] \in Int /\ g[i] = f[i]
  PROVE  SumFunction(g) = SumFunction(f) + g[k]
<1>1. IsFiniteSet(DOMAIN f)
  BY FS_Interval
<1>2. k \notin DOMAIN f /\ DOMAIN g = DOMAIN f \cup {k}
  OBVIOUS
<1>3. g[k] \in Int /\ \A i \in DOMAIN f : f[i] \in Int /\ g[i] = f[i]
  OBVIOUS
<1>4. QED  BY ONLY <1>1, <1>2, <1>3, EntryAdded

\* Each turn of the loop keeps the totals in step with the sums.
LEMMA SlashLoserKeepsTotals ==
  ASSUME RunTypeOK, TotalsInv, NEW slashable \in Slashables, SlashLoser(slashable)
  PROVE  TotalsInv'
<1> DEFINE taken == SlashAmount(slashable, amount)
           k == Len(slashed) + 1
<1>1. /\ amount \in Nat /\ n \in Nat \ {0} /\ slashable \in Nat
      /\ slashed \in Seq(Nat) /\ stakes \in Seq(Slashables) /\ Len(stakes) = Len(slashed)
  BY RunAssumption DEF RunTypeOK
<1>2. taken \in Nat
  BY <1>1, SlashAmountBound
<1>3. \A a \in Nat : RedistShare(a, n) \in Nat /\ PlatformPortion(a, n) \in Nat
  BY <1>1, SlashShared
<1>4. /\ stakes' = Append(stakes, slashable) /\ slashed' = Append(slashed, taken)
      /\ slashRedistPerWorker' = slashRedistPerWorker + RedistShare(taken, n)
      /\ slashPlatformTake' = slashPlatformTake + PlatformPortion(taken, n)
      /\ totalSlashed' = totalSlashed + taken
      /\ ~paid' /\ UNCHANGED <<amount, n>>
  BY DEF SlashLoser
<1> HIDE DEF taken
<1>5. /\ k \in Nat \ {0} /\ DOMAIN slashed = 1 .. k - 1 /\ DOMAIN slashed' = 1 .. k
      /\ slashed'[k] = taken /\ k \in 1 .. k /\ slashed'[k] \in Int
      /\ \A i \in 1 .. k - 1 : /\ i \in 1 .. k /\ slashed'[i] = slashed[i]
                               /\ slashed[i] \in Nat
  BY <1>1, <1>2, <1>4
<1> HIDE DEF k
<1>6. totalSlashed' = SumFunction(slashed')
  <2>1. \A i \in 1 .. k - 1 : slashed[i] \in Int /\ slashed'[i] = slashed[i]
    BY <1>5
  <2>2. SumFunction(slashed') = SumFunction(slashed) + slashed'[k]
    BY ONLY <1>5, <2>1, SumAppended
  <2>3. QED  BY <1>4, <1>5, <2>2 DEF TotalsInv
<1>7. slashRedistPerWorker' = SumFunction(RedistShares')
  <2>1. /\ DOMAIN RedistShares = 1 .. k - 1 /\ DOMAIN RedistShares' = 1 .. k
        /\ RedistShares'[k] = RedistShare(taken, n) /\ RedistShares'[k] \in Int
        /\ \A i \in 1 .. k - 1 : RedistShares[i] \in Int /\ RedistShares'[i] = RedistShares[i]
    <3>1. RedistShares = [l \in DOMAIN slashed |-> RedistShare(slashed[l], n)]
      BY DEF RedistShares
    <3>2. RedistShares' = [l \in DOMAIN slashed' |-> RedistShare(slashed'[l], n)]
      BY <1>4 DEF RedistShares
    <3>3. /\ \A i \in 1 .. k - 1 : /\ RedistShares[i] = RedistShare(slashed[i], n)
                                   /\ RedistShares'[i] = RedistShare(slashed[i], n)
          /\ RedistShares'[k] = RedistShare(taken, n)
      BY ONLY <1>5, <3>1, <3>2
    <3>4. /\ RedistShare(taken, n) \in Int
          /\ \A i \in 1 .. k - 1 : RedistShare(slashed[i], n) \in Int
      <4>1. \A a \in Nat : RedistShare(a, n) \in Int
        BY <1>3
      <4>2. \A i \in 1 .. k - 1 : slashed[i] \in Nat
        BY <1>1, <1>5
      <4>3. QED  BY ONLY <1>2, <4>1, <4>2
    <3>5. DOMAIN RedistShares = 1 .. k - 1 /\ DOMAIN RedistShares' = 1 .. k
      BY ONLY <1>5, <3>1, <3>2
    <3>6. QED  BY ONLY <3>3, <3>4, <3>5
  <2>2. SumFunction(RedistShares') = SumFunction(RedistShares) + RedistShares'[k]
    BY ONLY <1>5, <2>1, SumAppended
  <2>3. QED  BY <1>4, <2>1, <2>2 DEF TotalsInv
<1>8. slashPlatformTake' = SumFunction(PlatformPortions')
  <2>1. /\ DOMAIN PlatformPortions = 1 .. k - 1 /\ DOMAIN PlatformPortions' = 1 .. k
        /\ PlatformPortions'[k] = PlatformPortion(taken, n) /\ PlatformPortions'[k] \in Int
        /\ \A i \in 1 .. k - 1 : PlatformPortions[i] \in Int /\ PlatformPortions'[i] = PlatformPortions[i]
    <3>1. PlatformPortions = [l \in DOMAIN slashed |-> PlatformPortion(slashed[l], n)]
      BY DEF PlatformPortions
    <3>2. PlatformPortions' = [l \in DOMAIN slashed' |-> PlatformPortion(slashed'[l], n)]
      BY <1>4 DEF PlatformPortions
    <3>3. /\ \A i \in 1 .. k - 1 : /\ PlatformPortions[i] = PlatformPortion(slashed[i], n)
                                   /\ PlatformPortions'[i] = PlatformPortion(slashed[i], n)
          /\ PlatformPortions'[k] = PlatformPortion(taken, n)
      BY ONLY <1>5, <3>1, <3>2
    <3>4. /\ PlatformPortion(taken, n) \in Int
          /\ \A i \in 1 .. k - 1 : PlatformPortion(slashed[i], n) \in Int
      <4>1. \A a \in Nat : PlatformPortion(a, n) \in Int
        BY <1>3
      <4>2. \A i \in 1 .. k - 1 : slashed[i] \in Nat
        BY <1>1, <1>5
      <4>3. QED  BY ONLY <1>2, <4>1, <4>2
    <3>5. DOMAIN PlatformPortions = 1 .. k - 1 /\ DOMAIN PlatformPortions' = 1 .. k
      BY ONLY <1>5, <3>1, <3>2
    <3>6. QED  BY ONLY <3>3, <3>4, <3>5
  <2>2. SumFunction(PlatformPortions') = SumFunction(PlatformPortions) + PlatformPortions'[k]
    BY ONLY <1>5, <2>1, SumAppended
  <2>3. QED  BY <1>4, <2>1, <2>2 DEF TotalsInv
<1>9. \A i \in DOMAIN slashed' : slashed'[i] = SlashAmount(stakes'[i], amount')
  BY <1>1, <1>2, <1>4 DEF TotalsInv, taken
<1>10. QED  BY <1>4, <1>6, <1>7, <1>8, <1>9 DEF TotalsInv

\* So do the start and the payment.
LEMMA TotalsKept ==
  /\ RunInit => TotalsInv
  /\ RunTypeOK /\ TotalsInv /\ [RunNext]_runVars => TotalsInv'
<1>1. ASSUME RunInit PROVE TotalsInv
  <2>1. /\ slashed = <<>> /\ DOMAIN slashed = {} /\ ~paid
        /\ slashRedistPerWorker = 0 /\ slashPlatformTake = 0 /\ totalSlashed = 0
    BY <1>1 DEF RunInit
  <2>2. DOMAIN RedistShares = {} /\ DOMAIN PlatformPortions = {}
    BY <2>1 DEF RedistShares, PlatformPortions
  <2>3. \A f : DOMAIN f = {} => SumFunction(f) = 0
    BY SumEmpty DEF SumFunction
  <2>4. QED  BY <2>1, <2>2, <2>3 DEF TotalsInv
<1>2. ASSUME RunTypeOK, TotalsInv, Pay PROVE TotalsInv'
  BY <1>2 DEF TotalsInv, Pay, RedistShares, PlatformPortions
<1>3. ASSUME TotalsInv, UNCHANGED runVars PROVE TotalsInv'
  BY <1>3 DEF TotalsInv, runVars, RedistShares, PlatformPortions
<1>4. QED  BY <1>1, <1>2, <1>3, SlashLoserKeepsTotals DEF RunNext

\* What distribute_slashes() has accumulated when a settlement is paid is what
\* the closed forms of Settlement give, for any number of losing workers.
THEOREM TotalsAreClosedForms == RunSpec => []TotalsMatchClosedForm
<1>1. TotalsInv => TotalsMatchClosedForm
  <2> SUFFICES ASSUME TotalsInv, paid
               PROVE  /\ workerCredit = WorkerCredit(amount, n, slashed)
                      /\ platformTake = PlatformTake(amount, n, slashed)
                      /\ totalSlashed = TotalSlashed(slashed)
    BY DEF TotalsMatchClosedForm
  <2>1. QED  BY DEF TotalsInv, RedistShares, PlatformPortions, WorkerCredit, PlatformTake,
                    TotalSlashed
<1>2. QED  BY <1>1, TotalsKept, SettlementIsConserved, PTL DEF RunSpec

\* With one loser at most, preview_resolve() announces what the settlement then
\* pays: rounding the redistribution once over all losers is then the same as
\* rounding it once per loser, and both ways of writing basis points agree.
THEOREM PreviewIsExact == RunSpec => []PreviewExactForOneLoser
<1>1. ASSUME RunTypeOK, TotalsInv, paid, Len(stakes) <= 1
      PROVE  Previewed = [share |-> workerCredit, take |-> platformTake, total |-> totalSlashed]
  <2> DEFINE taken == [i \in DOMAIN stakes |-> PreviewSlash(stakes[i], amount)]
             total == SumFunction(taken)
  <2>1. /\ amount \in Nat /\ n \in Nat \ {0} /\ \A i \in DOMAIN stakes : stakes[i] \in Nat
        /\ slashed \in Seq(Nat)
        /\ DOMAIN stakes = DOMAIN slashed /\ (Len(slashed) = 0 \/ Len(slashed) = 1)
        /\ DOMAIN slashed = 1 .. Len(slashed)
    <3>1. /\ amount \in Amounts /\ n \in QuorumSizes /\ Len(stakes) = Len(slashed)
          /\ stakes \in Seq(Slashables) /\ slashed \in Seq(Nat)
      BY <1>1 DEF RunTypeOK
    <3>2. Amounts \subseteq Nat /\ QuorumSizes \subseteq Nat \ {0} /\ Slashables \subseteq Nat
      BY RunAssumption
    <3>3. \A i \in DOMAIN stakes : stakes[i] \in Slashables
      BY ONLY <3>1
    <3>4. Len(slashed) = 0 \/ Len(slashed) = 1
      BY <1>1, <3>1
    <3>5. DOMAIN stakes = DOMAIN slashed /\ DOMAIN slashed = 1 .. Len(slashed)
      BY ONLY <3>1
    <3>6. QED  BY ONLY <3>1, <3>2, <3>3, <3>4, <3>5
  <2>2. /\ DOMAIN taken = DOMAIN slashed
        /\ \A i \in DOMAIN slashed : taken[i] = slashed[i] /\ slashed[i] \in Nat
    BY <1>1, <2>1, PreviewFormulasAgree DEF TotalsInv
  <2>3. IsFiniteSet(DOMAIN slashed)
    BY <2>1, FS_Interval
  <2> HIDE DEF taken
  <2>4. total = SumFunction(slashed)
    BY <2>2, <2>3, SumEqual DEF SumFunction
  <2>5. /\ SumFunction(RedistShares) = RedistShare(total, n)
        /\ SumFunction(PlatformPortions) = PlatformPortion(total, n)
    <3>1. CASE Len(slashed) = 0
      <4>1. DOMAIN slashed = {} /\ DOMAIN RedistShares = {} /\ DOMAIN PlatformPortions = {}
        BY <2>1, <3>1 DEF RedistShares, PlatformPortions
      <4>2. \A f : DOMAIN f = {} => SumFunction(f) = 0
        BY SumEmpty DEF SumFunction
      <4>3. RedistShare(0, n) = 0 /\ PlatformPortion(0, n) = 0
        <5>1. /\ RedistShare(0, n) \in Nat /\ PlatformPortion(0, n) \in Nat
              /\ RedistShare(0, n) * n + PlatformPortion(0, n) = 0
          BY <2>1, SlashShared
        <5>2. RedistShare(0, n) * n >= RedistShare(0, n)
          BY <2>1, <5>1
        <5>3. QED  BY <2>1, <5>1, <5>2
      <4>4. QED  BY <2>4, <4>1, <4>2, <4>3
    <3>2. CASE Len(slashed) = 1
      <4>1. \A f : DOMAIN f = {1} /\ f[1] \in Int => SumFunction(f) = f[1]
        BY SumAdd, SumEmpty, FS_EmptySet DEF SumFunction
      <4>2. DOMAIN slashed = {1} /\ DOMAIN RedistShares = {1} /\ DOMAIN PlatformPortions = {1}
        BY <2>1, <3>2 DEF RedistShares, PlatformPortions
      <4>3. /\ RedistShares[1] = RedistShare(slashed[1], n)
            /\ PlatformPortions[1] = PlatformPortion(slashed[1], n)
        BY <4>2 DEF RedistShares, PlatformPortions
      <4>4. slashed[1] \in Nat
        BY <2>2, <4>2
      <4>5. RedistShares[1] \in Int /\ PlatformPortions[1] \in Int
        <5>1. RedistShare(slashed[1], n) \in Nat /\ PlatformPortion(slashed[1], n) \in Nat
          BY ONLY <2>1, <4>4, SlashShared
        <5>2. QED  BY ONLY <4>3, <5>1
      <4>6. QED  BY <2>4, <4>1, <4>2, <4>3, <4>4, <4>5
    <3>3. QED  BY <2>1, <3>1, <3>2
  <2>6. /\ PreviewShare(amount, n) = Share(amount, n) /\ PreviewFee(amount) = Fee(amount)
        /\ PreviewDust(amount, n) = Dust(amount, n)
    BY <2>1, PreviewFormulasAgree DEF PreviewShare, PreviewDust, Share, Dust, Pool
  <2>7. Previewed = [share |-> PreviewShare(amount, n) + RedistShare(total, n),
                     take  |-> PreviewFee(amount) + PreviewDust(amount, n)
                                 + PlatformPortion(total, n),
                     total |-> total]
    BY DEF Previewed, PreviewWorkerCredit, PreviewPlatformTake, TotalSlashed, taken
  <2>8. /\ workerCredit = Share(amount, n) + RedistShare(total, n)
        /\ platformTake = Fee(amount) + Dust(amount, n) + PlatformPortion(total, n)
        /\ totalSlashed = total
    BY <1>1, <2>4, <2>5 DEF TotalsInv
  <2>9. QED  BY ONLY <2>6, <2>7, <2>8
<1>2. RunTypeOK /\ TotalsInv => PreviewExactForOneLoser
  BY <1>1 DEF PreviewExactForOneLoser
<1>3. QED  BY <1>2, TotalsKept, SettlementIsConserved, PTL DEF RunSpec

-----------------------------------------------------------------------------
(* The ballot.                                                             *)

Mismatches(answers) == {i \in 2 .. Len(answers) : answers[i] # answers[1]}

\* Two facts about the count of the mismatches.
LEMMA MismatchCount ==
  ASSUME NEW answers \in Seq(Answers), Len(answers) >= 3
  PROVE  /\ IsFiniteSet(Mismatches(answers))
         /\ Cardinality(Mismatches(answers)) = 1 => \E i : Mismatches(answers) = {i}
         /\ Cardinality(Mismatches(answers)) = Len(answers) - 1 =>
               Mismatches(answers) = 2 .. Len(answers)
<1> DEFINE N == Len(answers)
           M == Mismatches(answers)
<1>1. N \in Nat /\ N >= 3
  OBVIOUS
<1>2. IsFiniteSet(2 .. N) /\ Cardinality(2 .. N) = N - 1
  BY <1>1, FS_Interval
<1>3. M \subseteq 2 .. N
  BY DEF Mismatches
<1>4. IsFiniteSet(M) /\ (Cardinality(M) = Cardinality(2 .. N) => M = 2 .. N)
  BY <1>2, <1>3, FS_Subset
<1>5. Cardinality(M) = 1 => \E i : M = {i}
  BY <1>4, FS_Singleton
<1>6. QED  BY <1>2, <1>4, <1>5

\* What the scan returns for a list of N answers with mismatches M.
ScanOutcome(answers, N, M, odd) ==
  /\ M = {} => odd = NoDissent
  /\ M # {} /\ N < 3 => odd = NoConsensus
  /\ \A i : N >= 3 /\ M = {i} => odd = i
  /\ M = 2 .. N /\ N >= 3 /\ (\A i \in 3 .. N : answers[i] = answers[2]) => odd = 1
  /\ \/ M = {} \/ N < 3 \/ \E i : M = {i}
     \/ M = 2 .. N /\ (\A i \in 3 .. N : answers[i] = answers[2])
     \/ odd = NoConsensus

\* The four answers of unanimous_dissenter(), with sets instead of counts.
LEMMA DissenterCases ==
  ASSUME NEW answers \in Seq(Answers),
         NEW N, N = Len(answers),
         NEW M, M = Mismatches(answers),
         NEW odd, odd = UnanimousDissenter(answers)
  PROVE  ScanOutcome(answers, N, M, odd)
<1>1. N \in Nat
  OBVIOUS
<1>2. odd = IF M = {} THEN NoDissent
            ELSE IF N < 3 THEN NoConsensus
            ELSE IF Cardinality(M) = 1 THEN CHOOSE i \in M : TRUE
            ELSE IF Cardinality(M) = N - 1 /\ \A i \in 3 .. N : answers[i] = answers[2] THEN 1
            ELSE NoConsensus
  BY DEF UnanimousDissenter, Mismatches
<1>3. \A i : M = {i} => Cardinality(M) = 1 /\ (CHOOSE j \in M : TRUE) = i
  BY FS_Singleton
<1>4. N >= 3 /\ M = 2 .. N => Cardinality(M) = N - 1 /\ Cardinality(M) # 1 /\ M # {}
  <2>1. Cardinality(2 .. N) = N - 1 \/ N < 3
    BY <1>1, FS_Interval
  <2>2. N >= 3 => 2 \in 2 .. N
    BY <1>1
  <2>3. QED  BY <1>1, <2>1, <2>2
<1>5. N >= 3 => /\ Cardinality(M) = 1 => \E i : M = {i}
                /\ Cardinality(M) = N - 1 => M = 2 .. N
  BY MismatchCount
<1>6. M = {} => odd = NoDissent
  BY <1>2
<1>7. M # {} /\ N < 3 => odd = NoConsensus
  BY <1>2
<1>8. \A i : N >= 3 /\ M = {i} => odd = i
  <2>1. SUFFICES ASSUME NEW i, N >= 3, M = {i}
                 PROVE  odd = i
    OBVIOUS
  <2>2. ~(N < 3)
    BY <1>1, <2>1
  <2>3. M # {} /\ Cardinality(M) = 1 /\ (CHOOSE j \in M : TRUE) = i
    BY <1>3, <2>1
  <2>4. QED  BY <1>2, <2>2, <2>3, Zenon
<1>9. M = 2 .. N /\ N >= 3 /\ (\A i \in 3 .. N : answers[i] = answers[2]) => odd = 1
  BY <1>1, <1>2, <1>4
<1>10. \/ M = {} \/ N < 3 \/ \E i : M = {i}
       \/ M = 2 .. N /\ (\A i \in 3 .. N : answers[i] = answers[2])
       \/ odd = NoConsensus
  <2>1. N >= 3 \/ N < 3
    BY <1>1
  <2>2. QED  BY <1>2, <1>5, <2>1, Zenon
<1>11. QED  BY <1>6, <1>7, <1>8, <1>9, <1>10 DEF ScanOutcome

\* What the sets of mismatches say about the answers.
LEMMA MismatchMeaning ==
  ASSUME NEW answers \in Seq(Answers),
         NEW N, N = Len(answers),
         NEW M, M = Mismatches(answers)
  PROVE  /\ M = {} <=> Unanimous(answers)
         /\ \A i \in 2 .. N : N >= 3 => (M = {i} <=> i \in LoneDissents(answers))
         /\ N >= 3 => (M = 2 .. N /\ (\A i \in 3 .. N : answers[i] = answers[2])
                         <=> 1 \in LoneDissents(answers))
         /\ LoneDissents(answers) \subseteq 1 .. N
         /\ N < 3 => LoneDissents(answers) = {}
<1>1. N \in Nat /\ DOMAIN answers = 1 .. N
  OBVIOUS
<1>2. M = {} <=> Unanimous(answers)
  BY <1>1 DEF Mismatches, Unanimous
<1>3. ASSUME NEW i \in 2 .. N, N >= 3
      PROVE  M = {i} <=> i \in LoneDissents(answers)
  <2>1. ASSUME M = {i}
        PROVE  i \in LoneDissents(answers)
    <3>1. answers[i] # answers[1] /\ \A j \in 2 .. N : j # i => answers[j] = answers[1]
      BY <2>1 DEF Mismatches
    <3>2. \A j \in (1 .. N) \ {i} : answers[j] = answers[1]
      BY <1>1, <3>1
    <3>3. QED  BY <1>1, <1>3, <3>1, <3>2 DEF LoneDissents
  <2>2. ASSUME i \in LoneDissents(answers)
        PROVE  M = {i}
    <3>1. 1 \in DOMAIN answers \ {i}
      BY <1>1, <1>3
    <3>2. answers[i] # answers[1]
      BY <2>2, <3>1 DEF LoneDissents
    <3>3. \A j \in DOMAIN answers \ {i} : answers[j] = answers[1]
      BY <2>2, <3>1 DEF LoneDissents
    <3>4. QED  BY <1>1, <3>2, <3>3 DEF Mismatches
  <2>3. QED  BY <2>1, <2>2
<1>4. ASSUME N >= 3
      PROVE  M = 2 .. N /\ (\A i \in 3 .. N : answers[i] = answers[2])
               <=> 1 \in LoneDissents(answers)
  <2>1. ASSUME M = 2 .. N, \A i \in 3 .. N : answers[i] = answers[2]
        PROVE  1 \in LoneDissents(answers)
    <3>1. \A j \in DOMAIN answers \ {1} : answers[j] # answers[1] /\ answers[j] = answers[2]
      BY <1>1, <2>1 DEF Mismatches
    <3>2. QED  BY <1>1, <1>4, <3>1 DEF LoneDissents
  <2>2. ASSUME 1 \in LoneDissents(answers)
        PROVE  M = 2 .. N /\ \A i \in 3 .. N : answers[i] = answers[2]
    <3>1. \A j \in 2 .. N : answers[j] # answers[1]
      BY <1>1, <2>2 DEF LoneDissents
    <3>2. \A j, k \in 2 .. N : answers[j] = answers[k]
      BY <1>1, <2>2 DEF LoneDissents
    <3>3. QED  BY <1>1, <1>4, <3>1, <3>2 DEF Mismatches
  <2>3. QED  BY <2>1, <2>2
<1>5. LoneDissents(answers) \subseteq 1 .. N /\ (N < 3 => LoneDissents(answers) = {})
  BY <1>1 DEF LoneDissents
<1>6. QED  BY <1>2, <1>3, <1>4, <1>5

\* For every list of answers: unanimous_dissenter() reports no dissent exactly
\* when all agree, and a position exactly when it disagrees alone with at
\* least two others who agree, the first position included.
THEOREM DissenterIsFound ==
  ASSUME NEW answers \in Seq(Answers)
  PROVE  DissenterFound(answers)
<1>1. PICK N, M, odd : /\ N = Len(answers)
                       /\ M = Mismatches(answers)
                       /\ odd = UnanimousDissenter(answers)
  OBVIOUS
<1>2. N \in Nat /\ DOMAIN answers = 1 .. N /\ \A i : M = {i} => i \in 2 .. N
  BY <1>1 DEF Mismatches
<1>3. ScanOutcome(answers, N, M, odd)
  BY <1>1, DissenterCases
<1>4. /\ M = {} => odd = NoDissent
      /\ M # {} /\ N < 3 => odd = NoConsensus
      /\ \A i : N >= 3 /\ M = {i} => odd = i
      /\ M = 2 .. N /\ N >= 3 /\ (\A i \in 3 .. N : answers[i] = answers[2]) => odd = 1
      /\ \/ M = {} \/ N < 3 \/ \E i : M = {i}
         \/ M = 2 .. N /\ (\A i \in 3 .. N : answers[i] = answers[2])
         \/ odd = NoConsensus
  BY <1>3 DEF ScanOutcome
<1>5. /\ M = {} <=> Unanimous(answers)
      /\ \A i \in 2 .. N : N >= 3 => (M = {i} <=> i \in LoneDissents(answers))
      /\ N >= 3 => (M = 2 .. N /\ (\A i \in 3 .. N : answers[i] = answers[2])
                      <=> 1 \in LoneDissents(answers))
      /\ N < 3 => LoneDissents(answers) = {}
  BY <1>1, MismatchMeaning
<1>6. N < 3 \/ N >= 3
  BY <1>2
<1>7. odd = NoDissent <=> M = {}
  <2>1. SUFFICES ASSUME M # {}
                 PROVE  odd # NoDissent
    BY <1>4
  <2>2. CASE odd = NoConsensus
    BY <2>2 DEF NoDissent, NoConsensus
  <2>3. CASE odd # NoConsensus
    <3>1. N >= 3
      BY <1>4, <1>6, <2>1, <2>3
    <3>2. CASE \E i : M = {i}
      <4>1. PICK i : M = {i}
        BY <3>2
      <4>2. odd = i /\ i \in 2 .. N
        BY <1>2, <1>4, <3>1, <4>1
      <4>3. QED  BY <1>2, <4>2 DEF NoDissent
    <3>3. CASE M = 2 .. N /\ (\A i \in 3 .. N : answers[i] = answers[2])
      BY <1>4, <3>1, <3>3 DEF NoDissent
    <3>4. ~(N < 3)
      BY <1>2, <3>1
    <3>5. QED  BY <1>4, <2>1, <2>3, <3>2, <3>3, <3>4
  <2>4. QED  BY <2>2, <2>3
<1>8. ASSUME NEW i \in 1 .. N
      PROVE  odd = i <=> i \in LoneDissents(answers)
  <2>1. i \in Nat /\ i # NoDissent /\ i # NoConsensus
    BY <1>2, <1>8 DEF NoDissent, NoConsensus
  <2>2. CASE N < 3
    BY <1>4, <1>5, <2>1, <2>2
  <2>3. CASE N >= 3
    <3>1. ~(N < 3) /\ 2 .. N # {1}
      BY <1>2, <2>3
    <3>2. \/ M = {} /\ odd = NoDissent
          \/ M = {odd} /\ odd \in 2 .. N
          \/ odd = 1 /\ M = 2 .. N /\ (\A j \in 3 .. N : answers[j] = answers[2])
          \/ odd = NoConsensus
      BY <1>2, <1>4, <2>3, <3>1
    <3>3. CASE i = 1
      BY <1>2, <1>4, <1>5, <2>1, <2>3, <3>2, <3>3
    <3>4. CASE i \in 2 .. N
      BY <1>2, <1>4, <1>5, <2>1, <2>3, <3>2, <3>4
    <3>5. QED  BY <1>2, <1>8, <3>3, <3>4
  <2>4. QED  BY <1>6, <2>2, <2>3
<1>9. QED  BY <1>1, <1>2, <1>5, <1>7, <1>8 DEF DissenterFound

-----------------------------------------------------------------------------
(* Rulings one after another.                                              *)

\* The scan returns a position of the list, no dissent, or no consensus.
LEMMA ScanRange ==
  ASSUME NEW answers \in Seq(Answers)
  PROVE  UnanimousDissenter(answers) \in {NoDissent, NoConsensus} \cup (1 .. Len(answers))
<1>1. PICK N, M, odd : /\ N = Len(answers)
                       /\ M = Mismatches(answers)
                       /\ odd = UnanimousDissenter(answers)
  OBVIOUS
<1>2. N \in Nat /\ \A i : M = {i} => i \in 2 .. N
  BY <1>1 DEF Mismatches
<1>3. ScanOutcome(answers, N, M, odd)
  BY <1>1, DissenterCases
<1>4. N < 3 \/ (N >= 3 /\ ~(N < 3))
  BY <1>2
<1>5. odd \in {NoDissent, NoConsensus} \/ (N >= 3 /\ odd = 1) \/ odd \in 2 .. N
  <2>1. CASE M = {} \/ N < 3
    BY <1>3, <2>1 DEF ScanOutcome
  <2>2. ASSUME NEW i, M = {i}, N >= 3
        PROVE  odd \in 2 .. N
    BY <1>2, <1>3, <2>2 DEF ScanOutcome
  <2>3. QED  BY <1>3, <1>4, <2>1, <2>2 DEF ScanOutcome
<1>6. QED  BY <1>1, <1>2, <1>5

\* In a conclusive ballot all agree apart from the position the scan returns,
\* which differs from at least two others when there is one.
AgreeBut(ballot, odd) ==
  /\ \A i, j \in DOMAIN ballot \ {odd} : ballot[i].answer = ballot[j].answer
  /\ odd # NoDissent =>
       /\ odd \in DOMAIN ballot /\ Len(ballot) >= 3
       /\ \A i \in DOMAIN ballot \ {odd} : ballot[i].answer # ballot[odd].answer

Votes == [worker : Workers, answer : Answers]

\* When the ballot is conclusive the workers other than the dissenter agree.
LEMMA ConclusiveAgrees ==
  ASSUME NEW ballot \in Seq(Votes), NEW odd, odd = UnanimousDissenter(BallotAnswers(ballot)),
         odd # NoConsensus
  PROVE  AgreeBut(ballot, odd)
<1> DEFINE answers == BallotAnswers(ballot)
<1>1. /\ answers \in Seq(Answers) /\ Len(answers) = Len(ballot)
      /\ DOMAIN answers = DOMAIN ballot /\ DOMAIN ballot = 1 .. Len(ballot)
      /\ \A i \in DOMAIN ballot : answers[i] = ballot[i].answer
  <2>1. Len(ballot) \in Nat /\ DOMAIN ballot = 1 .. Len(ballot)
    OBVIOUS
  <2>2. \A i \in 1 .. Len(ballot) : ballot[i] \in Votes
    BY <2>1
  <2>3. \A i \in 1 .. Len(ballot) : ballot[i].answer \in Answers
    BY <2>2 DEF Votes
  <2>4. answers = [i \in 1 .. Len(ballot) |-> ballot[i].answer]
    BY <2>1 DEF BallotAnswers
  <2>5. QED  BY ONLY <2>1, <2>3, <2>4
<1>2. DissenterFound(answers) /\ odd \in {NoDissent} \cup (1 .. Len(ballot))
  BY <1>1, DissenterIsFound, ScanRange
<1> HIDE DEF answers
<1>3. CASE odd = NoDissent
  <2>1. \A i, j \in DOMAIN answers : answers[i] = answers[j]
    BY <1>2, <1>3 DEF answers, DissenterFound, Unanimous
  <2>2. QED  BY <1>1, <1>3, <2>1 DEF AgreeBut
<1>4. CASE odd \in 1 .. Len(ballot)
  <2>1. odd \in LoneDissents(answers)
    BY <1>1, <1>2, <1>4 DEF answers, DissenterFound
  <2>2. /\ Len(answers) >= 3
        /\ \A j \in DOMAIN answers \ {odd} : answers[j] # answers[odd]
        /\ \A j, k \in DOMAIN answers \ {odd} : answers[j] = answers[k]
    BY <2>1 DEF LoneDissents
  <2>3. QED  BY <1>1, <1>4, <2>2 DEF AgreeBut
<1>5. QED  BY <1>2, <1>3, <1>4

\* Taking out a position leaves the others.
LEMMA RemovedOne ==
  ASSUME NEW S, NEW s \in Seq(S), NEW i \in 1 .. Len(s)
  PROVE  /\ RemoveAt(s, i) \in Seq(S)
         /\ Range(RemoveAt(s, i)) = {s[j] : j \in (1 .. Len(s)) \ {i}}
<1> DEFINE left == SubSeq(s, 1, i - 1)
           right == SubSeq(s, i + 1, Len(s))
<1>1. /\ left \in Seq(S) /\ Len(left) = i - 1 /\ \A j \in 1 .. i - 1 : left[j] = s[j]
      /\ right \in Seq(S) /\ Len(right) = Len(s) - i
      /\ \A j \in 1 .. Len(s) - i : right[j] = s[i + j]
  OBVIOUS
<1> HIDE DEF left, right
<1>2. PICK t : t = left \o right
  OBVIOUS
<1>3. /\ t \in Seq(S) /\ Len(t) = Len(s) - 1 /\ DOMAIN t = 1 .. Len(s) - 1
      /\ \A j \in 1 .. i - 1 : t[j] = s[j]
      /\ \A j \in i .. Len(s) - 1 : t[j] = s[j + 1]
  <2>1. t \in Seq(S) /\ Len(t) = Len(left) + Len(right)
    <3>1. left \in Seq(S) /\ right \in Seq(S)
      BY <1>1
    <3>2. QED  BY ONLY <1>2, <3>1
  <2>2. Len(t) = Len(s) - 1
    BY <1>1, <2>1
  <2>3. ASSUME NEW j \in 1 .. i - 1
        PROVE  t[j] = s[j]
    BY <1>1, <1>2
  <2>4. ASSUME NEW j \in i .. Len(s) - 1
        PROVE  t[j] = s[j + 1]
    <3>1. t[j] = right[j - Len(left)]
      BY <1>1, <1>2
    <3>2. j - Len(left) = j - i + 1 /\ j - i + 1 \in 1 .. Len(s) - i
      BY <1>1
    <3>3. right[j - i + 1] = s[i + (j - i + 1)] /\ i + (j - i + 1) = j + 1
      BY <1>1, <3>2
    <3>4. QED  BY <3>1, <3>2, <3>3
  <2>5. DOMAIN t = 1 .. Len(s) - 1
    BY ONLY <2>1, <2>2
  <2>6. QED  BY <2>1, <2>2, <2>3, <2>4, <2>5, Zenon
<1>4. Range(t) = {s[j] : j \in (1 .. Len(s)) \ {i}}
  <2>1. ASSUME NEW x \in Range(t)
        PROVE  x \in {s[j] : j \in (1 .. Len(s)) \ {i}}
    <3>1. PICK j \in 1 .. Len(s) - 1 : x = t[j]
      BY <1>3 DEF Range
    <3>2. CASE j < i
      <4>1. j \in (1 .. Len(s)) \ {i} /\ x = s[j]
        BY <1>3, <3>1, <3>2
      <4>2. QED  BY <4>1
    <3>3. CASE j >= i
      <4>1. j + 1 \in (1 .. Len(s)) \ {i} /\ x = s[j + 1]
        BY <1>3, <3>1, <3>3
      <4>2. QED  BY <4>1
    <3>4. QED  BY <3>1, <3>2, <3>3
  <2>2. ASSUME NEW j \in (1 .. Len(s)) \ {i}
        PROVE  s[j] \in Range(t)
    <3>1. CASE j < i
      BY <1>3, <3>1 DEF Range
    <3>2. CASE j > i
      <4>1. j - 1 \in 1 .. Len(s) - 1 /\ t[j - 1] = s[j]
        BY <1>3, <3>2
      <4>2. QED  BY <1>3, <4>1 DEF Range
    <3>3. QED  BY <3>1, <3>2
  <2>3. QED  BY <2>1, <2>2
<1>5. RemoveAt(s, i) = t
  BY <1>2 DEF RemoveAt, left, right
<1>6. QED  BY <1>3, <1>4, <1>5

\* A ruling follows from its ballot, from the threshold of the moment and from
\* how often the rulings before it paid the dissenter.
Ruling == [ballot : Seq(Votes), verdict : [workers : Seq(Workers), losers : Seq(Workers)],
           threshold : Nat]

RulingOdd(k) == UnanimousDissenter(BallotAnswers(rulings[k].ballot))

Decided(k) ==
  LET ballot == rulings[k].ballot
      odd == RulingOdd(k)
  IN /\ ValidBallot(ballot) /\ AgreeBut(ballot, odd)
     /\ PaidBy(k) = {ballot[i].worker : i \in DOMAIN ballot \ {odd}}
     /\ SlashedBy(k) = {w \in Workers : /\ odd # NoDissent /\ w = ballot[odd].worker
                                        /\ Cardinality(CreditsBefore(k, w))
                                             >= rulings[k].threshold}

\* The counts are the credits of the rulings so far, and every ruling was
\* decided by those that were there before it.
RulingsInv ==
  /\ answered \in Seq(Votes)
  /\ establishedCount \in Nat
  /\ rulings \in Seq(Ruling)
  /\ DOMAIN resolvedCount = Workers
  /\ \A w \in Workers : resolvedCount[w] = Cardinality(CreditsBefore(Len(rulings) + 1, w))
  /\ \A k \in DOMAIN rulings : Decided(k)

\* What is decided that way is fair.
LEMMA DecidedIsFair ==
  ASSUME RulingsInv, NEW k \in DOMAIN rulings
  PROVE  /\ PaidBy(k) \subseteq Voters(k)
         /\ Cardinality(AnswersOf(k, PaidBy(k))) = 1
         /\ LeftOut(k) # {} =>
              /\ Cardinality(LeftOut(k)) = 1 /\ Cardinality(PaidBy(k)) >= 2
              /\ AnswersOf(k, LeftOut(k)) # AnswersOf(k, PaidBy(k))
         /\ SlashedBy(k) = {w \in LeftOut(k) :
                              Cardinality(CreditsBefore(k, w)) >= rulings[k].threshold}
<1> DEFINE threshold == rulings[k].threshold
<1>1. PICK ballot, odd : ballot = rulings[k].ballot /\ odd = RulingOdd(k)
  OBVIOUS
<1>2. /\ AgreeBut(ballot, odd) /\ ValidBallot(ballot)
      /\ PaidBy(k) = {ballot[i].worker : i \in DOMAIN ballot \ {odd}}
      /\ SlashedBy(k) = {w \in Workers : /\ odd # NoDissent /\ w = ballot[odd].worker
                                         /\ Cardinality(CreditsBefore(k, w)) >= threshold}
  BY <1>1 DEF RulingsInv, Decided
<1>3. ballot \in Seq(Votes)
  <2>1. rulings[k] \in Ruling
    BY DEF RulingsInv
  <2>2. QED  BY <1>1, <2>1 DEF Ruling
<1>4. /\ DOMAIN ballot = 1 .. Len(ballot) /\ Len(ballot) \in Nat
      /\ \A i \in DOMAIN ballot : ballot[i].worker \in Workers
  <2>1. DOMAIN ballot = 1 .. Len(ballot) /\ Len(ballot) \in Nat
    BY <1>3
  <2>2. \A i \in DOMAIN ballot : ballot[i] \in Votes
    BY <1>3
  <2>3. QED  BY <2>1, <2>2 DEF Votes
<1>5. ballot # <<>> /\ \A i, j \in DOMAIN ballot : ballot[i].worker = ballot[j].worker => i = j
  BY <1>2 DEF ValidBallot
<1>6. Voters(k) = {ballot[i].worker : i \in DOMAIN ballot}
  BY <1>1, <1>4 DEF Voters, BallotWorkers, Range
<1>7. \A W : AnswersOf(k, W) = {ballot[i].answer : i \in {j \in DOMAIN ballot : ballot[j].worker \in W}}
  BY <1>1 DEF AnswersOf, Range
<1>8. PICK other \in DOMAIN ballot : other # odd
  <2>1. CASE odd = NoDissent
    <3>1. Len(ballot) # 0
      BY ONLY <1>3, <1>5
    <3>2. 1 \in DOMAIN ballot /\ 0 \notin DOMAIN ballot
      BY <1>4, <3>1
    <3>3. QED  BY <2>1, <3>2 DEF NoDissent
  <2>2. CASE odd # NoDissent
    <3>1. 1 \in DOMAIN ballot /\ 2 \in DOMAIN ballot
      BY <1>2, <1>4, <2>2 DEF AgreeBut
    <3>2. QED  BY <3>1
  <2>3. QED  BY <2>1, <2>2
<1>9. \A i \in DOMAIN ballot \ {odd} : ballot[i].answer = ballot[other].answer
  BY <1>2, <1>8 DEF AgreeBut
<1>10. {j \in DOMAIN ballot : ballot[j].worker \in PaidBy(k)} = DOMAIN ballot \ {odd}
  BY <1>2, <1>5
<1>11. AnswersOf(k, PaidBy(k)) = {ballot[other].answer}
  BY <1>7, <1>8, <1>9, <1>10
<1>12. Cardinality(AnswersOf(k, PaidBy(k))) = 1
  BY <1>11, FS_Singleton
<1>13. PaidBy(k) \subseteq Voters(k)
  BY <1>2, <1>6
<1>14. LeftOut(k) = {w \in Workers : odd # NoDissent /\ w = ballot[odd].worker}
  <2>1. LeftOut(k) = {ballot[i].worker : i \in DOMAIN ballot \cap {odd}}
    BY <1>2, <1>5, <1>6 DEF LeftOut
  <2>2. CASE odd = NoDissent
    BY <1>4, <2>1, <2>2 DEF NoDissent
  <2>3. CASE odd # NoDissent
    BY <1>2, <1>4, <2>1, <2>3 DEF AgreeBut
  <2>4. QED  BY <2>2, <2>3
<1>15. ASSUME LeftOut(k) # {}
       PROVE  /\ Cardinality(LeftOut(k)) = 1 /\ Cardinality(PaidBy(k)) >= 2
              /\ AnswersOf(k, LeftOut(k)) # AnswersOf(k, PaidBy(k))
  <2>1. /\ odd # NoDissent /\ odd \in DOMAIN ballot /\ Len(ballot) >= 3
        /\ \A i \in DOMAIN ballot \ {odd} : ballot[i].answer # ballot[odd].answer
    BY <1>2, <1>14, <1>15 DEF AgreeBut
  <2>2. LeftOut(k) = {ballot[odd].worker}
    BY <1>4, <1>14, <2>1
  <2>3. Cardinality(LeftOut(k)) = 1
    BY <2>2, FS_Singleton
  <2>4. ballot[odd].answer \in AnswersOf(k, LeftOut(k))
    BY <1>7, <2>1, <2>2
  <2>5. ballot[odd].answer # ballot[other].answer
    BY <1>8, <2>1
  <2>6. Cardinality(PaidBy(k)) >= 2
    <3>1. PICK third \in DOMAIN ballot : third # odd /\ third # other
      <4>1. /\ 1 \in DOMAIN ballot /\ 2 \in DOMAIN ballot /\ 3 \in DOMAIN ballot
            /\ odd \in Nat /\ other \in Nat
        BY <1>4, <1>8, <2>1
      <4>2. \E x \in {1, 2, 3} : x # odd /\ x # other
        BY ONLY <4>1
      <4>3. QED  BY <4>1, <4>2
    <3>2. {ballot[other].worker, ballot[third].worker} \subseteq PaidBy(k)
      BY <1>2, <1>8, <3>1
    <3>3. ballot[other].worker # ballot[third].worker
      BY <1>5, <1>8, <3>1
    <3>4. Cardinality({ballot[other].worker} \cup {ballot[third].worker}) = 2
      <4>1. IsFiniteSet({ballot[other].worker}) /\ Cardinality({ballot[other].worker}) = 1
        BY FS_Singleton
      <4>2. ballot[third].worker \notin {ballot[other].worker}
        BY <3>3
      <4>3. Cardinality({ballot[other].worker} \cup {ballot[third].worker})
              = Cardinality({ballot[other].worker}) + 1
        BY <4>1, <4>2, FS_AddElement
      <4>4. QED  BY ONLY <4>1, <4>3
    <3>5. IsFiniteSet(PaidBy(k))
      <4>1. IsFiniteSet(1 .. Len(ballot))
        BY <1>4, FS_Interval
      <4>2. IsFiniteSet(Voters(k))
        <5> DEFINE f == [i \in DOMAIN ballot |-> ballot[i].worker]
        <5>1. f \in Surjection(1 .. Len(ballot), Voters(k))
          BY <1>4, <1>6 DEF Surjection
        <5>2. QED  BY <4>1, <5>1, FS_Surjection
      <4>3. QED  BY <1>13, <4>2, FS_Subset
    <3>6. {ballot[other].worker} \cup {ballot[third].worker} \in SUBSET PaidBy(k)
      BY <3>2
    <3>7. Cardinality(PaidBy(k)) \in Nat /\ 2 <= Cardinality(PaidBy(k))
      BY <3>4, <3>5, <3>6, FS_Subset, FS_CardinalityType
    <3>8. QED  BY <3>7
  <2>7. QED  BY <1>11, <2>3, <2>4, <2>5, <2>6
<1>16. SlashedBy(k) = {w \in LeftOut(k) : Cardinality(CreditsBefore(k, w)) >= threshold}
  BY <1>2, <1>14
<1>17. QED  BY <1>12, <1>13, <1>15, <1>16

\* The two lists of a verdict, by what they hold.
LEMMA VerdictHolds ==
  ASSUME NEW ballot \in Seq(Votes), NEW odd, odd = UnanimousDissenter(BallotAnswers(ballot)),
         AgreeBut(ballot, odd)
  PROVE  /\ ConsensusVerdict(ballot) \in [workers : Seq(Workers), losers : Seq(Workers)]
         /\ Range(ConsensusVerdict(ballot).workers)
              = {ballot[i].worker : i \in DOMAIN ballot \ {odd}}
         /\ Range(ConsensusVerdict(ballot).losers)
              = {w \in Workers : /\ odd # NoDissent /\ w = ballot[odd].worker
                                 /\ resolvedCount[w] >= establishedCount}
<1> DEFINE workers == ConsensusVerdict(ballot).workers
           losers == ConsensusVerdict(ballot).losers
           seats == BallotWorkers(ballot)
<1>1. /\ DOMAIN ballot = 1 .. Len(ballot) /\ Len(ballot) \in Nat
      /\ \A i \in DOMAIN ballot : ballot[i].worker \in Workers
  <2>1. DOMAIN ballot = 1 .. Len(ballot) /\ Len(ballot) \in Nat
    OBVIOUS
  <2>2. \A i \in DOMAIN ballot : ballot[i] \in Votes
    OBVIOUS
  <2>3. QED  BY <2>1, <2>2 DEF Votes
<1>2. /\ seats \in Seq(Workers) /\ Len(seats) = Len(ballot)
      /\ \A i \in DOMAIN ballot : seats[i] = ballot[i].worker
  <2>1. seats = [i \in 1 .. Len(ballot) |-> ballot[i].worker]
    BY <1>1 DEF BallotWorkers
  <2>2. QED  BY ONLY <1>1, <2>1
<1>3. /\ workers = IF odd = NoDissent THEN seats ELSE RemoveAt(seats, odd)
      /\ losers = IF odd # NoDissent /\ Established(ballot[odd].worker)
                    THEN <<ballot[odd].worker>> ELSE <<>>
      /\ ConsensusVerdict(ballot) = [workers |-> workers, losers |-> losers]
  BY DEF ConsensusVerdict
<1>4. odd # NoDissent => odd \in 1 .. Len(ballot) /\ odd \in DOMAIN ballot
  BY <1>1 DEF AgreeBut
<1> HIDE DEF seats, workers, losers
<1>5. /\ workers \in Seq(Workers)
      /\ Range(workers) = {ballot[i].worker : i \in DOMAIN ballot \ {odd}}
  <2>1. CASE odd = NoDissent
    <3>1. DOMAIN ballot \ {odd} = DOMAIN ballot /\ DOMAIN seats = DOMAIN ballot
      BY <1>1, <1>2, <2>1 DEF NoDissent
    <3>2. workers = seats
      BY <1>3, <2>1
    <3>3. QED  BY <1>2, <3>1, <3>2 DEF Range
  <2>2. CASE odd # NoDissent
    <3>1. odd \in 1 .. Len(seats) /\ 1 .. Len(seats) = DOMAIN ballot
      BY <1>1, <1>2, <1>4, <2>2
    <3>2. workers = RemoveAt(seats, odd)
      BY <1>3, <2>2
    <3>3. /\ workers \in Seq(Workers)
          /\ Range(workers) = {seats[j] : j \in (1 .. Len(seats)) \ {odd}}
      BY ONLY <1>2, <3>1, <3>2, RemovedOne
    <3>4. QED  BY <1>2, <3>1, <3>3
  <2>3. QED  BY <2>1, <2>2
<1>6. /\ losers \in Seq(Workers)
      /\ Range(losers) = {w \in Workers : /\ odd # NoDissent /\ w = ballot[odd].worker
                                          /\ resolvedCount[w] >= establishedCount}
  <2>1. CASE odd # NoDissent /\ Established(ballot[odd].worker)
    <3>1. losers = <<ballot[odd].worker>> /\ ballot[odd].worker \in Workers
      BY <1>1, <1>3, <1>4, <2>1
    <3>2. losers \in Seq(Workers) /\ DOMAIN losers = {1} /\ losers[1] = ballot[odd].worker
      BY ONLY <3>1
    <3>3. Range(losers) = {ballot[odd].worker}
      BY <3>2 DEF Range
    <3>4. QED  BY <2>1, <3>1, <3>2, <3>3 DEF Established
  <2>2. CASE ~(odd # NoDissent /\ Established(ballot[odd].worker))
    <3>1. losers = <<>>
      BY <1>3, <2>2
    <3>2. losers \in Seq(Workers) /\ DOMAIN losers = {}
      BY ONLY <3>1
    <3>3. Range(losers) = {}
      BY <3>2 DEF Range
    <3>4. QED  BY <2>2, <3>2, <3>3 DEF Established
  <2>3. QED  BY <2>1, <2>2
<1>7. QED  BY <1>3, <1>5, <1>6 DEF workers, losers

\* A ruling is added with the credits of the moment; what earlier ones were
\* decided by does not change.
LEMMA RuleKeepsInv ==
  ASSUME RulingsInv, RuleByConsensus
  PROVE  RulingsInv'
<1> DEFINE verdict == ConsensusVerdict(answered)
           new == [ballot |-> answered, verdict |-> verdict, threshold |-> establishedCount]
<1>1. PICK odd : odd = UnanimousDissenter(BallotAnswers(answered))
  OBVIOUS
<1>2. /\ ValidBallot(answered) /\ odd # NoConsensus /\ rulings' = Append(rulings, new)
      /\ CreditRanking(verdict.workers)
      /\ answered' = <<>> /\ establishedCount' = establishedCount
  BY <1>1 DEF RuleByConsensus, Conclusive
<1>3. answered \in Seq(Votes) /\ establishedCount \in Nat /\ rulings \in Seq(Ruling)
  BY DEF RulingsInv
<1>4. AgreeBut(answered, odd)
  BY <1>1, <1>2, <1>3, ConclusiveAgrees
<1>5. /\ verdict \in [workers : Seq(Workers), losers : Seq(Workers)]
      /\ Range(verdict.workers) = {answered[i].worker : i \in DOMAIN answered \ {odd}}
      /\ Range(verdict.losers)
           = {w \in Workers : /\ odd # NoDissent /\ w = answered[odd].worker
                              /\ resolvedCount[w] >= establishedCount}
  BY <1>1, <1>3, <1>4, VerdictHolds
<1>6. \A w \in Workers : resolvedCount'[w] = resolvedCount[w]
                                               + (IF w \in Range(verdict.workers) THEN 1 ELSE 0)
  BY <1>2 DEF CreditRanking
<1>7. DOMAIN resolvedCount' = Workers
  BY <1>2 DEF CreditRanking
<1> HIDE DEF verdict
<1>8. new \in Ruling
  BY <1>3, <1>5 DEF Ruling
<1> HIDE DEF new
<1>9. PICK k : k = Len(rulings) + 1
  OBVIOUS
<1>10. /\ rulings' \in Seq(Ruling) /\ Len(rulings') = k /\ DOMAIN rulings' = 1 .. k
      /\ k \in Nat \ {0} /\ rulings'[k] = new
      /\ DOMAIN rulings = 1 .. k - 1 /\ \A j \in 1 .. k - 1 : rulings'[j] = rulings[j]
  BY <1>2, <1>3, <1>8, <1>9
<1>11. /\ \A j \in 1 .. k - 1 : PaidBy(j)' = PaidBy(j) /\ SlashedBy(j)' = SlashedBy(j)
       /\ PaidBy(k)' = Range(verdict.workers) /\ SlashedBy(k)' = Range(verdict.losers)
  BY <1>10 DEF PaidBy, SlashedBy, new
<1>12. \A j \in 1 .. k, w \in Workers : CreditsBefore(j, w)' = CreditsBefore(j, w)
  BY <1>10, <1>11 DEF CreditsBefore
<1>13. \A w \in Workers : resolvedCount[w] = Cardinality(CreditsBefore(k, w))
  BY <1>9, <1>10 DEF RulingsInv
<1>14. \A w \in Workers : resolvedCount'[w] = Cardinality(CreditsBefore(k + 1, w)')
  <2> SUFFICES ASSUME NEW w \in Workers
               PROVE  resolvedCount'[w] = Cardinality(CreditsBefore(k + 1, w)')
    OBVIOUS
  <2>1. IsFiniteSet(CreditsBefore(k, w)) /\ k \notin CreditsBefore(k, w)
    <3>1. IsFiniteSet(1 .. k - 1)
      BY <1>10, FS_Interval
    <3>2. CreditsBefore(k, w) \in SUBSET (1 .. k - 1)
      BY DEF CreditsBefore
    <3>3. IsFiniteSet(CreditsBefore(k, w))
      BY ONLY <3>1, <3>2, FS_Subset
    <3>4. QED  BY <1>10, <3>2, <3>3
  <2>2. CreditsBefore(k + 1, w)' = {j \in 1 .. k : w \in PaidBy(j)'}
    <3>1. (k + 1) - 1 = k
      BY <1>10
    <3>2. QED  BY <3>1 DEF CreditsBefore
  <2>3. CreditsBefore(k, w) = {j \in 1 .. k - 1 : w \in PaidBy(j)'}
    BY <1>11 DEF CreditsBefore
  <2>4. CASE w \in Range(verdict.workers)
    <3>1. CreditsBefore(k + 1, w)' = CreditsBefore(k, w) \cup {k}
      BY <1>10, <1>11, <2>2, <2>3, <2>4
    <3>2. Cardinality(CreditsBefore(k, w) \cup {k}) = Cardinality(CreditsBefore(k, w)) + 1
      BY <2>1, FS_AddElement
    <3>3. QED  BY <1>6, <1>13, <2>4, <3>1, <3>2
  <2>5. CASE w \notin Range(verdict.workers)
    <3>1. CreditsBefore(k + 1, w)' = CreditsBefore(k, w)
      BY <1>10, <1>11, <2>2, <2>3, <2>5
    <3>2. Cardinality(CreditsBefore(k, w)) \in Nat
      BY <2>1, FS_CardinalityType
    <3>3. QED  BY <1>6, <1>13, <2>5, <3>1, <3>2
  <2>6. QED  BY <2>4, <2>5
<1>15. ASSUME NEW j \in 1 .. k - 1
       PROVE  Decided(j)'
  <2>1. Decided(j) /\ j \in 1 .. k
    BY <1>10 DEF RulingsInv
  <2>2. rulings'[j] = rulings[j] /\ \A w \in Workers : CreditsBefore(j, w)' = CreditsBefore(j, w)
    BY <1>10, <1>12, <2>1
  <2>3. PaidBy(j)' = PaidBy(j) /\ SlashedBy(j)' = SlashedBy(j)
    BY <1>11
  <2>4. RulingOdd(j)' = RulingOdd(j)
    BY <2>2 DEF RulingOdd
  <2>5. QED  BY <2>1, <2>2, <2>3, <2>4 DEF Decided
<1>16. Decided(k)'
  <2>1. k \in 1 .. k /\ RulingOdd(k)' = odd
    BY <1>1, <1>10 DEF RulingOdd, new
  <2>2. rulings'[k].ballot = answered /\ rulings'[k].threshold = establishedCount
    BY <1>10 DEF new
  <2>3. \A w \in Workers : resolvedCount[w] = Cardinality(CreditsBefore(k, w)')
    BY <1>12, <1>13, <2>1
  <2>4. SlashedBy(k)' = {w \in Workers : /\ odd # NoDissent /\ w = answered[odd].worker
                                         /\ Cardinality(CreditsBefore(k, w)') >= establishedCount}
    BY <1>5, <1>11, <2>3
  <2>5. PaidBy(k)' = {answered[i].worker : i \in DOMAIN answered \ {odd}}
    BY <1>5, <1>11
  <2>6. QED  BY <1>2, <1>4, <2>1, <2>2, <2>4, <2>5 DEF Decided
<1>17. \A j \in DOMAIN rulings' : Decided(j)'
  <2>1. ASSUME NEW j \in 1 .. k
        PROVE  Decided(j)'
    <3>1. j \in 1 .. k - 1 \/ j = k
      BY <1>10
    <3>2. QED  BY <1>15, <1>16, <3>1
  <2>2. QED  BY <1>10, <2>1
<1>18. answered' \in Seq(Votes) /\ establishedCount' \in Nat /\ rulings' \in Seq(Ruling)
  BY <1>2, <1>3, <1>10
<1>19. QED  BY <1>7, <1>10, <1>14, <1>17, <1>18 DEF RulingsInv

\* Between the rulings the ballot and the threshold change.
LEMMA RulingsKept ==
  /\ ConsensusRunInit => RulingsInv
  /\ RulingsInv /\ [ConsensusRunNext]_consensusVars => RulingsInv'
<1>1. ASSUME ConsensusRunInit PROVE RulingsInv
  <2>1. /\ answered = <<>> /\ rulings = <<>> /\ resolvedCount = [w \in Workers |-> 0]
        /\ establishedCount \in Nat
    BY <1>1, ConsensusAssumption DEF ConsensusRunInit, RankingInit, ConsensusInit
  <2>2. /\ answered \in Seq(Votes) /\ rulings \in Seq(Ruling) /\ Len(rulings) = 0
        /\ DOMAIN rulings = {}
    BY ONLY <2>1
  <2>3. \A w : CreditsBefore(Len(rulings) + 1, w) = {}
    BY <2>2 DEF CreditsBefore
  <2>4. QED  BY <2>1, <2>2, <2>3, FS_EmptySet DEF RulingsInv
<1>2. ASSUME RulingsInv, UNCHANGED <<resolvedCount, rulings>>,
             answered' \in Seq(Votes), establishedCount' \in Nat
      PROVE  RulingsInv'
  <2>1. \A k : PaidBy(k)' = PaidBy(k) /\ SlashedBy(k)' = SlashedBy(k)
    BY <1>2 DEF PaidBy, SlashedBy
  <2>2. \A k, w : CreditsBefore(k, w)' = CreditsBefore(k, w)
    BY <2>1 DEF CreditsBefore
  <2>3. \A k \in DOMAIN rulings : Decided(k)'
    BY <1>2, <2>1, <2>2 DEF RulingsInv, Decided, RulingOdd
  <2>4. QED  BY <1>2, <2>2, <2>3 DEF RulingsInv
<1>3. ASSUME RulingsInv, NEW ballot \in Ballots, Answer(ballot)
      PROVE  RulingsInv'
  <2>1. ballot \in Seq(Votes)
    BY ConsensusRunAssumption DEF Votes
  <2>2. QED  BY <1>2, <1>3, <2>1 DEF Answer, rankingVars, RulingsInv
<1>4. ASSUME RulingsInv, NEW count \in EstablishedCounts, SetEstablishedAnswerCount(count),
             UNCHANGED <<rankingVars, answered, rulings>>
      PROVE  RulingsInv'
  <2>1. count \in Nat
    BY ConsensusAssumption
  <2>2. QED  BY <1>2, <1>4, <2>1 DEF SetEstablishedAnswerCount, rankingVars, RulingsInv
<1>5. ASSUME RulingsInv, UNCHANGED consensusVars
      PROVE  RulingsInv'
  BY <1>2, <1>5 DEF consensusVars, rankingVars, RulingsInv
<1>6. QED  BY <1>1, <1>3, <1>4, <1>5, RuleKeepsInv DEF ConsensusRunNext

\* For every sequence of ballots and of thresholds: each ruling pays workers of
\* one answer, leaves out at most one against two, and slashes that one exactly
\* when earlier rulings paid it often enough.
THEOREM RulingsAreFair == ConsensusSpec => []RulingIsFair
<1>1. RulingsInv => RulingIsFair
  BY DecidedIsFair DEF RulingIsFair
<1>2. QED  BY <1>1, RulingsKept, PTL DEF ConsensusSpec

\* Whatever ballot is under way, the scan finds its odd one out and no other.
THEOREM DissentersAreOddOnesOut == ConsensusSpec => []DissenterIsOddOneOut
<1>1. RulingsInv => DissenterIsOddOneOut
  <2> SUFFICES ASSUME RulingsInv
               PROVE  DissenterFound(BallotAnswers(answered))
    BY DEF DissenterIsOddOneOut
  <2>1. answered \in Seq(Votes)
    BY DEF RulingsInv
  <2>2. Len(answered) \in Nat /\ DOMAIN answered = 1 .. Len(answered)
    BY <2>1
  <2>3. \A i \in 1 .. Len(answered) : answered[i] \in Votes
    BY <2>1, <2>2
  <2>4. \A i \in 1 .. Len(answered) : answered[i].answer \in Answers
    BY <2>3 DEF Votes
  <2>5. BallotAnswers(answered) = [i \in 1 .. Len(answered) |-> answered[i].answer]
    BY <2>2 DEF BallotAnswers
  <2>6. BallotAnswers(answered) \in Seq(Answers)
    BY ONLY <2>2, <2>4, <2>5
  <2>7. QED  BY <2>6, DissenterIsFound
<1>2. QED  BY <1>1, RulingsKept, PTL DEF ConsensusSpec
=============================================================================
