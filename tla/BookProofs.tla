----------------------------- MODULE BookProofs -----------------------------
(***************************************************************************)
(* What holds of the books the contract keeps about workers whatever the   *)
(* constants are: their stakes and the leaderboard.  Stake records are     *)
(* lists of tranches, so the proofs are about sums over their positions:   *)
(* what of a record is due by a ledger (Due), and what of it counts as     *)
(* credibility (Credit).  Each operation's effect on one record is a lemma *)
(* of its own, and the theorems about StakeSpec collect them.  The board   *)
(* is kept by a fold over the workers a settlement credits.                *)
(***************************************************************************)
EXTENDS StakeBook, Ranking, AmountProofs

-----------------------------------------------------------------------------
(* Only: the entries of a list at some positions, in their order.          *)

IsOnlyTable(g, list, positions, N) ==
  g = [n \in 0 .. N |->
         IF n = 0 THEN <<>>
         ELSE IF n \in positions THEN Append(g[n - 1], list[n]) ELSE g[n - 1]]

\* Every list and set of positions has such a table.
LEMMA OnlyTableExists ==
  ASSUME NEW list, NEW positions, NEW N \in Nat
  PROVE  \E g : IsOnlyTable(g, list, positions, N)
<1> DEFINE F == {n \in Nat : \E g : IsOnlyTable(g, list, positions, n)}
<1>1. 0 \in F
  <2> DEFINE g == [n \in {0} |-> <<>>]
  <2>1. IsOnlyTable(g, list, positions, 0)
    BY DEF IsOnlyTable
  <2>2. QED  BY <2>1
<1>2. ASSUME NEW n \in F
      PROVE  n + 1 \in F
  <2>1. PICK g : IsOnlyTable(g, list, positions, n)
    BY <1>2
  <2> DEFINE next == IF n + 1 \in positions THEN Append(g[n], list[n + 1]) ELSE g[n]
             h == [i \in 0 .. n + 1 |-> IF i <= n THEN g[i] ELSE next]
  <2>2. ASSUME NEW i \in 0 .. n + 1
        PROVE  h[i] = IF i = 0 THEN <<>>
                      ELSE IF i \in positions THEN Append(h[i - 1], list[i]) ELSE h[i - 1]
    <3>1. CASE i <= n
      <4>0. i \in 0 .. n
        BY <1>2, <3>1
      <4>1. g[i] = IF i = 0 THEN <<>>
                   ELSE IF i \in positions THEN Append(g[i - 1], list[i]) ELSE g[i - 1]
        BY <2>1, <4>0 DEF IsOnlyTable
      <4>2. h[i] = g[i] /\ (i # 0 => h[i - 1] = g[i - 1])
        BY <3>1
      <4>3. QED  BY <4>1, <4>2
    <3>2. CASE i = n + 1
      <4>1. i # 0 /\ i - 1 = n /\ h[i] = next /\ h[i - 1] = g[n]
        BY <3>2
      <4>2. QED  BY <3>2, <4>1
    <3>3. QED  BY <3>1, <3>2
  <2>3. h = [i \in 0 .. n + 1 |-> h[i]]
    OBVIOUS
  <2>4. IsOnlyTable(h, list, positions, n + 1)
    <3> HIDE DEF h
    <3>1. QED  BY <2>2, <2>3 DEF IsOnlyTable
  <2>5. QED  BY <2>4
<1>3. F = Nat
  <2> HIDE DEF F
  <2>1. F \subseteq Nat
    BY DEF F
  <2>2. QED  BY <1>1, <1>2, <2>1, NatSetInduction
<1>4. QED  BY <1>3

\* Only() is the last entry of that table.
LEMMA OnlyIsTable ==
  ASSUME NEW list, NEW positions, Len(list) \in Nat
  PROVE  \E g : IsOnlyTable(g, list, positions, Len(list)) /\ Only(list, positions) = g[Len(list)]
<1> DEFINE table == CHOOSE g : IsOnlyTable(g, list, positions, Len(list))
<1>1. IsOnlyTable(table, list, positions, Len(list))
  BY OnlyTableExists
<1>2. Only(list, positions) = table[Len(list)]
  BY DEF Only, IsOnlyTable
<1>3. QED  BY <1>1, <1>2

\* Where each entry comes from: an order-preserving map from the new positions
\* onto the ones that are kept.
IsEmbedding(h, new, list, kept) ==
  /\ h \in [DOMAIN new -> kept]
  /\ \A k \in kept : \E j \in DOMAIN new : h[j] = k
  /\ \A j \in DOMAIN new : new[j] = list[h[j]]
  /\ \A i, j \in DOMAIN new : i < j => h[i] < h[j]

\* Only() keeps the entries at the positions, each once, in their order.
LEMMA OnlyEmbeds ==
  ASSUME NEW X, NEW list \in Seq(X), NEW positions \in SUBSET DOMAIN list
  PROVE  /\ Only(list, positions) \in Seq(X)
         /\ \E h : IsEmbedding(h, Only(list, positions), list, positions)
<1>1. PICK g : IsOnlyTable(g, list, positions, Len(list)) /\ Only(list, positions) = g[Len(list)]
  BY OnlyIsTable
<1> DEFINE Kept(n) == {k \in positions : k <= n}
           F == {n \in Nat : n <= Len(list) =>
                   g[n] \in Seq(X) /\ \E h : IsEmbedding(h, g[n], list, Kept(n))}
<1>2. 0 \in F
  <2>1. g[0] = <<>> /\ Kept(0) = {}
    BY <1>1 DEF IsOnlyTable
  <2>2. IsEmbedding(<<>>, <<>>, list, {})
    BY DEF IsEmbedding
  <2>3. g[0] \in Seq(X) /\ IsEmbedding(<<>>, g[0], list, Kept(0))
    <3> HIDE DEF Kept
    <3>1. <<>> \in Seq(X)
      OBVIOUS
    <3>2. QED  BY ONLY <2>1, <2>2, <3>1, Zenon
  <2>4. QED  BY <2>3
<1>3. ASSUME NEW n \in F
      PROVE  n + 1 \in F
  <2>a. n \in Nat /\ n + 1 \in Nat /\ Len(list) \in Nat
    BY <1>3
  <2> SUFFICES ASSUME n + 1 <= Len(list)
               PROVE  g[n + 1] \in Seq(X) /\ \E h : IsEmbedding(h, g[n + 1], list, Kept(n + 1))
    BY <2>a
  <2>b. n <= Len(list) /\ n + 1 \in 0 .. Len(list) /\ (n + 1) - 1 = n /\ n + 1 # 0
    BY <2>a
  <2>1. PICK h : g[n] \in Seq(X) /\ IsEmbedding(h, g[n], list, Kept(n))
    BY <1>3, <2>b
  <2>2. g[n + 1] = IF n + 1 \in positions THEN Append(g[n], list[n + 1]) ELSE g[n]
    BY <1>1, <2>b DEF IsOnlyTable
  <2>3. CASE n + 1 \notin positions
    <3>1. Kept(n + 1) = Kept(n)
      BY <2>3
    <3>2. QED  BY <2>1, <2>2, <2>3, <3>1
  <2>4. CASE n + 1 \in positions
    <3> DEFINE m == Len(g[n])
               new == Append(g[n], list[n + 1])
               k == [j \in 1 .. m + 1 |-> IF j <= m THEN h[j] ELSE n + 1]
    <3>1. /\ m \in Nat /\ DOMAIN g[n] = 1 .. m
          /\ new \in Seq(X) /\ DOMAIN new = 1 .. m + 1
          /\ \A j \in 1 .. m : new[j] = g[n][j]
          /\ new[m + 1] = list[n + 1]
      BY <2>1
    <3>2. Kept(n + 1) = Kept(n) \cup {n + 1}
      BY <2>4
    <3>3. IsEmbedding(k, new, list, Kept(n + 1))
      <4> HIDE DEF new
      <4>1. k \in [DOMAIN new -> Kept(n + 1)]
        BY <2>1, <3>1, <3>2 DEF IsEmbedding
      <4>2. \A i \in Kept(n + 1) : \E j \in DOMAIN new : k[j] = i
        <5>1. ASSUME NEW i \in Kept(n)
              PROVE  \E j \in DOMAIN new : k[j] = i
          <6>1. PICK j \in 1 .. m : h[j] = i
            BY <2>1, <3>1, <5>1 DEF IsEmbedding
          <6>2. j \in DOMAIN new /\ k[j] = i
            BY <3>1, <6>1
          <6>3. QED  BY <6>2
        <5>2. m + 1 \in DOMAIN new /\ k[m + 1] = n + 1
          BY <3>1
        <5>3. QED  BY <3>2, <5>1, <5>2
      <4>3. \A j \in DOMAIN new : new[j] = list[k[j]]
        <5>1. ASSUME NEW j \in 1 .. m
              PROVE  new[j] = list[k[j]]
          <6>1. g[n][j] = list[h[j]]
            BY <2>1, <3>1, <5>1 DEF IsEmbedding
          <6>2. k[j] = h[j]
            BY <3>1, <5>1
          <6>3. QED  BY <3>1, <6>1, <6>2
        <5>2. k[m + 1] = n + 1
          BY <3>1
        <5>3. new[m + 1] = list[k[m + 1]]
          BY <3>1, <5>2
        <5>4. \A j \in DOMAIN new : j \in 1 .. m \/ j = m + 1
          BY <3>1
        <5> HIDE DEF k, m
        <5>5. QED  BY <5>1, <5>3, <5>4
      <4>4. \A i, j \in DOMAIN new : i < j => k[i] < k[j]
        <5>1. ASSUME NEW i \in DOMAIN new, NEW j \in DOMAIN new, i < j
              PROVE  k[i] < k[j]
          <6>1. i \in 1 .. m /\ h[i] \in Kept(n) /\ k[i] = h[i]
            BY <2>1, <3>1, <5>1 DEF IsEmbedding
          <6>2. CASE j = m + 1
            <7>1. k[j] = n + 1 /\ h[i] <= n /\ h[i] \in Nat
              BY <3>1, <6>1, <6>2
            <7>2. h[i] < k[j]
              BY <2>a, <7>1
            <7> HIDE DEF k
            <7>3. QED  BY <6>1, <7>2
          <6>3. CASE j <= m
            <7>1. j \in 1 .. m /\ k[j] = h[j]
              BY <3>1, <5>1, <6>3
            <7>2. h[i] < h[j]
              BY <2>1, <3>1, <5>1, <6>1, <7>1 DEF IsEmbedding
            <7>3. QED  BY <6>1, <7>1, <7>2
          <6>4. j = m + 1 \/ j <= m
            BY <3>1, <5>1
          <6> HIDE DEF k, m
          <6>5. QED  BY <6>2, <6>3, <6>4
        <5> HIDE DEF k, m
        <5>2. QED  BY <5>1
      <4>5. QED  BY <4>1, <4>2, <4>3, <4>4 DEF IsEmbedding
    <3>4. QED  BY <2>2, <2>4, <3>1, <3>3
  <2>5. QED  BY <2>3, <2>4
<1>4. F = Nat
  <2> HIDE DEF F
  <2>1. F \subseteq Nat
    BY DEF F
  <2>2. QED  BY <1>2, <1>3, <2>1, NatSetInduction
<1>5. Kept(Len(list)) = positions
  OBVIOUS
<1>6. Len(list) \in F
  <2> HIDE DEF F
  <2>1. QED  BY <1>4
<1>7. g[Len(list)] \in Seq(X) /\ \E h : IsEmbedding(h, g[Len(list)], list, Kept(Len(list)))
  <2>1. Len(list) \in Nat /\ Len(list) <= Len(list)
    OBVIOUS
  <2>2. QED  BY <1>6, <2>1
<1>8. QED  BY <1>1, <1>5, <1>7

\* A sum over kept positions is the sum over where they came from.
LEMMA EmbeddingSum ==
  ASSUME NEW h, NEW new, NEW list, NEW kept \in SUBSET Int, IsFiniteSet(kept),
         IsEmbedding(h, new, list, kept),
         NEW part \in SUBSET kept, NEW f, \A k \in kept : f[k] \in Int,
         NEW g, \A j \in DOMAIN new : g[j] = f[h[j]],
         IsFiniteSet(DOMAIN new), DOMAIN new \subseteq Int
  PROVE  SumFunctionOnSet(g, {j \in DOMAIN new : h[j] \in part}) = SumFunctionOnSet(f, part)
<1> DEFINE S == {j \in DOMAIN new : h[j] \in part}
           r == [j \in S |-> h[j]]
<1>1. IsFiniteSet(S)
  BY FS_Subset
<1>2. r \in Bijection(S, part)
  <2>1. r \in [S -> part]
    OBVIOUS
  <2>2. ASSUME NEW i \in S, NEW j \in S, r[i] = r[j]
        PROVE  i = j
    <3>1. h[i] = h[j] /\ i \in DOMAIN new /\ j \in DOMAIN new /\ i \in Int /\ j \in Int
      BY <2>2
    <3>a. h[i] \in kept
      BY <3>1 DEF IsEmbedding
    <3>b. \A x \in Int : ~(x < x)
      OBVIOUS
    <3>2. h[i] \in Int /\ ~(h[i] < h[j]) /\ ~(h[j] < h[i])
      BY <3>a, <3>b, <3>1
    <3>3. ~(i < j) /\ ~(j < i)
      BY <3>1, <3>2 DEF IsEmbedding
    <3>4. QED  BY <3>1, <3>3
  <2>3. ASSUME NEW k \in part
        PROVE  \E j \in S : r[j] = k
    BY DEF IsEmbedding
  <2>4. QED  BY <2>1, <2>2, <2>3 DEF Bijection, Injection, Surjection, IsInjective
<1>3. \A j \in S : g[j] \in Int /\ f[r[j]] = g[j]
  BY DEF IsEmbedding
<1>4. QED
  <2> HIDE DEF S, r
  <2>1. QED  BY <1>1, <1>2, <1>3, SumReindex DEF S

-----------------------------------------------------------------------------
(* One stake record.                                                       *)

Tranche == [amount : Nat, since : Nat]

\* What of the tranches is due by a ledger, if nothing else happens.
Due(tranches, time) == SumFunctionOnSet(TrancheAmounts(tranches), WarmedTranches(tranches, time))

\* A record as it should be at a ledger: WarmingIsTranches, read for one record.
TranchesInOrder(tranches, now) ==
  /\ \A i \in DOMAIN tranches : tranches[i].amount > 0 /\ tranches[i].since <= now
  /\ \A i, j \in DOMAIN tranches : i <= j => tranches[i].since <= tranches[j].since

InfoOK(info, now) ==
  /\ info \in StakeInfoType
  /\ info.warming = SumFunction(TrancheAmounts(info.tranches))
  /\ TranchesInOrder(info.tranches, now)

\* The amounts of the tranches are numbers, and there are finitely many.
LEMMA TrancheFacts ==
  ASSUME NEW tranches \in Seq(Tranche)
  PROVE  /\ Len(tranches) \in Nat
         /\ DOMAIN tranches = 1 .. Len(tranches)
         /\ IsFiniteSet(DOMAIN tranches)
         /\ DOMAIN TrancheAmounts(tranches) = DOMAIN tranches
         /\ \A i \in DOMAIN tranches : /\ tranches[i] \in Tranche
                                       /\ tranches[i].amount \in Nat
                                       /\ tranches[i].since \in Nat
                                       /\ TrancheAmounts(tranches)[i] = tranches[i].amount
<1>1. Len(tranches) \in Nat /\ DOMAIN tranches = 1 .. Len(tranches)
  OBVIOUS
<1>2. IsFiniteSet(DOMAIN tranches)
  BY <1>1, FS_Interval
<1>3. \A i \in DOMAIN tranches : tranches[i] \in Tranche
  OBVIOUS
<1>4. \A i \in DOMAIN tranches : tranches[i].amount \in Nat /\ tranches[i].since \in Nat
  BY <1>3 DEF Tranche
<1>5. QED  BY <1>1, <1>2, <1>3, <1>4 DEF TrancheAmounts

\* What is due by a ledger is part of what is warming.
LEMMA DueBound ==
  ASSUME NEW tranches \in Seq(Tranche), NEW time
  PROVE  /\ WarmedTranches(tranches, time) \in SUBSET DOMAIN tranches
         /\ Due(tranches, time) \in Nat
         /\ SumFunction(TrancheAmounts(tranches)) \in Nat
         /\ Due(tranches, time) <= SumFunction(TrancheAmounts(tranches))
         /\ SumFunction(TrancheAmounts(tranches)) - Due(tranches, time)
              = SumFunctionOnSet(TrancheAmounts(tranches),
                                 DOMAIN tranches \ WarmedTranches(tranches, time))
<1> DEFINE a == TrancheAmounts(tranches)
           D == DOMAIN tranches
           W == WarmedTranches(tranches, time)
<1>1. IsFiniteSet(D) /\ DOMAIN a = D /\ \A i \in D : a[i] \in Nat
  BY TrancheFacts
<1>2. W \in SUBSET D
  BY DEF WarmedTranches
<1>3. IsFiniteSet(W) /\ IsFiniteSet(D \ W)
  BY <1>1, <1>2, FS_Subset
<1> HIDE DEF a, D, W
<1>4. SumFunctionOnSet(a, W) \in Nat /\ SumFunctionOnSet(a, D \ W) \in Nat
  BY <1>1, <1>2, <1>3, SumNat
<1>5. SumFunctionOnSet(a, D) = SumFunctionOnSet(a, W) + SumFunctionOnSet(a, D \ W)
  BY <1>1, <1>2, SumSplit
<1>6. SumFunction(a) = SumFunctionOnSet(a, D)
  BY <1>1 DEF SumFunction
<1>7. Due(tranches, time) = SumFunctionOnSet(a, W)
  BY DEF Due, a, W
<1>8. /\ SumFunctionOnSet(a, W) \in Nat
      /\ SumFunction(a) \in Nat
      /\ SumFunctionOnSet(a, W) <= SumFunction(a)
      /\ SumFunction(a) - SumFunctionOnSet(a, W) = SumFunctionOnSet(a, D \ W)
  BY <1>4, <1>5, <1>6
<1>9. QED  BY <1>2, <1>7, <1>8 DEF a, D, W

\* Keeping some of the tranches keeps the order and the type.
LEMMA OnlyInOrder ==
  ASSUME NEW tranches \in Seq(Tranche), NEW now, NEW kept \in SUBSET DOMAIN tranches,
         \A i \in kept : tranches[i].amount > 0 /\ tranches[i].since <= now,
         \A i, j \in DOMAIN tranches : i <= j => tranches[i].since <= tranches[j].since
  PROVE  /\ Only(tranches, kept) \in Seq(Tranche)
         /\ TranchesInOrder(Only(tranches, kept), now)
<1> DEFINE new == Only(tranches, kept)
<1>1. new \in Seq(Tranche)
  BY OnlyEmbeds
<1>2. PICK h : IsEmbedding(h, new, tranches, kept)
  BY OnlyEmbeds
<1> HIDE DEF new
<1>3. \A i \in DOMAIN new : h[i] \in kept /\ new[i] = tranches[h[i]]
  BY <1>2 DEF IsEmbedding
<1>4. \A i, j \in DOMAIN new : i < j => h[i] < h[j]
  BY <1>2 DEF IsEmbedding
<1>5. DOMAIN new \subseteq Int /\ DOMAIN tranches \subseteq Int
  BY <1>1
<1>6. ASSUME NEW i \in DOMAIN new, NEW j \in DOMAIN new, i <= j
      PROVE  new[i].since <= new[j].since
  <2>1. h[i] \in Int /\ h[j] \in Int /\ h[i] \in kept /\ h[j] \in kept
    BY <1>3, <1>5
  <2>2. i = j \/ i < j
    BY <1>5, <1>6
  <2>3. h[i] <= h[j]
    BY <1>4, <2>1, <2>2
  <2>4. tranches[h[i]].since <= tranches[h[j]].since
    BY <2>1, <2>3
  <2>5. QED  BY <1>3, <2>4
<1>7. \A i \in DOMAIN new : new[i].amount > 0 /\ new[i].since <= now
  BY <1>3
<1>8. QED  BY <1>1, <1>6, <1>7 DEF TranchesInOrder, new

\* What the kept tranches sum to, and what of them is due.
LEMMA OnlyDue ==
  ASSUME NEW tranches \in Seq(Tranche), NEW kept \in SUBSET DOMAIN tranches
  PROVE  /\ SumFunction(TrancheAmounts(Only(tranches, kept)))
              = SumFunctionOnSet(TrancheAmounts(tranches), kept)
         /\ \A time : Due(Only(tranches, kept), time)
              = SumFunctionOnSet(TrancheAmounts(tranches),
                                 kept \cap WarmedTranches(tranches, time))
<1> DEFINE new == Only(tranches, kept)
           f == TrancheAmounts(tranches)
           g == TrancheAmounts(new)
<1>1. new \in Seq(Tranche)
  BY OnlyEmbeds
<1>2. PICK h : IsEmbedding(h, new, tranches, kept)
  BY OnlyEmbeds
<1> HIDE DEF new
<1>3. /\ IsFiniteSet(DOMAIN tranches) /\ DOMAIN tranches \subseteq Int
      /\ \A k \in kept : f[k] = tranches[k].amount /\ f[k] \in Int
  BY TrancheFacts
<1>4. /\ IsFiniteSet(DOMAIN new) /\ DOMAIN new \subseteq Int /\ DOMAIN g = DOMAIN new
      /\ \A j \in DOMAIN new : g[j] = new[j].amount
  BY <1>1, TrancheFacts
<1>5. \A j \in DOMAIN new : h[j] \in kept /\ new[j] = tranches[h[j]]
  BY <1>2 DEF IsEmbedding
<1>6. \A j \in DOMAIN new : g[j] = f[h[j]]
  BY <1>3, <1>4, <1>5
<1>7. IsFiniteSet(kept)
  BY <1>3, FS_Subset
<1> HIDE DEF f, g
<1>8. ASSUME NEW part \in SUBSET kept
      PROVE  SumFunctionOnSet(g, {j \in DOMAIN new : h[j] \in part}) = SumFunctionOnSet(f, part)
  BY <1>2, <1>3, <1>4, <1>6, <1>7, EmbeddingSum
<1>9. SumFunction(g) = SumFunctionOnSet(f, kept)
  <2>1. {j \in DOMAIN new : h[j] \in kept} = DOMAIN new
    BY <1>5
  <2>2. QED  BY <1>4, <1>8, <2>1 DEF SumFunction
<1>10. ASSUME NEW time
       PROVE  Due(new, time) = SumFunctionOnSet(f, kept \cap WarmedTranches(tranches, time))
  <2> DEFINE part == kept \cap WarmedTranches(tranches, time)
  <2>1. part \in SUBSET kept
    OBVIOUS
  <2>2. {j \in DOMAIN new : h[j] \in part} = WarmedTranches(new, time)
    BY <1>5 DEF WarmedTranches
  <2>3. SumFunctionOnSet(g, WarmedTranches(new, time)) = SumFunctionOnSet(f, part)
    BY <1>8, <2>1, <2>2
  <2>4. QED  BY <2>3 DEF Due, g
<1>11. QED  BY <1>9, <1>10 DEF new, f, g

\* mature_warming() moves what is due and leaves a record as it should be; it
\* changes neither the total nor the schedule.
LEMMA MatureEffect ==
  ASSUME NEW now \in Nat, NEW info, InfoOK(info, now)
  PROVE  LET read == Mature(info, now) IN
         /\ InfoOK(read, now)
         /\ read.settled = info.settled + Due(info.tranches, now)
         /\ read.warming = info.warming - Due(info.tranches, now)
         /\ read.unbonding = info.unbonding /\ read.releaseAt = info.releaseAt
         /\ \A i \in DOMAIN read.tranches : ~Warmed(read.tranches[i], now)
         /\ \A time \in Nat : time >= now =>
               Due(read.tranches, time) = Due(info.tranches, time) - Due(info.tranches, now)
<1> DEFINE tranches == info.tranches
           W(time) == WarmedTranches(tranches, time)
           kept == DOMAIN tranches \ W(now)
           a == TrancheAmounts(tranches)
           read == Mature(info, now)
<1>1. /\ tranches \in Seq(Tranche) /\ info.settled \in Nat /\ info.warming \in Nat
      /\ info.unbonding \in Nat /\ info.releaseAt \in Nat
      /\ info.warming = SumFunction(a)
      /\ TranchesInOrder(tranches, now)
  BY DEF InfoOK, StakeInfoType, Tranche
<1>2. /\ read.settled = info.settled + Due(tranches, now)
      /\ read.warming = info.warming - Due(tranches, now)
      /\ read.tranches = Only(tranches, kept)
      /\ read.unbonding = info.unbonding /\ read.releaseAt = info.releaseAt
      /\ read = [settled |-> read.settled, warming |-> read.warming, tranches |-> read.tranches,
                 unbonding |-> read.unbonding, releaseAt |-> read.releaseAt]
  <2>1. info = [settled |-> info.settled, warming |-> info.warming, tranches |-> info.tranches,
                unbonding |-> info.unbonding, releaseAt |-> info.releaseAt]
    BY DEF InfoOK, StakeInfoType
  <2>2. read = [info EXCEPT !.settled = @ + Due(tranches, now), !.warming = @ - Due(tranches, now),
                            !.tranches = Only(tranches, kept)]
    BY DEF Mature, Due
  <2> HIDE DEF read, kept, tranches
  <2>3. QED  BY <2>1, <2>2
<1> HIDE DEF read
<1>3. /\ read.tranches \in Seq(Tranche) /\ TranchesInOrder(read.tranches, now)
  <2>1. kept \in SUBSET DOMAIN tranches
    BY DEF kept
  <2>2. /\ \A i \in kept : tranches[i].amount > 0 /\ tranches[i].since <= now
        /\ \A i, j \in DOMAIN tranches : i <= j => tranches[i].since <= tranches[j].since
    BY <1>1, <2>1 DEF TranchesInOrder
  <2>3. /\ Only(tranches, kept) \in Seq(Tranche)
        /\ TranchesInOrder(Only(tranches, kept), now)
    BY ONLY <1>1, <2>1, <2>2, OnlyInOrder
  <2>4. QED  BY ONLY <1>2, <2>3
<1>4. /\ Due(tranches, now) \in Nat /\ Due(tranches, now) <= info.warming
      /\ info.warming - Due(tranches, now) = SumFunctionOnSet(a, kept)
  BY <1>1, DueBound
<1>5. SumFunction(TrancheAmounts(read.tranches)) = SumFunctionOnSet(a, kept)
  BY <1>1, <1>2, OnlyDue
<1>6. InfoOK(read, now)
  <2>1. read.settled \in Nat /\ read.warming \in Nat
    BY <1>1, <1>2, <1>4
  <2>2. read \in StakeInfoType
    BY <1>1, <1>2, <1>3, <2>1 DEF StakeInfoType, Tranche
  <2>3. QED  BY <1>2, <1>3, <1>4, <1>5, <2>2 DEF InfoOK
<1>7. \A i \in DOMAIN read.tranches : ~Warmed(read.tranches[i], now)
  <2>1. PICK h : IsEmbedding(h, read.tranches, tranches, kept)
    BY <1>1, <1>2, OnlyEmbeds
  <2>2. QED  BY <2>1 DEF IsEmbedding, WarmedTranches
<1>8. ASSUME NEW time \in Nat, time >= now
      PROVE  Due(read.tranches, time) = Due(tranches, time) - Due(tranches, now)
  <2>1. Due(read.tranches, time) = SumFunctionOnSet(a, kept \cap W(time))
    <3>1. kept \in SUBSET DOMAIN tranches
      OBVIOUS
    <3> HIDE DEF kept, W, a, tranches
    <3>2. Due(Only(tranches, kept), time) = SumFunctionOnSet(a, kept \cap W(time))
      BY <1>1, <3>1, OnlyDue DEF a, W
    <3>3. QED  BY <1>2, <3>2
  <2>2. W(now) \in SUBSET W(time)
    <3>1. ASSUME NEW i \in DOMAIN tranches, Warmed(tranches[i], now)
          PROVE  Warmed(tranches[i], time)
      <4>1. tranches[i].since \in Nat
        BY <1>1, TrancheFacts
      <4>2. QED  BY <1>8, <3>1, <4>1, StakeAssumption DEF Warmed
    <3>2. QED  BY <3>1 DEF WarmedTranches
  <2>3. kept \cap W(time) = W(time) \ W(now)
    BY DEF WarmedTranches
  <2>4. IsFiniteSet(W(time)) /\ \A i \in W(time) : a[i] \in Int
    <3>1. IsFiniteSet(DOMAIN tranches) /\ \A i \in DOMAIN tranches : a[i] \in Int
      BY <1>1, TrancheFacts
    <3>2. W(time) \in SUBSET DOMAIN tranches
      BY DEF WarmedTranches
    <3>3. QED  BY <3>1, <3>2, FS_Subset
  <2>5. SumFunctionOnSet(a, W(time))
          = SumFunctionOnSet(a, W(now)) + SumFunctionOnSet(a, W(time) \ W(now))
    <3> HIDE DEF W, a
    <3>1. QED  BY <2>2, <2>4, SumSplit
  <2>6. Due(tranches, time) = Due(tranches, now) + Due(read.tranches, time)
    BY <2>1, <2>3, <2>5 DEF Due
  <2>7. Due(tranches, now) \in Nat /\ Due(read.tranches, time) \in Nat
    BY <1>1, <1>3, DueBound
  <2>8. QED  BY <2>6, <2>7
<1>9. QED  BY <1>2, <1>6, <1>7, <1>8 DEF read

\* With tranches in order, the warmed ones come first.
LEMMA DownClosedIsInterval ==
  ASSUME NEW n \in Nat, NEW W \in SUBSET (1 .. n),
         \A i, j \in 1 .. n : i <= j /\ j \in W => i \in W
  PROVE  \E m \in 0 .. n : W = 1 .. m
<1> DEFINE Closed(k, V) == V \subseteq 1 .. k /\ \A i, j \in 1 .. k : i <= j /\ j \in V => i \in V
           F == {k \in Nat : \A V : Closed(k, V) => \E m \in 0 .. k : V = 1 .. m}
<1>1. 0 \in F
  <2>1. ASSUME NEW V, Closed(0, V)
        PROVE  \E m \in 0 .. 0 : V = 1 .. m
    <3>1. V = 1 .. 0
      BY <2>1
    <3>2. QED  BY <3>1
  <2> HIDE DEF Closed
  <2>2. QED  BY <2>1
<1>2. ASSUME NEW k \in F
      PROVE  k + 1 \in F
  <2>1. ASSUME NEW V, Closed(k + 1, V)
        PROVE  \E m \in 0 .. k + 1 : V = 1 .. m
    <3>1. CASE k + 1 \in V
      <4>1. \A i \in 1 .. k + 1 : i \in V
        <5>1. k \in Nat /\ \A i \in 1 .. k + 1 : i <= k + 1 /\ k + 1 \in 1 .. k + 1
          BY <1>2
        <5>2. QED  BY <2>1, <3>1, <5>1
      <4>2. V = 1 .. k + 1
        BY <2>1, <4>1
      <4>3. QED  BY <1>2, <4>2
    <3>2. CASE k + 1 \notin V
      <4>1. Closed(k, V)
        BY <2>1, <3>2
      <4>2. PICK m \in 0 .. k : V = 1 .. m
        BY <4>1
      <4>3. QED  BY <4>2
    <3>3. QED  BY <3>1, <3>2
  <2>2. k + 1 \in Nat
    BY <1>2
  <2> HIDE DEF Closed
  <2>3. QED  BY <2>1, <2>2
<1>3. F = Nat
  <2> HIDE DEF F
  <2>1. F \subseteq Nat
    BY DEF F
  <2>2. QED  BY <1>1, <1>2, <2>1, NatSetInduction
<1>4. Closed(n, W) /\ n \in F
  BY <1>3
<1>5. QED  BY <1>4

\* An interval without its first element.
LEMMA IntervalFirst ==
  ASSUME NEW i \in Int, NEW n \in Int, i <= n
  PROVE  /\ i .. n = (i + 1 .. n) \cup {i}
         /\ i \notin i + 1 .. n
         /\ IsFiniteSet(i + 1 .. n)
<1>1. \A x : x \in i .. n <=> x \in (i + 1 .. n) \cup {i}
  OBVIOUS
<1>2. IsFiniteSet(i + 1 .. n)
  BY FS_Interval
<1>3. QED  BY <1>1, <1>2

\* Taking an amount from the newest first: from any position on, what is left
\* is what there was, less the amount.
LEMMA DrainedSuffix ==
  ASSUME NEW tranches \in Seq(Tranche), NEW amount \in Nat
  PROVE  LET a == TrancheAmounts(tranches)
             left == Drained(tranches, amount) IN
         /\ DOMAIN left = DOMAIN tranches
         /\ \A i \in DOMAIN tranches : left[i] \in Nat /\ left[i] <= a[i]
         /\ \A m \in 0 .. Len(tranches) :
               SumFunctionOnSet(left, m + 1 .. Len(tranches))
                 = Max2(0, SumFunctionOnSet(a, m + 1 .. Len(tranches)) - amount)
<1> DEFINE a == TrancheAmounts(tranches)
           left == Drained(tranches, amount)
           N == Len(tranches)
           From(f, m) == SumFunctionOnSet(f, m + 1 .. N)
<1>1. N \in Nat /\ DOMAIN tranches = 1 .. N /\ \A i \in 1 .. N : a[i] \in Nat
  BY TrancheFacts
<1>2. /\ DOMAIN left = 1 .. N
      /\ \A i \in 1 .. N : left[i] = Max2(0, Min2(a[i], a[i] + From(a, i) - amount))
  BY <1>1 DEF Drained
<1> HIDE DEF a, left, N
<1>3. ASSUME NEW m \in 0 .. N
      PROVE  From(a, m) \in Nat
  <2>1. IsFiniteSet(m + 1 .. N) /\ m + 1 .. N \in SUBSET (1 .. N)
    BY <1>1, FS_Interval
  <2>2. QED  BY <1>1, <2>1, SumNat
<1>4. \A i \in 1 .. N : left[i] \in Nat /\ left[i] <= a[i]
  <2> HIDE DEF From
  <2>1. ASSUME NEW i \in 1 .. N
        PROVE  left[i] \in Nat /\ left[i] <= a[i]
    <3>1. a[i] \in Nat /\ From(a, i) \in Nat
      BY <1>1, <1>3
    <3>2. left[i] = Max2(0, Min2(a[i], a[i] + From(a, i) - amount))
      BY <1>2
    <3>3. QED  BY ONLY <3>1, <3>2, amount \in Nat DEF Max2, Min2
  <2>2. QED  BY <2>1
<1> DEFINE Holds(m) == From(left, m) = Max2(0, From(a, m) - amount)
           F == {k \in Nat : k <= N => Holds(N - k)}
<1>5. 0 \in F
  <2>1. N + 1 .. N = {} /\ N - 0 = N
    BY <1>1
  <2>2. From(left, N) = 0 /\ From(a, N) = 0
    BY <2>1, SumEmpty
  <2> HIDE DEF From
  <2>3. QED  BY <2>1, <2>2 DEF Max2
<1>6. ASSUME NEW k \in F
      PROVE  k + 1 \in F
  <2> SUFFICES ASSUME k + 1 <= N
               PROVE  Holds(N - (k + 1))
    BY <1>6
  <2> DEFINE i == N - k
  <2>1. i \in 1 .. N /\ i - 1 = N - (k + 1) /\ k <= N /\ k \in Nat
    BY <1>1, <1>6
  <2>2. Holds(i)
    BY <1>6, <2>1
  <2> HIDE DEF i
  <2>3. /\ i .. N = (i + 1 .. N) \cup {i} /\ i \notin i + 1 .. N /\ IsFiniteSet(i + 1 .. N)
        /\ i .. N \subseteq 1 .. N /\ (i - 1) + 1 = i
    <3>1. i \in Int /\ N \in Int /\ i <= N /\ 1 <= i
      BY <1>1, <2>1
    <3>2. i .. N \subseteq 1 .. N /\ (i - 1) + 1 = i
      BY <3>1
    <3>3. QED  BY <3>1, <3>2, IntervalFirst
  <2>4. From(a, i - 1) = a[i] + From(a, i)
    <3>1. \A j \in (i + 1 .. N) \cup {i} : a[j] \in Int
      BY <1>1, <2>3
    <3>2. SumFunctionOnSet(a, (i + 1 .. N) \cup {i}) = a[i] + SumFunctionOnSet(a, i + 1 .. N)
      BY <2>3, <3>1, SumAdd
    <3>3. QED  BY <2>3, <3>2
  <2>5. From(left, i - 1) = left[i] + From(left, i)
    <3>1. \A j \in (i + 1 .. N) \cup {i} : left[j] \in Int
      BY <1>4, <2>3
    <3>2. SumFunctionOnSet(left, (i + 1 .. N) \cup {i})
            = left[i] + SumFunctionOnSet(left, i + 1 .. N)
      BY <2>3, <3>1, SumAdd
    <3>3. QED  BY <2>3, <3>2
  <2>6. left[i] = Max2(0, Min2(a[i], a[i] + From(a, i) - amount))
    BY <1>2, <2>1
  <2>7. From(a, i) \in Nat /\ a[i] \in Nat
    BY <1>1, <1>3, <2>1
  <2> HIDE DEF From
  <2>8. From(left, i - 1) = Max2(0, From(a, i - 1) - amount)
    BY <2>2, <2>4, <2>5, <2>6, <2>7 DEF Max2, Min2
  <2>9. QED  BY <2>1, <2>8
<1>7. F = Nat
  <2> HIDE DEF F
  <2>1. F \subseteq Nat
    BY DEF F
  <2>2. QED  BY <1>5, <1>6, <2>1, NatSetInduction
<1>8. ASSUME NEW m \in 0 .. N
      PROVE  Holds(m)
  <2>1. N - m \in Nat /\ N - m <= N /\ N - (N - m) = m
    BY <1>1
  <2>3. N - m \in F
    <3> HIDE DEF F
    <3>1. QED  BY <1>7, <2>1
  <2>2. Holds(N - (N - m))
    BY <2>1, <2>3
  <2> HIDE DEF Holds
  <2>4. QED  BY <2>1, <2>2
<1>9. QED  BY <1>1, <1>2, <1>4, <1>8 DEF a, left, N

\* drain_warming() leaves a record as it should be, takes exactly the amount,
\* and takes it from what is due last.
LEMMA DrainEffect ==
  ASSUME NEW now \in Nat, NEW info, InfoOK(info, now), NEW amount \in 0 .. info.warming
  PROVE  LET rest == DrainWarming(info, amount) IN
         /\ InfoOK(rest, now)
         /\ rest.warming = info.warming - amount
         /\ rest.settled = info.settled
         /\ rest.unbonding = info.unbonding /\ rest.releaseAt = info.releaseAt
         /\ \A time \in Nat :
               /\ Due(rest.tranches, time) <= Due(info.tranches, time)
               /\ Due(rest.tranches, time) >= Min2(Due(info.tranches, time), rest.warming)
<1> DEFINE tranches == info.tranches
           a == TrancheAmounts(tranches)
           left == Drained(tranches, amount)
           list == [i \in DOMAIN left |-> [tranches[i] EXCEPT !.amount = left[i]]]
           kept == {i \in DOMAIN left : left[i] > 0}
           rest == DrainWarming(info, amount)
           N == Len(tranches)
<1>1. /\ tranches \in Seq(Tranche) /\ info.settled \in Nat /\ info.warming \in Nat
      /\ info.unbonding \in Nat /\ info.releaseAt \in Nat
      /\ info.warming = SumFunction(a)
      /\ TranchesInOrder(tranches, now)
  BY DEF InfoOK, StakeInfoType, Tranche
<1>2. /\ rest.warming = info.warming - amount
      /\ rest.tranches = Only(list, kept)
      /\ rest.settled = info.settled
      /\ rest.unbonding = info.unbonding /\ rest.releaseAt = info.releaseAt
      /\ rest = [settled |-> info.settled, warming |-> rest.warming, tranches |-> rest.tranches,
                 unbonding |-> info.unbonding, releaseAt |-> info.releaseAt]
  <2>1. info = [settled |-> info.settled, warming |-> info.warming, tranches |-> info.tranches,
                unbonding |-> info.unbonding, releaseAt |-> info.releaseAt]
    BY DEF InfoOK, StakeInfoType
  <2>2. rest = [info EXCEPT !.warming = @ - amount, !.tranches = Only(list, kept)]
    BY DEF DrainWarming
  <2> HIDE DEF rest, kept, tranches, list
  <2>3. QED  BY <2>1, <2>2
<1>3. /\ N \in Nat /\ DOMAIN tranches = 1 .. N /\ IsFiniteSet(1 .. N) /\ DOMAIN a = 1 .. N
      /\ \A i \in 1 .. N : /\ tranches[i] \in Tranche /\ tranches[i].since \in Nat
                           /\ a[i] \in Nat
  BY <1>1, TrancheFacts
<1>4. /\ DOMAIN left = 1 .. N
      /\ \A i \in 1 .. N : left[i] \in Nat /\ left[i] <= a[i]
      /\ \A m \in 0 .. N : SumFunctionOnSet(left, m + 1 .. N)
                             = Max2(0, SumFunctionOnSet(a, m + 1 .. N) - amount)
  <2>1. amount \in Nat
    BY <1>1
  <2> HIDE DEF tranches
  <2>2. /\ DOMAIN left = DOMAIN tranches
        /\ \A i \in DOMAIN tranches : left[i] \in Nat /\ left[i] <= a[i]
        /\ \A m \in 0 .. N : SumFunctionOnSet(left, m + 1 .. N)
                               = Max2(0, SumFunctionOnSet(a, m + 1 .. N) - amount)
    BY ONLY <1>1, <2>1, DrainedSuffix
  <2> HIDE DEF N, a, left
  <2>3. QED  BY <1>3, <2>2
<1> HIDE DEF a, left, N, rest, tranches
<1>5. /\ list \in Seq(Tranche) /\ DOMAIN list = 1 .. N
      /\ \A i \in 1 .. N : /\ list[i].amount = left[i]
                           /\ list[i].since = tranches[i].since
                           /\ TrancheAmounts(list)[i] = left[i]
  <2>1. ASSUME NEW i \in 1 .. N
        PROVE  /\ list[i] \in Tranche /\ list[i].amount = left[i]
               /\ list[i].since = tranches[i].since
    BY <1>3, <1>4 DEF Tranche
  <2>2. DOMAIN list = 1 .. N /\ list = [i \in 1 .. N |-> list[i]]
    BY <1>4
  <2> HIDE DEF list
  <2>3. list \in Seq(Tranche)
    BY <1>3, <2>1, <2>2
  <2>4. QED  BY <2>1, <2>2, <2>3 DEF TrancheAmounts
<1>6. kept \in SUBSET (1 .. N) /\ \A i \in kept : left[i] > 0
  BY <1>4
<1>7. \A i \in (1 .. N) \ kept : left[i] = 0
  BY <1>4
<1> HIDE DEF list, kept
<1>8. rest.tranches \in Seq(Tranche) /\ TranchesInOrder(rest.tranches, now)
  <2>1. \A i \in kept : list[i].amount > 0 /\ list[i].since <= now
    BY <1>1, <1>3, <1>5, <1>6 DEF TranchesInOrder
  <2>2. \A i, j \in DOMAIN list : i <= j => list[i].since <= list[j].since
    BY <1>1, <1>3, <1>5 DEF TranchesInOrder
  <2>3. kept \in SUBSET DOMAIN list
    BY <1>5, <1>6
  <2>4. Only(list, kept) \in Seq(Tranche) /\ TranchesInOrder(Only(list, kept), now)
    BY ONLY <1>5, <2>1, <2>2, <2>3, OnlyInOrder
  <2>5. QED  BY ONLY <1>2, <2>4, Zenon
\* Entries that were used up do not count in any sum.
<1>9. ASSUME NEW P, P \subseteq 1 .. N
      PROVE  SumFunctionOnSet(TrancheAmounts(list), kept \cap P) = SumFunctionOnSet(left, P)
  <2> DEFINE g == TrancheAmounts(list)
  <2>1. IsFiniteSet(P)
    BY <1>3, <1>9, FS_Subset
  <2>2. \A i \in P : i \in 1 .. N
    BY <1>9
  <2>3. \A i \in P : left[i] \in Int /\ g[i] = left[i] /\ (i \notin kept => left[i] = 0)
    BY <1>4, <1>5, <1>7, <2>2
  <2> HIDE DEF g
  <2>4. SumFunctionOnSet(g, kept \cap P) = SumFunctionOnSet(left, P)
    BY ONLY <2>1, <2>3, SumSupport
  <2>5. QED  BY <2>4 DEF g
<1>10. SumFunctionOnSet(a, 1 .. N) = info.warming /\ SumFunctionOnSet(left, 1 .. N) = rest.warming
  <2>1. SumFunctionOnSet(a, 1 .. N) = info.warming
    BY <1>1, <1>3 DEF SumFunction
  <2>2. SumFunctionOnSet(left, 0 + 1 .. N) = Max2(0, SumFunctionOnSet(a, 0 + 1 .. N) - amount)
    BY <1>3, <1>4
  <2>3. QED  BY <1>1, <1>2, <2>1, <2>2 DEF Max2
<1>11. SumFunction(TrancheAmounts(rest.tranches)) = rest.warming
  <2>1. SumFunction(TrancheAmounts(Only(list, kept))) = SumFunctionOnSet(TrancheAmounts(list), kept)
    BY <1>5, <1>6, OnlyDue
  <2>2. kept \cap (1 .. N) = kept
    BY <1>6
  <2>3. QED  BY <1>2, <1>9, <1>10, <2>1, <2>2
<1>12. InfoOK(rest, now)
  <2>1. rest.warming \in Nat
    BY <1>1, <1>2
  <2>2. rest \in StakeInfoType
    BY <1>1, <1>2, <1>8, <2>1 DEF StakeInfoType, Tranche
  <2>3. QED  BY <1>8, <1>11, <2>2 DEF InfoOK
<1>13. ASSUME NEW time \in Nat
       PROVE  /\ Due(rest.tranches, time) <= Due(tranches, time)
              /\ Due(rest.tranches, time) >= Min2(Due(tranches, time), rest.warming)
  <2> DEFINE W == WarmedTranches(tranches, time)
  <2>1. W \in SUBSET (1 .. N) /\ WarmedTranches(list, time) = W
    BY <1>3, <1>5 DEF WarmedTranches, Warmed
  <2>2. Due(rest.tranches, time) = SumFunctionOnSet(left, W)
    <3>1. kept \in SUBSET DOMAIN list
      BY <1>5, <1>6
    <3>2. Due(Only(list, kept), time)
            = SumFunctionOnSet(TrancheAmounts(list), kept \cap WarmedTranches(list, time))
      BY ONLY <1>5, <3>1, OnlyDue
    <3> HIDE DEF W
    <3>3. QED  BY <1>2, <1>9, <2>1, <3>2
  <2>3. Due(tranches, time) = SumFunctionOnSet(a, W)
    BY DEF Due, a
  <2>4. IsFiniteSet(W)
    BY <1>3, <2>1, FS_Subset
  <2>5. SumFunctionOnSet(left, W) <= SumFunctionOnSet(a, W)
    <3>1. \A i \in W : left[i] \in Int /\ a[i] \in Int /\ left[i] <= a[i]
      BY <1>3, <1>4, <2>1
    <3> HIDE DEF W
    <3>2. QED  BY <2>4, <3>1, SumMonotone
  <2>6. PICK m \in 0 .. N : W = 1 .. m
    <3>1. \A i, j \in 1 .. N : i <= j /\ j \in W => i \in W
      <4>1. ASSUME NEW i \in 1 .. N, NEW j \in 1 .. N, i <= j, j \in W
            PROVE  i \in W
        <5>1. tranches[i].since <= tranches[j].since
          BY <1>1, <1>3, <4>1 DEF TranchesInOrder
        <5>2. tranches[i].since \in Nat /\ tranches[j].since \in Nat
          BY <1>3
        <5>3. time >= tranches[j].since + STAKE_WARMUP_LEDGERS
          BY <4>1 DEF WarmedTranches, Warmed
        <5>4. time >= tranches[i].since + STAKE_WARMUP_LEDGERS
          BY ONLY <5>1, <5>2, <5>3, StakeAssumption, time \in Nat
        <5>5. QED
          BY <1>3, <4>1, <5>4 DEF WarmedTranches, Warmed
      <4>2. QED  BY <4>1
    <3>2. QED  BY <1>3, <2>1, <3>1, DownClosedIsInterval
  <2> HIDE DEF W
  <2>7. (1 .. N) \ W = m + 1 .. N
    BY <1>3, <2>6
  <2>8. SumFunctionOnSet(left, 1 .. N)
          = SumFunctionOnSet(left, W) + SumFunctionOnSet(left, m + 1 .. N)
    <3> DEFINE D == 1 .. N
    <3>1. W \in SUBSET D /\ IsFiniteSet(D)
      BY <1>3, <2>1
    <3>2. \A i \in D : left[i] \in Int
      BY <1>4
    <3> HIDE DEF D
    <3>3. SumFunctionOnSet(left, D) = SumFunctionOnSet(left, W) + SumFunctionOnSet(left, D \ W)
      BY ONLY <3>1, <3>2, SumSplit
    <3>4. QED  BY <2>7, <3>3 DEF D
  <2>9. SumFunctionOnSet(a, 1 .. N) = SumFunctionOnSet(a, W) + SumFunctionOnSet(a, m + 1 .. N)
    <3> DEFINE D == 1 .. N
    <3>1. W \in SUBSET D /\ IsFiniteSet(D)
      BY <1>3, <2>1
    <3>2. \A i \in D : a[i] \in Int
      BY <1>3
    <3> HIDE DEF D
    <3>3. SumFunctionOnSet(a, D) = SumFunctionOnSet(a, W) + SumFunctionOnSet(a, D \ W)
      BY ONLY <3>1, <3>2, SumSplit
    <3>4. QED  BY <2>7, <3>3 DEF D
  <2>10. SumFunctionOnSet(left, m + 1 .. N)
           = Max2(0, SumFunctionOnSet(a, m + 1 .. N) - amount)
    BY <1>4
  <2>11. /\ SumFunctionOnSet(left, W) \in Nat /\ SumFunctionOnSet(a, W) \in Nat
         /\ SumFunctionOnSet(a, m + 1 .. N) \in Nat
    <3>1. m + 1 \in Int /\ N \in Int /\ m + 1 .. N \subseteq 1 .. N
      BY <1>3
    <3>2. IsFiniteSet(m + 1 .. N)
      BY <3>1, FS_Interval
    <3>3. /\ \A i \in W : left[i] \in Nat /\ a[i] \in Nat
          /\ \A i \in m + 1 .. N : a[i] \in Nat
      BY <1>3, <1>4, <2>1, <3>1
    <3>4. QED  BY <2>4, <3>2, <3>3, SumNat
  <2>12. SumFunctionOnSet(left, W) >= Min2(SumFunctionOnSet(a, W), rest.warming)
    <3> DEFINE aW == SumFunctionOnSet(a, W)
               aL == SumFunctionOnSet(a, m + 1 .. N)
               lW == SumFunctionOnSet(left, W)
    <3>1. /\ aW \in Nat /\ aL \in Nat /\ lW \in Nat
          /\ info.warming = aW + aL /\ rest.warming = lW + Max2(0, aL - amount)
          /\ rest.warming = info.warming - amount /\ amount \in Nat
      BY <1>1, <1>2, <1>10, <2>8, <2>9, <2>10, <2>11
    <3> HIDE DEF aW, aL, lW
    <3>2. lW >= Min2(aW, rest.warming)
      BY ONLY <3>1 DEF Max2, Min2
    <3>3. QED  BY <3>2 DEF lW, aW
  <2>13. QED  BY <2>2, <2>3, <2>5, <2>12
<1>14. QED  BY <1>2, <1>12, <1>13 DEF rest, tranches

-----------------------------------------------------------------------------
(* What matures, and what counts already.                                  *)

\* The schedule of a record, read from its tranches.
LEMMA MaturedByIs ==
  ASSUME NEW info \in StakeInfoType, NEW time
  PROVE  /\ MaturedBy(info, time) = info.settled + Due(info.tranches, time)
         /\ MaturedBy(info, time) \in Nat
<1>1. info.tranches \in Seq(Tranche) /\ info.settled \in Nat
  BY DEF StakeInfoType, Tranche
<1>2. Due(info.tranches, time) \in Nat
  BY <1>1, DueBound
<1>3. MaturedBy(info, time) = info.settled + Due(info.tranches, time)
  BY DEF MaturedBy, Mature, Due, StakeInfoType
<1>4. QED  BY <1>1, <1>2, <1>3

\* What a tranche counts for at a ledger.
Credit(tranche, now) ==
  IF Warmed(tranche, now) THEN tranche.amount
  ELSE (tranche.amount * (now - tranche.since)) \div STAKE_WARMUP_LEDGERS

Credits(tranches, now) == [i \in DOMAIN tranches |-> Credit(tranches[i], now)]

\* A tranche counts for at most its amount, for nothing when it is new, for no
\* less later, and for no more when some of it is taken away.
LEMMA CreditBound ==
  ASSUME NEW tranche \in Tranche, NEW now \in Nat, tranche.since <= now
  PROVE  /\ Credit(tranche, now) \in 0 .. tranche.amount
         /\ tranche.since = now => Credit(tranche, now) = 0
         /\ Credit(tranche, now) <= Credit(tranche, now + 1)
         /\ \A part \in Tranche :
               part.since = tranche.since /\ part.amount <= tranche.amount
                 => Credit(part, now) \in 0 .. Credit(tranche, now)
<1> DEFINE W == STAKE_WARMUP_LEDGERS
           a == tranche.amount
           age == now - tranche.since
<1>1. /\ a \in Nat /\ tranche.since \in Nat /\ age \in Nat /\ W \in Nat \ {0}
      /\ (now + 1) - tranche.since = age + 1
      /\ Warmed(tranche, now) <=> age >= W
      /\ Warmed(tranche, now + 1) <=> age + 1 >= W
  BY StakeAssumption DEF Tranche, Warmed
<1>2. /\ Credit(tranche, now) = IF age >= W THEN a ELSE (a * age) \div W
      /\ Credit(tranche, now + 1) = IF age + 1 >= W THEN a ELSE (a * (age + 1)) \div W
  BY <1>1 DEF Credit
<1> HIDE DEF a, age, W
<1>3. ASSUME NEW b \in Nat, NEW g \in Nat, g < W
      PROVE  (b * g) \div W \in 0 .. b
  <2>1. b * g \in Nat /\ b * g <= b * W /\ b * W \in Nat
    BY <1>1, <1>3, MulMonotone
  <2>2. QED  BY <1>1, <2>1, DivBound
<1>4. Credit(tranche, now) \in 0 .. a
  BY <1>1, <1>2, <1>3
<1>5. age = 0 => Credit(tranche, now) = 0
  <2>1. a * 0 = 0 /\ 0 \div W = 0 /\ ~(0 >= W)
    BY <1>1
  <2>2. QED  BY <1>2, <2>1
<1>6. Credit(tranche, now) <= Credit(tranche, now + 1)
  <2>1. CASE age + 1 < W
    <3>1. a * age <= a * (age + 1) /\ a * age \in Nat /\ a * (age + 1) \in Nat
      BY <1>1, MulMonotone
    <3>2. (a * age) \div W <= (a * (age + 1)) \div W
      BY <1>1, <3>1, DivMonotone
    <3>3. ~(age >= W) /\ ~(age + 1 >= W)
      BY <1>1, <2>1
    <3>4. QED  BY <1>2, <3>2, <3>3
  <2>2. CASE age + 1 >= W
    BY <1>1, <1>2, <1>4, <2>2
  <2>3. QED  BY <1>1, <2>1, <2>2
<1>7. ASSUME NEW part \in Tranche, part.since = tranche.since, part.amount <= a
      PROVE  Credit(part, now) \in 0 .. Credit(tranche, now)
  <2>1. part.amount \in Nat /\ now - part.since = age /\ (Warmed(part, now) <=> age >= W)
    BY <1>1, <1>7 DEF Tranche, Warmed, age
  <2>2. Credit(part, now) = IF age >= W THEN part.amount ELSE (part.amount * age) \div W
    BY <2>1 DEF Credit, W
  <2>3. CASE age >= W
    BY <1>2, <1>7, <2>1, <2>2, <2>3
  <2>4. CASE age < W
    <3>1. age * part.amount <= age * a /\ age * part.amount \in Nat /\ age * a \in Nat
      BY <1>1, <1>7, <2>1, MulMonotone
    <3>2. age * part.amount = part.amount * age /\ age * a = a * age
      BY <1>1, <2>1
    <3>3. (part.amount * age) \div W <= (a * age) \div W /\ (part.amount * age) \div W \in Nat
          /\ (a * age) \div W \in Nat
      BY <1>1, <3>1, <3>2, DivMonotone
    <3>4. ~(age >= W)
      BY <1>1, <2>4
    <3>5. QED  BY <1>2, <2>2, <3>3, <3>4
  <2>5. QED  BY <1>1, <2>3, <2>4
<1>8. tranche.since = now => age = 0
  BY <1>1 DEF age
<1>9. QED  BY <1>4, <1>5, <1>6, <1>7, <1>8 DEF a

\* What the kept tranches count for.
LEMMA OnlyCredits ==
  ASSUME NEW tranches \in Seq(Tranche), NEW kept \in SUBSET DOMAIN tranches, NEW now,
         \A i \in DOMAIN tranches : Credit(tranches[i], now) \in Nat
  PROVE  SumFunction(Credits(Only(tranches, kept), now))
           = SumFunctionOnSet(Credits(tranches, now), kept)
<1> DEFINE new == Only(tranches, kept)
           f == Credits(tranches, now)
           g == Credits(new, now)
<1>1. new \in Seq(Tranche)
  BY OnlyEmbeds
<1>2. PICK h : IsEmbedding(h, new, tranches, kept)
  BY OnlyEmbeds
<1> HIDE DEF new
<1>3. /\ IsFiniteSet(DOMAIN tranches) /\ DOMAIN tranches \subseteq Int
      /\ IsFiniteSet(DOMAIN new) /\ DOMAIN new \subseteq Int
  BY <1>1, TrancheFacts
<1>4. \A j \in DOMAIN new : h[j] \in kept /\ new[j] = tranches[h[j]]
  BY <1>2 DEF IsEmbedding
<1>5. /\ \A k \in kept : f[k] \in Int
      /\ \A j \in DOMAIN new : g[j] = f[h[j]]
      /\ DOMAIN g = DOMAIN new
  BY <1>4 DEF Credits
<1>6. IsFiniteSet(kept) /\ kept \in SUBSET Int /\ kept \in SUBSET kept
  BY <1>3, FS_Subset
<1> HIDE DEF f, g
<1>7. SumFunctionOnSet(g, {j \in DOMAIN new : h[j] \in kept}) = SumFunctionOnSet(f, kept)
  BY <1>2, <1>3, <1>5, <1>6, EmbeddingSum
<1>8. {j \in DOMAIN new : h[j] \in kept} = DOMAIN new
  BY <1>4
<1>9. QED  BY <1>5, <1>7, <1>8 DEF SumFunction, f, g, new

\* Rolling the finished tranches into settled changes nothing about what the
\* record counts for.
LEMMA MatureCredits ==
  ASSUME NEW now \in Nat, NEW info, InfoOK(info, now)
  PROVE  /\ SumFunction(Credits(info.tranches, now)) \in Nat
         /\ SumFunction(Credits(info.tranches, now))
              = Due(info.tranches, now) + SumFunction(Credits(Mature(info, now).tranches, now))
<1> DEFINE tranches == info.tranches
           D == DOMAIN tranches
           W == WarmedTranches(tranches, now)
           kept == D \ W
           f == Credits(tranches, now)
<1>1. tranches \in Seq(Tranche) /\ TranchesInOrder(tranches, now)
  BY DEF InfoOK, StakeInfoType, Tranche
<1>2. Mature(info, now).tranches = Only(tranches, kept)
  BY DEF Mature, InfoOK, StakeInfoType
<1> HIDE DEF tranches
<1>3. \A i \in D : Credit(tranches[i], now) \in Nat /\ f[i] = Credit(tranches[i], now)
  <2>1. ASSUME NEW i \in D
        PROVE  Credit(tranches[i], now) \in Nat
    <3>1. /\ tranches[i] \in Tranche /\ tranches[i].since <= now
          /\ tranches[i].amount \in Nat
      BY <1>1, TrancheFacts DEF TranchesInOrder
    <3>2. Credit(tranches[i], now) \in 0 .. tranches[i].amount
      BY <3>1, CreditBound
    <3>3. QED  BY <3>1, <3>2
  <2>2. QED  BY <2>1 DEF Credits
<1>4. /\ IsFiniteSet(D) /\ W \subseteq D /\ kept \in SUBSET D /\ kept = D \ W
      /\ DOMAIN f = D
  BY <1>1, TrancheFacts DEF WarmedTranches, Credits
<1>5. \A i \in W : f[i] = TrancheAmounts(tranches)[i]
  BY DEF Credits, Credit, WarmedTranches, TrancheAmounts
<1> HIDE DEF D, W, kept, f
<1>6. SumFunction(Credits(Only(tranches, kept), now)) = SumFunctionOnSet(f, kept)
  BY <1>1, <1>3, <1>4, OnlyCredits DEF D, f
<1>7. IsFiniteSet(W) /\ IsFiniteSet(kept)
  BY <1>4, FS_Subset
<1>8. Due(tranches, now) = SumFunctionOnSet(f, W)
  <2>1. \A i \in W : f[i] \in Int /\ TrancheAmounts(tranches)[i] = f[i]
    BY <1>3, <1>4, <1>5
  <2>2. SumFunctionOnSet(TrancheAmounts(tranches), W) = SumFunctionOnSet(f, W)
    BY <1>7, <2>1, SumEqual
  <2>3. QED  BY <2>2 DEF Due, W
<1>9. \A i \in D : f[i] \in Int /\ f[i] \in Nat
  BY <1>3
<1>10. SumFunctionOnSet(f, D) = SumFunctionOnSet(f, W) + SumFunctionOnSet(f, kept)
  BY ONLY <1>4, <1>9, SumParts
<1>11. SumFunctionOnSet(f, D) \in Nat
  BY <1>4, <1>9, SumNat
<1>12. SumFunction(f) = SumFunctionOnSet(f, D)
  BY <1>4 DEF SumFunction
<1>13. QED  BY <1>2, <1>6, <1>8, <1>10, <1>11, <1>12 DEF f, tranches

\* The effective stake, read from the tranches as they are kept.
LEMMA EffectiveIs ==
  ASSUME NEW now \in Nat, NEW info, InfoOK(info, now)
  PROVE  Effective(info, now) = info.settled + SumFunction(Credits(info.tranches, now))
<1> DEFINE read == Mature(info, now)
           g == [i \in DOMAIN read.tranches |->
                   (read.tranches[i].amount * (now - read.tranches[i].since))
                      \div STAKE_WARMUP_LEDGERS]
<1>1. /\ InfoOK(read, now) /\ info.settled \in Nat
      /\ read.settled = info.settled + Due(info.tranches, now)
      /\ \A i \in DOMAIN read.tranches : ~Warmed(read.tranches[i], now)
  BY MatureEffect DEF InfoOK, StakeInfoType
<1>2. Effective(info, now) = read.settled + SumFunction(g)
  BY DEF Effective
<1> HIDE DEF read
<1>3. g = Credits(read.tranches, now)
  BY <1>1 DEF Credits, Credit
<1>4. /\ SumFunction(Credits(info.tranches, now))
            = Due(info.tranches, now) + SumFunction(Credits(read.tranches, now))
      /\ SumFunction(Credits(read.tranches, now)) \in Nat
  BY <1>1, MatureCredits DEF read
<1>5. Due(info.tranches, now) \in Nat
  BY DueBound DEF InfoOK, StakeInfoType, Tranche
<1>6. QED  BY <1>1, <1>2, <1>3, <1>4, <1>5

\* Nor does taking stake away raise what the rest counts for.
LEMMA DrainCredit ==
  ASSUME NEW now \in Nat, NEW info, InfoOK(info, now), NEW amount \in 0 .. info.warming
  PROVE  SumFunction(Credits(DrainWarming(info, amount).tranches, now))
           <= SumFunction(Credits(info.tranches, now))
<1> DEFINE tranches == info.tranches
           D == DOMAIN tranches
           left == Drained(tranches, amount)
           list == [i \in DOMAIN left |-> [tranches[i] EXCEPT !.amount = left[i]]]
           kept == {i \in DOMAIN left : left[i] > 0}
           f == Credits(tranches, now)
           g == Credits(list, now)
<1>1. /\ tranches \in Seq(Tranche) /\ info.warming \in Nat
      /\ TranchesInOrder(tranches, now)
  BY DEF InfoOK, StakeInfoType, Tranche
<1>2. DrainWarming(info, amount).tranches = Only(list, kept)
  BY DEF DrainWarming, InfoOK, StakeInfoType
<1> HIDE DEF tranches, left
<1>3. /\ IsFiniteSet(D) /\ D = 1 .. Len(tranches) /\ Len(tranches) \in Nat
      /\ \A i \in D : tranches[i] \in Tranche /\ tranches[i].since <= now
  BY <1>1, TrancheFacts DEF TranchesInOrder
<1>4. DOMAIN left = D /\ \A i \in D : left[i] \in Nat /\ left[i] <= tranches[i].amount
  <2>1. \A i \in D : TrancheAmounts(tranches)[i] = tranches[i].amount
    BY <1>1, TrancheFacts
  <2>2. amount \in Nat
    BY <1>1
  <2>3. QED  BY <1>1, <2>1, <2>2, DrainedSuffix DEF left
<1>5. ASSUME NEW i \in D
      PROVE  /\ list[i] \in Tranche
             /\ f[i] = Credit(tranches[i], now) /\ g[i] = Credit(list[i], now)
             /\ f[i] \in Nat /\ g[i] \in 0 .. f[i]
  <2>1. /\ list[i] \in Tranche /\ list[i].since = tranches[i].since
        /\ list[i].amount <= tranches[i].amount
    BY <1>3, <1>4 DEF Tranche
  <2>2. f[i] = Credit(tranches[i], now) /\ g[i] = Credit(list[i], now)
    BY <1>4 DEF Credits
  <2>3. tranches[i].amount \in Nat
    BY <1>3 DEF Tranche
  <2> HIDE DEF list, f, g
  <2>4. /\ Credit(tranches[i], now) \in 0 .. tranches[i].amount
        /\ Credit(list[i], now) \in 0 .. Credit(tranches[i], now)
    BY <1>3, <2>1, CreditBound
  <2>5. QED  BY <2>1, <2>2, <2>3, <2>4
<1>6. list \in Seq(Tranche) /\ DOMAIN list = D /\ kept \in SUBSET D
  <2>1. list = [i \in 1 .. Len(tranches) |-> list[i]] /\ DOMAIN list = D /\ kept \in SUBSET D
    BY <1>3, <1>4
  <2> HIDE DEF list, kept, f, g
  <2>2. QED  BY <1>3, <1>5, <2>1
<1>7. DOMAIN f = D
  BY DEF Credits
<1> HIDE DEF D, list, kept, f, g
<1>8. \A i \in D : Credit(list[i], now) \in Nat
  BY <1>5
<1>9. SumFunction(Credits(Only(list, kept), now)) = SumFunctionOnSet(g, kept)
  BY <1>6, <1>8, OnlyCredits DEF g
<1>10. IsFiniteSet(kept) /\ IsFiniteSet(D \ kept)
  BY <1>3, <1>6, FS_Subset
<1>11. SumFunctionOnSet(g, kept) <= SumFunctionOnSet(f, kept)
  <2>1. \A i \in kept : g[i] \in Int /\ f[i] \in Int /\ g[i] <= f[i]
    BY <1>5, <1>6
  <2>2. QED  BY <1>10, <2>1, SumMonotone
<1>12. SumFunctionOnSet(f, D) = SumFunctionOnSet(f, kept) + SumFunctionOnSet(f, D \ kept)
  <2> DEFINE U == D \ kept
  <2>1. \A i \in D : f[i] \in Int
    BY <1>5
  <2>2. kept \subseteq D /\ U = D \ kept /\ IsFiniteSet(D)
    BY <1>3, <1>6
  <2> HIDE DEF U
  <2>3. SumFunctionOnSet(f, D) = SumFunctionOnSet(f, kept) + SumFunctionOnSet(f, U)
    BY ONLY <2>1, <2>2, SumParts
  <2>4. QED  BY <2>2, <2>3
<1>13. /\ SumFunctionOnSet(f, kept) \in Nat /\ SumFunctionOnSet(f, D \ kept) \in Nat
       /\ SumFunctionOnSet(g, kept) \in Nat
  <2>1. \A i \in D : f[i] \in Nat /\ g[i] \in Nat
    BY <1>5
  <2>2. QED  BY <1>6, <1>10, <2>1, SumNat
<1>14. SumFunction(f) = SumFunctionOnSet(f, D)
  BY <1>7 DEF SumFunction
<1>15. SumFunction(Credits(Only(list, kept), now)) <= SumFunction(f)
  BY <1>9, <1>11, <1>12, <1>13, <1>14
<1>16. QED  BY <1>2, <1>15 DEF f, tranches

-----------------------------------------------------------------------------
(* What one step may do to one record: the action properties, for a record *)
(* before and after.                                                       *)

KeepsSchedule(old, new, later) ==
  \A time \in Nat : time >= later =>
    MaturedBy(new, time) >= Min2(MaturedBy(old, time), Active(new))

NothingEarly(old, new, now, later) ==
  \A time \in Nat : later <= time /\ time < now + STAKE_WARMUP_LEDGERS =>
    MaturedBy(new, time) <= MaturedBy(old, time)

Earned(old, new, now, later) ==
  /\ later = now => Effective(new, later) <= Effective(old, now)
  /\ Active(new) >= Active(old) => Effective(new, later) >= Effective(old, now)

Held(old, new, now) ==
  /\ new.unbonding > old.unbonding =>
        /\ new.releaseAt >= now + MIN_UNBONDING_LEDGERS
        /\ Slashable(new) = Slashable(old)
  /\ old.unbonding > 0 /\ new.unbonding = 0 /\ Active(new) > 0 => now >= old.releaseAt

RecordStep(old, new, now, later) ==
  /\ InfoOK(new, later)
  /\ KeepsSchedule(old, new, later)
  /\ NothingEarly(old, new, now, later)
  /\ Earned(old, new, now, later)
  /\ Held(old, new, now)

\* The fields of a record.
LEMMA InfoFacts ==
  ASSUME NEW now, NEW info, InfoOK(info, now)
  PROVE  /\ info.settled \in Nat /\ info.warming \in Nat
         /\ info.unbonding \in Nat /\ info.releaseAt \in Nat
         /\ info.tranches \in Seq(Tranche)
         /\ info = [settled |-> info.settled, warming |-> info.warming,
                    tranches |-> info.tranches, unbonding |-> info.unbonding,
                    releaseAt |-> info.releaseAt]
BY DEF InfoOK, StakeInfoType, Tranche

\* Time passing spoils no record, and a record left alone keeps its promises.
LEMMA StillStep ==
  ASSUME NEW now \in Nat, NEW info, InfoOK(info, now), NEW later \in {now, now + 1}
  PROVE  RecordStep(info, info, now, later)
<1>1. later \in Nat /\ now <= later
  OBVIOUS
<1>2. InfoOK(info, later)
  <2>1. \A i \in DOMAIN info.tranches : info.tranches[i].since \in Nat
    BY InfoFacts, TrancheFacts
  <2>2. TranchesInOrder(info.tranches, later)
    BY <1>1, <2>1 DEF InfoOK, TranchesInOrder
  <2>3. QED  BY <2>2 DEF InfoOK
<1>3. \A time : MaturedBy(info, time) \in Nat
  BY MaturedByIs DEF InfoOK
<1>4. /\ Active(info) \in Nat /\ Slashable(info) \in Nat
      /\ info.unbonding \in Nat /\ info.settled \in Nat
  BY InfoFacts DEF Active, Slashable
<1>5. Effective(info, later) \in Nat /\ Effective(info, now) \in Nat
  BY <1>1, <1>2, <1>4, EffectiveIs, MatureCredits
<1>6. Effective(info, later) >= Effective(info, now)
  <2>1. CASE later = now
    BY <1>5, <2>1
  <2>2. CASE later = now + 1
    <3> DEFINE D == DOMAIN info.tranches
               f == Credits(info.tranches, now)
               g == Credits(info.tranches, now + 1)
    <3>1. IsFiniteSet(D) /\ DOMAIN f = D /\ DOMAIN g = D
      BY InfoFacts, TrancheFacts DEF Credits
    <3>2. \A i \in D : info.tranches[i] \in Tranche /\ info.tranches[i].since <= now
                        /\ info.tranches[i].amount \in Nat /\ info.tranches[i].since \in Nat
      BY InfoFacts, TrancheFacts DEF InfoOK, TranchesInOrder
    <3>3. ASSUME NEW i \in D
          PROVE  f[i] \in Int /\ g[i] \in Int /\ f[i] <= g[i]
      <4>1. f[i] = Credit(info.tranches[i], now) /\ g[i] = Credit(info.tranches[i], now + 1)
        BY DEF Credits
      <4>2. info.tranches[i].since <= now + 1 /\ now + 1 \in Nat
        BY <3>2
      <4>3. /\ Credit(info.tranches[i], now) \in 0 .. info.tranches[i].amount
            /\ Credit(info.tranches[i], now + 1) \in 0 .. info.tranches[i].amount
            /\ Credit(info.tranches[i], now) <= Credit(info.tranches[i], now + 1)
        BY <3>2, <4>2, CreditBound
      <4>4. QED  BY <4>1, <4>3
    <3> HIDE DEF D, f, g
    <3>4. SumFunctionOnSet(f, D) <= SumFunctionOnSet(g, D)
      BY <3>1, <3>3, SumMonotone
    <3>5. SumFunction(f) <= SumFunction(g)
      BY <3>1, <3>4 DEF SumFunction
    <3>6. /\ Effective(info, now) = info.settled + SumFunction(f)
          /\ Effective(info, now + 1) = info.settled + SumFunction(g)
          /\ SumFunction(f) \in Nat /\ SumFunction(g) \in Nat
      BY <1>1, <1>2, <2>2, EffectiveIs, MatureCredits DEF f, g
    <3>7. QED  BY <1>4, <2>2, <3>5, <3>6
  <2>3. QED  BY <2>1, <2>2
<1>7. KeepsSchedule(info, info, later) /\ NothingEarly(info, info, now, later)
  BY <1>3, <1>4 DEF KeepsSchedule, NothingEarly, Min2
<1>8. Earned(info, info, now, later)
  BY <1>5, <1>6 DEF Earned
<1>9. Held(info, info, now)
  BY <1>4 DEF Held
<1>10. QED  BY <1>2, <1>7, <1>8, <1>9 DEF RecordStep

\* Reading a record first makes no difference.
LEMMA FromRead ==
  ASSUME NEW now \in Nat, NEW info, InfoOK(info, now), NEW new,
         RecordStep(Mature(info, now), new, now, now)
  PROVE  RecordStep(info, new, now, now)
<1> DEFINE read == Mature(info, now)
<1>1. /\ InfoOK(read, now)
      /\ read.settled = info.settled + Due(info.tranches, now)
      /\ read.warming = info.warming - Due(info.tranches, now)
      /\ read.unbonding = info.unbonding /\ read.releaseAt = info.releaseAt
      /\ \A time \in Nat : time >= now =>
            Due(read.tranches, time) = Due(info.tranches, time) - Due(info.tranches, now)
  BY MatureEffect
<1>2. RecordStep(read, new, now, now)
  OBVIOUS
<1>3. SumFunction(Credits(info.tranches, now))
        = Due(info.tranches, now) + SumFunction(Credits(read.tranches, now))
  BY MatureCredits
<1> HIDE DEF read
<1>4. info.settled \in Nat /\ info.warming \in Nat /\ info.unbonding \in Nat
  BY InfoFacts
<1>5. \A time : Due(info.tranches, time) \in Nat /\ Due(read.tranches, time) \in Nat
  BY <1>1, InfoFacts, DueBound
<1>6. \A time \in Nat : time >= now => MaturedBy(read, time) = MaturedBy(info, time)
  <2>1. \A time : /\ MaturedBy(read, time) = read.settled + Due(read.tranches, time)
                  /\ MaturedBy(info, time) = info.settled + Due(info.tranches, time)
    BY <1>1, MaturedByIs DEF InfoOK
  <2>2. QED  BY <1>1, <1>4, <1>5, <2>1
<1>7. Active(read) = Active(info) /\ Slashable(read) = Slashable(info)
  BY <1>1, <1>4, <1>5 DEF Active, Slashable
<1>8. Effective(read, now) = Effective(info, now)
  <2>1. /\ Effective(read, now) = read.settled + SumFunction(Credits(read.tranches, now))
        /\ Effective(info, now) = info.settled + SumFunction(Credits(info.tranches, now))
        /\ SumFunction(Credits(read.tranches, now)) \in Nat
    BY <1>1, EffectiveIs, MatureCredits
  <2>2. QED  BY <1>1, <1>3, <1>4, <1>5, <2>1
<1>9. KeepsSchedule(info, new, now) /\ NothingEarly(info, new, now, now)
  BY <1>2, <1>6 DEF RecordStep, KeepsSchedule, NothingEarly
<1>10. Earned(info, new, now, now) /\ Held(info, new, now)
  BY <1>1, <1>2, <1>7, <1>8 DEF RecordStep, Earned, Held
<1>11. QED  BY <1>2, <1>9, <1>10 DEF RecordStep

\* A sum over part of what one more was added to.
LEMMA ExtendSum ==
  ASSUME NEW D, IsFiniteSet(D), NEW x, x \notin D, NEW f, NEW g, g[x] \in Int,
         \A i \in D : f[i] \in Int /\ g[i] = f[i], NEW S, S \subseteq D
  PROVE  /\ SumFunctionOnSet(g, S) = SumFunctionOnSet(f, S)
         /\ SumFunctionOnSet(g, S \cup {x}) = g[x] + SumFunctionOnSet(f, S)
<1>1. x \notin S /\ \A i \in S : f[i] \in Int /\ g[i] = f[i]
  OBVIOUS
<1>2. IsFiniteSet(S)
  BY FS_Subset
<1>3. SumFunctionOnSet(g, S) = SumFunctionOnSet(f, S)
  BY <1>1, <1>2, SumEqual
<1>4. \A i \in S \cup {x} : g[i] \in Int
  BY <1>1
<1>5. SumFunctionOnSet(g, S \cup {x}) = g[x] + SumFunctionOnSet(g, S)
  BY <1>1, <1>2, <1>4, SumAdd
<1>6. QED  BY <1>3, <1>5

\* add_warming(): a top-up is due one warm-up later, counts for nothing yet, and
\* leaves the clocks of the older tranches alone.
LEMMA TopUpStep ==
  ASSUME NEW now \in Nat, NEW info, InfoOK(info, now), NEW amount \in Nat \ {0}
  PROVE  RecordStep(info, AddWarming(info, amount, now), now, now)
<1> DEFINE tranches == info.tranches
           N == Len(tranches)
           entry == [amount |-> amount, since |-> now]
           list == Append(tranches, entry)
           new == AddWarming(info, amount, now)
           a == TrancheAmounts(tranches)
           b == TrancheAmounts(list)
<1>1. /\ tranches \in Seq(Tranche) /\ TranchesInOrder(tranches, now)
      /\ info.settled \in Nat /\ info.warming \in Nat /\ info.unbonding \in Nat
      /\ info.releaseAt \in Nat
      /\ info.warming = SumFunction(a)
  BY InfoFacts DEF InfoOK
<1>2. /\ new.settled = info.settled /\ new.warming = info.warming + amount
      /\ new.tranches = list
      /\ new.unbonding = info.unbonding /\ new.releaseAt = info.releaseAt
      /\ new = [settled |-> new.settled, warming |-> new.warming, tranches |-> new.tranches,
                unbonding |-> new.unbonding, releaseAt |-> new.releaseAt]
  <2>1. info = [settled |-> info.settled, warming |-> info.warming, tranches |-> tranches,
                unbonding |-> info.unbonding, releaseAt |-> info.releaseAt]
    BY InfoFacts
  <2>2. new = [info EXCEPT !.warming = info.warming + amount, !.tranches = list]
    <3>1. new = [info EXCEPT !.warming = @ + amount, !.tranches = list]
      BY DEF AddWarming
    <3> HIDE DEF new, list
    <3>2. QED  BY <3>1, <2>1
  <2> HIDE DEF new, list, tranches
  <2>3. QED  BY <2>1, <2>2
<1>3. /\ N \in Nat /\ DOMAIN tranches = 1 .. N /\ DOMAIN a = 1 .. N
      /\ \A i \in 1 .. N : a[i] \in Nat /\ tranches[i] \in Tranche
                           /\ tranches[i].since \in Nat
  BY <1>1, TrancheFacts
<1>4. entry \in Tranche /\ entry.amount = amount /\ entry.since = now
  BY DEF Tranche
<1> HIDE DEF tranches, N, entry, new, a
<1>5. /\ list \in Seq(Tranche) /\ DOMAIN list = 1 .. N + 1
      /\ \A i \in 1 .. N : list[i] = tranches[i]
      /\ list[N + 1] = entry
  BY <1>1, <1>4 DEF N
<1> HIDE DEF list
<1>6. /\ DOMAIN b = 1 .. N + 1 /\ b[N + 1] = amount
      /\ \A i \in 1 .. N : b[i] = a[i]
  <2>1. \A i \in 1 .. N : i \in 1 .. N + 1
    BY <1>3
  <2>2. N + 1 \in 1 .. N + 1
    BY <1>3
  <2>3. QED  BY <1>3, <1>4, <1>5, <2>1, <2>2 DEF TrancheAmounts, a
<1> HIDE DEF b
<1>7. 1 .. N + 1 = (1 .. N) \cup {N + 1} /\ \A i \in 1 .. N : i \in Int /\ i < N + 1
  BY <1>3
<1>8. ASSUME NEW S, S \subseteq 1 .. N
      PROVE  /\ SumFunctionOnSet(b, S) = SumFunctionOnSet(a, S)
             /\ SumFunctionOnSet(b, S \cup {N + 1}) = amount + SumFunctionOnSet(a, S)
  <2> DEFINE D == 1 .. N
             x == N + 1
  <2>1. /\ \A i \in D : a[i] \in Int /\ b[i] = a[i]
        /\ b[x] \in Int /\ b[x] = amount
        /\ S \subseteq D /\ x \notin D
    BY <1>3, <1>6, <1>8
  <2>2. IsFiniteSet(D)
    BY <1>3, FS_Interval
  <2> HIDE DEF D, x
  <2>3. /\ SumFunctionOnSet(b, S) = SumFunctionOnSet(a, S)
        /\ SumFunctionOnSet(b, S \cup {x}) = b[x] + SumFunctionOnSet(a, S)
    <3>1. /\ b[x] \in Int /\ x \notin D /\ S \subseteq D
          /\ \A i \in D : a[i] \in Int /\ b[i] = a[i]
      BY <2>1
    <3>2. QED  BY ONLY <2>2, <3>1, ExtendSum
  <2>4. QED  BY <2>1, <2>3 DEF x
<1>9. SumFunction(b) = new.warming
  <2>1. SumFunctionOnSet(b, (1 .. N) \cup {N + 1}) = amount + SumFunctionOnSet(a, 1 .. N)
    BY <1>8
  <2>2. /\ SumFunction(b) = SumFunctionOnSet(b, (1 .. N) \cup {N + 1})
        /\ SumFunction(a) = SumFunctionOnSet(a, 1 .. N)
    BY <1>3, <1>6, <1>7 DEF SumFunction
  <2>3. QED  BY <1>1, <1>2, <2>1, <2>2
<1>10. TranchesInOrder(list, now)
  <2>1. ASSUME NEW i \in DOMAIN list
        PROVE  list[i].amount > 0 /\ list[i].since <= now
    BY <1>1, <1>3, <1>4, <1>5, <1>7, <2>1 DEF TranchesInOrder
  <2>2. ASSUME NEW i \in DOMAIN list, NEW j \in DOMAIN list, i <= j
        PROVE  list[i].since <= list[j].since
    <3>1. CASE j \in 1 .. N
      <4>1. i \in 1 .. N
        BY <1>3, <1>5, <2>2, <3>1
      <4>2. QED  BY <1>1, <1>3, <1>5, <2>2, <3>1, <4>1 DEF TranchesInOrder
    <3>2. CASE j = N + 1
      BY <1>4, <1>5, <2>1, <3>2
    <3>3. QED  BY <1>5, <1>7, <3>1, <3>2
  <2>3. QED  BY <2>1, <2>2 DEF TranchesInOrder
<1>11. InfoOK(new, now)
  <2>1. new \in StakeInfoType
    BY <1>1, <1>2, <1>5 DEF StakeInfoType, Tranche
  <2>2. QED  BY <1>2, <1>9, <1>10, <2>1 DEF InfoOK, b
<1>12. ASSUME NEW time \in Nat
       PROVE  Due(list, time) = Due(tranches, time)
                + (IF time >= now + STAKE_WARMUP_LEDGERS THEN amount ELSE 0)
  <2> DEFINE W == WarmedTranches(tranches, time)
             late == IF time >= now + STAKE_WARMUP_LEDGERS THEN {N + 1} ELSE {}
  <2>1. WarmedTranches(list, time) = W \cup late /\ W \subseteq 1 .. N
    BY <1>3, <1>4, <1>5, <1>7 DEF WarmedTranches, Warmed
  <2>2. Due(tranches, time) = SumFunctionOnSet(a, W) /\ Due(tranches, time) \in Nat
    BY <1>1, DueBound DEF Due, a
  <2>3. Due(list, time) = SumFunctionOnSet(b, W \cup late)
    BY <2>1 DEF Due, b
  <2> HIDE DEF W
  <2>4. SumFunctionOnSet(b, W) = SumFunctionOnSet(a, W)
        /\ SumFunctionOnSet(b, W \cup {N + 1}) = amount + SumFunctionOnSet(a, W)
    BY <1>8, <2>1
  <2>5. W \cup {} = W
    OBVIOUS
  <2>6. QED  BY <2>2, <2>3, <2>4, <2>5
<1>13. SumFunction(Credits(list, now)) = SumFunction(Credits(tranches, now))
  <2> DEFINE f == Credits(tranches, now)
             g == Credits(list, now)
  <2>1. DOMAIN f = 1 .. N /\ DOMAIN g = (1 .. N) \cup {N + 1}
    BY <1>3, <1>5, <1>7 DEF Credits
  <2>2. ASSUME NEW i \in 1 .. N
        PROVE  f[i] \in Int /\ g[i] = f[i]
    <3>1. f[i] = Credit(tranches[i], now) /\ g[i] = Credit(tranches[i], now)
      BY <1>3, <1>5, <1>7 DEF Credits
    <3>2. tranches[i].since <= now
      BY <1>1, <1>3 DEF TranchesInOrder
    <3>3. Credit(tranches[i], now) \in 0 .. tranches[i].amount
      BY <1>3, <3>2, CreditBound
    <3>4. QED  BY <3>1, <3>3
  <2>3. g[N + 1] = 0
    <3>1. g[N + 1] = Credit(entry, now)
      BY <1>5, <1>7 DEF Credits
    <3>2. entry.since <= now
      BY <1>4
    <3>3. QED  BY <1>4, <3>1, <3>2, CreditBound
  <2> HIDE DEF f, g
  <2>4. SumFunctionOnSet(g, (1 .. N) \cup {N + 1}) = g[N + 1] + SumFunctionOnSet(f, 1 .. N)
    <3> DEFINE D == 1 .. N
               x == N + 1
    <3>1. g[x] \in Int /\ D \subseteq D /\ x \notin D /\ \A i \in D : f[i] \in Int /\ g[i] = f[i]
      BY <1>3, <2>2, <2>3
    <3>2. IsFiniteSet(D)
      BY <1>3, FS_Interval
    <3> HIDE DEF D, x
    <3>3. SumFunctionOnSet(g, D \cup {x}) = g[x] + SumFunctionOnSet(f, D)
      BY ONLY <3>1, <3>2, ExtendSum
    <3>4. QED  BY <3>3 DEF D, x
  <2>5. SumFunctionOnSet(f, 1 .. N) \in Int
    <3>1. IsFiniteSet(1 .. N)
      BY <1>3, FS_Interval
    <3>2. QED  BY <2>2, <3>1, SumInt
  <2>6. SumFunction(g) = SumFunction(f)
    BY <2>1, <2>3, <2>4, <2>5 DEF SumFunction
  <2>7. QED  BY <2>6 DEF f, g
<1>14. \A time \in Nat :
         MaturedBy(new, time) = MaturedBy(info, time)
           + (IF time >= now + STAKE_WARMUP_LEDGERS THEN amount ELSE 0)
  <2>1. \A time : /\ MaturedBy(new, time) = new.settled + Due(list, time)
                  /\ MaturedBy(info, time) = info.settled + Due(tranches, time)
                  /\ Due(tranches, time) \in Nat
    BY <1>1, <1>2, <1>11, MaturedByIs, DueBound DEF InfoOK, tranches
  <2>2. QED  BY <1>1, <1>2, <1>12, <2>1
<1>15. \A time : MaturedBy(info, time) \in Nat
  BY MaturedByIs DEF InfoOK
<1>16. KeepsSchedule(info, new, now) /\ NothingEarly(info, new, now, now)
  <2>1. Active(new) \in Nat
    BY <1>1, <1>2 DEF Active
  <2>2. QED  BY <1>14, <1>15, <2>1, StakeAssumption DEF KeepsSchedule, NothingEarly, Min2
<1>17. Earned(info, new, now, now)
  <2>1. Effective(new, now) = Effective(info, now) /\ Effective(info, now) \in Nat
    BY <1>1, <1>2, <1>11, <1>13, EffectiveIs, MatureCredits DEF tranches
  <2>2. QED  BY <2>1 DEF Earned
<1>18. Held(info, new, now)
  BY <1>1, <1>2 DEF Held
<1>19. RecordStep(info, new, now, now)
  BY <1>11, <1>16, <1>17, <1>18 DEF RecordStep
<1>20. QED  BY <1>19 DEF new

\* A record with nothing warming has no tranches.
LEMMA NothingWarming ==
  ASSUME NEW now, NEW info, InfoOK(info, now), info.warming = 0
  PROVE  DOMAIN info.tranches = {}
<1> DEFINE tranches == info.tranches
           D == DOMAIN tranches
           a == TrancheAmounts(tranches)
<1>1. tranches \in Seq(Tranche) /\ TranchesInOrder(tranches, now) /\ SumFunction(a) = 0
  BY InfoFacts DEF InfoOK
<1>2. IsFiniteSet(D) /\ DOMAIN a = D /\ \A i \in D : a[i] \in Nat /\ a[i] > 0
  BY <1>1, TrancheFacts DEF TranchesInOrder
<1> HIDE DEF tranches, D, a
<1>3. ASSUME NEW i \in D
      PROVE  FALSE
  <2>1. IsFiniteSet(D \ {i}) /\ \A j \in D \ {i} : a[j] \in Nat
    BY <1>2, FS_Subset
  <2>2. SumFunctionOnSet(a, D \ {i}) \in Nat
    BY <2>1, SumNat
  <2>3. SumFunctionOnSet(a, D) = a[i] + SumFunctionOnSet(a, D \ {i})
    BY <1>2, SumRemove
  <2>4. SumFunctionOnSet(a, D) = 0
    BY <1>1, <1>2 DEF SumFunction
  <2>5. QED  BY <1>2, <2>2, <2>3, <2>4
<1>4. QED  BY <1>3 DEF D, tranches

\* Taking active stake, the newest first: warming, and settled only when no
\* warming is left.  `new` is the record after it, whatever its bucket.
LEMMA TakeStep ==
  ASSUME NEW now \in Nat, NEW info, InfoOK(info, now),
         NEW fromWarming \in 0 .. info.warming, NEW fromSettled \in 0 .. info.settled,
         fromSettled > 0 => fromWarming = info.warming,
         fromWarming > 0 \/ info.warming = 0,
         NEW new, new.settled = info.settled - fromSettled,
         new.warming = DrainWarming(info, fromWarming).warming,
         new.tranches = DrainWarming(info, fromWarming).tranches,
         new = [settled |-> new.settled, warming |-> new.warming, tranches |-> new.tranches,
                unbonding |-> new.unbonding, releaseAt |-> new.releaseAt],
         new.unbonding \in Nat, new.releaseAt \in Nat, Held(info, new, now)
  PROVE  /\ RecordStep(info, new, now, now)
         /\ Active(new) = Active(info) - fromWarming - fromSettled
<1> DEFINE rest == DrainWarming(info, fromWarming)
<1>1. /\ InfoOK(rest, now)
      /\ rest.warming = info.warming - fromWarming
      /\ \A time \in Nat :
            /\ Due(rest.tranches, time) <= Due(info.tranches, time)
            /\ Due(rest.tranches, time) >= Min2(Due(info.tranches, time), rest.warming)
  BY DrainEffect
<1>2. SumFunction(Credits(rest.tranches, now)) <= SumFunction(Credits(info.tranches, now))
  BY DrainCredit
<1>3. /\ new.warming = rest.warming /\ new.tranches = rest.tranches
      /\ new.settled = info.settled - fromSettled
  OBVIOUS
<1> HIDE DEF rest
<1>4. /\ info.settled \in Nat /\ info.warming \in Nat /\ info.tranches \in Seq(Tranche)
      /\ rest.warming \in Nat /\ rest.tranches \in Seq(Tranche)
  BY <1>1, InfoFacts
<1>5. /\ fromWarming \in Nat /\ fromSettled \in Nat /\ new.settled \in Nat
      /\ fromWarming <= info.warming /\ fromSettled <= info.settled
  BY <1>3, <1>4
<1>6. InfoOK(new, now)
  <2>1. new \in StakeInfoType
    BY <1>3, <1>4, <1>5 DEF StakeInfoType, Tranche
  <2>2. QED  BY <1>1, <1>3, <2>1 DEF InfoOK
<1>7. Active(new) = Active(info) - fromWarming - fromSettled /\ Active(new) \in Nat
  <2>1. /\ Active(new) = (info.settled - fromSettled) + (info.warming - fromWarming)
        /\ Active(info) = info.settled + info.warming
    BY <1>1, <1>3 DEF Active
  <2>2. QED  BY ONLY <1>4, <1>5, <2>1
<1>8. \A time : Due(info.tranches, time) \in Nat /\ Due(rest.tranches, time) \in Nat
  BY <1>4, DueBound
<1>9. \A time : /\ MaturedBy(new, time) = new.settled + Due(rest.tranches, time)
                /\ MaturedBy(info, time) = info.settled + Due(info.tranches, time)
  BY <1>3, <1>6, MaturedByIs DEF InfoOK
<1>10. KeepsSchedule(info, new, now)
  <2>1. ASSUME NEW time \in Nat
        PROVE  MaturedBy(new, time) >= Min2(MaturedBy(info, time), Active(new))
    <3>1. /\ Due(rest.tranches, time) >= Min2(Due(info.tranches, time), rest.warming)
          /\ Due(info.tranches, time) \in Nat /\ Due(rest.tranches, time) \in Nat
      BY <1>1, <1>8
    <3>2. Active(new) = new.settled + rest.warming
      BY <1>3 DEF Active
    <3>3. CASE fromSettled > 0
      <4>1. rest.warming = 0
        BY <1>1, <1>4, <3>3
      <4>2. QED  BY ONLY <1>4, <1>5, <1>9, <3>1, <3>2, <4>1 DEF Min2
    <3>4. CASE fromSettled = 0
      <4>1. new.settled = info.settled
        BY ONLY <1>3, <1>4, <3>4
      <4>2. QED  BY ONLY <1>4, <1>5, <1>9, <3>1, <3>2, <4>1 DEF Min2
    <3>5. QED  BY ONLY <1>5, <3>3, <3>4
  <2>2. QED  BY <2>1 DEF KeepsSchedule
<1>11. NothingEarly(info, new, now, now)
  <2>1. ASSUME NEW time \in Nat
        PROVE  MaturedBy(new, time) <= MaturedBy(info, time)
    <3>1. /\ Due(rest.tranches, time) <= Due(info.tranches, time)
          /\ Due(rest.tranches, time) \in Nat /\ Due(info.tranches, time) \in Nat
      BY <1>1, <1>8
    <3>2. /\ MaturedBy(new, time) = new.settled + Due(rest.tranches, time)
          /\ MaturedBy(info, time) = info.settled + Due(info.tranches, time)
      BY <1>9
    <3>3. QED  BY ONLY <1>3, <1>4, <1>5, <3>1, <3>2
  <2>2. QED  BY <2>1 DEF NothingEarly
<1>12. Earned(info, new, now, now)
  <2>1. /\ Effective(new, now) = new.settled + SumFunction(Credits(new.tranches, now))
        /\ Effective(info, now) = info.settled + SumFunction(Credits(info.tranches, now))
        /\ SumFunction(Credits(new.tranches, now)) \in Nat
        /\ SumFunction(Credits(info.tranches, now)) \in Nat
    BY <1>6, EffectiveIs, MatureCredits
  <2>2. Effective(new, now) <= Effective(info, now)
    BY <1>2, <1>3, <1>4, <1>5, <2>1
  <2>3. ASSUME Active(new) >= Active(info)
        PROVE  Effective(new, now) >= Effective(info, now)
    <3>1. fromWarming = 0 /\ fromSettled = 0
      <4>1. Active(info) \in Nat
        BY <1>4 DEF Active
      <4>2. QED  BY <1>5, <1>7, <2>3, <4>1
    <3>2. info.warming = 0 /\ rest.warming = 0 /\ new.settled = info.settled
      BY <1>1, <1>4, <3>1
    <3>3. DOMAIN info.tranches = {} /\ DOMAIN new.tranches = {}
      BY <1>1, <1>3, <3>2, NothingWarming
    <3>4. Credits(new.tranches, now) = Credits(info.tranches, now)
      BY <3>3 DEF Credits
    <3>5. QED  BY <1>4, <2>1, <3>2, <3>4
  <2>4. QED  BY <2>2, <2>3 DEF Earned
<1>13. QED  BY <1>6, <1>7, <1>10, <1>11, <1>12 DEF RecordStep

\* begin_unstake(): what leaves the active stake stays slashable in the bucket,
\* whose clock restarts.
LEMMA MoveStep ==
  ASSUME NEW now \in Nat, NEW info, InfoOK(info, now), NEW amount \in 1 .. Active(info),
         NEW release \in Nat, release >= now + MIN_UNBONDING_LEDGERS
  PROVE  RecordStep(info, MoveToUnbonding(info, amount, release), now, now)
<1> DEFINE fromWarming == Min2(amount, info.warming)
           fromSettled == amount - fromWarming
           rest == DrainWarming(info, fromWarming)
           new == MoveToUnbonding(info, amount, release)
<1>1. /\ info.settled \in Nat /\ info.warming \in Nat /\ info.unbonding \in Nat
      /\ amount \in Nat /\ amount >= 1 /\ amount <= info.settled + info.warming
  BY InfoFacts DEF Active
<1>2. /\ fromWarming \in 0 .. info.warming /\ fromSettled \in 0 .. info.settled
      /\ fromSettled > 0 => fromWarming = info.warming
      /\ fromWarming > 0 \/ info.warming = 0
      /\ fromWarming + fromSettled = amount
  BY <1>1 DEF Min2
<1> HIDE DEF fromWarming
<1>3. /\ rest.settled = info.settled /\ rest.unbonding = info.unbonding
      /\ rest.warming = info.warming - fromWarming
      /\ rest = [settled |-> rest.settled, warming |-> rest.warming, tranches |-> rest.tranches,
                 unbonding |-> rest.unbonding, releaseAt |-> rest.releaseAt]
  <2>1. /\ InfoOK(rest, now)
        /\ rest.settled = info.settled /\ rest.unbonding = info.unbonding
        /\ rest.warming = info.warming - fromWarming
    BY <1>2, DrainEffect
  <2> HIDE DEF rest
  <2>2. QED  BY <2>1, InfoFacts
<1>4. /\ new.settled = info.settled - fromSettled
      /\ new.warming = rest.warming /\ new.tranches = rest.tranches
      /\ new.unbonding = info.unbonding + amount /\ new.releaseAt = release
      /\ new = [settled |-> new.settled, warming |-> new.warming, tranches |-> new.tranches,
                unbonding |-> new.unbonding, releaseAt |-> new.releaseAt]
  <2>1. new = [rest EXCEPT !.settled = @ - fromSettled, !.unbonding = @ + amount,
                           !.releaseAt = release]
    BY DEF MoveToUnbonding, fromWarming
  <2> HIDE DEF new, rest, fromSettled
  <2>2. QED  BY <1>3, <2>1
<1> HIDE DEF new, fromSettled
<1>5. Held(info, new, now)
  <2>1. Slashable(new) = Slashable(info)
    BY <1>1, <1>2, <1>3, <1>4 DEF Slashable
  <2>2. new.unbonding > 0
    BY <1>1, <1>4
  <2>3. QED  BY <1>4, <2>1, <2>2 DEF Held
<1>6. new.unbonding \in Nat /\ new.releaseAt \in Nat
  BY <1>1, <1>4
<1>7. RecordStep(info, new, now, now)
  BY <1>2, <1>4, <1>5, <1>6, TakeStep
<1>8. QED  BY <1>7 DEF new

\* slash(): warming, then settled, then the bucket; the bucket is reached only
\* when nothing is left of the active stake.
LEMMA SlashStep ==
  ASSUME NEW now \in Nat, NEW info, InfoOK(info, now), NEW amount \in 1 .. Slashable(info)
  PROVE  /\ RecordStep(info, TakeSlash(info, amount), now, now)
         /\ Slashable(TakeSlash(info, amount)) = Slashable(info) - amount
<1> DEFINE fromWarming == Min2(amount, info.warming)
           fromSettled == Min2(amount - fromWarming, info.settled)
           fromUnbonding == Min2(amount - fromWarming - fromSettled, info.unbonding)
           rest == DrainWarming(info, fromWarming)
           new == TakeSlash(info, amount)
<1>1. /\ info.settled \in Nat /\ info.warming \in Nat /\ info.unbonding \in Nat
      /\ info.releaseAt \in Nat
      /\ amount \in Nat /\ amount >= 1
      /\ amount <= info.settled + info.warming + info.unbonding
  BY InfoFacts DEF Slashable
<1>2. /\ fromWarming \in 0 .. info.warming /\ fromWarming <= amount
      /\ fromWarming > 0 \/ info.warming = 0
      /\ fromWarming < amount => fromWarming = info.warming
  BY <1>1 DEF Min2
<1> HIDE DEF fromWarming
<1>3. /\ fromSettled \in 0 .. info.settled /\ fromSettled <= amount - fromWarming
      /\ fromSettled < amount - fromWarming => fromSettled = info.settled
      /\ fromSettled > 0 => fromWarming = info.warming
  BY <1>1, <1>2 DEF Min2
<1> HIDE DEF fromSettled
<1>4. /\ fromUnbonding = amount - fromWarming - fromSettled
      /\ fromUnbonding \in 0 .. info.unbonding
      /\ fromUnbonding > 0 => fromWarming = info.warming /\ fromSettled = info.settled
  BY <1>1, <1>2, <1>3 DEF Min2
<1> HIDE DEF fromUnbonding
<1>5. /\ rest.settled = info.settled /\ rest.unbonding = info.unbonding
      /\ rest.releaseAt = info.releaseAt
      /\ rest.warming = info.warming - fromWarming
      /\ rest = [settled |-> rest.settled, warming |-> rest.warming, tranches |-> rest.tranches,
                 unbonding |-> rest.unbonding, releaseAt |-> rest.releaseAt]
  <2>1. /\ InfoOK(rest, now)
        /\ rest.settled = info.settled /\ rest.unbonding = info.unbonding
        /\ rest.releaseAt = info.releaseAt
        /\ rest.warming = info.warming - fromWarming
    BY <1>2, DrainEffect
  <2> HIDE DEF rest
  <2>2. QED  BY <2>1, InfoFacts
<1>6. /\ new.settled = info.settled - fromSettled
      /\ new.warming = rest.warming /\ new.tranches = rest.tranches
      /\ new.unbonding = info.unbonding - fromUnbonding /\ new.releaseAt = info.releaseAt
      /\ new = [settled |-> new.settled, warming |-> new.warming, tranches |-> new.tranches,
                unbonding |-> new.unbonding, releaseAt |-> new.releaseAt]
  <2>1. new = [rest EXCEPT !.settled = @ - fromSettled, !.unbonding = @ - fromUnbonding]
    BY DEF TakeSlash, fromWarming, fromSettled, fromUnbonding
  <2> HIDE DEF new, rest
  <2>2. QED  BY <1>5, <2>1
<1> HIDE DEF new
<1>7. Held(info, new, now)
  <2>1. ~(new.unbonding > info.unbonding)
    BY ONLY <1>1, <1>4, <1>6
  <2>2. ASSUME info.unbonding > 0, new.unbonding = 0
        PROVE  Active(new) = 0
    <3>1. fromUnbonding > 0
      BY ONLY <1>1, <1>4, <1>6, <2>2
    <3>2. new.settled = 0 /\ new.warming = 0
      BY ONLY <1>1, <1>4, <1>5, <1>6, <3>1
    <3>3. QED  BY <3>2 DEF Active
  <2>3. QED  BY <2>1, <2>2 DEF Held
<1>8. new.unbonding \in Nat /\ new.releaseAt \in Nat
  BY ONLY <1>1, <1>4, <1>6
<1>9. RecordStep(info, new, now, now)
  BY <1>2, <1>3, <1>6, <1>7, <1>8, TakeStep
<1>10. Slashable(new) = Slashable(info) - amount
  <2>1. /\ Slashable(new) = (info.settled - fromSettled) + (info.warming - fromWarming)
                             + (info.unbonding - fromUnbonding)
        /\ Slashable(info) = info.settled + info.warming + info.unbonding
    BY <1>5, <1>6 DEF Slashable
  <2>2. /\ fromSettled \in Int /\ fromWarming \in Int
        /\ fromUnbonding = amount - fromWarming - fromSettled
    BY <1>1, <1>2, <1>3, <1>4
  <2>3. QED  BY ONLY <1>1, <2>1, <2>2
<1>11. QED  BY <1>9, <1>10 DEF new

\* complete_unstake(): the bucket leaves when its time has come.
LEMMA PayStep ==
  ASSUME NEW now \in Nat, NEW info, InfoOK(info, now), now >= info.releaseAt
  PROVE  RecordStep(info, [info EXCEPT !.unbonding = 0, !.releaseAt = 0], now, now)
<1> DEFINE new == [info EXCEPT !.unbonding = 0, !.releaseAt = 0]
<1>1. /\ new.settled = info.settled /\ new.warming = info.warming
      /\ new.tranches = info.tranches /\ new.unbonding = 0 /\ new.releaseAt = 0
      /\ new = [settled |-> new.settled, warming |-> new.warming, tranches |-> new.tranches,
                unbonding |-> new.unbonding, releaseAt |-> new.releaseAt]
  <2>1. info = [settled |-> info.settled, warming |-> info.warming, tranches |-> info.tranches,
                unbonding |-> info.unbonding, releaseAt |-> info.releaseAt]
    BY InfoFacts
  <2>2. new = [info EXCEPT !.unbonding = 0, !.releaseAt = 0]
    OBVIOUS
  <2> HIDE DEF new
  <2>3. QED  BY ONLY <2>1, <2>2
<1> HIDE DEF new
<1>2. InfoOK(new, now)
  <2>1. new \in StakeInfoType
    BY <1>1, InfoFacts DEF StakeInfoType, Tranche
  <2>2. QED  BY <1>1, <2>1 DEF InfoOK
<1>3. Active(new) = Active(info) /\ Effective(new, now) = Effective(info, now)
      /\ \A time : MaturedBy(new, time) = MaturedBy(info, time)
  <2>1. Effective(new, now) = Effective(info, now)
    BY <1>1, <1>2, EffectiveIs
  <2>2. \A time : MaturedBy(new, time) = MaturedBy(info, time)
    BY <1>1, <1>2, MaturedByIs DEF InfoOK
  <2>3. QED  BY <1>1, <2>1, <2>2 DEF Active
<1>4. RecordStep(info, info, now, now)
  BY StillStep
<1>5. KeepsSchedule(info, new, now) /\ NothingEarly(info, new, now, now)
      /\ Earned(info, new, now, now)
  BY <1>3, <1>4 DEF RecordStep, KeepsSchedule, NothingEarly, Earned
<1>6. Held(info, new, now)
  BY <1>1, InfoFacts DEF Held
<1>7. RecordStep(info, new, now, now)
  BY <1>2, <1>5, <1>6 DEF RecordStep
<1>8. QED  BY <1>7 DEF new

-----------------------------------------------------------------------------
(* Every record at every step.                                             *)

StakeInv ==
  /\ seq \in Nat
  /\ stake \in [Tokens -> [Workers -> StakeInfoType]]
  /\ \A t \in Tokens, w \in Workers : InfoOK(stake[t][w], seq)

EveryRecordStep ==
  \A t \in Tokens, w \in Workers : RecordStep(stake[t][w], stake'[t][w], seq, seq')

\* An empty record is well formed.
LEMMA NoStakeOK ==
  ASSUME NEW now \in Nat
  PROVE  InfoOK(NoStake, now)
<1>1. /\ NoStake.settled = 0 /\ NoStake.warming = 0 /\ NoStake.tranches = <<>>
      /\ NoStake \in StakeInfoType
  BY DEF NoStake, StakeInfoType
<1>2. TrancheAmounts(<<>>) = <<>> /\ DOMAIN <<>> = {}
  BY DEF TrancheAmounts
<1>3. SumFunction(<<>>) = 0
  BY <1>2, SumEmpty DEF SumFunction
<1>4. QED  BY <1>1, <1>2, <1>3 DEF InfoOK, TranchesInOrder

\* Nobody has a stake at first.
LEMMA StakeInitOK ==
  StakeInit => StakeInv
BY NoStakeOK DEF StakeInit, LedgerInit, StakeInv, InfoOK

\* A record is left alone, is written by a top-up, a withdrawal or a payout, or
\* is slashed: at each step every record is in one of these cases.
LEMMA StoredStep ==
  ASSUME StakeInv, NEW t \in Tokens, NEW w \in Workers, NEW new, SetStake(t, w, new),
         seq' = seq, RecordStep(StakeInfo(t, w), new, seq, seq)
  PROVE  StakeInv' /\ EveryRecordStep
<1>1. RecordStep(stake[t][w], new, seq, seq)
  BY FromRead DEF StakeInv, StakeInfo
<1>2. ASSUME NEW u \in Tokens, NEW v \in Workers
      PROVE  RecordStep(stake[u][v], stake'[u][v], seq, seq)
  <2>1. stake'[u][v] = IF u = t /\ v = w THEN new ELSE stake[u][v]
    BY DEF StakeInv, SetStake
  <2>2. RecordStep(stake[u][v], stake[u][v], seq, seq)
    BY StillStep DEF StakeInv
  <2>3. QED  BY <1>1, <2>1, <2>2
<1>3. stake' \in [Tokens -> [Workers -> StakeInfoType]]
  <2>1. new \in StakeInfoType
    BY <1>1 DEF RecordStep, InfoOK
  <2>2. QED  BY <2>1 DEF StakeInv, SetStake
<1>4. QED  BY <1>2, <1>3 DEF StakeInv, EveryRecordStep, RecordStep

\* What a slash for a wrong answer does to each record: the losers lose what
\* is reported as taken, nobody else anything, and no bucket grows.
LEMMA StakesSlashed ==
  ASSUME StakeInv, NEW t \in Tokens, NEW losers, NEW amount \in Nat,
         NEW w \in Workers
  PROVE  /\ SlashTaken(t, w, amount) \in 0 .. Slashable(stake[t][w])
         /\ RecordStep(stake[t][w], StakesAfterSlash(t, losers, amount)[w], seq, seq)
         /\ Slashable(StakesAfterSlash(t, losers, amount)[w])
              = Slashable(stake[t][w]) - (IF w \in losers THEN SlashTaken(t, w, amount) ELSE 0)
         /\ StakesAfterSlash(t, losers, amount)[w].unbonding <= stake[t][w].unbonding
<1> DEFINE old == stake[t][w]
           read == StakeInfo(t, w)
           taken == SlashTaken(t, w, amount)
<1>1. InfoOK(old, seq) /\ seq \in Nat
  BY DEF StakeInv
<1>2. read = Mature(old, seq)
  BY DEF StakeInfo
<1> HIDE DEF old, read
<1>3. /\ InfoOK(read, seq) /\ read.settled = old.settled + Due(old.tranches, seq)
      /\ read.warming = old.warming - Due(old.tranches, seq)
      /\ read.unbonding = old.unbonding
  BY <1>1, <1>2, MatureEffect
<1>4. Slashable(read) = Slashable(old) /\ Slashable(old) \in Nat
  <2>1. old.settled \in Nat /\ old.warming \in Nat /\ old.unbonding \in Nat
        /\ Due(old.tranches, seq) \in Nat
    BY <1>1, InfoFacts, DueBound
  <2>2. QED  BY <1>3, <2>1 DEF Slashable
<1>5. taken \in 0 .. Slashable(old)
  BY <1>4, SlashAmountBound DEF SlashTaken, read
<1> HIDE DEF taken
<1>6. CASE w \in losers /\ taken > 0
  <2>1. StakesAfterSlash(t, losers, amount)[w] = TakeSlash(read, taken)
    BY <1>6 DEF StakesAfterSlash, read, taken
  <2>2. taken \in 1 .. Slashable(read)
    BY <1>4, <1>5, <1>6
  <2>3. RecordStep(old, TakeSlash(read, taken), seq, seq)
    BY <1>1, <1>2, <1>3, <2>2, SlashStep, FromRead
  <2>4. Slashable(TakeSlash(read, taken)) = Slashable(read) - taken
    BY <1>1, <1>3, <2>2, SlashStep
  <2>5. TakeSlash(read, taken).unbonding <= old.unbonding
    <3> DEFINE new == TakeSlash(read, taken)
    <3>1. InfoOK(new, seq) /\ Held(old, new, seq) /\ Slashable(new) # Slashable(old)
      BY <1>4, <1>5, <1>6, <2>3, <2>4 DEF RecordStep
    <3> HIDE DEF new
    <3>2. new.unbonding \in Nat /\ old.unbonding \in Nat
      BY <1>1, <3>1, InfoFacts
    <3>3. new.unbonding <= old.unbonding
      BY <3>1, <3>2 DEF Held
    <3>4. QED  BY <3>3 DEF new
  <2>6. QED  BY <1>4, <1>5, <1>6, <2>1, <2>3, <2>4, <2>5 DEF old, taken
<1>7. CASE ~(w \in losers /\ taken > 0)
  <2>1. StakesAfterSlash(t, losers, amount)[w] = old
    BY <1>7 DEF StakesAfterSlash, old, taken
  <2>2. RecordStep(old, old, seq, seq)
    BY <1>1, StillStep
  <2>3. w \in losers => taken = 0
    BY <1>4, <1>5, <1>7
  <2>4. old.unbonding \in Nat
    BY <1>1, InfoFacts
  <2>5. QED  BY <1>4, <1>5, <2>1, <2>2, <2>3, <2>4 DEF old, taken
<1>8. QED  BY <1>6, <1>7

\* One step of the book keeps every record well formed and is a lawful step of
\* every record.
LEMMA StakeNextStep ==
  ASSUME StakeInv, [StakeNext]_stakeVars
  PROVE  StakeInv' /\ EveryRecordStep
<1>0. seq \in Nat /\ \A t \in Tokens, w \in Workers :
        InfoOK(stake[t][w], seq) /\ InfoOK(StakeInfo(t, w), seq)
  BY MatureEffect DEF StakeInv, StakeInfo
<1>1. ASSUME NEW t \in Tokens, NEW w \in Workers, NEW amount \in 1 .. MaxStake,
             TopUp(t, w, amount), UNCHANGED seq
      PROVE  StakeInv' /\ EveryRecordStep
  <2>1. amount \in Nat \ {0}
    BY StakeAssumption
  <2>2. RecordStep(StakeInfo(t, w), AddWarming(StakeInfo(t, w), amount, seq), seq, seq)
    BY <1>0, <2>1, TopUpStep
  <2>3. QED  BY <1>1, <2>2, StoredStep DEF TopUp
<1>2. ASSUME NEW t \in Tokens, NEW w \in Workers, NEW amount \in 1 .. MaxStake,
             NEW timeout \in 1 .. MaxSeq, MoveOut(t, w, amount, timeout), UNCHANGED seq
      PROVE  StakeInv' /\ EveryRecordStep
  <2> DEFINE info == StakeInfo(t, w)
             release == seq + UnbondingDelay(timeout)
  <2>1. release \in Nat /\ release >= seq + MIN_UNBONDING_LEDGERS
    BY <1>0, StakeAssumption, LedgerAssumption DEF UnbondingDelay, Max2
  <2>2. amount <= Active(info) /\ SetStake(t, w, MoveToUnbonding(info, amount, release))
    BY <1>2 DEF MoveOut
  <2>3. InfoOK(info, seq)
    BY <1>0
  <2> HIDE DEF info, release
  <2>4. amount \in 1 .. Active(info)
    <3>1. Active(info) \in Nat
      BY <2>3, InfoFacts DEF Active
    <3>2. QED  BY <2>2, <3>1, StakeAssumption
  <2>5. RecordStep(info, MoveToUnbonding(info, amount, release), seq, seq)
    BY <1>0, <2>1, <2>3, <2>4, MoveStep
  <2>6. QED  BY <1>2, <2>2, <2>5, StoredStep DEF info
<1>3. ASSUME NEW t \in Tokens, NEW w \in Workers, PayBucket(t, w), UNCHANGED seq
      PROVE  StakeInv' /\ EveryRecordStep
  <2> DEFINE info == StakeInfo(t, w)
             new == [info EXCEPT !.unbonding = 0, !.releaseAt = 0]
  <2>1. seq >= info.releaseAt /\ SetStake(t, w, new)
    BY <1>3 DEF PayBucket
  <2>2. InfoOK(info, seq)
    BY <1>0
  <2>3. RecordStep(info, new, seq, seq)
    BY <1>0, <2>1, <2>2, PayStep
  <2> HIDE DEF new
  <2>4. QED  BY <1>3, <2>1, <2>3, StoredStep
<1>4. ASSUME NEW t \in Tokens, NEW losers \in SUBSET Workers, NEW amount \in 1 .. MaxStake,
             stake' = [stake EXCEPT ![t] = StakesAfterSlash(t, losers, amount)], UNCHANGED seq
      PROVE  StakeInv' /\ EveryRecordStep
  <2> DEFINE after == StakesAfterSlash(t, losers, amount)
  <2>1. \A w \in Workers : RecordStep(stake[t][w], after[w], seq, seq)
    BY StakesSlashed, StakeAssumption
  <2>2. after = [w \in Workers |-> after[w]]
    BY DEF StakesAfterSlash
  <2> HIDE DEF after
  <2>3. after \in [Workers -> StakeInfoType]
    BY <2>1, <2>2 DEF RecordStep, InfoOK
  <2>4. ASSUME NEW u \in Tokens, NEW w \in Workers
        PROVE  RecordStep(stake[u][w], stake'[u][w], seq, seq)
    <3>1. stake'[u] = IF u = t THEN after ELSE stake[u]
      BY <1>4 DEF StakeInv, after
    <3>2. RecordStep(stake[u][w], stake[u][w], seq, seq)
      BY <1>0, StillStep
    <3>3. QED  BY <2>1, <3>1, <3>2
  <2>5. stake' \in [Tokens -> [Workers -> StakeInfoType]]
    BY <1>4, <2>3 DEF StakeInv, after
  <2>6. QED  BY <1>4, <2>4, <2>5 DEF StakeInv, EveryRecordStep, RecordStep
<1>5. ASSUME Tick, UNCHANGED stake
      PROVE  StakeInv' /\ EveryRecordStep
  <2>1. \A t \in Tokens, w \in Workers : RecordStep(stake[t][w], stake[t][w], seq, seq + 1)
    BY <1>0, StillStep
  <2>2. QED  BY <1>0, <1>5, <2>1 DEF StakeInv, EveryRecordStep, RecordStep, Tick
<1>6. ASSUME UNCHANGED stakeVars
      PROVE  StakeInv' /\ EveryRecordStep
  <2>1. \A t \in Tokens, w \in Workers : RecordStep(stake[t][w], stake[t][w], seq, seq)
    BY <1>0, StillStep
  <2>2. QED  BY <1>0, <1>6, <2>1 DEF StakeInv, EveryRecordStep, RecordStep, stakeVars
<1>7. QED  BY <1>1, <1>2, <1>3, <1>4, <1>5, <1>6 DEF StakeNext

\* The records stay well formed.
LEMMA StakeInvHolds ==
  StakeSpec => []StakeInv
<1>1. StakeInv /\ [StakeNext]_stakeVars => StakeInv'
  BY StakeNextStep
<1>2. QED  BY <1>1, StakeInitOK, PTL DEF StakeSpec

\* Records keep their types: amounts never go below zero, whatever is taken.
THEOREM StakesAreTyped ==
  StakeSpec => []StakeTypeOK
<1>1. StakeInv => StakeTypeOK
  BY DEF StakeInv, StakeTypeOK
<1>2. QED  BY <1>1, StakeInvHolds, PTL

\* `warming` is always what the tranches add up to, the oldest first and none
\* empty, also after drain_warming() took from the end.
THEOREM WarmingIsItsTranches ==
  StakeSpec => []WarmingIsTranches
<1>1. StakeInv => WarmingIsTranches
  BY DEF StakeInv, InfoOK, TranchesInOrder, WarmingIsTranches
<1>2. QED  BY <1>1, StakeInvHolds, PTL

\* No top-up, unstake or slash restarts a clock that was running (#194).
THEOREM MaturityIsNeverDelayed ==
  StakeSpec => MaturityNeverDelayed
<1> DEFINE Kept == \A t \in Tokens, w \in Workers :
             \A time \in seq' .. MaxSeq + STAKE_WARMUP_LEDGERS :
               MaturedBy(stake'[t][w], time)
                 >= Min2(MaturedBy(stake[t][w], time), Active(stake'[t][w]))
<1>1. StakeInv /\ [StakeNext]_stakeVars => Kept
  <2> SUFFICES ASSUME StakeInv, [StakeNext]_stakeVars, NEW t \in Tokens, NEW w \in Workers,
                      NEW time \in seq' .. MaxSeq + STAKE_WARMUP_LEDGERS
               PROVE  MaturedBy(stake'[t][w], time)
                        >= Min2(MaturedBy(stake[t][w], time), Active(stake'[t][w]))
    OBVIOUS
  <2>1. seq' \in Nat /\ KeepsSchedule(stake[t][w], stake'[t][w], seq')
    BY StakeNextStep DEF StakeInv, EveryRecordStep, RecordStep
  <2>2. time \in Nat /\ time >= seq'
    BY <2>1, LedgerAssumption, StakeAssumption
  <2>3. QED  BY <2>1, <2>2 DEF KeepsSchedule
<1>2. [][Kept]_stakeVars => MaturityNeverDelayed
  BY DEF MaturityNeverDelayed
<1>3. QED  BY <1>1, <1>2, StakeInvHolds, PTL DEF StakeSpec

\* Nothing a call does makes stake mature within the warm-up that starts now
\* (attack A3: staking just before answering).
THEOREM NothingMaturesEarly ==
  StakeSpec => NoEarlyMaturity
<1> DEFINE Kept == \A t \in Tokens, w \in Workers :
             \A time \in seq' .. seq + STAKE_WARMUP_LEDGERS - 1 :
               MaturedBy(stake'[t][w], time) <= MaturedBy(stake[t][w], time)
<1>1. StakeInv /\ [StakeNext]_stakeVars => Kept
  <2> SUFFICES ASSUME StakeInv, [StakeNext]_stakeVars, NEW t \in Tokens, NEW w \in Workers,
                      NEW time \in seq' .. seq + STAKE_WARMUP_LEDGERS - 1
               PROVE  MaturedBy(stake'[t][w], time) <= MaturedBy(stake[t][w], time)
    OBVIOUS
  <2>1. /\ seq \in Nat /\ seq' \in Nat
        /\ NothingEarly(stake[t][w], stake'[t][w], seq, seq')
    BY StakeNextStep DEF StakeInv, EveryRecordStep, RecordStep
  <2>2. time \in Nat /\ seq' <= time /\ time < seq + STAKE_WARMUP_LEDGERS
    BY <2>1, StakeAssumption
  <2>3. QED  BY <2>1, <2>2 DEF NothingEarly
<1>2. [][Kept]_stakeVars => NoEarlyMaturity
  BY DEF NoEarlyMaturity
<1>3. QED  BY <1>1, <1>2, StakeInvHolds, PTL DEF StakeSpec

\* Effective stake grows by waiting and by nothing else, and falls only when
\* active stake is taken: the rounding of get_effective_stake() never makes
\* waiting cost anything, not even when a tranche is rolled into settled.
THEOREM CredibilityIsEarned ==
  StakeSpec => EffectiveIsEarned
<1> DEFINE Kept == \A t \in Tokens, w \in Workers :
             LET before == Effective(stake[t][w], seq)
                 after  == Effective(stake'[t][w], seq')
             IN /\ seq' = seq => after <= before
                /\ Active(stake'[t][w]) >= Active(stake[t][w]) => after >= before
<1>1. StakeInv /\ [StakeNext]_stakeVars => Kept
  BY StakeNextStep DEF EveryRecordStep, RecordStep, Earned
<1>2. [][Kept]_stakeVars => EffectiveIsEarned
  BY DEF EffectiveIsEarned
<1>3. QED  BY <1>1, <1>2, StakeInvHolds, PTL DEF StakeSpec

\* Stake that is asked back stays slashable, and is paid no earlier than
\* MIN_UNBONDING_LEDGERS after anything was last added to the bucket.
THEOREM BucketsAreHeld ==
  StakeSpec => UnbondingIsHeld
<1> DEFINE Kept == \A t \in Tokens, w \in Workers :
             LET old == stake[t][w]  new == stake'[t][w]
             IN /\ new.unbonding > old.unbonding =>
                      /\ new.releaseAt >= seq + MIN_UNBONDING_LEDGERS
                      /\ Slashable(new) = Slashable(old)
                /\ old.unbonding > 0 /\ new.unbonding = 0 /\ Active(new) > 0 =>
                      seq >= old.releaseAt
<1>1. StakeInv /\ [StakeNext]_stakeVars => Kept
  BY StakeNextStep DEF EveryRecordStep, RecordStep, Held
<1>2. [][Kept]_stakeVars => UnbondingIsHeld
  BY DEF UnbondingIsHeld
<1>3. QED  BY <1>1, <1>2, StakeInvHolds, PTL DEF StakeSpec

-----------------------------------------------------------------------------
(* The leaderboard.  An update looks at one worker and at the entries      *)
(* already listed, so IsTop, which says who is not listed and how small    *)
(* their counts are, is what decides whether whoever comes in may displace *)
(* the last entry.  First, lists: the smallest index, removal, insertion.  *)

\* The smallest of some natural numbers.
LEMMA SmallestIsLeast ==
  ASSUME NEW S, S \subseteq Nat, S # {}
  PROVE  Min(S) \in S /\ \A y \in S : Min(S) <= y
<1> DEFINE R == OpToRel(<, Nat)
<1>1. IsWellFoundedOn(R, Nat)
  BY NatLessThanWellFounded, Zenon
<1>2. \A x, y \in Nat : <<y, x>> \in R <=> y < x
  BY DEF OpToRel
<1> HIDE DEF R
<1>3. PICK x \in S : \A y \in S : <<y, x>> \notin R
  BY <1>1, WFMin
<1>4. ASSUME NEW y \in S
      PROVE  x <= y
  <2>1. x \in Nat /\ y \in Nat /\ ~(y < x)
    BY <1>2, <1>3
  <2>2. QED  BY ONLY <2>1
<1>5. \E least \in S : \A y \in S : least =< y
  BY <1>4
<1>6. QED  BY ONLY <1>5 DEF Min

\* What RemoveAt() leaves, position by position.
LEMMA RemovedAt ==
  ASSUME NEW S, NEW s \in Seq(S), NEW i \in 1 .. Len(s), NEW t, t = RemoveAt(s, i)
  PROVE  /\ t \in Seq(S) /\ Len(t) = Len(s) - 1 /\ DOMAIN t = 1 .. Len(s) - 1
         /\ \A j \in 1 .. i - 1 : t[j] = s[j]
         /\ \A j \in i .. Len(s) - 1 : t[j] = s[j + 1]
<1> DEFINE left == SubSeq(s, 1, i - 1)
           right == SubSeq(s, i + 1, Len(s))
<1>1. /\ left \in Seq(S) /\ Len(left) = i - 1 /\ \A j \in 1 .. i - 1 : left[j] = s[j]
      /\ right \in Seq(S) /\ Len(right) = Len(s) - i
      /\ \A j \in 1 .. Len(s) - i : right[j] = s[i + j]
  OBVIOUS
<1>2. t = left \o right
  BY DEF RemoveAt
<1> HIDE DEF left, right
<1>3. t \in Seq(S) /\ Len(t) = Len(left) + Len(right)
  <2>1. left \in Seq(S) /\ right \in Seq(S)
    BY <1>1
  <2>2. QED  BY ONLY <1>2, <2>1
<1>4. Len(t) = Len(s) - 1
  BY <1>1, <1>3
<1>5. ASSUME NEW j \in 1 .. i - 1
      PROVE  t[j] = s[j]
  BY <1>1, <1>2
<1>6. ASSUME NEW j \in i .. Len(s) - 1
      PROVE  t[j] = s[j + 1]
  <2>1. t[j] = right[j - Len(left)]
    BY <1>1, <1>2
  <2>2. j - Len(left) = j - i + 1 /\ j - i + 1 \in 1 .. Len(s) - i
    BY <1>1
  <2>3. right[j - i + 1] = s[i + (j - i + 1)] /\ i + (j - i + 1) = j + 1
    BY <1>1, <2>2
  <2>4. QED  BY <2>1, <2>2, <2>3
<1>7. DOMAIN t = 1 .. Len(s) - 1
  BY ONLY <1>3, <1>4
<1>8. QED  BY <1>3, <1>4, <1>5, <1>6, <1>7, Zenon

IsInserted(t, S, s, i, e) ==
  /\ t \in Seq(S) /\ Len(t) = Len(s) + 1 /\ DOMAIN t = 1 .. Len(s) + 1
  /\ \A j \in 1 .. i - 1 : t[j] = s[j]
  /\ t[i] = e
  /\ \A j \in i + 1 .. Len(s) + 1 : t[j] = s[j - 1]

\* What InsertAt() makes, position by position.
LEMMA InsertedAt ==
  ASSUME NEW S, NEW s \in Seq(S), NEW i \in 1 .. Len(s) + 1, NEW e \in S
  PROVE  IsInserted(InsertAt(s, i, e), S, s, i, e)
<1> DEFINE left == SubSeq(s, 1, i - 1)
           mid == <<e>>
           right == SubSeq(s, i, Len(s))
<1>0. PICK t : t = InsertAt(s, i, e)
  OBVIOUS
<1>1. /\ left \in Seq(S) /\ Len(left) = i - 1 /\ \A j \in 1 .. i - 1 : left[j] = s[j]
      /\ mid \in Seq(S) /\ Len(mid) = 1 /\ mid[1] = e
      /\ right \in Seq(S) /\ Len(right) = Len(s) - i + 1
      /\ \A j \in 1 .. Len(s) - i + 1 : right[j] = s[i + j - 1]
  <2>1. left \in Seq(S) /\ Len(left) = i - 1 /\ \A j \in 1 .. i - 1 : left[j] = s[j]
    OBVIOUS
  <2>2. mid \in Seq(S) /\ Len(mid) = 1 /\ mid[1] = e
    OBVIOUS
  <2>3. right \in Seq(S) /\ Len(right) = Len(s) - i + 1
    OBVIOUS
  <2>4. \A j \in 1 .. Len(s) - i + 1 : right[j] = s[i + j - 1]
    OBVIOUS
  <2>5. QED  BY <2>1, <2>2, <2>3, <2>4
<1>2. t = (left \o mid) \o right
  BY <1>0 DEF InsertAt
<1> HIDE DEF left, mid, right
<1>3. PICK u : u = left \o mid
  OBVIOUS
<1>4. /\ u \in Seq(S) /\ Len(u) = i
      /\ \A j \in 1 .. i - 1 : u[j] = s[j]
      /\ u[i] = e
  <2>1. u \in Seq(S) /\ Len(u) = Len(left) + Len(mid)
    <3>1. left \in Seq(S) /\ mid \in Seq(S)
      BY <1>1
    <3>2. QED  BY ONLY <1>3, <3>1
  <2>2. Len(u) = i
    BY <1>1, <2>1
  <2>3. ASSUME NEW j \in 1 .. i - 1
        PROVE  u[j] = s[j]
    BY <1>1, <1>3
  <2>4. u[i] = mid[1]
    <3>1. left \in Seq(S) /\ mid = <<e>> /\ i = Len(left) + 1
      BY <1>1 DEF mid
    <3>2. u = Append(left, e)
      BY ONLY <1>3, <3>1
    <3>3. QED  BY <1>1, <3>1, <3>2
  <2>5. QED  BY <1>1, <2>1, <2>2, <2>3, <2>4
<1>5. t \in Seq(S) /\ Len(t) = Len(u) + Len(right)
  <2>1. u \in Seq(S) /\ right \in Seq(S) /\ t = u \o right
    BY <1>1, <1>2, <1>3, <1>4
  <2>2. QED  BY ONLY <2>1
<1>6. Len(t) = Len(s) + 1
  BY <1>1, <1>4, <1>5
<1>7. ASSUME NEW j \in 1 .. i
      PROVE  t[j] = u[j]
  BY <1>1, <1>2, <1>3, <1>4
<1>8. ASSUME NEW j \in i + 1 .. Len(s) + 1
      PROVE  t[j] = s[j - 1]
  <2>1. t[j] = right[j - Len(u)]
    BY <1>1, <1>2, <1>3, <1>4
  <2>2. j - Len(u) = j - i /\ j - i \in 1 .. Len(s) - i + 1
    BY <1>4
  <2>3. right[j - i] = s[i + (j - i) - 1] /\ i + (j - i) - 1 = j - 1
    BY <1>1, <2>2
  <2>4. QED  BY <2>1, <2>2, <2>3
<1>9. DOMAIN t = 1 .. Len(s) + 1
  BY ONLY <1>5, <1>6
<1>10. \A j \in 1 .. i - 1 : t[j] = s[j]
  BY <1>4, <1>7
<1>11. t[i] = e
  BY <1>4, <1>7
<1>12. IsInserted(t, S, s, i, e)
  BY <1>5, <1>6, <1>8, <1>9, <1>10, <1>11 DEF IsInserted
<1>13. QED  BY <1>0, <1>12
-----------------------------------------------------------------------------
(* One update.                                                             *)

Entry == [worker : Workers, count : Nat]

\* What BoardIsTop says, of any list and any counts.
IsTop(board, counts) ==
  /\ board \in Seq(Entry) /\ Len(board) <= LEADERBOARD_CAP
  /\ \A i, j \in 1 .. Len(board) : i < j => /\ board[i].count >= board[j].count
                                            /\ board[i].worker # board[j].worker
  /\ \A i \in 1 .. Len(board) : board[i].count = counts[board[i].worker]
  /\ \A v \in Workers : (\A i \in 1 .. Len(board) : board[i].worker # v) =>
        /\ Len(board) < LEADERBOARD_CAP => counts[v] = 0
        /\ \A i \in 1 .. Len(board) : counts[v] <= board[i].count

\* The list without its entry of a worker: sorted as before, and complete up to
\* that worker, whose own count is at least that of anyone who is not listed.
AreOthers(o, board, w, counts) ==
  /\ o \in Seq(Entry)
  /\ \/ o = board /\ \A i \in 1 .. Len(board) : board[i].worker # w
     \/ Len(o) = Len(board) - 1
  /\ \A i, j \in 1 .. Len(o) : i < j => /\ o[i].count >= o[j].count
                                        /\ o[i].worker # o[j].worker
  /\ \A i \in 1 .. Len(o) : o[i].worker # w /\ o[i].count = counts[o[i].worker]
  /\ \A v \in Workers : v # w /\ (\A i \in 1 .. Len(o) : o[i].worker # v) =>
        /\ \A i \in 1 .. Len(board) : board[i].worker # v
        /\ \A i \in 1 .. Len(o) : counts[v] <= o[i].count
        /\ o # board => counts[v] <= counts[w]

\* WithoutWorker() is that list.
LEMMA OthersLeft ==
  ASSUME NEW counts \in [Workers -> Nat], NEW board, IsTop(board, counts), NEW w \in Workers,
         NEW o, o = WithoutWorker(board, w)
  PROVE  AreOthers(o, board, w, counts)
<1> DEFINE own == {i \in DOMAIN board : board[i].worker = w}
<1>1. /\ board \in Seq(Entry) /\ Len(board) \in Nat /\ DOMAIN board = 1 .. Len(board)
      /\ \A i \in 1 .. Len(board) : board[i].worker \in Workers /\ board[i].count \in Nat
  <2>1. board \in Seq(Entry)
    BY DEF IsTop
  <2>2. \A i \in 1 .. Len(board) : board[i] \in Entry
    BY ONLY <2>1
  <2>3. Len(board) \in Nat /\ DOMAIN board = 1 .. Len(board)
    BY ONLY <2>1
  <2>4. QED  BY ONLY <2>1, <2>2, <2>3 DEF Entry
<1>2. CASE own = {}
  <2>1. o = board
    BY <1>2 DEF WithoutWorker
  <2>2. \A i \in 1 .. Len(board) : board[i].worker # w
    BY <1>1, <1>2
  <2>3. QED  BY <1>1, <2>1, <2>2 DEF IsTop, AreOthers
<1>3. CASE own # {}
  <2>1. PICK k : k = Min(own)
    OBVIOUS
  <2>2. k \in 1 .. Len(board) /\ board[k].worker = w
    <3>1. own \subseteq Nat
      BY <1>1
    <3>2. Min(own) \in own
      <4> HIDE DEF own
      <4>1. QED  BY <1>3, <3>1, SmallestIsLeast
    <3>3. QED  BY <1>1, <2>1, <3>2
  <2>3. o = RemoveAt(board, k)
    BY <1>3, <2>1 DEF WithoutWorker
  <2>4. /\ o \in Seq(Entry) /\ Len(o) = Len(board) - 1
        /\ \A j \in 1 .. k - 1 : o[j] = board[j]
        /\ \A j \in k .. Len(board) - 1 : o[j] = board[j + 1]
    <3>1. board \in Seq(Entry) /\ k \in 1 .. Len(board)
      BY <1>1, <2>2
    <3>2. QED  BY ONLY <2>3, <3>1, RemovedAt
  <2> HIDE DEF own
  <2>5. \A i, j \in 1 .. Len(board) : i < j => /\ board[i].count >= board[j].count
                                               /\ board[i].worker # board[j].worker
    BY DEF IsTop
  <2>6. ASSUME NEW i \in 1 .. Len(o)
        PROVE  /\ o[i] = board[IF i < k THEN i ELSE i + 1]
               /\ (IF i < k THEN i ELSE i + 1) \in 1 .. Len(board)
               /\ (IF i < k THEN i ELSE i + 1) # k
    BY <1>1, <2>2, <2>4
  <2>7. \A i, j \in 1 .. Len(o) : i < j => /\ o[i].count >= o[j].count
                                           /\ o[i].worker # o[j].worker
    <3>1. SUFFICES ASSUME NEW i \in 1 .. Len(o), NEW j \in 1 .. Len(o), i < j
                   PROVE  o[i].count >= o[j].count /\ o[i].worker # o[j].worker
      OBVIOUS
    <3>2. PICK a \in 1 .. Len(board), b \in 1 .. Len(board) :
             o[i] = board[a] /\ o[j] = board[b] /\ a < b
      <4>1. (IF i < k THEN i ELSE i + 1) < (IF j < k THEN j ELSE j + 1)
        BY <2>2, <2>4, <3>1
      <4>2. QED  BY <2>6, <4>1
    <3>3. QED  BY <2>5, <3>2
  <2>8. ASSUME NEW i \in 1 .. Len(o)
        PROVE  o[i].worker # w /\ o[i].count = counts[o[i].worker]
    <3>1. PICK a \in 1 .. Len(board) : o[i] = board[a] /\ a # k
      BY <2>6
    <3>2. board[a].worker # board[k].worker
      <4>1. a < k \/ k < a
        BY <1>1, <2>2, <3>1
      <4>2. QED  BY <2>2, <2>5, <4>1
    <3>3. QED  BY <2>2, <3>1, <3>2 DEF IsTop
  <2>9. ASSUME NEW v \in Workers, v # w, \A i \in 1 .. Len(o) : o[i].worker # v
        PROVE  /\ \A i \in 1 .. Len(board) : board[i].worker # v
               /\ \A i \in 1 .. Len(o) : counts[v] <= o[i].count
               /\ counts[v] <= counts[w]
    <3>1. ASSUME NEW i \in 1 .. Len(board)
          PROVE  board[i].worker # v
      <4>1. CASE i < k
        <5>1. i \in 1 .. Len(o) /\ o[i] = board[i]
          BY <1>1, <2>2, <2>4, <4>1
        <5>2. QED  BY <2>9, <5>1
      <4>2. CASE i = k
        BY <2>2, <2>9, <4>2
      <4>3. CASE i > k
        <5>1. i - 1 \in 1 .. Len(o) /\ o[i - 1] = board[(i - 1) + 1] /\ (i - 1) + 1 = i
          BY <1>1, <2>2, <2>4, <4>3
        <5>2. QED  BY <2>9, <5>1
      <4>4. QED  BY <1>1, <2>2, <4>1, <4>2, <4>3
    <3>2. \A i \in 1 .. Len(board) : counts[v] <= board[i].count
      BY <3>1 DEF IsTop
    <3>3. board[k].count = counts[w]
      BY <2>2 DEF IsTop
    <3>4. \A i \in 1 .. Len(o) : counts[v] <= o[i].count
      BY <2>6, <3>2
    <3>5. QED  BY <2>2, <3>1, <3>2, <3>3, <3>4
  <2>10. QED  BY <2>4, <2>7, <2>8, <2>9 DEF AreOthers
<1>4. QED  BY <1>2, <1>3
\* A list with one entry more, sorted again.
IsPlaced(t, o, e) ==
  /\ t \in Seq(Entry) /\ Len(t) = Len(o) + 1
  /\ \A i, j \in 1 .. Len(t) : i < j => /\ t[i].count >= t[j].count
                                        /\ t[i].worker # t[j].worker
  /\ \A i \in 1 .. Len(t) : \/ t[i] = e /\ (i <= Len(o) => o[i].count < e.count)
                            \/ \E j \in 1 .. Len(o) : t[i] = o[j]
  /\ \E i \in 1 .. Len(t) : t[i] = e
  /\ \A j \in 1 .. Len(o) : \E i \in 1 .. Len(t) : t[i] = o[j]

\* Inserting at PlaceFor() makes that list.
LEMMA EntryPlaced ==
  ASSUME NEW o \in Seq(Entry), NEW w \in Workers, NEW count \in Nat,
         \A i, j \in 1 .. Len(o) : i < j => /\ o[i].count >= o[j].count
                                            /\ o[i].worker # o[j].worker,
         \A i \in 1 .. Len(o) : o[i].worker # w,
         NEW t, t = InsertAt(o, PlaceFor(count, o), [worker |-> w, count |-> count])
  PROVE  IsPlaced(t, o, [worker |-> w, count |-> count])
<1> DEFINE smaller == {i \in DOMAIN o : o[i].count < count}
<1>1. PICK e : e = [worker |-> w, count |-> count]
  OBVIOUS
<1>2. e \in Entry /\ e.worker = w /\ e.count = count
  BY <1>1 DEF Entry
<1>3. /\ Len(o) \in Nat /\ DOMAIN o = 1 .. Len(o)
      /\ \A i \in 1 .. Len(o) : o[i].count \in Nat
  <2>1. \A i \in 1 .. Len(o) : o[i] \in Entry
    OBVIOUS
  <2>2. QED  BY <2>1 DEF Entry
<1>4. PICK p : p = PlaceFor(count, o)
  OBVIOUS
<1>5. /\ p \in 1 .. Len(o) + 1
      /\ p <= Len(o) => o[p].count < count
      /\ \A j \in 1 .. p - 1 : o[j].count >= count
  <2>1. CASE smaller = {}
    <3>1. p = Len(o) + 1
      BY <1>4, <2>1 DEF PlaceFor
    <3>2. \A j \in 1 .. Len(o) : o[j].count >= count
      BY <1>3, <2>1
    <3>3. QED  BY <1>3, <3>1, <3>2
  <2>2. CASE smaller # {}
    <3>1. p = Min(smaller)
      BY <1>4, <2>2 DEF PlaceFor
    <3>2. p \in smaller /\ \A j \in smaller : p <= j
      <4>1. smaller \subseteq Nat
        BY <1>3
      <4> HIDE DEF smaller
      <4>2. QED  BY <2>2, <3>1, <4>1, SmallestIsLeast
    <3>3. ASSUME NEW j \in 1 .. p - 1
          PROVE  o[j].count >= count
      <4>1. j \in 1 .. Len(o) /\ ~(p <= j)
        BY <1>3, <3>2
      <4>2. j \notin smaller
        BY <3>2, <4>1
      <4>3. QED  BY <1>3, <4>1, <4>2
    <3>4. QED  BY <1>3, <3>2, <3>3
  <2>3. QED  BY <2>1, <2>2
<1> HIDE DEF smaller
<1>6. /\ t \in Seq(Entry) /\ Len(t) = Len(o) + 1
      /\ \A j \in 1 .. p - 1 : t[j] = o[j]
      /\ t[p] = e
      /\ \A j \in p + 1 .. Len(o) + 1 : t[j] = o[j - 1]
  <2>1. t = InsertAt(o, p, e)
    BY <1>1, <1>4
  <2>2. o \in Seq(Entry) /\ p \in 1 .. Len(o) + 1 /\ e \in Entry
    BY <1>2, <1>5
  <2>3. IsInserted(t, Entry, o, p, e)
    BY ONLY <2>1, <2>2, InsertedAt
  <2>4. QED  BY <2>3 DEF IsInserted
<1>7. ASSUME NEW i \in 1 .. Len(t), i # p
      PROVE  /\ (IF i < p THEN i ELSE i - 1) \in 1 .. Len(o)
             /\ t[i] = o[IF i < p THEN i ELSE i - 1]
  BY <1>3, <1>5, <1>6, <1>7
<1>8. ASSUME NEW i \in 1 .. Len(t), NEW j \in 1 .. Len(t), i < j
      PROVE  t[i].count >= t[j].count /\ t[i].worker # t[j].worker
  <2>1. CASE i = p
    <3>1. j - 1 \in 1 .. Len(o) /\ t[j] = o[j - 1] /\ p <= j - 1 /\ p \in 1 .. Len(o)
      <4>1. Len(o) \in Nat /\ Len(t) = Len(o) + 1 /\ p \in Nat \ {0} /\ p < j /\ j \in 1 .. Len(t)
        BY <1>5, <1>6, <1>8, <2>1
      <4>2. /\ j - 1 \in 1 .. Len(o) /\ p <= j - 1 /\ p \in 1 .. Len(o)
            /\ j \in p + 1 .. Len(o) + 1
        BY ONLY <4>1
      <4>3. QED  BY <1>6, <4>2
    <3>2. o[p].count >= o[j - 1].count
      <4>1. /\ p \in 1 .. Len(o) /\ j - 1 \in 1 .. Len(o)
            /\ p = j - 1 \/ p < j - 1
            /\ o[j - 1].count \in Nat
        BY <1>3, <3>1
      <4>2. \A k, l \in 1 .. Len(o) : k < l => o[k].count >= o[l].count
        OBVIOUS
      <4>3. QED  BY ONLY <4>1, <4>2
    <3>3. o[p].count < count
      BY <1>5, <3>1
    <3>4. QED  BY <1>2, <1>3, <1>6, <2>1, <3>1, <3>2, <3>3
  <2>2. CASE j = p
    <3>1. i \in 1 .. p - 1 /\ i \in 1 .. Len(o) /\ t[i] = o[i]
      BY <1>3, <1>5, <1>6, <1>8, <2>2
    <3>2. QED  BY <1>2, <1>5, <1>6, <2>2, <3>1
  <2>3. CASE i # p /\ j # p
    <3>1. PICK a \in 1 .. Len(o), b \in 1 .. Len(o) : t[i] = o[a] /\ t[j] = o[b] /\ a < b
      <4>1. (IF i < p THEN i ELSE i - 1) < (IF j < p THEN j ELSE j - 1)
        BY <1>5, <1>6, <1>8, <2>3
      <4>2. QED  BY <1>7, <2>3, <4>1
    <3>2. QED  BY <3>1
  <2>4. QED  BY <2>1, <2>2, <2>3
<1>9. ASSUME NEW i \in 1 .. Len(t)
      PROVE  \/ t[i] = e /\ (i <= Len(o) => o[i].count < count)
             \/ \E j \in 1 .. Len(o) : t[i] = o[j]
  BY <1>5, <1>6, <1>7
<1>10. ASSUME NEW j \in 1 .. Len(o)
       PROVE  \E i \in 1 .. Len(t) : t[i] = o[j]
  <2>1. CASE j < p
    <3>1. j \in 1 .. p - 1 /\ j \in 1 .. Len(t)
      BY <1>3, <1>5, <1>6, <2>1
    <3>2. QED  BY <1>6, <3>1
  <2>2. CASE ~(j < p)
    <3>1. j + 1 \in p + 1 .. Len(o) + 1 /\ j + 1 \in 1 .. Len(t) /\ (j + 1) - 1 = j
      BY <1>3, <1>5, <1>6, <2>2
    <3>2. t[j + 1] = o[j]
      BY <1>6, <3>1
    <3>3. QED  BY <3>1, <3>2
  <2>3. QED  BY <2>1, <2>2
<1>11. \E i \in 1 .. Len(t) : t[i] = e
  BY <1>3, <1>5, <1>6
<1>12. QED  BY <1>1, <1>2, <1>6, <1>8, <1>9, <1>10, <1>11 DEF IsPlaced
\* One worker's count goes up by one.
IsCredit(counts, after, w) ==
  /\ counts \in [Workers -> Nat] /\ after \in [Workers -> Nat] /\ w \in Workers
  /\ after[w] = counts[w] + 1
  /\ \A v \in Workers : v # w => after[v] = counts[v]

\* One credit leaves the board at the top of the counts it makes.
LEMMA RankedKeepsTop ==
  ASSUME NEW counts, NEW board, NEW w, NEW after, IsTop(board, counts), IsCredit(counts, after, w)
  PROVE  IsTop(Ranked(board, w, after[w]), after)
<1> DEFINE count == counts[w] + 1
           e == [worker |-> w, count |-> count]
<1> counts \in [Workers -> Nat] /\ after \in [Workers -> Nat] /\ w \in Workers
  BY DEF IsCredit
<1> after[w] = count /\ \A v \in Workers : v # w => after[v] = counts[v]
  BY DEF IsCredit
<1>1. PICK o : o = WithoutWorker(board, w)
  OBVIOUS
<1>2. PICK t : t = InsertAt(o, PlaceFor(count, o), e)
  OBVIOUS
<1>3. /\ o \in Seq(Entry)
      /\ \/ o = board /\ \A i \in 1 .. Len(board) : board[i].worker # w
         \/ Len(o) = Len(board) - 1
      /\ \A i, j \in 1 .. Len(o) : i < j => /\ o[i].count >= o[j].count
                                            /\ o[i].worker # o[j].worker
      /\ \A i \in 1 .. Len(o) : o[i].worker # w /\ o[i].count = counts[o[i].worker]
      /\ \A v \in Workers : v # w /\ (\A i \in 1 .. Len(o) : o[i].worker # v) =>
            /\ \A i \in 1 .. Len(board) : board[i].worker # v
            /\ \A i \in 1 .. Len(o) : counts[v] <= o[i].count
            /\ o # board => counts[v] <= counts[w]
  <2>1. counts \in [Workers -> Nat] /\ IsTop(board, counts) /\ w \in Workers
    OBVIOUS
  <2>2. AreOthers(o, board, w, counts)
    BY ONLY <1>1, <2>1, OthersLeft
  <2>3. QED  BY <2>2 DEF AreOthers
<1>4. counts[w] \in Nat /\ count \in Nat
  OBVIOUS
<1>5. /\ t \in Seq(Entry) /\ Len(t) = Len(o) + 1
      /\ \A i, j \in 1 .. Len(t) : i < j => /\ t[i].count >= t[j].count
                                            /\ t[i].worker # t[j].worker
      /\ \A i \in 1 .. Len(t) : \/ t[i] = e /\ (i <= Len(o) => o[i].count < count)
                                \/ \E j \in 1 .. Len(o) : t[i] = o[j]
      /\ \E i \in 1 .. Len(t) : t[i] = e
      /\ \A j \in 1 .. Len(o) : \E i \in 1 .. Len(t) : t[i] = o[j]
  <2>1. /\ o \in Seq(Entry) /\ w \in Workers /\ count \in Nat
        /\ \A i, j \in 1 .. Len(o) : i < j => /\ o[i].count >= o[j].count
                                              /\ o[i].worker # o[j].worker
        /\ \A i \in 1 .. Len(o) : o[i].worker # w
    BY <1>3, <1>4
  <2> HIDE DEF count
  <2>2. IsPlaced(t, o, e)
    BY ONLY <1>2, <2>1, EntryPlaced
  <2>3. QED  BY <2>2 DEF IsPlaced
<1> HIDE DEF count
<1>6. /\ Len(o) \in Nat /\ Len(board) \in Nat /\ LEADERBOARD_CAP \in Nat \ {0}
      /\ Len(board) <= LEADERBOARD_CAP
      /\ \A i \in 1 .. Len(o) : o[i].worker \in Workers /\ o[i].count \in Nat
      /\ \A i \in 1 .. Len(t) : t[i].worker \in Workers /\ t[i].count \in Nat
  <2>1. board \in Seq(Entry) /\ Len(board) <= LEADERBOARD_CAP
    BY DEF IsTop
  <2>2. \A i \in 1 .. Len(o) : o[i] \in Entry
    BY ONLY <1>3
  <2>3. \A i \in 1 .. Len(t) : t[i] \in Entry
    BY ONLY <1>5
  <2>4. Len(o) \in Nat /\ Len(board) \in Nat
    BY ONLY <1>3, <2>1
  <2>5. QED  BY <2>1, <2>2, <2>3, <2>4, RankingAssumption DEF Entry
<1>7. e.worker = w /\ e.count = count
  OBVIOUS
<1>8. \A i \in 1 .. Len(t) : t[i].count = after[t[i].worker]
  <2>1. SUFFICES ASSUME NEW i \in 1 .. Len(t) PROVE t[i].count = after[t[i].worker]
    OBVIOUS
  <2>2. CASE t[i] = e
    BY <1>7, <2>2 DEF count
  <2>3. ASSUME NEW j \in 1 .. Len(o), t[i] = o[j]
        PROVE  t[i].count = after[t[i].worker]
    BY <1>3, <1>6, <2>3
  <2>4. QED  BY <1>5, <2>2, <2>3
\* A worker missing from the list before the cut.
<1>9. ASSUME NEW v \in Workers, \A i \in 1 .. Len(t) : t[i].worker # v
      PROVE  /\ v # w
             /\ \A i \in 1 .. Len(board) : board[i].worker # v
             /\ \A i \in 1 .. Len(o) : counts[v] <= o[i].count
             /\ o # board => counts[v] <= counts[w]
  <2>1. v # w
    BY <1>5, <1>7, <1>9
  <2>2. \A j \in 1 .. Len(o) : o[j].worker # v
    BY <1>5, <1>9
  <2>3. QED  BY <1>3, <2>1, <2>2
<1>10. CASE Len(t) <= LEADERBOARD_CAP
  <2>1. Ranked(board, w, count) = t
    <3>1. SubSeq(t, 1, Len(t)) = t
      BY ONLY <1>5
    <3>2. ~(Len(t) > LEADERBOARD_CAP)
      BY <1>5, <1>6, <1>10
    <3>3. QED  BY <1>1, <1>2, <3>1, <3>2 DEF Ranked
  <2>2. ASSUME NEW v \in Workers, \A i \in 1 .. Len(t) : t[i].worker # v
        PROVE  /\ Len(t) < LEADERBOARD_CAP => after[v] = 0
               /\ \A i \in 1 .. Len(t) : after[v] <= t[i].count
    <3>1. /\ v # w /\ after[v] = counts[v] /\ counts[v] \in Nat
          /\ \A i \in 1 .. Len(board) : board[i].worker # v
          /\ \A i \in 1 .. Len(o) : counts[v] <= o[i].count
          /\ o # board => counts[v] <= counts[w]
      BY <1>9, <2>2
    <3>2. Len(board) < LEADERBOARD_CAP => counts[v] = 0
      BY <3>1 DEF IsTop
    <3>3. Len(t) < LEADERBOARD_CAP => after[v] = 0
      <4>1. Len(t) < LEADERBOARD_CAP => Len(board) < LEADERBOARD_CAP
        BY <1>3, <1>5, <1>6
      <4>2. QED  BY <3>1, <3>2, <4>1
    <3>4. counts[v] <= count
      <4>1. CASE o = board
        <5>1. Len(board) < LEADERBOARD_CAP
          BY <1>5, <1>6, <1>10, <4>1
        <5>2. QED  BY <1>4, <3>2, <5>1
      <4>2. CASE o # board
        BY <1>4, <3>1, <4>2 DEF count
      <4>3. QED  BY <4>1, <4>2
    <3>5. QED  BY <1>5, <1>7, <3>1, <3>3, <3>4
  <2>3. IsTop(t, after)
    BY <1>5, <1>8, <1>10, <2>2 DEF IsTop
  <2>4. QED  BY <2>1, <2>3 DEF count
<1>11. CASE ~(Len(t) <= LEADERBOARD_CAP)
  <2>1. o = board /\ Len(board) = LEADERBOARD_CAP /\ Len(t) = LEADERBOARD_CAP + 1
    BY <1>3, <1>5, <1>6, <1>11
  <2>2. PICK r : r = SubSeq(t, 1, LEADERBOARD_CAP)
    OBVIOUS
  <2>3. Ranked(board, w, count) = r
    <3>1. Len(t) > LEADERBOARD_CAP /\ Len(t) - 1 = LEADERBOARD_CAP
      <4>1. LEADERBOARD_CAP \in Int
        BY ONLY <1>6
      <4>2. QED  BY ONLY <2>1, <4>1
    <3>2. QED  BY <1>1, <1>2, <2>2, <3>1 DEF Ranked
  <2>4. /\ r \in Seq(Entry) /\ Len(r) = LEADERBOARD_CAP
        /\ \A i \in 1 .. LEADERBOARD_CAP : r[i] = t[i]
    BY <1>5, <1>6, <2>1, <2>2
  <2>5. \A i \in 1 .. LEADERBOARD_CAP : i \in 1 .. Len(t) /\ i < Len(t) /\ i \in 1 .. Len(o)
    BY <1>6, <2>1
  <2>6. Len(t) \in 1 .. Len(t)
    BY <1>6, <2>1
  <2>7. ASSUME NEW v \in Workers, \A i \in 1 .. Len(r) : r[i].worker # v
        PROVE  \A i \in 1 .. Len(r) : after[v] <= r[i].count
    <3>1. CASE t[Len(t)].worker = v
      <4>1. after[v] = t[Len(t)].count
        BY <1>8, <2>6, <3>1
      <4>2. \A i \in 1 .. LEADERBOARD_CAP : t[i].count >= t[Len(t)].count
        BY <1>5, <2>5, <2>6
      <4>3. QED  BY <1>6, <2>4, <2>5, <2>6, <4>1, <4>2
    <3>2. CASE t[Len(t)].worker # v
      <4>1. \A i \in 1 .. Len(t) : t[i].worker # v
        <5>1. SUFFICES ASSUME NEW i \in 1 .. Len(t) PROVE t[i].worker # v
          OBVIOUS
        <5>2. i = Len(t) \/ i \in 1 .. LEADERBOARD_CAP
          BY <1>6, <2>1
        <5>3. QED  BY <2>4, <2>7, <3>2, <5>2
      <4>2. v # w /\ after[v] = counts[v] /\ counts[v] \in Nat
            /\ \A i \in 1 .. Len(o) : counts[v] <= o[i].count
        BY <1>9, <4>1
      <4>3. ASSUME NEW i \in 1 .. LEADERBOARD_CAP
            PROVE  counts[v] <= t[i].count
        <5>1. CASE t[i] = e /\ o[i].count < count
          <6>1. counts[v] <= o[i].count /\ o[i].count \in Nat
            BY <1>6, <2>5, <4>2
          <6>2. QED  BY <1>4, <1>7, <4>2, <5>1, <6>1
        <5>2. CASE \E j \in 1 .. Len(o) : t[i] = o[j]
          BY <4>2, <5>2
        <5>3. i \in 1 .. Len(t) /\ i <= Len(o)
          BY <1>6, <2>1
        <5>4. QED  BY <1>5, <5>1, <5>2, <5>3
      <4>4. QED  BY <2>4, <4>2, <4>3
    <3>3. QED  BY <3>1, <3>2
  <2>8. \A i, j \in 1 .. Len(r) : i < j => /\ r[i].count >= r[j].count
                                           /\ r[i].worker # r[j].worker
    BY <1>5, <2>4, <2>5
  <2>9. \A i \in 1 .. Len(r) : r[i].count = after[r[i].worker]
    BY <1>8, <2>4, <2>5
  <2>10. IsTop(r, after)
    <3>1. Len(r) <= LEADERBOARD_CAP /\ ~(Len(r) < LEADERBOARD_CAP)
      BY <1>6, <2>4
    <3>2. r \in Seq(Entry)
      BY <2>4
    <3>3. QED  BY ONLY <2>7, <2>8, <2>9, <3>1, <3>2 DEF IsTop
  <2>11. QED  BY <2>3, <2>10 DEF count
<1>12. QED  BY <1>10, <1>11
-----------------------------------------------------------------------------
(* The fold over the credited workers, as a recursive function over the    *)
(* subsets of their positions.                                             *)

IsBoardTable(g, board, counts, workers, S) ==
  g = [s \in SUBSET S |->
         IF s = {} THEN board
         ELSE Ranked(g[s \ {Max(s)}], workers[Max(s)], counts[workers[Max(s)]] + 1)]

BoardTable(board, counts, workers, S) == CHOOSE g : IsBoardTable(g, board, counts, workers, S)

BoardAfter(board, counts, workers) ==
  FoldLeft(LAMBDA b, w : Ranked(b, w, counts[w] + 1), board, workers)

\* What the community module's fold does with a list is that table.
LEMMA BoardIsTable ==
  ASSUME NEW board, NEW counts, NEW workers
  PROVE  BoardAfter(board, counts, workers)
           = BoardTable(board, counts, workers, DOMAIN workers)[DOMAIN workers]
BY DEF BoardAfter, FoldLeft, MapThenFoldSet, BoardTable, IsBoardTable

\* The largest of some positions is one of them.
LEMMA LargestIsOne ==
  ASSUME NEW N \in Nat, NEW S, S \subseteq 1 .. N, S # {}
  PROVE  Max(S) \in S
<1> DEFINE D == {N - i : i \in S}
<1>1. D \subseteq Nat /\ D # {}
  <2>1. \A i \in S : i \in 1 .. N
    OBVIOUS
  <2>2. \A i \in 1 .. N : N - i \in Nat
    OBVIOUS
  <2>3. QED  BY ONLY <2>1, <2>2, S # {}
<1>2. PICK d \in D : \A y \in D : d <= y
  <2> HIDE DEF D
  <2>1. QED  BY <1>1, SmallestIsLeast
<1>3. PICK x \in S : d = N - x
  OBVIOUS
<1>4. ASSUME NEW y \in S
      PROVE  x >= y
  <2>1. N - y \in D /\ x \in Int /\ y \in Int
    <3>1. x \in 1 .. N /\ y \in 1 .. N
      OBVIOUS
    <3>2. QED  BY ONLY <3>1, y \in S
  <2>2. N - x <= N - y
    BY <1>2, <1>3, <2>1
  <2>3. QED  BY ONLY <2>1, <2>2, N \in Nat
<1>5. \E largest \in S : \A y \in S : largest >= y
  BY <1>4
<1>6. QED  BY ONLY <1>5 DEF Max
AgreeAt(g, h, R) == g[R] = h[R]

\* Tables for the same list agree where both are defined.
LEMMA BoardTableUnique ==
  ASSUME NEW board, NEW counts, NEW workers, NEW N \in Nat, NEW S, S \in SUBSET (1 .. N),
         NEW R, R \in SUBSET S, NEW g, NEW h,
         IsBoardTable(g, board, counts, workers, S), IsBoardTable(h, board, counts, workers, R)
  PROVE  AgreeAt(g, h, R)
<1> DEFINE F == {s \in SUBSET R : g[s] = h[s]}
<1>1. ASSUME NEW s \in SUBSET R, \A r \in SUBSET s : r # s => r \in F
      PROVE  s \in F
  <2>1. CASE s = {}
    <3>1. g[s] = board /\ h[s] = board
      BY <2>1 DEF IsBoardTable
    <3>2. QED  BY <3>1
  <2>2. CASE s # {}
    <3>1. PICK m : m = Max(s)
      OBVIOUS
    <3>2. m \in s
      BY <2>2, <3>1, LargestIsOne
    <3>3. g[s \ {m}] = h[s \ {m}]
      BY <1>1, <3>2
    <3>4. g[s] = Ranked(g[s \ {m}], workers[m], counts[workers[m]] + 1)
      BY <2>2, <3>1 DEF IsBoardTable
    <3>5. h[s] = Ranked(h[s \ {m}], workers[m], counts[workers[m]] + 1)
      BY <2>2, <3>1 DEF IsBoardTable
    <3>6. QED  BY <3>3, <3>4, <3>5
  <2>3. QED  BY <2>1, <2>2
<1>2. IsFiniteSet(R)
  <2>1. IsFiniteSet(1 .. N) /\ R \subseteq 1 .. N
    BY FS_Interval
  <2>2. QED  BY ONLY <2>1, FS_Subset
<1>3. \A s \in SUBSET R : s \in F
  <2> HIDE DEF F
  <2>1. QED  BY <1>1, <1>2, StrongSubsetInduction
<1>4. QED  BY <1>3 DEF AgreeAt

\* Every set of positions has a table.
LEMMA BoardTableExists ==
  ASSUME NEW board, NEW counts, NEW workers, NEW N \in Nat, NEW S, S \subseteq 1 .. N
  PROVE  IsBoardTable(BoardTable(board, counts, workers, S), board, counts, workers, S)
<1> DEFINE Table(s) == BoardTable(board, counts, workers, s)
           IsTable(g, s) == IsBoardTable(g, board, counts, workers, s)
           Step(b, m) == Ranked(b, workers[m], counts[workers[m]] + 1)
           F == {s \in SUBSET S : IsTable(Table(s), s)}
<1>1. ASSUME NEW s \in SUBSET S, \A r \in SUBSET s : r # s => r \in F
      PROVE  s \in F
  <2> DEFINE g == [r \in SUBSET s |->
                     IF r = {} THEN board
                     ELSE Step(Table(r \ {Max(r)})[r \ {Max(r)}], Max(r))]
  <2>1. ASSUME NEW r \in SUBSET s, r # s
        PROVE  g[r] = Table(r)[r]
    <3>1. IsTable(Table(r), r)
      BY <1>1, <2>1
    <3>2. CASE r = {}
      BY <3>1, <3>2 DEF IsBoardTable
    <3>3. CASE r # {}
      <4>1. PICK m : m = Max(r)
        OBVIOUS
      <4>2. m \in r
        BY <3>3, <4>1, LargestIsOne
      <4>3. r \ {m} \in SUBSET s /\ r \ {m} # s
        BY <2>1, <4>2
      <4>4. IsTable(Table(r \ {m}), r \ {m})
        BY <1>1, <4>3
      <4>5. Table(r)[r \ {m}] = Table(r \ {m})[r \ {m}]
        <5>1. PICK a, b, q : a = Table(r) /\ b = Table(r \ {m}) /\ q = r \ {m}
          OBVIOUS
        <5>2. r \in SUBSET (1 .. N) /\ q \in SUBSET r
          BY <5>1
        <5>3. /\ IsBoardTable(a, board, counts, workers, r)
              /\ IsBoardTable(b, board, counts, workers, q)
          BY <3>1, <4>4, <5>1
        <5>4. AgreeAt(a, b, q)
          BY ONLY <5>2, <5>3, N \in Nat, BoardTableUnique
        <5>5. QED  BY <5>1, <5>4 DEF AgreeAt
      <4>6. Table(r)[r] = Step(Table(r)[r \ {m}], m)
        BY <3>1, <3>3, <4>1 DEF IsBoardTable
      <4>7. g[r] = Step(Table(r \ {m})[r \ {m}], m)
        BY <3>3, <4>1
      <4>8. QED  BY <4>5, <4>6, <4>7
    <3>4. QED  BY <3>2, <3>3
  <2>2. ASSUME NEW r \in SUBSET s
        PROVE  g[r] = IF r = {} THEN board ELSE Step(g[r \ {Max(r)}], Max(r))
    <3>1. CASE r = {}
      BY <3>1
    <3>2. CASE r # {}
      <4>1. PICK m : m = Max(r)
        OBVIOUS
      <4>2. m \in r
        BY <3>2, <4>1, LargestIsOne
      <4>3. r \ {m} \in SUBSET s /\ r \ {m} # s
        BY <4>2
      <4>4. g[r \ {m}] = Table(r \ {m})[r \ {m}]
        BY <2>1, <4>3
      <4>5. g[r] = Step(Table(r \ {m})[r \ {m}], m)
        BY <3>2, <4>1
      <4>6. QED  BY <3>2, <4>1, <4>4, <4>5
    <3>3. QED  BY <3>1, <3>2
  <2>3. IsTable(g, s)
    <3>1. g = [r \in SUBSET s |-> g[r]]
      OBVIOUS
    <3> HIDE DEF g
    <3>2. QED  BY <2>2, <3>1 DEF IsBoardTable
  <2>4. IsTable(Table(s), s)
    <3> HIDE DEF g
    <3>1. QED  BY <2>3 DEF BoardTable
  <2>5. QED  BY <2>4
<1>2. IsFiniteSet(S)
  <2>1. IsFiniteSet(1 .. N)
    BY FS_Interval
  <2>2. QED  BY ONLY <2>1, S \subseteq 1 .. N, FS_Subset
<1>3. \A s \in SUBSET S : s \in F
  <2> HIDE DEF F
  <2>1. QED  BY <1>1, <1>2, StrongSubsetInduction
<1>4. QED  BY <1>3

\* Crediting workers one after the other, each once, leaves the board at the
\* top of the counts they end up with.
LEMMA CreditedBoardIsTop ==
  ASSUME NEW counts \in [Workers -> Nat], NEW board, IsTop(board, counts),
         NEW workers \in Seq(Workers),
         \A i, j \in DOMAIN workers : workers[i] = workers[j] => i = j,
         NEW after \in [Workers -> Nat],
         \A v \in Workers : after[v] = counts[v] + (IF v \in Range(workers) THEN 1 ELSE 0)
  PROVE  IsTop(BoardAfter(board, counts, workers), after)
<1> DEFINE N == Len(workers)
           credited(k) == [v \in Workers |-> IF \E j \in 1 .. k : workers[j] = v
                                               THEN counts[v] + 1 ELSE counts[v]]
<1>1. N \in Nat /\ DOMAIN workers = 1 .. N /\ \A i \in 1 .. N : workers[i] \in Workers
  OBVIOUS
<1> HIDE DEF N
<1>2. PICK T : T = BoardTable(board, counts, workers, 1 .. N)
  OBVIOUS
<1>3. IsBoardTable(T, board, counts, workers, 1 .. N)
  BY <1>1, <1>2, BoardTableExists
<1>4. T[{}] = board
  BY <1>3 DEF IsBoardTable
<1>5. ASSUME NEW k \in 1 .. N
      PROVE  T[1 .. k] = Ranked(T[1 .. k - 1], workers[k], counts[workers[k]] + 1)
  <2>1. Max(1 .. k) = k
    <3>1. k \in Nat /\ k \in 1 .. k
      BY <1>1
    <3>2. \A y \in 1 .. k : k >= y
      BY ONLY <3>1
    <3>3. ASSUME NEW x \in 1 .. k, x >= k
          PROVE  x = k
      BY ONLY <3>1, <3>3
    <3>4. QED  BY ONLY <3>1, <3>2, <3>3 DEF Max
  <2>2. (1 .. k) \ {k} = 1 .. k - 1 /\ 1 .. k # {} /\ 1 .. k \in SUBSET (1 .. N)
    BY <1>1
  <2>3. ASSUME NEW s \in SUBSET (1 .. N), s # {}
        PROVE  T[s] = Ranked(T[s \ {Max(s)}], workers[Max(s)], counts[workers[Max(s)]] + 1)
    BY <1>3, <2>3 DEF IsBoardTable
  <2>4. PICK s : s = 1 .. k
    OBVIOUS
  <2>5. T[s] = Ranked(T[s \ {k}], workers[k], counts[workers[k]] + 1)
    BY <2>1, <2>2, <2>3, <2>4
  <2>6. QED  BY <2>2, <2>4, <2>5
<1> DEFINE K == {k \in Nat : k <= N => IsTop(T[1 .. k], credited(k))}
<1>6. 0 \in K
  <2>1. 1 .. 0 = {}
    OBVIOUS
  <2>2. credited(0) = counts
    OBVIOUS
  <2>3. QED  BY <1>4, <2>1, <2>2
<1>7. ASSUME NEW k \in K
      PROVE  k + 1 \in K
  <2>1. SUFFICES ASSUME k + 1 <= N
                 PROVE  IsTop(T[1 .. k + 1], credited(k + 1))
    OBVIOUS
  <2>2. k \in Nat /\ k <= N /\ k + 1 \in 1 .. N
    BY <1>1, <2>1
  <2>3. IsTop(T[1 .. k], credited(k))
    BY <2>2
  <2>4. PICK w : w = workers[k + 1]
    OBVIOUS
  <2>5. w \in Workers /\ counts[w] \in Nat
    BY <1>1, <2>2, <2>4
  <2>6. \A j \in 1 .. k : workers[j] # w
    <3>1. SUFFICES ASSUME NEW j \in 1 .. k PROVE workers[j] # w
      OBVIOUS
    <3>2. j \in 1 .. N /\ j # k + 1
      BY <1>1, <2>2
    <3>3. QED  BY <1>1, <2>2, <2>4, <3>2
  <2>7. credited(k) \in [Workers -> Nat] /\ credited(k + 1) \in [Workers -> Nat]
    OBVIOUS
  <2>8. credited(k)[w] = counts[w] /\ credited(k + 1)[w] = counts[w] + 1
    <3>1. k + 1 \in 1 .. k + 1
      BY <2>2
    <3>2. QED  BY <2>4, <2>5, <2>6, <3>1
  <2>9. ASSUME NEW v \in Workers, v # w
        PROVE  credited(k + 1)[v] = credited(k)[v]
    <3>1. (\E j \in 1 .. k : workers[j] = v) <=> (\E j \in 1 .. k + 1 : workers[j] = v)
      <4>1. \A j \in 1 .. k + 1 : j = k + 1 \/ j \in 1 .. k
        BY <2>2
      <4>2. \A j \in 1 .. k : j \in 1 .. k + 1
        BY <2>2
      <4>3. QED  BY ONLY <2>4, <2>9, <4>1, <4>2
    <3>2. QED  BY <3>1
  <2>10. (k + 1) - 1 = k
    BY <2>2
  <2>11. T[1 .. k + 1] = Ranked(T[1 .. k], w, counts[w] + 1)
    BY <1>5, <2>2, <2>4, <2>10
  <2> HIDE DEF credited
  <2>12. PICK b, old, new : b = T[1 .. k] /\ old = credited(k) /\ new = credited(k + 1)
    OBVIOUS
  <2>13. IsTop(b, old)
    BY <2>3, <2>12
  <2>14. IsCredit(old, new, w)
    BY <2>5, <2>7, <2>8, <2>9, <2>12 DEF IsCredit
  <2>15. IsTop(Ranked(b, w, new[w]), new)
    BY ONLY <2>13, <2>14, RankedKeepsTop
  <2>16. QED  BY <2>8, <2>11, <2>12, <2>15
<1>8. N \in K
  <2>1. K \subseteq Nat /\ \A k \in K : k + 1 \in K
    BY <1>7
  <2> HIDE DEF K
  <2>2. QED  BY <1>1, <1>6, <2>1, NatSetInduction
<1>9. credited(N) = after
  <2>1. ASSUME NEW v \in Workers
        PROVE  credited(N)[v] = after[v]
    <3>1. v \in Range(workers) <=> \E j \in 1 .. N : workers[j] = v
      BY <1>1 DEF Range
    <3>2. counts[v] \in Nat
      OBVIOUS
    <3>3. QED  BY <3>1, <3>2
  <2>2. DOMAIN after = Workers /\ after = [v \in Workers |-> after[v]]
    OBVIOUS
  <2>3. QED  BY <2>1, <2>2
<1>10. T[1 .. N] = BoardAfter(board, counts, workers)
  BY <1>1, <1>2, BoardIsTable
<1>11. IsTop(T[1 .. N], credited(N))
  <2>1. N <= N
    BY <1>1
  <2>2. QED  BY <1>8, <2>1
<1>12. QED  BY <1>9, <1>10, <1>11

\* A settlement's credits leave the board at the top.
LEMMA CreditRankingKeepsTop ==
  ASSUME resolvedCount \in [Workers -> Nat], IsTop(leaderboard, resolvedCount),
         NEW workers \in Seq(Workers),
         \A i, j \in DOMAIN workers : workers[i] = workers[j] => i = j,
         CreditRanking(workers)
  PROVE  IsTop(leaderboard', resolvedCount')
<1>1. leaderboard' = BoardAfter(leaderboard, resolvedCount, workers)
  BY DEF CreditRanking, BoardAfter
<1>2. PICK after : after = resolvedCount'
  OBVIOUS
<1>3. after = [v \in Workers |-> resolvedCount[v] + (IF v \in Range(workers) THEN 1 ELSE 0)]
  BY <1>2 DEF CreditRanking
<1>4. /\ after \in [Workers -> Nat]
      /\ \A v \in Workers :
            after[v] = resolvedCount[v] + (IF v \in Range(workers) THEN 1 ELSE 0)
  BY <1>3
<1>5. IsTop(BoardAfter(leaderboard, resolvedCount, workers), after)
  BY <1>4, CreditedBoardIsTop
<1>6. QED  BY <1>1, <1>2, <1>5

\* IsTop is what BoardIsTop says, with the types of the entries.
LEMMA TopIsBoardIsTop ==
  ASSUME IsTop(leaderboard, resolvedCount)
  PROVE  BoardIsTop
<1>1. /\ leaderboard \in Seq(Entry) /\ DOMAIN leaderboard = 1 .. Len(leaderboard)
  <2>1. leaderboard \in Seq(Entry)
    BY DEF IsTop
  <2>2. QED  BY ONLY <2>1
<1>2. QED  BY <1>1 DEF IsTop, BoardIsTop

\* An empty board is the top of counts that are all zero.
LEMMA EmptyBoardIsTop ==
  ASSUME RankingInit
  PROVE  IsTop(leaderboard, resolvedCount)
<1>1. leaderboard = <<>> /\ \A v \in Workers : resolvedCount[v] = 0
  BY DEF RankingInit
<1>2. leaderboard \in Seq(Entry) /\ Len(leaderboard) = 0
  BY <1>1
<1>3. QED  BY <1>1, <1>2, RankingAssumption DEF IsTop
=============================================================================
