----------------------------- MODULE StakeBook -----------------------------
(***************************************************************************)
(* Worker bonds: StakeInfo and the operations on it.  A top-up warms up on *)
(* its own clock before it counts as matured; a withdrawal first leaves    *)
(* the active stake for an unbonding bucket that stays slashable, and is   *)
(* paid out only after its release ledger; a slash takes from all three    *)
(* buckets.  Maturing is lazy: stake_info() rolls finished tranches into   *)
(* settled whenever the record is read, and writers store the result.      *)
(*                                                                         *)
(* Only the stake and the ledger clock are kept here.  The contract entry  *)
(* points that move tokens around these operations are in OracleEscrow.    *)
(***************************************************************************)
EXTENDS ContractEnv, Settlement, Sequences

CONSTANTS
  STAKE_WARMUP_LEDGERS,   \* 17_280 in the code
  MIN_UNBONDING_LEDGERS,  \* 51_840
  MaxStake                \* bound: largest stake of one worker in one asset

ASSUME StakeAssumption ==
  /\ STAKE_WARMUP_LEDGERS \in Nat \ {0}
  /\ MIN_UNBONDING_LEDGERS \in Nat
  /\ MaxStake \in Nat

VARIABLE
  stake    \* Stake(worker) / StakeAsset(token, worker), default where absent

stakeVars == <<seq, stake>>

\* StakeInfo::default(); warming_tranches is None exactly when it is <<>>.
NoStake == [settled |-> 0, warming |-> 0, tranches |-> <<>>,
            unbonding |-> 0, releaseAt |-> 0]

StakeInit == LedgerInit /\ stake = [t \in Tokens |-> [w \in Workers |-> NoStake]]

-----------------------------------------------------------------------------
(* StakeInfo.                                                              *)

TrancheAmounts(tranches) == [i \in DOMAIN tranches |-> tranches[i].amount]

\* get_stake(): what is bonded and not asked back.
Active(info) == info.settled + info.warming

\* What slash() may take from.
Slashable(info) == info.settled + info.warming + info.unbonding

Warmed(tranche, now) == now >= tranche.since + STAKE_WARMUP_LEDGERS

\* The entries of a list at some of its positions, in their order: what a loop
\* over the list that pushes some of its entries leaves.
Only(list, positions) ==
  LET upTo[n \in 0 .. Len(list)] ==
        IF n = 0 THEN <<>>
        ELSE IF n \in positions THEN Append(upTo[n - 1], list[n]) ELSE upTo[n - 1]
  IN upTo[Len(list)]

WarmedTranches(tranches, now) == {i \in DOMAIN tranches : Warmed(tranches[i], now)}

\* mature_warming(): finished tranches move into settled.
Mature(info, now) ==
  LET warmed == WarmedTranches(info.tranches, now)
      done == SumFunctionOnSet(TrancheAmounts(info.tranches), warmed)
  IN [info EXCEPT !.settled = @ + done, !.warming = @ - done,
        !.tranches = Only(@, DOMAIN @ \ warmed)]

\* stake_info_for_token(): the record as every operation reads it.
StakeInfo(t, w) == Mature(stake[t][w], seq)

\* Fault: the whole warming amount ramps on the clock of its oldest tranche.
EffectiveOneClock(info, now) ==
  LET read == Mature(info, now)
  IN read.settled + (IF read.tranches = <<>> THEN 0
       ELSE (read.warming * (now - read.tranches[1].since)) \div STAKE_WARMUP_LEDGERS)

\* get_effective_stake(): a warming tranche counts for the part of its warm-up
\* that it has served, rounded down.
Effective(info, now) ==
  LET read == Mature(info, now)
      Served(tr) == (tr.amount * (now - tr.since)) \div STAKE_WARMUP_LEDGERS
  IN read.settled + SumFunction([i \in DOMAIN read.tranches |-> Served(read.tranches[i])])

\* Fault: one clock for the whole warming amount, restarted by a top-up.
AddWarmingOneClock(info, amount, now) ==
  [info EXCEPT !.warming = @ + amount,
               !.tranches = << [amount |-> info.warming + amount, since |-> now] >>]

\* Fault: a top-up is dated at the oldest tranche still warming.
AddWarmingBackdated(info, amount, now) ==
  LET since == IF info.tranches = <<>> THEN now ELSE info.tranches[1].since
  IN [info EXCEPT !.warming = @ + amount,
                  !.tranches = Append(@, [amount |-> amount, since |-> since])]

\* add_warming(): a top-up starts a tranche of its own.
AddWarming(info, amount, now) ==
  [info EXCEPT !.warming = @ + amount,
               !.tranches = Append(@, [amount |-> amount, since |-> now])]

\* Fault: the tranches are left as they were.
DrainWarmingAmountOnly(info, amount) == [info EXCEPT !.warming = @ - amount]

\* What the tranches keep when an amount is taken from the newest first: a
\* tranche covers what the tranches newer than it do not.
Drained(tranches, amount) ==
  LET amounts == TrancheAmounts(tranches)
      Newer(i) == SumFunctionOnSet(amounts, i + 1 .. Len(tranches))
  IN [i \in DOMAIN tranches |-> Max2(0, Min2(amounts[i], amounts[i] + Newer(i) - amount))]

\* drain_warming(): the tranches that are used up go.
DrainWarming(info, amount) ==
  LET left == Drained(info.tranches, amount)
      kept == [i \in DOMAIN left |-> [info.tranches[i] EXCEPT !.amount = left[i]]]
  IN [info EXCEPT !.warming = @ - amount,
                  !.tranches = Only(kept, {i \in DOMAIN left : left[i] > 0})]

\* The write of slash(): warming first, then settled, then unbonding.
TakeSlash(info, amount) ==
  LET fromWarming   == Min2(amount, info.warming)
      fromSettled   == Min2(amount - fromWarming, info.settled)
      fromUnbonding == Min2(amount - fromWarming - fromSettled, info.unbonding)
  IN [DrainWarming(info, fromWarming) EXCEPT
        !.settled = @ - fromSettled, !.unbonding = @ - fromUnbonding]

\* The write of begin_unstake(): warming first, then settled, into the bucket,
\* whose clock restarts.
MoveToUnbonding(info, amount, release) ==
  LET fromWarming == Min2(amount, info.warming)
  IN [DrainWarming(info, fromWarming) EXCEPT
        !.settled = @ - (amount - fromWarming),
        !.unbonding = @ + amount,
        !.releaseAt = release]

-----------------------------------------------------------------------------
(* The operations, as updates of the stakes of one asset.                  *)

SetStake(t, w, info) == stake' = [stake EXCEPT ![t][w] = info]

\* The stake part of stake() and stake_asset().
TopUp(t, w, amount) ==
  /\ Slashable(stake[t][w]) + amount <= MaxStake
  /\ SetStake(t, w, AddWarming(StakeInfo(t, w), amount, seq))

\* Fault: the timeout of the questions is not looked at.
UnbondingDelayFixed(timeout) == MIN_UNBONDING_LEDGERS

\* max(MIN_UNBONDING_LEDGERS, timeout_ledgers)
UnbondingDelay(timeout) == Max2(MIN_UNBONDING_LEDGERS, timeout)

\* Fault: more than the active stake can be asked back.
MoveOutUnchecked(t, w, amount, timeout) ==
  SetStake(t, w, MoveToUnbonding(StakeInfo(t, w), amount, seq + UnbondingDelay(timeout)))

\* begin_unstake() and begin_unstake_asset(); `timeout` is the global
\* TimeoutLedgers of the moment.
MoveOut(t, w, amount, timeout) ==
  LET info == StakeInfo(t, w)
  IN /\ amount <= Active(info)
     /\ SetStake(t, w, MoveToUnbonding(info, amount, seq + UnbondingDelay(timeout)))

\* Fault: the release ledger is not checked.
PayBucketEarly(t, w) ==
  LET info == StakeInfo(t, w)
  IN /\ info.unbonding > 0
     /\ SetStake(t, w, [info EXCEPT !.unbonding = 0, !.releaseAt = 0])

\* The stake part of complete_unstake() and complete_unstake_asset(): the
\* whole bucket leaves, info.unbonding is what is paid.
PayBucket(t, w) ==
  LET info == StakeInfo(t, w)
  IN /\ info.unbonding > 0
     /\ seq >= info.releaseAt
     /\ SetStake(t, w, [info EXCEPT !.unbonding = 0, !.releaseAt = 0])

\* What slash() takes from a losing worker of a question of this amount.
SlashTaken(t, w, amount) == SlashAmount(Slashable(StakeInfo(t, w)), amount)

\* The stakes of one asset after slash() has run for each losing worker; a
\* worker with nothing to take is not written.
StakesAfterSlash(t, losers, amount) ==
  [w \in Workers |->
     IF w \in losers /\ SlashTaken(t, w, amount) > 0
       THEN TakeSlash(StakeInfo(t, w), SlashTaken(t, w, amount))
       ELSE stake[t][w]]

-----------------------------------------------------------------------------
(* Any sequence of these operations: with the bound on a stake, top-ups,   *)
(* withdrawals and slashes beyond MaxStake are those up to it.             *)

StakeNext ==
  \/ /\ \E t \in Tokens, w \in Workers :
          \/ \E a \in 1 .. MaxStake : TopUp(t, w, a)
          \/ \E a \in 1 .. MaxStake, timeout \in 1 .. MaxSeq : MoveOut(t, w, a, timeout)
          \/ PayBucket(t, w)
     /\ UNCHANGED seq
  \/ /\ \E t \in Tokens, losers \in SUBSET Workers, a \in 1 .. MaxStake :
          stake' = [stake EXCEPT ![t] = StakesAfterSlash(t, losers, a)]
     /\ UNCHANGED seq
  \/ Tick /\ UNCHANGED stake

StakeSpec == StakeInit /\ [][StakeNext]_stakeVars

StakeInfoType ==
  [settled : Nat, warming : Nat, tranches : Seq([amount : Nat, since : Nat]),
   unbonding : Nat, releaseAt : Nat]

StakeTypeOK ==
  /\ seq \in Nat
  /\ stake \in [Tokens -> [Workers -> StakeInfoType]]

\* `warming` is the sum of the tranches, no tranche is empty, and tranches are
\* ordered by age, which is what drain_warming() relies on when it takes from
\* the end.
WarmingIsTranches ==
  \A t \in Tokens, w \in Workers :
    LET tr == stake[t][w].tranches
    IN /\ stake[t][w].warming = SumFunction(TrancheAmounts(tr))
       /\ \A i \in DOMAIN tr : tr[i].amount > 0 /\ tr[i].since <= seq
       /\ \A i, j \in DOMAIN tr : i <= j => tr[i].since <= tr[j].since

\* What will have matured by ledger `time` if nothing else happens: the
\* schedule get_matured_stake() follows.
MaturedBy(info, time) == Mature(info, time).settled

\* No operation delays what is already on the schedule: after any step, what
\* matures by a given ledger is what was due by then, up to what is left of
\* the active stake.  A top-up does not restart older clocks (#194), and an
\* unstake or a slash takes the newest stake first.
MaturityNeverDelayed ==
  [][\A t \in Tokens, w \in Workers : \A time \in seq' .. MaxSeq + STAKE_WARMUP_LEDGERS :
        MaturedBy(stake'[t][w], time)
          >= Min2(MaturedBy(stake[t][w], time), Active(stake'[t][w]))]_stakeVars

\* No operation credits stake early: what matures within one warm-up period
\* from now cannot grow (attack A3: staking just before answering).
NoEarlyMaturity ==
  [][\A t \in Tokens, w \in Workers : \A time \in seq' .. seq + STAKE_WARMUP_LEDGERS - 1 :
        MaturedBy(stake'[t][w], time) <= MaturedBy(stake[t][w], time)]_stakeVars

\* Credibility is earned by waiting and by nothing else: no call raises the
\* effective stake of the moment, and unless active stake is taken away it never
\* falls, also not when a tranche that was rounded down is rolled into settled
\* ("a worker who just topped up cannot immediately appear to have more
\* credibility", get_effective_stake()).
EffectiveIsEarned ==
  [][\A t \in Tokens, w \in Workers :
        LET before == Effective(stake[t][w], seq)
            after  == Effective(stake'[t][w], seq')
        IN /\ seq' = seq => after <= before
           /\ Active(stake'[t][w]) >= Active(stake[t][w]) => after >= before]_stakeVars

\* Stake can be taken back only through a bucket whose time has come: apart
\* from a slash, the slashable stake of a worker shrinks only by a bucket that
\* was released, and a bucket is released no earlier than
\* MIN_UNBONDING_LEDGERS after anything was last put into it.
UnbondingIsHeld ==
  [][\A t \in Tokens, w \in Workers :
        LET old == stake[t][w]  new == stake'[t][w]
        IN /\ new.unbonding > old.unbonding =>
                 /\ new.releaseAt >= seq + MIN_UNBONDING_LEDGERS
                 /\ Slashable(new) = Slashable(old)
           /\ old.unbonding > 0 /\ new.unbonding = 0 /\ Active(new) > 0 =>
                 seq >= old.releaseAt]_stakeVars
=============================================================================
