---------------------------- MODULE OracleEscrow ----------------------------
(***************************************************************************)
(* The oracle-escrow contract: its entry points, each of which moves money *)
(* and changes the records of Questions, StakeBook or Consensus in one     *)
(* transaction.  A call that the code rejects, or one in which a token     *)
(* transfer fails, changes nothing and is no step.                         *)
(*                                                                         *)
(* Authorisation is by the caller's signature and is not modelled: an      *)
(* action is taken by whoever the code lets take it.                       *)
(***************************************************************************)
EXTENDS Questions, StakeBook, Consensus

CONSTANTS
  DefaultToken,         \* the asset given to the constructor
  Deposits,             \* amounts a payer deposits
  TopUps,               \* amounts a worker stakes
  Parts,                \* amounts asked for in partial payouts and pledges
  Pauses,               \* values the admin gives the circuit breaker
  Ballots,              \* arguments of resolve_by_consensus(), valid or not
  AccountLists,         \* address lists given to migrate_balances()
  Transfers,            \* what another instance's migrate_balances() moves here
  MAX_ALLOWED_ASSETS,   \* 32 in the code, the default asset included
  MaxBalance            \* bound: largest prepaid balance

ASSUME EscrowAssumption ==
  /\ DefaultToken \in Tokens
  /\ Deposits \subseteq Nat \ {0}
  /\ TopUps \subseteq Nat \ {0}
  /\ Parts \subseteq Nat \ {0}
  /\ Pauses \subseteq BOOLEAN
  /\ Ballots \subseteq Seq([worker : Workers, answer : Answers])
  /\ AccountLists \subseteq SUBSET (Workers \cup Payers)
  /\ Transfers \subseteq [stake : Nat, owed : Nat, balance : Nat]
  /\ MAX_ALLOWED_ASSETS \in Nat \ {0}
  /\ MaxBalance \in Nat

\* Addresses have a fixed width.
ASSUME AccountsAssumption == IsFiniteSet(Workers) /\ IsFiniteSet(Payers)

VARIABLES
  custody,         \* what the token contracts hold for this contract
  balance,         \* Balance(payer) / BalanceAsset(token, payer)
  owed,            \* Owed(worker) / OwedAsset(token, worker)
  owedLock,        \* OwedLock(worker)
  participants,    \* addresses with a ParticipantPos entry
  allowedTokens,   \* AllowedToken entries
  paused           \* Paused

bookVars == <<stake, rankingVars>>
accessVars == <<allowedTokens, paused, establishedCount>>
vars == <<seq, recordVars, configVars, bookVars, custody, balance, owed, owedLock,
          participants, accessVars>>

Init ==
  /\ QuestionsInit /\ StakeInit /\ RankingInit /\ ConsensusInit
  /\ custody = [t \in Tokens |-> 0]
  /\ balance = [t \in Tokens |-> [p \in Payers |-> 0]]
  /\ owed = [t \in Tokens |-> [w \in Workers |-> 0]]
  /\ owedLock = [w \in Workers |-> 0]
  /\ participants = {}
  /\ allowedTokens = {DefaultToken}
  /\ paused = FALSE

-----------------------------------------------------------------------------
(* Transfers.  Token contracts move exactly the amount asked for, or fail. *)

Receive(t, amount) == custody' = [custody EXCEPT ![t] = @ + amount]

PayOut(t, amount) ==
  /\ custody[t] >= amount
  /\ custody' = [custody EXCEPT ![t] = @ - amount]

\* track_participant().
Track(accounts) == participants' = participants \cup accounts

\* Fault: only the asset is checked.
AcceptingPaused(t) == t \in allowedTokens

\* require_not_paused() and require_allowed_token().
Accepting(t) == ~paused /\ t \in allowedTokens

-----------------------------------------------------------------------------
(* Payers.                                                                 *)

\* submit(), its two variants, and submit_asset().
Submit(q, p, t, a) ==
  /\ Accepting(t)
  /\ OpenQuestion(q, p, t, a)
  /\ Receive(t, a)
  /\ UNCHANGED <<seq, configVars, bookVars, balance, owed, owedLock, participants, accessVars>>

AddBalance(t, p, a) ==
  /\ balance[t][p] + a <= MaxBalance
  /\ balance' = [balance EXCEPT ![t][p] = @ + a]
  /\ Receive(t, a)

\* deposit().
Deposit(p, a) ==
  /\ Accepting(DefaultToken)
  /\ AddBalance(DefaultToken, p, a)
  /\ Track({p})
  /\ UNCHANGED <<seq, recordVars, configVars, bookVars, owed, owedLock, accessVars>>

\* deposit_asset(), which also takes the default asset.
DepositAsset(p, t, a) ==
  /\ Accepting(t)
  /\ AddBalance(t, p, a)
  /\ UNCHANGED <<seq, recordVars, configVars, bookVars, owed, owedLock, participants, accessVars>>

\* Fault: more than the balance can be withdrawn.
WithdrawBalanceOverdrawn(p, t, a) ==
  /\ balance' = [balance EXCEPT ![t][p] = @ - a]
  /\ PayOut(t, a)
  /\ UNCHANGED <<seq, recordVars, configVars, bookVars, owed, owedLock, participants, accessVars>>

\* withdraw_balance() and withdraw_balance_asset().
WithdrawBalance(p, t, a) ==
  /\ a <= balance[t][p]
  /\ balance' = [balance EXCEPT ![t][p] = @ - a]
  /\ PayOut(t, a)
  /\ UNCHANGED <<seq, recordVars, configVars, bookVars, owed, owedLock, participants, accessVars>>

\* Fault: the prepaid balance is not drawn down.
ChargeForFree(q, p, t, a) ==
  /\ Accepting(t)
  /\ a <= balance[t][p]
  /\ OpenQuestion(q, p, t, a)
  /\ UNCHANGED <<seq, configVars, bookVars, custody, balance, owed, owedLock, participants, accessVars>>

\* charge() and charge_asset().
Charge(q, p, t, a) ==
  /\ Accepting(t)
  /\ a <= balance[t][p]
  /\ balance' = [balance EXCEPT ![t][p] = @ - a]
  /\ OpenQuestion(q, p, t, a)
  /\ UNCHANGED <<seq, configVars, bookVars, custody, owed, owedLock, participants, accessVars>>

\* reopen_question(): the asset is the question's and is not checked again.
Reopen(q, a) ==
  /\ ~paused
  /\ ReopenQuestion(q, a)
  /\ Receive(question[q].token, a)
  /\ UNCHANGED <<seq, configVars, bookVars, balance, owed, owedLock, participants, accessVars>>

-----------------------------------------------------------------------------
(* Settlements.                                                            *)

\* settle_asset(), and the same body in escalate_resolve() and
\* finalize_resolve(): losing workers are slashed, matching workers credited
\* and ranked, and the platform is paid, all in the question's asset.  `bond`
\* is a forfeited challenge bond, paid out with the platform's take.
PaySettlement(q, v, bond) ==
  LET t      == question[q].token
      amount == question[q].amount
      n      == Len(v.workers)
      taken  == [l \in Range(v.losers) |-> SlashTaken(t, l, amount)]
  IN /\ stake' = [stake EXCEPT ![t] = StakesAfterSlash(t, Range(v.losers), amount)]
     /\ owed' = [owed EXCEPT ![t] =
                   [w \in Workers |->
                      @[w] + (IF w \in Range(v.workers)
                                THEN WorkerCredit(amount, n, taken) ELSE 0)]]
     /\ PayOut(t, PlatformTake(amount, n, taken) + bond)
     /\ CreditRanking(v.workers)
     /\ Track(IF t = DefaultToken THEN Range(v.workers) ELSE {})
     /\ UNCHANGED <<seq, configVars, balance, owedLock, accessVars>>

\* resolve().
Resolve(q, v) == ResolveQuestion(q, v) /\ PaySettlement(q, v, 0)

\* resolve_by_consensus().
ResolveByConsensus(q, ballot) ==
  /\ ValidBallot(ballot) /\ Len(ballot) <= MAX_QUORUM_SIZE
  /\ Conclusive(ballot)
  /\ Resolve(q, ConsensusVerdict(ballot))

\* escalate_resolve().
EscalateResolve(q, v) == ResolveEscalated(q, v) /\ PaySettlement(q, v, 0)

\* Fault: the forfeited bond stays in the contract.
FinalizeKeepingBond(q) ==
  FinalizeQuestion(q) /\ PaySettlement(q, pendingResolution[q].verdict, 0)

\* finalize_resolve().
FinalizeResolve(q) ==
  /\ FinalizeQuestion(q)
  /\ PaySettlement(q, pendingResolution[q].verdict,
                   IF q \in DOMAIN challengerBond THEN challengerBond[q].amount ELSE 0)

\* The transfer of do_refund() and of migrate_pending().
PayBack(q) ==
  /\ PayOut(question[q].token, question[q].amount)
  /\ UNCHANGED <<seq, configVars, bookVars, balance, owed, owedLock, participants, accessVars>>

\* refund().
Refund(q) == RefundQuestion(q) /\ PayBack(q)

\* refund_timeout(); sweep_timeouts() is this for one id after another.
RefundTimeout(q) == TimeoutQuestion(q) /\ PayBack(q)

\* migrate_pending(), for one of its ids: the money is sent as in a refund,
\* but to the target, which takes it over or fails the whole call.
MigratePending(q) == MigrateQuestion(q) /\ PayBack(q)

\* The calls on a question that move no money.
moneyVars == <<bookVars, custody, balance, owed, owedLock, participants>>
Escalate(q, v) ==
  EscalateQuestion(q, v) /\ UNCHANGED <<seq, configVars, moneyVars, accessVars>>
Challengeable(q, v, window) ==
  ResolveChallengeable(q, v, window) /\ UNCHANGED <<seq, configVars, moneyVars, accessVars>>
Dispute(q) ==
  DisputeResolve(q) /\ UNCHANGED <<seq, configVars, moneyVars, accessVars>>

\* post_challenge_bond(): the bond is in the default asset.
PostChallengeBond(q, c, a) ==
  /\ ~paused
  /\ PostBond(q, c, a)
  /\ Receive(DefaultToken, a)
  /\ UNCHANGED <<seq, configVars, bookVars, balance, owed, owedLock, participants, accessVars>>

-----------------------------------------------------------------------------
(* Workers.                                                                *)

AddStake(t, w, a) ==
  /\ Accepting(t)
  /\ TopUp(t, w, a)
  /\ Receive(t, a)
  /\ UNCHANGED <<seq, recordVars, configVars, rankingVars, balance, owed, owedLock, accessVars>>

\* stake() and stake_asset().
Stake(w, a) == AddStake(DefaultToken, w, a) /\ Track({w})
StakeAsset(w, t, a) == AddStake(t, w, a) /\ UNCHANGED participants

\* begin_unstake() and begin_unstake_asset().
BeginUnstake(w, t, a) ==
  /\ MoveOut(t, w, a, timeoutLedgers)
  /\ UNCHANGED <<seq, recordVars, configVars, rankingVars, custody, balance, owed, owedLock,
                 participants, accessVars>>

\* complete_unstake(), claim_unstake() and complete_unstake_asset().
CompleteUnstake(w, t) ==
  /\ PayBucket(t, w)
  /\ PayOut(t, stake[t][w].unbonding)
  /\ UNCHANGED <<seq, recordVars, configVars, rankingVars, balance, owed, owedLock,
                 participants, accessVars>>

\* Fault: the pledge is not looked at.
WithdrawPledged(w, t, a) ==
  /\ a <= owed[t][w]
  /\ owed' = [owed EXCEPT ![t][w] = @ - a]
  /\ PayOut(t, a)
  /\ UNCHANGED <<seq, recordVars, configVars, bookVars, balance, owedLock, participants, accessVars>>

\* do_withdraw_for_token(): the pledge, which is in the default asset, holds
\* back the same number of units of every asset.
Withdraw(w, t, a) ==
  /\ a <= owed[t][w] - owedLock[w]
  /\ owed' = [owed EXCEPT ![t][w] = @ - a]
  /\ PayOut(t, a)
  /\ UNCHANGED <<seq, recordVars, configVars, bookVars, balance, owedLock, participants, accessVars>>

\* lock_owed() and release_owed(), by the lending authority.
LockOwed(w, a) ==
  /\ a <= owed[DefaultToken][w] - owedLock[w]
  /\ owedLock' = [owedLock EXCEPT ![w] = @ + a]
  /\ UNCHANGED <<seq, recordVars, configVars, bookVars, custody, balance, owed,
                 participants, accessVars>>
ReleaseOwed(w, a) ==
  /\ a <= owedLock[w]
  /\ owedLock' = [owedLock EXCEPT ![w] = @ - a]
  /\ UNCHANGED <<seq, recordVars, configVars, bookVars, custody, balance, owed,
                 participants, accessVars>>

-----------------------------------------------------------------------------
(* The admin, and time.                                                    *)

\* set_asset_allowed(): AllowedAssetCount is the number of AllowedToken
\* entries, of which the default asset is one and stays one.
SetAssetAllowed(t, allowed) ==
  /\ allowed /\ t \notin allowedTokens => Cardinality(allowedTokens) < MAX_ALLOWED_ASSETS
  /\ ~allowed => t # DefaultToken
  /\ allowedTokens' = IF allowed THEN allowedTokens \cup {t} ELSE allowedTokens \ {t}
  /\ UNCHANGED <<seq, recordVars, configVars, moneyVars, paused, establishedCount>>

\* set_paused().
SetPaused(b) ==
  /\ paused' = b
  /\ UNCHANGED <<seq, recordVars, configVars, moneyVars, allowedTokens, establishedCount>>

SetConsensusThreshold(count) ==
  /\ SetEstablishedAnswerCount(count)
  /\ UNCHANGED <<seq, recordVars, configVars, moneyVars, allowedTokens, paused>>

Configure == ConfigStep /\ UNCHANGED <<seq, recordVars, moneyVars, accessVars>>

CloseLedger == Tick /\ UNCHANGED <<recordVars, configVars, moneyVars, accessVars>>

-----------------------------------------------------------------------------
(* Moving to and from another instance.  Neither way asks the breaker.     *)

\* import_question(), by the contract that MigrationSource names.
Import(q, p, t, a) ==
  /\ t \in allowedTokens
  /\ ImportStep(q, p, t, a)
  /\ Receive(t, a)
  /\ UNCHANGED <<seq, configVars, bookVars, balance, owed, owedLock, participants, accessVars>>

\* migrate_balances(): of every listed account, in the default and in the
\* listed assets, the whole stake, with what is unbonding, the credits and the
\* prepaid balance leave.  The pledge and the participant entry stay.
MigrateBalances(accounts, tokens) ==
  LET Leaves(t, x) == t \in tokens \cup {DefaultToken} /\ x \in accounts
      Left(t, amounts) == [x \in DOMAIN amounts |-> IF Leaves(t, x) THEN 0 ELSE amounts[x]]
      Bond(t) == [w \in Workers |-> Slashable(stake[t][w])]
      Of(amounts) == SumFunctionOnSet(amounts, accounts \cap DOMAIN amounts)
      sent == [t \in Tokens |-> IF t \in tokens \cup {DefaultToken}
                 THEN Of(Bond(t)) + Of(owed[t]) + Of(balance[t]) ELSE 0]
  IN /\ \A t \in Tokens : sent[t] <= custody[t]
     /\ custody' = [t \in Tokens |-> custody[t] - sent[t]]
     /\ stake' = [t \in Tokens |-> [w \in Workers |->
                     IF Leaves(t, w) /\ Slashable(stake[t][w]) > 0 THEN NoStake ELSE stake[t][w]]]
     /\ owed' = [t \in Tokens |-> Left(t, owed[t])]
     /\ balance' = [t \in Tokens |-> Left(t, balance[t])]
     /\ UNCHANGED <<seq, recordVars, configVars, rankingVars, owedLock, participants, accessVars>>

\* import_balances(), by the contract that MigrationSource names: the stake
\* arrives settled, on the record as it is stored.  Bounds as for deposits and
\* stakes; an account of the model is a worker or a payer.
ImportBalances(t, x, sum) ==
  LET Credited(amounts, a) == [y \in DOMAIN amounts |-> amounts[y] + (IF y = x THEN a ELSE 0)]
  IN /\ t \in allowedTokens
     /\ x \notin Workers => sum.stake = 0 /\ sum.owed = 0
     /\ x \notin Payers => sum.balance = 0
     /\ x \in Workers => /\ Slashable(stake[t][x]) + sum.stake <= MaxStake
                         /\ owed[t][x] + sum.owed <= MaxBalance
     /\ x \in Payers => balance[t][x] + sum.balance <= MaxBalance
     /\ stake' = [stake EXCEPT ![t] = [w \in Workers |->
                     [stake[t][w] EXCEPT !.settled = @ + (IF w = x THEN sum.stake ELSE 0)]]]
     /\ owed' = [owed EXCEPT ![t] = Credited(@, sum.owed)]
     /\ balance' = [balance EXCEPT ![t] = Credited(@, sum.balance)]
     /\ Receive(t, sum.stake + sum.owed + sum.balance)
     /\ Track(IF sum.stake + sum.owed + sum.balance > 0 THEN {x} ELSE {})
     /\ UNCHANGED <<seq, recordVars, configVars, rankingVars, owedLock, accessVars>>

-----------------------------------------------------------------------------
PayerStep ==
  \E p \in Payers, t \in Tokens :
    \/ \E q \in Ids, a \in Amounts : Submit(q, p, t, a) \/ Charge(q, p, t, a)
    \/ \E a \in Deposits : DepositAsset(p, t, a)
    \/ \E a \in Deposits : t = DefaultToken /\ Deposit(p, a)
    \/ \E a \in Parts : WithdrawBalance(p, t, a)

SettlementStep ==
  \E q \in Ids :
    \/ \E a \in Amounts : Reopen(q, a)
    \/ \E v \in Verdicts : Resolve(q, v) \/ Escalate(q, v) \/ EscalateResolve(q, v)
    \/ \E v \in Verdicts, window \in Windows : Challengeable(q, v, window)
    \/ \E c \in Challengers, a \in Bonds : PostChallengeBond(q, c, a)
    \/ Dispute(q)
    \/ FinalizeResolve(q)
    \/ Refund(q)
    \/ RefundTimeout(q)

\* Bound: Verdicts holds the verdicts of the ballots.
ConsensusStep ==
  \E q \in Ids, ballot \in Ballots :
    ResolveByConsensus(q, ballot) /\ ConsensusVerdict(ballot) \in Verdicts

TakeOver ==
  \E t \in Tokens :
    \/ \E q \in Ids, p \in Payers, a \in Amounts : Import(q, p, t, a)
    \/ \E x \in Workers \cup Payers, sum \in Transfers : ImportBalances(t, x, sum)

HandOver ==
  \/ \E q \in Ids : MigratePending(q)
  \/ \E accounts \in AccountLists, tokens \in SUBSET (Tokens \ {DefaultToken}) :
       MigrateBalances(accounts, tokens)

WorkerStep ==
  \E w \in Workers :
    \/ \E a \in TopUps : Stake(w, a)
    \/ \E t \in Tokens :
         \/ \E a \in TopUps : StakeAsset(w, t, a)
         \/ \E a \in Parts : BeginUnstake(w, t, a) \/ Withdraw(w, t, a)
         \/ CompleteUnstake(w, t)
    \/ \E a \in Parts : LockOwed(w, a) \/ ReleaseOwed(w, a)

AdminStep ==
  \/ \E t \in Tokens, allowed \in BOOLEAN : SetAssetAllowed(t, allowed)
  \/ \E b \in Pauses : SetPaused(b)
  \/ \E count \in EstablishedCounts : SetConsensusThreshold(count)
  \/ Configure

Next ==
  \/ PayerStep \/ SettlementStep \/ ConsensusStep \/ WorkerStep
  \/ TakeOver \/ HandOver \/ AdminStep \/ CloseLedger

Spec == Init /\ [][Next]_vars

-----------------------------------------------------------------------------
FundsTypeOK ==
  /\ custody \in [Tokens -> Nat]
  /\ balance \in [Tokens -> [Payers -> Nat]]
  /\ owed \in [Tokens -> [Workers -> Nat]]
  /\ owedLock \in [Workers -> Nat]
  /\ participants \subseteq Workers \cup Payers
  /\ allowedTokens \subseteq Tokens
  /\ paused \in BOOLEAN
  /\ resolvedCount \in [Workers -> Nat]
  /\ QuestionsTypeOK
  /\ StakeTypeOK

(* What the contract has to be able to pay, asset by asset.                *)
Escrowed(t) ==
  SumFunction([q \in {o \in OpenQuestions : question[o].token = t} |-> question[q].amount])
Bonded(t) == SumFunction([w \in Workers |-> Slashable(stake[t][w])])
BondsHeld == SumFunction([q \in DOMAIN challengerBond |-> challengerBond[q].amount])
Obligations(t) ==
  Escrowed(t) + SumFunction(balance[t]) + SumFunction(owed[t]) + Bonded(t)
    + (IF t = DefaultToken THEN BondsHeld ELSE 0)

\* The contract holds, in every asset, exactly what it owes: the open
\* questions, the prepaid balances, the credits, the stakes with what is
\* unbonding, and the challenge bonds.  No path pays anyone with another's
\* money and none leaves money that nobody can claim.
Solvency == \A t \in Tokens : custody[t] = Obligations(t)

\* A pledge of lock_owed() stays backed by credits that are there, although
\* settlements, withdrawals, releases and imports interleave with it: only
\* migrate_balances(), which moves the credits and leaves the pledge, takes the
\* backing away.
PledgesBacked ==
  [][\A w \in Workers :
        owedLock[w] <= owed[DefaultToken][w] =>
          owedLock'[w] <= owed'[DefaultToken][w] \/ HandOver]_vars

\* While the circuit breaker is set no entry point of the users takes money in
\* or opens a question; everything else keeps working, as does what another
\* instance hands over (set_paused()).
PausedTakesNothing ==
  [][paused =>
       \/ /\ \A t \in Tokens : custody'[t] <= custody[t]
          /\ counters'.opened = counters.opened
       \/ TakeOver]_vars

\* Stake that is asked back stays slashable for as long as any question that is
\* open at that moment can still be settled on time (MIN_UNBONDING_LEDGERS):
\* whoever answered it cannot get out of the slash by unstaking.
SlashableUntilDeadline ==
  [][\A t \in Tokens, w \in Workers :
        stake'[t][w].unbonding > stake[t][w].unbonding =>
          \A q \in WithStatus("Pending") :
             stake'[t][w].releaseAt >= Deadline(question[q])]_vars

\* Every address with default-asset money, owed, staked or prepaid, is in the
\* participant index that migrate_balances() walks.
ParticipantsTracked ==
  /\ \A p \in Payers : balance[DefaultToken][p] > 0 => p \in participants
  /\ \A w \in Workers :
        owed[DefaultToken][w] > 0 \/ Slashable(stake[DefaultToken][w]) > 0
          => w \in participants
=============================================================================
