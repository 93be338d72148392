------------------------- MODULE OracleEscrowProofs -------------------------
(***************************************************************************)
(* The contract as a whole, for any assets, accounts, ids and amounts.     *)
(*                                                                         *)
(* Lifecycle: whatever an entry point does with money, stakes, pledges,    *)
(* assets or the breaker, the question records change by one step of       *)
(* QuestionsNext or not at all, so that what QuestionsProofs shows holds   *)
(* for every execution of the contract.                                    *)
(*                                                                         *)
(* Books: in every asset the contract holds what it owes.  The inductive   *)
(* invariant FundsInv joins the types of the money, the well-formedness of *)
(* the stakes and the lifecycle's invariant; each entry point is shown to  *)
(* move what is held and what is owed by the same sum.                     *)
(*                                                                         *)
(* Steps: pledges stay backed, nothing is taken in under the breaker,      *)
(* stake asked back outlasts the deadlines, and the promises of a stake on *)
(* its own survive inside the contract.  Last, the leaderboard is always   *)
(* the top of the counts.                                                  *)
(***************************************************************************)
EXTENDS OracleEscrow, QuestionsProofs, BookProofs

\* A call of a payer opens a question or leaves the records alone.
LEMMA PayerStepIsLifecycle ==
  ASSUME PayerStep
  PROVE  [QuestionsNext]_questionsVars
<1>1. PICK p \in Payers, t \in Tokens :
        \/ \E q \in Ids, a \in Amounts : Submit(q, p, t, a) \/ Charge(q, p, t, a)
        \/ \E a \in Deposits : DepositAsset(p, t, a)
        \/ \E a \in Deposits : t = DefaultToken /\ Deposit(p, a)
        \/ \E a \in Parts : WithdrawBalance(p, t, a)
  BY DEF PayerStep
<1>2. ASSUME NEW q \in Ids, NEW a \in Amounts, Submit(q, p, t, a) \/ Charge(q, p, t, a)
      PROVE  QuestionsNext
  <2>1. OpenQuestion(q, p, t, a) /\ UNCHANGED <<seq, configVars>>
    BY <1>2 DEF Submit, Charge
  <2>2. FundingStep(q)
    BY <2>1 DEF FundingStep
  <2>3. QED  BY <2>1, <2>2 DEF QuestionsNext, QuestionStep
<1>3. ASSUME NEW a, \/ DepositAsset(p, t, a)
                    \/ Deposit(p, a)
                    \/ WithdrawBalance(p, t, a)
      PROVE  UNCHANGED questionsVars
  BY <1>3 DEF DepositAsset, Deposit, WithdrawBalance, questionsVars
<1>4. QED  BY <1>1, <1>2, <1>3

\* Every call on an existing question is the lifecycle's step of that name,
\* with the money that moves beside it.
LEMMA SettlementStepIsLifecycle ==
  ASSUME SettlementStep
  PROVE  [QuestionsNext]_questionsVars
<1>1. PICK q \in Ids :
        \/ \E a \in Amounts : Reopen(q, a)
        \/ \E v \in Verdicts : Resolve(q, v) \/ Escalate(q, v) \/ EscalateResolve(q, v)
        \/ \E v \in Verdicts, window \in Windows : Challengeable(q, v, window)
        \/ \E c \in Challengers, a \in Bonds : PostChallengeBond(q, c, a)
        \/ Dispute(q)
        \/ FinalizeResolve(q)
        \/ Refund(q)
        \/ RefundTimeout(q)
  BY DEF SettlementStep
<1>2. ASSUME QuestionStep(q), UNCHANGED <<seq, configVars>>
      PROVE  QuestionsNext
  BY <1>2 DEF QuestionsNext
<1>3. CASE \E a \in Amounts : Reopen(q, a)
  BY <1>2, <1>3 DEF Reopen, QuestionStep, FundingStep
<1>4. CASE \E v \in Verdicts : Resolve(q, v) \/ Escalate(q, v) \/ EscalateResolve(q, v)
  <2>1. PICK v \in Verdicts : Resolve(q, v) \/ Escalate(q, v) \/ EscalateResolve(q, v)
    BY <1>4
  <2>2. UNCHANGED <<seq, configVars>>
    BY <2>1 DEF Resolve, Escalate, EscalateResolve, PaySettlement
  <2>3. VerdictStep(q)
    BY <2>1 DEF VerdictStep, Resolve, Escalate, EscalateResolve
  <2>4. QED  BY <1>2, <2>2, <2>3 DEF QuestionStep
<1>5. CASE \E v \in Verdicts, window \in Windows : Challengeable(q, v, window)
  BY <1>2, <1>5 DEF Challengeable, QuestionStep, VerdictStep
<1>6. CASE \E c \in Challengers, a \in Bonds : PostChallengeBond(q, c, a)
  BY <1>2, <1>6 DEF PostChallengeBond, QuestionStep, ReviewStep
<1>7. CASE Dispute(q)
  BY <1>2, <1>7 DEF Dispute, QuestionStep, ReviewStep
<1>8. CASE FinalizeResolve(q)
  <2>1. UNCHANGED <<seq, configVars>>
    BY <1>8 DEF FinalizeResolve, PaySettlement
  <2>2. QED  BY <1>2, <1>8, <2>1 DEF FinalizeResolve, QuestionStep, ReviewStep
<1>9. CASE Refund(q) \/ RefundTimeout(q)
  BY <1>2, <1>9 DEF Refund, RefundTimeout, PayBack, QuestionStep
<1>10. QED  BY <1>1, <1>3, <1>4, <1>5, <1>6, <1>7, <1>8, <1>9

\* What a consensus settles is a verdict like any other.
LEMMA ConsensusStepIsLifecycle ==
  ASSUME ConsensusStep
  PROVE  [QuestionsNext]_questionsVars
<1>1. PICK q \in Ids, ballot \in Ballots :
        ResolveByConsensus(q, ballot) /\ ConsensusVerdict(ballot) \in Verdicts
  BY DEF ConsensusStep
<1>2. PICK v \in Verdicts : Resolve(q, v)
  BY <1>1 DEF ResolveByConsensus
<1>3. VerdictStep(q) /\ UNCHANGED <<seq, configVars>>
  BY <1>2 DEF VerdictStep, Resolve, PaySettlement
<1>4. QED  BY <1>3 DEF QuestionsNext, QuestionStep

\* A question that comes from another instance or goes to one takes the
\* lifecycle's step; balances move without a question.
LEMMA MigrationStepIsLifecycle ==
  ASSUME TakeOver \/ HandOver
  PROVE  [QuestionsNext]_questionsVars
<1>1. ASSUME NEW t \in Tokens, NEW q \in Ids, NEW p \in Payers, NEW a \in Amounts,
             Import(q, p, t, a)
      PROVE  QuestionsNext
  <2>1. ImportStep(q, p, t, a) /\ UNCHANGED <<seq, configVars>>
    BY <1>1 DEF Import
  <2>2. FundingStep(q)
    BY <2>1 DEF FundingStep
  <2>3. QED  BY <2>1, <2>2 DEF QuestionsNext, QuestionStep
<1>2. ASSUME NEW q \in Ids, MigratePending(q)
      PROVE  QuestionsNext
  <2>1. MigrateQuestion(q) /\ UNCHANGED <<seq, configVars>>
    BY <1>2 DEF MigratePending, PayBack
  <2>2. QED  BY <2>1 DEF QuestionsNext, QuestionStep
<1>3. ASSUME NEW t, NEW x, NEW sum, ImportBalances(t, x, sum)
      PROVE  UNCHANGED questionsVars
  BY <1>3 DEF ImportBalances, questionsVars
<1>4. ASSUME NEW accounts, NEW tokens, MigrateBalances(accounts, tokens)
      PROVE  UNCHANGED questionsVars
  BY <1>4 DEF MigrateBalances, questionsVars
<1>5. CASE TakeOver
  BY <1>1, <1>3, <1>5 DEF TakeOver
<1>6. CASE HandOver
  BY <1>2, <1>4, <1>6 DEF HandOver
<1>7. QED  BY <1>5, <1>6

\* No call of a worker touches a question.
LEMMA WorkerStepIsStutter ==
  ASSUME WorkerStep
  PROVE  UNCHANGED questionsVars
<1>1. PICK w \in Workers :
        \/ \E a \in TopUps : Stake(w, a)
        \/ \E t \in Tokens :
             \/ \E a \in TopUps : StakeAsset(w, t, a)
             \/ \E a \in Parts : BeginUnstake(w, t, a) \/ Withdraw(w, t, a)
             \/ CompleteUnstake(w, t)
        \/ \E a \in Parts : LockOwed(w, a) \/ ReleaseOwed(w, a)
  BY DEF WorkerStep
<1>2. ASSUME NEW t, NEW a, AddStake(t, w, a)
      PROVE  UNCHANGED questionsVars
  BY <1>2 DEF AddStake, questionsVars
<1>3. ASSUME NEW t, NEW a, \/ BeginUnstake(w, t, a) \/ Withdraw(w, t, a)
                           \/ CompleteUnstake(w, t)
                           \/ LockOwed(w, a) \/ ReleaseOwed(w, a)
      PROVE  UNCHANGED questionsVars
  BY <1>3 DEF BeginUnstake, Withdraw, CompleteUnstake, LockOwed, ReleaseOwed, questionsVars
<1>4. QED  BY <1>1, <1>2, <1>3 DEF Stake, StakeAsset

\* The admin's configuration and the clock are steps of the lifecycle; the
\* allowlist and the breaker are none of its business.
LEMMA AdminStepIsLifecycle ==
  ASSUME AdminStep \/ CloseLedger
  PROVE  [QuestionsNext]_questionsVars
<1>1. CASE Configure
  BY <1>1 DEF Configure, QuestionsNext
<1>2. ASSUME NEW t, NEW b, SetAssetAllowed(t, b) \/ SetPaused(b) \/ SetConsensusThreshold(b)
      PROVE  UNCHANGED questionsVars
  BY <1>2 DEF SetAssetAllowed, SetPaused, SetConsensusThreshold, questionsVars
<1>3. CASE CloseLedger
  BY <1>3 DEF CloseLedger, QuestionsNext
<1>4. QED  BY <1>1, <1>2, <1>3 DEF AdminStep

\* One step of the contract is one of the lifecycle, or leaves it alone.
LEMMA NextIsLifecycle ==
  ASSUME [Next]_vars
  PROVE  [QuestionsNext]_questionsVars
<1>1. CASE UNCHANGED vars
  BY <1>1 DEF vars, questionsVars
<1>2. CASE Next
  BY <1>2, PayerStepIsLifecycle, SettlementStepIsLifecycle, ConsensusStepIsLifecycle,
     WorkerStepIsStutter, MigrationStepIsLifecycle, AdminStepIsLifecycle DEF Next
<1>3. QED  BY <1>1, <1>2

\* Every execution of the contract is an execution of the lifecycle.
THEOREM ContractRunsLifecycle == Spec => QuestionsSpec
<1>1. Init => QuestionsInit
  BY DEF Init
<1>2. [Next]_vars => [QuestionsNext]_questionsVars
  BY NextIsLifecycle
<1>3. QED  BY <1>1, <1>2, PTL DEF Spec, QuestionsSpec

\* In every reachable state of the contract the index lists exactly the open
\* questions, reviews leave nothing behind, and the counters are exact.
THEOREM ContractIsConsistent ==
  Spec => [](QuestionsTypeOK /\ OpenAreListed /\ ReviewRecordsMatch /\ CountersExact)
BY ContractRunsLifecycle, QuestionsAreConsistent, PTL

\* Whatever else the contract does, a payer's question keeps the promise.
THEOREM ContractKeepsPromise == Spec => PromiseKept
BY ContractRunsLifecycle, QuestionsKeepPromise, PTL
-----------------------------------------------------------------------------
(* What the contract owes, part by part, and how each part moves.          *)

Prepaid(t) == SumFunction(balance[t])
OwedIn(t) == SumFunction(owed[t])
BondsIn(t) == IF t = DefaultToken THEN BondsHeld ELSE 0

MoneyTypeOK ==
  /\ custody \in [Tokens -> Nat]
  /\ balance \in [Tokens -> [Payers -> Nat]]
  /\ owed \in [Tokens -> [Workers -> Nat]]
  /\ owedLock \in [Workers -> Nat]
  /\ participants \subseteq Workers \cup Payers
  /\ allowedTokens \subseteq Tokens
  /\ paused \in BOOLEAN
  /\ resolvedCount \in [Workers -> Nat]

FundsInv ==
  /\ MoneyTypeOK
  /\ StakeInv
  /\ QuestionsInv
  /\ AcceptedVerdicts
  /\ OpenedBefore

\* The parts are numbers, and they are all the contract owes.
LEMMA PartsAreNumbers ==
  ASSUME FundsInv, NEW t \in Tokens
  PROVE  /\ custody[t] \in Nat
         /\ Escrowed(t) \in Nat /\ Prepaid(t) \in Nat /\ OwedIn(t) \in Nat
         /\ Bonded(t) \in Nat /\ BondsHeld \in Nat /\ BondsIn(t) \in Nat
<1>1. Escrowed(t) \in Nat
  <2> DEFINE K == {o \in OpenQuestions : question[o].token = t}
             f == [q \in K |-> question[q].amount]
  <2>1. IsFiniteSet(K)
    BY OpenIsFinite, FS_Subset DEF FundsInv
  <2>2. \A q \in K : f[q] \in Nat
    BY QuestionsAssumption DEF FundsInv, QuestionsInv, QuestionsTypeOK, QuestionType, OpenQuestions
  <2>3. Escrowed(t) = SumFunctionOnSet(f, K)
    BY DEF Escrowed, SumFunction
  <2> HIDE DEF f, K
  <2>4. QED  BY <2>1, <2>2, <2>3, SumNat
<1>2. Prepaid(t) \in Nat /\ OwedIn(t) \in Nat
  <2>1. /\ DOMAIN balance[t] = Payers /\ \A p \in Payers : balance[t][p] \in Nat
        /\ DOMAIN owed[t] = Workers /\ \A w \in Workers : owed[t][w] \in Nat
    BY DEF FundsInv, MoneyTypeOK
  <2>2. SumFunctionOnSet(balance[t], Payers) \in Nat /\ SumFunctionOnSet(owed[t], Workers) \in Nat
    BY <2>1, AccountsAssumption, SumNat
  <2>3. QED  BY <2>1, <2>2 DEF Prepaid, OwedIn, SumFunction
<1>3. Bonded(t) \in Nat
  <2> DEFINE f == [w \in Workers |-> Slashable(stake[t][w])]
  <2>1. \A w \in Workers : f[w] \in Nat
    BY InfoFacts DEF FundsInv, StakeInv, Slashable
  <2>2. Bonded(t) = SumFunctionOnSet(f, Workers)
    BY DEF Bonded, SumFunction
  <2> HIDE DEF f
  <2>3. QED  BY <2>1, <2>2, AccountsAssumption, SumNat
<1>4. BondsHeld \in Nat
  <2> DEFINE D == DOMAIN challengerBond
             f == [q \in D |-> challengerBond[q].amount]
  <2>1. D \subseteq OpenQuestions
    BY DEF FundsInv, QuestionsInv, ReviewRecordsMatch, WithStatus, OpenQuestions, OpenStatuses
  <2>2. IsFiniteSet(D)
    BY <2>1, OpenIsFinite, FS_Subset DEF FundsInv
  <2>3. \A q \in D : f[q] \in Nat
    BY QuestionsAssumption DEF FundsInv, QuestionsInv, QuestionsTypeOK
  <2>4. BondsHeld = SumFunctionOnSet(f, D)
    BY DEF BondsHeld, SumFunction
  <2> HIDE DEF f, D
  <2>5. QED  BY <2>2, <2>3, <2>4, SumNat
<1>5. QED  BY <1>1, <1>2, <1>3, <1>4 DEF FundsInv, MoneyTypeOK, BondsIn

\* The books of one asset stay balanced when what comes in or goes out is what
\* its obligations move by.
LEMMA BooksBalance ==
  ASSUME FundsInv, NEW t \in Tokens, custody[t] = Obligations(t),
         Escrowed(t)' \in Int, Prepaid(t)' \in Int, OwedIn(t)' \in Int, Bonded(t)' \in Int,
         BondsIn(t)' \in Int, custody'[t] \in Int,
         custody'[t] - custody[t]
           = (Escrowed(t)' - Escrowed(t)) + (Prepaid(t)' - Prepaid(t))
              + (OwedIn(t)' - OwedIn(t)) + (Bonded(t)' - Bonded(t)) + (BondsIn(t)' - BondsIn(t))
  PROVE  custody'[t] = Obligations(t)'
<1>1. /\ Escrowed(t) \in Nat /\ Prepaid(t) \in Nat /\ OwedIn(t) \in Nat
      /\ Bonded(t) \in Nat /\ BondsIn(t) \in Nat
  BY PartsAreNumbers
<1>2. /\ Obligations(t) = Escrowed(t) + Prepaid(t) + OwedIn(t) + Bonded(t) + BondsIn(t)
      /\ Obligations(t)' = Escrowed(t)' + Prepaid(t)' + OwedIn(t)' + Bonded(t)' + BondsIn(t)'
  BY DEF Obligations, Prepaid, OwedIn, BondsIn
<1>3. QED  BY <1>1, <1>2

\* What a call does not touch keeps its part of the books.
LEMMA PartsUntouched ==
  ASSUME NEW t \in Tokens
  PROVE  /\ UNCHANGED question => Escrowed(t)' = Escrowed(t)
         /\ UNCHANGED balance => Prepaid(t)' = Prepaid(t)
         /\ UNCHANGED owed => OwedIn(t)' = OwedIn(t)
         /\ UNCHANGED stake => Bonded(t)' = Bonded(t)
         /\ UNCHANGED challengerBond => BondsHeld' = BondsHeld /\ BondsIn(t)' = BondsIn(t)
BY DEF Escrowed, OpenQuestions, Prepaid, OwedIn, Bonded, BondsHeld, BondsIn

\* Escrowed amounts, bonds and stakes are numbers.
LEMMA AmountsAreNumbers ==
  ASSUME QuestionsInv
  PROVE  /\ \A a \in Amounts \cup Bonds : a \in Nat /\ a > 0
         /\ \A o \in DOMAIN question : question[o] \in QuestionType /\ question[o].amount \in Nat
         /\ \A o \in DOMAIN challengerBond : challengerBond[o].amount \in Nat
<1>1. \A a \in Amounts \cup Bonds : a \in Nat /\ a > 0
  BY QuestionsAssumption
<1>2. \A o \in DOMAIN question : question[o] \in QuestionType /\ question[o].amount \in Amounts
  BY DEF QuestionsInv, QuestionsTypeOK, QuestionType
<1>3. \A o \in DOMAIN challengerBond : challengerBond[o].amount \in Bonds
  BY DEF QuestionsInv, QuestionsTypeOK
<1>4. QED  BY <1>1, <1>2, <1>3

\* What can be slashed of a stake is an amount.
LEMMA SlashableIsNumber ==
  ASSUME StakeInv, NEW t \in Tokens, NEW w \in Workers
  PROVE  Slashable(stake[t][w]) \in Nat
<1>1. InfoOK(stake[t][w], seq)
  BY DEF StakeInv
<1>2. /\ stake[t][w].settled \in Nat /\ stake[t][w].warming \in Nat
      /\ stake[t][w].unbonding \in Nat
  BY <1>1, InfoFacts
<1>3. QED  BY <1>2 DEF Slashable

\* What is unbonding is a number, and what no call touches does not grow.
NoBucketGrows ==
  \A t \in Tokens, w \in Workers : stake'[t][w].unbonding <= stake[t][w].unbonding

\* So is what is being unstaked; a call that leaves the stakes alone lets none
\* grow.
LEMMA UnbondingIsNumber ==
  ASSUME StakeInv
  PROVE  /\ \A t \in Tokens, w \in Workers : stake[t][w].unbonding \in Nat
         /\ UNCHANGED stake => NoBucketGrows
<1>1. \A t \in Tokens, w \in Workers : stake[t][w].unbonding \in Nat
  BY InfoFacts DEF StakeInv
<1>2. QED  BY <1>1 DEF NoBucketGrows

\* A question that opens is owed to its payer from then on.
LEMMA EscrowOpens ==
  ASSUME QuestionsInv, NEW q, q \notin OpenQuestions, NEW record \in QuestionType,
         record.status = "Pending", question' = Put(question, q, record), NEW t
  PROVE  Escrowed(t)' = Escrowed(t) + (IF record.token = t THEN record.amount ELSE 0)
<1> DEFINE K == {o \in OpenQuestions : question[o].token = t}
           L == {o \in OpenQuestions' : question'[o].token = t}
           f == [o \in K |-> question[o].amount]
           g == [o \in L |-> question'[o].amount]
<1>1. /\ DOMAIN question' = DOMAIN question \cup {q} /\ question'[q] = record
      /\ \A o \in DOMAIN question : o # q => question'[o] = question[o]
  BY DEF Put
<1>2. OpenQuestions' = OpenQuestions \cup {q} /\ q \notin K
  BY <1>1 DEF OpenQuestions, OpenStatuses
<1>3. \A o \in OpenQuestions : question'[o] = question[o] /\ question[o].amount \in Int
  BY <1>1, AmountsAreNumbers DEF OpenQuestions
<1>4. IsFiniteSet(K)
  BY OpenIsFinite, FS_Subset
<1>5. Escrowed(t) = SumFunction(f) /\ Escrowed(t)' = SumFunction(g)
      /\ DOMAIN f = K /\ DOMAIN g = L
  BY DEF Escrowed
<1>6. CASE record.token = t
  <2>1. L = K \cup {q}
    BY <1>1, <1>2, <1>3, <1>6
  <2>2. g[q] = record.amount /\ record.amount \in Int
    <3>1. record.amount \in Int
      BY AmountsAreNumbers DEF QuestionType
    <3>2. QED  BY <1>1, <2>1, <3>1
  <2>3. \A o \in K : f[o] \in Int /\ g[o] = f[o]
    BY <1>3, <2>1
  <2> HIDE DEF f, g, K, L
  <2>4. SumFunction(g) = SumFunction(f) + g[q]
    BY <1>2, <1>4, <1>5, <2>1, <2>2, <2>3, EntryAdded
  <2>5. QED  BY <1>5, <1>6, <2>2, <2>4
<1>7. CASE record.token # t
  <2>1. L = K
    BY <1>1, <1>2, <1>3, <1>7
  <2>2. \A o \in K : f[o] \in Int /\ g[o] = f[o]
    BY <1>3, <2>1
  <2> HIDE DEF f, g, K, L
  <2>3. SumFunctionOnSet(g, K) = SumFunctionOnSet(f, K) /\ SumFunctionOnSet(f, K) \in Int
    BY <1>4, <2>2, SumEqual, SumInt
  <2>4. QED  BY <1>5, <1>7, <2>1, <2>3 DEF SumFunction
<1>8. QED  BY <1>6, <1>7

\* A question that leaves the open ones is owed to nobody any more; one that
\* goes under review is still owed.
LEMMA EscrowMoves ==
  ASSUME QuestionsInv, NEW q \in OpenQuestions, NEW status, SetStatus(q, status), NEW t
  PROVE  Escrowed(t)' = Escrowed(t) - (IF status \notin OpenStatuses /\ question[q].token = t
                                         THEN question[q].amount ELSE 0)
<1> DEFINE K == {o \in OpenQuestions : question[o].token = t}
           L == {o \in OpenQuestions' : question'[o].token = t}
           f == [o \in K |-> question[o].amount]
           g == [o \in L |-> question'[o].amount]
<1>1. \A o \in DOMAIN question : question[o] \in QuestionType
  BY DEF QuestionsInv, QuestionsTypeOK
<1>2. /\ DOMAIN question' = DOMAIN question
      /\ question'[q].status = status /\ question'[q].token = question[q].token
      /\ question'[q].amount = question[q].amount
      /\ \A o \in DOMAIN question : o # q => question'[o] = question[o]
  BY <1>1 DEF SetStatus, OpenQuestions, QuestionType
<1>3. \A o \in OpenQuestions : question[o].amount \in Int /\ question'[o].amount = question[o].amount
  BY <1>1, <1>2, AmountsAreNumbers DEF OpenQuestions
<1>4. IsFiniteSet(K)
  BY OpenIsFinite, FS_Subset
<1>5. Escrowed(t) = SumFunction(f) /\ Escrowed(t)' = SumFunction(g)
      /\ DOMAIN f = K /\ DOMAIN g = L
  BY DEF Escrowed
<1>6. CASE status \notin OpenStatuses /\ question[q].token = t
  <2>1. L = K \ {q} /\ q \in K
    BY <1>2, <1>6 DEF OpenQuestions
  <2>2. \A o \in K : f[o] \in Int /\ (o # q => g[o] = f[o])
    BY <1>3, <2>1
  <2>3. f[q] = question[q].amount
    BY <2>1
  <2> HIDE DEF f, g, K, L
  <2>4. SumFunction(g) = SumFunction(f) - f[q]
    BY <1>4, <1>5, <2>1, <2>2, EntryRemoved
  <2>5. QED  BY <1>5, <1>6, <2>3, <2>4
<1>7. CASE ~(status \notin OpenStatuses /\ question[q].token = t)
  <2>1. L = K
    BY <1>2, <1>7 DEF OpenQuestions
  <2>2. \A o \in K : f[o] \in Int /\ g[o] = f[o]
    BY <1>3, <2>1
  <2> HIDE DEF f, g, K, L
  <2>3. SumFunctionOnSet(g, K) = SumFunctionOnSet(f, K) /\ SumFunctionOnSet(f, K) \in Int
    BY <1>4, <2>2, SumEqual, SumInt
  <2>4. QED  BY <1>5, <1>7, <2>1, <2>3 DEF SumFunction
<1>8. QED  BY <1>6, <1>7

\* A challenge bond is held from the post until the verdict is final.
LEMMA BondIsHeld ==
  ASSUME QuestionsInv, NEW q,
         NEW bond, bond.amount \in Int, q \notin DOMAIN challengerBond,
         challengerBond' = Put(challengerBond, q, bond)
  PROVE  BondsHeld' = BondsHeld + bond.amount
<1> DEFINE f == [o \in DOMAIN challengerBond |-> challengerBond[o].amount]
           g == [o \in DOMAIN challengerBond' |-> challengerBond'[o].amount]
<1>1. /\ DOMAIN challengerBond' = DOMAIN challengerBond \cup {q} /\ challengerBond'[q] = bond
      /\ \A o \in DOMAIN challengerBond : challengerBond'[o] = challengerBond[o]
  BY DEF Put
<1>2. \A o \in DOMAIN challengerBond : challengerBond[o].amount \in Int
  BY AmountsAreNumbers
<1>3. DOMAIN challengerBond \subseteq OpenQuestions
  BY DEF QuestionsInv, ReviewRecordsMatch, WithStatus, OpenQuestions, OpenStatuses
<1>4. IsFiniteSet(DOMAIN challengerBond)
  BY <1>3, OpenIsFinite, FS_Subset
<1>5. /\ DOMAIN f = DOMAIN challengerBond /\ DOMAIN g = DOMAIN f \cup {q}
      /\ g[q] = bond.amount /\ \A o \in DOMAIN f : f[o] \in Int /\ g[o] = f[o]
  BY <1>1, <1>2
<1>6. BondsHeld = SumFunction(f) /\ BondsHeld' = SumFunction(g)
  BY DEF BondsHeld
<1> HIDE DEF f, g
<1>7. q \notin DOMAIN f /\ IsFiniteSet(DOMAIN f) /\ g[q] \in Int
  BY <1>4, <1>5
<1>8. SumFunction(g) = SumFunction(f) + g[q]
  BY <1>5, <1>7, EntryAdded
<1>9. QED  BY <1>5, <1>6, <1>8

\* A bond that is forfeited leaves the bonds held.
LEMMA BondIsForfeited ==
  ASSUME QuestionsInv, NEW q, challengerBond' = Without(challengerBond, q)
  PROVE  BondsHeld' = BondsHeld - (IF q \in DOMAIN challengerBond
                                     THEN challengerBond[q].amount ELSE 0)
<1> DEFINE f == [o \in DOMAIN challengerBond |-> challengerBond[o].amount]
           g == [o \in DOMAIN challengerBond' |-> challengerBond'[o].amount]
<1>1. /\ DOMAIN challengerBond' = DOMAIN challengerBond \ {q}
      /\ \A o \in DOMAIN challengerBond' : challengerBond'[o] = challengerBond[o]
  BY DEF Without, Restrict
<1>2. \A o \in DOMAIN challengerBond : challengerBond[o].amount \in Int
  BY AmountsAreNumbers
<1>3. DOMAIN challengerBond \subseteq OpenQuestions
  BY DEF QuestionsInv, ReviewRecordsMatch, WithStatus, OpenQuestions, OpenStatuses
<1>4. IsFiniteSet(DOMAIN challengerBond)
  BY <1>3, OpenIsFinite, FS_Subset
<1>5. /\ DOMAIN f = DOMAIN challengerBond /\ DOMAIN g = DOMAIN f \ {q}
      /\ \A o \in DOMAIN f : f[o] \in Int /\ (o # q => g[o] = f[o])
      /\ q \in DOMAIN f => f[q] = challengerBond[q].amount
  BY <1>1, <1>2
<1>6. BondsHeld = SumFunction(f) /\ BondsHeld' = SumFunction(g)
  BY DEF BondsHeld
<1>7. CASE q \notin DOMAIN challengerBond
  <2>1. DOMAIN g = DOMAIN f /\ g = f
    BY <1>1, <1>7
  <2>2. SumFunctionOnSet(f, DOMAIN f) \in Int
    BY <1>4, <1>5, SumInt
  <2>3. QED  BY <1>6, <1>7, <2>1, <2>2 DEF SumFunction
<1> HIDE DEF f, g
<1>8. CASE q \in DOMAIN challengerBond
  <2>1. IsFiniteSet(DOMAIN f) /\ q \in DOMAIN f
    BY <1>4, <1>5, <1>8
  <2>2. SumFunction(g) = SumFunction(f) - f[q]
    BY <1>5, <2>1, EntryRemoved
  <2>3. QED  BY <1>5, <1>6, <1>8, <2>1, <2>2
<1>9. QED  BY <1>7, <1>8

\* A stake is written: what the contract owes its owner moves with it.
LEMMA StakeIsWritten ==
  ASSUME StakeInv, NEW t \in Tokens, NEW w \in Workers, NEW new, SetStake(t, w, new),
         NEW moved \in Int, Slashable(new) = Slashable(stake[t][w]) + moved, NEW u \in Tokens
  PROVE  Bonded(u)' = Bonded(u) + (IF u = t THEN moved ELSE 0)
<1> DEFINE f == [v \in Workers |-> Slashable(stake[u][v])]
           g == [v \in Workers |-> Slashable(stake'[u][v])]
<1>1. \A v \in Workers : stake'[u][v] = IF u = t /\ v = w THEN new ELSE stake[u][v]
  BY DEF StakeInv, SetStake
<1>2. \A v \in Workers : Slashable(stake[u][v]) \in Int
  BY SlashableIsNumber
<1> DEFINE delta == IF u = t THEN moved ELSE 0
<1>3. delta \in Int /\ \A v \in Workers : f[v] \in Int /\ g[v] = f[v] + (IF v = w THEN delta ELSE 0)
  BY <1>1, <1>2
<1>4. Bonded(u) = SumFunctionOnSet(f, Workers) /\ Bonded(u)' = SumFunctionOnSet(g, Workers)
  BY DEF Bonded, SumFunction
<1> HIDE DEF f, g, delta
<1>5. SumFunctionOnSet(g, Workers) = SumFunctionOnSet(f, Workers) + delta
  BY <1>3, AccountsAssumption, SumCredited
<1>6. QED  BY <1>4, <1>5 DEF delta

\* A transfer moves the custody of its asset and of no other.
LEMMA CustodyMoves ==
  ASSUME MoneyTypeOK, NEW t \in Tokens, NEW a \in Nat
  PROVE  /\ Receive(t, a) =>
              /\ custody' \in [Tokens -> Nat]
              /\ \A u \in Tokens : custody'[u] = custody[u] + (IF u = t THEN a ELSE 0)
         /\ PayOut(t, a) =>
              /\ custody' \in [Tokens -> Nat]
              /\ \A u \in Tokens : custody'[u] = custody[u] - (IF u = t THEN a ELSE 0)
<1>1. custody \in [Tokens -> Nat]
  BY DEF MoneyTypeOK
<1>2. ASSUME Receive(t, a)
      PROVE  /\ custody' \in [Tokens -> Nat]
             /\ \A u \in Tokens : custody'[u] = custody[u] + (IF u = t THEN a ELSE 0)
  BY <1>1, <1>2 DEF Receive
<1>3. ASSUME PayOut(t, a)
      PROVE  /\ custody' \in [Tokens -> Nat]
             /\ \A u \in Tokens : custody'[u] = custody[u] - (IF u = t THEN a ELSE 0)
  <2>1. custody[t] - a \in Nat /\ custody' = [custody EXCEPT ![t] = custody[t] - a]
    BY <1>1, <1>3 DEF PayOut
  <2>2. QED  BY <1>1, <2>1
<1>4. QED  BY <1>2, <1>3

\* One prepaid balance, or one worker's credit, is written.
LEMMA PrepaidMoves ==
  ASSUME MoneyTypeOK, NEW t \in Tokens, NEW p \in Payers, NEW value \in Nat,
         balance' = [balance EXCEPT ![t][p] = value]
  PROVE  /\ balance' \in [Tokens -> [Payers -> Nat]]
         /\ \A u \in Tokens : Prepaid(u)' = Prepaid(u) + (IF u = t THEN value - balance[t][p] ELSE 0)
<1>1. balance \in [Tokens -> [Payers -> Nat]] /\ value \in Int
  BY DEF MoneyTypeOK
<1>2. balance' \in [Tokens -> [Payers -> Nat]]
  BY <1>1
<1>3. ASSUME NEW u \in Tokens
      PROVE  SumFunction([balance EXCEPT ![t][p] = value][u])
               = SumFunction(balance[u]) + (IF u = t THEN value - balance[t][p] ELSE 0)
  BY <1>1, AccountsAssumption, TableWritten
<1>4. QED  BY <1>2, <1>3 DEF Prepaid

\* A write of one worker's credits moves the sum of the credits by as much.
LEMMA OwedMoves ==
  ASSUME MoneyTypeOK, NEW t \in Tokens, NEW w \in Workers, NEW value \in Nat,
         owed' = [owed EXCEPT ![t][w] = value]
  PROVE  /\ owed' \in [Tokens -> [Workers -> Nat]]
         /\ \A u \in Tokens : OwedIn(u)' = OwedIn(u) + (IF u = t THEN value - owed[t][w] ELSE 0)
<1>1. owed \in [Tokens -> [Workers -> Nat]] /\ value \in Int
  BY DEF MoneyTypeOK
<1>2. owed' \in [Tokens -> [Workers -> Nat]]
  BY <1>1
<1>3. ASSUME NEW u \in Tokens
      PROVE  SumFunction([owed EXCEPT ![t][w] = value][u])
               = SumFunction(owed[u]) + (IF u = t THEN value - owed[t][w] ELSE 0)
  BY <1>1, AccountsAssumption, TableWritten
<1>4. QED  BY <1>2, <1>3 DEF OwedIn

\* Stakes that no call touches are as good at the next ledger.
LEMMA StakesUntouched ==
  ASSUME StakeInv, UNCHANGED stake, seq' \in {seq, seq + 1}
  PROVE  StakeInv' /\ EveryRecordStep
<1>1. ASSUME NEW t \in Tokens, NEW w \in Workers
      PROVE  RecordStep(stake[t][w], stake[t][w], seq, seq')
  <2>1. seq \in Nat /\ InfoOK(stake[t][w], seq)
    BY DEF StakeInv
  <2>2. RecordStep(stake[t][w], stake[t][w], seq, seq)
        /\ RecordStep(stake[t][w], stake[t][w], seq, seq + 1)
    BY <2>1, StillStep
  <2>3. QED  BY <2>2
<1>2. seq' \in Nat
  BY DEF StakeInv
<1>3. QED  BY <1>1, <1>2 DEF StakeInv, EveryRecordStep, RecordStep

-----------------------------------------------------------------------------
(* Every call keeps the books.                                             *)

\* post_challenge_bond() takes default-asset units for a question in any asset,
\* and finalize_resolve() pays the bond out in the question's: what the books
\* cannot survive is a bond on a question in another asset.
BondsInDefault == \A q \in DOMAIN challengerBond : question[q].token = DefaultToken

BooksKept ==
  /\ MoneyTypeOK'
  /\ StakeInv'
  /\ BondsInDefault /\ Solvency => Solvency'

\* The three ways a question comes to be owed to its payer.
Opens(q, t, a) ==
  /\ q \notin OpenQuestions
  /\ \E record \in QuestionType :
       /\ record.status = "Pending" /\ record.token = t /\ record.amount = a
       /\ question' = Put(question, q, record)
  /\ UNCHANGED reviewVars

\* Opening, importing and reopening a question are the same to the books.
LEMMA OpeningOpens ==
  ASSUME QuestionsInv, NEW q \in Ids, NEW p \in Payers, NEW t \in Tokens, NEW a \in Amounts
  PROVE  /\ OpenQuestion(q, p, t, a) => Opens(q, t, a)
         /\ ImportStep(q, p, t, a) => Opens(q, t, a)
         /\ ReopenQuestion(q, a) => Opens(q, question[q].token, a) /\ question[q].token \in Tokens
<1>1. /\ seq \in 0 .. MaxSeq /\ MaxSeq \in Nat /\ timeoutLedgers \in Timeouts
      /\ \A o \in DOMAIN question : question[o] \in QuestionType
  BY LedgerAssumption DEF QuestionsInv, QuestionsTypeOK
<1>2. ASSUME OpenQuestion(q, p, t, a)
      PROVE  Opens(q, t, a)
  <2> DEFINE record == Opened(p, t, a, timeoutLedgers)
  <2>1. /\ record \in QuestionType /\ record.status = "Pending" /\ record.token = t
        /\ record.amount = a
    BY <1>1 DEF Opened, QuestionType, Statuses, OpenStatuses
  <2>2. q \notin OpenQuestions /\ question' = Put(question, q, record) /\ UNCHANGED reviewVars
    BY <1>2 DEF OpenQuestion, OpenQuestions
  <2> HIDE DEF record
  <2>3. QED  BY <2>1, <2>2 DEF Opens
<1>3. ASSUME ImportStep(q, p, t, a)
      PROVE  Opens(q, t, a)
  <2>1. PICK age \in ImportAges, timeout \in Timeouts :
          age <= seq /\ ImportQuestion(q, p, t, a, seq - age, timeout)
    BY <1>3 DEF ImportStep
  <2> DEFINE record == Imported(p, t, a, seq - age, timeout)
  <2>2. seq - age \in 0 .. MaxSeq
    BY <1>1, <2>1, QuestionsAssumption
  <2>3. record = [payer |-> p, token |-> t, amount |-> a, status |-> "Pending",
                  createdAt |-> seq - age, timeout |-> timeout]
    BY DEF Imported, Opened
  <2>4. /\ record \in QuestionType /\ record.status = "Pending" /\ record.token = t
        /\ record.amount = a
    BY <2>2, <2>3 DEF QuestionType, Statuses, OpenStatuses
  <2>5. q \notin OpenQuestions /\ question' = Put(question, q, record) /\ UNCHANGED reviewVars
    BY <2>1 DEF ImportQuestion, OpenQuestions
  <2> HIDE DEF record
  <2>6. QED  BY <2>4, <2>5 DEF Opens
<1>4. ASSUME ReopenQuestion(q, a)
      PROVE  Opens(q, question[q].token, a) /\ question[q].token \in Tokens
  <2> DEFINE record == Reopened(question[q], a)
  <2>1. q \in DOMAIN question /\ question[q].status = "Refunded"
        /\ question' = Put(question, q, record) /\ UNCHANGED reviewVars
    BY <1>4 DEF ReopenQuestion, StatusIs
  <2>2. /\ question[q].payer \in Payers /\ question[q].token \in Tokens
        /\ question[q].timeout \in Timeouts
    BY <1>1, <2>1 DEF QuestionType
  <2>3. /\ record \in QuestionType /\ record.status = "Pending"
        /\ record.token = question[q].token /\ record.amount = a
    BY <1>1, <2>2 DEF Reopened, Opened, QuestionType, Statuses, OpenStatuses
  <2>4. q \notin OpenQuestions
    BY <2>1 DEF OpenQuestions, OpenStatuses
  <2> HIDE DEF record
  <2>5. QED  BY <2>1, <2>2, <2>3, <2>4 DEF Opens
<1>5. QED  BY <1>2, <1>3, <1>4

\* What it does to the books, with the money coming in or out of a balance.
LEMMA OpensMoves ==
  ASSUME QuestionsInv, NEW q, NEW t \in Tokens, NEW a \in Amounts, Opens(q, t, a), NEW u \in Tokens
  PROVE  /\ Escrowed(u)' = Escrowed(u) + (IF u = t THEN a ELSE 0)
         /\ BondsIn(u)' = BondsIn(u)
<1>1. PICK record \in QuestionType :
        /\ record.status = "Pending" /\ record.token = t /\ record.amount = a
        /\ question' = Put(question, q, record)
  BY DEF Opens
<1>2. Escrowed(u)' = Escrowed(u) + (IF record.token = u THEN record.amount ELSE 0)
  BY <1>1, EscrowOpens DEF Opens
<1>3. BondsIn(u)' = BondsIn(u)
  BY PartsUntouched DEF Opens, reviewVars
<1>4. QED  BY <1>1, <1>2, <1>3

\* A question opened with money that arrives in the same call: submit(),
\* reopen_question(), import_question().
LEMMA FundedOpeningKeepsBooks ==
  ASSUME FundsInv, NEW q, NEW t \in Tokens, NEW a \in Amounts, Opens(q, t, a), Receive(t, a),
         UNCHANGED <<seq, bookVars, balance, owed, owedLock, participants, accessVars>>
  PROVE  BooksKept
<1>1. a \in Nat
  BY AmountsAreNumbers DEF FundsInv
<1>2. custody' \in [Tokens -> Nat]
      /\ \A u \in Tokens : custody'[u] = custody[u] + (IF u = t THEN a ELSE 0)
  BY <1>1, CustodyMoves DEF FundsInv
<1>3. MoneyTypeOK'
  BY <1>2 DEF FundsInv, MoneyTypeOK, bookVars, rankingVars, accessVars
<1>4. StakeInv'
  BY StakesUntouched DEF FundsInv, bookVars
<1>5. ASSUME Solvency, NEW u \in Tokens
      PROVE  custody'[u] = Obligations(u)'
  <2>1. /\ Escrowed(u)' = Escrowed(u) + (IF u = t THEN a ELSE 0)
        /\ BondsIn(u)' = BondsIn(u)
    BY OpensMoves DEF FundsInv
  <2>2. Prepaid(u)' = Prepaid(u) /\ OwedIn(u)' = OwedIn(u) /\ Bonded(u)' = Bonded(u)
    BY PartsUntouched DEF bookVars
  <2>3. custody[u] = Obligations(u)
    BY <1>5 DEF Solvency
  <2>4. QED  BY <1>1, <1>2, <2>1, <2>2, <2>3, PartsAreNumbers, BooksBalance
<1>6. QED  BY <1>3, <1>4, <1>5 DEF BooksKept, Solvency

\* charge(): the prepaid balance becomes escrow, and nothing arrives.
LEMMA ChargeKeepsBooks ==
  ASSUME FundsInv, NEW q \in Ids, NEW p \in Payers, NEW t \in Tokens, NEW a \in Amounts,
         Charge(q, p, t, a)
  PROVE  BooksKept
<1>1. a \in Nat
  BY AmountsAreNumbers DEF FundsInv
<1>2. /\ a <= balance[t][p] /\ balance' = [balance EXCEPT ![t][p] = balance[t][p] - a]
      /\ Opens(q, t, a)
      /\ UNCHANGED <<seq, bookVars, custody, owed, owedLock, participants, accessVars>>
  BY OpeningOpens DEF Charge, FundsInv
<1>3. balance[t][p] \in Nat
  BY DEF FundsInv, MoneyTypeOK
<1>4. balance[t][p] - a \in Nat
  BY <1>1, <1>2, <1>3
<1>5. /\ balance' \in [Tokens -> [Payers -> Nat]]
      /\ \A u \in Tokens : Prepaid(u)' = Prepaid(u)
                             + (IF u = t THEN (balance[t][p] - a) - balance[t][p] ELSE 0)
  BY <1>2, <1>4, PrepaidMoves DEF FundsInv
<1>6. MoneyTypeOK'
  BY <1>2, <1>5 DEF FundsInv, MoneyTypeOK, bookVars, rankingVars, accessVars
<1>7. StakeInv'
  BY <1>2, StakesUntouched DEF FundsInv, bookVars
<1>8. ASSUME Solvency, NEW u \in Tokens
      PROVE  custody'[u] = Obligations(u)'
  <2>1. /\ Escrowed(u)' = Escrowed(u) + (IF u = t THEN a ELSE 0)
        /\ BondsIn(u)' = BondsIn(u)
    BY <1>2, OpensMoves DEF FundsInv
  <2>2. OwedIn(u)' = OwedIn(u) /\ Bonded(u)' = Bonded(u) /\ custody'[u] = custody[u]
    BY <1>2, PartsUntouched DEF bookVars
  <2>3. custody[u] = Obligations(u)
    BY <1>8 DEF Solvency
  <2>4. QED  BY <1>1, <1>3, <1>5, <2>1, <2>2, <2>3, PartsAreNumbers, BooksBalance
<1>9. QED  BY <1>6, <1>7, <1>8 DEF BooksKept, Solvency

TakeBalance(t, p, a) ==
  /\ a <= balance[t][p]
  /\ balance' = [balance EXCEPT ![t][p] = @ - a]
  /\ PayOut(t, a)

\* Deposits and withdrawals move a balance and the custody alike.
LEMMA BalanceMoveKeepsBooks ==
  ASSUME FundsInv, NEW p \in Payers, NEW t \in Tokens, NEW a \in Nat,
         AddBalance(t, p, a) \/ TakeBalance(t, p, a),
         participants' \in SUBSET (Workers \cup Payers),
         UNCHANGED <<seq, recordVars, bookVars, owed, owedLock, accessVars>>
  PROVE  BooksKept
<1>1. balance[t][p] \in Nat
  BY DEF FundsInv, MoneyTypeOK
<1>2. PICK d \in Int :
        /\ balance[t][p] + d \in Nat /\ balance' = [balance EXCEPT ![t][p] = balance[t][p] + d]
        /\ custody' \in [Tokens -> Nat]
        /\ \A u \in Tokens : custody'[u] = custody[u] + (IF u = t THEN d ELSE 0)
  <2>1. CASE AddBalance(t, p, a)
    <3>1. Receive(t, a) /\ balance' = [balance EXCEPT ![t][p] = balance[t][p] + a]
      BY <2>1 DEF AddBalance
    <3>2. /\ a \in Int
          /\ balance[t][p] + a \in Nat /\ balance' = [balance EXCEPT ![t][p] = balance[t][p] + a]
          /\ custody' \in [Tokens -> Nat]
          /\ \A u \in Tokens : custody'[u] = custody[u] + (IF u = t THEN a ELSE 0)
      BY <1>1, <3>1, CustodyMoves DEF FundsInv
    <3>3. QED  BY ONLY <3>2, Zenon
  <2>2. CASE TakeBalance(t, p, a)
    <3> DEFINE d == 0 - a
    <3>1. d \in Int /\ balance[t][p] - a = balance[t][p] + d /\ balance[t][p] + d \in Nat
          /\ \A x \in Nat : x - a = x + d
      BY <1>1, <2>2 DEF TakeBalance
    <3>2. balance' = [balance EXCEPT ![t][p] = balance[t][p] + d]
      BY <2>2, <3>1 DEF TakeBalance
    <3>3. /\ custody' \in [Tokens -> Nat]
          /\ \A u \in Tokens : custody'[u] = custody[u] - (IF u = t THEN a ELSE 0)
      BY <2>2, CustodyMoves DEF FundsInv, TakeBalance
    <3>4. \A u \in Tokens : custody'[u] = custody[u] + (IF u = t THEN d ELSE 0)
      BY <3>3 DEF FundsInv, MoneyTypeOK
    <3> HIDE DEF d
    <3>5. /\ d \in Int
          /\ balance[t][p] + d \in Nat /\ balance' = [balance EXCEPT ![t][p] = balance[t][p] + d]
          /\ custody' \in [Tokens -> Nat]
          /\ \A u \in Tokens : custody'[u] = custody[u] + (IF u = t THEN d ELSE 0)
      BY <3>1, <3>2, <3>3, <3>4
    <3>6. QED  BY ONLY <3>5, Zenon
  <2>3. QED  BY <2>1, <2>2
<1> DEFINE value == balance[t][p] + d
<1>3. value \in Nat /\ balance' = [balance EXCEPT ![t][p] = value] /\ value - balance[t][p] = d
  BY <1>1, <1>2
<1> HIDE DEF value
<1>4. /\ balance' \in [Tokens -> [Payers -> Nat]]
      /\ \A u \in Tokens : Prepaid(u)' = Prepaid(u) + (IF u = t THEN value - balance[t][p] ELSE 0)
  BY <1>3, PrepaidMoves DEF FundsInv
<1>5. MoneyTypeOK'
  BY <1>2, <1>4 DEF FundsInv, MoneyTypeOK, bookVars, rankingVars, accessVars
<1>6. StakeInv'
  BY StakesUntouched DEF FundsInv, bookVars
<1>7. ASSUME Solvency, NEW u \in Tokens
      PROVE  custody'[u] = Obligations(u)'
  <2>1. /\ Escrowed(u)' = Escrowed(u) /\ BondsIn(u)' = BondsIn(u)
        /\ OwedIn(u)' = OwedIn(u) /\ Bonded(u)' = Bonded(u)
    BY PartsUntouched DEF bookVars, recordVars, reviewVars
  <2>2. Prepaid(u)' = Prepaid(u) + (IF u = t THEN d ELSE 0)
    BY <1>3, <1>4
  <2>3. custody[u] = Obligations(u)
    BY <1>7 DEF Solvency
  <2>4. QED  BY <1>2, <2>1, <2>2, <2>3, PartsAreNumbers, BooksBalance
<1>8. QED  BY <1>5, <1>6, <1>7 DEF BooksKept, Solvency

\* Every call of a payer.
LEMMA PayerStepKeepsBooks ==
  ASSUME FundsInv, PayerStep
  PROVE  BooksKept
<1>1. PICK p \in Payers, t \in Tokens :
        \/ \E q \in Ids, a \in Amounts : Submit(q, p, t, a) \/ Charge(q, p, t, a)
        \/ \E a \in Deposits : DepositAsset(p, t, a)
        \/ \E a \in Deposits : t = DefaultToken /\ Deposit(p, a)
        \/ \E a \in Parts : WithdrawBalance(p, t, a)
  BY DEF PayerStep
<1>2. /\ \A a \in Deposits \cup Parts : a \in Nat
      /\ participants \in SUBSET (Workers \cup Payers)
      /\ participants \cup {p} \in SUBSET (Workers \cup Payers)
  BY EscrowAssumption DEF FundsInv, MoneyTypeOK
<1>3. ASSUME NEW q \in Ids, NEW a \in Amounts, Submit(q, p, t, a)
      PROVE  BooksKept
  <2>1. Opens(q, t, a)
    BY <1>3, OpeningOpens DEF Submit, FundsInv
  <2>2. QED  BY <1>3, <2>1, FundedOpeningKeepsBooks DEF Submit
<1>4. ASSUME NEW q \in Ids, NEW a \in Amounts, Charge(q, p, t, a)
      PROVE  BooksKept
  BY <1>4, ChargeKeepsBooks
<1>5. ASSUME NEW a \in Deposits,
             \/ DepositAsset(p, t, a)
             \/ t = DefaultToken /\ Deposit(p, a)
      PROVE  BooksKept
  <2>1. a \in Nat
    BY <1>2
  <2>2. /\ AddBalance(t, p, a) /\ participants' \in SUBSET (Workers \cup Payers)
        /\ UNCHANGED <<seq, recordVars, bookVars, owed, owedLock, accessVars>>
    BY <1>2, <1>5 DEF DepositAsset, Deposit, Track
  <2>3. QED  BY <2>1, <2>2, BalanceMoveKeepsBooks
<1>6. ASSUME NEW a \in Parts, WithdrawBalance(p, t, a)
      PROVE  BooksKept
  <2>1. a \in Nat
    BY <1>2
  <2>2. /\ TakeBalance(t, p, a)
        /\ participants' \in SUBSET (Workers \cup Payers)
        /\ UNCHANGED <<seq, recordVars, bookVars, owed, owedLock, accessVars>>
    BY <1>2, <1>6 DEF WithdrawBalance, TakeBalance
  <2>3. QED  BY <2>1, <2>2, BalanceMoveKeepsBooks
<1>7. CASE \E q \in Ids, a \in Amounts : Submit(q, p, t, a) \/ Charge(q, p, t, a)
  BY <1>3, <1>4, <1>7
<1>8. QED  BY <1>1, <1>5, <1>6, <1>7

\* The token and the amount of an open question.
LEMMA OpenFacts ==
  ASSUME QuestionsInv, NEW q \in OpenQuestions
  PROVE  /\ q \in DOMAIN question /\ question[q].token \in Tokens
         /\ question[q].amount \in Nat /\ question[q].amount > 0
<1>1. q \in DOMAIN question /\ question[q] \in QuestionType
  BY DEF OpenQuestions, QuestionsInv, QuestionsTypeOK
<1>2. question[q].token \in Tokens /\ question[q].amount \in Amounts
  BY <1>1 DEF QuestionType
<1>3. QED  BY <1>1, <1>2, AmountsAreNumbers

\* A refund, on time or by the admin, and a question that moves away: the money
\* that was held for the question leaves, and no other.
LEMMA ReturnKeepsBooks ==
  ASSUME FundsInv, NEW q, StatusIs(q, "Pending"), NEW status \in FinalStatuses,
         SetStatus(q, status), UNCHANGED reviewVars, PayBack(q)
  PROVE  BooksKept
<1> DEFINE t == question[q].token
           a == question[q].amount
<1>1. q \in OpenQuestions
  BY DEF StatusIs, OpenQuestions, OpenStatuses
<1>2. t \in Tokens /\ a \in Nat
  BY <1>1, OpenFacts DEF FundsInv
<1>3. custody' \in [Tokens -> Nat]
      /\ \A u \in Tokens : custody'[u] = custody[u] - (IF u = t THEN a ELSE 0)
  BY <1>2, CustodyMoves DEF FundsInv, PayBack
<1>4. MoneyTypeOK'
  BY <1>3 DEF FundsInv, MoneyTypeOK, PayBack, bookVars, rankingVars, accessVars
<1>5. StakeInv'
  BY StakesUntouched DEF FundsInv, PayBack, bookVars
<1>6. ASSUME Solvency, NEW u \in Tokens
      PROVE  custody'[u] = Obligations(u)'
  <2>1. Escrowed(u)' = Escrowed(u) - (IF u = t THEN a ELSE 0)
    <3>1. status \notin OpenStatuses
      BY DEF FinalStatuses, OpenStatuses
    <3>2. Escrowed(u)' = Escrowed(u) - (IF status \notin OpenStatuses /\ question[q].token = u
                                          THEN question[q].amount ELSE 0)
      BY <1>1, EscrowMoves DEF FundsInv
    <3>3. QED  BY <3>1, <3>2
  <2>2. /\ Prepaid(u)' = Prepaid(u) /\ OwedIn(u)' = OwedIn(u) /\ Bonded(u)' = Bonded(u)
        /\ BondsIn(u)' = BondsIn(u)
    BY PartsUntouched DEF PayBack, bookVars, reviewVars
  <2>3. custody[u] = Obligations(u)
    BY <1>6 DEF Solvency
  <2> HIDE DEF t, a
  <2>4. QED  BY <1>2, <1>3, <2>1, <2>2, <2>3, PartsAreNumbers, BooksBalance
<1>7. QED  BY <1>4, <1>5, <1>6 DEF BooksKept, Solvency

\* A question that goes under review, or is disputed there, moves no money.
LEMMA ReviewKeepsBooks ==
  ASSUME FundsInv, UNCHANGED <<seq, moneyVars, accessVars, challengerBond>>,
         \/ UNCHANGED question
         \/ \E q \in OpenQuestions, status \in OpenStatuses : SetStatus(q, status)
  PROVE  BooksKept
<1>1. MoneyTypeOK'
  BY DEF FundsInv, MoneyTypeOK, moneyVars, bookVars, rankingVars, accessVars
<1>2. StakeInv'
  BY StakesUntouched DEF FundsInv, moneyVars, bookVars
<1>3. ASSUME Solvency, NEW u \in Tokens
      PROVE  custody'[u] = Obligations(u)'
  <2>1. Escrowed(u)' = Escrowed(u)
    <3>1. CASE UNCHANGED question
      BY <3>1, PartsUntouched
    <3>2. ASSUME NEW q \in OpenQuestions, NEW status \in OpenStatuses, SetStatus(q, status)
          PROVE  Escrowed(u)' = Escrowed(u)
      <4>1. Escrowed(u)' = Escrowed(u) - (IF status \notin OpenStatuses /\ question[q].token = u
                                            THEN question[q].amount ELSE 0)
        BY <3>2, EscrowMoves DEF FundsInv
      <4>2. Escrowed(u) \in Nat
        BY PartsAreNumbers
      <4>3. QED  BY <4>1, <4>2
    <3>3. QED  BY <3>1, <3>2
  <2>2. /\ Prepaid(u)' = Prepaid(u) /\ OwedIn(u)' = OwedIn(u) /\ Bonded(u)' = Bonded(u)
        /\ BondsIn(u)' = BondsIn(u) /\ custody'[u] = custody[u]
    BY PartsUntouched DEF moneyVars, bookVars
  <2>3. custody[u] = Obligations(u)
    BY <1>3 DEF Solvency
  <2>4. QED  BY <2>1, <2>2, <2>3, PartsAreNumbers, BooksBalance
<1>4. QED  BY <1>1, <1>2, <1>3 DEF BooksKept, Solvency

\* A challenge bond comes in, in the default asset.
LEMMA BondKeepsBooks ==
  ASSUME FundsInv, NEW q, NEW c \in Challengers, NEW a \in Bonds, PostChallengeBond(q, c, a)
  PROVE  BooksKept
<1> DEFINE bond == [challenger |-> c, amount |-> a]
<1>1. a \in Nat /\ DefaultToken \in Tokens
  BY AmountsAreNumbers, EscrowAssumption DEF FundsInv
<1>2. /\ Receive(DefaultToken, a) /\ UNCHANGED <<question, pendingResolution, escalatedQuestion>>
      /\ q \notin DOMAIN challengerBond /\ challengerBond' = Put(challengerBond, q, bond)
      /\ UNCHANGED <<seq, bookVars, balance, owed, owedLock, participants, accessVars>>
  BY DEF PostChallengeBond, PostBond
<1>3. custody' \in [Tokens -> Nat]
      /\ \A u \in Tokens : custody'[u] = custody[u] + (IF u = DefaultToken THEN a ELSE 0)
  BY <1>1, <1>2, CustodyMoves DEF FundsInv
<1>4. MoneyTypeOK'
  BY <1>2, <1>3 DEF FundsInv, MoneyTypeOK, bookVars, rankingVars, accessVars
<1>5. StakeInv'
  BY <1>2, StakesUntouched DEF FundsInv, bookVars
<1>6. BondsHeld' = BondsHeld + a
  <2>1. bond.amount = a
    OBVIOUS
  <2> HIDE DEF bond
  <2>2. bond.amount \in Int
    BY <1>1, <2>1
  <2>3. BondsHeld' = BondsHeld + bond.amount
    BY <1>2, <2>2, BondIsHeld DEF FundsInv
  <2>4. QED  BY <2>1, <2>3
<1>7. ASSUME Solvency, NEW u \in Tokens
      PROVE  custody'[u] = Obligations(u)'
  <2>1. BondsIn(u)' = BondsIn(u) + (IF u = DefaultToken THEN a ELSE 0)
    BY <1>6 DEF BondsIn
  <2>2. /\ Escrowed(u)' = Escrowed(u) /\ Prepaid(u)' = Prepaid(u) /\ OwedIn(u)' = OwedIn(u)
        /\ Bonded(u)' = Bonded(u)
    BY <1>2, PartsUntouched DEF bookVars
  <2>3. custody[u] = Obligations(u)
    BY <1>7 DEF Solvency
  <2>4. QED  BY <1>1, <1>3, <2>1, <2>2, <2>3, PartsAreNumbers, BooksBalance
<1>8. QED  BY <1>4, <1>5, <1>7 DEF BooksKept, Solvency
-----------------------------------------------------------------------------
(* A settlement: the amount, what is slashed and a forfeited bond go to    *)
(* the winners, as credits, and to the platform.                           *)

\* Nobody is named twice: a list has as many names as entries.
LEMMA NamesAreCounted ==
  ASSUME NEW list \in Seq(Workers), ~Duplicates(list)
  PROVE  /\ Len(list) \in Nat /\ Range(list) \subseteq Workers
         /\ IsFiniteSet(Range(list)) /\ Cardinality(Range(list)) = Len(list)
<1> DEFINE N == 1 .. Len(list)
           R == Range(list)
           h == [i \in N |-> list[i]]
<1>1. Len(list) \in Nat /\ DOMAIN list = N /\ \A i \in N : list[i] \in Workers
  OBVIOUS
<1>2. R = {list[i] : i \in N} /\ R \subseteq Workers
  BY <1>1 DEF Range
<1>3. \A i, j \in N : list[i] = list[j] => i = j
  BY <1>1 DEF Duplicates
<1>4. IsFiniteSet(N) /\ Cardinality(N) = Len(list)
  <2>1. /\ IsFiniteSet(1 .. Len(list))
        /\ Cardinality(1 .. Len(list)) = IF 1 > Len(list) THEN 0 ELSE Len(list) - 1 + 1
    BY <1>1, FS_Interval
  <2>2. QED  BY <1>1, <2>1
<1>5. h \in [N -> R] /\ (\A i, j \in N : h[i] = h[j] => i = j) /\ \A x \in R : \E i \in N : h[i] = x
  BY <1>2, <1>3
<1> HIDE DEF N, R, h
<1>6. h \in Bijection(N, R)
  BY <1>5 DEF Bijection, Injection, Surjection, IsInjective
<1>7. IsFiniteSet(R) /\ Cardinality(R) = Cardinality(N)
  BY <1>4, <1>6, FS_Bijection DEF ExistsBijection
<1>8. QED  BY <1>1, <1>2, <1>4, <1>7 DEF R

\* slash(), for every losing worker: what is taken is no longer owed to them.
LEMMA SlashesMove ==
  ASSUME StakeInv, NEW t \in Tokens, NEW losers, losers \subseteq Workers, NEW amount \in Nat,
         stake' = [stake EXCEPT ![t] = StakesAfterSlash(t, losers, amount)], seq' = seq,
         NEW taken, DOMAIN taken = losers, \A l \in losers : taken[l] = SlashTaken(t, l, amount)
  PROVE  /\ StakeInv' /\ EveryRecordStep
         /\ IsFiniteSet(losers) /\ \A l \in losers : taken[l] \in Nat
         /\ \A u \in Tokens :
               Bonded(u)' = Bonded(u) - (IF u = t THEN TotalSlashed(taken) ELSE 0)
         /\ NoBucketGrows
<1> DEFINE after == StakesAfterSlash(t, losers, amount)
<1>1. \A w \in Workers :
        /\ SlashTaken(t, w, amount) \in 0 .. Slashable(stake[t][w])
        /\ RecordStep(stake[t][w], after[w], seq, seq)
        /\ Slashable(after[w])
             = Slashable(stake[t][w]) - (IF w \in losers THEN SlashTaken(t, w, amount) ELSE 0)
        /\ after[w].unbonding <= stake[t][w].unbonding
  BY StakesSlashed
<1>2. after = [w \in Workers |-> after[w]]
  BY DEF StakesAfterSlash
<1>3. stake' = [stake EXCEPT ![t] = after]
  OBVIOUS
<1> HIDE DEF after
<1>4. after \in [Workers -> StakeInfoType]
  BY <1>1, <1>2 DEF RecordStep, InfoOK
<1>5. \A u \in Tokens : stake'[u] = IF u = t THEN after ELSE stake[u]
  BY <1>3 DEF StakeInv
<1>6. StakeInv' /\ EveryRecordStep
  <2>1. ASSUME NEW u \in Tokens, NEW w \in Workers
        PROVE  RecordStep(stake[u][w], stake'[u][w], seq, seq)
    <3>1. RecordStep(stake[u][w], stake[u][w], seq, seq)
      BY StillStep DEF StakeInv
    <3>2. QED  BY <1>1, <1>5, <3>1
  <2>2. stake' \in [Tokens -> [Workers -> StakeInfoType]]
    BY <1>3, <1>4 DEF StakeInv
  <2>3. QED  BY <2>1, <2>2 DEF StakeInv, EveryRecordStep, RecordStep
<1>7. \A w \in Workers : Slashable(stake[t][w]) \in Nat /\ SlashTaken(t, w, amount) \in Nat
  BY <1>1, SlashableIsNumber
<1>8. IsFiniteSet(losers) /\ \A l \in losers : taken[l] \in Nat
  BY <1>7, AccountsAssumption, FS_Subset
<1>9. ASSUME NEW u \in Tokens
      PROVE  Bonded(u)' = Bonded(u) - (IF u = t THEN TotalSlashed(taken) ELSE 0)
  <2> DEFINE old == [w \in Workers |-> Slashable(stake[u][w])]
             new == [w \in Workers |-> Slashable(stake'[u][w])]
             loss == [w \in Workers |-> IF u = t /\ w \in losers
                                          THEN SlashTaken(t, w, amount) ELSE 0]
             minus == [w \in Workers |-> 0 - loss[w]]
  <2>1. /\ Bonded(u) = SumFunctionOnSet(old, Workers)
        /\ Bonded(u)' = SumFunctionOnSet(new, Workers)
    BY DEF Bonded, SumFunction
  <2>2. \A w \in Workers : /\ old[w] \in Int /\ new[w] \in Int /\ loss[w] \in Int
                           /\ old[w] = new[w] + loss[w]
    <3>1. ASSUME NEW w \in Workers
          PROVE  /\ old[w] \in Int /\ new[w] \in Int /\ loss[w] \in Int
                 /\ old[w] = new[w] + loss[w]
      <4>1. Slashable(stake[u][w]) \in Int
        BY SlashableIsNumber
      <4>2. CASE u = t
        BY <1>1, <1>5, <1>7, <4>1, <4>2
      <4>3. CASE u # t
        BY <1>5, <4>1, <4>3
      <4>4. QED  BY <4>2, <4>3
    <3>2. QED  BY <3>1
  <2> HIDE DEF old, new
  <2>3. SumFunctionOnSet(old, Workers)
          = SumFunctionOnSet(new, Workers) + SumFunctionOnSet(loss, Workers)
    <3> HIDE DEF loss
    <3>1. QED  BY <2>2, AccountsAssumption, SumPlus
  <2>4. SumFunctionOnSet(loss, Workers) = IF u = t THEN TotalSlashed(taken) ELSE 0
    <3>1. CASE u = t
      <4>1. \A w \in losers : loss[w] = taken[w] /\ taken[w] \in Int
        BY <1>8, <3>1
      <4>2. \A w \in Workers : loss[w] \in Int /\ loss[w] = loss[w] /\ (w \notin losers => loss[w] = 0)
        BY <2>2
      <4>3. losers \cap Workers = losers
        OBVIOUS
      <4> HIDE DEF loss
      <4>4. SumFunctionOnSet(loss, losers \cap Workers) = SumFunctionOnSet(loss, Workers)
        BY <4>2, AccountsAssumption, SumSupport
      <4>5. SumFunctionOnSet(loss, losers) = SumFunctionOnSet(taken, losers)
        BY <1>8, <4>1, SumEqual
      <4>6. QED  BY <1>8, <3>1, <4>3, <4>4, <4>5 DEF TotalSlashed, SumFunction
    <3>2. CASE u # t
      <4>1. \A w \in Workers : loss[w] = 0
        BY <3>2
      <4>2. Cardinality(Workers) \in Nat
        BY AccountsAssumption, FS_CardinalityType
      <4> HIDE DEF loss
      <4>3. SumFunctionOnSet(loss, Workers) = Cardinality(Workers) * 0
        BY <4>1, AccountsAssumption, SumConstant
      <4>4. QED  BY <3>2, <4>2, <4>3
    <3>3. QED  BY <3>1, <3>2
  <2>5. SumFunctionOnSet(new, Workers) \in Int /\ SumFunctionOnSet(loss, Workers) \in Int
    <3> HIDE DEF loss
    <3>1. QED  BY <2>2, AccountsAssumption, SumInt
  <2> HIDE DEF loss
  <2>6. QED  BY <2>1, <2>3, <2>4, <2>5
<1>10. NoBucketGrows
  BY <1>1, <1>5, UnbondingIsNumber DEF NoBucketGrows
<1>11. QED  BY <1>6, <1>8, <1>9, <1>10

\* Every worker of a set earns the same credit.
LEMMA CreditsMove ==
  ASSUME MoneyTypeOK, NEW t \in Tokens, NEW R, R \subseteq Workers, NEW credit \in Nat,
         owed' = [owed EXCEPT ![t] =
                    [w \in Workers |-> owed[t][w] + (IF w \in R THEN credit ELSE 0)]]
  PROVE  /\ owed' \in [Tokens -> [Workers -> Nat]]
         /\ \A u \in Tokens :
               OwedIn(u)' = OwedIn(u) + (IF u = t THEN Cardinality(R) * credit ELSE 0)
         /\ \A u \in Tokens, w \in Workers : owed[u][w] <= owed'[u][w]
<1> DEFINE after == [w \in Workers |-> owed[t][w] + (IF w \in R THEN credit ELSE 0)]
<1>1. owed \in [Tokens -> [Workers -> Nat]]
  BY DEF MoneyTypeOK
<1>2. /\ after \in [Workers -> Nat]
      /\ \A w \in Workers : owed[t][w] \in Int
                            /\ after[w] = owed[t][w] + (IF w \in R THEN credit ELSE 0)
  BY <1>1
<1>3. owed' = [owed EXCEPT ![t] = after]
  OBVIOUS
<1> HIDE DEF after
<1>4. owed' \in [Tokens -> [Workers -> Nat]]
  BY <1>1, <1>2, <1>3
<1>5. ASSUME NEW u \in Tokens
      PROVE  OwedIn(u)' = OwedIn(u) + (IF u = t THEN Cardinality(R) * credit ELSE 0)
  <2>1. CASE u = t
    <3>1. owed'[u] = after /\ DOMAIN after = Workers /\ DOMAIN owed[t] = Workers
      BY <1>1, <1>2, <1>3, <2>1
    <3>2. credit \in Int
      OBVIOUS
    <3>3. SumFunctionOnSet(after, Workers)
            = SumFunctionOnSet(owed[t], Workers) + Cardinality(R) * credit
      BY <1>2, <3>2, AccountsAssumption, SumCreditedEach
    <3>4. QED  BY <2>1, <3>1, <3>3 DEF OwedIn, SumFunction
  <2>2. CASE u # t
    <3>1. owed'[u] = owed[u] /\ DOMAIN owed[u] = Workers /\ \A w \in Workers : owed[u][w] \in Int
      BY <1>1, <1>3, <2>2
    <3>2. SumFunctionOnSet(owed[u], Workers) \in Int
      BY <3>1, AccountsAssumption, SumInt
    <3>3. QED  BY <2>2, <3>1, <3>2 DEF OwedIn, SumFunction
  <2>3. QED  BY <2>1, <2>2
<1>6. \A u \in Tokens, w \in Workers : owed[u][w] <= owed'[u][w]
  BY <1>1, <1>2, <1>3
<1>7. QED  BY <1>4, <1>5, <1>6

\* What a settlement does to each part of the books: what was held for the
\* question and what is slashed is credited or paid out, to the last unit.
Settled(q, bond, earned, take, slashed) ==
  LET t == question[q].token
  IN /\ earned + take = question[q].amount + slashed
     /\ custody' \in [Tokens -> Nat]
     /\ \A u \in Tokens :
          /\ custody'[u] = custody[u] - (IF u = t THEN take + bond ELSE 0)
          /\ Escrowed(u)' = Escrowed(u) - (IF u = t THEN question[q].amount ELSE 0)
          /\ Prepaid(u)' = Prepaid(u)
          /\ OwedIn(u)' = OwedIn(u) + (IF u = t THEN earned ELSE 0)
          /\ Bonded(u)' = Bonded(u) - (IF u = t THEN slashed ELSE 0)

\* A settlement takes the amount out of escrow and the slashes out of the
\* bonds; what the winners do not earn of both leaves with the platform's take.
LEMMA SettlementMoves ==
  ASSUME FundsInv, NEW q \in OpenQuestions, NEW v \in Verdicts, Acceptable(v), NEW bond \in Nat,
         SetStatus(q, "Resolved"), PaySettlement(q, v, bond)
  PROVE  /\ MoneyTypeOK' /\ StakeInv' /\ EveryRecordStep
         /\ \E earned, take, slashed \in Nat : Settled(q, bond, earned, take, slashed)
         /\ NoBucketGrows /\ \A u \in Tokens, w \in Workers : owed[u][w] <= owed'[u][w]
<1> DEFINE t == question[q].token
           amount == question[q].amount
           n == Len(v.workers)
           losers == Range(v.losers)
           winners == Range(v.workers)
           taken == [l \in losers |-> SlashTaken(t, l, amount)]
           credit == WorkerCredit(amount, n, taken)
           take == PlatformTake(amount, n, taken)
           slashed == TotalSlashed(taken)
<1>1. t \in Tokens /\ amount \in Nat
  BY OpenFacts DEF FundsInv
<1>2. /\ v.workers \in Seq(Workers) /\ v.losers \in Seq(Workers) /\ v.workers # <<>>
      /\ ~Duplicates(v.workers) /\ ~Duplicates(v.losers)
  BY QuestionsAssumption DEF Acceptable, ValidWorkerLists
<1>3. /\ n \in Nat \ {0} /\ winners \subseteq Workers /\ Cardinality(winners) = n
      /\ losers \subseteq Workers
  <2>1. Len(v.workers) # 0
    BY <1>2
  <2>2. QED  BY <1>2, <2>1, NamesAreCounted
<1>4. /\ stake' = [stake EXCEPT ![t] = StakesAfterSlash(t, losers, amount)]
      /\ owed' = [owed EXCEPT ![t] =
                    [w \in Workers |-> owed[t][w] + (IF w \in winners THEN credit ELSE 0)]]
      /\ PayOut(t, take + bond)
      /\ CreditRanking(v.workers)
      /\ Track(IF t = DefaultToken THEN winners ELSE {})
      /\ UNCHANGED <<seq, balance, owedLock, accessVars>>
  BY DEF PaySettlement
<1>5. DOMAIN taken = losers /\ \A l \in losers : taken[l] = SlashTaken(t, l, amount)
  OBVIOUS
<1> HIDE DEF t, amount, n, losers, winners, taken, credit, take, slashed
<1>6. /\ StakeInv' /\ EveryRecordStep
      /\ IsFiniteSet(losers) /\ \A l \in losers : taken[l] \in Nat
      /\ \A u \in Tokens : Bonded(u)' = Bonded(u) - (IF u = t THEN TotalSlashed(taken) ELSE 0)
      /\ NoBucketGrows
  <2>1. StakeInv /\ seq' = seq
    BY <1>4 DEF FundsInv
  <2>2. stake' = [stake EXCEPT ![t] = StakesAfterSlash(t, losers, amount)]
    BY <1>4
  <2>3. QED  BY <1>1, <1>3, <1>5, <2>1, <2>2, SlashesMove
<1>7. /\ credit \in Nat /\ take \in Nat /\ slashed \in Nat
      /\ n * credit + take = amount + slashed
  <2>1. IsFiniteSet(DOMAIN taken) /\ \A l \in DOMAIN taken : taken[l] \in Nat
    BY <1>5, <1>6
  <2>2. QED  BY <1>1, <1>3, <2>1, PayoutsConserve DEF credit, take, slashed
<1>8. /\ owed' \in [Tokens -> [Workers -> Nat]]
      /\ \A u \in Tokens : OwedIn(u)' = OwedIn(u) + (IF u = t THEN Cardinality(winners) * credit ELSE 0)
      /\ \A u \in Tokens, w \in Workers : owed[u][w] <= owed'[u][w]
  <2>1. MoneyTypeOK
    BY DEF FundsInv
  <2>2. QED  BY <1>1, <1>3, <1>4, <1>7, <2>1, CreditsMove
<1>9. /\ custody' \in [Tokens -> Nat]
      /\ \A u \in Tokens : custody'[u] = custody[u] - (IF u = t THEN take + bond ELSE 0)
  <2>1. take + bond \in Nat /\ MoneyTypeOK
    BY <1>7 DEF FundsInv
  <2>2. QED  BY <1>1, <1>4, <2>1, CustodyMoves
<1>10. MoneyTypeOK'
  <2>1. resolvedCount' \in [Workers -> Nat]
    <3>1. resolvedCount' = [w \in Workers |->
                              resolvedCount[w] + (IF w \in Range(v.workers) THEN 1 ELSE 0)]
      BY <1>4 DEF CreditRanking
    <3>2. QED  BY <3>1 DEF FundsInv, MoneyTypeOK
  <2>2. participants' \subseteq Workers \cup Payers
    BY <1>3, <1>4 DEF FundsInv, MoneyTypeOK, Track
  <2>3. QED  BY <1>4, <1>8, <1>9, <2>1, <2>2 DEF FundsInv, MoneyTypeOK, accessVars
<1>11. \A u \in Tokens : Escrowed(u)' = Escrowed(u) - (IF u = t THEN amount ELSE 0)
  <2>1. "Resolved" \notin OpenStatuses
    BY DEF OpenStatuses
  <2>2. ASSUME NEW u \in Tokens
        PROVE  Escrowed(u)' = Escrowed(u) - (IF "Resolved" \notin OpenStatuses /\ t = u
                                               THEN amount ELSE 0)
    BY EscrowMoves DEF FundsInv, t, amount
  <2>3. QED  BY <2>1, <2>2
<1>12. \A u \in Tokens : Prepaid(u)' = Prepaid(u)
  BY <1>4, PartsUntouched
<1> DEFINE earned == n * credit
<1>13. earned \in Nat /\ earned + take = amount + slashed
  BY <1>3, <1>7
<1>14. /\ \A u \in Tokens : OwedIn(u)' = OwedIn(u) + (IF u = t THEN earned ELSE 0)
       /\ \A u \in Tokens : Bonded(u)' = Bonded(u) - (IF u = t THEN slashed ELSE 0)
  BY <1>3, <1>6, <1>8 DEF slashed
<1> HIDE DEF earned
<1>15. Settled(q, bond, earned, take, slashed)
  BY <1>9, <1>11, <1>12, <1>13, <1>14 DEF Settled, t, amount
<1>16. \E e, p, s \in Nat : Settled(q, bond, e, p, s)
  BY ONLY <1>7, <1>13, <1>15, Zenon
<1>17. QED  BY <1>6, <1>8, <1>10, <1>16

\* So the books balance, if the bond that is paid out is in the question's asset.
LEMMA SettlementKeepsBooks ==
  ASSUME FundsInv, NEW q \in OpenQuestions, NEW v \in Verdicts, Acceptable(v), NEW bond \in Nat,
         SetStatus(q, "Resolved"), PaySettlement(q, v, bond),
         BondsInDefault =>
           \A u \in Tokens : BondsIn(u)' = BondsIn(u) - (IF u = question[q].token THEN bond ELSE 0)
  PROVE  BooksKept
<1>1. MoneyTypeOK' /\ StakeInv'
      /\ \E earned, take, slashed \in Nat : Settled(q, bond, earned, take, slashed)
  BY SettlementMoves
<1>2. PICK earned \in Nat, take \in Nat, slashed \in Nat : Settled(q, bond, earned, take, slashed)
  BY ONLY <1>1, Zenon
<1>3. ASSUME BondsInDefault, Solvency, NEW u \in Tokens
      PROVE  custody'[u] = Obligations(u)'
  <2> DEFINE t == question[q].token
             amount == question[q].amount
  <2>1. amount \in Nat
    BY OpenFacts DEF FundsInv
  <2>2. /\ earned + take = amount + slashed
        /\ custody'[u] = custody[u] - (IF u = t THEN take + bond ELSE 0)
        /\ Escrowed(u)' = Escrowed(u) - (IF u = t THEN amount ELSE 0)
        /\ Prepaid(u)' = Prepaid(u)
        /\ OwedIn(u)' = OwedIn(u) + (IF u = t THEN earned ELSE 0)
        /\ Bonded(u)' = Bonded(u) - (IF u = t THEN slashed ELSE 0)
    BY <1>2 DEF Settled
  <2>3. BondsIn(u)' = BondsIn(u) - (IF u = t THEN bond ELSE 0)
    BY <1>3
  <2>4. custody[u] = Obligations(u)
    BY <1>3 DEF Solvency
  <2> HIDE DEF t, amount
  <2>5. /\ custody[u] \in Nat /\ Escrowed(u) \in Nat /\ Prepaid(u) \in Nat
        /\ OwedIn(u) \in Nat /\ Bonded(u) \in Nat /\ BondsIn(u) \in Nat
    BY PartsAreNumbers
  <2>6. /\ Escrowed(u)' \in Int /\ Prepaid(u)' \in Int /\ OwedIn(u)' \in Int
        /\ Bonded(u)' \in Int /\ BondsIn(u)' \in Int /\ custody'[u] \in Int
    BY ONLY <1>2, <2>1, <2>2, <2>3, <2>5, bond \in Nat
  <2>7. custody'[u] - custody[u]
          = (Escrowed(u)' - Escrowed(u)) + (Prepaid(u)' - Prepaid(u))
             + (OwedIn(u)' - OwedIn(u)) + (Bonded(u)' - Bonded(u)) + (BondsIn(u)' - BondsIn(u))
    <3>1. CASE u = t
      BY ONLY <1>2, <2>1, <2>2, <2>3, <2>5, <3>1, bond \in Nat
    <3>2. CASE u # t
      BY ONLY <2>2, <2>3, <2>5, <3>2
    <3>3. QED  BY ONLY <3>1, <3>2
  <2>8. QED  BY <2>4, <2>6, <2>7, BooksBalance
<1>4. QED  BY <1>1, <1>3 DEF BooksKept, Solvency

\* resolve() and resolve_by_consensus(), and the admin's ruling on an escalated
\* question: no bond is at stake.
LEMMA RulingKeepsBooks ==
  ASSUME FundsInv, NEW q, NEW v \in Verdicts, Resolve(q, v) \/ EscalateResolve(q, v)
  PROVE  BooksKept
<1>1. /\ Acceptable(v) /\ SetStatus(q, "Resolved") /\ PaySettlement(q, v, 0)
      /\ UNCHANGED challengerBond
  <2>1. CASE Resolve(q, v)
    BY <2>1 DEF Resolve, ResolveQuestion, SettleQuestion, reviewVars
  <2>2. CASE EscalateResolve(q, v)
    BY <2>2 DEF EscalateResolve, ResolveEscalated, SettleQuestion
  <2>3. QED  BY <2>1, <2>2
<1>2. q \in OpenQuestions
  BY DEF Resolve, ResolveQuestion, EscalateResolve, ResolveEscalated, StatusIs, OpenQuestions,
         OpenStatuses
<1>3. ASSUME NEW u \in Tokens
      PROVE  BondsIn(u)' = BondsIn(u) - (IF u = question[q].token THEN 0 ELSE 0)
  <2>1. BondsIn(u)' = BondsIn(u) /\ BondsIn(u) \in Nat
    BY <1>1, PartsUntouched, PartsAreNumbers
  <2>2. QED  BY <2>1
<1>4. QED  BY <1>1, <1>2, <1>3, SettlementKeepsBooks

\* finalize_resolve(): the verdict is the one filed, and the bond goes with it.
LEMMA FinalizeKeepsBooks ==
  ASSUME FundsInv, NEW q, FinalizeResolve(q)
  PROVE  BooksKept
<1> DEFINE v == pendingResolution[q].verdict
           bond == IF q \in DOMAIN challengerBond THEN challengerBond[q].amount ELSE 0
<1>1. /\ q \in DOMAIN pendingResolution /\ StatusIs(q, "ResolvedPending")
      /\ SetStatus(q, "Resolved") /\ challengerBond' = Without(challengerBond, q)
      /\ PaySettlement(q, v, bond)
  BY DEF FinalizeResolve, FinalizeQuestion, Finalizable, SettleQuestion
<1>2. v \in Verdicts /\ Acceptable(v)
  BY <1>1 DEF FundsInv, QuestionsInv, QuestionsTypeOK, AcceptedVerdicts
<1>3. bond \in Nat
  BY AmountsAreNumbers DEF FundsInv
<1>4. q \in OpenQuestions
  BY <1>1 DEF StatusIs, OpenQuestions, OpenStatuses
<1>5. ASSUME BondsInDefault, NEW u \in Tokens
      PROVE  BondsIn(u)' = BondsIn(u) - (IF u = question[q].token THEN bond ELSE 0)
  <2>1. BondsHeld' = BondsHeld - bond /\ BondsHeld \in Nat
    BY <1>1, <1>5, BondIsForfeited, PartsAreNumbers DEF FundsInv
  <2>2. q \in DOMAIN challengerBond => question[q].token = DefaultToken
    BY <1>5 DEF BondsInDefault
  <2>3. q \notin DOMAIN challengerBond => bond = 0
    OBVIOUS
  <2> HIDE DEF bond
  <2>4. QED  BY <1>3, <2>1, <2>2, <2>3 DEF BondsIn
<1> HIDE DEF v, bond
<1>6. QED  BY <1>1, <1>2, <1>3, <1>4, <1>5, SettlementKeepsBooks

\* resolve_by_consensus() is a ruling.
LEMMA ConsensusStepKeepsBooks ==
  ASSUME FundsInv, ConsensusStep
  PROVE  BooksKept
<1>1. PICK q \in Ids, ballot \in Ballots :
        ResolveByConsensus(q, ballot) /\ ConsensusVerdict(ballot) \in Verdicts
  BY DEF ConsensusStep
<1>2. QED  BY <1>1, RulingKeepsBooks DEF ResolveByConsensus

\* Every call on an existing question.
LEMMA SettlementStepKeepsBooks ==
  ASSUME FundsInv, SettlementStep
  PROVE  BooksKept
<1>1. PICK q \in Ids :
        \/ \E a \in Amounts : Reopen(q, a)
        \/ \E v \in Verdicts : Resolve(q, v) \/ Escalate(q, v) \/ EscalateResolve(q, v)
        \/ \E v \in Verdicts, window \in Windows : Challengeable(q, v, window)
        \/ \E c \in Challengers, a \in Bonds : PostChallengeBond(q, c, a)
        \/ Dispute(q)
        \/ FinalizeResolve(q)
        \/ Refund(q)
        \/ RefundTimeout(q)
  BY DEF SettlementStep
<1>2. ASSUME NEW a \in Amounts, Reopen(q, a)
      PROVE  BooksKept
  <2>1. /\ Opens(q, question[q].token, a) /\ question[q].token \in Tokens
        /\ Receive(question[q].token, a)
        /\ UNCHANGED <<seq, bookVars, balance, owed, owedLock, participants, accessVars>>
    <3>1. PICK p \in Payers, t \in Tokens : TRUE
      BY <1>2 DEF FundsInv, QuestionsInv, QuestionsTypeOK, QuestionType, Reopen, ReopenQuestion,
                  StatusIs
    <3>2. QED  BY <1>2, <3>1, OpeningOpens DEF Reopen, FundsInv
  <2>2. QED  BY <2>1, FundedOpeningKeepsBooks
<1>3. CASE \E v \in Verdicts : Resolve(q, v) \/ Escalate(q, v) \/ EscalateResolve(q, v)
  <2>1. PICK v \in Verdicts : Resolve(q, v) \/ Escalate(q, v) \/ EscalateResolve(q, v)
    BY <1>3
  <2>2. CASE Escalate(q, v)
    <3>1. /\ UNCHANGED <<seq, moneyVars, accessVars, challengerBond>>
          /\ q \in OpenQuestions /\ "Disputed" \in OpenStatuses /\ SetStatus(q, "Disputed")
      BY <2>2 DEF Escalate, EscalateQuestion, StatusIs, OpenQuestions, OpenStatuses
    <3>2. QED  BY <3>1, ReviewKeepsBooks
  <2>3. QED  BY <2>1, <2>2, RulingKeepsBooks
<1>4. ASSUME NEW v \in Verdicts, NEW window \in Windows, Challengeable(q, v, window)
      PROVE  BooksKept
  <2>1. /\ UNCHANGED <<seq, moneyVars, accessVars, challengerBond>>
        /\ q \in OpenQuestions /\ "ResolvedPending" \in OpenStatuses
        /\ SetStatus(q, "ResolvedPending")
    BY <1>4 DEF Challengeable, ResolveChallengeable, StatusIs, OpenQuestions, OpenStatuses
  <2>2. QED  BY <2>1, ReviewKeepsBooks
<1>5. ASSUME NEW c \in Challengers, NEW a \in Bonds, PostChallengeBond(q, c, a)
      PROVE  BooksKept
  BY <1>5, BondKeepsBooks
<1>6. CASE Dispute(q)
  <2>1. UNCHANGED <<seq, moneyVars, accessVars, challengerBond, question>>
    BY <1>6 DEF Dispute, DisputeResolve
  <2>2. QED  BY <2>1, ReviewKeepsBooks
<1>7. CASE FinalizeResolve(q)
  BY <1>7, FinalizeKeepsBooks
<1>8. CASE Refund(q) \/ RefundTimeout(q)
  <2>1. /\ StatusIs(q, "Pending") /\ "Refunded" \in FinalStatuses /\ SetStatus(q, "Refunded")
        /\ UNCHANGED reviewVars /\ PayBack(q)
    BY <1>8 DEF Refund, RefundTimeout, TimeoutQuestion, RefundQuestion, SettleQuestion,
                FinalStatuses
  <2>2. QED  BY <2>1, ReturnKeepsBooks
<1>9. QED  BY <1>1, <1>2, <1>3, <1>4, <1>5, <1>6, <1>7, <1>8
-----------------------------------------------------------------------------
(* The calls of a worker.                                                  *)

\* Reading a record rolls what has warmed up into settled and nothing else.
LEMMA ReadingMovesNothing ==
  ASSUME StakeInv, NEW t \in Tokens, NEW w \in Workers
  PROVE  /\ seq \in Nat /\ InfoOK(StakeInfo(t, w), seq)
         /\ Slashable(StakeInfo(t, w)) = Slashable(stake[t][w])
         /\ StakeInfo(t, w).unbonding = stake[t][w].unbonding
         /\ StakeInfo(t, w).releaseAt = stake[t][w].releaseAt
<1> DEFINE old == stake[t][w]
           read == StakeInfo(t, w)
<1>1. InfoOK(old, seq) /\ seq \in Nat
  BY DEF StakeInv
<1>2. read = Mature(old, seq)
  BY DEF StakeInfo
<1> HIDE DEF old, read
<1>3. /\ InfoOK(read, seq) /\ read.settled = old.settled + Due(old.tranches, seq)
      /\ read.warming = old.warming - Due(old.tranches, seq)
      /\ read.unbonding = old.unbonding /\ read.releaseAt = old.releaseAt
  BY <1>1, <1>2, MatureEffect
<1>4. old.settled \in Nat /\ old.warming \in Nat /\ old.unbonding \in Nat
      /\ Due(old.tranches, seq) \in Nat
  BY <1>1, InfoFacts, DueBound
<1>5. QED  BY <1>1, <1>3, <1>4 DEF Slashable, old, read

\* A top-up is owed to the worker, one that is asked back still is, and one that
\* is paid out no longer.
LEMMA TopUpMoves ==
  ASSUME StakeInv, NEW t \in Tokens, NEW w \in Workers, NEW a \in Nat \ {0},
         TopUp(t, w, a), seq' = seq
  PROVE  /\ StakeInv' /\ EveryRecordStep
         /\ \A u \in Tokens : Bonded(u)' = Bonded(u) + (IF u = t THEN a ELSE 0)
         /\ NoBucketGrows
<1> DEFINE read == StakeInfo(t, w)
           new == AddWarming(read, a, seq)
<1>1. /\ seq \in Nat /\ InfoOK(read, seq) /\ Slashable(read) = Slashable(stake[t][w])
      /\ read.unbonding = stake[t][w].unbonding
  BY ReadingMovesNothing
<1>2. /\ RecordStep(read, new, seq, seq)
  BY <1>1, TopUpStep
<1>3. SetStake(t, w, new)
  BY DEF TopUp
<1>4. StakeInv' /\ EveryRecordStep
  <2> HIDE DEF new
  <2>1. QED  BY <1>2, <1>3, StoredStep
<1>5. Slashable(new) = Slashable(read) + a /\ new.unbonding = read.unbonding
  <2>1. read.settled \in Nat /\ read.warming \in Nat /\ read.unbonding \in Nat
        /\ read = [settled |-> read.settled, warming |-> read.warming,
                   tranches |-> read.tranches, unbonding |-> read.unbonding,
                   releaseAt |-> read.releaseAt]
    BY <1>1, InfoFacts
  <2> HIDE DEF read
  <2>2. new.settled = read.settled /\ new.warming = read.warming + a
        /\ new.unbonding = read.unbonding
    BY <2>1 DEF AddWarming
  <2> HIDE DEF new
  <2>3. QED  BY <2>1, <2>2 DEF Slashable
<1> HIDE DEF read, new
<1>6. NoBucketGrows
  <2>1. \A u \in Tokens, v \in Workers :
          stake'[u][v] = IF u = t /\ v = w THEN new ELSE stake[u][v]
    BY <1>3 DEF StakeInv, SetStake
  <2>2. QED  BY <1>1, <1>5, <2>1, UnbondingIsNumber DEF NoBucketGrows
<1>7. QED  BY <1>1, <1>3, <1>4, <1>5, <1>6, StakeIsWritten

\* A bucket grows only by restarting its clock.
BucketsWait(timeout) ==
  \A t \in Tokens, w \in Workers :
    stake'[t][w].unbonding > stake[t][w].unbonding =>
      stake'[t][w].releaseAt = seq + UnbondingDelay(timeout)

\* What is asked back changes its bucket, stays owed, and waits.
LEMMA MoveOutMoves ==
  ASSUME StakeInv, NEW t \in Tokens, NEW w \in Workers, NEW a \in Nat \ {0},
         NEW timeout \in Nat, MoveOut(t, w, a, timeout), seq' = seq
  PROVE  /\ StakeInv' /\ EveryRecordStep
         /\ \A u \in Tokens : Bonded(u)' = Bonded(u)
         /\ BucketsWait(timeout)
<1> DEFINE read == StakeInfo(t, w)
           release == seq + UnbondingDelay(timeout)
           new == MoveToUnbonding(read, a, release)
<1>1. /\ seq \in Nat /\ InfoOK(read, seq) /\ Slashable(read) = Slashable(stake[t][w])
  BY ReadingMovesNothing
<1>2. a <= Active(read) /\ SetStake(t, w, new)
  BY DEF MoveOut
<1>3. release \in Nat /\ release >= seq + MIN_UNBONDING_LEDGERS
  BY <1>1, StakeAssumption DEF UnbondingDelay, Max2
<1> HIDE DEF release
<1>4. /\ read.settled \in Nat /\ read.warming \in Nat /\ read.unbonding \in Nat
      /\ a \in 1 .. Active(read)
  <2>1. /\ read.settled \in Nat /\ read.warming \in Nat /\ read.unbonding \in Nat
    BY <1>1, InfoFacts
  <2> HIDE DEF read
  <2>2. Active(read) \in Nat
    BY <2>1 DEF Active
  <2>3. QED  BY <1>2, <2>1, <2>2
<1>5. RecordStep(read, new, seq, seq)
  BY <1>1, <1>3, <1>4, MoveStep
<1>6. StakeInv' /\ EveryRecordStep
  <2> HIDE DEF new
  <2>1. QED  BY <1>2, <1>5, StoredStep
<1>7. new.unbonding = read.unbonding + a /\ new.releaseAt = release
  <2>1. read = [settled |-> read.settled, warming |-> read.warming,
                tranches |-> read.tranches, unbonding |-> read.unbonding,
                releaseAt |-> read.releaseAt]
    BY <1>1, InfoFacts
  <2> HIDE DEF read
  <2>2. QED  BY <2>1 DEF MoveToUnbonding, DrainWarming
<1>8. Slashable(new) = Slashable(stake[t][w]) + 0
  <2> HIDE DEF new, read
  <2>1. new.unbonding > read.unbonding
    BY <1>4, <1>7
  <2>2. Slashable(stake[t][w]) \in Nat
    BY SlashableIsNumber
  <2>3. QED  BY <1>1, <1>5, <2>1, <2>2 DEF RecordStep, Held
<1> HIDE DEF read, new
<1>9. BucketsWait(timeout)
  <2>1. \A u \in Tokens, v \in Workers :
          stake'[u][v] = IF u = t /\ v = w THEN new ELSE stake[u][v]
    BY <1>2 DEF StakeInv, SetStake
  <2>2. QED  BY <1>7, <2>1, UnbondingIsNumber DEF BucketsWait, release
<1>10. ASSUME NEW u \in Tokens
      PROVE  Bonded(u)' = Bonded(u)
  <2>1. Bonded(u)' = Bonded(u) + (IF u = t THEN 0 ELSE 0)
    BY <1>2, <1>8, StakeIsWritten
  <2>2. Bonded(u) \in Int
    <3> DEFINE f == [v \in Workers |-> Slashable(stake[u][v])]
    <3>1. \A v \in Workers : f[v] \in Int
      BY SlashableIsNumber
    <3>2. Bonded(u) = SumFunctionOnSet(f, Workers)
      BY DEF Bonded, SumFunction
    <3> HIDE DEF f
    <3>3. QED  BY <3>1, <3>2, AccountsAssumption, SumInt
  <2>3. QED  BY <2>1, <2>2
<1>11. QED  BY <1>6, <1>10, <1>9

\* Paying a matured bucket takes its amount out of the bonds, and out of no
\* other.
LEMMA PayBucketMoves ==
  ASSUME StakeInv, NEW t \in Tokens, NEW w \in Workers, PayBucket(t, w), seq' = seq
  PROVE  /\ StakeInv' /\ EveryRecordStep /\ stake[t][w].unbonding \in Nat
         /\ \A u \in Tokens :
               Bonded(u)' = Bonded(u) + (IF u = t THEN 0 - stake[t][w].unbonding ELSE 0)
         /\ NoBucketGrows
<1> DEFINE read == StakeInfo(t, w)
           new == [read EXCEPT !.unbonding = 0, !.releaseAt = 0]
<1>1. /\ seq \in Nat /\ InfoOK(read, seq) /\ Slashable(read) = Slashable(stake[t][w])
      /\ read.unbonding = stake[t][w].unbonding
  BY ReadingMovesNothing
<1>2. seq >= read.releaseAt /\ SetStake(t, w, new)
  BY DEF PayBucket
<1>3. /\ read.settled \in Nat /\ read.warming \in Nat /\ read.unbonding \in Nat
      /\ read = [settled |-> read.settled, warming |-> read.warming,
                 tranches |-> read.tranches, unbonding |-> read.unbonding,
                 releaseAt |-> read.releaseAt]
  BY <1>1, InfoFacts
<1>4. RecordStep(read, new, seq, seq)
  BY <1>1, <1>2, PayStep
<1>5. StakeInv' /\ EveryRecordStep
  <2> HIDE DEF new
  <2>1. QED  BY <1>2, <1>4, StoredStep
<1> DEFINE paid == 0 - stake[t][w].unbonding
<1>6. paid \in Int /\ Slashable(new) = Slashable(stake[t][w]) + paid
  <2>1. new.settled = read.settled /\ new.warming = read.warming /\ new.unbonding = 0
    <3> HIDE DEF read
    <3>1. QED  BY <1>3
  <2> HIDE DEF new, read
  <2>2. QED  BY <1>1, <1>3, <2>1 DEF Slashable
<1>7. NoBucketGrows
  <2>1. new.unbonding = 0
    <3> HIDE DEF read
    <3>1. QED  BY <1>3
  <2> HIDE DEF new
  <2>2. \A u \in Tokens, v \in Workers :
          stake'[u][v] = IF u = t /\ v = w THEN new ELSE stake[u][v]
    BY <1>2 DEF StakeInv, SetStake
  <2>3. QED  BY <2>1, <2>2, UnbondingIsNumber DEF NoBucketGrows
<1> HIDE DEF read, new, paid
<1>8. \A u \in Tokens : Bonded(u)' = Bonded(u) + (IF u = t THEN paid ELSE 0)
  BY <1>2, <1>6, StakeIsWritten
<1>9. QED  BY <1>1, <1>3, <1>5, <1>8, <1>7 DEF paid

\* stake() and stake_asset().
LEMMA AddStakeKeepsBooks ==
  ASSUME FundsInv, NEW t \in Tokens, NEW w \in Workers, NEW a \in Nat \ {0}, AddStake(t, w, a),
         participants' \in SUBSET (Workers \cup Payers)
  PROVE  BooksKept
<1>1. /\ TopUp(t, w, a) /\ Receive(t, a)
      /\ UNCHANGED <<seq, recordVars, rankingVars, balance, owed, owedLock, accessVars>>
  BY DEF AddStake
<1>2. StakeInv' /\ \A u \in Tokens : Bonded(u)' = Bonded(u) + (IF u = t THEN a ELSE 0)
  BY <1>1, TopUpMoves DEF FundsInv
<1>3. custody' \in [Tokens -> Nat]
      /\ \A u \in Tokens : custody'[u] = custody[u] + (IF u = t THEN a ELSE 0)
  BY <1>1, CustodyMoves DEF FundsInv
<1>4. MoneyTypeOK'
  BY <1>1, <1>3 DEF FundsInv, MoneyTypeOK, rankingVars, accessVars
<1>5. ASSUME Solvency, NEW u \in Tokens
      PROVE  custody'[u] = Obligations(u)'
  <2>1. /\ Escrowed(u)' = Escrowed(u) /\ Prepaid(u)' = Prepaid(u) /\ OwedIn(u)' = OwedIn(u)
        /\ BondsIn(u)' = BondsIn(u)
    BY <1>1, PartsUntouched DEF recordVars, reviewVars
  <2>2. custody[u] = Obligations(u)
    BY <1>5 DEF Solvency
  <2>3. QED  BY <1>2, <1>3, <2>1, <2>2, PartsAreNumbers, BooksBalance
<1>6. QED  BY <1>2, <1>4, <1>5 DEF BooksKept, Solvency

\* begin_unstake(): the amount moves to the bucket and is still owed.
LEMMA UnstakeKeepsBooks ==
  ASSUME FundsInv, NEW t \in Tokens, NEW w \in Workers, NEW a \in Nat \ {0},
         BeginUnstake(w, t, a)
  PROVE  BooksKept
<1>1. /\ MoveOut(t, w, a, timeoutLedgers)
      /\ UNCHANGED <<seq, recordVars, rankingVars, custody, balance, owed, owedLock,
                     participants, accessVars>>
  BY DEF BeginUnstake
<1>2. timeoutLedgers \in Nat
  BY QuestionsAssumption DEF FundsInv, QuestionsInv, QuestionsTypeOK
<1>3. StakeInv' /\ \A u \in Tokens : Bonded(u)' = Bonded(u)
  BY <1>1, <1>2, MoveOutMoves DEF FundsInv
<1>4. MoneyTypeOK'
  BY <1>1 DEF FundsInv, MoneyTypeOK, rankingVars, accessVars
<1>5. ASSUME Solvency, NEW u \in Tokens
      PROVE  custody'[u] = Obligations(u)'
  <2>1. /\ Escrowed(u)' = Escrowed(u) /\ Prepaid(u)' = Prepaid(u) /\ OwedIn(u)' = OwedIn(u)
        /\ BondsIn(u)' = BondsIn(u) /\ custody'[u] = custody[u]
    BY <1>1, PartsUntouched DEF recordVars, reviewVars
  <2>2. custody[u] = Obligations(u)
    BY <1>5 DEF Solvency
  <2>3. QED  BY <1>3, <2>1, <2>2, PartsAreNumbers, BooksBalance
<1>6. QED  BY <1>3, <1>4, <1>5 DEF BooksKept, Solvency

\* complete_unstake(): the bucket is paid.
LEMMA CompleteKeepsBooks ==
  ASSUME FundsInv, NEW t \in Tokens, NEW w \in Workers, CompleteUnstake(w, t)
  PROVE  BooksKept
<1> DEFINE paid == stake[t][w].unbonding
<1>1. /\ PayBucket(t, w) /\ PayOut(t, paid)
      /\ UNCHANGED <<seq, recordVars, rankingVars, balance, owed, owedLock, participants,
                     accessVars>>
  BY DEF CompleteUnstake
<1>2. /\ StakeInv' /\ paid \in Nat
      /\ \A u \in Tokens : Bonded(u)' = Bonded(u) + (IF u = t THEN 0 - paid ELSE 0)
  BY <1>1, PayBucketMoves DEF FundsInv
<1> HIDE DEF paid
<1>3. custody' \in [Tokens -> Nat]
      /\ \A u \in Tokens : custody'[u] = custody[u] - (IF u = t THEN paid ELSE 0)
  BY <1>1, <1>2, CustodyMoves DEF FundsInv
<1>4. MoneyTypeOK'
  BY <1>1, <1>3 DEF FundsInv, MoneyTypeOK, rankingVars, accessVars
<1>5. ASSUME Solvency, NEW u \in Tokens
      PROVE  custody'[u] = Obligations(u)'
  <2>1. /\ Escrowed(u)' = Escrowed(u) /\ Prepaid(u)' = Prepaid(u) /\ OwedIn(u)' = OwedIn(u)
        /\ BondsIn(u)' = BondsIn(u)
    BY <1>1, PartsUntouched DEF recordVars, reviewVars
  <2>2. custody[u] = Obligations(u)
    BY <1>5 DEF Solvency
  <2>3. QED  BY <1>2, <1>3, <2>1, <2>2, PartsAreNumbers, BooksBalance
<1>6. QED  BY <1>2, <1>4, <1>5 DEF BooksKept, Solvency

\* withdraw(): credits are paid, up to what is not pledged.
LEMMA WithdrawKeepsBooks ==
  ASSUME FundsInv, NEW t \in Tokens, NEW w \in Workers, NEW a \in Nat, Withdraw(w, t, a)
  PROVE  BooksKept
<1>1. owed[t][w] \in Nat /\ owedLock[w] \in Nat
  BY DEF FundsInv, MoneyTypeOK
<1>2. /\ a <= owed[t][w] - owedLock[w] /\ owed' = [owed EXCEPT ![t][w] = owed[t][w] - a]
      /\ PayOut(t, a)
      /\ UNCHANGED <<seq, recordVars, bookVars, balance, owedLock, participants, accessVars>>
  BY DEF Withdraw
<1>3. owed[t][w] - a \in Nat
  BY <1>1, <1>2
<1>4. /\ owed' \in [Tokens -> [Workers -> Nat]]
      /\ \A u \in Tokens : OwedIn(u)' = OwedIn(u)
                             + (IF u = t THEN (owed[t][w] - a) - owed[t][w] ELSE 0)
  BY <1>2, <1>3, OwedMoves DEF FundsInv
<1>5. custody' \in [Tokens -> Nat]
      /\ \A u \in Tokens : custody'[u] = custody[u] - (IF u = t THEN a ELSE 0)
  BY <1>2, CustodyMoves DEF FundsInv
<1>6. MoneyTypeOK'
  BY <1>2, <1>4, <1>5 DEF FundsInv, MoneyTypeOK, bookVars, rankingVars, accessVars
<1>7. StakeInv'
  BY <1>2, StakesUntouched DEF FundsInv, bookVars
<1>8. ASSUME Solvency, NEW u \in Tokens
      PROVE  custody'[u] = Obligations(u)'
  <2>1. /\ Escrowed(u)' = Escrowed(u) /\ Prepaid(u)' = Prepaid(u) /\ Bonded(u)' = Bonded(u)
        /\ BondsIn(u)' = BondsIn(u)
    BY <1>2, PartsUntouched DEF recordVars, reviewVars, bookVars
  <2>2. custody[u] = Obligations(u)
    BY <1>8 DEF Solvency
  <2>3. OwedIn(u)' = OwedIn(u) - (IF u = t THEN a ELSE 0)
    BY <1>1, <1>4, PartsAreNumbers
  <2>4. QED  BY <1>5, <2>1, <2>2, <2>3, PartsAreNumbers, BooksBalance
<1>9. QED  BY <1>6, <1>7, <1>8 DEF BooksKept, Solvency

\* A pledge, the configuration or the clock: no money moves and nothing is owed
\* to anyone else.
LEMMA QuietStepKeepsBooks ==
  ASSUME FundsInv, UNCHANGED <<recordVars, bookVars, custody, balance, owed, participants>>,
         MoneyTypeOK', seq' \in {seq, seq + 1}
  PROVE  BooksKept
<1>1. StakeInv'
  BY StakesUntouched DEF FundsInv, bookVars
<1>2. ASSUME Solvency, NEW u \in Tokens
      PROVE  custody'[u] = Obligations(u)'
  <2>1. /\ Escrowed(u)' = Escrowed(u) /\ Prepaid(u)' = Prepaid(u) /\ Bonded(u)' = Bonded(u)
        /\ BondsIn(u)' = BondsIn(u) /\ OwedIn(u)' = OwedIn(u) /\ custody'[u] = custody[u]
    BY PartsUntouched DEF recordVars, reviewVars, bookVars
  <2>2. custody[u] = Obligations(u)
    BY <1>2 DEF Solvency
  <2>3. QED  BY <2>1, <2>2, PartsAreNumbers, BooksBalance
<1>3. QED  BY <1>1, <1>2 DEF BooksKept, Solvency

\* Every call of a worker.
LEMMA WorkerStepKeepsBooks ==
  ASSUME FundsInv, WorkerStep
  PROVE  BooksKept
<1>1. PICK w \in Workers :
        \/ \E a \in TopUps : Stake(w, a)
        \/ \E t \in Tokens :
             \/ \E a \in TopUps : StakeAsset(w, t, a)
             \/ \E a \in Parts : BeginUnstake(w, t, a) \/ Withdraw(w, t, a)
             \/ CompleteUnstake(w, t)
        \/ \E a \in Parts : LockOwed(w, a) \/ ReleaseOwed(w, a)
  BY DEF WorkerStep
<1>2. /\ \A a \in TopUps \cup Parts : a \in Nat \ {0}
      /\ DefaultToken \in Tokens
      /\ participants \in SUBSET (Workers \cup Payers)
      /\ participants \cup {w} \in SUBSET (Workers \cup Payers)
  BY EscrowAssumption DEF FundsInv, MoneyTypeOK
<1>3. ASSUME NEW a \in TopUps, Stake(w, a)
      PROVE  BooksKept
  <2>1. AddStake(DefaultToken, w, a) /\ participants' \in SUBSET (Workers \cup Payers)
    BY <1>2, <1>3 DEF Stake, Track
  <2>2. QED  BY <1>2, <2>1, AddStakeKeepsBooks
<1>4. ASSUME NEW t \in Tokens, NEW a \in TopUps, StakeAsset(w, t, a)
      PROVE  BooksKept
  <2>1. AddStake(t, w, a) /\ participants' \in SUBSET (Workers \cup Payers)
    BY <1>2, <1>4 DEF StakeAsset
  <2>2. QED  BY <1>2, <2>1, AddStakeKeepsBooks
<1>5. ASSUME NEW t \in Tokens, NEW a \in Parts, BeginUnstake(w, t, a) \/ Withdraw(w, t, a)
      PROVE  BooksKept
  BY <1>2, <1>5, UnstakeKeepsBooks, WithdrawKeepsBooks
<1>6. ASSUME NEW t \in Tokens, CompleteUnstake(w, t)
      PROVE  BooksKept
  BY <1>6, CompleteKeepsBooks
<1>7. ASSUME NEW a \in Parts, LockOwed(w, a) \/ ReleaseOwed(w, a)
      PROVE  BooksKept
  <2>1. /\ UNCHANGED <<seq, recordVars, bookVars, custody, balance, owed, participants, accessVars>>
        /\ owedLock' \in [Workers -> Nat]
    <3>1. a \in Nat /\ owedLock \in [Workers -> Nat]
      BY <1>2 DEF FundsInv, MoneyTypeOK
    <3>2. CASE LockOwed(w, a)
      BY <3>1, <3>2 DEF LockOwed
    <3>3. CASE ReleaseOwed(w, a)
      <4>1. a <= owedLock[w] /\ owedLock' = [owedLock EXCEPT ![w] = owedLock[w] - a]
        BY <3>3 DEF ReleaseOwed
      <4>2. owedLock[w] - a \in Nat
        BY <3>1, <4>1
      <4>3. QED  BY <3>1, <3>3, <4>1, <4>2 DEF ReleaseOwed
    <3>4. QED  BY <1>7, <3>2, <3>3
  <2>2. MoneyTypeOK'
    BY <2>1 DEF FundsInv, MoneyTypeOK, bookVars, rankingVars, accessVars
  <2>3. QED  BY <2>1, <2>2, QuietStepKeepsBooks
<1>8. QED  BY <1>1, <1>3, <1>4, <1>5, <1>6, <1>7

\* Every call of the admin, and a ledger that closes.
LEMMA AdminStepKeepsBooks ==
  ASSUME FundsInv, AdminStep \/ CloseLedger
  PROVE  BooksKept
<1>1. seq' \in {seq, seq + 1} /\ UNCHANGED <<recordVars, moneyVars>>
  BY DEF AdminStep, SetAssetAllowed, SetPaused, SetConsensusThreshold, Configure, CloseLedger, Tick
<1>2. allowedTokens' \subseteq Tokens /\ paused' \in BOOLEAN
  <2>1. allowedTokens \subseteq Tokens /\ paused \in BOOLEAN
    BY DEF FundsInv, MoneyTypeOK
  <2>2. QED  BY <2>1, EscrowAssumption
             DEF AdminStep, SetAssetAllowed, SetPaused, SetConsensusThreshold, Configure,
                 CloseLedger, accessVars
<1>3. MoneyTypeOK'
  BY <1>1, <1>2 DEF FundsInv, MoneyTypeOK, moneyVars, bookVars, rankingVars
<1>4. QED  BY <1>1, <1>3, QuietStepKeepsBooks DEF moneyVars
-----------------------------------------------------------------------------
(* Moving to and from another instance.                                    *)

\* A table in which the entries of some accounts are cleared.
Cleared(f, g, accounts) == \A x \in DOMAIN f : g[x] = IF x \in accounts THEN 0 ELSE f[x]

\* What a list of accounts takes along is what the books lose.
LEMMA AccountsLeave ==
  ASSUME NEW f, NEW g, NEW S, IsFiniteSet(S), DOMAIN f = S, DOMAIN g = S,
         NEW accounts, \A x \in S : f[x] \in Nat
  PROVE  /\ SumFunctionOnSet(f, accounts \cap DOMAIN f) \in Nat
         /\ SumFunction(f) \in Nat
         /\ Cleared(f, g, accounts) =>
              SumFunction(g) = SumFunction(f) - SumFunctionOnSet(f, accounts \cap DOMAIN f)
         /\ Cleared(f, g, {}) => SumFunction(g) = SumFunction(f)
<1>1. /\ SumFunction(f) = SumFunctionOnSet(f, S) /\ SumFunction(g) = SumFunctionOnSet(g, S)
      /\ accounts \cap S \subseteq S /\ IsFiniteSet(accounts \cap S)
  BY FS_Subset DEF SumFunction
<1>2. SumFunctionOnSet(f, accounts \cap S) \in Nat /\ SumFunctionOnSet(f, S) \in Nat
  <2>1. \A x \in accounts \cap S : f[x] \in Nat
    OBVIOUS
  <2>2. SumFunctionOnSet(f, accounts \cap S) \in Nat
    BY <1>1, <2>1, SumNat
  <2>3. QED  BY <2>2, SumNat
<1>3. ASSUME Cleared(f, g, accounts)
      PROVE  SumFunction(g) = SumFunction(f) - SumFunctionOnSet(f, accounts \cap S)
  <2>1. \A x \in S : f[x] \in Int /\ g[x] = (IF x \in accounts THEN 0 ELSE f[x])
    BY <1>3 DEF Cleared
  <2>2. SumFunctionOnSet(g, S) = SumFunctionOnSet(f, S) - SumFunctionOnSet(f, accounts \cap S)
    BY <2>1, SumCleared
  <2>3. QED  BY <1>1, <2>2
<1>4. ASSUME Cleared(f, g, {})
      PROVE  SumFunction(g) = SumFunction(f)
  <2>1. \A x \in S : f[x] \in Int /\ g[x] = f[x]
    BY <1>4 DEF Cleared
  <2>2. SumFunctionOnSet(g, S) = SumFunctionOnSet(f, S)
    BY <2>1, SumEqual
  <2>3. QED  BY <1>1, <2>2
<1>5. QED  BY <1>1, <1>2, <1>3, <1>4

\* migrate_balances(): stake, credits and balance of the listed accounts leave
\* with the money that covers them, in every listed asset.
LEMMA MigrateBalancesKeepsBooks ==
  ASSUME FundsInv, NEW accounts, NEW tokens, MigrateBalances(accounts, tokens)
  PROVE  BooksKept /\ NoBucketGrows /\ \A t \in Tokens : custody'[t] <= custody[t]
<1> DEFINE Gone(t) == t \in tokens \cup {DefaultToken}
           Bond(t) == [w \in Workers |-> Slashable(stake[t][w])]
           Of(amounts) == SumFunctionOnSet(amounts, accounts \cap DOMAIN amounts)
           sent == [t \in Tokens |-> IF Gone(t)
                      THEN Of(Bond(t)) + Of(owed[t]) + Of(balance[t]) ELSE 0]
<1>1. /\ \A t \in Tokens : sent[t] <= custody[t]
      /\ custody' = [t \in Tokens |-> custody[t] - sent[t]]
      /\ stake' = [t \in Tokens |-> [w \in Workers |->
                      IF Gone(t) /\ w \in accounts /\ Slashable(stake[t][w]) > 0
                        THEN NoStake ELSE stake[t][w]]]
      /\ owed' = [t \in Tokens |-> [x \in DOMAIN owed[t] |->
                      IF Gone(t) /\ x \in accounts THEN 0 ELSE owed[t][x]]]
      /\ balance' = [t \in Tokens |-> [x \in DOMAIN balance[t] |->
                      IF Gone(t) /\ x \in accounts THEN 0 ELSE balance[t][x]]]
      /\ UNCHANGED <<seq, recordVars, rankingVars, owedLock, participants, accessVars>>
  BY DEF MigrateBalances
<1>2. \A t \in Tokens : /\ DOMAIN owed[t] = Workers /\ DOMAIN balance[t] = Payers
                        /\ (\A w \in Workers : owed[t][w] \in Nat)
                        /\ (\A p \in Payers : balance[t][p] \in Nat)
  BY DEF FundsInv, MoneyTypeOK
<1>3. ASSUME NEW t \in Tokens
      PROVE  /\ Of(owed[t]) \in Nat
             /\ OwedIn(t)' = OwedIn(t) - (IF Gone(t) THEN Of(owed[t]) ELSE 0)
  <2> DEFINE f == owed[t]
             g == owed'[t]
  <2>1. /\ DOMAIN f = Workers /\ DOMAIN g = Workers /\ \A x \in Workers : f[x] \in Nat
        /\ Gone(t) => Cleared(f, g, accounts)
        /\ ~Gone(t) => Cleared(f, g, {})
    BY <1>1, <1>2 DEF Cleared
  <2>2. OwedIn(t) = SumFunction(f) /\ OwedIn(t)' = SumFunction(g)
    BY DEF OwedIn
  <2> HIDE DEF f, g, Gone
  <2>3. /\ SumFunctionOnSet(f, accounts \cap DOMAIN f) \in Nat /\ SumFunction(f) \in Nat
        /\ Gone(t) => SumFunction(g) = SumFunction(f) - SumFunctionOnSet(f, accounts \cap DOMAIN f)
        /\ ~Gone(t) => SumFunction(g) = SumFunction(f)
    BY <2>1, AccountsAssumption, AccountsLeave
  <2>4. QED  BY <2>2, <2>3 DEF f
<1>4. ASSUME NEW t \in Tokens
      PROVE  /\ Of(balance[t]) \in Nat
             /\ Prepaid(t)' = Prepaid(t) - (IF Gone(t) THEN Of(balance[t]) ELSE 0)
  <2> DEFINE f == balance[t]
             g == balance'[t]
  <2>1. /\ DOMAIN f = Payers /\ DOMAIN g = Payers /\ \A x \in Payers : f[x] \in Nat
        /\ Gone(t) => Cleared(f, g, accounts)
        /\ ~Gone(t) => Cleared(f, g, {})
    BY <1>1, <1>2 DEF Cleared
  <2>2. Prepaid(t) = SumFunction(f) /\ Prepaid(t)' = SumFunction(g)
    BY DEF Prepaid
  <2> HIDE DEF f, g, Gone
  <2>3. /\ SumFunctionOnSet(f, accounts \cap DOMAIN f) \in Nat /\ SumFunction(f) \in Nat
        /\ Gone(t) => SumFunction(g) = SumFunction(f) - SumFunctionOnSet(f, accounts \cap DOMAIN f)
        /\ ~Gone(t) => SumFunction(g) = SumFunction(f)
    BY <2>1, AccountsAssumption, AccountsLeave
  <2>4. QED  BY <2>2, <2>3 DEF f
<1>5. ASSUME NEW t \in Tokens
      PROVE  /\ Of(Bond(t)) \in Nat
             /\ Bonded(t)' = Bonded(t) - (IF Gone(t) THEN Of(Bond(t)) ELSE 0)
  <2> DEFINE f == Bond(t)
             g == [w \in Workers |-> Slashable(stake'[t][w])]
  <2>1. DOMAIN f = Workers /\ DOMAIN g = Workers
    OBVIOUS
  <2>2. ASSUME NEW w \in Workers
        PROVE  /\ f[w] \in Nat
               /\ Gone(t) => g[w] = IF w \in accounts THEN 0 ELSE f[w]
               /\ ~Gone(t) => g[w] = f[w]
    <3>1. Slashable(stake[t][w]) \in Nat
      BY SlashableIsNumber DEF FundsInv
    <3>2. Slashable(NoStake) = 0
      BY DEF Slashable, NoStake
    <3>3. stake'[t][w] = IF Gone(t) /\ w \in accounts /\ Slashable(stake[t][w]) > 0
                           THEN NoStake ELSE stake[t][w]
      BY <1>1
    <3>4. f[w] = Slashable(stake[t][w]) /\ g[w] = Slashable(stake'[t][w])
      OBVIOUS
    <3> HIDE DEF f, g, Gone
    <3>5. QED  BY <3>1, <3>2, <3>3, <3>4
  <2>3. Bonded(t) = SumFunction(f) /\ Bonded(t)' = SumFunction(g)
    BY DEF Bonded
  <2> HIDE DEF f, g, Gone
  <2>4. /\ \A w \in Workers : f[w] \in Nat
        /\ Gone(t) => Cleared(f, g, accounts)
        /\ ~Gone(t) => Cleared(f, g, {})
    BY <2>1, <2>2 DEF Cleared
  <2>5. /\ SumFunctionOnSet(f, accounts \cap DOMAIN f) \in Nat /\ SumFunction(f) \in Nat
        /\ Gone(t) => SumFunction(g) = SumFunction(f) - SumFunctionOnSet(f, accounts \cap DOMAIN f)
        /\ ~Gone(t) => SumFunction(g) = SumFunction(f)
    BY <2>1, <2>4, AccountsAssumption, AccountsLeave
  <2>6. QED  BY <2>3, <2>5 DEF f
<1>6. \A t \in Tokens : sent[t] = IF Gone(t) THEN Of(Bond(t)) + Of(owed[t]) + Of(balance[t]) ELSE 0
  OBVIOUS
<1>7. /\ owed' \in [Tokens -> [Workers -> Nat]] /\ balance' \in [Tokens -> [Payers -> Nat]]
  BY <1>1, <1>2
<1>8. StakeInv' /\ NoBucketGrows
  <2>1. ASSUME NEW t \in Tokens, NEW w \in Workers
        PROVE  InfoOK(stake'[t][w], seq)
    <3>1. InfoOK(stake[t][w], seq) /\ InfoOK(NoStake, seq)
      BY NoStakeOK DEF FundsInv, StakeInv
    <3>2. stake'[t][w] \in {NoStake, stake[t][w]}
      BY <1>1
    <3>3. QED  BY <3>1, <3>2
  <2>2. stake' \in [Tokens -> [Workers -> StakeInfoType]]
    <3>1. \A t \in Tokens, w \in Workers : stake'[t][w] \in StakeInfoType
      BY <2>1 DEF InfoOK
    <3>2. stake' = [t \in Tokens |-> [w \in Workers |-> stake'[t][w]]]
      BY <1>1
    <3>3. QED  BY <3>1, <3>2
  <2>3. NoBucketGrows
    <3>1. NoStake.unbonding = 0
      BY DEF NoStake
    <3>2. \A t \in Tokens, w \in Workers : stake'[t][w] \in {NoStake, stake[t][w]}
      BY <1>1
    <3>3. QED  BY <3>1, <3>2, UnbondingIsNumber DEF NoBucketGrows, FundsInv
  <2>4. QED  BY <1>1, <2>1, <2>2, <2>3 DEF FundsInv, StakeInv
<1> HIDE DEF Gone, Bond, Of, sent
<1>9. custody' \in [Tokens -> Nat] /\ \A t \in Tokens : custody'[t] <= custody[t]
  <2>1. ASSUME NEW t \in Tokens
        PROVE  custody[t] - sent[t] \in Nat /\ custody[t] - sent[t] <= custody[t]
    <3>1. sent[t] \in Nat /\ custody[t] \in Nat /\ sent[t] <= custody[t]
      <4>1. Of(Bond(t)) \in Nat /\ Of(owed[t]) \in Nat /\ Of(balance[t]) \in Nat
        BY <1>3, <1>4, <1>5
      <4>2. custody[t] \in Nat /\ sent[t] <= custody[t]
        BY <1>1 DEF FundsInv, MoneyTypeOK
      <4>3. QED  BY <1>6, <4>1, <4>2
    <3>2. QED  BY <3>1
  <2>2. QED  BY <1>1, <2>1
<1>10. MoneyTypeOK'
  BY <1>1, <1>7, <1>9 DEF FundsInv, MoneyTypeOK, rankingVars, accessVars
<1>11. ASSUME Solvency, NEW u \in Tokens
       PROVE  custody'[u] = Obligations(u)'
  <2>1. Escrowed(u)' = Escrowed(u) /\ BondsIn(u)' = BondsIn(u)
    BY <1>1, PartsUntouched DEF recordVars, reviewVars
  <2>2. custody[u] = Obligations(u)
    BY <1>11 DEF Solvency
  <2>3. custody'[u] = custody[u] - sent[u]
    BY <1>1
  <2>4. QED  BY <1>3, <1>4, <1>5, <1>6, <2>1, <2>2, <2>3, PartsAreNumbers, BooksBalance
<1>12. QED  BY <1>8, <1>9, <1>10, <1>11 DEF BooksKept, Solvency

\* One account of a row receives an amount.
LEMMA AccountReceives ==
  ASSUME NEW S, IsFiniteSet(S), NEW row \in [S -> Nat], NEW new \in [S -> Nat],
         NEW x, NEW a \in Nat, x \notin S => a = 0,
         \A y \in S \ {x} : new[y] = row[y],
         x \in S => new[x] = row[x] + a
  PROVE  SumFunction(new) = SumFunction(row) + a
<1>1. \A y \in S : row[y] \in Int /\ new[y] \in Int
  OBVIOUS
<1>2. DOMAIN new = S /\ DOMAIN row = S /\ IsFiniteSet(S)
  OBVIOUS
<1>3. CASE x \in S
  <2>1. /\ new[x] - row[x] = a
        /\ new[x] \in Int
        /\ \A y \in S : row[y] \in Int /\ (y # x => new[y] = row[y])
    BY <1>1, <1>3
  <2>2. SumFunctionOnSet(new, S) = SumFunctionOnSet(row, S) + (new[x] - row[x])
    BY ONLY <1>2, <1>3, <2>1, SumUpdate
  <2>3. QED  BY ONLY <1>2, <2>1, <2>2 DEF SumFunction
<1>4. CASE x \notin S
  <2>1. a = 0 /\ \A y \in S : row[y] \in Int /\ new[y] = row[y]
    BY <1>1, <1>4
  <2>2. SumFunctionOnSet(new, S) = SumFunctionOnSet(row, S)
    BY ONLY <1>2, <2>1, SumEqual
  <2>3. SumFunctionOnSet(row, S) \in Int
    BY ONLY <1>1, <1>2, SumInt
  <2>4. QED  BY ONLY <1>2, <2>1, <2>2, <2>3 DEF SumFunction
<1>5. QED  BY <1>3, <1>4

\* Stake that arrives settled is owed at once, and disturbs no tranche.
LEMMA StakeArrives ==
  ASSUME StakeInv, NEW t \in Tokens, NEW x, NEW a \in Nat, x \in Workers \/ a = 0, seq' = seq,
         stake' = [stake EXCEPT ![t] =
                     [w \in Workers |-> [stake[t][w] EXCEPT !.settled = stake[t][w].settled
                                           + (IF w = x THEN a ELSE 0)]]]
  PROVE  /\ StakeInv'
         /\ \A u \in Tokens : Bonded(u)' = Bonded(u) + (IF u = t THEN a ELSE 0)
         /\ NoBucketGrows
<1> DEFINE after == [w \in Workers |-> [stake[t][w] EXCEPT !.settled = stake[t][w].settled
                                           + (IF w = x THEN a ELSE 0)]]
<1>1. ASSUME NEW w \in Workers
      PROVE  /\ after[w] \in StakeInfoType /\ InfoOK(after[w], seq)
             /\ Slashable(stake[t][w]) \in Nat
             /\ Slashable(after[w]) = Slashable(stake[t][w]) + (IF w = x THEN a ELSE 0)
             /\ after[w].unbonding = stake[t][w].unbonding
  <2> DEFINE old == stake[t][w]
             k == IF w = x THEN a ELSE 0
             new == [old EXCEPT !.settled = old.settled + k]
  <2>1. after[w] = new
    OBVIOUS
  <2>2. InfoOK(old, seq) /\ k \in Nat
    BY DEF StakeInv
  <2> HIDE DEF old, k
  <2>3. /\ old.settled \in Nat /\ old.warming \in Nat
        /\ old.unbonding \in Nat /\ old.releaseAt \in Nat
        /\ old.tranches \in Seq(Tranche)
        /\ old = [settled |-> old.settled, warming |-> old.warming, tranches |-> old.tranches,
                  unbonding |-> old.unbonding, releaseAt |-> old.releaseAt]
    BY <2>2, InfoFacts
  <2>4. new = [settled |-> old.settled + k, warming |-> old.warming, tranches |-> old.tranches,
               unbonding |-> old.unbonding, releaseAt |-> old.releaseAt]
    BY <2>3
  <2> HIDE DEF new
  <2>5. InfoOK(new, seq)
    BY <2>2, <2>3, <2>4 DEF InfoOK, StakeInfoType, Tranche
  <2>6. Slashable(old) \in Nat /\ Slashable(new) = Slashable(old) + k
    BY <2>2, <2>3, <2>4 DEF Slashable
  <2> HIDE DEF after
  <2>7. new \in StakeInfoType
    BY <2>5 DEF InfoOK
  <2>8. new.unbonding = old.unbonding
    BY <2>4
  <2>9. QED  BY <2>1, <2>5, <2>6, <2>7, <2>8 DEF old, k
<1>2. stake' = [stake EXCEPT ![t] = after] /\ DOMAIN after = Workers
      /\ after = [w \in Workers |-> after[w]]
  OBVIOUS
<1> HIDE DEF after
<1>3. after \in [Workers -> StakeInfoType]
  BY <1>1, <1>2
<1>4. /\ stake' \in [Tokens -> [Workers -> StakeInfoType]]
      /\ \A u \in Tokens : stake'[u] = IF u = t THEN after ELSE stake[u]
  BY <1>2, <1>3 DEF StakeInv
<1>5. StakeInv'
  BY <1>1, <1>4 DEF StakeInv
<1>6. ASSUME NEW u \in Tokens
      PROVE  Bonded(u)' = Bonded(u) + (IF u = t THEN a ELSE 0)
  <2> DEFINE f == [w \in Workers |-> Slashable(stake[u][w])]
             g == [w \in Workers |-> Slashable(stake'[u][w])]
  <2>1. Bonded(u) = SumFunctionOnSet(f, Workers) /\ Bonded(u)' = SumFunctionOnSet(g, Workers)
    BY DEF Bonded, SumFunction
  <2>2. \A w \in Workers : f[w] \in Int /\ g[w] = f[w] + (IF u = t /\ w = x THEN a ELSE 0)
    <3>1. \A w \in Workers : Slashable(stake[u][w]) \in Int
      BY SlashableIsNumber
    <3>2. CASE u = t
      BY <1>1, <1>4, <3>1, <3>2
    <3>3. CASE u # t
      BY <1>4, <3>1, <3>3
    <3>4. QED  BY <3>2, <3>3
  <2> HIDE DEF f, g
  <2>3. SumFunctionOnSet(f, Workers) \in Int
    BY <2>2, AccountsAssumption, SumInt
  <2>4. CASE u = t
    <3>1. a \in Int /\ \A w \in Workers : f[w] \in Int /\ g[w] = f[w] + (IF w = x THEN a ELSE 0)
      BY <2>2, <2>4
    <3>2. SumFunctionOnSet(g, Workers) = SumFunctionOnSet(f, Workers) + a
      <4>1. CASE x \in Workers
        BY ONLY <3>1, <4>1, AccountsAssumption, SumCredited
      <4>2. CASE a = 0
        <5>1. \A w \in Workers : f[w] \in Int /\ g[w] = f[w]
          BY ONLY <3>1, <4>2
        <5>2. SumFunctionOnSet(g, Workers) = SumFunctionOnSet(f, Workers)
          BY ONLY <5>1, AccountsAssumption, SumEqual
        <5>3. QED  BY ONLY <2>3, <4>2, <5>2
      <4>3. QED  BY <4>1, <4>2
    <3>3. QED  BY <2>1, <2>4, <3>2
  <2>5. CASE u # t
    <3>1. \A w \in Workers : f[w] \in Int /\ g[w] = f[w]
      BY <2>2, <2>5
    <3>2. SumFunctionOnSet(g, Workers) = SumFunctionOnSet(f, Workers)
      BY <3>1, AccountsAssumption, SumEqual
    <3>3. QED  BY <2>1, <2>3, <2>5, <3>2
  <2>6. QED  BY <2>4, <2>5
<1>7. NoBucketGrows
  BY <1>1, <1>4, UnbondingIsNumber DEF NoBucketGrows
<1>8. QED  BY <1>5, <1>6, <1>7

\* import_balances(): stake, credits and balance arrive with their money.
LEMMA ImportBalancesKeepsBooks ==
  ASSUME FundsInv, NEW t \in Tokens, NEW x \in Workers \cup Payers, NEW sum \in Transfers,
         ImportBalances(t, x, sum)
  PROVE  /\ BooksKept /\ NoBucketGrows
         /\ \A u \in Tokens, w \in Workers : owed[u][w] <= owed'[u][w]
<1> DEFINE s == sum.stake
           o == sum.owed
           b == sum.balance
           newOwed == [y \in Workers |-> owed[t][y] + (IF y = x THEN o ELSE 0)]
           newBalance == [y \in Payers |-> balance[t][y] + (IF y = x THEN b ELSE 0)]
<1>1. s \in Nat /\ o \in Nat /\ b \in Nat
  BY EscrowAssumption
<1>2. /\ x \in Workers \/ s = 0
      /\ x \in Workers \/ o = 0
      /\ x \in Payers \/ b = 0
      /\ Receive(t, s + o + b)
      /\ participants' \subseteq participants \cup {x}
      /\ UNCHANGED <<seq, recordVars, rankingVars, owedLock, accessVars>>
  BY DEF ImportBalances, Track
<1>3. /\ stake' = [stake EXCEPT ![t] =
                     [w \in Workers |-> [stake[t][w] EXCEPT !.settled = stake[t][w].settled
                                           + (IF w = x THEN s ELSE 0)]]]
  BY DEF ImportBalances
<1>4. owed' = [owed EXCEPT ![t] = newOwed] /\ balance' = [balance EXCEPT ![t] = newBalance]
  <2>1. DOMAIN owed[t] = Workers /\ DOMAIN balance[t] = Payers
    BY DEF FundsInv, MoneyTypeOK
  <2>2. QED  BY <2>1 DEF ImportBalances
<1>5. /\ newOwed \in [Workers -> Nat] /\ newBalance \in [Payers -> Nat]
      /\ \A y \in Workers : newOwed[y] = owed[t][y] + (IF y = x THEN o ELSE 0)
      /\ \A y \in Payers : newBalance[y] = balance[t][y] + (IF y = x THEN b ELSE 0)
  BY <1>1 DEF FundsInv, MoneyTypeOK
<1> HIDE DEF s, o, b, newOwed, newBalance
<1>6. StakeInv' /\ NoBucketGrows /\ \A u \in Tokens : Bonded(u)' = Bonded(u) + (IF u = t THEN s ELSE 0)
  <2>1. StakeInv /\ seq' = seq
    BY <1>2 DEF FundsInv
  <2>2. s \in Nat /\ (x \in Workers \/ s = 0) /\ t \in Tokens
    BY <1>1, <1>2
  <2>3. QED  BY ONLY <1>3, <2>1, <2>2, StakeArrives
<1>7. /\ owed' \in [Tokens -> [Workers -> Nat]]
      /\ \A u \in Tokens : OwedIn(u)' = OwedIn(u) + (IF u = t THEN o ELSE 0)
  <2>1. owed[t] \in [Workers -> Nat]
    BY DEF FundsInv, MoneyTypeOK
  <2>2. /\ newOwed \in [Workers -> Nat] /\ owed[t] \in [Workers -> Nat] /\ IsFiniteSet(Workers)
        /\ o \in Nat /\ (x \notin Workers => o = 0)
        /\ \A y \in Workers \ {x} : newOwed[y] = owed[t][y]
        /\ x \in Workers => newOwed[x] = owed[t][x] + o
    BY <1>1, <1>2, <1>5, <2>1, AccountsAssumption
  <2>3. SumFunction(newOwed) = SumFunction(owed[t]) + o
    BY ONLY <2>2, AccountReceives
  <2>4. QED  BY <1>4, <2>2, <2>3, PartsAreNumbers DEF OwedIn, FundsInv, MoneyTypeOK
<1>8. /\ balance' \in [Tokens -> [Payers -> Nat]]
      /\ \A u \in Tokens : Prepaid(u)' = Prepaid(u) + (IF u = t THEN b ELSE 0)
  <2>1. balance[t] \in [Payers -> Nat]
    BY DEF FundsInv, MoneyTypeOK
  <2>2. /\ newBalance \in [Payers -> Nat] /\ balance[t] \in [Payers -> Nat] /\ IsFiniteSet(Payers)
        /\ b \in Nat /\ (x \notin Payers => b = 0)
        /\ \A y \in Payers \ {x} : newBalance[y] = balance[t][y]
        /\ x \in Payers => newBalance[x] = balance[t][x] + b
    BY <1>1, <1>2, <1>5, <2>1, AccountsAssumption
  <2>3. SumFunction(newBalance) = SumFunction(balance[t]) + b
    BY ONLY <2>2, AccountReceives
  <2>4. QED  BY <1>4, <2>2, <2>3, PartsAreNumbers DEF Prepaid, FundsInv, MoneyTypeOK
<1>9. custody' \in [Tokens -> Nat]
      /\ \A u \in Tokens : custody'[u] = custody[u] + (IF u = t THEN s + o + b ELSE 0)
  <2>1. s + o + b \in Nat
    BY <1>1
  <2>2. QED  BY <1>2, <2>1, CustodyMoves DEF FundsInv
<1>10. MoneyTypeOK'
  BY <1>2, <1>7, <1>8, <1>9 DEF FundsInv, MoneyTypeOK, rankingVars, accessVars
<1>11. ASSUME Solvency, NEW u \in Tokens
       PROVE  custody'[u] = Obligations(u)'
  <2>1. Escrowed(u)' = Escrowed(u) /\ BondsIn(u)' = BondsIn(u)
    BY <1>2, PartsUntouched DEF recordVars, reviewVars
  <2>2. custody[u] = Obligations(u)
    BY <1>11 DEF Solvency
  <2>3. QED  BY <1>1, <1>6, <1>7, <1>8, <1>9, <2>1, <2>2, PartsAreNumbers, BooksBalance
<1>12. \A u \in Tokens, w \in Workers : owed[u][w] <= owed'[u][w]
  BY <1>1, <1>4, <1>5 DEF FundsInv, MoneyTypeOK
<1>13. QED  BY <1>6, <1>10, <1>11, <1>12 DEF BooksKept, Solvency

\* What another instance hands over, and what is handed over to it.
LEMMA MigrationStepKeepsBooks ==
  ASSUME FundsInv, TakeOver \/ HandOver
  PROVE  BooksKept
<1>1. ASSUME NEW t \in Tokens, NEW q \in Ids, NEW p \in Payers, NEW a \in Amounts,
             Import(q, p, t, a)
      PROVE  BooksKept
  <2>1. Opens(q, t, a) /\ Receive(t, a)
        /\ UNCHANGED <<seq, bookVars, balance, owed, owedLock, participants, accessVars>>
    BY <1>1, OpeningOpens DEF Import, FundsInv
  <2>2. QED  BY <2>1, FundedOpeningKeepsBooks
<1>2. ASSUME NEW q \in Ids, MigratePending(q)
      PROVE  BooksKept
  <2>1. /\ StatusIs(q, "Pending") /\ "Migrated" \in FinalStatuses /\ SetStatus(q, "Migrated")
        /\ UNCHANGED reviewVars /\ PayBack(q)
    BY <1>2 DEF MigratePending, MigrateQuestion, SettleQuestion, FinalStatuses
  <2>2. QED  BY <2>1, ReturnKeepsBooks
<1>3. CASE TakeOver
  BY <1>1, <1>3, ImportBalancesKeepsBooks DEF TakeOver
<1>4. CASE HandOver
  BY <1>2, <1>4, MigrateBalancesKeepsBooks DEF HandOver
<1>5. QED  BY <1>3, <1>4

\* One step of the contract keeps the books.
LEMMA NextKeepsBooks ==
  ASSUME FundsInv, [Next]_vars
  PROVE  BooksKept
<1>1. CASE UNCHANGED vars
  <2>1. MoneyTypeOK'
    BY <1>1 DEF FundsInv, MoneyTypeOK, vars, bookVars, rankingVars, accessVars
  <2>2. QED  BY <1>1, <2>1, QuietStepKeepsBooks DEF vars
<1>2. CASE Next
  BY <1>2, PayerStepKeepsBooks, SettlementStepKeepsBooks, ConsensusStepKeepsBooks,
     WorkerStepKeepsBooks, MigrationStepKeepsBooks, AdminStepKeepsBooks DEF Next
<1>3. QED  BY <1>1, <1>2

\* The books of a new contract are empty.
LEMMA InitialBooks ==
  ASSUME Init
  PROVE  FundsInv /\ Solvency
<1>1. StakeInv
  BY StakeInitOK DEF Init
<1>2. QuestionsInv /\ AcceptedVerdicts /\ OpenedBefore
  BY QuestionsInitInv DEF Init, QuestionsInit, AcceptedVerdicts, OpenedBefore, NoEntries
<1>3. MoneyTypeOK
  BY EscrowAssumption DEF Init, MoneyTypeOK, RankingInit
<1>4. FundsInv
  BY <1>1, <1>2, <1>3 DEF FundsInv
<1>5. ASSUME NEW t \in Tokens
      PROVE  custody[t] = Obligations(t)
  <2>1. Escrowed(t) = 0
    <3> DEFINE K == {o \in OpenQuestions : question[o].token = t}
    <3>1. K = {}
      BY DEF Init, QuestionsInit, NoEntries, OpenQuestions
    <3>2. Escrowed(t) = SumFunctionOnSet([q \in K |-> question[q].amount], K)
      BY DEF Escrowed, SumFunction
    <3> HIDE DEF K
    <3>3. QED  BY <3>1, <3>2, SumEmpty
  <2>2. BondsHeld = 0
    <3> DEFINE D == DOMAIN challengerBond
    <3>1. D = {}
      BY DEF Init, QuestionsInit, NoEntries
    <3>2. BondsHeld = SumFunctionOnSet([q \in D |-> challengerBond[q].amount], D)
      BY DEF BondsHeld, SumFunction
    <3> HIDE DEF D
    <3>3. QED  BY <3>1, <3>2, SumEmpty
  <2>3. \A f, S : IsFiniteSet(S) /\ DOMAIN f = S /\ (\A x \in S : f[x] = 0) => SumFunction(f) = 0
    <3> SUFFICES ASSUME NEW f, NEW S, IsFiniteSet(S), DOMAIN f = S, \A x \in S : f[x] = 0
                 PROVE  SumFunction(f) = 0
      BY Zenon
    <3>1. 0 \in Int /\ IsFiniteSet(S) /\ \A x \in S : f[x] = 0
      OBVIOUS
    <3>2. SumFunctionOnSet(f, S) = Cardinality(S) * 0
      BY ONLY <3>1, SumConstant
    <3>3. Cardinality(S) \in Nat
      BY ONLY <3>1, FS_CardinalityType
    <3>4. QED  BY <3>2, <3>3 DEF SumFunction
  <2>4. SumFunction(balance[t]) = 0
    <3>1. DOMAIN balance[t] = Payers /\ \A p \in Payers : balance[t][p] = 0
      BY DEF Init
    <3>2. QED  BY ONLY <2>3, <3>1, AccountsAssumption
  <2>5. SumFunction(owed[t]) = 0
    <3>1. DOMAIN owed[t] = Workers /\ \A w \in Workers : owed[t][w] = 0
      BY DEF Init
    <3>2. QED  BY ONLY <2>3, <3>1, AccountsAssumption
  <2>6. Bonded(t) = 0
    <3> DEFINE f == [w \in Workers |-> Slashable(stake[t][w])]
    <3>1. \A w \in Workers : f[w] = 0
      BY DEF Init, StakeInit, Slashable, NoStake
    <3>2. DOMAIN f = Workers /\ Bonded(t) = SumFunction(f)
      BY DEF Bonded
    <3> HIDE DEF f
    <3>3. QED  BY ONLY <2>3, <3>1, <3>2, AccountsAssumption
  <2>7. custody[t] = 0
    BY DEF Init
  <2>8. QED  BY <2>1, <2>2, <2>4, <2>5, <2>6, <2>7 DEF Obligations
<1>6. QED  BY <1>4, <1>5 DEF Solvency

\* The amounts stay what they are: numbers, in well formed records.
LEMMA FundsInvHolds == Spec => []FundsInv
<1>1. Init => FundsInv
  BY InitialBooks
<1>2. (QuestionsInv /\ AcceptedVerdicts /\ OpenedBefore)' /\ FundsInv /\ [Next]_vars => FundsInv'
  BY NextKeepsBooks DEF BooksKept, FundsInv
<1>3. Spec => [](QuestionsInv /\ AcceptedVerdicts /\ OpenedBefore)
  BY ContractRunsLifecycle, HistoryHolds, PTL
<1>4. QED  BY <1>1, <1>2, <1>3, PTL DEF Spec

\* Whatever is called in whatever order, no amount the contract holds or owes
\* becomes negative: not a payer's prepaid balance, not a worker's credits, not
\* a bucket of anybody's stake.
THEOREM FundsAreTyped == Spec => []FundsTypeOK
<1>1. FundsInv => FundsTypeOK
  BY DEF FundsInv, MoneyTypeOK, StakeInv, QuestionsInv, FundsTypeOK, StakeTypeOK
<1>2. QED  BY <1>1, FundsInvHolds, PTL

\* The contract holds in every asset exactly what it owes in it, as long as
\* challenge bonds are posted on questions in the default asset only.
THEOREM BooksAreExact == Spec /\ []BondsInDefault => []Solvency
<1>1. Init => Solvency
  BY InitialBooks
<1>2. FundsInv /\ BondsInDefault /\ Solvency /\ [Next]_vars => Solvency'
  BY NextKeepsBooks DEF BooksKept
<1>3. QED  BY <1>1, <1>2, FundsInvHolds, PTL DEF Spec

\* That is the case when the contract has one asset, and when nobody posts a
\* bond: then the books are exact without any condition.
THEOREM BooksAreExactInOneAsset ==
  ASSUME Tokens = {DefaultToken} \/ Bonds = {}
  PROVE  Spec => []Solvency
<1>1. FundsInv => BondsInDefault
  <2> SUFFICES ASSUME FundsInv, NEW q \in DOMAIN challengerBond
               PROVE  question[q].token = DefaultToken
    BY DEF BondsInDefault
  <2>1. challengerBond[q].amount \in Bonds /\ q \in DOMAIN question
    BY DEF FundsInv, QuestionsInv, QuestionsTypeOK, ReviewRecordsMatch, WithStatus
  <2>2. question[q].token \in Tokens
    BY <2>1 DEF FundsInv, QuestionsInv, QuestionsTypeOK, QuestionType
  <2>3. QED  BY <2>1, <2>2
<1>2. QED  BY <1>1, FundsInvHolds, BooksAreExact, PTL
-----------------------------------------------------------------------------
(* What single calls may not do.                                           *)

PledgeStep ==
  \A w \in Workers :
    owedLock[w] <= owed[DefaultToken][w] => owedLock'[w] <= owed'[DefaultToken][w]

NothingTaken ==
  (\A t \in Tokens : custody'[t] <= custody[t]) /\ counters'.opened = counters.opened

StepPromises ==
  /\ EveryRecordStep
  /\ BucketsWait(timeoutLedgers)
  /\ PledgeStep
  /\ paused => NothingTaken

\* A step that leaves the stakes and the credits alone, and takes nothing in
\* while the breaker is set, keeps them all.
LEMMA StillPromises ==
  ASSUME FundsInv, UNCHANGED <<stake, owed, owedLock>>, seq' \in {seq, seq + 1},
         paused => NothingTaken
  PROVE  StepPromises
<1>1. StakeInv
  BY DEF FundsInv
<1>2. EveryRecordStep /\ NoBucketGrows
  BY <1>1, StakesUntouched, UnbondingIsNumber
<1>3. BucketsWait(timeoutLedgers)
  BY <1>1, UnbondingIsNumber DEF BucketsWait
<1>4. PledgeStep
  BY DEF PledgeStep
<1>5. QED  BY <1>2, <1>3, <1>4 DEF StepPromises

\* A call that lets no bucket grow keeps nobody's money for longer.
LEMMA BucketsOnlyShrink ==
  ASSUME StakeInv, StakeInv', NoBucketGrows
  PROVE  BucketsWait(timeoutLedgers)
<1>1. \A t \in Tokens, w \in Workers :
        stake[t][w].unbonding \in Nat /\ stake'[t][w].unbonding \in Nat
  BY InfoFacts DEF StakeInv
<1>2. QED  BY <1>1 DEF BucketsWait, NoBucketGrows

\* Money that stays or goes out is not taken in.
LEMMA NothingComesIn ==
  ASSUME FundsInv, counters'.opened = counters.opened,
         \/ UNCHANGED custody
         \/ \E t \in Tokens, a \in Nat : PayOut(t, a)
  PROVE  NothingTaken
<1>1. \A t \in Tokens : custody[t] \in Nat
  BY DEF FundsInv, MoneyTypeOK
<1>2. CASE UNCHANGED custody
  BY <1>1, <1>2 DEF NothingTaken
<1>3. ASSUME NEW t \in Tokens, NEW a \in Nat, PayOut(t, a)
      PROVE  NothingTaken
  <2>1. \A u \in Tokens : custody'[u] = custody[u] - (IF u = t THEN a ELSE 0)
    BY <1>3, CustodyMoves DEF FundsInv
  <2>2. QED  BY <1>1, <2>1 DEF NothingTaken
<1>4. QED  BY <1>2, <1>3

\* A call of a payer promises what it should while the breaker is off, and is
\* refused while it is on.
LEMMA PayerStepPromises ==
  ASSUME FundsInv, PayerStep
  PROVE  StepPromises
<1>1. PICK p \in Payers, t \in Tokens :
        \/ \E q \in Ids, a \in Amounts : Submit(q, p, t, a) \/ Charge(q, p, t, a)
        \/ \E a \in Deposits : DepositAsset(p, t, a)
        \/ \E a \in Deposits : t = DefaultToken /\ Deposit(p, a)
        \/ \E a \in Parts : WithdrawBalance(p, t, a)
  BY DEF PayerStep
<1>2. ASSUME NEW q, NEW a, \/ Submit(q, p, t, a) \/ Charge(q, p, t, a)
                           \/ DepositAsset(p, t, a) \/ Deposit(p, a)
      PROVE  StepPromises
  <2>1. ~paused /\ UNCHANGED <<seq, stake, owed, owedLock>>
    BY <1>2 DEF Submit, Charge, DepositAsset, Deposit, Accepting, bookVars
  <2>2. QED  BY <2>1, StillPromises
<1>3. ASSUME NEW a \in Parts, WithdrawBalance(p, t, a)
      PROVE  StepPromises
  <2>1. a \in Nat /\ PayOut(t, a) /\ UNCHANGED <<seq, recordVars, stake, owed, owedLock>>
    BY <1>3, EscrowAssumption DEF WithdrawBalance, bookVars
  <2>2. NothingTaken
    BY <2>1, NothingComesIn DEF recordVars
  <2>3. QED  BY <2>1, <2>2, StillPromises
<1>4. QED  BY <1>1, <1>2, <1>3

\* Credits that only grow keep every pledge backed.
LEMMA CreditsOnlyGrow ==
  ASSUME MoneyTypeOK, MoneyTypeOK', owedLock' = owedLock,
         \A u \in Tokens, w \in Workers : owed[u][w] <= owed'[u][w]
  PROVE  PledgeStep
<1>1. DefaultToken \in Tokens
  BY EscrowAssumption
<1>2. \A w \in Workers : /\ owedLock[w] \in Nat /\ owed[DefaultToken][w] \in Nat
                         /\ owed'[DefaultToken][w] \in Nat
  BY <1>1 DEF MoneyTypeOK
<1>3. QED  BY <1>1, <1>2 DEF PledgeStep

\* A settlement slashes what is there, adds to credits and pays out.
LEMMA SettlementPromises ==
  ASSUME FundsInv, NEW q \in OpenQuestions, NEW v \in Verdicts, Acceptable(v), NEW bond \in Nat,
         SettleQuestion(q, "Resolved"), PaySettlement(q, v, bond)
  PROVE  StepPromises
<1>1. /\ EveryRecordStep /\ NoBucketGrows
      /\ \A u \in Tokens, w \in Workers : owed[u][w] <= owed'[u][w]
      /\ MoneyTypeOK' /\ StakeInv'
      /\ \E earned, take, slashed \in Nat : Settled(q, bond, earned, take, slashed)
  BY SettlementMoves DEF SettleQuestion
<1>2. PICK earned \in Nat, take \in Nat, slashed \in Nat : Settled(q, bond, earned, take, slashed)
  BY ONLY <1>1, Zenon
<1>3. BucketsWait(timeoutLedgers)
  BY <1>1, BucketsOnlyShrink DEF FundsInv
<1>4. PledgeStep
  <2>1. owedLock' = owedLock
    BY DEF PaySettlement
  <2>2. QED  BY <1>1, <2>1, CreditsOnlyGrow DEF FundsInv
<1>5. NothingTaken
  <2>1. counters'.opened = counters.opened
    BY DEF SettleQuestion, CountSettled
  <2>2. \A u \in Tokens : custody[u] \in Nat /\ custody'[u] <= custody[u]
    BY <1>2 DEF Settled, FundsInv, MoneyTypeOK
  <2>3. QED  BY <2>1, <2>2 DEF NothingTaken
<1>6. QED  BY <1>1, <1>3, <1>4, <1>5 DEF StepPromises

\* A ruling takes no money in and touches no pledge.
LEMMA RulingPromises ==
  ASSUME FundsInv, NEW q, NEW v \in Verdicts, Resolve(q, v) \/ EscalateResolve(q, v)
  PROVE  StepPromises
<1>1. Acceptable(v) /\ SettleQuestion(q, "Resolved") /\ PaySettlement(q, v, 0)
  BY DEF Resolve, ResolveQuestion, EscalateResolve, ResolveEscalated
<1>2. q \in OpenQuestions
  BY DEF Resolve, ResolveQuestion, EscalateResolve, ResolveEscalated, StatusIs, OpenQuestions,
         OpenStatuses
<1>3. QED  BY <1>1, <1>2, SettlementPromises

\* Nor does the execution of a verdict that was under review.
LEMMA FinalizePromises ==
  ASSUME FundsInv, NEW q, FinalizeResolve(q)
  PROVE  StepPromises
<1> DEFINE v == pendingResolution[q].verdict
           bond == IF q \in DOMAIN challengerBond THEN challengerBond[q].amount ELSE 0
<1>1. /\ q \in DOMAIN pendingResolution /\ StatusIs(q, "ResolvedPending")
      /\ SettleQuestion(q, "Resolved") /\ PaySettlement(q, v, bond)
  BY DEF FinalizeResolve, FinalizeQuestion, Finalizable
<1>2. v \in Verdicts /\ Acceptable(v)
  BY <1>1 DEF FundsInv, QuestionsInv, QuestionsTypeOK, AcceptedVerdicts
<1>3. bond \in Nat
  BY AmountsAreNumbers DEF FundsInv
<1>4. q \in OpenQuestions
  BY <1>1 DEF StatusIs, OpenQuestions, OpenStatuses
<1> HIDE DEF v, bond
<1>5. QED  BY <1>1, <1>2, <1>3, <1>4, SettlementPromises

\* A refund, on time or by the admin, and a question that moves away.
LEMMA MoneyReturned ==
  ASSUME FundsInv, NEW q, StatusIs(q, "Pending"), NEW status, SettleQuestion(q, status),
         PayBack(q)
  PROVE  NothingTaken
<1>1. question[q].token \in Tokens /\ question[q].amount \in Nat
  <2>1. q \in OpenQuestions
    BY DEF StatusIs, OpenQuestions, OpenStatuses
  <2>2. QED  BY <2>1, OpenFacts DEF FundsInv
<1>2. PayOut(question[q].token, question[q].amount)
  BY DEF PayBack
<1>3. counters'.opened = counters.opened
  BY DEF SettleQuestion, CountSettled
<1>4. QED  BY <1>1, <1>2, <1>3, NothingComesIn

\* Nor does a refund or a question that moves away.
LEMMA ReturnPromises ==
  ASSUME FundsInv, NEW q, StatusIs(q, "Pending"), NEW status, SettleQuestion(q, status),
         PayBack(q)
  PROVE  StepPromises
<1>1. UNCHANGED <<seq, stake, owed, owedLock>>
  BY DEF PayBack, bookVars
<1>2. NothingTaken
  BY MoneyReturned
<1>3. QED  BY <1>1, <1>2, StillPromises

\* Every call on an existing question.
LEMMA SettlementStepPromises ==
  ASSUME FundsInv, SettlementStep \/ ConsensusStep
  PROVE  StepPromises
<1>1. ASSUME NEW q, NEW a, Reopen(q, a)
      PROVE  StepPromises
  <2>1. ~paused /\ UNCHANGED <<seq, stake, owed, owedLock>>
    BY <1>1 DEF Reopen, bookVars
  <2>2. QED  BY <2>1, StillPromises
<1>2. ASSUME NEW q, NEW c, NEW a, PostChallengeBond(q, c, a)
      PROVE  StepPromises
  <2>1. ~paused /\ UNCHANGED <<seq, stake, owed, owedLock>>
    BY <1>2 DEF PostChallengeBond, bookVars
  <2>2. QED  BY <2>1, StillPromises
<1>3. ASSUME NEW q, NEW v, NEW window,
             Escalate(q, v) \/ Challengeable(q, v, window) \/ Dispute(q)
      PROVE  StepPromises
  <2>1. UNCHANGED <<seq, stake, owed, owedLock, custody, counters>>
    BY <1>3 DEF Escalate, EscalateQuestion, Challengeable, ResolveChallengeable, Dispute,
                DisputeResolve, moneyVars, bookVars
  <2>2. NothingTaken
    BY <2>1, NothingComesIn
  <2>3. QED  BY <2>1, <2>2, StillPromises
<1>4. ASSUME NEW q, Refund(q) \/ RefundTimeout(q)
      PROVE  StepPromises
  <2>1. StatusIs(q, "Pending") /\ SettleQuestion(q, "Refunded") /\ PayBack(q)
    BY <1>4 DEF Refund, RefundTimeout, TimeoutQuestion, RefundQuestion
  <2>2. QED  BY <2>1, ReturnPromises
<1>5. CASE SettlementStep
  BY <1>1, <1>2, <1>3, <1>4, <1>5, RulingPromises, FinalizePromises DEF SettlementStep
<1>6. CASE ConsensusStep
  <2>1. PICK q \in Ids, ballot \in Ballots :
          ResolveByConsensus(q, ballot) /\ ConsensusVerdict(ballot) \in Verdicts
    BY <1>6 DEF ConsensusStep
  <2>2. QED  BY <2>1, RulingPromises DEF ResolveByConsensus
<1>7. QED  BY <1>5, <1>6

\* A stake that changes by a call of its owner: the credits stay, and money
\* comes in only while the breaker is not set.
LEMMA StakeCallPromises ==
  ASSUME FundsInv, UNCHANGED <<seq, owed, owedLock, counters>>,
         EveryRecordStep, BucketsWait(timeoutLedgers), paused => NothingTaken
  PROVE  StepPromises
BY DEF StepPromises, PledgeStep

\* Every call of a worker: what is withdrawn was not pledged, and what is
\* unstaked waits from now on.
LEMMA WorkerStepPromises ==
  ASSUME FundsInv, WorkerStep
  PROVE  StepPromises
<1>1. PICK w \in Workers :
        \/ \E a \in TopUps : Stake(w, a)
        \/ \E t \in Tokens :
             \/ \E a \in TopUps : StakeAsset(w, t, a)
             \/ \E a \in Parts : BeginUnstake(w, t, a) \/ Withdraw(w, t, a)
             \/ CompleteUnstake(w, t)
        \/ \E a \in Parts : LockOwed(w, a) \/ ReleaseOwed(w, a)
  BY DEF WorkerStep
<1>2. /\ \A a \in TopUps \cup Parts : a \in Nat \ {0}
      /\ DefaultToken \in Tokens
      /\ timeoutLedgers \in Nat
      /\ StakeInv
  BY EscrowAssumption, QuestionsAssumption DEF FundsInv, QuestionsInv, QuestionsTypeOK
<1>3. \A t \in Tokens, v \in Workers : owed[t][v] \in Nat /\ owedLock[v] \in Nat
  BY DEF FundsInv, MoneyTypeOK
<1>4. ASSUME NEW t \in Tokens, NEW a \in TopUps, AddStake(t, w, a)
      PROVE  StepPromises
  <2>1. ~paused /\ TopUp(t, w, a) /\ UNCHANGED <<seq, owed, owedLock, counters>>
    BY <1>4 DEF AddStake, Accepting, recordVars
  <2>2. StakeInv' /\ EveryRecordStep /\ NoBucketGrows
    BY <1>2, <2>1, TopUpMoves
  <2>3. BucketsWait(timeoutLedgers)
    BY <1>2, <2>2, BucketsOnlyShrink
  <2>4. QED  BY <2>1, <2>2, <2>3, StakeCallPromises
<1>5. ASSUME NEW t \in Tokens, NEW a \in Parts, BeginUnstake(w, t, a)
      PROVE  StepPromises
  <2>1. /\ MoveOut(t, w, a, timeoutLedgers)
        /\ UNCHANGED <<seq, owed, owedLock, counters, custody>>
    BY <1>5 DEF BeginUnstake, recordVars
  <2>2. EveryRecordStep /\ BucketsWait(timeoutLedgers)
    BY <1>2, <2>1, MoveOutMoves
  <2>3. NothingTaken
    BY <2>1, NothingComesIn
  <2>4. QED  BY <2>1, <2>2, <2>3, StakeCallPromises
<1>6. ASSUME NEW t \in Tokens, CompleteUnstake(w, t)
      PROVE  StepPromises
  <2>1. /\ PayBucket(t, w) /\ PayOut(t, stake[t][w].unbonding)
        /\ UNCHANGED <<seq, owed, owedLock, counters>>
    BY <1>6 DEF CompleteUnstake, recordVars
  <2>2. /\ StakeInv' /\ EveryRecordStep /\ NoBucketGrows
        /\ stake[t][w].unbonding \in Nat
    BY <1>2, <2>1, PayBucketMoves
  <2>3. BucketsWait(timeoutLedgers)
    BY <1>2, <2>2, BucketsOnlyShrink
  <2>4. NothingTaken
    BY <2>1, <2>2, NothingComesIn
  <2>5. QED  BY <2>1, <2>2, <2>3, <2>4, StakeCallPromises
<1>7. ASSUME NEW t \in Tokens, NEW a \in Parts, \/ Withdraw(w, t, a)
                                                \/ LockOwed(w, a) \/ ReleaseOwed(w, a)
      PROVE  StepPromises
  <2>1. a \in Nat
    BY <1>2
  <2>2. UNCHANGED <<seq, stake, counters>>
    BY <1>7 DEF Withdraw, LockOwed, ReleaseOwed, recordVars, bookVars
  <2>3. PledgeStep
    <3>1. CASE Withdraw(w, t, a)
      <4>1. /\ a <= owed[t][w] - owedLock[w] /\ owedLock' = owedLock
            /\ owed' = [owed EXCEPT ![t][w] = owed[t][w] - a]
        BY <3>1 DEF Withdraw
      <4>2. \A v \in Workers :
              owed'[DefaultToken][v] = IF t = DefaultToken /\ v = w THEN owed[t][w] - a
                                                                    ELSE owed[DefaultToken][v]
        BY <1>2, <4>1 DEF FundsInv, MoneyTypeOK
      <4>3. QED  BY <1>2, <1>3, <2>1, <4>1, <4>2 DEF PledgeStep
    <3>2. CASE LockOwed(w, a)
      <4>1. /\ a <= owed[DefaultToken][w] - owedLock[w] /\ owed' = owed
            /\ owedLock' = [owedLock EXCEPT ![w] = owedLock[w] + a]
        BY <3>2 DEF LockOwed
      <4>2. \A v \in Workers : owedLock'[v] = IF v = w THEN owedLock[w] + a ELSE owedLock[v]
        BY <4>1 DEF FundsInv, MoneyTypeOK
      <4>3. QED  BY <1>2, <1>3, <2>1, <4>1, <4>2 DEF PledgeStep
    <3>3. CASE ReleaseOwed(w, a)
      <4>1. owed' = owed /\ owedLock' = [owedLock EXCEPT ![w] = owedLock[w] - a]
        BY <3>3 DEF ReleaseOwed
      <4>2. \A v \in Workers : owedLock'[v] = IF v = w THEN owedLock[w] - a ELSE owedLock[v]
        BY <4>1 DEF FundsInv, MoneyTypeOK
      <4>3. QED  BY <1>2, <1>3, <2>1, <4>1, <4>2 DEF PledgeStep
    <3>4. QED  BY <1>7, <3>1, <3>2, <3>3
  <2>4. NothingTaken
    <3>1. UNCHANGED custody \/ PayOut(t, a)
      BY <1>7 DEF Withdraw, LockOwed, ReleaseOwed
    <3>2. QED  BY <2>1, <2>2, <3>1, NothingComesIn
  <2>5. EveryRecordStep /\ BucketsWait(timeoutLedgers)
    BY <1>2, <2>2, StakesUntouched, UnbondingIsNumber DEF BucketsWait
  <2>6. QED  BY <2>3, <2>4, <2>5 DEF StepPromises
<1>8. \E t : t \in Tokens
  BY <1>2
<1>9. QED  BY <1>1, <1>2, <1>4, <1>5, <1>6, <1>7 DEF Stake, StakeAsset

\* The allowlist, the breaker, the configuration and the clock.
LEMMA AdminStepPromises ==
  ASSUME FundsInv, AdminStep \/ CloseLedger
  PROVE  StepPromises
<1>1. seq' \in {seq, seq + 1} /\ UNCHANGED <<counters, custody, stake, owed, owedLock>>
  BY DEF AdminStep, SetAssetAllowed, SetPaused, SetConsensusThreshold, Configure, CloseLedger,
         Tick, recordVars, moneyVars, bookVars
<1>2. NothingTaken
  BY <1>1, NothingComesIn
<1>3. QED  BY <1>1, <1>2, StillPromises

\* What another instance hands over is taken in whatever the breaker says, and
\* arrives as matured stake; what is handed over leaves the pledge behind.
LEMMA MigrationStepPromises ==
  ASSUME FundsInv, TakeOver \/ HandOver
  PROVE  /\ BucketsWait(timeoutLedgers)
         /\ PledgeStep \/ HandOver
         /\ NothingTaken \/ TakeOver
<1>1. StakeInv
  BY DEF FundsInv
<1>2. CASE TakeOver
  <2>1. ASSUME NEW t \in Tokens, NEW q \in Ids, NEW p \in Payers, NEW a \in Amounts,
               Import(q, p, t, a)
        PROVE  BucketsWait(timeoutLedgers) /\ PledgeStep
    <3>1. UNCHANGED <<stake, owed, owedLock>>
      BY <2>1 DEF Import, bookVars
    <3>2. QED  BY <1>1, <3>1, UnbondingIsNumber DEF BucketsWait, PledgeStep
  <2>2. ASSUME NEW t \in Tokens, NEW x \in Workers \cup Payers, NEW sum \in Transfers,
               ImportBalances(t, x, sum)
        PROVE  BucketsWait(timeoutLedgers) /\ PledgeStep
    <3>1. /\ MoneyTypeOK' /\ StakeInv' /\ NoBucketGrows
          /\ \A u \in Tokens, w \in Workers : owed[u][w] <= owed'[u][w]
      BY <2>2, ImportBalancesKeepsBooks DEF BooksKept
    <3>2. BucketsWait(timeoutLedgers)
      BY <1>1, <3>1, BucketsOnlyShrink
    <3>3. owedLock' = owedLock
      BY <2>2 DEF ImportBalances
    <3>4. PledgeStep
      BY <3>1, <3>3, CreditsOnlyGrow DEF FundsInv
    <3>5. QED  BY <3>2, <3>4
  <2>3. QED  BY <1>2, <2>1, <2>2 DEF TakeOver
<1>3. CASE HandOver
  <2>1. ASSUME NEW q \in Ids, MigratePending(q)
        PROVE  BucketsWait(timeoutLedgers) /\ NothingTaken
    <3>1. StatusIs(q, "Pending") /\ SettleQuestion(q, "Migrated") /\ PayBack(q)
      BY <2>1 DEF MigratePending, MigrateQuestion
    <3>2. StepPromises
      BY <3>1, ReturnPromises
    <3>3. QED  BY <3>1, <3>2, MoneyReturned DEF StepPromises
  <2>2. ASSUME NEW accounts, NEW tokens, MigrateBalances(accounts, tokens)
        PROVE  BucketsWait(timeoutLedgers) /\ NothingTaken
    <3>1. /\ StakeInv' /\ NoBucketGrows
          /\ \A t \in Tokens : custody'[t] <= custody[t]
      BY <2>2, MigrateBalancesKeepsBooks DEF BooksKept
    <3>2. counters'.opened = counters.opened
      BY <2>2 DEF MigrateBalances, recordVars
    <3>3. QED  BY <1>1, <3>1, <3>2, BucketsOnlyShrink DEF NothingTaken
  <2>3. QED  BY <1>3, <2>1, <2>2 DEF HandOver
<1>4. QED  BY <1>2, <1>3

\* What every step of the contract keeps to.
LEMMA NextPromises ==
  ASSUME FundsInv, [Next]_vars
  PROVE  /\ EveryRecordStep \/ TakeOver \/ HandOver
         /\ BucketsWait(timeoutLedgers)
         /\ PledgeStep \/ HandOver
         /\ paused => NothingTaken \/ TakeOver
<1>1. ASSUME StepPromises
      PROVE  /\ EveryRecordStep /\ BucketsWait(timeoutLedgers) /\ PledgeStep
             /\ paused => NothingTaken
  BY <1>1 DEF StepPromises
<1>2. CASE UNCHANGED vars
  <2>1. UNCHANGED <<seq, stake, owed, owedLock, custody, counters>>
    BY <1>2 DEF vars, recordVars, moneyVars, bookVars
  <2>2. NothingTaken
    BY <2>1, NothingComesIn
  <2>3. QED  BY <1>1, <2>1, <2>2, StillPromises
<1>3. CASE PayerStep \/ SettlementStep \/ ConsensusStep \/ WorkerStep \/ AdminStep \/ CloseLedger
  <2>1. StepPromises
    BY <1>3, PayerStepPromises, SettlementStepPromises, WorkerStepPromises, AdminStepPromises
  <2>2. QED  BY <1>1, <2>1
<1>4. CASE TakeOver \/ HandOver
  BY <1>4, MigrationStepPromises
<1>5. QED  BY <1>2, <1>3, <1>4 DEF Next

\* A pledge stays backed through every interleaving of settlements,
\* withdrawals, releases and imports; only a hand-over takes the backing away.
THEOREM PledgesAreBacked == Spec => PledgesBacked
<1> DEFINE Kept ==
      \A w \in Workers :
        owedLock[w] <= owed[DefaultToken][w] =>
          owedLock'[w] <= owed'[DefaultToken][w] \/ HandOver
<1>1. FundsInv /\ [Next]_vars => Kept
  BY NextPromises DEF PledgeStep
<1>2. Spec => [][Kept]_vars
  BY <1>1, FundsInvHolds, PTL DEF Spec
<1>3. QED  BY <1>2 DEF PledgesBacked

\* Nothing a user calls takes money in or opens a question while the breaker is
\* set.
THEOREM NothingIsTakenWhilePaused == Spec => PausedTakesNothing
<1> DEFINE Kept ==
      paused =>
        \/ /\ \A t \in Tokens : custody'[t] <= custody[t]
           /\ counters'.opened = counters.opened
        \/ TakeOver
<1>1. FundsInv /\ [Next]_vars => Kept
  BY NextPromises DEF NothingTaken
<1>2. Spec => [][Kept]_vars
  BY <1>1, FundsInvHolds, PTL DEF Spec
<1>3. QED  BY <1>2 DEF PausedTakesNothing

\* No open question was opened with a longer timeout than what an unstaking that
\* starts now waits: set_timeout_ledgers() can break this by lowering the global
\* timeout while a question with the old one, longer than
\* MIN_UNBONDING_LEDGERS, is open.
TimeoutsCovered ==
  \A q \in WithStatus("Pending") : question[q].timeout <= UnbondingDelay(timeoutLedgers)

\* As long as that is so, what is asked back stays slashable until every
\* question that is open at that moment is past its deadline.
THEOREM StakeOutlastsDeadlines == Spec /\ []TimeoutsCovered => SlashableUntilDeadline
<1> DEFINE Kept ==
      \A t \in Tokens, w \in Workers :
        stake'[t][w].unbonding > stake[t][w].unbonding =>
          \A q \in WithStatus("Pending") :
             stake'[t][w].releaseAt >= Deadline(question[q])
<1>1. FundsInv /\ TimeoutsCovered /\ [Next]_vars => Kept
  <2> SUFFICES ASSUME FundsInv, TimeoutsCovered, [Next]_vars,
                      NEW t \in Tokens, NEW w \in Workers,
                      stake'[t][w].unbonding > stake[t][w].unbonding,
                      NEW q \in WithStatus("Pending")
               PROVE  stake'[t][w].releaseAt >= Deadline(question[q])
    OBVIOUS
  <2>1. stake'[t][w].releaseAt = seq + UnbondingDelay(timeoutLedgers)
    BY NextPromises DEF BucketsWait
  <2>2. question[q].timeout <= UnbondingDelay(timeoutLedgers)
    BY DEF TimeoutsCovered
  <2>3. question[q] \in QuestionType /\ question[q].createdAt <= seq
    BY DEF FundsInv, OpenedBefore, QuestionsInv, QuestionsTypeOK, WithStatus
  <2>4. /\ seq \in Nat /\ timeoutLedgers \in Nat
        /\ question[q].createdAt \in Nat /\ question[q].timeout \in Nat
    <3>1. seq \in 0 .. MaxSeq /\ timeoutLedgers \in Timeouts
      BY DEF FundsInv, QuestionsInv, QuestionsTypeOK
    <3>2. question[q].createdAt \in 0 .. MaxSeq /\ question[q].timeout \in Timeouts
      BY <2>3 DEF QuestionType
    <3>3. MaxSeq \in Nat /\ \A d \in Timeouts : d \in Nat
      BY QuestionsAssumption, LedgerAssumption
    <3>4. QED  BY ONLY <3>1, <3>2, <3>3
  <2>5. UnbondingDelay(timeoutLedgers) \in Nat
    BY <2>4, StakeAssumption DEF UnbondingDelay, Max2
  <2>6. QED  BY <2>1, <2>2, <2>3, <2>4, <2>5 DEF Deadline
<1>2. Spec /\ []TimeoutsCovered => [][Kept]_vars
  BY <1>1, FundsInvHolds, PTL DEF Spec
<1>3. QED  BY <1>2 DEF SlashableUntilDeadline

\* It is so throughout when no timeout can exceed what an unstaking under
\* another one waits, as with timeouts up to MIN_UNBONDING_LEDGERS.
THEOREM StakeOutlastsShortDeadlines ==
  ASSUME \A d, e \in Timeouts : d <= UnbondingDelay(e)
  PROVE  Spec => SlashableUntilDeadline
<1>1. FundsInv => TimeoutsCovered
  <2>1. ASSUME FundsInv
        PROVE  /\ timeoutLedgers \in Timeouts
               /\ \A q \in WithStatus("Pending") : question[q].timeout \in Timeouts
    BY <2>1 DEF FundsInv, QuestionsInv, QuestionsTypeOK, QuestionType, WithStatus
  <2>2. QED  BY <2>1 DEF TimeoutsCovered
<1>2. QED  BY <1>1, FundsInvHolds, StakeOutlastsDeadlines, PTL

\* The stakes of the contract stay well formed, whatever is slashed, taken over
\* or handed over: amounts are numbers and `warming` is what its tranches add up to.
THEOREM ContractStakesAreWellFormed == Spec => [](StakeTypeOK /\ WarmingIsTranches)
<1>1. FundsInv => StakeTypeOK /\ WarmingIsTranches
  BY DEF FundsInv, StakeInv, InfoOK, TranchesInOrder, StakeTypeOK, WarmingIsTranches
<1>2. QED  BY <1>1, FundsInvHolds, PTL

\* What BookProofs shows of a stake on its own holds inside the contract: apart
\* from what another instance hands over or takes, every call leaves every
\* record with its schedule, its credibility and its bucket.
THEOREM ContractKeepsStakePromises ==
  Spec => [][EveryRecordStep \/ TakeOver \/ HandOver]_vars
<1> DEFINE Kept == EveryRecordStep \/ TakeOver \/ HandOver
<1>1. FundsInv /\ [Next]_vars => Kept
  BY NextPromises
<1>2. Spec => [][Kept]_vars
  BY <1>1, FundsInvHolds, PTL DEF Spec
<1>3. QED  BY <1>2

-----------------------------------------------------------------------------
(* The leaderboard inside the contract.                                    *)

\* What a step may do to the ranking: nothing, or the credits of a verdict.
RankingKept ==
  \/ UNCHANGED rankingVars
  \/ \E v \in Verdicts : Acceptable(v) /\ CreditRanking(v.workers)

\* A call on a question credits the workers of the verdict it settles, if any.
LEMMA SettlementStepRanks ==
  ASSUME FundsInv, SettlementStep \/ ConsensusStep
  PROVE  RankingKept
<1>1. ASSUME NEW q, NEW v \in Verdicts, Acceptable(v), NEW bond, PaySettlement(q, v, bond)
      PROVE  RankingKept
  BY <1>1 DEF PaySettlement, RankingKept
<1>2. ASSUME NEW q, NEW v \in Verdicts, Resolve(q, v) \/ EscalateResolve(q, v)
      PROVE  RankingKept
  <2>1. Acceptable(v) /\ PaySettlement(q, v, 0)
    BY <1>2 DEF Resolve, ResolveQuestion, EscalateResolve, ResolveEscalated
  <2>2. QED  BY <1>1, <2>1
<1>3. ASSUME NEW q, FinalizeResolve(q)
      PROVE  RankingKept
  <2>1. PICK v, bond : /\ q \in DOMAIN pendingResolution /\ v = pendingResolution[q].verdict
                       /\ PaySettlement(q, v, bond)
    BY <1>3 DEF FinalizeResolve, FinalizeQuestion, Finalizable
  <2>2. v \in Verdicts /\ Acceptable(v)
    BY <2>1 DEF FundsInv, QuestionsInv, QuestionsTypeOK, AcceptedVerdicts
  <2>3. QED  BY <1>1, <2>1, <2>2
<1>4. ASSUME NEW q, NEW v, NEW w, NEW c, NEW a,
             \/ Reopen(q, a) \/ Escalate(q, v) \/ Challengeable(q, v, w)
             \/ PostChallengeBond(q, c, a) \/ Dispute(q) \/ Refund(q) \/ RefundTimeout(q)
      PROVE  RankingKept
  <2>1. UNCHANGED rankingVars
    BY <1>4 DEF Reopen, Escalate, Challengeable, PostChallengeBond, Dispute, Refund, RefundTimeout,
                PayBack, moneyVars, bookVars
  <2>2. QED  BY <2>1 DEF RankingKept
<1>5. CASE SettlementStep
  BY <1>2, <1>3, <1>4, <1>5 DEF SettlementStep
<1>6. CASE ConsensusStep
  <2>1. PICK q \in Ids, v \in Verdicts : Resolve(q, v)
    BY <1>6 DEF ConsensusStep, ResolveByConsensus
  <2>2. QED  BY <1>2, <2>1
<1>7. QED  BY <1>5, <1>6

\* No other call touches the ranking.
LEMMA OtherStepsRankNobody ==
  ASSUME PayerStep \/ WorkerStep \/ TakeOver \/ HandOver \/ AdminStep \/ CloseLedger
  PROVE  UNCHANGED rankingVars
<1>1. CASE PayerStep
  <2>1. PICK p \in Payers, t \in Tokens :
          \/ \E q \in Ids, a \in Amounts : Submit(q, p, t, a) \/ Charge(q, p, t, a)
          \/ \E a \in Deposits : DepositAsset(p, t, a)
          \/ \E a \in Deposits : t = DefaultToken /\ Deposit(p, a)
          \/ \E a \in Parts : WithdrawBalance(p, t, a)
    BY <1>1 DEF PayerStep
  <2>2. QED  BY <2>1 DEF Submit, Charge, DepositAsset, Deposit, WithdrawBalance, bookVars
<1>2. CASE WorkerStep
  BY <1>2 DEF WorkerStep, Stake, StakeAsset, AddStake, BeginUnstake, Withdraw, CompleteUnstake,
              LockOwed, ReleaseOwed, bookVars
<1>3. CASE TakeOver \/ HandOver
  <2>1. ASSUME NEW q \in Ids, NEW p \in Payers, NEW t \in Tokens, NEW a \in Amounts,
               Import(q, p, t, a)
        PROVE  UNCHANGED rankingVars
    BY <2>1 DEF Import, bookVars
  <2>2. ASSUME NEW t \in Tokens, NEW x \in Workers \cup Payers, NEW sum \in Transfers,
               ImportBalances(t, x, sum)
        PROVE  UNCHANGED rankingVars
    BY <2>2 DEF ImportBalances
  <2>3. CASE TakeOver
    BY <2>1, <2>2, <2>3 DEF TakeOver
  <2>4. CASE HandOver
    BY <2>4 DEF HandOver, MigratePending, PayBack, MigrateBalances, bookVars
  <2>5. QED  BY <1>3, <2>3, <2>4
<1>4. CASE AdminStep \/ CloseLedger
  BY <1>4 DEF AdminStep, SetAssetAllowed, SetPaused, SetConsensusThreshold, Configure, CloseLedger,
              moneyVars, bookVars
<1>5. QED  BY <1>1, <1>2, <1>3, <1>4

\* One step of the contract leaves the board at the top of the counts.
LEMMA NextKeepsTop ==
  ASSUME FundsInv, IsTop(leaderboard, resolvedCount), [Next]_vars
  PROVE  IsTop(leaderboard', resolvedCount')
<1>1. RankingKept
  <2>1. CASE UNCHANGED vars
    BY <2>1 DEF vars, bookVars, RankingKept
  <2>2. CASE Next
    BY <2>2, SettlementStepRanks, OtherStepsRankNobody DEF Next, RankingKept
  <2>3. QED  BY <2>1, <2>2
<1>2. CASE UNCHANGED rankingVars
  BY <1>2 DEF rankingVars
<1>3. ASSUME NEW v \in Verdicts, Acceptable(v), CreditRanking(v.workers)
      PROVE  IsTop(leaderboard', resolvedCount')
  <2>1. resolvedCount \in [Workers -> Nat]
    BY DEF FundsInv, MoneyTypeOK
  <2>2. v.workers \in Seq(Workers)
    BY QuestionsAssumption
  <2>3. \A i, j \in DOMAIN v.workers : v.workers[i] = v.workers[j] => i = j
    BY <1>3 DEF Acceptable, ValidWorkerLists, Duplicates
  <2>4. QED  BY <1>3, <2>1, <2>2, <2>3, CreditRankingKeepsTop
<1>4. QED  BY <1>1, <1>2, <1>3 DEF RankingKept

\* Whatever is settled in whatever order, the leaderboard is the top of the
\* counts: sorted, true, naming nobody twice, and nobody off the board has more
\* than anybody on it.
THEOREM LeaderboardIsTop == Spec => []BoardIsTop
<1> DEFINE BoardInv == IsTop(leaderboard, resolvedCount)
<1>1. Init => BoardInv
  BY EmptyBoardIsTop DEF Init
<1>2. FundsInv /\ BoardInv /\ [Next]_vars => BoardInv'
  BY NextKeepsTop
<1>3. BoardInv => BoardIsTop
  BY TopIsBoardIsTop
<1> HIDE DEF BoardInv
<1>4. QED  BY <1>1, <1>2, <1>3, FundsInvHolds, PTL DEF Spec
=============================================================================
