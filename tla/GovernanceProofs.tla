-------------------------- MODULE GovernanceProofs --------------------------
(***************************************************************************)
(* For any delay longer than every timeout, any accounts and any number of *)
(* questions: both timelocks hold, no upgrade comes between a payer and    *)
(* the refund, and a resolver's signature alone does nothing but resolve.  *)
(* The questions are those of Questions, whatever governance does, so that *)
(* their invariant bounds every deadline; beside it, a proposal is at most *)
(* one, and what is live has always been proposed or deployed.             *)
(***************************************************************************)
EXTENDS Governance, QuestionsProofs

\* At most one proposal of each kind, with a ledger, and known values.
ProposalsOK ==
  /\ wasm \in Hashes /\ admin \in Accounts
  /\ pendingUpgrade \in SUBSET [value : Hashes, executableAt : Int]
  /\ pendingRotation \in SUBSET [value : Accounts, executableAt : Int]
  /\ \A p, r \in pendingUpgrade : p = r
  /\ \A p, r \in pendingRotation : p = r

GovernanceInv == QuestionsInv /\ ProposalsOK

-----------------------------------------------------------------------------
\* A call on a question is the lifecycle's, whoever has to sign it.
LEMMA CallIsLifecycle ==
  ASSUME NEW q \in Ids, PublicStep(q) \/ ResolverStep(q) \/ AdminQuestionStep(q)
  PROVE  QuestionStep(q)
<1>1. CASE PublicStep(q)
  BY <1>1 DEF PublicStep, QuestionStep, ReviewStep
<1>2. CASE ResolverStep(q)
  BY <1>2 DEF ResolverStep, QuestionStep, VerdictStep
<1>3. CASE AdminQuestionStep(q)
  BY <1>3 DEF AdminQuestionStep, QuestionStep, VerdictStep, ReviewStep
<1>4. QED  BY <1>1, <1>2, <1>3

\* What a step is: a call on a question, a configuration, a tick, a step of
\* the upgrade or a step of the keys, and each leaves the rest alone.
LEMMA GovernanceCases ==
  ASSUME GovernanceNext
  PROVE  \/ QuestionsNext /\ UNCHANGED <<upgradeVars, keyVars>>
         \/ UpgradeStep /\ UNCHANGED <<questionsVars, keyVars>>
         \/ KeyStep /\ UNCHANGED <<questionsVars, upgradeVars>>
<1>1. CASE /\ UNCHANGED <<seq, configVars, upgradeVars, keyVars>>
           /\ \E q \in Ids : \/ Public /\ PublicStep(q)
                             \/ RequireResolverOrAdmin /\ ResolverStep(q)
                             \/ RequireAdmin /\ AdminQuestionStep(q)
  <2>1. PICK q \in Ids : PublicStep(q) \/ ResolverStep(q) \/ AdminQuestionStep(q)
    BY <1>1
  <2>2. QuestionStep(q) /\ UNCHANGED <<seq, configVars>>
    BY <1>1, <2>1, CallIsLifecycle
  <2>3. QED  BY <1>1, <2>2 DEF QuestionsNext
<1>2. CASE RequireAdmin /\ ConfigStep /\ UNCHANGED <<seq, recordVars, upgradeVars, keyVars>>
  BY <1>2 DEF QuestionsNext
<1>3. CASE Public /\ Tick /\ UNCHANGED <<recordVars, configVars, upgradeVars, keyVars>>
  BY <1>3 DEF QuestionsNext
<1>4. CASE RequireAdmin /\ UpgradeStep /\ UNCHANGED <<questionsVars, keyVars>>
  BY <1>4
<1>5. CASE KeyStep /\ UNCHANGED <<questionsVars, upgradeVars>>
  BY <1>5
<1>6. QED  BY <1>1, <1>2, <1>3, <1>4, <1>5 DEF GovernanceNext

\* An upgrade call leaves the pending proposals well formed.
LEMMA UpgradeKeepsProposals ==
  ASSUME GovernanceInv, UpgradeStep, UNCHANGED keyVars
  PROVE  ProposalsOK'
<1> USE GovernanceAssumption DEF ProposalsOK
<1>1. seq \in Int /\ UPGRADE_DELAY_LEDGERS \in Int
  BY LedgerAssumption DEF GovernanceInv, QuestionsInv, QuestionsTypeOK
<1>2. UNCHANGED <<admin, pendingRotation>> /\ ProposalsOK
  BY DEF keyVars, GovernanceInv
<1>3. ASSUME NEW hash \in Hashes, ProposeUpgrade(hash)
      PROVE  ProposalsOK'
  <2>1. Scheduled(hash, UPGRADE_DELAY_LEDGERS) \in [value : Hashes, executableAt : Int]
    BY <1>1 DEF Scheduled
  <2>2. QED  BY <1>2, <1>3, <2>1 DEF ProposeUpgrade
<1>4. CASE CancelUpgrade
  BY <1>2, <1>4 DEF CancelUpgrade
<1>5. CASE ExecuteUpgrade
  BY <1>2, <1>5 DEF ExecuteUpgrade
<1>6. QED  BY <1>3, <1>4, <1>5 DEF UpgradeStep

\* So does a call on the keys.
LEMMA KeyStepKeepsProposals ==
  ASSUME GovernanceInv, KeyStep, UNCHANGED upgradeVars
  PROVE  ProposalsOK'
<1> USE DEF ProposalsOK
<1>1. seq \in Int /\ ADMIN_ROTATION_DELAY_LEDGERS \in Int
  BY LedgerAssumption, GovernanceAssumption
     DEF GovernanceInv, QuestionsInv, QuestionsTypeOK, ADMIN_ROTATION_DELAY_LEDGERS
<1>2. UNCHANGED <<wasm, pendingUpgrade>> /\ ProposalsOK
  BY DEF upgradeVars, GovernanceInv
<1>3. ASSUME NEW a \in Accounts, ProposeAdminRotation(a)
      PROVE  ProposalsOK'
  <2>1. Scheduled(a, ADMIN_ROTATION_DELAY_LEDGERS) \in [value : Accounts, executableAt : Int]
    BY <1>1 DEF Scheduled
  <2>2. QED  BY <1>2, <1>3, <2>1 DEF ProposeAdminRotation
<1>4. CASE ExecuteAdminRotation
  BY <1>2, <1>4 DEF ExecuteAdminRotation
<1>5. CASE CancelAdminRotation \/ \E r \in Delegates : SetResolver(r)
  BY <1>2, <1>5 DEF CancelAdminRotation, SetResolver
<1>6. QED  BY <1>3, <1>4, <1>5 DEF KeyStep

\* One step keeps the proposals well formed.
LEMMA GovernanceKeepsInv ==
  ASSUME GovernanceInv, [GovernanceNext]_governanceVars
  PROVE  GovernanceInv'
<1>1. [QuestionsNext]_questionsVars
  BY GovernanceCases DEF governanceVars
<1>2. QuestionsInv'
  BY <1>1, QuestionsNextKeepsInv DEF GovernanceInv
<1>3. CASE UNCHANGED <<upgradeVars, keyVars>>
  BY <1>2, <1>3 DEF GovernanceInv, ProposalsOK, upgradeVars, keyVars
<1>4. CASE UpgradeStep /\ UNCHANGED <<questionsVars, keyVars>>
  BY <1>2, <1>4, UpgradeKeepsProposals DEF GovernanceInv
<1>5. CASE KeyStep /\ UNCHANGED <<questionsVars, upgradeVars>>
  BY <1>2, <1>5, KeyStepKeepsProposals DEF GovernanceInv
<1>6. QED  BY <1>3, <1>4, <1>5, GovernanceCases DEF governanceVars

\* The proposals stay well formed.
LEMMA GovernanceInvHolds == GovernanceSpec => []GovernanceInv
<1>1. GovernanceInit => GovernanceInv
  BY QuestionsInitInv, GovernanceAssumption DEF GovernanceInit, GovernanceInv, ProposalsOK
<1>2. QED  BY <1>1, GovernanceKeepsInv, PTL DEF GovernanceSpec

-----------------------------------------------------------------------------
\* New code never takes over before the refund deadline of a question that was
\* open when the code was announced.
THEOREM PayersExitBeforeUpgrade == GovernanceSpec => ExitBeforeUpgrade
<1>1. ASSUME GovernanceInv, GovernanceNext, wasm' # wasm,
             NEW q \in WithStatus("Pending"), NEW p \in pendingUpgrade,
             question[q].createdAt + UPGRADE_DELAY_LEDGERS <= p.executableAt
      PROVE  Deadline(question[q]) < seq
  <2>1. ExecuteUpgrade
    BY <1>1, GovernanceCases
       DEF UpgradeStep, ProposeUpgrade, CancelUpgrade, upgradeVars
  <2>2. seq >= p.executableAt
    BY <1>1, <2>1 DEF ExecuteUpgrade, GovernanceInv, ProposalsOK
  <2>3. question[q] \in QuestionType
    BY <1>1 DEF GovernanceInv, QuestionsInv, QuestionsTypeOK, WithStatus
  <2>4. /\ question[q].createdAt \in 0 .. MaxSeq
        /\ question[q].timeout \in Timeouts
    BY <2>3 DEF QuestionType
  <2>5. /\ question[q].timeout \in Nat
        /\ question[q].timeout < UPGRADE_DELAY_LEDGERS
        /\ UPGRADE_DELAY_LEDGERS \in Nat
    BY <2>4, GovernanceAssumption, QuestionsAssumption
  <2>6. p.executableAt \in Int /\ seq \in Int
    BY <1>1, LedgerAssumption
       DEF GovernanceInv, ProposalsOK, QuestionsInv, QuestionsTypeOK
  <2> DEFINE created == question[q].createdAt
             timeout == question[q].timeout
             at == p.executableAt
  <2>7. created \in Int /\ timeout \in Int /\ at \in Int /\ created + UPGRADE_DELAY_LEDGERS <= at
    BY <1>1, <2>4, <2>5, <2>6, LedgerAssumption
  <2>8. at <= seq /\ timeout < UPGRADE_DELAY_LEDGERS
    BY <2>2, <2>5, <2>6
  <2> HIDE DEF created, timeout, at
  <2>9. created + timeout < seq
    BY <2>5, <2>6, <2>7, <2>8
  <2>10. QED  BY <2>9 DEF Deadline, created, timeout
<1>2. GovernanceInv /\ [GovernanceNext]_governanceVars =>
        [wasm' # wasm =>
           \A q \in WithStatus("Pending"), p \in pendingUpgrade :
              question[q].createdAt + UPGRADE_DELAY_LEDGERS <= p.executableAt =>
                 Deadline(question[q]) < seq]_governanceVars
  BY <1>1
<1>3. QED
  BY <1>2, GovernanceInvHolds, PTL DEF GovernanceSpec, ExitBeforeUpgrade

\* A call that the admin did not sign, and anyone may not make, resolves one
\* pending question and changes nothing else that governance is about.
THEOREM ResolverIsConfined == GovernanceSpec => ResolverOnlyResolves
<1>1. ASSUME GovernanceNext, signers' # {}, admin \notin signers'
      PROVE  /\ UNCHANGED <<seq, configVars, upgradeVars, keyVars, reviewVars>>
             /\ \E q \in WithStatus("Pending") :
                   question' = [question EXCEPT ![q].status = "Resolved"]
  <2>1. ~RequireAdmin /\ ~Public /\ ~ExecuteAdminRotation
    BY <1>1 DEF RequireAdmin, Public, ExecuteAdminRotation
  <2>2. /\ UNCHANGED <<seq, configVars, upgradeVars, keyVars>>
        /\ \E q \in Ids : ResolverStep(q)
    BY <1>1, <2>1 DEF GovernanceNext, KeyStep
  <2>3. PICK q \in Ids, v \in Verdicts : ResolveQuestion(q, v)
    BY <2>2 DEF ResolverStep
  <2>4. QED
    BY <2>2, <2>3 DEF ResolveQuestion, StatusIs, WithStatus, SettleQuestion, SetStatus
<1>2. [GovernanceNext]_governanceVars =>
        [signers' # {} /\ admin \notin signers' =>
           /\ UNCHANGED <<seq, configVars, upgradeVars, keyVars, reviewVars>>
           /\ \E q \in WithStatus("Pending") :
                 question' = [question EXCEPT ![q].status = "Resolved"]]_governanceVars
  BY <1>1
<1>3. QED  BY <1>2, PTL DEF GovernanceSpec, ResolverOnlyResolves

-----------------------------------------------------------------------------
(* The two timelocks.                                                      *)

\* Counted back from the ledger it may be executed at, a proposal is shown
\* since the ledger it was made in.
LEMMA ShownSinceNow ==
  ASSUME seq \in Int, NEW delay \in Int, NEW value
  PROVE  Since({Scheduled(value, delay)}, delay) = {[value |-> value, since |-> seq]}
<1>1. seq + delay - delay = seq
  OBVIOUS
<1>2. QED  BY <1>1 DEF Since, Scheduled

\* What can be executed has been shown for the delay.
LEMMA ShownLongEnough ==
  ASSUME seq \in Int, NEW delay \in Int,
         NEW pending, NEW p \in pending, p.executableAt \in Int, seq >= p.executableAt
  PROVE  \E r \in Since(pending, delay) : seq >= r.since + delay /\ r.value = p.value
<1>1. [value |-> p.value, since |-> p.executableAt - delay] \in Since(pending, delay)
  BY DEF Since
<1>2. seq >= (p.executableAt - delay) + delay
  OBVIOUS
<1>3. QED  BY <1>1, <1>2

\* Time passes one ledger at a time.
LEMMA TickPasses ==
  ASSUME QuestionsNext
  PROVE  UNCHANGED seq \/ seq' = seq + 1
BY DEF QuestionsNext, Tick

\* The running code changes only to a hash that was pending, unchanged and
\* unreplaced, for the whole delay.
THEOREM UpgradeTimelockHolds == GovernanceSpec => UpgradeIsTimelocked
<1> DEFINE D == UPGRADE_DELAY_LEDGERS
<1>1. GovernanceInit => UpgradeLock!Init
  BY GovernanceAssumption
     DEF GovernanceInit, QuestionsInit, LedgerInit, UpgradeLock!Init, Since
<1>2. ASSUME GovernanceInv, [GovernanceNext]_governanceVars
      PROVE  [UpgradeLock!Next]_UpgradeLock!lockVars
  <2>1. seq \in Int /\ D \in Int
    BY <1>2, LedgerAssumption, GovernanceAssumption
       DEF GovernanceInv, QuestionsInv, QuestionsTypeOK
  <2>2. ASSUME UNCHANGED seq, UNCHANGED upgradeVars
        PROVE  UNCHANGED UpgradeLock!lockVars
    BY <2>2 DEF UpgradeLock!lockVars, upgradeVars, Since
  <2>3. ASSUME seq' = seq + 1, UNCHANGED upgradeVars
        PROVE  UpgradeLock!Pass
    BY <2>3 DEF UpgradeLock!Pass, upgradeVars, Since
  <2>4. ASSUME NEW hash \in Hashes, ProposeUpgrade(hash), UNCHANGED seq
        PROVE  UpgradeLock!Announce(hash)
    BY <2>1, <2>4, ShownSinceNow DEF ProposeUpgrade, UpgradeLock!Announce, Since
  <2>5. ASSUME CancelUpgrade, UNCHANGED seq
        PROVE  UpgradeLock!Withdraw
    BY <2>5 DEF CancelUpgrade, UpgradeLock!Withdraw, Since
  <2>6. ASSUME ExecuteUpgrade, UNCHANGED seq
        PROVE  UpgradeLock!Enact
    <3>1. PICK p \in pendingUpgrade :
            seq >= p.executableAt /\ wasm' = p.value /\ pendingUpgrade' = {}
      BY <2>6 DEF ExecuteUpgrade
    <3>2. p.executableAt \in Int
      BY <1>2 DEF GovernanceInv, ProposalsOK
    <3>3. PICK r \in Since(pendingUpgrade, D) : seq >= r.since + D /\ r.value = p.value
      BY <2>1, <3>1, <3>2, ShownLongEnough
    <3>4. Since(pendingUpgrade, D)' = {}
      BY <3>1 DEF Since
    <3>5. QED  BY <2>6, <3>1, <3>3, <3>4 DEF UpgradeLock!Enact
  <2>7. CASE UpgradeStep /\ UNCHANGED <<questionsVars, keyVars>>
    BY <2>4, <2>5, <2>6, <2>7 DEF UpgradeStep, questionsVars, UpgradeLock!Next
  <2>8. CASE KeyStep /\ UNCHANGED <<questionsVars, upgradeVars>>
    BY <2>2, <2>8 DEF questionsVars
  <2>9. CASE QuestionsNext /\ UNCHANGED <<upgradeVars, keyVars>>
    BY <2>2, <2>3, <2>9, TickPasses DEF UpgradeLock!Next
  <2>10. CASE UNCHANGED governanceVars
    BY <2>2, <2>10 DEF governanceVars, questionsVars
  <2>11. QED  BY <1>2, <2>7, <2>8, <2>9, <2>10, GovernanceCases
<1>3. QED
  BY <1>1, <1>2, GovernanceInvHolds, PTL
     DEF GovernanceSpec, UpgradeIsTimelocked, UpgradeLock!Spec

\* The admin key changes only to an account that was pending for the whole
\* delay, and one rotation is executed once.
THEOREM RotationTimelockHolds == GovernanceSpec => RotationIsTimelocked
<1> DEFINE D == ADMIN_ROTATION_DELAY_LEDGERS
<1>1. GovernanceInit => RotationLock!Init
  BY DEF GovernanceInit, QuestionsInit, LedgerInit, RotationLock!Init, Since
<1>2. ASSUME GovernanceInv, [GovernanceNext]_governanceVars
      PROVE  [RotationLock!Next]_RotationLock!lockVars
  <2>1. seq \in Int /\ D \in Int
    BY <1>2, LedgerAssumption, GovernanceAssumption
       DEF GovernanceInv, QuestionsInv, QuestionsTypeOK, ADMIN_ROTATION_DELAY_LEDGERS
  <2>2. ASSUME UNCHANGED <<seq, admin, pendingRotation>>
        PROVE  UNCHANGED RotationLock!lockVars
    BY <2>2 DEF RotationLock!lockVars, Since
  <2>3. ASSUME seq' = seq + 1, UNCHANGED <<admin, pendingRotation>>
        PROVE  RotationLock!Pass
    BY <2>3 DEF RotationLock!Pass, Since
  <2>4. ASSUME NEW a \in Accounts, ProposeAdminRotation(a), UNCHANGED seq
        PROVE  RotationLock!Announce(a)
    BY <2>1, <2>4, ShownSinceNow DEF ProposeAdminRotation, RotationLock!Announce, Since
  <2>5. ASSUME CancelAdminRotation, UNCHANGED seq
        PROVE  RotationLock!Withdraw
    BY <2>5 DEF CancelAdminRotation, RotationLock!Withdraw, Since
  <2>6. ASSUME ExecuteAdminRotation, UNCHANGED seq
        PROVE  RotationLock!Enact
    <3>1. PICK p \in pendingRotation :
            seq >= p.executableAt /\ admin' = p.value /\ pendingRotation' = {}
      BY <2>6 DEF ExecuteAdminRotation
    <3>2. p.executableAt \in Int
      BY <1>2 DEF GovernanceInv, ProposalsOK
    <3>3. PICK r \in Since(pendingRotation, D) : seq >= r.since + D /\ r.value = p.value
      BY <2>1, <3>1, <3>2, ShownLongEnough
    <3>4. Since(pendingRotation, D)' = {}
      BY <3>1 DEF Since
    <3>5. QED  BY <2>6, <3>1, <3>3, <3>4 DEF RotationLock!Enact
  <2>7. CASE KeyStep /\ UNCHANGED <<questionsVars, upgradeVars>>
    <3>1. CASE \E r \in Delegates : SetResolver(r)
      BY <2>2, <2>7, <3>1 DEF SetResolver, questionsVars
    <3>2. QED
      BY <2>4, <2>5, <2>6, <2>7, <3>1 DEF KeyStep, questionsVars, RotationLock!Next
  <2>8. CASE UpgradeStep /\ UNCHANGED <<questionsVars, keyVars>>
    BY <2>2, <2>8 DEF questionsVars, keyVars
  <2>9. CASE QuestionsNext /\ UNCHANGED <<upgradeVars, keyVars>>
    BY <2>2, <2>3, <2>9, TickPasses DEF keyVars, RotationLock!Next
  <2>10. CASE UNCHANGED governanceVars
    BY <2>2, <2>10 DEF governanceVars, questionsVars, keyVars
  <2>11. QED  BY <1>2, <2>7, <2>8, <2>9, <2>10, GovernanceCases
<1>3. QED
  BY <1>1, <1>2, GovernanceInvHolds, PTL
     DEF GovernanceSpec, RotationIsTimelocked, RotationLock!Spec
=============================================================================
