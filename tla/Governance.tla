----------------------------- MODULE Governance -----------------------------
(***************************************************************************)
(* Who may call what, and how that and the code itself change: the upgrade *)
(* timelock, the rotation of the admin and the delegated resolver, beside  *)
(* the questions whose payers rely on the code not changing under them.    *)
(*                                                                         *)
(* The new code is taken to be this code: what an upgrade may do with the  *)
(* storage is not modelled, only when it may happen.                       *)
(***************************************************************************)
EXTENDS Questions

CONSTANTS
  Accounts,               \* accounts that may become admin or resolver
  Hashes,                 \* wasm hashes that may be proposed
  Uploaded,               \* those of them the network has the code of
  UPGRADE_DELAY_LEDGERS   \* MAX_TIMEOUT_LEDGERS + 17_280 in the code

\* const assert in the code: the delay exceeds MAX_TIMEOUT_LEDGERS, which
\* bounds the timeout of every question.
ASSUME GovernanceAssumption ==
  /\ Uploaded \subseteq Hashes
  /\ UPGRADE_DELAY_LEDGERS \in Nat
  /\ \A timeout \in Timeouts : timeout < UPGRADE_DELAY_LEDGERS

ADMIN_ROTATION_DELAY_LEDGERS == UPGRADE_DELAY_LEDGERS

VARIABLES
  wasm,              \* the hash of the running code
  pendingUpgrade,    \* PendingUpgrade, a set of at most one
  admin,             \* Admin
  pendingRotation,   \* PendingAdminRotation, a set of at most one
  resolver,          \* Resolver, a set of at most one
  signers            \* the privileged accounts whose signature the last call asked for

upgradeVars == <<wasm, pendingUpgrade>>
keyVars == <<admin, pendingRotation, resolver>>
governanceVars == <<questionsVars, upgradeVars, keyVars, signers>>

GovernanceInit ==
  /\ QuestionsInit
  /\ wasm \in Uploaded
  /\ pendingUpgrade = {}
  /\ admin \in Accounts
  /\ pendingRotation = {}
  /\ resolver = {}
  /\ signers = {}

-----------------------------------------------------------------------------
(* Authorisation.                                                          *)

\* Open to anyone; a payer's own signature is not recorded.
Public == signers' = {}

\* Fault: the delegate stands in for the admin in every call.
RequireAdminOrDelegate == signers' = IF resolver = {} THEN {admin} ELSE resolver

\* require_admin().
RequireAdmin == signers' = {admin}

\* require_resolver_or_admin(): the resolver alone, once there is one.
RequireResolverOrAdmin == signers' = IF resolver = {} THEN {admin} ELSE resolver

-----------------------------------------------------------------------------
(* The code.                                                               *)

Scheduled(value, delay) == [value |-> value, executableAt |-> seq + delay]

\* Fault: the delay of the proposal that is replaced goes on.
ProposeUpgradeKeepingClock(hash) ==
  /\ pendingUpgrade' =
       {[Scheduled(hash, UPGRADE_DELAY_LEDGERS) EXCEPT
           !.executableAt = IF pendingUpgrade = {} THEN @
                            ELSE (CHOOSE p \in pendingUpgrade : TRUE).executableAt]}
  /\ UNCHANGED wasm

\* propose_upgrade().
ProposeUpgrade(hash) ==
  /\ pendingUpgrade' = {Scheduled(hash, UPGRADE_DELAY_LEDGERS)}
  /\ UNCHANGED wasm

\* cancel_upgrade().
CancelUpgrade ==
  pendingUpgrade # {} /\ pendingUpgrade' = {} /\ UNCHANGED wasm

\* Fault: the delay is counted from the last ledger a question may wait for.
ExecuteUpgradeEarly ==
  \E p \in pendingUpgrade :
    /\ seq + 2 >= p.executableAt
    /\ p.value \in Uploaded
    /\ wasm' = p.value
    /\ pendingUpgrade' = {}

\* execute_upgrade(): with a hash that was never uploaded the whole call fails.
ExecuteUpgrade ==
  \E p \in pendingUpgrade :
    /\ seq >= p.executableAt
    /\ p.value \in Uploaded
    /\ wasm' = p.value
    /\ pendingUpgrade' = {}

UpgradeStep ==
  (\E hash \in Hashes : ProposeUpgrade(hash)) \/ CancelUpgrade \/ ExecuteUpgrade

-----------------------------------------------------------------------------
(* The keys.                                                               *)

\* schedule_admin_rotation(), for set_admin() and propose_admin_rotation().
ProposeAdminRotation(a) ==
  /\ pendingRotation' = {Scheduled(a, ADMIN_ROTATION_DELAY_LEDGERS)}
  /\ UNCHANGED <<admin, resolver>>

\* cancel_admin_rotation().
CancelAdminRotation ==
  pendingRotation # {} /\ pendingRotation' = {} /\ UNCHANGED <<admin, resolver>>

\* Fault: an executed rotation stays pending.
ExecuteAdminRotationKept ==
  \E p \in pendingRotation :
    /\ seq >= p.executableAt
    /\ signers' = {admin, p.value}
    /\ admin' = p.value
    /\ UNCHANGED <<pendingRotation, resolver>>

\* execute_admin_rotation(), signed by both; the resolver stays.
ExecuteAdminRotation ==
  \E p \in pendingRotation :
    /\ seq >= p.executableAt
    /\ signers' = {admin, p.value}
    /\ admin' = p.value
    /\ pendingRotation' = {}
    /\ UNCHANGED resolver

\* set_resolver().
SetResolver(r) == resolver' = r /\ UNCHANGED <<admin, pendingRotation>>

Delegates == {{}} \cup {{a} : a \in Accounts}

KeyStep ==
  \/ ExecuteAdminRotation
  \/ /\ RequireAdmin
     /\ \/ \E a \in Accounts : ProposeAdminRotation(a)
        \/ CancelAdminRotation
        \/ \E r \in Delegates : SetResolver(r)

-----------------------------------------------------------------------------
(* The calls on a question, by who may make them.                          *)

PublicStep(q) ==
  FundingStep(q) \/ TimeoutQuestion(q) \/ FinalizeQuestion(q)
    \/ \E c \in Challengers, a \in Bonds : PostBond(q, c, a)

\* resolve().
ResolverStep(q) == \E v \in Verdicts : ResolveQuestion(q, v)

AdminQuestionStep(q) ==
  \/ RefundQuestion(q)
  \/ MigrateQuestion(q)
  \/ DisputeResolve(q)
  \/ \E v \in Verdicts :
       \/ ResolveQuestion(q, v)          \* resolve_by_consensus()
       \/ EscalateQuestion(q, v)
       \/ ResolveEscalated(q, v)
       \/ \E window \in Windows : ResolveChallengeable(q, v, window)

GovernanceNext ==
  \/ /\ UNCHANGED <<seq, configVars, upgradeVars, keyVars>>
     /\ \E q \in Ids : \/ Public /\ PublicStep(q)
                       \/ RequireResolverOrAdmin /\ ResolverStep(q)
                       \/ RequireAdmin /\ AdminQuestionStep(q)
  \/ RequireAdmin /\ ConfigStep /\ UNCHANGED <<seq, recordVars, upgradeVars, keyVars>>
  \/ RequireAdmin /\ UpgradeStep /\ UNCHANGED <<questionsVars, keyVars>>
  \/ KeyStep /\ UNCHANGED <<questionsVars, upgradeVars>>
  \/ Public /\ Tick /\ UNCHANGED <<recordVars, configVars, upgradeVars, keyVars>>

GovernanceSpec == GovernanceInit /\ [][GovernanceNext]_governanceVars

-----------------------------------------------------------------------------
Since(pending, delay) ==
  {[value |-> p.value, since |-> p.executableAt - delay] : p \in pending}

UpgradeLock == INSTANCE Timelock WITH
  Values <- Hashes, Delay <- UPGRADE_DELAY_LEDGERS,
  now <- seq, live <- wasm, shown <- Since(pendingUpgrade, UPGRADE_DELAY_LEDGERS)

RotationLock == INSTANCE Timelock WITH
  Values <- Accounts, Delay <- ADMIN_ROTATION_DELAY_LEDGERS,
  now <- seq, live <- admin,
  shown <- Since(pendingRotation, ADMIN_ROTATION_DELAY_LEDGERS)

\* The code changes only to a hash that get_pending_upgrade() has shown for the
\* whole delay, whatever was proposed, replaced or cancelled before, and
\* whoever became admin meanwhile.
UpgradeIsTimelocked == UpgradeLock!Spec

\* The same for the admin key: a rotation proposed again starts over, and one
\* that was executed cannot be executed again.
RotationIsTimelocked == RotationLock!Spec

\* When new code takes over, every question that was already open when it was
\* announced has had its refund deadline under the old code: no admin, through
\* timeouts, imports, cancelling or proposing again, brings an upgrade between
\* a payer and the refund (UPGRADE_DELAY_LEDGERS).
ExitBeforeUpgrade ==
  [][wasm' # wasm =>
       \A q \in WithStatus("Pending"), p \in pendingUpgrade :
          question[q].createdAt + UPGRADE_DELAY_LEDGERS <= p.executableAt =>
             Deadline(question[q]) < seq]_governanceVars

\* The same for every question, as the comment on UPGRADE_DELAY_LEDGERS says
\* of the ones opened after the proposal.
QuestionsEndBeforeUpgrade ==
  \A q \in WithStatus("Pending"), p \in pendingUpgrade :
     Deadline(question[q]) < p.executableAt

\* What a stolen resolver key can do: a call that only the resolver signs
\* resolves one pending question and does nothing else; it neither refunds,
\* reviews or moves a question, nor touches configuration, keys or code.
ResolverOnlyResolves ==
  [][signers' # {} /\ admin \notin signers' =>
       /\ UNCHANGED <<seq, configVars, upgradeVars, keyVars, reviewVars>>
       /\ \E q \in WithStatus("Pending") :
             question' = [question EXCEPT ![q].status = "Resolved"]]_governanceVars
=============================================================================
