---------------------------- MODULE MCSmallParts ----------------------------
(***************************************************************************)
(* The sequential parts that share nothing, side by side in one instance:  *)
(* every behaviour runs one of them, chosen at the start, and leaves the   *)
(* others at one of their initial states.                                  *)
(*                                                                         *)
(* Pending index: five ids, every order of additions and removals, enough  *)
(* for a removed slot to be first, in the middle, last, and the only one.  *)
(*                                                                         *)
(* Settlement: the code's own basis points on amounts around every         *)
(* rounding boundary: amounts below the quorum size (all dust), amounts    *)
(* whose fee rounds to zero, amounts above BPS_DENOM (both terms of        *)
(* mul_bps() count), and slashable stakes on both sides of the cap.        *)
(*                                                                         *)
(* Consensus: three answers, every ballot of up to three workers and one   *)
(* that names a worker twice, two rulings in a row.                        *)
(*                                                                         *)
(* Vesting: limbs of three bits instead of 64, every schedule over six     *)
(* timestamps, totals from one unit to nearly the largest amount (31),     *)
(* revenue in one or two parts.                                            *)
(***************************************************************************)
EXTENDS PendingIndex, SettlementRun, ConsensusRun, FeeVesting

CONSTANTS q1, q2, q3, q4, q5, w1, w2, w3, w4, yes, no, maybe

MCIds == {q1, q2, q3, q4, q5}

MCAmounts == {1, 2, 4, 5, 7, 10, 33, 9999, 10000, 12347}
MCQuorumSizes == 1 .. 4
MCSlashables == {0, 19, 20, 60, 141, 10019, 300001}

Respondents == <<w1, w2, w3>>
Named(answers) == [i \in DOMAIN answers |-> [worker |-> Respondents[i], answer |-> answers[i]]]
MCBallots ==
  {Named(answers) : answers \in UNION {[1 .. size -> Answers] : size \in 0 .. 3}}
    \cup {<< [worker |-> w1, answer |-> yes], [worker |-> w1, answer |-> yes] >>}

MCTimes == {0, 1, 2, 4, 5, 6}
MCTotals == {1, 6, 30}

VARIABLE part   \* the part this behaviour runs

allVars == <<indexVars, runVars, consensusVars, vestingVars, seq, part>>

\* An initial state of each part, for the behaviours of the others.
SettlementIdle ==
  /\ RunInit /\ amount = 1 /\ n = 1
VestingIdle ==
  /\ timestamp = 0 /\ claimed = 0 /\ treasury = 0 /\ received = 0
  /\ beneficiary = CHOOSE b \in Beneficiaries : TRUE
  /\ schedule = [start |-> 0, cliff |-> 0, end |-> 1, total |-> 1]

SmallInit ==
  /\ IndexInit /\ ConsensusRunInit /\ LedgerInit
  /\ \/ part = "index" /\ SettlementIdle /\ VestingIdle
     \/ part = "settlement" /\ RunInit /\ VestingIdle
     \/ part = "consensus" /\ SettlementIdle /\ VestingIdle
     \/ part = "vesting" /\ SettlementIdle /\ VestingInit

SmallNext ==
  /\ UNCHANGED <<part, seq>>
  /\ \/ part = "index" /\ IndexNext /\ UNCHANGED <<runVars, consensusVars, vestingVars>>
     \/ part = "settlement" /\ RunNext /\ UNCHANGED <<indexVars, consensusVars, vestingVars>>
     \/ part = "consensus" /\ ConsensusRunNext /\ UNCHANGED <<indexVars, runVars, vestingVars>>
     \/ part = "vesting" /\ VestingNext /\ UNCHANGED <<indexVars, runVars, consensusVars>>

\* The treasury's fairness, in the behaviours that run it.
SmallSpec ==
  /\ SmallInit /\ [][SmallNext]_allVars
  /\ WF_allVars(part = "vesting" /\ SmallNext /\ ClaimVested)
  /\ WF_allVars(part = "vesting" /\ SmallNext /\ \E later \in Times : PassTime(later))
=============================================================================
