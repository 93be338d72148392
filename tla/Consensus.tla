----------------------------- MODULE Consensus -----------------------------
(***************************************************************************)
(* Resolution from raw answers (issue #11): every worker's answer is       *)
(* committed to as a hash, and the contract itself finds out who agreed.   *)
(* When all agree, or all but one, the agreeing workers are paid; the one  *)
(* that dissents alone is slashed if its past credits make it established. *)
(***************************************************************************)
EXTENDS Ranking

CONSTANTS
  Answers,                            \* hashes of normalised answers
  EstablishedCounts,                  \* thresholds the admin may set
  DEFAULT_ESTABLISHED_ANSWER_COUNT    \* 20 in the code

ASSUME ConsensusAssumption ==
  /\ EstablishedCounts \subseteq Nat
  /\ DEFAULT_ESTABLISHED_ANSWER_COUNT \in Nat

VARIABLE establishedCount    \* EstablishedAnswerCount

ConsensusInit == establishedCount = DEFAULT_ESTABLISHED_ANSWER_COUNT

\* What unanimous_dissenter() returns beside an index: Ok(None) and Err.
NoDissent == 0
NoConsensus == -1

\* Fault: when all differ from the first, that the others agree is assumed.
UnanimousDissenterUnchecked(answers) ==
  LET n == Len(answers)
      mismatches == {i \in 2 .. n : answers[i] # answers[1]}
  IN IF mismatches = {} THEN NoDissent
     ELSE IF n < 3 THEN NoConsensus
     ELSE IF Cardinality(mismatches) = 1 THEN CHOOSE i \in mismatches : TRUE
     ELSE IF Cardinality(mismatches) = n - 1 THEN 1
     ELSE NoConsensus

\* unanimous_dissenter(): every answer is compared with the first one; when
\* all of them differ from it, they are compared with the second.
UnanimousDissenter(answers) ==
  LET n == Len(answers)
      mismatches == {i \in 2 .. n : answers[i] # answers[1]}
  IN IF mismatches = {} THEN NoDissent
     ELSE IF n < 3 THEN NoConsensus
     ELSE IF Cardinality(mismatches) = 1 THEN CHOOSE i \in mismatches : TRUE
     ELSE IF /\ Cardinality(mismatches) = n - 1
             /\ \A i \in 3 .. n : answers[i] = answers[2]
       THEN 1
     ELSE NoConsensus

-----------------------------------------------------------------------------
(* A ballot is the argument of resolve_by_consensus(): a list of workers   *)
(* with their answers.                                                     *)

BallotAnswers(ballot) == [i \in DOMAIN ballot |-> ballot[i].answer]
BallotWorkers(ballot) == [i \in DOMAIN ballot |-> ballot[i].worker]

\* What the entry point checks before it counts.
ValidBallot(ballot) ==
  /\ ballot # <<>>
  /\ \A i, j \in DOMAIN ballot : i # j => ballot[i].worker # ballot[j].worker

Conclusive(ballot) == UnanimousDissenter(BallotAnswers(ballot)) # NoConsensus

\* Fault: the threshold is not reached when it is met exactly.
EstablishedAbove(w) == resolvedCount[w] > establishedCount

Established(w) == resolvedCount[w] >= establishedCount

\* The two lists resolve_by_consensus() settles with: a dissenter that is not
\* established is on neither.
ConsensusVerdict(ballot) ==
  LET odd == UnanimousDissenter(BallotAnswers(ballot))
  IN [workers |-> IF odd = NoDissent THEN BallotWorkers(ballot)
                                     ELSE RemoveAt(BallotWorkers(ballot), odd),
      losers  |-> IF odd # NoDissent /\ Established(ballot[odd].worker)
                    THEN <<ballot[odd].worker>> ELSE <<>>]

\* set_established_answer_count().
SetEstablishedAnswerCount(count) == establishedCount' = count

-----------------------------------------------------------------------------
(* What a quorum's answers mean, without an order among them.              *)

Unanimous(answers) == \A i, j \in DOMAIN answers : answers[i] = answers[j]

\* The positions that disagree alone with at least two others who agree.
LoneDissents(answers) ==
  {i \in DOMAIN answers :
     /\ Len(answers) >= 3
     /\ \A j \in DOMAIN answers \ {i} : answers[j] # answers[i]
     /\ \A j, k \in DOMAIN answers \ {i} : answers[j] = answers[k]}

\* The scan finds what the definition says, wherever in the list it is.
DissenterFound(answers) ==
  /\ UnanimousDissenter(answers) = NoDissent <=> Unanimous(answers)
  /\ \A i \in DOMAIN answers :
        UnanimousDissenter(answers) = i <=> i \in LoneDissents(answers)
=============================================================================
