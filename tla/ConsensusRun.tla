---------------------------- MODULE ConsensusRun ----------------------------
(***************************************************************************)
(* Questions resolved by consensus one after another, with the credits the *)
(* workers earn in between: what makes a worker established in one ruling  *)
(* is what the earlier rulings credited.  The money of a ruling is in      *)
(* OracleEscrow.                                                           *)
(***************************************************************************)
EXTENDS Consensus

CONSTANTS
  Ballots,      \* ballots a question may get, valid or not
  MaxRulings    \* bound: questions resolved

ASSUME ConsensusRunAssumption ==
  /\ Ballots \subseteq Seq([worker : Workers, answer : Answers])
  /\ MaxRulings \in Nat

VARIABLES
  answered,   \* the ballot of the question under way, <<>> when there is none
  rulings     \* every ruling so far: its ballot, its verdict and the threshold

consensusVars == <<rankingVars, establishedCount, answered, rulings>>

ConsensusRunInit ==
  /\ RankingInit
  /\ ConsensusInit
  /\ answered = <<>>
  /\ rulings = <<>>

\* A new question, and what the backend has collected for it: a ballot that is
\* invalid or inconclusive stays without a ruling.
Answer(ballot) ==
  /\ Len(rulings) < MaxRulings
  /\ answered' = ballot
  /\ UNCHANGED <<rankingVars, establishedCount, rulings>>

\* resolve_by_consensus().
RuleByConsensus ==
  LET verdict == ConsensusVerdict(answered)
  IN /\ ValidBallot(answered)
     /\ Conclusive(answered)
     /\ rulings' = Append(rulings, [ballot |-> answered, verdict |-> verdict,
                                    threshold |-> establishedCount])
     /\ CreditRanking(verdict.workers)
     /\ answered' = <<>>
     /\ UNCHANGED establishedCount

ConsensusRunNext ==
  \/ \E ballot \in Ballots : Answer(ballot)
  \/ RuleByConsensus
  \/ \E count \in EstablishedCounts :
        /\ SetEstablishedAnswerCount(count)
        /\ UNCHANGED <<rankingVars, answered, rulings>>

ConsensusSpec == ConsensusRunInit /\ [][ConsensusRunNext]_consensusVars

-----------------------------------------------------------------------------
Voters(k) == Range(BallotWorkers(rulings[k].ballot))
PaidBy(k) == Range(rulings[k].verdict.workers)
SlashedBy(k) == Range(rulings[k].verdict.losers)
LeftOut(k) == Voters(k) \ PaidBy(k)

\* The answers that these workers gave.
AnswersOf(k, workers) ==
  {vote.answer : vote \in {v \in Range(rulings[k].ballot) : v.worker \in workers}}

\* The rulings before the k-th that paid the worker.
CreditsBefore(k, w) == {j \in 1 .. k - 1 : w \in PaidBy(j)}

\* Whatever the order in which the answers are listed, a ruling pays workers
\* of one answer only and leaves out at most one of those who answered, who
\* gave another answer than two at least; that one is slashed exactly if the
\* rulings before this one paid it as often as the threshold of the moment.
RulingIsFair ==
  \A k \in DOMAIN rulings :
    /\ PaidBy(k) \subseteq Voters(k)
    /\ Cardinality(AnswersOf(k, PaidBy(k))) = 1
    /\ LeftOut(k) # {} =>
         /\ Cardinality(LeftOut(k)) = 1 /\ Cardinality(PaidBy(k)) >= 2
         /\ AnswersOf(k, LeftOut(k)) # AnswersOf(k, PaidBy(k))
    /\ SlashedBy(k) = {w \in LeftOut(k) :
                         Cardinality(CreditsBefore(k, w)) >= rulings[k].threshold}

\* The scan of unanimous_dissenter() finds the odd one out at every position,
\* also at the first, which it compares all the others with; and it takes no
\* split for a dissent.
DissenterIsOddOneOut == DissenterFound(BallotAnswers(answered))
=============================================================================
