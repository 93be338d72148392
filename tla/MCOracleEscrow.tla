--------------------------- MODULE MCOracleEscrow ---------------------------
(***************************************************************************)
(* Instances of the whole contract.  MCEscrowMoney has one asset and two   *)
(* questions, with reviews, bonds, stakes, unbonding, pledges, ballots,    *)
(* and questions that another instance hands over or takes: six units per  *)
(* question split into three kinds of remainders under basis points out of *)
(* ten.  MCEscrowAssets has two assets and one question, without bonds or  *)
(* top-ups, with prepaid balances, the allowlist, the circuit breaker, and *)
(* stakes and balances that arrive from and leave for another instance.    *)
(* The ids are interchangeable; the workers are not, since the verdicts    *)
(* name them.                                                              *)
(***************************************************************************)
EXTENDS OracleEscrow

CONSTANTS q1, q2, w1, w2, yes, no

MCIds == {q1, q2}
IdSymmetry == Permutations(MCIds)

\* One verdict with a loser, one whose pool does not divide.
MCVerdicts == { [workers |-> <<w1>>, losers |-> <<w2>>],
                [workers |-> <<w2, w1>>, losers |-> <<>>] }
MCOneVerdict == { [workers |-> <<w1>>, losers |-> <<w2>>] }
\* One ballot that leads to the second verdict, one without a consensus, one
\* that names a worker twice.
Ballot(a, x, b, y) == << [worker |-> a, answer |-> x], [worker |-> b, answer |-> y] >>
MCBallots == { Ballot(w2, yes, w1, yes), Ballot(w1, yes, w2, no), Ballot(w1, yes, w1, yes) }

Sum(s, o, b) == [stake |-> s, owed |-> o, balance |-> b]
MCTransfers == { Sum(3, 0, 0), Sum(0, 0, 6) }
MCEveryone == { {w1, w2} \cup Payers }
MCQuorumLimits == { [min |-> 0, max |-> 1] }
=============================================================================
