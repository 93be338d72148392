---------------------------- MODULE MCQuestions ----------------------------
(***************************************************************************)
(* Two ids, three openings: every question can be settled in every way and *)
(* one of them reopened, while the other one is anywhere in its own life.  *)
(* Three workers fill the verdicts: one that is valid, one that is invalid *)
(* because a worker is on both sides.  Four ledgers leave room for two     *)
(* timeouts and for a window that closes before the clock stops.           *)
(***************************************************************************)
EXTENDS Questions

CONSTANTS q1, q2, w1, w2

MCIds == {q1, q2}
MCVerdicts == { [workers |-> <<w1>>, losers |-> <<w2>>],
                [workers |-> <<w1>>, losers |-> <<w1>>] }
MCQuorumLimits == { [min |-> 0, max |-> 1] }
=============================================================================
