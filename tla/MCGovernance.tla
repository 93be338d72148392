---------------------------- MODULE MCGovernance ----------------------------
(***************************************************************************)
(* One question over five ledgers and a delay of three, the least one that  *)
(* is longer than the timeout of two: upgrades and rotations are proposed  *)
(* before and after the question is opened, settled or reopened, replaced, *)
(* cancelled and executed.  Three signatures are told apart: admin,        *)
(* successor, resolver.                                                    *)
(***************************************************************************)
EXTENDS Governance

CONSTANTS w1, w2

MCVerdicts == { [workers |-> <<w1>>, losers |-> <<w2>>] }
=============================================================================
