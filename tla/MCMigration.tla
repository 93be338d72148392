---------------------------- MODULE MCMigration ----------------------------
(***************************************************************************)
(* Two questions opened at the source, one at the target, batches of two,  *)
(* one crash, and a run that stops at the first reverted batch: a batch    *)
(* lands before or after the settlement that races with it, the batch of a *)
(* dead run lands before, between or after those of the next one.          *)
(***************************************************************************)
EXTENDS Migration

CONSTANTS q1, q2, w1, w2

MCIds == {q1, q2}
MCVerdicts == { [workers |-> <<w1>>, losers |-> <<w2>>] }
=============================================================================
