--------------------------- MODULE ContractEnv ---------------------------
(***************************************************************************)
(* What the contract's Env gives to every part of it: the token contracts  *)
(* it can call, the accounts that may be workers, and the sequence number  *)
(* of the ledger a call runs in, which is the contract's only clock.       *)
(***************************************************************************)
EXTENDS Integers

CONSTANT Tokens    \* the assets whose token contracts exist
CONSTANT Workers   \* accounts that answer questions, stake and earn
CONSTANT MaxSeq    \* bound: last ledger sequence

ASSUME LedgerAssumption == MaxSeq \in Nat

VARIABLE seq       \* env.ledger().sequence()

LedgerInit == seq = 0

\* A ledger closes.
Tick == seq < MaxSeq /\ seq' = seq + 1

\* Ord::max(), of ledger numbers and of amounts.
Max2(a, b) == IF a >= b THEN a ELSE b
=============================================================================
