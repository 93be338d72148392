---------------------------- MODULE EscrowPromise ----------------------------
(***************************************************************************)
(* What the contract promises a payer about one question id, however the   *)
(* question is settled: the amount, the payer, the asset and the refund    *)
(* deadline are fixed while the money is held; the money leaves once, to   *)
(* the workers or back to the payer; while a verdict is under review it    *)
(* cannot go back; a paid id is never used again, and a returned one only  *)
(* by the same payer, in the same asset, with new money.  Money that moves *)
(* to another instance of the contract is gone from this one for good.     *)
(***************************************************************************)
EXTENDS Storage

CONSTANTS
  Ids, Payers, Tokens, Amounts,
  Dues              \* ledgers a refund may be due at

VARIABLE escrow   \* id -> [payer, token, amount, due, state]

Deal(p, t, a, d, state) ==
  [payer |-> p, token |-> t, amount |-> a, due |-> d, state |-> state]

Init == escrow = NoEntries

\* New money for a new id.
Fund(q) ==
  /\ q \notin DOMAIN escrow
  /\ \E p \in Payers, t \in Tokens, a \in Amounts, d \in Dues :
        escrow' = Put(escrow, q, Deal(p, t, a, d, "held"))

\* New money for an id whose money went back: same payer, same asset.
FundAgain(q) ==
  /\ q \in DOMAIN escrow /\ escrow[q].state = "returned"
  /\ \E a \in Amounts, d \in Dues :
        escrow' = Put(escrow, q, Deal(escrow[q].payer, escrow[q].token, a, d, "held"))

\* Only the state of the id changes, from one of `from` to `to`.
Moves(q, from, to) ==
  /\ q \in DOMAIN escrow /\ escrow[q].state \in from
  /\ escrow' = [escrow EXCEPT ![q].state = to]

Judge(q)  == Moves(q, {"held"}, "review")
Pay(q)    == Moves(q, {"held", "review"}, "paid")
Return(q) == Moves(q, {"held"}, "returned")
Leave(q)  == Moves(q, {"held"}, "moved")

Next == \E q \in Ids : \/ Fund(q) \/ FundAgain(q)
                     \/ Judge(q) \/ Pay(q) \/ Return(q) \/ Leave(q)

Spec == Init /\ [][Next]_escrow
=============================================================================
