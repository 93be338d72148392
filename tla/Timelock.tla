------------------------------ MODULE Timelock ------------------------------
(***************************************************************************)
(* What a timelock promises: a new value goes live only after it has been  *)
(* shown, unchanged and without a break, for a whole delay.  Showing       *)
(* another value, or the same one again, starts over; what has gone live   *)
(* is no longer shown and cannot go live a second time.                    *)
(***************************************************************************)
EXTENDS Integers

CONSTANTS
  Values,   \* what may be live or shown
  Delay     \* for how long a value is shown before it goes live

VARIABLES
  now,      \* the clock everyone reads
  live,     \* the value in force
  shown     \* the value announced and since when; at most one

lockVars == <<now, live, shown>>

Init == now = 0 /\ live \in Values /\ shown = {}

Announce(v) == shown' = {[value |-> v, since |-> now]} /\ UNCHANGED <<now, live>>

Withdraw == shown' = {} /\ UNCHANGED <<now, live>>

Enact ==
  \E p \in shown :
    /\ now >= p.since + Delay
    /\ live' = p.value
    /\ shown' = {}
    /\ UNCHANGED now

Pass == now' = now + 1 /\ UNCHANGED <<live, shown>>

Next == (\E v \in Values : Announce(v)) \/ Withdraw \/ Enact \/ Pass

Spec == Init /\ [][Next]_lockVars
=============================================================================
