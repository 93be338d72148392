------------------------------ MODULE Ranking ------------------------------
(***************************************************************************)
(* The on-chain leaderboard (#83).  Every settlement credits each matching *)
(* worker once: its total count goes up by one and it is moved to its      *)
(* place in a list of at most LEADERBOARD_CAP entries, sorted by count.    *)
(***************************************************************************)
EXTENDS ContractEnv, SequencesExt

CONSTANT LEADERBOARD_CAP \* 20 in the code

ASSUME RankingAssumption == LEADERBOARD_CAP \in Nat \ {0}

VARIABLES
  resolvedCount,         \* ResolvedCount(worker), 0 where absent
  leaderboard            \* LeaderboardEntries

rankingVars == <<resolvedCount, leaderboard>>

RankingInit ==
  /\ resolvedCount = [w \in Workers |-> 0]
  /\ leaderboard = <<>>

\* The list without the first entry of the worker.
WithoutWorker(entries, w) ==
  LET own == {i \in DOMAIN entries : entries[i].worker = w}
  IN IF own = {} THEN entries ELSE RemoveAt(entries, Min(own))

\* Where an entry with this count goes: before the first smaller one.
PlaceFor(count, entries) ==
  LET smaller == {i \in DOMAIN entries : entries[i].count < count}
  IN IF smaller = {} THEN Len(entries) + 1 ELSE Min(smaller)

\* Fault: the list is cut one entry too late.
RankedOneTooMany(board, w, count) ==
  LET others   == WithoutWorker(board, w)
      inserted == InsertAt(others, PlaceFor(count, others), [worker |-> w, count |-> count])
  IN SubSeq(inserted, 1, IF Len(inserted) > LEADERBOARD_CAP + 1 THEN LEADERBOARD_CAP + 1
                                                                ELSE Len(inserted))

\* update_leaderboard(): the worker's entry is taken out and put back just
\* before the first entry with a smaller count; an entry beyond the cap drops.
Ranked(board, w, count) ==
  LET others   == WithoutWorker(board, w)
      inserted == InsertAt(others, PlaceFor(count, others), [worker |-> w, count |-> count])
  IN SubSeq(inserted, 1, IF Len(inserted) > LEADERBOARD_CAP THEN Len(inserted) - 1
                                                            ELSE Len(inserted))

\* record_resolved_credit() for each worker of a list without duplicates, in
\* the order of the list.
CreditRanking(workers) ==
  /\ resolvedCount' = [w \in Workers |->
                         resolvedCount[w] + (IF w \in Range(workers) THEN 1 ELSE 0)]
  /\ leaderboard' = FoldLeft(LAMBDA board, w : Ranked(board, w, resolvedCount[w] + 1),
                             leaderboard, workers)

-----------------------------------------------------------------------------
\* The board is the top of the full counts, although each settlement looks at
\* the credited workers only: entries are sorted, carry the true counts, name
\* no worker twice, and no worker off the board has a larger count than one on
\* it, nor any count at all while the board has room.
BoardIsTop ==
  LET listed == {leaderboard[i].worker : i \in DOMAIN leaderboard}
  IN /\ Len(leaderboard) <= LEADERBOARD_CAP
     /\ \A i, j \in DOMAIN leaderboard : i < j =>
           /\ leaderboard[i].count >= leaderboard[j].count
           /\ leaderboard[i].worker # leaderboard[j].worker
     /\ \A i \in DOMAIN leaderboard :
           leaderboard[i].count = resolvedCount[leaderboard[i].worker]
     /\ \A w \in Workers \ listed :
           /\ Len(leaderboard) < LEADERBOARD_CAP => resolvedCount[w] = 0
           /\ \A i \in DOMAIN leaderboard : resolvedCount[w] <= leaderboard[i].count
=============================================================================
