----------------------------- MODULE ReadersMC -----------------------------
(***************************************************************************)
(* Feeds of up to four rows whose stamps tie and run late, a leaderboard of *)
(* two holders refreshed by two replicas, and three markets over three      *)
(* ticks; a page has one row.                                               *)
(***************************************************************************)
EXTENDS Readers

CONSTANTS r1, r2, MaxMoves

MCBatches ==
  { <<[kind |-> "trade", amount |-> -2], [kind |-> "trade", amount |-> 1]>>,
    <<[kind |-> "payout", amount |-> 4]>> }

MCFirstWorth == [u \in Holders |-> IF u = 1 THEN 2 ELSE 1]

\* Bounds: what moves while the leaderboard is read, and for how long markets
\* do while the overview is.
Few ==
  /\ Len(past) <= MaxMoves + 1 /\ suspended \subseteq {2}
  /\ list = "overview" => clock < LastClock

Alike == {[r \in Refreshers |-> r], [r \in Refreshers |-> IF r = r1 THEN r2 ELSE r1]}
=============================================================================
