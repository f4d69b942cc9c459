---------------------------- MODULE PriceFeedMC ----------------------------
(***************************************************************************)
(* Live prices for TLC: a page that turns once, and one that does not.        *)
(***************************************************************************)
EXTENDS PriceFeed, TLC

CONSTANTS m1, m2, c1, c2, k1, k2, k3

MCUserOf == [c \in Clients |-> c]

\* Only the first market trades.
MCLastVersion == [m \in Markets |-> IF m = m1 THEN 2 ELSE 0]

MCFollows == [c \in Clients |-> IF c = c1 THEN <<{m1, m2}, {m1}>> ELSE <<{m1}>>]

Alike == Permutations(Sockets) \cup Permutations(Relays)

\* Of two pages, a page that turns and a failure, a behaviour has one.
OneTroubleAtATime ==
  \/ faults = MaxFaults /\ page[c1] = 2
  \/ faults = MaxFaults /\ phase[c2] = "stopped"
  \/ page[c1] = 2 /\ phase[c2] = "stopped"

MCInit == Init /\ OneTroubleAtATime

MCSpec == MCInit /\ [][Next]_vars

=============================================================================
