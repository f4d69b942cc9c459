---------------------------- MODULE PositionsMC ----------------------------
(***************************************************************************)
(* Two requests in two of the ledger's replicas touch a market first; then  *)
(* two users trade it, b = 2 shares, 8 ticks to the share, with a seed that *)
(* covers less than the AMM can lose, as market_service allows: one user    *)
(* can buy low, let the other push the price up, and sell high.             *)
(***************************************************************************)
EXTENDS Positions, TLC

CONSTANTS s1, s2, p1, p2, a, b

MCProcessOf == s1 :> p1 @@ s2 :> p2

\* The two requests may change places, each with its replica.
Symmetry ==
  {f \in Permutations({s1, s2, p1, p2}) :
     \A s \in {s1, s2} : f[s] \in {s1, s2} /\ f[MCProcessOf[s]] = MCProcessOf[f[s]]}

\* log costs of a book that leans the other way, in quarter ticks.
Against == <<30, 20, 13, 8, 5, 3, 2, 1>>

MCLogCost ==
  LET against(n) == IF n = 0 THEN 44 ELSE IF n > Len(Against) THEN 0 ELSE Against[n]
  IN  [d \in -20..20 |-> IF d < 0 THEN against(-d) ELSE against(d) + Share * Grain * d]

Ask(user, o, side, n) == [user |-> user, outcome |-> o, side |-> side, quantity |-> n]

MCTrades ==
  { Ask(a, 0, "buy", 2), Ask(a, 0, "sell", 2), Ask(a, 0, "sell", 3), Ask(a, 1, "buy", 1),
    Ask(b, 0, "buy", 5), Ask(b, 0, "sell", 4), Ask(b, 1, "sell", 1) }
=============================================================================
