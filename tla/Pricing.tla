------------------------------ MODULE Pricing ------------------------------
(***************************************************************************)
(* What the AMM of one binary market charges (core/lmsr.py,                 *)
(* core/pricing.py).                                                        *)
(*                                                                          *)
(* Money is in ticks, and shares are whole.  Costs are in grains, Grain of  *)
(* them to the tick, so that quantize_cost has something to round.  LogCost *)
(* is the AMM's b ln(1 + e^(d/b)), so that                                  *)
(* C(q) = Share * Grain * q[1] + LogCost[q[0] - q[1]].                      *)
(***************************************************************************)
EXTENDS Integers, FiniteSets

CONSTANTS
  Share,    \* ticks a winning share pays
  Grain,    \* grains in a tick
  LogCost   \* q[0] - q[1] |-> cost in grains

ASSUME ScaleAssumption == Share \in Nat /\ Grain \in Nat \ {0}
\* The cost curve: symmetric, and no share costs less than nothing or more
\* than it can pay.
ASSUME LogCostAssumption ==
  \A d \in DOMAIN LogCost :
    /\ d \in Int /\ -d \in DOMAIN LogCost /\ LogCost[d] \in Int
    /\ LogCost[d] - LogCost[-d] = Share * Grain * d
    /\ d + 1 \in DOMAIN LogCost => LogCost[d + 1] - LogCost[d] \in 0..Share * Grain

Outcomes == {0, 1}
Sides == {"buy", "sell"}

\* q[o] less the other outcome's: the price line, from o's own side.
Lead(o, d) == IF o = 0 THEN d ELSE -d

\* C(q + delta) - C(q), in grains; n is negative for a sell.
CostOf(o, n, d) ==
  IF o = 0 THEN LogCost[d + n] - LogCost[d]
           ELSE Share * Grain * n + LogCost[d - n] - LogCost[d]

Signed(side, n) == IF side = "buy" THEN n ELSE -n

\* Mutation: a sell's proceeds rounded as a buy's cost is.
QuantizedUp(side, grains) == -((-grains) \div Grain)

\* A buy rounds up and a sell down, so the residue stays in the pool.
Quantized(side, grains) ==
  IF side = "buy" THEN -((-grains) \div Grain) ELSE grains \div Grain

\* trade_cost_of; 0 where it raises CostBelowTick or ProceedsBelowTick.
Price(o, side, n, d) ==
  LET raw == CostOf(o, Signed(side, n), d)
  IN  Quantized(side, IF raw < 0 THEN -raw ELSE raw)

AfterFill(o, side, n, d) == d + Lead(o, Signed(side, n))

=============================================================================
