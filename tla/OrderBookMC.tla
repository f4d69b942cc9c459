---------------------------- MODULE OrderBookMC ----------------------------
(***************************************************************************)
(* A book with b = 2 shares, 8 ticks to the share and a quarter-tick grain. *)
(* b trades both ways and sells at a limit; a waits with one order below    *)
(* the price and one above it, whose budgets together are more than a is    *)
(* left with once the other market has taken its share, and one client key  *)
(* is used for two different orders.                                        *)
(***************************************************************************)
EXTENDS OrderBook, TLC

CONSTANTS s1, s2, a, b

MCLogCost ==
  [d \in -10..10 |->
     IF d < 0 THEN <<30, 20, 13, 8, 5, 3, 2, 1, 1, 0>>[-d]
     ELSE <<44, 62, 84, 109, 136, 165, 195, 226, 257, 289, 320>>[d + 1]]

MCReach == 6 :> -293 @@ 15 :> -25 @@ 20 :> 102

Ask1(kind, key, user, o, side, n, limit) ==
  [kind |-> kind, key |-> key, user |-> user, outcome |-> o, side |-> side,
   quantity |-> n, limit |-> limit]

MCRequests ==
  { Ask1("trade", "t1", b, 0, "buy", 3, 0),
    Ask1("trade", "t2", b, 1, "buy", 4, 0),
    Ask1("trade", "t3", b, 0, "sell", 2, 0),
    Ask1("order", "p1", a, 0, "buy", 2, 6),
    Ask1("order", "p2", b, 0, "sell", 2, 20),
    Ask1("order", "p1", a, 0, "buy", 1, 20),
    Ask1("order", "p3", a, 1, "buy", 3, 15) }

MCKeys == {r.key : r \in MCRequests}
MCSwings == {-18}

Symmetry == Permutations(Sessions)
=============================================================================
