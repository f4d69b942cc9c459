----------------------------- MODULE PostingMC -----------------------------
(***************************************************************************)
(* Two users (accounts 1 and 3), two markets' pools (2 and 4) and PLATFORM  *)
(* (5), so that ascending lock order mixes users and pools.  User 1 has one *)
(* resting order in each market, so fills, cancellations and placements of  *)
(* different books meet on one account.                                     *)
(***************************************************************************)
EXTENDS Posting, TLC

CONSTANTS s1, s2, m1, m2, o1, o2

MCAccounts == 1..5
MCUsers == {1, 3}
MCOwnerOf == (o1 :> 1) @@ (o2 :> 1)
MCMarketOf == (o1 :> m1) @@ (o2 :> m2)
MCKeys == {"grant1", "grant3", "buy1", "buy3", "fill1", "swing1", "back1", "place1"}

Transfer(from, to, n) ==
  [a \in Accounts |-> IF a = from THEN -n ELSE IF a = to THEN n ELSE 0]

Move(key, from, to, n) ==
  [key |-> key, legs |-> Transfer(from, to, n), order |-> NoOrder, drop |-> 0]

Fill(key, from, to, n, o, d) ==
  [key |-> key, legs |-> Transfer(from, to, n), order |-> o, drop |-> d]

Ask(m, moves) ==
  [market |-> m, moves |-> moves, opens |-> NoOrder, budget |-> 0, cancels |-> NoOrder]

MCRequests ==
  { Ask(NoMarket, <<Move("grant1", 5, 1, 3)>>),
    Ask(NoMarket, <<Move("grant1", 5, 1, 2)>>),
    Ask(NoMarket, <<Move("grant3", 5, 3, 1)>>),
    \* a key reused for different money, on accounts grant1 does not touch
    Ask(NoMarket, <<Move("grant1", 4, 3, 1)>>),
    \* malformed: a credit that drops a reservation
    Ask(NoMarket, <<Fill("place1", 2, 1, 1, NoOrder, 1)>>),
    \* malformed: legs that do not balance
    Ask(NoMarket, <<[Move("place1", 5, 2, 1) EXCEPT !.legs[3] = 1]>>),
    \* user 1 buys in m2
    Ask(m2, <<Move("buy1", 1, 4, 2)>>),
    \* user 3 trades in m1 and fills part of user 1's resting order
    Ask(m1, <<Move("buy3", 3, 2, 1), Fill("fill1", 1, 2, 1, o1, 2)>>),
    \* user 1 spends more than they have, and a fill pays part of it back
    Ask(m1, <<Move("swing1", 1, 2, 3), Move("back1", 2, 1, 2)>>),
    \* user 1 rests a buy order in m1, and cancels it
    [Ask(m1, <<>>) EXCEPT !.opens = o1, !.budget = 2],
    [Ask(m1, <<>>) EXCEPT !.cancels = o1],
    \* user 1 places an order in m2 that fills in part and rests
    [Ask(m2, <<Fill("place1", 1, 4, 1, o2, 1)>>) EXCEPT !.opens = o2, !.budget = 2] }

MCClock == {0, 2}
MCStamps == 0..16

\* The users run one code, but are not interchangeable: only sessions are.
Symmetry == Permutations(Sessions)
=============================================================================
