----------------------------- MODULE Positions -----------------------------
(***************************************************************************)
(* The life of one market's pool and of the positions in it: opened and     *)
(* funded (module BookOpening), traded, and paid out or refunded            *)
(* (service/settlement.py, service/voiding.py, core/voiding.py), with what  *)
(* the reads of it say (service/valuation.py).                              *)
(*                                                                          *)
(* A trade, a payout and a void hold the book's lock to their commit, so    *)
(* each is one action; modules OrderBook, Posting and Ending have their     *)
(* races.  A void works its refunds out from the pool's trades alone: a     *)
(* stack of lots per holder and outcome, the newest sold first.             *)
(***************************************************************************)
EXTENDS BookOpening, Pricing, Sequences, FiniteSetsExt, Functions

CONSTANTS
  Users, Admin,
  Trades,     \* what traders ask for: [user, outcome, side, quantity]
  MaxTrades,  \* bound: how many of them commit
  Seed,       \* the book's seed_subsidy
  Grant,      \* the starting credits
  NoResult

ASSUME PositionsAssumption ==
  /\ Trades \subseteq [user: Users, outcome: Outcomes, side: Sides, quantity: Nat \ {0}]
  /\ IsFiniteSet(Users) /\ Admin \notin Users /\ MaxTrades \in Nat
  /\ "pool" \notin Users /\ "platform" \notin Users
  /\ Seed \in Nat \ {0} /\ Grant \in Nat
  /\ NoResult \notin [kind: {"settled"}, winner: Outcomes]
  /\ NoResult \notin [kind: {"voided"}, by: Users \cup {Admin}]
\* The more an outcome leads, the more its next share costs.
ASSUME ConvexAssumption ==
  \A d \in DOMAIN LogCost :
    d - 1 \in DOMAIN LogCost /\ d + 1 \in DOMAIN LogCost =>
      LogCost[d] - LogCost[d - 1] <= LogCost[d + 1] - LogCost[d]

VARIABLES
  feed,       \* the pool's trade entries, oldest first
  q,          \* outcome -> shares outstanding
  positions,  \* user -> outcome -> quantity and cost_basis
  granted,    \* the users whose grant is minted
  balance,    \* what the entries of each user's, the pool's and PLATFORM's account add up to
  record,     \* the market's row in market_results, or NoResult
  payments,   \* the payout or refund transactions
  residue,    \* what the residue transaction took out of the pool
  told,       \* what the first answer said
  banked      \* auxiliary: what closing shares has earned each user, trade by trade

accounts == <<granted, balance>>
ended    == <<record, payments, residue, told>>
trading  == <<feed, q, positions, accounts, ended, banked>>
vars     == <<opening, trading>>

Holders == Users \X Outcomes
Owners == Users \cup {"pool", "platform"}

----------------------------------------------------------------------------
(* The lot replay *)

\* Shares in the lots at the positions P of the stack.
SharesIn(lots, P) == SumFunction([i \in P |-> lots[i].left])

\* Mutation: the oldest lot sells first.
SellOldestFirst(lots, n) ==
  LET taken(i) == Max({0, Min({lots[i].left, n - SharesIn(lots, 1..(i - 1))})})
  IN  [i \in DOMAIN lots |-> [lots[i] EXCEPT !.left = @ - taken(i)]]

\* _sell_newest_first: each lot gives what the newer ones could not.  A lot it
\* empties, which the code drops, stays with nothing left, and is worth nothing.
SellNewestFirst(lots, n) ==
  LET taken(i) == Max({0, Min({lots[i].left, n - SharesIn(lots, (i + 1)..Len(lots))})})
  IN  [i \in DOMAIN lots |-> [lots[i] EXCEPT !.left = @ - taken(i)]]

LotOf(t, before) ==
  [bought |-> t.quantity, charged |-> t.total, before |-> before, left |-> t.quantity]

\* One trade of the replay; broken if it sells more than its holder bought.
ReplayTrade(r, t) ==
  LET h == <<t.user, t.outcome>>
      lots == r.lots[h]
  IN  [q |-> [r.q EXCEPT ![t.outcome] = @ + Signed(t.side, t.quantity)],
       lots |-> [r.lots EXCEPT ![h] =
         IF t.side = "buy" THEN Append(lots, LotOf(t, r.q)) ELSE SellNewestFirst(lots, t.quantity)],
       oversold |-> r.oversold \/ (t.side = "sell" /\ t.quantity > SharesIn(lots, DOMAIN lots))]

NoShares == [o \in Outcomes |-> 0]

NoLots == [q |-> NoShares, lots |-> [h \in Holders |-> <<>>], oversold |-> FALSE]

\* lot_replay_of
ReplayOf(trades) ==
  LET after[n \in 0..Len(trades)] ==
        IF n = 0 THEN NoLots ELSE ReplayTrade(after[n - 1], trades[n])
  IN  after[Len(trades)]

Replay == ReplayOf(feed)

\* An untouched lot is owed its charge; what is left of another, the price of
\* its bottom shares sold back where they were bought.
RefundOfLot(lot, o) ==
  IF lot.left = lot.bought THEN lot.charged
  ELSE Price(o, "sell", lot.left, lot.before[0] - lot.before[1] + Lead(o, lot.left))

SharesLeft(replay, h) == SharesIn(replay.lots[h], DOMAIN replay.lots[h])

LotsLeft(replay) == {h \in Holders : SharesLeft(replay, h) > 0}

RefundsOf(lots, o) == SumFunction([i \in DOMAIN lots |-> RefundOfLot(lots[i], o)])

Owed(replay) == [h \in LotsLeft(replay) |-> RefundsOf(replay.lots[h], h[2])]

Traders == {feed[i].user : i \in DOMAIN feed}

\* refuse_if_replay_disagrees
ReplayAgrees ==
  LET replay == Replay
  IN  /\ ~replay.oversold
      /\ replay.q = q
      /\ \A i \in DOMAIN feed : feed[i].version = i
      /\ \A h \in Holders : SharesLeft(replay, h) = positions[h[1]][h[2]].quantity

----------------------------------------------------------------------------
(* The cut *)

IsShortBeyondOneSeed(owed, inPool) == owed - inPool > Seed

\* Mutation: a cut refund is rounded up.
CutUp(refund, owed, inPool) == -((-(refund * (inPool + Seed))) \div owed)

\* Multiplied first, divided second, floored.
CutTo(refund, owed, inPool) == (refund * (inPool + Seed)) \div owed

\* cut_of: refunds that come to nothing are left out, and the pool ends empty.
CutOf(owed, inPool) ==
  LET all == SumFunction(owed)
      short == IsShortBeyondOneSeed(all, inPool)
      pays(h) == IF short THEN CutTo(owed[h], all, inPool) ELSE owed[h]
      refunds == [h \in {h \in DOMAIN owed : pays(h) > 0} |-> pays(h)]
  IN  [refunds |-> refunds, owed |-> all, cut |-> short,
       refunded |-> SumFunction(refunds), residue |-> inPool - SumFunction(refunds)]

----------------------------------------------------------------------------
(* Reads *)

\* liquidation_values_of: outcome 0's holding is sold first, 1's after it.
Value(u, o) ==
  LET d == q[0] - q[1]
      first == positions[u][0].quantity
      sold == first > 0 /\ Price(0, "sell", first, d) > 0
      n == positions[u][o].quantity
  IN  IF n = 0 THEN 0
      ELSE Price(o, "sell", n, IF o = 1 /\ sold THEN AfterFill(0, "sell", first, d) ELSE d)

\* Mutation: only a settled market's positions are left out.
ValuedWhenVoided(u) ==
  IF record # NoResult /\ record.kind = "settled" THEN 0 ELSE Value(u, 0) + Value(u, 1)

\* valuation_of: a market with a result is not valued, whatever its kind.
PositionsValue(u) == IF record # NoResult THEN 0 ELSE Value(u, 0) + Value(u, 1)
NetWorth(u) == balance[u] + PositionsValue(u)

OpenCostBasis(u) ==
  IF record # NoResult THEN 0 ELSE positions[u][0].basis + positions[u][1].basis

\* profit_and_loss_of
Realized(u) == balance[u] - Grant + OpenCostBasis(u)

\* market_exposure_of: what settling on o would take and leave.
ExposureTo(o) == [payout |-> Share * q[o], residue |-> balance["pool"] - Share * q[o]]

\* What payments come to.
Amounts(paid) == SumFunction([p \in paid |-> p.amount])

\* _settled_positions_of: what the portfolio shows a holder was paid.
PaidFor(u, o) == Amounts({p \in payments : p.user = u /\ p.outcome = o})

----------------------------------------------------------------------------
(* What moves *)

Open == row["book"] # NoOne

NoPosition == [quantity |-> 0, basis |-> 0]

Init ==
  /\ InitOpening
  /\ feed = <<>> /\ q = NoShares
  /\ positions = [u \in Users |-> [o \in Outcomes |-> NoPosition]]
  /\ granted = {} /\ balance = [a \in Owners |-> 0]
  /\ record = NoResult /\ payments = {} /\ residue = 0 /\ told = NoResult
  /\ banked = [u \in Users |-> 0]

\* The first touches, and the funding each commit posts.
OpeningStep ==
  /\ OpeningNext
  /\ balance' = [balance EXCEPT !["pool"] = @ + Seed * Cardinality(fundings' \ fundings),
                                !["platform"] = @ - Seed * Cardinality(fundings' \ fundings)]
  /\ UNCHANGED <<feed, q, positions, granted, ended, banked>>

\* Every request of a market that has one goes on from ensure_open.  Bound:
\* the first touches still running are let end first; all that is left for
\* them is to read the book they find.
Quiet == Open /\ \A s \in Openers : IsIdle(s)

\* grants.ensure_granted, on a user's first read or trade.
FirstRead(u) ==
  /\ Quiet /\ u \notin granted
  /\ granted' = granted \cup {u}
  /\ balance' = [balance EXCEPT ![u] = Grant, !["platform"] = @ - Grant]
  /\ UNCHANGED <<opening, feed, q, positions, ended, banked>>

\* release_basis: the rest of what is kept, which is rounded half up.
Released(p, n) ==
  p.basis - (2 * p.basis * (p.quantity - n) + p.quantity) \div (2 * p.quantity)

\* _position_after
PositionAfter(p, t) ==
  IF t.side = "buy" THEN [quantity |-> p.quantity + t.quantity, basis |-> p.basis + t.total]
  ELSE [quantity |-> p.quantity - t.quantity,
        basis |-> IF t.quantity = p.quantity THEN 0 ELSE p.basis - Released(p, t.quantity)]

\* A trade commits (trading.execute): priced, covered, and written as one.
Trade(r) ==
  LET t == [user |-> r.user, outcome |-> r.outcome, side |-> r.side, quantity |-> r.quantity,
            total |-> Price(r.outcome, r.side, r.quantity, q[0] - q[1]),
            version |-> Len(feed) + 1]
      p == positions[r.user][r.outcome]
      cash == -Signed(r.side, t.total)
  IN  /\ Quiet /\ record = NoResult /\ Len(feed) < MaxTrades
      /\ r.user \in granted
      /\ r.side = "sell" => r.quantity <= p.quantity
      /\ t.total > 0 /\ balance[r.user] + cash >= 0
      /\ feed' = Append(feed, t)
      /\ q' = [q EXCEPT ![r.outcome] = @ + Signed(r.side, r.quantity)]
      /\ positions' = [positions EXCEPT ![r.user][r.outcome] = PositionAfter(p, t)]
      /\ balance' = [balance EXCEPT ![r.user] = @ + cash, !["pool"] = @ - cash]
      /\ banked' = [banked EXCEPT ![r.user] =
           @ + IF r.side = "buy" THEN 0 ELSE t.total - (p.basis - PositionAfter(p, t).basis)]
      /\ UNCHANGED <<opening, granted, ended>>

\* What both endings post: the payments, then whatever the pool has left to
\* PLATFORM, or what it lacks from it; the holdings close.
PayAndEmpty(paid) ==
  LET left == balance["pool"] - Amounts(paid)
  IN  /\ payments' = paid
      /\ residue' = left
      /\ balance' = [a \in Owners |->
           CASE a = "pool" -> balance[a] - Amounts(paid) - left
             [] a = "platform" -> balance[a] + left
             [] OTHER -> balance[a] + Amounts({p \in paid : p.user = a})]
      /\ banked' = [u \in Users |->
           banked[u] + Amounts({p \in paid : p.user = u}) - OpenCostBasis(u)]
      /\ UNCHANGED <<opening, feed, q, positions, granted>>

\* pool_totals_of: the payments' legs on the pool.
Taken == Amounts(payments)

\* settlement._replay: from the record and the pool's entries.
ReplayedSettlement ==
  [winner |-> record.winner, holders |-> Cardinality(payments), paid |-> Taken, residue |-> residue]

\* settlement.pay_out, on the outcome that was approved.
PayOut(w) ==
  LET holders == {u \in Users : positions[u][w].quantity > 0}
      paid == {[user |-> u, outcome |-> w, amount |-> Share * positions[u][w].quantity] : u \in holders}
  IN  /\ Quiet /\ record = NoResult
      /\ record' = [kind |-> "settled", winner |-> w]
      /\ told' = [winner |-> w, holders |-> Cardinality(holders),
                  paid |-> ExposureTo(w).payout, residue |-> ExposureTo(w).residue]
      /\ PayAndEmpty(paid)

\* Mutation: the repeat reads the pool's balance, which the void has emptied.
PoolNow == balance["pool"]

\* What the pool held is what the refunds and the residue took out of it.
PoolBefore == Taken + residue

\* voiding._repeat: the figures no entry records come from the replay again.
RepeatedVoid ==
  LET cut == CutOf(Owed(Replay), PoolBefore)
  IN  [positions |-> Cardinality(payments), owed |-> cut.owed, refunded |-> Taken,
       cut |-> cut.cut, residue |-> residue]

\* _refuse_if_staked: a position since sold to nothing is a stake too.
HasStake(by) == by \in Traders

\* voiding.void_market; the guard's disagreement is a bug, and writes nothing.
Void(by) ==
  LET cut == CutOf(Owed(Replay), balance["pool"])
  IN  /\ Quiet /\ record = NoResult
      /\ ReplayAgrees /\ ~HasStake(by)
      /\ record' = [kind |-> "voided", by |-> by]
      /\ told' = [positions |-> Cardinality(DOMAIN cut.refunds), owed |-> cut.owed,
                  refunded |-> cut.refunded, cut |-> cut.cut, residue |-> cut.residue]
      /\ PayAndEmpty({[user |-> h[1], outcome |-> h[2], amount |-> cut.refunds[h]] :
                        h \in DOMAIN cut.refunds})

Next ==
  \/ OpeningStep
  \/ \E u \in Users : FirstRead(u)
  \/ \E r \in Trades : Trade(r)
  \/ \E w \in Outcomes : PayOut(w)
  \/ \E by \in Users \cup {Admin} : Void(by)

Spec == Init /\ [][Next]_vars

----------------------------------------------------------------------------
(* What must stay true of the money *)

Voided == record # NoResult /\ record.kind = "voided"

\* The void's guard never fires, and its batch is never empty, since a market's
\* pool holds at least its seed until it ends (ADR 0025, "The guard", "The
\* batch is never empty"); afterwards the pool is empty, nobody was refunded
\* more than they are owed, or less unless refunds were cut, and PLATFORM has
\* put in two seeds at most.
VoidClears ==
  /\ Open /\ record = NoResult => ReplayAgrees /\ balance["pool"] >= Seed
  /\ record # NoResult => balance["pool"] = 0
  /\ Voided =>
       LET owed == Owed(Replay)
       IN  /\ \A h \in Holders : PaidFor(h[1], h[2]) <= (IF h \in DOMAIN owed THEN owed[h] ELSE 0)
           /\ ~told.cut => \A h \in DOMAIN owed : PaidFor(h[1], h[2]) = owed[h]
           /\ balance["platform"] + Grant * Cardinality(granted) >= -2 * Seed

\* Nobody who traded alone comes out of a void with more than they went in
\* with, for all they bought and sold (ADR 0025: sales come off the newest
\* lot, "One trader alone can farm a void" otherwise).
AloneNeverProfits ==
  Voided => \A u \in granted : Traders = {u} => balance[u] <= Grant

\* A repeat of an ending tells what its first answer told, though it is worked
\* out again from the entries (_result_of: "so the two cannot drift").
RepeatsTellTheSame ==
  record # NoResult => told = IF Voided THEN RepeatedVoid ELSE ReplayedSettlement

\* The portfolio's figures add up: realised profit, read off the balance and
\* the open cost, is what each user banked sale by sale and at the end
\* (profit_and_loss_of: "Neither term is stored"); no cost outlives its shares;
\* and what positions are worth is never more than the pool has over its seed,
\* so that a payout is not counted again beside the balance it is in.
StatementsAddUp ==
  \A u \in granted :
    /\ Realized(u) = banked[u]
    /\ \A o \in Outcomes :
         /\ positions[u][o].basis >= 0
         /\ positions[u][o].quantity = 0 => positions[u][o].basis = 0
    /\ NetWorth(u) - balance[u] <= Max({0, balance["pool"] - Seed})

=============================================================================
