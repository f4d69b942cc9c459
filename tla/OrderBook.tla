----------------------------- MODULE OrderBook -----------------------------
(***************************************************************************)
(* One binary market's book: trades, limit orders, the cascade and the      *)
(* settlement latch (trading.execute, orders.place, cancellation.cancel,    *)
(* settlement.pay_out).                                                     *)
(*                                                                          *)
(* A request runs its unlocked steps one at a time, each reading what is    *)
(* committed at that moment: the replay lookup, the account check at auth,  *)
(* the gate at market_service.  Everything it does after that is under the  *)
(* book row's lock and commits once, so it is one action; module Posting    *)
(* takes that commit apart.  A client may ask for the same thing any number *)
(* of times, at once or after a lost answer.                                *)
(*                                                                          *)
(* Limit prices are in grains, as module Pricing's costs are.              *)
(***************************************************************************)
EXTENDS Pricing, Sequences, FiniteSetsExt, Functions

CONSTANTS
  Sessions, Users,
  Keys,       \* client idempotency keys: each names one trade or one order
  Requests,   \* what clients ask for
  Reach,      \* limit price in grains |-> b ln(p / (1 - p)) in Units of a share
  Unit,
  Grant,      \* ticks every user starts with
  Subsidy,    \* ticks the pool starts with
  Swings,     \* what another market may do to a balance at one time
  MaxSwings,  \* bound: how many times another market does
  NoKey, NoRequest, NoResult

Request == [kind: {"trade", "order"}, key: Keys, user: Users, outcome: Outcomes,
            side: Sides, quantity: Nat \ {0}, limit: Nat]

ASSUME RequestsAssumption ==
  /\ Requests \subseteq Request
  /\ NoRequest \notin Requests /\ NoKey \notin Keys /\ NoResult \notin Outcomes
  /\ \A r \in Requests : r.kind = "order" => r.limit \in DOMAIN Reach
ASSUME UsersAssumption ==
  IsFiniteSet(Users) /\ Grant \in Nat /\ Subsidy \in Int /\ Swings \subseteq Int /\ MaxSwings \in Nat
\* The log-odds of a price: one side of the market's limits and the other's
\* are on the line in the order of their prices.
ASSUME ReachAssumption ==
  /\ Unit \in Nat \ {0} /\ DOMAIN Reach \subseteq 1..(Share * Grain - 1)
  /\ \A p1, p2 \in DOMAIN Reach :
       /\ Reach[p1] \in Int
       /\ p1 <= p2 => Reach[p1] <= Reach[p2]
       /\ p1 + p2 < Share * Grain => Reach[p1] + Reach[p2] <= 0
       /\ p1 + p2 > Share * Grain => Reach[p1] + Reach[p2] >= 0

VARIABLES
  q,          \* outcome -> shares outstanding
  version,    \* market_books.state_version
  pool,       \* the pool account's balance
  held,       \* user -> outcome -> position quantity
  funds,      \* user -> balance
  orders,     \* the order rows
  posted,     \* the trade and fill transactions
  result,     \* the latch: NoResult, or the outcome that was paid out
  gate,       \* market_service's status, as the gate reads it
  swings,     \* how often another market has moved a balance
  pc, req,    \* each session's next step and request
  quote,      \* the version and total its client last previewed
  alarm       \* the last answer was the 500 ADR 0024 calls impossible

book   == <<q, version, pool, held, funds, orders, posted, result>>
world  == <<gate, swings>>
client == <<pc, req, quote>>
vars   == <<book, world, client, alarm>>

----------------------------------------------------------------------------
(* Limit orders *)

IsUpPusher(o, side) == (o = 0) = (side = "buy")

\* The limit as outcome 0's price.
Threshold(o, limit) == IF o = 0 THEN limit ELSE Share * Grain - limit

Remaining(o) == o.quantity - o.filled

\* Shares that move the order's own price to its limit, floored.
FillQuantity(o, d) ==
  LET toLimit == (Signed(o.side, Reach[o.limit] - Unit * Lead(o.outcome, d))) \div Unit
  IN  IF toLimit <= 0 THEN 0 ELSE Min({toLimit, Remaining(o)})

WithinLimit(o, n, total) ==
  /\ total > 0
  /\ IF o.side = "buy" THEN Grain * total <= o.limit * n ELSE Grain * total >= o.limit * n

\* executable_fill_of finds a fill: it does not floor to no shares, price to
\* nothing or break the limit.
Executable(o, d) ==
  LET n == FillQuantity(o, d)
  IN  n > 0 /\ WithinLimit(o, n, Price(o.outcome, o.side, n, d))

\* Most aggressive first, then lowest seq; price-raising orders first.
Precedes(a, b) ==
  LET up == IsUpPusher(a.outcome, a.side)
      ta == Threshold(a.outcome, a.limit)
      tb == Threshold(b.outcome, b.limit)
  IN  IF up # IsUpPusher(b.outcome, b.side) THEN up
      ELSE IF ta # tb THEN (IF up THEN ta > tb ELSE ta < tb)
      ELSE a.seq < b.seq

MoveOf(user, o, side, n, d, key) ==
  [user |-> user, outcome |-> o, side |-> side, quantity |-> n,
   total |-> Price(o, side, n, d), order |-> key]

Open == {o \in orders : o.status = "open"}

Foremost(W) == CHOOSE x \in W : \A y \in W \ {x} : Precedes(x, y)

FillOf(o, d) == MoveOf(o.owner, o.outcome, o.side, FillQuantity(o, d), d, o.key)

\* The lead an order's fill leaves.
LeadAfter(o, d) == AfterFill(o.outcome, o.side, FillQuantity(o, d), d)

\* Mutation: the first order waiting decides; one that cannot fill stops the
\* rest.
CascadeStops(d) ==
  LET fills[W \in SUBSET Open] == [e \in DOMAIN LogCost |->
        LET o == Foremost(W)
        IN  IF W = {} \/ ~Executable(o, e) THEN <<>>
            ELSE <<FillOf(o, e)>> \o fills[W \ {o}][LeadAfter(o, e)]]
  IN  fills[Open][d]

\* cascade_of: the first executable order in priority fills, against the q the
\* fill before it left, until none is; no order fills twice.
Cascade(d) ==
  LET fills[W \in SUBSET Open] == [e \in DOMAIN LogCost |->
        LET can == {o \in W : Executable(o, e)}
            o   == Foremost(can)
        IN  IF can = {} THEN <<>>
            ELSE <<FillOf(o, e)>> \o fills[W \ {o}][LeadAfter(o, e)]]
  IN  fills[Open][d]

\* refuse_if_crosses_book
Crosses(r) ==
  \E o \in Open :
    LET up == IsUpPusher(r.outcome, r.side)
    IN  /\ IsUpPusher(o.outcome, o.side) # up
        /\ IF up THEN Threshold(r.outcome, r.limit) >= Threshold(o.outcome, o.limit)
                 ELSE Threshold(r.outcome, r.limit) <= Threshold(o.outcome, o.limit)

----------------------------------------------------------------------------
(* Reservations *)

Live(o) == o.status = "open" /\ result = NoResult

\* What an order holds of a user's money, and of a user's shares.
FundsFor(o, u) ==
  IF Live(o) /\ o.owner = u /\ o.side = "buy" THEN o.budget - o.spent ELSE 0

SharesFor(o, u, c) ==
  IF Live(o) /\ o.owner = u /\ o.side = "sell" /\ o.outcome = c THEN Remaining(o) ELSE 0

ReservedFunds(u) == SumFunctionOnSet([o \in orders |-> FundsFor(o, u)], orders)

ReservedShares(u, c) == SumFunctionOnSet([o \in orders |-> SharesFor(o, u, c)], orders)

ShortOfShares(r) ==
  /\ r.side = "sell"
  /\ r.quantity > held[r.user][r.outcome] - ReservedShares(r.user, r.outcome)

BudgetOf(r) == IF r.side = "buy" THEN Quantized("buy", r.limit * r.quantity) ELSE 0

\* Mutation: a budget is held against the whole balance.
BeyondBalance(o) == o.side = "buy" /\ o.budget > funds[o.owner]

\* refuse_if_budget_does_not_fit
DoesNotFit(o) == o.side = "buy" /\ o.budget > funds[o.owner] - ReservedFunds(o.owner)

----------------------------------------------------------------------------
(* A batch: the request's own movement first, then each fill's *)

Cash(m) == IF m.side = "buy" THEN -m.total ELSE m.total

\* The order row after a movement that fills it.
Filled(o, m) ==
  LET filled == o.filled + m.quantity
  IN  [o EXCEPT !.filled = filled, !.spent = @ + m.total,
                !.status = IF filled = o.quantity THEN "filled" ELSE "open"]

\* reservation_drop_of: the fill's cost, or all the order still held once it
\* is filled.
Drop(o, m) ==
  IF o.side = "sell" THEN 0
  ELSE IF Filled(o, m).status = "filled" THEN o.budget - o.spent ELSE m.total

\* The rows a batch fills: the open orders, and one the request brings.
DropOf(m, rows) ==
  IF m.order = NoKey THEN 0 ELSE Drop(CHOOSE o \in rows : o.key = m.order, m)

\* What one user's movements among the first i of a batch add up to.
CashBy(moves, i, u) ==
  SumFunctionOnSet([j \in DOMAIN moves |-> IF moves[j].user = u THEN Cash(moves[j]) ELSE 0], 1..i)

DropBy(moves, rows, i, u) ==
  SumFunctionOnSet([j \in DOMAIN moves |->
                      IF moves[j].user = u THEN DropOf(moves[j], rows) ELSE 0], 1..i)

\* The movements post_all refuses, 0 standing for its floor before the batch.
RefusedAt(moves, rows, budget, placer) ==
  LET before(u) == ReservedFunds(u) + (IF u = placer THEN budget ELSE 0)
  IN  {i \in 1..Len(moves) :
         /\ moves[i].side = "buy"
         /\ funds[moves[i].user] + CashBy(moves, i, moves[i].user)
              < before(moves[i].user) - DropBy(moves, rows, i, moves[i].user)}
      \cup {i \in {0} : \E j \in 1..Len(moves) :
              moves[j].side = "buy" /\ funds[moves[j].user] < before(moves[j].user)}

NoQuote == [version |-> 0, total |-> 0]

Silent == alarm' = FALSE

\* The request ends with this answer.
Say(s, what) ==
  /\ alarm' = (what = "CascadeFillRefused")
  /\ pc' = [pc EXCEPT ![s] = "idle"]
  /\ req' = [req EXCEPT ![s] = NoRequest]
  /\ quote' = [quote EXCEPT ![s] = NoQuote]

\* What the first i movements of a batch give these users of an outcome, and
\* the pool.
SharesTo(moves, i, U, o) ==
  SumFunctionOnSet([j \in DOMAIN moves |->
                      IF moves[j].user \in U /\ moves[j].outcome = o
                      THEN Signed(moves[j].side, moves[j].quantity) ELSE 0], 1..i)

PaidIn(moves, i) == SumFunctionOnSet([j \in DOMAIN moves |-> -Cash(moves[j])], 1..i)

\* Mutation: one version for the whole batch.
VersionOnce(i) == version + 1

\* write_trade bumps the counter once per movement.
VersionOf(i) == version + i

\* The commit: every movement, every row it fills, and the order it brings.
Write(r, moves, brought) ==
  LET n == Len(moves)
      N == 1..n
      key(i) == IF i = 1 /\ r.kind = "trade" THEN r.key ELSE NoKey
      rows == orders \cup brought
  IN  /\ q' = [o \in Outcomes |-> q[o] + SharesTo(moves, n, Users, o)]
      /\ held' = [u \in Users |-> [o \in Outcomes |-> held[u][o] + SharesTo(moves, n, {u}, o)]]
      /\ funds' = [u \in Users |-> funds[u] + CashBy(moves, n, u)]
      /\ pool' = pool + PaidIn(moves, n)
      /\ version' = version + n
      /\ posted' = posted \cup
           {[key |-> key(i), order |-> moves[i].order, user |-> moves[i].user,
             outcome |-> moves[i].outcome, side |-> moves[i].side,
             quantity |-> moves[i].quantity, total |-> moves[i].total,
             version |-> VersionOf(i)] : i \in N}
      /\ orders' = {IF \E i \in N : moves[i].order = o.key
                    THEN Filled(o, moves[CHOOSE i \in N : moves[i].order = o.key])
                    ELSE o : o \in rows}
      /\ UNCHANGED result

----------------------------------------------------------------------------
(* One request *)

Init ==
  /\ q = [o \in Outcomes |-> 0] /\ version = 0
  /\ pool = Subsidy
  /\ held = [u \in Users |-> [o \in Outcomes |-> 0]]
  /\ funds = [u \in Users |-> Grant]
  /\ orders = {} /\ posted = {} /\ result = NoResult
  /\ gate = "open" /\ swings = 0
  /\ pc = [s \in Sessions |-> "idle"]
  /\ req = [s \in Sessions |-> NoRequest]
  /\ quote = [s \in Sessions |-> NoQuote]
  /\ alarm = FALSE

StoredTrade(r) == {t \in posted : t.key = r.key}
StoredOrder(r) == {o \in orders : o.key = r.key}

Stored(r) == IF r.kind = "trade" THEN StoredTrade(r) # {} ELSE StoredOrder(r) # {}

\* _matches: the request names what its key already wrote.  The quoted
\* version is no part of it.
Matches(r) ==
  IF r.kind = "trade"
  THEN \E t \in StoredTrade(r) : t.outcome = r.outcome /\ t.side = r.side /\ t.quantity = r.quantity
  ELSE \E o \in StoredOrder(r) : /\ o.outcome = r.outcome /\ o.side = r.side
                                 /\ o.quantity = r.quantity /\ o.limit = r.limit

ReplayOf(r) == IF Matches(r) THEN "replayed" ELSE "IdempotencyKeyReused"

\* A client previews and asks, for the first time or again, and the unlocked
\* lookup answers with ReplayOf or misses; a miss is trusted for nothing, so a quote that
\* has aged on its way is one that ages after it.
Ask(s, r) ==
  /\ pc[s] = "idle"
  /\ IF Stored(r)
     THEN Silent /\ UNCHANGED client
     ELSE /\ req' = [req EXCEPT ![s] = r]
          /\ quote' = [quote EXCEPT ![s] =
               IF r.kind = "order" THEN NoQuote
               ELSE [version |-> version,
                     total |-> Price(r.outcome, r.side, r.quantity, q[0] - q[1])]]
          /\ pc' = [pc EXCEPT ![s] = "gate"]
          /\ Silent
  /\ UNCHANGED <<book, world>>

\* account_status.refuse_if_suspended: auth may refuse any account, or fail.
AccountRefused(s) ==
  /\ pc[s] = "gate"
  /\ Say(s, "AccountSuspended")
  /\ UNCHANGED <<book, world>>

\* market_status.ensure_trading
CheckGate(s) ==
  /\ pc[s] = "gate"
  /\ IF gate # "open"
     THEN Say(s, "MarketClosed")
     ELSE /\ pc' = [pc EXCEPT ![s] = "locked"]
          /\ Silent /\ UNCHANGED <<req, quote>>
  /\ UNCHANGED <<book, world>>

\* Mutation: the gate's answer is trusted under the lock.
NeverLatched == FALSE

\* books.find_result, any row
Latched == result # NoResult

Stale(s) == quote[s].version # version

\* What a trade or a placement is refused for under the book lock, before it
\* writes anything.
Refusal(s) ==
  LET r == req[s]
      d == q[0] - q[1]
  IN  IF Latched THEN "MarketClosed"
      ELSE IF r.kind = "trade" /\ Stale(s) THEN "QuoteStale"
      ELSE IF r.kind = "order" /\ Crosses(r) THEN "OrderCrossesBook"
      ELSE IF ShortOfShares(r) THEN "InsufficientSharesHeld"
      ELSE IF r.kind = "trade" /\ Price(r.outcome, r.side, r.quantity, d) = 0 THEN "below a tick"
      ELSE "none"

Admitted(s) == pc[s] = "locked" /\ ~Stored(req[s]) /\ Refusal(s) = "none"

\* The key again under the lock, then the refusals.
Refuse(s) ==
  /\ pc[s] = "locked"
  /\ IF Stored(req[s]) THEN Say(s, ReplayOf(req[s])) ELSE Refusal(s) # "none" /\ Say(s, Refusal(s))
  /\ UNCHANGED <<book, world>>

\* trading.execute, from the price to the commit: the trade must be
\* affordable before any resting order fills.
Trade(s) ==
  /\ Admitted(s) /\ req[s].kind = "trade"
  /\ LET r == req[s]
         d == q[0] - q[1]
         own == MoveOf(r.user, r.outcome, r.side, r.quantity, d, NoKey)
         moves == <<own>> \o Cascade(AfterFill(r.outcome, r.side, r.quantity, d))
         refused == RefusedAt(moves, orders, 0, r.user)
     IN  IF refused = {}
         THEN Write(r, moves, {}) /\ Say(s, "traded")
         ELSE /\ Say(s, IF Min(refused) = 1 THEN "InsufficientFunds" ELSE "CascadeFillRefused")
              /\ UNCHANGED book
  /\ UNCHANGED world

OrderOf(r) ==
  [key |-> r.key, seq |-> Cardinality(orders), owner |-> r.user, outcome |-> r.outcome,
   side |-> r.side, limit |-> r.limit, quantity |-> r.quantity, filled |-> 0,
   budget |-> BudgetOf(r), spent |-> 0, status |-> "open"]

\* orders._commit_fill: the arriving order fills as far as its limit allows,
\* and the cascade runs after it without it.
PlaceAndFill(s) ==
  /\ Admitted(s) /\ req[s].kind = "order"
  /\ LET r == req[s]
         d == q[0] - q[1]
         o == OrderOf(r)
         n == FillQuantity(o, d)
         own == MoveOf(r.user, r.outcome, r.side, n, d, r.key)
         moves == <<own>> \o Cascade(AfterFill(r.outcome, r.side, n, d))
         refused == RefusedAt(moves, orders \cup {o}, o.budget, r.user)
         first == Min(refused)
         ofPlacer == IF first = 0 THEN funds[r.user] < ReservedFunds(r.user) + o.budget
                                  ELSE moves[first].user = r.user
     IN  /\ Executable(o, d)
         /\ IF refused = {}
            THEN Write(r, moves, {o}) /\ Say(s, "placed")
            ELSE /\ Say(s, IF ofPlacer THEN "InsufficientFunds" ELSE "CascadeFillRefused")
                 /\ UNCHANGED book
  /\ UNCHANGED world

\* orders._rest: nothing fills; a buy's budget must fit in what is available.
PlaceAndRest(s) ==
  /\ Admitted(s) /\ req[s].kind = "order"
  /\ LET r == req[s]
         o == OrderOf(r)
     IN  /\ ~Executable(o, q[0] - q[1])
         /\ IF DoesNotFit(o)
            THEN Say(s, "InsufficientFunds") /\ UNCHANGED book
            ELSE /\ orders' = orders \cup {o}
                 /\ Say(s, "placed")
                 /\ UNCHANGED <<q, version, pool, held, funds, posted, result>>
  /\ UNCHANGED world

\* The request dies before its commit.
Abort(s) ==
  /\ pc[s] # "idle"
  /\ Say(s, "nothing")
  /\ UNCHANGED <<book, world>>

----------------------------------------------------------------------------
(* What else moves *)

\* cancellation.cancel
Cancel ==
  /\ \E o \in orders :
       /\ Live(o)
       /\ orders' = (orders \ {o}) \cup {[o EXCEPT !.status = "cancelled"]}
  /\ Silent /\ UNCHANGED <<q, version, pool, held, funds, posted, result, world, client>>

\* market_service stops trading: the clock, or an administrator.
Close ==
  /\ gate = "open"
  /\ gate' = "closed"
  /\ Silent /\ UNCHANGED <<book, swings, client>>

\* A batch in another market moves a balance; it checks the same floor.
TradeElsewhere ==
  /\ swings < MaxSwings
  /\ \E u \in Users, n \in Swings :
       /\ n < 0 => funds[u] + n >= ReservedFunds(u)
       /\ funds' = [funds EXCEPT ![u] = @ + n]
  /\ swings' = swings + 1
  /\ Silent /\ UNCHANGED <<q, version, pool, held, orders, posted, result, gate, client>>

\* settlement.pay_out: every winning share is paid, and PLATFORM takes what
\* the pool has left or makes up what it lacks.
Settle ==
  /\ gate = "closed" /\ ~Latched
  /\ \E w \in Outcomes :
       /\ result' = w
       /\ funds' = [u \in Users |-> funds[u] + Share * held[u][w]]
  /\ pool' = 0
  /\ Silent /\ UNCHANGED <<q, version, held, orders, posted, world, client>>

Step(s) ==
  \/ AccountRefused(s) \/ CheckGate(s) \/ Refuse(s) \/ Trade(s)
  \/ PlaceAndFill(s) \/ PlaceAndRest(s) \/ Abort(s)

Next ==
  \/ \E s \in Sessions : Step(s) \/ \E r \in Requests : Ask(s, r)
  \/ Cancel \/ Close \/ TradeElsewhere \/ Settle

Spec == Init /\ [][Next]_vars

----------------------------------------------------------------------------
(* What the book must keep true *)

Order == [key: Keys, seq: Nat, owner: Users, outcome: Outcomes, side: Sides,
          limit: Nat, quantity: Nat, filled: Nat, budget: Nat, spent: Nat,
          status: {"open", "filled", "cancelled"}]

\* Every variable stays within its type, and no order is filled beyond its
\* size or a buy beyond its budget (the orders table's checks).
TypeOK ==
  /\ q \in [Outcomes -> Nat] /\ version \in Nat /\ pool \in Int
  /\ held \in [Users -> [Outcomes -> Nat]] /\ funds \in [Users -> Int]
  /\ orders \subseteq Order
  /\ \A o \in orders : o.filled <= o.quantity /\ (o.side = "buy" => o.spent <= o.budget)
  /\ posted \subseteq [key: Keys \cup {NoKey}, order: Keys \cup {NoKey}, user: Users,
                       outcome: Outcomes, side: Sides, quantity: Nat, total: Nat,
                       version: Nat]
  /\ result \in Outcomes \cup {NoResult} /\ gate \in {"open", "closed"}
  /\ swings \in 0..MaxSwings
  /\ pc \in [Sessions -> {"idle", "gate", "locked"}]
  /\ req \in [Sessions -> Requests \cup {NoRequest}]
  /\ quote \in [Sessions -> [version: Nat, total: Nat]]
  /\ alarm \in BOOLEAN

\* The book adds up: the shares the AMM has outstanding are exactly those users
\* hold, no user's live sell orders promise more than they hold ("Reserved
\* shares cannot be sold twice"), and until the payout the pool has taken at
\* least what the cost function charges for them: no sequence of buys, sells
\* and fills takes a rounding profit out of it (quantize_cost, D-002, D-039).
BookAddsUp ==
  /\ TypeOK
  /\ \A o \in Outcomes :
       /\ q[o] = SumFunctionOnSet([u \in Users |-> held[u][o]], Users)
       /\ \A u \in Users : ReservedShares(u, o) <= held[u][o]
  /\ result = NoResult =>
       Grain * (pool - Subsidy) >= Share * Grain * q[1] + LogCost[q[0] - q[1]] - LogCost[0]

\* Limits are kept: an order's fills together cost no more than its limit, or
\* pay no less; none rests that its limit would let fill at the book's price,
\* as each commit's cascade leaves none (ADR 0024, write_cascade); and none
\* could fire one that pushes the price the other way (refuse_if_crosses_book).
LimitsKept ==
  /\ \A o \in orders :
       /\ IF o.side = "buy" THEN Grain * o.spent <= o.limit * o.filled
                            ELSE Grain * o.spent >= o.limit * o.filled
       /\ Live(o) => ~Executable(o, q[0] - q[1])
  /\ \A a, b \in Open : IsUpPusher(a.outcome, a.side) /\ ~IsUpPusher(b.outcome, b.side) =>
       Threshold(a.outcome, a.limit) < Threshold(b.outcome, b.limit)

\* The overdraft check never refuses a cascade's fill: whatever else its owner
\* did with their money, the order's reservation has paid for it (ADR 0024
\* calls the refusal impossible and answers it with a 500).
CascadeNeverRefused == ~alarm

\* The trades and fills carry each version from 1 to the book's once: a client
\* that follows the versions misses no change (write_trade, fill_key).
VersionsDense ==
  /\ {t.version : t \in posted} = 1..version
  /\ \A t1, t2 \in posted : t1.version = t2.version => t1 = t2

\* Nothing commits on a stale read: a trade charges exactly what its client was
\* last shown, or is refused (the strict state_version check); and once a
\* market's result is recorded nothing trades, fills or rests in it and its
\* shares stand, whenever the request passed the gate (ADR 0019).
NothingStale ==
  [][/\ \A t \in posted' \ posted : t.key # NoKey =>
          \E s \in Sessions : /\ req[s] # NoRequest /\ req'[s] = NoRequest
                              /\ req[s].key = t.key /\ quote[s].total = t.total
     /\ result # NoResult => UNCHANGED <<q, version, held, orders, posted, result>>]_vars

=============================================================================
