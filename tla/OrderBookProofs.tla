-------------------------- MODULE OrderBookProofs --------------------------
(***************************************************************************)
(* Theorems about one market's book, for any users, requests, limits, cost  *)
(* curve and number of orders.                                              *)
(*                                                                          *)
(* A cascade is a recursive function; CascadeRuns says what it comes to,    *)
(* and Batch what a commit writes: the request's own movement, then fills,  *)
(* each priced where the one before it left the price, none of an order     *)
(* twice, until no other order could fill.  Every commit is one of those    *)
(* (Committed) or one resting order (Rested).                               *)
(*                                                                          *)
(* Core is the invariant the others stand on: the rows are sound (their     *)
(* keys and sequence numbers are theirs alone, their fills within size and  *)
(* limit), a quote whose version is the book's tells the book's price, and  *)
(* the versions are dense.  Solvent adds that nobody has set aside more     *)
(* money than they have, Balanced that nobody has promised more shares than *)
(* they hold and that the pool has taken what the curve charges, Resting    *)
(* that no order left open could fill, or fill another.                     *)
(*                                                                          *)
(* EveryLead says that the curve has a cost at every lead: C(q) is defined  *)
(* for all q, of which a finite instance holds a part.                      *)
(***************************************************************************)
EXTENDS OrderBook, Sums, SequenceTheorems

----------------------------------------------------------------------------
(* Prices *)

\* The curve has a cost at every lead.
EveryLead == DOMAIN LogCost = Int

\* Grains in a share.
Scale == Share * Grain

\* Each share costs between nothing and what it can pay.
LEMMA CurveClimbs ==
  ASSUME EveryLead, NEW d \in Int, NEW n \in Nat
  PROVE  LogCost[d + n] \in Int /\ LogCost[d + n] - LogCost[d] \in 0 .. Scale * n /\ Scale * n \in Int
<1> DEFINE T == {k \in Nat : LogCost[d + k] - LogCost[d] \in 0 .. Scale * k}
<1>1. Scale \in Nat
  BY ScaleAssumption DEF Scale
<1>2. \A e \in Int : LogCost[e] \in Int /\ LogCost[e + 1] - LogCost[e] \in 0 .. Scale
  BY LogCostAssumption DEF EveryLead, Scale
<1>3. 0 \in T
  <2>1. d + 0 = d /\ Scale * 0 = 0
    BY <1>1
  <2> QED BY <1>2, <2>1
<1>4. ASSUME NEW k \in T PROVE k + 1 \in T
  <2>1. k \in Nat /\ d + k \in Int /\ d + (k + 1) = (d + k) + 1 /\ Scale * (k + 1) = Scale * k + Scale
          /\ Scale * k \in Int
    BY <1>1, Distributes
  <2>2. LogCost[d + (k + 1)] - LogCost[d + k] \in 0 .. Scale /\ LogCost[d + k] \in Int
        /\ LogCost[d + (k + 1)] \in Int /\ LogCost[d] \in Int
    BY <1>2, <2>1
  <2>3. LogCost[d + k] - LogCost[d] \in 0 .. Scale * k
    OBVIOUS
  <2>4. LogCost[d + (k + 1)] - LogCost[d] \in 0 .. Scale * (k + 1)
    <3> DEFINE x == LogCost[d + (k + 1)]  y == LogCost[d + k]  z == LogCost[d]  v == Scale * k
    <3> HIDE DEF x, y, z, v
    <3>1. x \in Int /\ y \in Int /\ z \in Int /\ v \in Int /\ x - y \in 0 .. Scale /\ y - z \in 0 .. v
      BY <2>1, <2>2, <2>3 DEF x, y, z, v
    <3>2. x - z \in 0 .. v + Scale
      BY <1>1, <3>1
    <3> QED BY <2>1, <3>2 DEF x, z, v
  <2> QED BY <2>1, <2>4
<1>5. n \in T
  <2> HIDE DEF T
  <2>1. \A k \in 0 .. n : k \in T
    BY <1>3, <1>4, Climbs
  <2> QED BY <2>1
<1>6. d + n \in Int /\ Scale * n \in Int
  BY <1>1, Distributes
<1> QED BY <1>2, <1>5, <1>6

\* What a movement of n shares takes the AMM's cost up by, a sell's down by.
LEMMA CostSigned ==
  ASSUME EveryLead, NEW o \in Outcomes, NEW side \in Sides, NEW n \in Nat, NEW d \in Int
  PROVE  /\ CostOf(o, Signed(side, n), d) \in Int
         /\ side = "buy" => CostOf(o, Signed(side, n), d) >= 0
         /\ side = "sell" => CostOf(o, Signed(side, n), d) <= 0
<1>1. /\ d - n \in Int /\ (d - n) + n = d
      /\ LogCost[d + n] \in Int /\ LogCost[d + n] - LogCost[d] \in 0 .. Scale * n /\ Scale * n \in Int
      /\ LogCost[d] - LogCost[d - n] \in 0 .. Scale * n
  <2>1. d - n \in Int /\ (d - n) + n = d
    OBVIOUS
  <2>2. LogCost[(d - n) + n] - LogCost[d - n] \in 0 .. Scale * n
    BY <2>1, CurveClimbs
  <2> QED BY <2>1, <2>2, CurveClimbs
<1>2. LogCost[d] \in Int /\ LogCost[d - n] \in Int
  BY <1>1, LogCostAssumption DEF EveryLead
<1>3. d + (-n) = d - n /\ d - (-n) = d + n /\ Scale * (-n) = -(Scale * n) /\ Scale \in Nat
  BY ScaleAssumption DEF Scale
<1>4. ASSUME side = "buy"
      PROVE CostOf(o, Signed(side, n), d) \in Int /\ CostOf(o, Signed(side, n), d) >= 0
  <2>1. CostOf(o, Signed(side, n), d)
        = IF o = 0 THEN LogCost[d + n] - LogCost[d] ELSE Scale * n + LogCost[d - n] - LogCost[d]
    BY <1>4 DEF CostOf, Signed, Scale
  <2> QED BY <1>1, <1>2, <2>1
<1>5. ASSUME side = "sell"
      PROVE CostOf(o, Signed(side, n), d) \in Int /\ CostOf(o, Signed(side, n), d) <= 0
  <2>1. CostOf(o, Signed(side, n), d)
        = IF o = 0 THEN LogCost[d - n] - LogCost[d] ELSE -(Scale * n) + LogCost[d + n] - LogCost[d]
    <3>1. Signed(side, n) = -n
      BY <1>5 DEF Signed
    <3> QED BY <1>3, <3>1 DEF CostOf, Scale
  <2> QED BY <1>1, <1>2, <2>1
<1> QED BY <1>4, <1>5 DEF Sides

\* A price is never below the cost it is charged for, nor above the proceeds.
LEMMA PriceCovers ==
  ASSUME EveryLead, NEW o \in Outcomes, NEW side \in Sides, NEW n \in Nat, NEW d \in Int
  PROVE  /\ Price(o, side, n, d) \in Nat
         /\ side = "buy" => Grain * Price(o, side, n, d) >= CostOf(o, Signed(side, n), d)
         /\ side = "sell" => Grain * Price(o, side, n, d) <= -CostOf(o, Signed(side, n), d)
<1> DEFINE raw == CostOf(o, Signed(side, n), d)
<1>1. raw \in Int /\ (side = "buy" => raw >= 0) /\ (side = "sell" => raw <= 0)
  BY CostSigned
<1>2. Price(o, side, n, d) = Quantized(side, IF raw < 0 THEN -raw ELSE raw)
  BY DEF Price
<1> HIDE DEF raw
<1>3. Grain \in Nat \ {0}
  BY ScaleAssumption
<1>4. CASE side = "buy"
  <2>1. Price(o, side, n, d) = -((-raw) \div Grain)
    BY <1>1, <1>2, <1>4 DEF Quantized
  <2>2. -raw \in Int
    BY <1>1
  <2>3. (-raw) \div Grain \in Int /\ Grain * ((-raw) \div Grain) <= -raw
          /\ -raw < Grain * ((-raw) \div Grain) + Grain
    BY <1>3, <2>2, DivTells
  <2> QED BY <1>1, <1>3, <1>4, <2>1, <2>3 DEF raw
<1>5. CASE side = "sell"
  <2>1. Price(o, side, n, d) = (-raw) \div Grain
    BY <1>1, <1>2, <1>5 DEF Quantized
  <2>2. -raw \in Int
    BY <1>1
  <2>3. (-raw) \div Grain \in Int /\ Grain * ((-raw) \div Grain) <= -raw
          /\ -raw < Grain * ((-raw) \div Grain) + Grain
    BY <1>3, <2>2, DivTells
  <2> QED BY <1>1, <1>3, <1>5, <2>1, <2>3 DEF raw
<1> QED BY <1>4, <1>5 DEF Sides

\* The cost function, in grains.
CostAt(a, b) == Scale * b + LogCost[a - b]

\* What a movement costs is what it moves the cost function by (C(q + delta) -
\* C(q)).
LEMMA CostMoves ==
  ASSUME EveryLead, NEW o \in Outcomes, NEW n \in Int, NEW a \in Int, NEW b \in Int
  PROVE  /\ CostAt(a, b) \in Int
         /\ CostOf(o, n, a - b) = IF o = 0 THEN CostAt(a + n, b) - CostAt(a, b)
                                           ELSE CostAt(a, b + n) - CostAt(a, b)
<1>1. Scale \in Nat /\ Scale * b \in Int /\ Scale * (b + n) = Scale * b + Scale * n /\ Scale * n \in Int
  BY ScaleAssumption DEF Scale
<1>2. (a + n) - b = (a - b) + n /\ a - (b + n) = (a - b) - n
  OBVIOUS
<1>3. \A d \in Int : LogCost[d] \in Int
  BY LogCostAssumption DEF EveryLead
<1>4. LogCost[a - b] \in Int /\ LogCost[(a - b) + n] \in Int /\ LogCost[(a - b) - n] \in Int
  BY <1>3
<1>5. CostOf(o, n, a - b) = IF o = 0 THEN LogCost[(a - b) + n] - LogCost[a - b]
                            ELSE Scale * n + LogCost[(a - b) - n] - LogCost[a - b]
  BY DEF CostOf, Scale
<1>6. /\ CostAt(a + n, b) = Scale * b + LogCost[(a - b) + n]
      /\ CostAt(a, b + n) = Scale * b + Scale * n + LogCost[(a - b) - n]
      /\ CostAt(a, b) = Scale * b + LogCost[a - b]
  BY <1>1, <1>2 DEF CostAt
<1> HIDE DEF Scale
<1> QED BY <1>1, <1>4, <1>5, <1>6

----------------------------------------------------------------------------
(* Rows *)

LEMMA MinOfTwo ==
  ASSUME NEW a \in Int, NEW b \in Int
  PROVE  Min({a, b}) = IF a <= b THEN a ELSE b
<1> DEFINE m == IF a <= b THEN a ELSE b
<1>1. m \in {a, b} /\ \A y \in {a, b} : m <= y
  OBVIOUS
<1>2. \A x \in {a, b} : (\A y \in {a, b} : x <= y) => x = m
  OBVIOUS
<1>3. Min({a, b}) \in {a, b} /\ \A y \in {a, b} : Min({a, b}) <= y
  <2> DEFINE P(x) == x \in {a, b} /\ \A y \in {a, b} : x <= y
  <2>1. P(m)
    BY <1>1
  <2>2. Min({a, b}) = CHOOSE x : P(x)
    BY Zenon DEF Min
  <2> HIDE DEF P
  <2>3. P(Min({a, b}))
    BY <2>1, <2>2
  <2> QED BY <2>3 DEF P
<1> QED BY <1>2, <1>3

\* A row as the orders table keeps it: never filled past its size, open only
\* while something of it is left, holding a budget its limit pays for, and its
\* fills together no worse than that limit.
RowSound(o) ==
  /\ o \in Order /\ o.quantity > 0 /\ o.limit \in DOMAIN Reach
  /\ o.filled <= o.quantity /\ (o.status = "open" => o.filled < o.quantity)
  /\ o.budget = (IF o.side = "buy" THEN Quantized("buy", o.limit * o.quantity) ELSE 0)
  /\ o.side = "buy" => Grain * o.spent <= o.limit * o.filled
  /\ o.side = "sell" => Grain * o.spent >= o.limit * o.filled

\* The shares that take the order's price to its limit, below none once it is
\* past it.
ToLimit(o, d) == (Signed(o.side, Reach[o.limit] - Unit * Lead(o.outcome, d))) \div Unit

\* The distance to a limit, and its floor in whole shares.
LEMMA LimitDistance ==
  ASSUME NEW o, RowSound(o), NEW d \in Int
  PROVE  /\ Reach[o.limit] \in Int /\ Lead(o.outcome, d) \in Int
         /\ Unit * Lead(o.outcome, d) \in Int
         /\ Signed(o.side, Reach[o.limit] - Unit * Lead(o.outcome, d)) \in Int
         /\ ToLimit(o, d) \in Int /\ Unit * ToLimit(o, d) \in Int
         /\ Unit * ToLimit(o, d) <= Signed(o.side, Reach[o.limit] - Unit * Lead(o.outcome, d))
         /\ Signed(o.side, Reach[o.limit] - Unit * Lead(o.outcome, d)) < Unit * ToLimit(o, d) + Unit
<1>1. Unit \in Nat \ {0} /\ Reach[o.limit] \in Int
  BY ReachAssumption DEF RowSound
<1>2. Lead(o.outcome, d) \in Int
  BY DEF Lead
<1>3. Unit * Lead(o.outcome, d) \in Int
  BY <1>1, <1>2, Distributes
<1>4. Signed(o.side, Reach[o.limit] - Unit * Lead(o.outcome, d)) \in Int
  BY <1>1, <1>3 DEF Signed
<1> DEFINE n == Signed(o.side, Reach[o.limit] - Unit * Lead(o.outcome, d))
<1>5. n \div Unit \in Int /\ Unit * (n \div Unit) <= n /\ n < Unit * (n \div Unit) + Unit
  <2> HIDE DEF n
  <2> QED BY <1>1, <1>4, DivTells DEF n
<1>6. ToLimit(o, d) = n \div Unit
  BY DEF ToLimit
<1> HIDE DEF n
<1>7. Unit * ToLimit(o, d) \in Int
  BY <1>1, <1>5, <1>6
<1> QED BY <1>1, <1>2, <1>3, <1>4, <1>5, <1>6, <1>7 DEF n

\* A fill is of no more than its order has left, nor past its limit.
LEMMA QuantitySound ==
  ASSUME NEW o, RowSound(o), NEW d \in Int
  PROVE  /\ Remaining(o) \in Nat /\ FillQuantity(o, d) \in Nat
         /\ FillQuantity(o, d) <= Remaining(o)
         /\ FillQuantity(o, d) > 0 => FillQuantity(o, d) <= ToLimit(o, d)
         /\ FillQuantity(o, d) \in {Remaining(o), ToLimit(o, d)} \/ ToLimit(o, d) <= 0
         /\ ToLimit(o, d) <= 0 => FillQuantity(o, d) = 0
<1>1. Remaining(o) \in Nat
  <2>1. o.quantity \in Nat /\ o.filled \in Nat /\ o.filled <= o.quantity
    BY DEF RowSound, Order
  <2> QED BY <2>1 DEF Remaining
<1>2. ToLimit(o, d) \in Int
  BY LimitDistance
<1>3. FillQuantity(o, d) = IF ToLimit(o, d) <= 0 THEN 0 ELSE Min({ToLimit(o, d), Remaining(o)})
  BY DEF FillQuantity, ToLimit
<1>4. Min({ToLimit(o, d), Remaining(o)}) = IF ToLimit(o, d) <= Remaining(o) THEN ToLimit(o, d) ELSE Remaining(o)
  <2>1. Remaining(o) \in Int
    BY <1>1
  <2> QED BY <1>2, <2>1, MinOfTwo
<1> QED BY <1>1, <1>2, <1>3, <1>4

----------------------------------------------------------------------------
(* One movement *)

\* One movement of a batch.
Move == [user: Users, outcome: Outcomes, side: Sides, quantity: Nat \ {0}, total: Nat,
         order: Keys \cup {NoKey}]

\* A fill that can be made is a movement, within its order's limit.
LEMMA FillSound ==
  ASSUME EveryLead, NEW o, RowSound(o), NEW d \in Int, Executable(o, d)
  PROVE  /\ FillOf(o, d) \in Move
         /\ FillOf(o, d).user = o.owner /\ FillOf(o, d).outcome = o.outcome
         /\ FillOf(o, d).side = o.side /\ FillOf(o, d).order = o.key
         /\ FillOf(o, d).quantity = FillQuantity(o, d)
         /\ FillOf(o, d).quantity \in Nat \ {0} /\ FillOf(o, d).quantity <= Remaining(o)
         /\ FillOf(o, d).total = Price(o.outcome, o.side, FillQuantity(o, d), d)
         /\ FillOf(o, d).total \in Nat \ {0}
         /\ o.side = "buy" => Grain * FillOf(o, d).total <= o.limit * FillOf(o, d).quantity
         /\ o.side = "sell" => Grain * FillOf(o, d).total >= o.limit * FillOf(o, d).quantity
         /\ LeadAfter(o, d) = AfterFill(o.outcome, o.side, FillQuantity(o, d), d)
         /\ LeadAfter(o, d) \in Int
<1>1. o.owner \in Users /\ o.outcome \in Outcomes /\ o.side \in Sides /\ o.key \in Keys
  BY DEF RowSound, Order
<1>2. FillQuantity(o, d) \in Nat /\ FillQuantity(o, d) <= Remaining(o)
  BY QuantitySound
<1>3. FillQuantity(o, d) > 0
        /\ WithinLimit(o, FillQuantity(o, d), Price(o.outcome, o.side, FillQuantity(o, d), d))
  BY DEF Executable
<1>4. Price(o.outcome, o.side, FillQuantity(o, d), d) \in Nat
  BY <1>1, <1>2, PriceCovers
<1> DEFINE n == FillQuantity(o, d)  p == Price(o.outcome, o.side, n, d)
<1>5. FillOf(o, d) = [user |-> o.owner, outcome |-> o.outcome, side |-> o.side, quantity |-> n,
                      total |-> p, order |-> o.key]
  BY DEF FillOf, MoveOf
<1>6. LeadAfter(o, d) = d + Lead(o.outcome, Signed(o.side, n))
  BY DEF LeadAfter, AfterFill
<1>7. LeadAfter(o, d) = AfterFill(o.outcome, o.side, n, d)
  BY DEF LeadAfter
<1> HIDE DEF n, p
<1>8. LeadAfter(o, d) \in Int
  BY <1>2, <1>6 DEF Lead, Signed, n
<1>9. FillOf(o, d) \in Move
  <2>1. n \in Nat \ {0} /\ p \in Nat
    BY <1>2, <1>3, <1>4 DEF n, p
  <2> QED BY <1>1, <1>5, <2>1 DEF Move
<1>10. p > 0 /\ (o.side = "buy" => Grain * p <= o.limit * n) /\ (o.side = "sell" => Grain * p >= o.limit * n)
  BY <1>3 DEF WithinLimit, n, p
<1>11. n \in Nat \ {0} /\ n <= Remaining(o) /\ p \in Nat \ {0}
  BY <1>2, <1>3, <1>4, <1>10 DEF n, p
<1> QED BY <1>5, <1>7, <1>8, <1>9, <1>10, <1>11 DEF n, p

\* A buy's budget is worth its limit for every share of it.
LEMMA BudgetCovers ==
  ASSUME NEW l \in Nat, NEW n \in Nat
  PROVE  /\ l * n \in Nat /\ Quantized("buy", l * n) \in Nat
         /\ Grain * Quantized("buy", l * n) >= l * n
<1>1. l * n \in Nat /\ Grain \in Nat \ {0}
  BY ScaleAssumption
<1> DEFINE x == l * n  y == (-x) \div Grain
<1>2. -x \in Int
  BY <1>1
<1> HIDE DEF x
<1>3. y \in Int /\ Grain * y <= -x /\ -x < Grain * y + Grain
  BY <1>1, <1>2, DivTells
<1>4. Quantized("buy", x) = -y
  BY DEF Quantized
<1> HIDE DEF y
<1>5. Grain * (-y) = -(Grain * y)
  BY <1>1, <1>3
<1>6. Grain * 0 <= Grain * (-y)
  BY <1>1, <1>2, <1>3, <1>5 DEF x
<1>7. 0 <= -y
  <2>1. -y \in Int /\ 0 \in Int
    BY <1>3
  <2> HIDE DEF x
  <2> QED BY <1>1, <1>6, <2>1, LessByScale
<1> QED BY <1>1, <1>3, <1>4, <1>5, <1>7 DEF x

\* A buy has never spent more than its budget.
LEMMA Covered ==
  ASSUME NEW o, RowSound(o), o.side = "buy"
  PROVE  o.budget \in Nat /\ o.spent \in Nat /\ o.spent <= o.budget
<1>1. /\ o.spent \in Nat /\ o.limit \in Nat /\ o.filled \in Nat /\ o.quantity \in Nat
      /\ o.filled <= o.quantity /\ Grain * o.spent <= o.limit * o.filled
      /\ o.budget = Quantized("buy", o.limit * o.quantity)
  BY DEF RowSound, Order
<1>2. o.budget \in Nat /\ Grain * o.budget >= o.limit * o.quantity
  BY <1>1, BudgetCovers
<1>3. o.limit * o.filled <= o.limit * o.quantity /\ o.limit * o.filled \in Nat /\ o.limit * o.quantity \in Nat
  BY <1>1
<1>4. Grain \in Nat \ {0} /\ Grain * o.spent \in Int /\ Grain * o.budget \in Int
  BY <1>1, <1>2, ScaleAssumption
<1>5. Grain * o.spent <= Grain * o.budget
  BY <1>1, <1>2, <1>3, <1>4
<1>6. o.spent \in Int /\ o.budget \in Int
  BY <1>1, <1>2
<1> QED BY <1>1, <1>2, <1>4, <1>5, <1>6, LessByScale

\* What a movement asks of the row it fills.
Fits(o, m) ==
  /\ m.user = o.owner /\ m.outcome = o.outcome /\ m.side = o.side
  /\ m.quantity \in Nat \ {0} /\ m.quantity <= Remaining(o) /\ m.total \in Nat
  /\ o.side = "buy" => Grain * m.total <= o.limit * m.quantity
  /\ o.side = "sell" => Grain * m.total >= o.limit * m.quantity

LEMMA FilledFields ==
  ASSUME NEW o \in Order, NEW m
  PROVE  /\ Filled(o, m).key = o.key /\ Filled(o, m).seq = o.seq
         /\ Filled(o, m).owner = o.owner /\ Filled(o, m).outcome = o.outcome
         /\ Filled(o, m).side = o.side /\ Filled(o, m).limit = o.limit
         /\ Filled(o, m).quantity = o.quantity /\ Filled(o, m).budget = o.budget
         /\ Filled(o, m).filled = o.filled + m.quantity
         /\ Filled(o, m).spent = o.spent + m.total
         /\ Filled(o, m).status = (IF o.filled + m.quantity = o.quantity THEN "filled" ELSE "open")
<1>1. o = [key |-> o.key, seq |-> o.seq, owner |-> o.owner, outcome |-> o.outcome, side |-> o.side,
           limit |-> o.limit, quantity |-> o.quantity, filled |-> o.filled, budget |-> o.budget,
           spent |-> o.spent, status |-> o.status]
  BY DEF Order
<1> QED BY <1>1 DEF Filled

\* A fill leaves a sound row.
LEMMA FilledSound ==
  ASSUME NEW o, RowSound(o), o.status = "open", NEW m, Fits(o, m)
  PROVE  RowSound(Filled(o, m))
<1> DEFINE p == Filled(o, m)
<1>1. /\ o.key \in Keys /\ o.seq \in Nat /\ o.owner \in Users /\ o.outcome \in Outcomes
      /\ o.side \in Sides /\ o.limit \in Nat /\ o.quantity \in Nat /\ o.filled \in Nat
      /\ o.budget \in Nat /\ o.spent \in Nat /\ o.filled <= o.quantity /\ o \in Order
  BY DEF RowSound, Order
<1>2. /\ m.quantity \in Nat \ {0} /\ m.total \in Nat /\ o.filled + m.quantity <= o.quantity
  BY <1>1 DEF Fits, Remaining
<1>3. /\ p.key = o.key /\ p.seq = o.seq /\ p.owner = o.owner /\ p.outcome = o.outcome
      /\ p.side = o.side /\ p.limit = o.limit /\ p.quantity = o.quantity /\ p.budget = o.budget
      /\ p.filled = o.filled + m.quantity /\ p.spent = o.spent + m.total
      /\ p.status = (IF o.filled + m.quantity = o.quantity THEN "filled" ELSE "open")
  BY <1>1, FilledFields
<1>4. p \in Order
  <2>1. o.filled + m.quantity \in Nat /\ o.spent + m.total \in Nat
        /\ (IF o.filled + m.quantity = o.quantity THEN "filled" ELSE "open") \in {"open", "filled", "cancelled"}
    BY <1>1, <1>2
  <2>2. p = [o EXCEPT !.filled = o.filled + m.quantity, !.spent = @ + m.total,
               !.status = IF o.filled + m.quantity = o.quantity THEN "filled" ELSE "open"]
    BY DEF Filled
  <2> HIDE DEF p
  <2> QED BY <1>1, <2>1, <2>2 DEF Order
<1> HIDE DEF p
<1>5. /\ Grain * p.spent = Grain * o.spent + Grain * m.total
      /\ p.limit * p.filled = o.limit * o.filled + o.limit * m.quantity
      /\ Grain * o.spent \in Int /\ Grain * m.total \in Int
      /\ o.limit * o.filled \in Int /\ o.limit * m.quantity \in Int
  <2>1. Grain \in Int /\ o.spent \in Int /\ m.total \in Int
    BY <1>1, <1>2, ScaleAssumption
  <2>2. o.limit \in Int /\ o.filled \in Int /\ m.quantity \in Int
    BY <1>1, <1>2
  <2> QED BY <1>3, <2>1, <2>2, Distributes
<1>6. /\ p.side = "buy" => Grain * p.spent <= p.limit * p.filled
      /\ p.side = "sell" => Grain * p.spent >= p.limit * p.filled
  <2>1. /\ o.side = "buy" => Grain * o.spent <= o.limit * o.filled /\ Grain * m.total <= o.limit * m.quantity
        /\ o.side = "sell" => Grain * o.spent >= o.limit * o.filled /\ Grain * m.total >= o.limit * m.quantity
    BY DEF RowSound, Fits
  <2> QED BY <1>3, <1>5, <2>1
<1>7. /\ p.filled <= p.quantity /\ (p.status = "open" => p.filled < p.quantity)
      /\ p.quantity > 0 /\ p.limit \in DOMAIN Reach
      /\ p.budget = (IF p.side = "buy" THEN Quantized("buy", p.limit * p.quantity) ELSE 0)
  <2>1. o.quantity > 0 /\ o.limit \in DOMAIN Reach
        /\ o.budget = (IF o.side = "buy" THEN Quantized("buy", o.limit * o.quantity) ELSE 0)
    BY DEF RowSound
  <2> QED BY <1>1, <1>2, <1>3, <2>1
<1> QED BY <1>4, <1>6, <1>7 DEF RowSound, p

\* What an order still holds of its owner's money.
Left(o) == IF o.status = "open" /\ o.side = "buy" THEN o.budget - o.spent ELSE 0

\* A fill lets go of exactly what the order held for it, and costs its owner no
\* more than that.
LEMMA DropSound ==
  ASSUME NEW o, RowSound(o), o.status = "open", NEW m, Fits(o, m)
  PROVE  /\ Drop(o, m) \in Int /\ Cash(m) \in Int /\ Left(o) \in Nat /\ Left(Filled(o, m)) \in Nat
         /\ Drop(o, m) = Left(o) - Left(Filled(o, m))
         /\ Cash(m) + Drop(o, m) >= 0
         /\ o.side = "buy" => Drop(o, m) >= m.total
<1> DEFINE p == Filled(o, m)
<1>1. RowSound(p)
  BY FilledSound
<1>2. /\ o.budget \in Nat /\ o.spent \in Nat /\ m.total \in Nat /\ o.side \in Sides /\ m.side = o.side
           /\ o \in Order
  BY DEF RowSound, Order, Fits
<1>3. p.side = o.side /\ p.budget = o.budget /\ p.spent = o.spent + m.total /\ p.status \in {"open", "filled"}
  BY <1>2, FilledFields
<1>4. o.side = "buy" => p.spent <= p.budget /\ o.spent <= o.budget
  BY <1>1, <1>3, Covered
<1>5. Drop(o, m) = IF o.side = "sell" THEN 0 ELSE IF p.status = "filled" THEN o.budget - o.spent ELSE m.total
  BY DEF Drop
<1>6. Cash(m) = IF o.side = "buy" THEN -m.total ELSE m.total
  BY <1>2 DEF Cash
<1> HIDE DEF p
<1>7. Left(p) = (IF p.status = "open" /\ o.side = "buy" THEN o.budget - (o.spent + m.total) ELSE 0)
      /\ Left(o) = IF o.side = "buy" THEN o.budget - o.spent ELSE 0
  BY <1>3 DEF Left
<1>8. CASE o.side = "buy"
  BY <1>2, <1>3, <1>4, <1>5, <1>6, <1>7, <1>8 DEF p
<1>9. CASE o.side = "sell"
  BY <1>2, <1>3, <1>4, <1>5, <1>6, <1>7, <1>9 DEF p
<1> QED BY <1>2, <1>8, <1>9 DEF Sides

----------------------------------------------------------------------------
(* The cascade *)

\* The rows a cascade may fill.
Restable(S) ==
  /\ IsFiniteSet(S)
  /\ \A o \in S : RowSound(o) /\ o.status = "open"
  /\ \A a, b \in S : a.seq = b.seq => a = b

\* The priority is a strict order of the rows.
LEMMA PriorityOrders ==
  ASSUME NEW a, NEW b, NEW c, RowSound(a), RowSound(b), RowSound(c)
  PROVE  /\ a.seq # b.seq => Precedes(a, b) \/ Precedes(b, a)
         /\ Precedes(a, b) /\ Precedes(b, c) => Precedes(a, c)
<1> DEFINE k(o) == IF IsUpPusher(o.outcome, o.side) THEN 0 ELSE 1
           t(o) == IF IsUpPusher(o.outcome, o.side) THEN -Threshold(o.outcome, o.limit)
                   ELSE Threshold(o.outcome, o.limit)
<1>1. ASSUME NEW o, RowSound(o)
      PROVE  k(o) \in Int /\ t(o) \in Int /\ Threshold(o.outcome, o.limit) \in Int /\ o.seq \in Nat
  <2>1. o.limit \in Nat /\ o.seq \in Nat
    BY <1>1 DEF RowSound, Order
  <2>2. Share * Grain \in Nat
    BY ScaleAssumption
  <2>3. Threshold(o.outcome, o.limit) \in Int
    BY <2>1, <2>2 DEF Threshold
  <2> QED BY <2>1, <2>3
<1>2. ASSUME NEW x, NEW y, RowSound(x), RowSound(y)
      PROVE  Precedes(x, y) <=> \/ k(x) < k(y)
                                \/ k(x) = k(y) /\ t(x) < t(y)
                                \/ k(x) = k(y) /\ t(x) = t(y) /\ x.seq < y.seq
  <2>1. IsUpPusher(x.outcome, x.side) \in BOOLEAN /\ IsUpPusher(y.outcome, y.side) \in BOOLEAN
    BY DEF IsUpPusher
  <2>2. Threshold(x.outcome, x.limit) \in Int /\ Threshold(y.outcome, y.limit) \in Int
    BY <1>1, <1>2
  <2> QED BY <2>1, <2>2 DEF Precedes
<1> HIDE DEF k, t
<1>3. a.seq # b.seq => Precedes(a, b) \/ Precedes(b, a)
  BY <1>1, <1>2
<1>4. ASSUME Precedes(a, b), Precedes(b, c) PROVE Precedes(a, c)
  BY <1>1, <1>2, <1>4
<1> QED BY <1>3, <1>4

\* Some order comes first, of any that wait.
LEMMA ForemostIs ==
  ASSUME NEW S, Restable(S), NEW W \in SUBSET S, W # {}
  PROVE  Foremost(W) \in W
<1> DEFINE Led(w) == \E x \in w : \A y \in w \ {x} : Precedes(x, y)
           Bad == {w \in SUBSET S : w # {} /\ ~Led(w)}
<1>1. Bad = {}
  <2> SUFFICES ASSUME Bad # {} PROVE FALSE
    OBVIOUS
  <2>1. PICK w \in Bad : \A v \in SUBSET w : v # w => v \notin Bad
    <3>1. Bad \in SUBSET (SUBSET S)
      OBVIOUS
    <3> HIDE DEF Bad
    <3> QED BY <3>1, Smallest DEF Restable
  <2>2. w \in SUBSET S /\ w # {} /\ ~Led(w)
    OBVIOUS
  <2>3. PICK c \in w : TRUE
    BY <2>2
  <2> DEFINE v == w \ {c}
  <2>4. v # {}
    <3>1. ASSUME v = {} PROVE Led(w)
      BY <3>1
    <3> QED BY <2>2, <3>1
  <2>5. Led(v)
    <3>1. v \in SUBSET w /\ v # w /\ v \in SUBSET S
      BY <2>2, <2>3
    <3> HIDE DEF v, Led
    <3> QED BY <2>1, <2>4, <3>1
  <2>6. PICK m \in v : \A y \in v \ {m} : Precedes(m, y)
    BY <2>5
  <2>7. m \in w /\ m # c /\ m.seq # c.seq /\ RowSound(m) /\ RowSound(c)
    BY <2>2, <2>6 DEF Restable
  <2>8. Precedes(m, c) \/ Precedes(c, m)
    BY <2>7, PriorityOrders
  <2>9. CASE Precedes(m, c)
    <3>1. \A y \in w \ {m} : Precedes(m, y)
      BY <2>6, <2>9
    <3> QED BY <2>2, <2>7, <3>1
  <2>10. CASE Precedes(c, m)
    <3>1. ASSUME NEW y \in w \ {c} PROVE Precedes(c, y)
      <4>1. y = m \/ Precedes(m, y)
        BY <2>6
      <4>2. RowSound(y)
        BY <2>2 DEF Restable
      <4> QED BY <2>7, <2>10, <4>1, <4>2, PriorityOrders
    <3> QED BY <2>2, <2>3, <3>1
  <2> QED BY <2>8, <2>9, <2>10
<1>2. Led(W)
  BY <1>1
<1>3. \E x \in W : \A y \in W \ {x} : Precedes(x, y)
  BY <1>2
<1> QED BY <1>3 DEF Foremost

Next1(W, e) == Foremost({o \in W : Executable(o, e)})

\* One turn of cascade_of's loop, g being what the turns after it do.
Turn(W, e, g) ==
  IF {o \in W : Executable(o, e)} = {} THEN <<>>
  ELSE <<FillOf(Next1(W, e), e)>> \o g[W \ {Next1(W, e)}][LeadAfter(Next1(W, e), e)]

\* g is the cascade of every set of D at every lead.
Chains(g, D) == g = [W \in D |-> [e \in Int |-> Turn(W, e, g)]]

\* There is such a function: the cascade's recursion is on a finite set that
\* shrinks.
LEMMA ChainsExist ==
  ASSUME NEW S, Restable(S)
  PROVE  \E g : Chains(g, SUBSET S)
<1> DEFINE Upto(n) == {s \in SUBSET S : Cardinality(s) <= n}
           Bad == {n \in Nat : ~ \E g : Chains(g, Upto(n))}
<1>0. IsFiniteSet(S)
  BY DEF Restable
<1>1. \A s \in SUBSET S : IsFiniteSet(s) /\ Cardinality(s) \in Nat /\ Cardinality(s) <= Cardinality(S)
  BY <1>0, FS_Subset, FS_CardinalityType
<1>2. Cardinality(S) \in Nat /\ Upto(Cardinality(S)) = SUBSET S
  BY <1>0, <1>1, FS_CardinalityType
<1>3. SUFFICES ASSUME Bad # {} PROVE FALSE
  BY <1>2
<1>4. PICK n \in Bad : \A m \in Bad : n <= m
  <2>1. Bad \in SUBSET Nat
    OBVIOUS
  <2> HIDE DEF Bad
  <2> QED BY <1>3, <2>1, Least
<1>5. CASE n = 0
  <2> DEFINE g == [s \in Upto(0) |-> [e \in Int |-> <<>>]]
  <2>1. \A s \in Upto(0) : s = {}
    BY <1>1, FS_EmptySet
  <2>2. \A s \in Upto(0), e \in Int : Turn(s, e, g) = <<>>
    BY <2>1 DEF Turn
  <2>3. Chains(g, Upto(0))
    BY <2>2 DEF Chains
  <2> QED BY <1>4, <1>5, <2>3
<1>6. CASE n # 0
  <2>1. n \in Nat /\ n - 1 \in Nat /\ n - 1 \notin Bad
    <3>1. n \in Nat /\ n - 1 \in Nat /\ ~ (n <= n - 1)
      BY <1>6
    <3> HIDE DEF Bad
    <3> QED BY <1>4, <3>1
  <2>2. PICK f : Chains(f, Upto(n - 1))
    BY <2>1
  <2> DEFINE g == [s \in Upto(n) |-> IF s \in Upto(n - 1) THEN f[s] ELSE [e \in Int |-> Turn(s, e, f)]]
  <2>3. \A s \in Upto(n - 1) : s \in Upto(n) /\ f[s] = [e \in Int |-> Turn(s, e, f)]
    BY <1>1, <2>1, <2>2 DEF Chains
  <2>4. ASSUME NEW s \in Upto(n), NEW e \in Int, {o \in s : Executable(o, e)} # {}
        PROVE  s \ {Next1(s, e)} \in Upto(n - 1)
    <3> DEFINE can == {o \in s : Executable(o, e)}
    <3>1. can \in SUBSET S /\ can # {}
      BY <2>4
    <3> HIDE DEF can
    <3>2. Foremost(can) \in can
      BY <3>1, ForemostIs
    <3>3. Next1(s, e) \in s
      BY <3>2 DEF Next1, can
    <3>4. s \in SUBSET S /\ IsFiniteSet(s) /\ Cardinality(s) <= n /\ Cardinality(s) \in Nat
      BY <1>1
    <3>5. Cardinality(s \ {Next1(s, e)}) = Cardinality(s) - 1 /\ s \ {Next1(s, e)} \in SUBSET S
      BY <3>3, <3>4, FS_RemoveElement
    <3> QED BY <2>1, <3>4, <3>5
  <2>5. \A s \in Upto(n), e \in Int : Turn(s, e, g) = Turn(s, e, f)
    <3> SUFFICES ASSUME NEW s \in Upto(n), NEW e \in Int PROVE Turn(s, e, g) = Turn(s, e, f)
      OBVIOUS
    <3>1. CASE {o \in s : Executable(o, e)} = {}
      BY <3>1 DEF Turn
    <3>2. CASE {o \in s : Executable(o, e)} # {}
      <4>1. s \ {Next1(s, e)} \in Upto(n - 1)
        BY <2>4, <3>2
      <4>2. g[s \ {Next1(s, e)}] = f[s \ {Next1(s, e)}]
        BY <2>3, <4>1
      <4> HIDE DEF g
      <4> QED BY <3>2, <4>2, Zenon DEF Turn
    <3> QED BY <3>1, <3>2
  <2>6. \A s \in Upto(n) : g[s] = [e \in Int |-> Turn(s, e, f)]
    BY <2>3
  <2>7. \A s \in Upto(n) : g[s] = [e \in Int |-> Turn(s, e, g)]
    BY <2>5, <2>6
  <2>8. Chains(g, Upto(n))
    <3>1. g = [s \in Upto(n) |-> g[s]]
      OBVIOUS
    <3> HIDE DEF g
    <3> QED BY <2>7, <3>1 DEF Chains
  <2> QED BY <1>4, <2>8
<1> QED BY <1>5, <1>6

\* cascade_of is that function.
LEMMA CascadeIs ==
  ASSUME EveryLead, Restable(Open), NEW d \in Int
  PROVE  \E g : Chains(g, SUBSET Open) /\ Cascade(d) = g[Open][d]
<1> DEFINE G == CHOOSE g : Chains(g, SUBSET Open)
<1>1. Cascade(d) = G[Open][d]
  BY Zenon DEF Cascade, Chains, Turn, Next1, EveryLead
<1>2. Chains(G, SUBSET Open)
  BY ChainsExist
<1> QED BY <1>1, <1>2

\* These n orders fill in turn, each at the lead the one before it left, none
\* twice, and no other of W could fill after the last.
Fills(moves, n, who, leads, W, e) ==
  /\ moves = [i \in 1..n |-> FillOf(who[i], leads[i])]
  /\ leads[1] = e
  /\ \A i \in 1..n : Executable(who[i], leads[i]) /\ leads[i + 1] = LeadAfter(who[i], leads[i])
  /\ \A i, j \in 1..n : who[i] = who[j] => i = j
  /\ \A o \in W : (\A i \in 1..n : who[i] # o) => ~Executable(o, leads[n + 1])

Runs(moves, W, e) ==
  \E n \in Nat : \E who \in [1..n -> W], leads \in [1..n + 1 -> Int] : Fills(moves, n, who, leads, W, e)

LEMMA Listed ==
  ASSUME NEW S, NEW n \in Nat, NEW s \in [1..n -> S]
  PROVE  s \in Seq(S) /\ Len(s) = n /\ DOMAIN s = 1..n
<1>1. \E k \in Nat : s \in [1..k -> S]
  OBVIOUS
<1>2. s \in UNION {[1..k -> S] : k \in Nat}
  BY <1>1
<1>3. s \in Seq(S)
  BY <1>2, SeqDef
<1> QED BY <1>3

LEMMA Prepends ==
  ASSUME NEW S, NEW n \in Nat, NEW s \in [1..n -> S], NEW m \in S
  PROVE  <<m>> \o s = [i \in 1..n + 1 |-> IF i = 1 THEN m ELSE s[i - 1]]
<1>1. s \in Seq(S) /\ Len(s) = n
  BY Listed
<1>2. <<m>> \in Seq(S) /\ Len(<<m>>) = 1 /\ <<m>>[1] = m
  OBVIOUS
<1> DEFINE c == <<m>> \o s
<1>3. c \in Seq(S) /\ Len(c) = 1 + n /\ \A i \in 1..1 + n : c[i] = IF i <= 1 THEN <<m>>[i] ELSE s[i - 1]
  BY <1>1, <1>2, ConcatProperties
<1> HIDE DEF c
<1>4. DOMAIN c = 1..n + 1 /\ c = [i \in DOMAIN c |-> c[i]]
  BY <1>3
<1>5. \A i \in 1..n + 1 : c[i] = IF i = 1 THEN m ELSE s[i - 1]
  BY <1>2, <1>3
<1> QED BY <1>4, <1>5 DEF c

\* What the cascade of any waiting orders comes to.
LEMMA CascadeRuns ==
  ASSUME EveryLead, NEW S, Restable(S), NEW g, Chains(g, SUBSET S)
  PROVE  \A W \in SUBSET S, e \in Int : Runs(g[W][e], W, e)
<1> DEFINE Bad == {W \in SUBSET S : ~ \A e \in Int : Runs(g[W][e], W, e)}
<1> SUFFICES ASSUME Bad # {} PROVE FALSE
  OBVIOUS
<1>1. PICK W \in Bad : \A V \in SUBSET W : V # W => V \notin Bad
  <2>1. Bad \in SUBSET (SUBSET S)
    OBVIOUS
  <2> HIDE DEF Bad
  <2> QED BY <2>1, Smallest DEF Restable
<1>2. W \in SUBSET S
  OBVIOUS
<1>3. PICK e \in Int : ~Runs(g[W][e], W, e)
  OBVIOUS
<1>4. g[W][e] = Turn(W, e, g)
  BY <1>2 DEF Chains
<1> DEFINE can == {o \in W : Executable(o, e)}
<1>5. CASE can = {}
  <2> DEFINE who == [i \in 1..0 |-> 0]  leads == [i \in 1..1 |-> e]
  <2>1. g[W][e] = <<>>
    BY <1>4, <1>5 DEF Turn
  <2>2. 1..0 = {} /\ 0 + 1 = 1 /\ leads[1] = e /\ leads \in [1..0 + 1 -> Int] /\ who \in [1..0 -> W]
    OBVIOUS
  <2>3. <<>> = [i \in 1..0 |-> FillOf(who[i], leads[i])]
    BY <2>2
  <2> HIDE DEF who, leads
  <2>4. \A o \in W : ~Executable(o, e)
    BY <1>5
  <2>5. Fills(g[W][e], 0, who, leads, W, e)
    BY <2>1, <2>2, <2>3, <2>4 DEF Fills
  <2>6. \E n \in Nat : n = 0 /\ \E w \in [1..n -> W], l \in [1..n + 1 -> Int] : Fills(g[W][e], n, w, l, W, e)
    BY <2>2, <2>5
  <2>7. Runs(g[W][e], W, e)
    BY <2>6 DEF Runs
  <2> QED BY <1>3, <2>7
<1>6. CASE can # {}
  <2> DEFINE o == Next1(W, e)  V == W \ {o}  d == LeadAfter(o, e)
  <2>1. o \in can
    <3>1. can \in SUBSET S
      BY <1>2
    <3> HIDE DEF can
    <3>2. Foremost(can) \in can
      BY <1>6, <3>1, ForemostIs
    <3> QED BY <3>2 DEF Next1, can
  <2>2. o \in W /\ Executable(o, e) /\ RowSound(o)
    BY <1>2, <2>1 DEF Restable
  <2>3. d \in Int /\ FillOf(o, e) \in Move
    BY <2>2, FillSound
  <2>4. g[W][e] = <<FillOf(o, e)>> \o g[V][d]
    BY <1>4, <1>6 DEF Turn
  <2>5. V \in SUBSET W /\ V # W /\ V \in SUBSET S /\ V \notin Bad
    BY <1>1, <1>2, <2>2
  <2>6. Runs(g[V][d], V, d)
    BY <2>3, <2>5
  <2> HIDE DEF o, d
  <2>7. PICK n \in Nat : \E who \in [1..n -> V], leads \in [1..n + 1 -> Int] :
                            Fills(g[V][d], n, who, leads, V, d)
    BY <2>6 DEF Runs
  <2>8. PICK who \in [1..n -> V], leads \in [1..n + 1 -> Int] : Fills(g[V][d], n, who, leads, V, d)
    BY <2>7
  <2> DEFINE all == [i \in 1..n + 1 |-> IF i = 1 THEN o ELSE who[i - 1]]
             at == [i \in 1..(n + 1) + 1 |-> IF i = 1 THEN e ELSE leads[i - 1]]
             rest == g[V][d]
  <2>9. /\ rest = [i \in 1..n |-> FillOf(who[i], leads[i])] /\ leads[1] = d
        /\ \A i \in 1..n : Executable(who[i], leads[i]) /\ leads[i + 1] = LeadAfter(who[i], leads[i])
        /\ \A i, j \in 1..n : who[i] = who[j] => i = j
        /\ \A x \in V : (\A i \in 1..n : who[i] # x) => ~Executable(x, leads[n + 1])
    BY <2>8, Zenon DEF Fills
  <2>10. /\ all \in [1..n + 1 -> W] /\ at \in [1..(n + 1) + 1 -> Int] /\ n + 1 \in Nat
    <3>1. \A i \in 1..n + 1 : i # 1 => i - 1 \in 1..n
      OBVIOUS
    <3>2. \A i \in 1..(n + 1) + 1 : i # 1 => i - 1 \in 1..n + 1
      OBVIOUS
    <3>3. \A i \in 1..n : who[i] \in W
      BY <2>5
    <3>4. \A i \in 1..n + 1 : leads[i] \in Int
      OBVIOUS
    <3> QED BY <2>2, <2>3, <3>1, <3>2, <3>3, <3>4
  <2>11. rest \in [1..n -> Move]
    <3>1. \A i \in 1..n : FillOf(who[i], leads[i]) \in Move
      <4> SUFFICES ASSUME NEW i \in 1..n PROVE FillOf(who[i], leads[i]) \in Move
        OBVIOUS
      <4>1. who[i] \in S /\ leads[i] \in Int
        BY <2>5
      <4>2. RowSound(who[i])
        BY <4>1 DEF Restable
      <4> QED BY <2>9, <4>1, <4>2, FillSound
    <3> QED BY <2>9, <3>1
  <2> HIDE DEF rest
  <2>12. <<FillOf(o, e)>> \o rest = [i \in 1..n + 1 |-> IF i = 1 THEN FillOf(o, e) ELSE rest[i - 1]]
    BY <2>3, <2>11, Prepends
  <2>13. \A i \in 1..n + 1 : i = 1 \/ i - 1 \in 1..n
    OBVIOUS
  <2>14. /\ \A i \in 1..n + 1 : FillOf(all[i], at[i]) = IF i = 1 THEN FillOf(o, e) ELSE rest[i - 1]
    BY <2>9, <2>13
  <2>15. g[W][e] = [i \in 1..n + 1 |-> FillOf(all[i], at[i])]
    <3>1. g[W][e] = <<FillOf(o, e)>> \o rest
      BY <2>4 DEF rest
    <3> HIDE DEF all, at
    <3>2. [i \in 1..n + 1 |-> IF i = 1 THEN FillOf(o, e) ELSE rest[i - 1]]
          = [i \in 1..n + 1 |-> FillOf(all[i], at[i])]
      BY <2>14
    <3> QED BY <2>12, <3>1, <3>2
  <2>16. \A i \in 1..n + 1 : Executable(all[i], at[i]) /\ at[i + 1] = LeadAfter(all[i], at[i])
    <3> SUFFICES ASSUME NEW i \in 1..n + 1
                 PROVE  Executable(all[i], at[i]) /\ at[i + 1] = LeadAfter(all[i], at[i])
      OBVIOUS
    <3>1. CASE i = 1
      <4>1. all[i] = o /\ at[i] = e /\ at[i + 1] = leads[1]
        BY <3>1
      <4> QED BY <2>2, <2>9, <4>1 DEF d
    <3>2. CASE i # 1
      <4>1. i - 1 \in 1..n /\ (i + 1) - 1 = (i - 1) + 1 /\ i + 1 \in 1..(n + 1) + 1 /\ i + 1 # 1
        BY <3>2
      <4>2. all[i] = who[i - 1] /\ at[i] = leads[i - 1] /\ at[i + 1] = leads[(i - 1) + 1]
        BY <3>2, <4>1
      <4> QED BY <2>9, <4>1, <4>2
    <3> QED BY <3>1, <3>2
  <2>17. \A i, j \in 1..n + 1 : all[i] = all[j] => i = j
    <3>1. \A i \in 1..n : who[i] # o
      OBVIOUS
    <3> SUFFICES ASSUME NEW i \in 1..n + 1, NEW j \in 1..n + 1, all[i] = all[j] PROVE i = j
      OBVIOUS
    <3>2. CASE i = 1 \/ j = 1
      BY <2>13, <3>1, <3>2
    <3>3. CASE i # 1 /\ j # 1
      <4>1. i - 1 \in 1..n /\ j - 1 \in 1..n
        BY <3>3
      <4>3. all[i] = who[i - 1] /\ all[j] = who[j - 1]
        BY <3>3
      <4>2. i - 1 = j - 1
        <5> HIDE DEF all
        <5> QED BY <2>9, <4>1, <4>3
      <4> QED BY <4>2
    <3> QED BY <3>2, <3>3
  <2>18. \A x \in W : (\A i \in 1..n + 1 : all[i] # x) => ~Executable(x, at[(n + 1) + 1])
    <3> SUFFICES ASSUME NEW x \in W, \A i \in 1..n + 1 : all[i] # x
                 PROVE  ~Executable(x, at[(n + 1) + 1])
      OBVIOUS
    <3>1. x # o
      <4>1. 1 \in 1..n + 1 /\ all[1] = o
        OBVIOUS
      <4> QED BY <4>1
    <3>2. \A i \in 1..n : who[i] # x
      <4>1. \A i \in 1..n : i + 1 \in 1..n + 1 /\ all[i + 1] = who[i]
        OBVIOUS
      <4> QED BY <4>1
    <3>3. at[(n + 1) + 1] = leads[n + 1]
      OBVIOUS
    <3> QED BY <2>9, <3>1, <3>2, <3>3
  <2>19. at[1] = e
    OBVIOUS
  <2> HIDE DEF all, at
  <2>20. Fills(g[W][e], n + 1, all, at, W, e)
    BY <2>15, <2>16, <2>17, <2>18, <2>19 DEF Fills
  <2>21. Runs(g[W][e], W, e)
    <3>1. \E k \in Nat : k = n + 1
            /\ \E w \in [1..k -> W], l \in [1..k + 1 -> Int] : Fills(g[W][e], k, w, l, W, e)
      BY <2>10, <2>20
    <3> QED BY <3>1 DEF Runs
  <2> QED BY <1>3, <2>21
<1> QED BY <1>5, <1>6

----------------------------------------------------------------------------
(* A batch *)

\* Rows the orders table may hold together.
RowsSound(rows) ==
  /\ IsFiniteSet(rows)
  /\ \A o \in rows : RowSound(o) /\ o.seq < Cardinality(rows)
  /\ \A a, b \in rows : a.key = b.key \/ a.seq = b.seq => a = b

\* A movement priced at the lead the one before it left, and the row it fills.
Moved(m, d, e) ==
  /\ m.total = Price(m.outcome, m.side, m.quantity, d)
  /\ e = AfterFill(m.outcome, m.side, m.quantity, d)

Fires(m, d, rows) ==
  \E o \in rows : o.status = "open" /\ o.key = m.order /\ Executable(o, d) /\ m = FillOf(o, d)

\* What a request's commit writes: its own movement, which fills an order or
\* none, then the fills it sets off, no order's twice, until nothing resting
\* can fill.
Batch(moves, n, leads, rows, d) ==
  /\ n \in Nat \ {0} /\ moves \in [1..n -> Move] /\ leads \in [1..n + 1 -> Int] /\ leads[1] = d
  /\ \A i \in 1..n : Moved(moves[i], leads[i], leads[i + 1])
  /\ \A i \in 1..n : moves[i].order = NoKey \/ Fires(moves[i], leads[i], rows)
  /\ \A i \in 2..n : moves[i].order # NoKey
  /\ \A i, j \in 1..n : moves[i].order = moves[j].order => i = j
  /\ \A o \in Open : (\A i \in 1..n : moves[i].order # o.key) => ~Executable(o, leads[n + 1])

LEMMA OpenRestable ==
  ASSUME RowsSound(orders)
  PROVE  Restable(Open) /\ Open \in SUBSET orders
<1>1. Open \in SUBSET orders
  BY DEF Open
<1>2. IsFiniteSet(Open)
  BY <1>1, FS_Subset DEF RowsSound
<1> QED BY <1>1, <1>2 DEF RowsSound, Restable, Open

LEMMA CascadeFills ==
  ASSUME EveryLead, RowsSound(orders), NEW d \in Int
  PROVE  Runs(Cascade(d), Open, d)
<1>1. Restable(Open)
  BY OpenRestable
<1>2. PICK g : Chains(g, SUBSET Open) /\ Cascade(d) = g[Open][d]
  BY <1>1, CascadeIs
<1>3. \A W \in SUBSET Open, e \in Int : Runs(g[W][e], W, e)
  BY <1>1, <1>2, CascadeRuns
<1>4. Runs(g[Open][d], Open, d)
  BY <1>3
<1> QED BY <1>2, <1>4

\* A movement and the cascade it sets off are a batch.
LEMMA BatchOf ==
  ASSUME EveryLead, RowsSound(orders), NEW rows, orders \subseteq rows, NEW d \in Int,
         NEW own \in Move, NEW e \in Int, Moved(own, d, e),
         own.order = NoKey \/ Fires(own, d, rows), \A o \in Open : own.order # o.key
  PROVE  /\ (<<own>> \o Cascade(e))[1] = own
         /\ \E n, leads : Batch(<<own>> \o Cascade(e), n, leads, rows, d)
<1>1. PICK k \in Nat : \E who \in [1..k -> Open], at \in [1..k + 1 -> Int] : Fills(Cascade(e), k, who, at, Open, e)
  BY CascadeFills DEF Runs
<1>2. PICK who \in [1..k -> Open], at \in [1..k + 1 -> Int] : Fills(Cascade(e), k, who, at, Open, e)
  BY <1>1
<1> DEFINE fills == Cascade(e)
           leads == [i \in 1..(k + 1) + 1 |-> IF i = 1 THEN d ELSE at[i - 1]]
           moves == <<own>> \o fills
<1>3. /\ fills = [i \in 1..k |-> FillOf(who[i], at[i])] /\ at[1] = e
      /\ \A i \in 1..k : Executable(who[i], at[i]) /\ at[i + 1] = LeadAfter(who[i], at[i])
      /\ \A i, j \in 1..k : who[i] = who[j] => i = j
      /\ \A o \in Open : (\A i \in 1..k : who[i] # o) => ~Executable(o, at[k + 1])
  BY <1>2, Zenon DEF Fills
<1>4. Restable(Open) /\ Open \in SUBSET orders
  BY OpenRestable
<1>5. \A i \in 1..k : who[i] \in Open /\ at[i] \in Int /\ at[i + 1] \in Int /\ RowSound(who[i])
        /\ who[i].status = "open"
  BY <1>4 DEF Restable
<1>6. \A i \in 1..k :
        /\ fills[i] = FillOf(who[i], at[i]) /\ fills[i] \in Move
        /\ fills[i].order = who[i].key /\ Moved(fills[i], at[i], at[i + 1])
        /\ Fires(fills[i], at[i], rows) /\ fills[i].order # NoKey
  <2> SUFFICES ASSUME NEW i \in 1..k
      PROVE  /\ fills[i] = FillOf(who[i], at[i]) /\ fills[i] \in Move
             /\ fills[i].order = who[i].key /\ Moved(fills[i], at[i], at[i + 1])
             /\ Fires(fills[i], at[i], rows) /\ fills[i].order # NoKey
    OBVIOUS
  <2>1. fills[i] = FillOf(who[i], at[i])
    BY <1>3
  <2> HIDE DEF fills
  <2>2. /\ FillOf(who[i], at[i]) \in Move
        /\ FillOf(who[i], at[i]).order = who[i].key
        /\ FillOf(who[i], at[i]).outcome = who[i].outcome
        /\ FillOf(who[i], at[i]).side = who[i].side
        /\ FillOf(who[i], at[i]).quantity = FillQuantity(who[i], at[i])
        /\ FillOf(who[i], at[i]).total = Price(who[i].outcome, who[i].side, FillQuantity(who[i], at[i]), at[i])
        /\ LeadAfter(who[i], at[i]) = AfterFill(who[i].outcome, who[i].side, FillQuantity(who[i], at[i]), at[i])
    BY <1>3, <1>5, FillSound
  <2>3. Moved(fills[i], at[i], at[i + 1])
    BY <1>3, <2>1, <2>2 DEF Moved
  <2>4. Fires(fills[i], at[i], rows)
    BY <1>3, <1>4, <1>5, <2>1, <2>2 DEF Fires
  <2>5. who[i].key # NoKey
    <3>1. who[i].key \in Keys
      BY <1>5 DEF RowSound, Order
    <3> QED BY <3>1, RequestsAssumption
  <2> QED BY <2>1, <2>2, <2>3, <2>4, <2>5
<1>7. fills \in [1..k -> Move]
  BY <1>3, <1>6
<1> HIDE DEF fills
<1>8. moves = [i \in 1..k + 1 |-> IF i = 1 THEN own ELSE fills[i - 1]]
  BY <1>7, Prepends
<1>9. moves[1] = own /\ \A i \in 1..k : moves[i + 1] = fills[i]
  <2>1. \A i \in 1..k : i + 1 \in 1..k + 1 /\ i + 1 # 1 /\ (i + 1) - 1 = i
    OBVIOUS
  <2> HIDE DEF moves
  <2> QED BY <1>8, <2>1
<1>10. moves \in [1..k + 1 -> Move]
  <2>1. \A i \in 1..k + 1 : i = 1 \/ i - 1 \in 1..k
    OBVIOUS
  <2> HIDE DEF moves
  <2> QED BY <1>7, <1>8, <2>1
<1>11. leads \in [1..(k + 1) + 1 -> Int] /\ leads[1] = d /\ \A i \in 1..k + 1 : leads[i + 1] = at[i]
  <2>1. \A i \in 1..(k + 1) + 1 : i = 1 \/ i - 1 \in 1..k + 1
    OBVIOUS
  <2>2. \A i \in 1..k + 1 : i + 1 \in 1..(k + 1) + 1 /\ i + 1 # 1 /\ (i + 1) - 1 = i
    OBVIOUS
  <2> QED BY <2>1, <2>2
<1> HIDE DEF moves, leads
<1>12. \A i \in 1..k + 1 : i = 1 \/ \E j \in 1..k : i = j + 1
  <2>1. \A i \in 1..k + 1 : i = 1 \/ (i - 1 \in 1..k /\ i = (i - 1) + 1)
    OBVIOUS
  <2> QED BY <2>1
<1>13. \A i \in 1..k + 1 : Moved(moves[i], leads[i], leads[i + 1])
  <2> SUFFICES ASSUME NEW i \in 1..k + 1 PROVE Moved(moves[i], leads[i], leads[i + 1])
    OBVIOUS
  <2>1. CASE i = 1
    <3>1. leads[i] = d /\ leads[i + 1] = e /\ moves[i] = own
      BY <1>3, <1>9, <1>11, <2>1
    <3> QED BY <3>1
  <2>2. CASE i # 1
    <3>1. PICK j \in 1..k : i = j + 1
      BY <1>12, <2>2
    <3>2. j \in 1..k + 1 /\ j + 1 \in 1..k + 1
      OBVIOUS
    <3>3. leads[i] = at[j] /\ leads[i + 1] = at[j + 1] /\ moves[i] = fills[j]
      BY <1>9, <1>11, <3>1, <3>2
    <3> QED BY <1>6, <3>3
  <2> QED BY <2>1, <2>2
<1>14. \A i \in 1..k + 1 : i # 1 => Fires(moves[i], leads[i], rows) /\ moves[i].order # NoKey
  <2> SUFFICES ASSUME NEW i \in 1..k + 1, i # 1 PROVE Fires(moves[i], leads[i], rows) /\ moves[i].order # NoKey
    OBVIOUS
  <2>1. PICK j \in 1..k : i = j + 1
    BY <1>12
  <2>2. j \in 1..k + 1
    OBVIOUS
  <2>3. leads[i] = at[j] /\ moves[i] = fills[j]
    BY <1>9, <1>11, <2>1, <2>2
  <2> QED BY <1>6, <2>3
<1>15. \A i \in 1..k + 1 : moves[i].order = NoKey \/ Fires(moves[i], leads[i], rows)
  <2>1. moves[1] = own /\ leads[1] = d
    BY <1>9, <1>11
  <2> QED BY <1>14, <2>1
<1>16. \A i \in 2..k + 1 : moves[i].order # NoKey
  <2>1. \A i \in 2..k + 1 : i \in 1..k + 1 /\ i # 1
    OBVIOUS
  <2> QED BY <1>14, <2>1
<1>17. \A a, b \in Open : a.key = b.key => a = b
  BY <1>4 DEF RowsSound
<1>18. \A i, j \in 1..k + 1 : moves[i].order = moves[j].order => i = j
  <2> SUFFICES ASSUME NEW i \in 1..k + 1, NEW j \in 1..k + 1, moves[i].order = moves[j].order PROVE i = j
    OBVIOUS
  <2>1. \A x \in 1..k : moves[x + 1].order = who[x].key /\ own.order # who[x].key
    BY <1>5, <1>6, <1>9
  <2>2. CASE i = 1 \/ j = 1
    BY <1>9, <1>12, <2>1, <2>2
  <2>3. CASE i # 1 /\ j # 1
    <3>1. PICK x \in 1..k : i = x + 1
      BY <1>12, <2>3
    <3>2. PICK y \in 1..k : j = y + 1
      BY <1>12, <2>3
    <3>3. who[x].key = who[y].key
      BY <2>1, <3>1, <3>2
    <3>4. who[x] = who[y]
      BY <1>5, <1>17, <3>3
    <3> QED BY <1>3, <3>1, <3>2, <3>4
  <2> QED BY <2>2, <2>3
<1>19. \A o \in Open : (\A i \in 1..k + 1 : moves[i].order # o.key) => ~Executable(o, leads[(k + 1) + 1])
  <2> SUFFICES ASSUME NEW o \in Open, \A i \in 1..k + 1 : moves[i].order # o.key
               PROVE  ~Executable(o, leads[(k + 1) + 1])
    OBVIOUS
  <2>1. \A i \in 1..k : who[i] # o
    <3>1. \A i \in 1..k : i + 1 \in 1..k + 1
      OBVIOUS
    <3> QED BY <1>6, <1>9, <3>1
  <2>2. leads[(k + 1) + 1] = at[k + 1]
    BY <1>11
  <2> QED BY <1>3, <2>1, <2>2
<1>20. k + 1 \in Nat \ {0}
  OBVIOUS
<1>21. Batch(moves, k + 1, leads, rows, d)
  BY <1>10, <1>11, <1>13, <1>15, <1>16, <1>18, <1>19, <1>20 DEF Batch
<1> QED BY <1>9, <1>21 DEF moves, fills

\* The row a batch leaves of a row.
After(o, moves) ==
  IF \E i \in 1..Len(moves) : moves[i].order = o.key
  THEN Filled(o, moves[CHOOSE i \in 1..Len(moves) : moves[i].order = o.key]) ELSE o

LEMMA BatchLists ==
  ASSUME NEW moves, NEW n, NEW leads, NEW rows, NEW d, Batch(moves, n, leads, rows, d)
  PROVE  /\ n \in Nat \ {0} /\ Len(moves) = n /\ DOMAIN moves = 1..n /\ 1 \in 1..n
         /\ \A i \in 1..n : /\ moves[i] \in Move /\ leads[i] \in Int /\ leads[i + 1] \in Int
                            /\ Moved(moves[i], leads[i], leads[i + 1])
<1>1. n \in Nat \ {0} /\ moves \in [1..n -> Move] /\ leads \in [1..n + 1 -> Int]
      /\ \A i \in 1..n : Moved(moves[i], leads[i], leads[i + 1])
  BY DEF Batch
<1>2. Len(moves) = n /\ DOMAIN moves = 1..n
  BY <1>1, Listed
<1>3. \A i \in 1..n : i \in 1..n + 1 /\ i + 1 \in 1..n + 1
  BY <1>1
<1> QED BY <1>1, <1>2, <1>3

\* What the movement that fills a row is, and does to it.
LEMMA BatchHits ==
  ASSUME EveryLead, NEW moves, NEW n, NEW leads, NEW rows, NEW d, Batch(moves, n, leads, rows, d),
         RowsSound(rows), NEW i \in 1..n, NEW o \in rows, moves[i].order = o.key
  PROVE  /\ o.status = "open" /\ Executable(o, leads[i]) /\ moves[i] = FillOf(o, leads[i])
         /\ Fits(o, moves[i])
         /\ After(o, moves) = Filled(o, moves[i])
         /\ DropOf(moves[i], rows) = Drop(o, moves[i])
<1>1. RowSound(o) /\ o.key \in Keys /\ o.key # NoKey
  BY RequestsAssumption DEF RowsSound, RowSound, Order
<1>2. Len(moves) = n /\ leads[i] \in Int
  BY BatchLists
<1>3. moves[i].order = NoKey \/ Fires(moves[i], leads[i], rows)
  BY DEF Batch
<1>4. PICK x \in rows : x.status = "open" /\ x.key = moves[i].order /\ Executable(x, leads[i])
             /\ moves[i] = FillOf(x, leads[i])
  BY <1>1, <1>3 DEF Fires
<1>5. x = o
  BY <1>4 DEF RowsSound
<1>6. Fits(o, moves[i])
  <2>1. /\ FillOf(o, leads[i]).user = o.owner /\ FillOf(o, leads[i]).outcome = o.outcome
        /\ FillOf(o, leads[i]).side = o.side
        /\ FillOf(o, leads[i]).quantity \in Nat \ {0} /\ FillOf(o, leads[i]).quantity <= Remaining(o)
        /\ FillOf(o, leads[i]).total \in Nat \ {0}
        /\ o.side = "buy" => Grain * FillOf(o, leads[i]).total <= o.limit * FillOf(o, leads[i]).quantity
        /\ o.side = "sell" => Grain * FillOf(o, leads[i]).total >= o.limit * FillOf(o, leads[i]).quantity
    BY <1>1, <1>2, <1>4, <1>5, FillSound
  <2> QED BY <1>4, <1>5, <2>1 DEF Fits
<1>7. (CHOOSE j \in 1..Len(moves) : moves[j].order = o.key) = i
  <2>1. \A a, b \in 1..n : moves[a].order = moves[b].order => a = b
    BY DEF Batch
  <2>2. \A j \in 1..n : moves[j].order = o.key => j = i
    BY <2>1
  <2> QED BY <1>2, <2>2
<1>8. After(o, moves) = Filled(o, moves[i])
  BY <1>2, <1>7 DEF After
<1>9. (CHOOSE y \in rows : y.key = moves[i].order) = o
  <2>1. \A y \in rows : y.key = o.key => y = o
    BY DEF RowsSound
  <2> QED BY <2>1
<1>10. DropOf(moves[i], rows) = Drop(o, moves[i])
  BY <1>1, <1>9 DEF DropOf
<1> QED BY <1>4, <1>5, <1>6, <1>8, <1>10

LEMMA BatchFills ==
  ASSUME NEW moves, NEW n, NEW leads, NEW rows, NEW d, Batch(moves, n, leads, rows, d), NEW i \in 1..n
  PROVE  /\ moves[i].order # NoKey => \E o \in rows : moves[i].order = o.key
         /\ i # 1 => moves[i].order # NoKey
         /\ \A j \in 1..n : moves[i].order = moves[j].order => i = j
<1>1. moves[i].order = NoKey \/ Fires(moves[i], leads[i], rows)
  BY DEF Batch
<1>2. i # 1 => i \in 2..n
  BY BatchLists
<1>3. i # 1 => moves[i].order # NoKey
  BY <1>2 DEF Batch
<1>4. \A j \in 1..n : moves[i].order = moves[j].order => i = j
  BY DEF Batch
<1>5. moves[i].order # NoKey => \E o \in rows : moves[i].order = o.key
  BY <1>1 DEF Fires
<1> QED BY <1>3, <1>4, <1>5

\* A batch leaves each row as it was, or filled once more.
LEMMA AfterRow ==
  ASSUME EveryLead, NEW moves, NEW n, NEW leads, NEW rows, NEW d, Batch(moves, n, leads, rows, d),
         RowsSound(rows), NEW o \in rows
  PROVE  /\ RowSound(After(o, moves)) /\ After(o, moves).key = o.key /\ After(o, moves).seq = o.seq
         /\ After(o, moves).owner = o.owner /\ After(o, moves).outcome = o.outcome
         /\ After(o, moves).side = o.side /\ After(o, moves).limit = o.limit
         /\ After(o, moves) = o
            \/ (\E i \in 1..n : moves[i].order = o.key /\ o.status = "open" /\ Fits(o, moves[i])
                                /\ After(o, moves) = Filled(o, moves[i]))
         /\ (\A i \in 1..n : moves[i].order # o.key) => After(o, moves) = o
<1>1. Len(moves) = n /\ RowSound(o) /\ o \in Order
  BY BatchLists DEF RowsSound, RowSound
<1>2. CASE \A i \in 1..n : moves[i].order # o.key
  <2>1. After(o, moves) = o
    BY <1>1, <1>2 DEF After
  <2> QED BY <1>1, <2>1
<1>3. CASE \E i \in 1..n : moves[i].order = o.key
  <2>1. PICK i \in 1..n : moves[i].order = o.key
    BY <1>3
  <2>2. o.status = "open" /\ Fits(o, moves[i]) /\ After(o, moves) = Filled(o, moves[i])
    BY <2>1, BatchHits
  <2>3. RowSound(Filled(o, moves[i]))
    BY <1>1, <2>2, FilledSound
  <2>4. /\ Filled(o, moves[i]).key = o.key /\ Filled(o, moves[i]).seq = o.seq
        /\ Filled(o, moves[i]).owner = o.owner /\ Filled(o, moves[i]).outcome = o.outcome
        /\ Filled(o, moves[i]).side = o.side /\ Filled(o, moves[i]).limit = o.limit
    BY <1>1, FilledFields
  <2> QED BY <2>1, <2>2, <2>3, <2>4
<1> QED BY <1>2, <1>3

\* A batch leaves sound rows.
LEMMA AfterRows ==
  ASSUME EveryLead, NEW moves, NEW n, NEW leads, NEW rows, NEW d, Batch(moves, n, leads, rows, d),
         RowsSound(rows)
  PROVE  RowsSound({After(o, moves) : o \in rows})
<1> DEFINE f == [o \in rows |-> After(o, moves)]
           F == [x \in {f[o] : o \in rows} |-> 0]
<1>1. \A o \in rows : RowSound(f[o]) /\ f[o].key = o.key /\ f[o].seq = o.seq
  BY AfterRow
<1>2. {After(o, moves) : o \in rows} = {f[o] : o \in rows}
  OBVIOUS
<1>3. \A x \in rows : F[f[x]] \in Int
  OBVIOUS
<1> HIDE DEF f, F
<1>4. \A x, y \in rows : f[x] = f[y] => x = y
  BY <1>1 DEF RowsSound
<1>5. IsFiniteSet(rows)
  BY DEF RowsSound
<1>6. IsFiniteSet({f[o] : o \in rows}) /\ Cardinality({f[o] : o \in rows}) = Cardinality(rows)
  BY <1>3, <1>4, <1>5, SumImage
<1> DEFINE R == {f[o] : o \in rows}
<1>7. \A x \in R : RowSound(x) /\ x.seq < Cardinality(rows)
  BY <1>1 DEF RowsSound
<1>8. \A a, b \in R : a.key = b.key \/ a.seq = b.seq => a = b
  BY <1>1 DEF RowsSound
<1>9. RowsSound(R)
  BY <1>6, <1>7, <1>8 DEF RowsSound
<1> QED BY <1>2, <1>9

----------------------------------------------------------------------------
(* What holds of the rows, the versions and the clients *)

\* A request is under way while its session is not idle, and the version its
\* client was shown is the book's still only if the price is.
Quoted(s) ==
  /\ pc[s] # "idle" => req[s] \in Requests
  /\ quote[s].version <= version
  /\ pc[s] # "idle" /\ req[s].kind = "trade" /\ quote[s].version = version =>
       quote[s].total = Price(req[s].outcome, req[s].side, req[s].quantity, q[0] - q[1])

\* A trade or a fill as the ledger keeps it.
Entry == [key: Keys \cup {NoKey}, order: Keys \cup {NoKey}, user: Users, outcome: Outcomes,
          side: Sides, quantity: Nat, total: Nat, version: Nat]

Core ==
  /\ q \in [Outcomes -> Int] /\ version \in Nat /\ pool \in Int
  /\ held \in [Users -> [Outcomes -> Int]] /\ funds \in [Users -> Int]
  /\ posted \subseteq Entry
  /\ result \in Outcomes \cup {NoResult} /\ gate \in {"open", "closed"}
  /\ swings \in 0..MaxSwings /\ alarm \in BOOLEAN
  /\ pc \in [Sessions -> {"idle", "gate", "locked"}]
  /\ req \in [Sessions -> Requests \cup {NoRequest}]
  /\ quote \in [Sessions -> [version: Nat, total: Nat]]
  /\ RowsSound(orders)
  /\ \A s \in Sessions : Quoted(s)
  /\ VersionsDense

LEMMA LeadInt ==
  ASSUME q \in [Outcomes -> Int]
  PROVE  q[0] \in Int /\ q[1] \in Int /\ q[0] - q[1] \in Int
BY DEF Outcomes

LEMMA RequestFields ==
  ASSUME NEW r \in Requests
  PROVE  /\ r.kind \in {"trade", "order"} /\ r.key \in Keys /\ r.user \in Users
         /\ r.outcome \in Outcomes /\ r.side \in Sides /\ r.quantity \in Nat \ {0} /\ r.limit \in Nat
         /\ r.kind = "order" => r.limit \in DOMAIN Reach
         /\ r # NoRequest /\ r.key # NoKey
BY RequestsAssumption DEF Request

\* The row a placement brings is sound, and its own.
LEMMA OrderSound ==
  ASSUME RowsSound(orders), NEW r \in Requests, r.kind = "order", StoredOrder(r) = {}
  PROVE  /\ RowSound(OrderOf(r)) /\ OrderOf(r).status = "open"
         /\ RowsSound(orders \cup {OrderOf(r)})
         /\ \A o \in orders : o.key # r.key
         /\ OrderOf(r).key = r.key /\ OrderOf(r).owner = r.user /\ OrderOf(r).outcome = r.outcome
         /\ OrderOf(r).side = r.side /\ OrderOf(r).quantity = r.quantity /\ OrderOf(r).limit = r.limit
         /\ OrderOf(r).filled = 0 /\ OrderOf(r).spent = 0 /\ OrderOf(r).budget = BudgetOf(r)
         /\ BudgetOf(r) \in Nat
<1> DEFINE o == OrderOf(r)
<1>1. /\ r.key \in Keys /\ r.user \in Users /\ r.outcome \in Outcomes /\ r.side \in Sides
      /\ r.quantity \in Nat \ {0} /\ r.limit \in Nat /\ r.limit \in DOMAIN Reach
  BY RequestFields
<1>2. Cardinality(orders) \in Nat /\ IsFiniteSet(orders)
  BY FS_CardinalityType DEF RowsSound
<1>3. BudgetOf(r) \in Nat
  <2>1. r.limit * r.quantity \in Nat /\ Quantized("buy", r.limit * r.quantity) \in Nat
    BY <1>1, BudgetCovers
  <2> QED BY <2>1 DEF BudgetOf
<1>4. /\ o.key = r.key /\ o.seq = Cardinality(orders) /\ o.owner = r.user /\ o.outcome = r.outcome
      /\ o.side = r.side /\ o.limit = r.limit /\ o.quantity = r.quantity /\ o.filled = 0
      /\ o.budget = BudgetOf(r) /\ o.spent = 0 /\ o.status = "open"
  BY DEF OrderOf
<1>5. o \in Order
  BY <1>1, <1>2, <1>3 DEF OrderOf, Order
<1>6. Grain * 0 = 0 /\ r.limit * 0 = 0
  BY <1>1, ScaleAssumption
<1>7. BudgetOf(r) = IF r.side = "buy" THEN Quantized("buy", r.limit * r.quantity) ELSE 0
  BY DEF BudgetOf
<1> HIDE DEF o
<1>8. RowSound(o)
  BY <1>1, <1>4, <1>5, <1>6, <1>7 DEF RowSound
<1>9. \A x \in orders : x.key # r.key
  BY DEF StoredOrder
<1>10. RowsSound(orders \cup {o})
  <2>1. o \notin orders
    BY <1>4, <1>9
  <2>2. IsFiniteSet(orders \cup {o}) /\ Cardinality(orders \cup {o}) = Cardinality(orders) + 1
    BY <1>2, <2>1, FS_AddElement
  <2>3. \A x \in orders : RowSound(x) /\ x.seq < Cardinality(orders) /\ x.seq \in Nat
    BY DEF RowsSound, RowSound, Order
  <2>4. \A x \in orders \cup {o} : RowSound(x) /\ x.seq < Cardinality(orders \cup {o})
    BY <1>2, <1>4, <1>8, <2>2, <2>3
  <2>5. \A a, b \in orders : a.key = b.key \/ a.seq = b.seq => a = b
    BY DEF RowsSound
  <2>6. \A a \in orders : a.key # o.key /\ a.seq # o.seq
    BY <1>2, <1>4, <1>9, <2>3
  <2>7. \A a, b \in orders \cup {o} : a.key = b.key \/ a.seq = b.seq => a = b
    BY <2>5, <2>6
  <2> QED BY <2>2, <2>4, <2>7 DEF RowsSound
<1> QED BY <1>3, <1>4, <1>8, <1>9, <1>10 DEF o

\* A trade or a placement that commits: its batch, and the row it brings.
Committed(s, moves, n, leads, brought) ==
  /\ pc[s] = "locked" /\ ~Latched /\ ~ShortOfShares(req[s])
  /\ Batch(moves, n, leads, orders \cup brought, q[0] - q[1])
  /\ RowsSound(orders \cup brought)
  /\ moves[1].user = req[s].user /\ moves[1].outcome = req[s].outcome /\ moves[1].side = req[s].side
  /\ req[s].kind = "trade" =>
       /\ brought = {} /\ quote[s].version = version /\ moves[1].order = NoKey
       /\ moves[1].quantity = req[s].quantity
       /\ moves[1].total = Price(req[s].outcome, req[s].side, req[s].quantity, q[0] - q[1])
  /\ req[s].kind = "order" =>
       /\ brought = {OrderOf(req[s])} /\ StoredOrder(req[s]) = {} /\ ~Crosses(req[s])
       /\ moves[1].order = req[s].key
  /\ RefusedAt(moves, orders \cup brought,
               IF req[s].kind = "order" THEN BudgetOf(req[s]) ELSE 0, req[s].user) = {}
  /\ Write(req[s], moves, brought)

LEMMA AdmittedMeans ==
  ASSUME NEW s, Admitted(s)
  PROVE  /\ pc[s] = "locked" /\ ~Stored(req[s]) /\ ~Latched /\ ~ShortOfShares(req[s])
         /\ req[s].kind = "trade" => quote[s].version = version
         /\ req[s].kind = "order" => ~Crosses(req[s])
<1>1. pc[s] = "locked" /\ ~Stored(req[s]) /\ Refusal(s) = "none"
  BY DEF Admitted
<1>2. Latched \in BOOLEAN /\ Stale(s) \in BOOLEAN /\ Crosses(req[s]) \in BOOLEAN
        /\ ShortOfShares(req[s]) \in BOOLEAN
  BY DEF Latched, Stale, Crosses, ShortOfShares
<1>3. ~Latched
  BY <1>1, <1>2 DEF Refusal
<1>4. ~(req[s].kind = "trade" /\ Stale(s))
  BY <1>1, <1>2 DEF Refusal
<1>5. ~(req[s].kind = "order" /\ Crosses(req[s]))
  BY <1>1, <1>2 DEF Refusal
<1>6. ~ShortOfShares(req[s])
  BY <1>1, <1>2 DEF Refusal
<1> QED BY <1>1, <1>3, <1>4, <1>5, <1>6 DEF Stale

\* The movements a trade asks to commit, and those of a placement that fills.
TradeMoves(r) ==
  LET d == q[0] - q[1]
  IN  <<MoveOf(r.user, r.outcome, r.side, r.quantity, d, NoKey)>>
      \o Cascade(AfterFill(r.outcome, r.side, r.quantity, d))

OrderMoves(r) ==
  LET d == q[0] - q[1]
      n == FillQuantity(OrderOf(r), d)
  IN  <<MoveOf(r.user, r.outcome, r.side, n, d, r.key)>> \o Cascade(AfterFill(r.outcome, r.side, n, d))

LEMMA TradeBatch ==
  ASSUME EveryLead, Core, NEW s \in Sessions, pc[s] = "locked", req[s].kind = "trade"
  PROVE  /\ req[s] \in Requests
         /\ TradeMoves(req[s])[1].user = req[s].user
         /\ TradeMoves(req[s])[1].outcome = req[s].outcome
         /\ TradeMoves(req[s])[1].side = req[s].side
         /\ TradeMoves(req[s])[1].quantity = req[s].quantity
         /\ TradeMoves(req[s])[1].order = NoKey
         /\ TradeMoves(req[s])[1].total = Price(req[s].outcome, req[s].side, req[s].quantity, q[0] - q[1])
         /\ \E n, leads : Batch(TradeMoves(req[s]), n, leads, orders, q[0] - q[1])
<1> DEFINE r == req[s]
           d == q[0] - q[1]
           own == MoveOf(r.user, r.outcome, r.side, r.quantity, d, NoKey)
           e == AfterFill(r.outcome, r.side, r.quantity, d)
           moves == <<own>> \o Cascade(e)
<1>1. r \in Requests /\ RowsSound(orders) /\ d \in Int
  BY LeadInt DEF Core, Quoted
<1>2. /\ r.user \in Users /\ r.outcome \in Outcomes /\ r.side \in Sides /\ r.quantity \in Nat \ {0}
  BY <1>1, RequestFields
<1>3. /\ own.user = r.user /\ own.outcome = r.outcome /\ own.side = r.side /\ own.quantity = r.quantity
      /\ own.order = NoKey /\ own.total = Price(r.outcome, r.side, r.quantity, d)
  BY DEF MoveOf
<1>4. own \in Move
  <2>1. Price(r.outcome, r.side, r.quantity, d) \in Nat
    BY <1>1, <1>2, PriceCovers
  <2> HIDE DEF d, r
  <2> QED BY <1>2, <2>1 DEF MoveOf, Move
<1>5. e \in Int
  <2> HIDE DEF d, r
  <2> QED BY <1>1, <1>2 DEF AfterFill, Lead, Signed
<1>6. Moved(own, d, e)
  <2> HIDE DEF d, r, own
  <2> QED BY <1>3 DEF Moved
<1>7. \A o \in Open : own.order # o.key
  <2>1. \A o \in Open : o.key \in Keys
    BY <1>1 DEF Open, RowsSound, RowSound, Order
  <2> QED BY <1>3, <2>1, RequestsAssumption
<1>8. orders \subseteq orders
  OBVIOUS
<1>9. moves = TradeMoves(r)
  BY DEF TradeMoves
<1> HIDE DEF own, d, e, r
<1>10. moves[1] = own /\ \E n, leads : Batch(moves, n, leads, orders, d)
  BY <1>1, <1>3, <1>4, <1>5, <1>6, <1>7, <1>8, BatchOf
<1> HIDE DEF moves
<1> QED BY <1>1, <1>3, <1>9, <1>10 DEF r, d

LEMMA OrderBatch ==
  ASSUME EveryLead, Core, NEW s \in Sessions, pc[s] = "locked", req[s].kind = "order",
         StoredOrder(req[s]) = {}, Executable(OrderOf(req[s]), q[0] - q[1])
  PROVE  /\ req[s] \in Requests
         /\ OrderMoves(req[s])[1].user = req[s].user
         /\ OrderMoves(req[s])[1].outcome = req[s].outcome
         /\ OrderMoves(req[s])[1].side = req[s].side
         /\ OrderMoves(req[s])[1].order = req[s].key
         /\ \E n, leads : Batch(OrderMoves(req[s]), n, leads, orders \cup {OrderOf(req[s])}, q[0] - q[1])
<1> DEFINE r == req[s]
           d == q[0] - q[1]
           o == OrderOf(r)
           k == FillQuantity(o, d)
           own == MoveOf(r.user, r.outcome, r.side, k, d, r.key)
           e == AfterFill(r.outcome, r.side, k, d)
           moves == <<own>> \o Cascade(e)
<1>1. Executable(o, d) /\ StoredOrder(r) = {} /\ r.kind = "order"
  OBVIOUS
<1>2. moves = OrderMoves(r)
  BY DEF OrderMoves
<1>3. r \in Requests /\ RowsSound(orders) /\ d \in Int
  BY LeadInt DEF Core, Quoted
<1>4. /\ RowSound(o) /\ o.status = "open" /\ RowsSound(orders \cup {o})
      /\ o.key = r.key /\ o.owner = r.user /\ o.outcome = r.outcome /\ o.side = r.side
      /\ \A x \in orders : x.key # r.key
  <2> HIDE DEF r
  <2> QED BY <1>1, <1>3, OrderSound
<1>5. own = FillOf(o, d)
  <2> HIDE DEF r, o, d
  <2> QED BY <1>4 DEF FillOf
<1>6. /\ FillOf(o, d) \in Move
      /\ FillOf(o, d).user = o.owner /\ FillOf(o, d).outcome = o.outcome
      /\ FillOf(o, d).side = o.side /\ FillOf(o, d).order = o.key
      /\ FillOf(o, d).quantity = FillQuantity(o, d)
      /\ FillOf(o, d).total = Price(o.outcome, o.side, FillQuantity(o, d), d)
      /\ LeadAfter(o, d) = AfterFill(o.outcome, o.side, FillQuantity(o, d), d)
      /\ LeadAfter(o, d) \in Int
  <2> HIDE DEF o, d
  <2> QED BY <1>1, <1>3, <1>4, FillSound
<1>7. own \in Move /\ own.user = r.user /\ own.outcome = r.outcome /\ own.side = r.side /\ own.order = r.key
  BY <1>4, <1>5, <1>6, Zenon
<1>8. e = LeadAfter(o, d) /\ e \in Int
  <2> HIDE DEF r, o, d
  <2> QED BY <1>4, <1>6
<1>9. Moved(own, d, e)
  <2> HIDE DEF r, o, d, own, e
  <2> QED BY <1>5, <1>6, <1>8 DEF Moved
<1>10. Fires(own, d, orders \cup {o})
  <2> HIDE DEF r, o, d, own
  <2> QED BY <1>1, <1>4, <1>5, <1>7 DEF Fires
<1>11. \A x \in Open : own.order # x.key
  <2> HIDE DEF own, r
  <2> QED BY <1>4, <1>7 DEF Open
<1> HIDE DEF own, d, e, r, o
<1>12. orders \subseteq orders \cup {o}
  OBVIOUS
<1>13. moves[1] = own /\ \E n, leads : Batch(moves, n, leads, orders \cup {o}, d)
  BY <1>3, <1>7, <1>8, <1>9, <1>10, <1>11, <1>12, BatchOf
<1> HIDE DEF moves
<1> QED BY <1>2, <1>3, <1>7, <1>13 DEF r, d, o

\* A trade commits a batch, or nothing.
LEMMA TradeCommits ==
  ASSUME EveryLead, Core, NEW s \in Sessions, Trade(s)
  PROVE  \/ UNCHANGED book
         \/ \E moves, n, leads : Committed(s, moves, n, leads, {})
<1> DEFINE r == req[s]
           moves == TradeMoves(r)
           refused == RefusedAt(moves, orders, 0, r.user)
<1>1. Admitted(s) /\ r.kind = "trade" /\ ((refused = {} /\ Write(r, moves, {})) \/ UNCHANGED book)
  BY DEF Trade, TradeMoves
<1>2. pc[s] = "locked" /\ ~Latched /\ ~ShortOfShares(r) /\ quote[s].version = version
  BY <1>1, AdmittedMeans
<1>3. /\ moves[1].user = r.user /\ moves[1].outcome = r.outcome /\ moves[1].side = r.side
      /\ moves[1].quantity = r.quantity /\ moves[1].order = NoKey
      /\ moves[1].total = Price(r.outcome, r.side, r.quantity, q[0] - q[1])
  BY <1>1, <1>2, TradeBatch
<1>4. PICK n, leads : Batch(moves, n, leads, orders, q[0] - q[1])
  BY <1>1, <1>2, TradeBatch
<1> HIDE DEF moves, refused
<1>5. ASSUME refused = {}, Write(r, moves, {}) PROVE Committed(s, moves, n, leads, {})
  <2>1. orders \cup {} = orders /\ RowsSound(orders)
    BY DEF Core
  <2> QED BY <1>1, <1>2, <1>3, <1>4, <1>5, <2>1 DEF Committed, refused
<1> QED BY <1>1, <1>5

\* So does an order that fills on arrival.
LEMMA PlaceCommits ==
  ASSUME EveryLead, Core, NEW s \in Sessions, PlaceAndFill(s)
  PROVE  \/ UNCHANGED book
         \/ \E moves, n, leads : Committed(s, moves, n, leads, {OrderOf(req[s])})
<1> DEFINE r == req[s]
           o == OrderOf(r)
           moves == OrderMoves(r)
           refused == RefusedAt(moves, orders \cup {o}, o.budget, r.user)
<1>1. /\ Admitted(s) /\ r.kind = "order" /\ Executable(o, q[0] - q[1])
      /\ ((refused = {} /\ Write(r, moves, {o})) \/ UNCHANGED book)
  BY DEF PlaceAndFill, OrderMoves
<1>2. /\ pc[s] = "locked" /\ ~Latched /\ ~ShortOfShares(r) /\ ~Crosses(r) /\ StoredOrder(r) = {}
  BY <1>1, AdmittedMeans DEF Stored
<1>3. /\ moves[1].user = r.user /\ moves[1].outcome = r.outcome /\ moves[1].side = r.side
      /\ moves[1].order = r.key
  BY <1>1, <1>2, OrderBatch
<1>4. PICK n, leads : Batch(moves, n, leads, orders \cup {o}, q[0] - q[1])
  BY <1>1, <1>2, OrderBatch
<1>5. RowsSound(orders) /\ r \in Requests
  BY <1>2 DEF Core, Quoted
<1>6. o.budget = BudgetOf(r)
  BY DEF OrderOf
<1> HIDE DEF moves, refused, o
<1>7. RowsSound(orders \cup {o})
  BY <1>1, <1>2, <1>5, OrderSound DEF o
<1>8. ASSUME refused = {}, Write(r, moves, {o}) PROVE Committed(s, moves, n, leads, {o})
  BY <1>1, <1>2, <1>3, <1>4, <1>6, <1>7, <1>8 DEF Committed, refused, o
<1>9. \E m, c, l : Committed(s, m, c, l, {o}) \/ UNCHANGED book
  BY <1>1, <1>8
<1> QED BY <1>9 DEF o

----------------------------------------------------------------------------
(* What a commit writes *)

\* What a batch comes to, one movement at a time.
LEMMA SharesUnroll ==
  ASSUME NEW n \in Nat, NEW moves \in [1..n -> Move], NEW i \in 0..n, NEW U, NEW o
  PROVE  /\ SharesTo(moves, 0, U, o) = 0 /\ SharesTo(moves, i, U, o) \in Int
         /\ i < n => SharesTo(moves, i + 1, U, o)
                     = SharesTo(moves, i, U, o)
                       + (IF moves[i + 1].user \in U /\ moves[i + 1].outcome = o
                          THEN Signed(moves[i + 1].side, moves[i + 1].quantity) ELSE 0)
<1> DEFINE F == [j \in DOMAIN moves |-> IF moves[j].user \in U /\ moves[j].outcome = o
                                        THEN Signed(moves[j].side, moves[j].quantity) ELSE 0]
<1>1. \A j \in 1..n : F[j] \in Int
  BY DEF Move, Signed
<1>2. \A j \in 0..n : SharesTo(moves, j, U, o) = SumFunctionOnSet(F, 1..j)
  BY DEF SharesTo
<1>3. i < n => i + 1 \in 1..n /\ i + 1 \in 0..n /\ 0 \in 0..n
  OBVIOUS
<1>4. i < n => F[i + 1] = (IF moves[i + 1].user \in U /\ moves[i + 1].outcome = o
                           THEN Signed(moves[i + 1].side, moves[i + 1].quantity) ELSE 0)
  BY <1>3
<1> HIDE DEF F
<1>5. /\ SumFunctionOnSet(F, 1..0) = 0 /\ SumFunctionOnSet(F, 1..i) \in Int
      /\ i < n => SumFunctionOnSet(F, 1..i + 1) = SumFunctionOnSet(F, 1..i) + F[i + 1]
  BY <1>1, SumsUnroll
<1>6. 0 \in 0..n
  OBVIOUS
<1> QED BY <1>2, <1>3, <1>4, <1>5, <1>6

LEMMA CashUnroll ==
  ASSUME NEW n \in Nat, NEW moves \in [1..n -> Move], NEW i \in 0..n, NEW u
  PROVE  /\ CashBy(moves, 0, u) = 0 /\ CashBy(moves, i, u) \in Int
         /\ i < n => CashBy(moves, i + 1, u)
                     = CashBy(moves, i, u) + (IF moves[i + 1].user = u THEN Cash(moves[i + 1]) ELSE 0)
<1> DEFINE F == [j \in DOMAIN moves |-> IF moves[j].user = u THEN Cash(moves[j]) ELSE 0]
<1>1. \A j \in 1..n : F[j] \in Int
  BY DEF Move, Cash
<1>2. \A j \in 0..n : CashBy(moves, j, u) = SumFunctionOnSet(F, 1..j)
  BY DEF CashBy
<1>3. i < n => i + 1 \in 1..n /\ i + 1 \in 0..n
  OBVIOUS
<1>4. i < n => F[i + 1] = (IF moves[i + 1].user = u THEN Cash(moves[i + 1]) ELSE 0)
  BY <1>3
<1> HIDE DEF F
<1>5. /\ SumFunctionOnSet(F, 1..0) = 0 /\ SumFunctionOnSet(F, 1..i) \in Int
      /\ i < n => SumFunctionOnSet(F, 1..i + 1) = SumFunctionOnSet(F, 1..i) + F[i + 1]
  BY <1>1, SumsUnroll
<1>6. 0 \in 0..n
  OBVIOUS
<1> QED BY <1>2, <1>3, <1>4, <1>5, <1>6

LEMMA PaidUnroll ==
  ASSUME NEW n \in Nat, NEW moves \in [1..n -> Move], NEW i \in 0..n
  PROVE  /\ PaidIn(moves, 0) = 0 /\ PaidIn(moves, i) \in Int
         /\ i < n => PaidIn(moves, i + 1) = PaidIn(moves, i) + -Cash(moves[i + 1])
<1> DEFINE F == [j \in DOMAIN moves |-> -Cash(moves[j])]
<1>1. \A j \in 1..n : F[j] \in Int
  BY DEF Move, Cash
<1>2. \A j \in 0..n : PaidIn(moves, j) = SumFunctionOnSet(F, 1..j)
  BY DEF PaidIn
<1>3. i < n => i + 1 \in 1..n /\ i + 1 \in 0..n
  OBVIOUS
<1>4. i < n => F[i + 1] = -Cash(moves[i + 1])
  BY <1>3
<1> HIDE DEF F
<1>5. /\ SumFunctionOnSet(F, 1..0) = 0 /\ SumFunctionOnSet(F, 1..i) \in Int
      /\ i < n => SumFunctionOnSet(F, 1..i + 1) = SumFunctionOnSet(F, 1..i) + F[i + 1]
  BY <1>1, SumsUnroll
<1>6. 0 \in 0..n
  OBVIOUS
<1> QED BY <1>2, <1>3, <1>4, <1>5, <1>6

----------------------------------------------------------------------------
(* What a commit leaves *)

\* What a commit leaves, in terms of its batch.
LEMMA WriteMeans ==
  ASSUME EveryLead, NEW s, NEW moves, NEW n, NEW leads, NEW brought, Committed(s, moves, n, leads, brought)
  PROVE  /\ n \in Nat \ {0} /\ n \in 0..n /\ moves \in [1..n -> Move] /\ Len(moves) = n
         /\ q' = [o \in Outcomes |-> q[o] + SharesTo(moves, n, Users, o)]
         /\ held' = [u \in Users |-> [o \in Outcomes |-> held[u][o] + SharesTo(moves, n, {u}, o)]]
         /\ funds' = [u \in Users |-> funds[u] + CashBy(moves, n, u)]
         /\ pool' = pool + PaidIn(moves, n)
         /\ version' = version + n
         /\ orders' = {After(o, moves) : o \in orders \cup brought}
         /\ RowsSound(orders')
         /\ result' = result
<1>1. Batch(moves, n, leads, orders \cup brought, q[0] - q[1]) /\ Write(req[s], moves, brought)
      /\ RowsSound(orders \cup brought)
  BY DEF Committed
<1>2. n \in Nat \ {0} /\ moves \in [1..n -> Move] /\ Len(moves) = n
  BY <1>1, BatchLists DEF Batch
<1>3. /\ q' = [o \in Outcomes |-> q[o] + SharesTo(moves, n, Users, o)]
      /\ held' = [u \in Users |-> [o \in Outcomes |-> held[u][o] + SharesTo(moves, n, {u}, o)]]
      /\ funds' = [u \in Users |-> funds[u] + CashBy(moves, n, u)]
      /\ pool' = pool + PaidIn(moves, n)
      /\ version' = version + n
      /\ result' = result
  BY <1>1, <1>2 DEF Write
<1>4. orders' = {After(o, moves) : o \in orders \cup brought}
  BY <1>1 DEF Write, After
<1>5. RowsSound({After(o, moves) : o \in orders \cup brought})
  BY <1>1, AfterRows
<1>6. RowsSound(orders')
  BY <1>4, <1>5
<1> QED BY <1>2, <1>3, <1>4, <1>6

\* A commit keeps the tables' types, and raises the version.
LEMMA WriteTypes ==
  ASSUME EveryLead, Core, NEW s, NEW moves, NEW n, NEW leads, NEW brought, Committed(s, moves, n, leads, brought)
  PROVE  /\ (q \in [Outcomes -> Int])' /\ (held \in [Users -> [Outcomes -> Int]])'
         /\ (funds \in [Users -> Int])' /\ (pool \in Int)' /\ (version \in Nat)' /\ version' > version
<1>1. /\ n \in Nat \ {0} /\ n \in 0..n /\ moves \in [1..n -> Move]
      /\ q' = [o \in Outcomes |-> q[o] + SharesTo(moves, n, Users, o)]
      /\ held' = [u \in Users |-> [o \in Outcomes |-> held[u][o] + SharesTo(moves, n, {u}, o)]]
      /\ funds' = [u \in Users |-> funds[u] + CashBy(moves, n, u)]
      /\ pool' = pool + PaidIn(moves, n)
      /\ version' = version + n
  BY WriteMeans
<1>2. n \in Nat
  BY <1>1
<1>3. \A U, o : SharesTo(moves, n, U, o) \in Int
  BY <1>1, <1>2, SharesUnroll
<1>4. \A u : CashBy(moves, n, u) \in Int
  BY <1>1, <1>2, CashUnroll
<1>5. PaidIn(moves, n) \in Int
  BY <1>1, <1>2, PaidUnroll
<1>6. /\ q \in [Outcomes -> Int] /\ version \in Nat /\ pool \in Int
      /\ held \in [Users -> [Outcomes -> Int]] /\ funds \in [Users -> Int]
  BY DEF Core
<1>7. q' \in [Outcomes -> Int]
  BY <1>1, <1>3, <1>6
<1>8. held' \in [Users -> [Outcomes -> Int]]
  BY <1>1, <1>3, <1>6
<1>9. funds' \in [Users -> Int]
  BY <1>1, <1>4, <1>6
<1>10. pool' \in Int /\ version' \in Nat /\ version' > version
  BY <1>1, <1>5, <1>6
<1> QED BY <1>7, <1>8, <1>9, <1>10

\* The transactions a commit writes, its movements' in turn.
LEMMA WritePosts ==
  ASSUME EveryLead, Core, NEW s \in Sessions, NEW moves, NEW n, NEW leads, NEW brought,
         Committed(s, moves, n, leads, brought)
  PROVE  /\ VersionsDense' /\ posted' \subseteq Entry
         /\ \A t \in posted' \ posted : t.key # NoKey =>
              req[s].kind = "trade" /\ t.key = req[s].key /\ t.total = moves[1].total
<1> DEFINE key(i) == IF i = 1 /\ req[s].kind = "trade" THEN req[s].key ELSE NoKey
           new(i) == [key |-> key(i), order |-> moves[i].order, user |-> moves[i].user,
                      outcome |-> moves[i].outcome, side |-> moves[i].side,
                      quantity |-> moves[i].quantity, total |-> moves[i].total, version |-> version + i]
<1>1. n \in Nat \ {0} /\ moves \in [1..n -> Move] /\ Len(moves) = n /\ version' = version + n
  BY WriteMeans
<1>2. posted' = posted \cup {new(i) : i \in 1..n}
  BY <1>1 DEF Committed, Write, VersionOf
<1>3. version \in Nat /\ posted \subseteq Entry /\ VersionsDense /\ req[s] \in Requests
  BY DEF Core, Committed, Quoted
<1>4. \A i \in 1..n : new(i).version = version + i /\ new(i).key = key(i) /\ new(i).total = moves[i].total
  OBVIOUS
<1>5. \A i \in 1..n : new(i) \in Entry
  <2> SUFFICES ASSUME NEW i \in 1..n PROVE new(i) \in Entry
    OBVIOUS
  <2>1. key(i) \in Keys \cup {NoKey}
    BY <1>3, RequestFields
  <2>2. version + i \in Nat
    BY <1>3
  <2>3. moves[i] \in Move
    BY <1>1
  <2>4. /\ moves[i].order \in Keys \cup {NoKey} /\ moves[i].user \in Users /\ moves[i].outcome \in Outcomes
        /\ moves[i].side \in Sides /\ moves[i].quantity \in Nat /\ moves[i].total \in Nat
    BY <2>3 DEF Move
  <2> HIDE DEF key
  <2> QED BY <2>1, <2>2, <2>4 DEF Entry
<1> HIDE DEF new
<1>6. posted' \subseteq Entry
  BY <1>2, <1>3, <1>5
<1>7. VersionsDense'
  <2>1. {t.version : t \in posted} = 1..version /\ \A t1, t2 \in posted : t1.version = t2.version => t1 = t2
    BY <1>3 DEF VersionsDense
  <2>2. \A t \in posted : t.version \in 1..version
    BY <2>1
  <2>3. {t.version : t \in posted'} = 1..version'
    <3>1. ASSUME NEW v \in 1..version' PROVE \E t \in posted' : t.version = v
      <4>1. CASE v <= version
        <5>1. v \in 1..version
          BY <1>3, <4>1
        <5>2. \E t \in posted : t.version = v
          BY <2>1, <5>1
        <5> QED BY <1>2, <5>2
      <4>2. CASE ~(v <= version)
        <5>1. v - version \in 1..n /\ version + (v - version) = v
          BY <1>1, <1>3, <4>2
        <5> QED BY <1>2, <1>4, <5>1
      <4> QED BY <4>1, <4>2
    <3>2. ASSUME NEW t \in posted' PROVE t.version \in 1..version'
      <4>1. CASE t \in posted
        <5>1. t.version \in 1..version
          BY <2>2, <4>1
        <5> QED BY <1>1, <1>3, <5>1
      <4>2. CASE \E i \in 1..n : t = new(i)
        <5>1. PICK i \in 1..n : t = new(i)
          BY <4>2
        <5>2. t.version = version + i
          BY <1>4, <5>1
        <5> QED BY <1>1, <1>3, <5>2
      <4> QED BY <1>2, <4>1, <4>2
    <3> QED BY <3>1, <3>2
  <2>4. \A t1, t2 \in posted' : t1.version = t2.version => t1 = t2
    <3> SUFFICES ASSUME NEW t1 \in posted', NEW t2 \in posted', t1.version = t2.version PROVE t1 = t2
      OBVIOUS
    <3>1. \A t \in posted' : t \in posted \/ \E i \in 1..n : t = new(i)
      BY <1>2
    <3>2. \A t \in posted, i \in 1..n : t.version # version + i
      <4>1. \A v \in 1..version, i \in 1..n : v # version + i
        BY <1>3
      <4> QED BY <2>2, <4>1
    <3>3. \A i, j \in 1..n : version + i = version + j => i = j
      BY <1>3
    <3> QED BY <1>4, <2>1, <3>1, <3>2, <3>3
  <2> QED BY <2>3, <2>4 DEF VersionsDense
<1>8. ASSUME NEW t \in posted' \ posted, t.key # NoKey
      PROVE  req[s].kind = "trade" /\ t.key = req[s].key /\ t.total = moves[1].total
  <2>1. PICK i \in 1..n : t = new(i)
    BY <1>2, <1>8
  <2>2. key(i) # NoKey /\ t.key = key(i) /\ t.total = moves[i].total
    BY <1>4, <1>8, <2>1
  <2> QED BY <2>2
<1> QED BY <1>6, <1>7, <1>8

----------------------------------------------------------------------------
(* Core is invariant *)

Clients ==
  /\ alarm \in BOOLEAN /\ pc \in [Sessions -> {"idle", "gate", "locked"}]
  /\ req \in [Sessions -> Requests \cup {NoRequest}]
  /\ quote \in [Sessions -> [version: Nat, total: Nat]]
  /\ \A s \in Sessions : Quoted(s)

Ledger ==
  /\ q \in [Outcomes -> Int] /\ version \in Nat /\ pool \in Int
  /\ held \in [Users -> [Outcomes -> Int]] /\ funds \in [Users -> Int]
  /\ posted \subseteq Entry /\ VersionsDense
  /\ result \in Outcomes \cup {NoResult} /\ gate \in {"open", "closed"} /\ swings \in 0..MaxSwings
  /\ RowsSound(orders)

LEMMA CoreParts == (Core <=> Clients /\ Ledger) /\ (Core' <=> Clients' /\ Ledger')
BY DEF Core, Clients, Ledger

\* The version tells of every change of price.
Ages == version' \in Nat /\ ((version' = version /\ q' = q) \/ version' > version)

LEMMA QuotedStays ==
  ASSUME Core, Ages, NEW s \in Sessions, pc'[s] = pc[s], req'[s] = req[s], quote'[s] = quote[s]
  PROVE  Quoted(s)'
<1>1. Quoted(s) /\ version \in Nat /\ quote[s].version \in Nat
  BY DEF Core
<1> QED BY <1>1 DEF Quoted, Ages

LEMMA SaySound ==
  ASSUME Core, NEW s \in Sessions, NEW what, Say(s, what), Ages
  PROVE  Clients'
<1>1. /\ pc \in [Sessions -> {"idle", "gate", "locked"}] /\ req \in [Sessions -> Requests \cup {NoRequest}]
      /\ quote \in [Sessions -> [version: Nat, total: Nat]] /\ version \in Nat
  BY DEF Core
<1>2. /\ alarm' = (what = "CascadeFillRefused") /\ pc' = [pc EXCEPT ![s] = "idle"]
      /\ req' = [req EXCEPT ![s] = NoRequest] /\ quote' = [quote EXCEPT ![s] = NoQuote]
  BY DEF Say
<1>3. NoQuote \in [version: Nat, total: Nat] /\ NoQuote.version = 0
  BY DEF NoQuote
<1>4. /\ alarm' \in BOOLEAN /\ pc' \in [Sessions -> {"idle", "gate", "locked"}]
      /\ req' \in [Sessions -> Requests \cup {NoRequest}]
           /\ quote' \in [Sessions -> [version: Nat, total: Nat]]
  BY <1>1, <1>2, <1>3
<1>5. ASSUME NEW x \in Sessions PROVE Quoted(x)'
  <2>1. CASE x = s
    <3>1. pc'[x] = "idle" /\ quote'[x].version = 0
      BY <1>1, <1>2, <1>3, <2>1
    <3> QED BY <1>1, <3>1 DEF Quoted, Ages
  <2>2. CASE x # s
    <3>1. pc'[x] = pc[x] /\ req'[x] = req[x] /\ quote'[x] = quote[x]
      BY <1>1, <1>2, <2>2
    <3> QED BY <3>1, QuotedStays
  <2> QED BY <2>1, <2>2
<1> QED BY <1>4, <1>5 DEF Clients

LEMMA HoldSound ==
  ASSUME Core, UNCHANGED client, alarm' \in BOOLEAN, Ages
  PROVE  Clients'
<1>1. \A s \in Sessions : Quoted(s)'
  BY QuotedStays DEF client
<1> QED BY <1>1 DEF Core, Clients, client

LEMMA AskSound ==
  ASSUME EveryLead, Core, NEW s \in Sessions, NEW r \in Requests, Ask(s, r)
  PROVE  Core'
<1>1. UNCHANGED <<book, world>> /\ pc[s] = "idle" /\ alarm' = FALSE
  BY DEF Ask, Silent
<1>2. Ledger'
  BY <1>1, CoreParts DEF Ledger, book, world, VersionsDense
<1>3. Ages
  BY <1>1 DEF Ages, book, Core
<1>4. CASE UNCHANGED client
  BY <1>1, <1>2, <1>3, <1>4, HoldSound, CoreParts
<1>5. CASE ~UNCHANGED client
  <2> DEFINE shown == IF r.kind = "order" THEN NoQuote
                      ELSE [version |-> version,
                            total |-> Price(r.outcome, r.side, r.quantity, q[0] - q[1])]
  <2>1. /\ req' = [req EXCEPT ![s] = r] /\ quote' = [quote EXCEPT ![s] = shown]
        /\ pc' = [pc EXCEPT ![s] = "gate"]
    BY <1>5 DEF Ask
  <2>2. /\ pc \in [Sessions -> {"idle", "gate", "locked"}] /\ req \in [Sessions -> Requests \cup {NoRequest}]
        /\ quote \in [Sessions -> [version: Nat, total: Nat]] /\ version \in Nat /\ q[0] - q[1] \in Int
    BY LeadInt DEF Core
  <2>3. /\ r.kind \in {"trade", "order"} /\ r.outcome \in Outcomes /\ r.side \in Sides
             /\ r.quantity \in Nat \ {0}
    BY RequestFields
  <2>4. Price(r.outcome, r.side, r.quantity, q[0] - q[1]) \in Nat
    BY <2>2, <2>3, PriceCovers
  <2>5. /\ shown \in [version: Nat, total: Nat] /\ shown.version <= version
        /\ r.kind = "trade" => shown.total = Price(r.outcome, r.side, r.quantity, q[0] - q[1])
    BY <2>2, <2>3, <2>4 DEF NoQuote
  <2> HIDE DEF shown
  <2>6. /\ pc' \in [Sessions -> {"idle", "gate", "locked"}]
             /\ req' \in [Sessions -> Requests \cup {NoRequest}]
        /\ quote' \in [Sessions -> [version: Nat, total: Nat]]
    BY <2>1, <2>2, <2>5
  <2>7. ASSUME NEW x \in Sessions PROVE Quoted(x)'
    <3>1. CASE x = s
      <4>1. req'[x] = r /\ quote'[x] = shown /\ version' = version /\ q' = q
        BY <1>1, <2>1, <2>2, <3>1 DEF book
      <4> QED BY <2>5, <4>1 DEF Quoted
    <3>2. CASE x # s
      <4>1. pc'[x] = pc[x] /\ req'[x] = req[x] /\ quote'[x] = quote[x]
        BY <2>1, <2>2, <3>2
      <4> QED BY <1>3, <4>1, QuotedStays
    <3> QED BY <3>1, <3>2
  <2>8. Clients'
    BY <1>1, <2>6, <2>7 DEF Clients
  <2> QED BY <1>2, <2>8, CoreParts
<1> QED BY <1>4, <1>5

\* A cancelled row takes its place among the rows.
LEMMA CancelRows ==
  ASSUME NEW rows, RowsSound(rows), NEW o \in rows
  PROVE  /\ RowsSound((rows \ {o}) \cup {[o EXCEPT !.status = "cancelled"]})
         /\ RowSound([o EXCEPT !.status = "cancelled"])
         /\ [o EXCEPT !.status = "cancelled"].status = "cancelled"
         /\ [o EXCEPT !.status = "cancelled"].key = o.key
<1> DEFINE c == [o EXCEPT !.status = "cancelled"]
           f == [x \in rows |-> IF x = o THEN c ELSE x]
           F == [x \in {f[y] : y \in rows} |-> 0]
           R == (rows \ {o}) \cup {c}
<1>1. RowSound(o) /\ o \in Order
  BY DEF RowsSound, RowSound
<1>2. o = [key |-> o.key, seq |-> o.seq, owner |-> o.owner, outcome |-> o.outcome, side |-> o.side,
           limit |-> o.limit, quantity |-> o.quantity, filled |-> o.filled, budget |-> o.budget,
           spent |-> o.spent, status |-> o.status]
  BY <1>1 DEF Order
<1>3. /\ c.key = o.key /\ c.seq = o.seq /\ c.owner = o.owner /\ c.outcome = o.outcome /\ c.side = o.side
      /\ c.limit = o.limit /\ c.quantity = o.quantity /\ c.filled = o.filled /\ c.budget = o.budget
      /\ c.spent = o.spent /\ c.status = "cancelled"
  BY <1>2
<1>4. c \in Order
  <2>1. "cancelled" \in {"open", "filled", "cancelled"}
    OBVIOUS
  <2> QED BY <1>1, <2>1 DEF Order
<1> HIDE DEF c
<1>5. RowSound(c)
  BY <1>1, <1>3, <1>4 DEF RowSound
<1>6. R = {f[x] : x \in rows} /\ \A x \in rows : f[x].key = x.key /\ f[x].seq = x.seq /\ RowSound(f[x])
  <2>1. \A x \in rows : RowSound(x)
    BY DEF RowsSound
  <2> QED BY <1>3, <1>5, <2>1
<1>7. \A x \in rows : F[f[x]] \in Int
  OBVIOUS
<1> HIDE DEF f, F, R
<1>8. \A x, y \in rows : f[x] = f[y] => x = y
  BY <1>6 DEF RowsSound
<1>9. IsFiniteSet(rows)
  BY DEF RowsSound
<1>10. IsFiniteSet({f[x] : x \in rows}) /\ Cardinality({f[x] : x \in rows}) = Cardinality(rows)
  BY <1>7, <1>8, <1>9, SumImage
<1>11. \A x \in R : RowSound(x) /\ x.seq < Cardinality(R)
  BY <1>6, <1>10 DEF RowsSound
<1>12. \A a, b \in R : a.key = b.key \/ a.seq = b.seq => a = b
  BY <1>6 DEF RowsSound
<1>13. RowsSound(R)
  BY <1>6, <1>10, <1>11, <1>12 DEF RowsSound
<1> QED BY <1>3, <1>5, <1>13 DEF c, R

----------------------------------------------------------------------------
(* The steps *)

LEMMA CommitSound ==
  ASSUME EveryLead, Core, NEW s \in Sessions, NEW what, Say(s, what), UNCHANGED world,
         NEW moves, NEW n, NEW leads, NEW brought, Committed(s, moves, n, leads, brought)
  PROVE  Core'
<1>1. /\ (q \in [Outcomes -> Int])' /\ (held \in [Users -> [Outcomes -> Int]])'
      /\ (funds \in [Users -> Int])' /\ (pool \in Int)' /\ (version \in Nat)' /\ version' > version
  BY WriteTypes
<1>2. VersionsDense' /\ posted' \subseteq Entry
  BY WritePosts
<1>3. result' = result /\ RowsSound(orders')
  BY WriteMeans
<1>4. result' \in Outcomes \cup {NoResult} /\ gate' \in {"open", "closed"} /\ swings' \in 0..MaxSwings
  BY <1>3 DEF Core, world
<1>5. Ledger'
  BY <1>1, <1>2, <1>3, <1>4 DEF Ledger
<1>6. Clients'
  BY <1>1, SaySound DEF Ages
<1> QED BY <1>5, <1>6, CoreParts

LEMMA StaySound ==
  ASSUME Core, NEW s \in Sessions, NEW what, Say(s, what), UNCHANGED book, UNCHANGED world
  PROVE  Core'
<1>1. Ledger'
  BY DEF Core, Ledger, book, world, VersionsDense
<1>2. Ages
  BY DEF Core, Ages, book
<1>3. Clients'
  BY <1>2, SaySound
<1> QED BY <1>1, <1>3, CoreParts

LEMMA TradeSound ==
  ASSUME EveryLead, Core, NEW s \in Sessions, Trade(s)
  PROVE  Core'
<1>1. UNCHANGED world /\ \E what : Say(s, what)
  BY DEF Trade
<1>2. PICK what : Say(s, what)
  BY <1>1
<1>3. CASE UNCHANGED book
  BY <1>1, <1>2, <1>3, StaySound
<1>4. CASE \E moves, n, leads : Committed(s, moves, n, leads, {})
  BY <1>1, <1>2, <1>4, CommitSound
<1> QED BY <1>3, <1>4, TradeCommits

LEMMA FillNowSound ==
  ASSUME EveryLead, Core, NEW s \in Sessions, PlaceAndFill(s)
  PROVE  Core'
<1>1. UNCHANGED world /\ \E what : Say(s, what)
  BY DEF PlaceAndFill
<1>2. PICK what : Say(s, what)
  BY <1>1
<1>3. CASE UNCHANGED book
  BY <1>1, <1>2, <1>3, StaySound
<1>4. CASE \E moves, n, leads : Committed(s, moves, n, leads, {OrderOf(req[s])})
  BY <1>1, <1>2, <1>4, CommitSound
<1> QED BY <1>3, <1>4, PlaceCommits

\* A placement that rests: its row joins the others and nothing else moves.
Rested(s) ==
  /\ req[s] \in Requests /\ req[s].kind = "order" /\ StoredOrder(req[s]) = {} /\ ~Latched
  /\ ~ShortOfShares(req[s]) /\ ~Crosses(req[s])
  /\ ~Executable(OrderOf(req[s]), q[0] - q[1]) /\ ~DoesNotFit(OrderOf(req[s]))
  /\ orders' = orders \cup {OrderOf(req[s])}
  /\ UNCHANGED <<q, version, pool, held, funds, posted, result>>

\* An order that does not fill on arrival rests, or nothing changes.
LEMMA RestMeans ==
  ASSUME Core, NEW s \in Sessions, PlaceAndRest(s)
  PROVE  /\ UNCHANGED world /\ \E what : Say(s, what) /\ (what = "placed" \/ what = "InsufficientFunds")
         /\ UNCHANGED book \/ Rested(s)
<1>1. /\ Admitted(s) /\ req[s].kind = "order" /\ ~Executable(OrderOf(req[s]), q[0] - q[1])
      /\ UNCHANGED world
      /\ \/ DoesNotFit(OrderOf(req[s])) /\ Say(s, "InsufficientFunds") /\ UNCHANGED book
         \/ /\ ~DoesNotFit(OrderOf(req[s])) /\ Say(s, "placed")
            /\ orders' = orders \cup {OrderOf(req[s])}
            /\ UNCHANGED <<q, version, pool, held, funds, posted, result>>
  BY DEF PlaceAndRest
<1>2. pc[s] = "locked" /\ ~Stored(req[s]) /\ ~Latched /\ ~ShortOfShares(req[s]) /\ ~Crosses(req[s])
  BY <1>1, AdmittedMeans
<1>3. req[s] \in Requests /\ StoredOrder(req[s]) = {}
  BY <1>1, <1>2 DEF Core, Quoted, Stored
<1> QED BY <1>1, <1>2, <1>3 DEF Rested

LEMMA RestSound ==
  ASSUME Core, NEW s \in Sessions, PlaceAndRest(s)
  PROVE  Core'
<1>1. UNCHANGED world /\ (UNCHANGED book \/ Rested(s))
  BY RestMeans
<1>2. PICK what : Say(s, what)
  BY RestMeans
<1>3. CASE UNCHANGED book
  BY <1>2, <1>3, RestMeans, StaySound
<1>4. CASE Rested(s)
  <2>1. RowsSound(orders')
    BY <1>4, OrderSound DEF Core, Rested
  <2>2. UNCHANGED world
    BY RestMeans
  <2>3. Ledger'
    BY <1>4, <2>1, <2>2 DEF Core, Ledger, Rested, world, VersionsDense
  <2>4. Ages
    BY <1>4 DEF Core, Ages, Rested
  <2> QED BY <1>2, <2>3, <2>4, SaySound, CoreParts
<1> QED BY <1>1, <1>3, <1>4

LEMMA CoreInit == EveryLead /\ Init => Core
<1> SUFFICES ASSUME EveryLead, Init PROVE Core
  OBVIOUS
<1>1. /\ q = [o \in Outcomes |-> 0] /\ version = 0 /\ pool = Subsidy
      /\ held = [u \in Users |-> [o \in Outcomes |-> 0]] /\ funds = [u \in Users |-> Grant]
      /\ orders = {} /\ posted = {} /\ result = NoResult /\ gate = "open" /\ swings = 0
      /\ pc = [s \in Sessions |-> "idle"] /\ req = [s \in Sessions |-> NoRequest]
      /\ quote = [s \in Sessions |-> NoQuote] /\ alarm = FALSE
  BY DEF Init
<1>2. Grant \in Nat /\ Subsidy \in Int /\ MaxSwings \in Nat
  BY UsersAssumption
<1>3. RowsSound(orders)
  BY <1>1, FS_EmptySet DEF RowsSound
<1>4. VersionsDense
  <2>1. 1..0 = {}
    OBVIOUS
  <2> QED BY <1>1, <2>1 DEF VersionsDense
<1>5. NoQuote \in [version: Nat, total: Nat] /\ NoQuote.version = 0
  BY DEF NoQuote
<1>6. Ledger
  BY <1>1, <1>2, <1>3, <1>4 DEF Ledger
<1>7. \A s \in Sessions : Quoted(s)
  BY <1>1, <1>5 DEF Quoted
<1>8. Clients
  BY <1>1, <1>5, <1>7 DEF Clients
<1> QED BY <1>6, <1>8, CoreParts

\* Every step keeps Core.
LEMMA CoreNext == EveryLead /\ Core /\ [Next]_vars => Core'
<1> SUFFICES ASSUME EveryLead, Core, [Next]_vars PROVE Core'
  OBVIOUS
<1>1. CASE UNCHANGED vars
  <2>1. UNCHANGED book /\ UNCHANGED world /\ UNCHANGED client /\ alarm' = alarm
    BY <1>1 DEF vars
  <2>2. Ledger' /\ Ages /\ alarm' \in BOOLEAN
    BY <2>1 DEF Core, Ledger, Ages, book, world, VersionsDense
  <2> QED BY <2>1, <2>2, HoldSound, CoreParts
<1>2. ASSUME NEW s \in Sessions, Step(s) PROVE Core'
  <2>1. CASE AccountRefused(s)
    BY <2>1, StaySound DEF AccountRefused, book, world
  <2>2. CASE CheckGate(s)
    <3>1. UNCHANGED book /\ UNCHANGED world /\ pc[s] = "gate"
      BY <2>2 DEF CheckGate, book, world
    <3>2. CASE Say(s, "MarketClosed")
      BY <3>1, <3>2, StaySound
    <3>3. CASE pc' = [pc EXCEPT ![s] = "locked"] /\ Silent /\ UNCHANGED <<req, quote>>
      <4>1. Ledger' /\ Ages
        BY <3>1 DEF Core, Ledger, Ages, book, world, VersionsDense
      <4>2. pc \in [Sessions -> {"idle", "gate", "locked"}]
              /\ pc' \in [Sessions -> {"idle", "gate", "locked"}]
        BY <3>3 DEF Core
      <4>3. ASSUME NEW x \in Sessions PROVE Quoted(x)'
        <5>1. Quoted(x) /\ req'[x] = req[x] /\ quote'[x] = quote[x] /\ version' = version /\ q' = q
          BY <3>1, <3>3 DEF Core, book
        <5>2. pc'[x] # "idle" => pc[x] # "idle"
          BY <3>1, <3>3, <4>2
        <5> QED BY <5>1, <5>2 DEF Quoted
      <4>4. Clients'
        BY <3>3, <4>2, <4>3 DEF Clients, Core, Silent
      <4> QED BY <4>1, <4>4, CoreParts
    <3> QED BY <2>2, <3>2, <3>3 DEF CheckGate
  <2>3. CASE Refuse(s)
    <3>1. UNCHANGED book /\ UNCHANGED world /\ \E what : Say(s, what)
      BY <2>3 DEF Refuse, book, world
    <3> QED BY <3>1, StaySound
  <2>4. CASE Abort(s)
    BY <2>4, StaySound DEF Abort, book, world
  <2> QED BY <1>2, <2>1, <2>2, <2>3, <2>4, TradeSound, FillNowSound, RestSound DEF Step
<1>3. ASSUME NEW s \in Sessions, NEW r \in Requests, Ask(s, r) PROVE Core'
  BY <1>3, AskSound
<1>4. CASE Cancel
  <2>1. PICK o \in orders : orders' = (orders \ {o}) \cup {[o EXCEPT !.status = "cancelled"]}
    BY <1>4 DEF Cancel
  <2>2. RowsSound(orders')
    BY <2>1, CancelRows DEF Core
  <2>3. Ledger' /\ Ages /\ UNCHANGED client /\ alarm' \in BOOLEAN
    BY <1>4, <2>2 DEF Cancel, Core, Ledger, Ages, world, client, Silent, VersionsDense
  <2> QED BY <2>3, HoldSound, CoreParts
<1>5. CASE Close
  <2>1. Ledger' /\ Ages /\ UNCHANGED client /\ alarm' \in BOOLEAN
    BY <1>5 DEF Close, Core, Ledger, Ages, book, client, Silent, VersionsDense
  <2> QED BY <2>1, HoldSound, CoreParts
<1>6. CASE TradeElsewhere
  <2>1. PICK u \in Users, n \in Swings : funds' = [funds EXCEPT ![u] = @ + n]
    BY <1>6 DEF TradeElsewhere
  <2>2. funds' \in [Users -> Int]
    BY <2>1, UsersAssumption DEF Core
  <2>3. swings' \in 0..MaxSwings
    BY <1>6, UsersAssumption DEF TradeElsewhere, Core
  <2>4. Ledger' /\ Ages /\ UNCHANGED client /\ alarm' \in BOOLEAN
    BY <1>6, <2>2, <2>3 DEF TradeElsewhere, Core, Ledger, Ages, client, Silent, VersionsDense
  <2> QED BY <2>4, HoldSound, CoreParts
<1>7. CASE Settle
  <2>1. PICK w \in Outcomes : result' = w /\ funds' = [u \in Users |-> funds[u] + Share * held[u][w]]
    BY <1>7 DEF Settle
  <2>2. funds' \in [Users -> Int]
    <3>1. \A u \in Users : funds[u] \in Int /\ held[u][w] \in Int /\ Share \in Int
      BY ScaleAssumption DEF Core
    <3>2. \A u \in Users : funds[u] + Share * held[u][w] \in Int
      BY <3>1
    <3> QED BY <2>1, <3>2
  <2>3. /\ pool' = 0 /\ UNCHANGED <<q, version, held, orders, posted>> /\ UNCHANGED world
        /\ UNCHANGED client /\ alarm' = FALSE
    BY <1>7 DEF Settle, Silent
  <2>4. result' \in Outcomes \cup {NoResult} /\ pool' \in Int
    BY <2>1, <2>3
  <2>5. Ledger' /\ Ages
    BY <2>2, <2>3, <2>4 DEF Core, Ledger, Ages, world, VersionsDense
  <2> QED BY <2>3, <2>5, HoldSound, CoreParts
<1> QED BY <1>1, <1>2, <1>3, <1>4, <1>5, <1>6, <1>7 DEF Next

\* The rows, the versions and the clients' quotes are sound in every state.
LEMMA CoreAlways == EveryLead => (Spec => []Core)
<1> SUFFICES ASSUME EveryLead PROVE Spec => []Core
  OBVIOUS
<1>1. Init => Core
  BY CoreInit
<1>2. Core /\ [Next]_vars => Core'
  BY CoreNext
<1> QED BY <1>1, <1>2, PTL DEF Spec

\* The versions of the trades and fills are 1 to the book's, each once, for any
\* cascades (write_trade bumps the counter once per movement).
THEOREM VersionsStayDense == EveryLead => (Spec => []VersionsDense)
<1> SUFFICES ASSUME EveryLead PROVE Spec => []VersionsDense
  OBVIOUS
<1>1. Core => VersionsDense
  BY DEF Core
<1>2. Spec => []Core
  BY CoreAlways
<1> QED BY <1>1, <1>2, PTL

LEMMA StaleStep ==
  ASSUME EveryLead, Core, [Next]_vars
  PROVE  [/\ \A t \in posted' \ posted : t.key # NoKey =>
               \E s \in Sessions : /\ req[s] # NoRequest /\ req'[s] = NoRequest
                                   /\ req[s].key = t.key /\ quote[s].total = t.total
          /\ result # NoResult => UNCHANGED <<q, version, held, orders, posted, result>>]_vars
<1> DEFINE Shown(t) == \E s \in Sessions : /\ req[s] # NoRequest /\ req'[s] = NoRequest
                                          /\ req[s].key = t.key /\ quote[s].total = t.total
           Kept == /\ \A t \in posted' \ posted : t.key # NoKey => Shown(t)
                   /\ result # NoResult => UNCHANGED <<q, version, held, orders, posted, result>>
<1>1. ASSUME posted' = posted, result # NoResult => UNCHANGED <<q, version, held, orders, result>>
      PROVE  Kept
  BY <1>1
<1>2. ASSUME UNCHANGED book PROVE Kept
  BY <1>2 DEF book
<1>3. ASSUME NEW s \in Sessions, NEW what, Say(s, what), NEW moves, NEW n, NEW leads, NEW brought,
             Committed(s, moves, n, leads, brought)
      PROVE  Kept
  <2>1. result = NoResult /\ pc[s] = "locked"
    BY <1>3 DEF Committed, Latched
  <2>2. req[s] \in Requests /\ req[s] # NoRequest
    BY <2>1, RequestFields DEF Core, Quoted
  <2>3. req'[s] = NoRequest
    BY <1>3 DEF Say, Core
  <2>4. req[s].kind = "trade" => moves[1].total = quote[s].total
    BY <1>3, <2>1 DEF Committed, Core, Quoted
  <2>5. ASSUME NEW t \in posted' \ posted, t.key # NoKey PROVE Shown(t)
    <3>1. req[s].kind = "trade" /\ t.key = req[s].key /\ t.total = moves[1].total
      BY <1>3, <2>5, WritePosts
    <3> QED BY <2>2, <2>3, <2>4, <3>1
  <2> QED BY <2>1, <2>5
<1>4. CASE UNCHANGED vars
  BY <1>4
<1>5. ASSUME NEW s \in Sessions, Step(s) PROVE Kept
  <2>1. CASE AccountRefused(s) \/ CheckGate(s) \/ Refuse(s) \/ Abort(s)
    <3>1. UNCHANGED book
      BY <2>1 DEF AccountRefused, CheckGate, Refuse, Abort, book
    <3> QED BY <1>2, <3>1
  <2>2. CASE Trade(s)
    <3>1. \E what : Say(s, what)
      BY <2>2 DEF Trade
    <3> HIDE DEF Kept
    <3> QED BY <1>2, <1>3, <2>2, <3>1, TradeCommits
  <2>3. CASE PlaceAndFill(s)
    <3>1. \E what : Say(s, what)
      BY <2>3 DEF PlaceAndFill
    <3> HIDE DEF Kept
    <3> QED BY <1>2, <1>3, <2>3, <3>1, PlaceCommits
  <2>4. CASE PlaceAndRest(s)
    <3>1. CASE Rested(s)
      <4>1. posted' = posted /\ result = NoResult
        BY <3>1 DEF Rested, Latched
      <4> QED BY <1>1, <4>1
    <3> QED BY <1>2, <2>4, <3>1, RestMeans
  <2> QED BY <1>5, <2>1, <2>2, <2>3, <2>4 DEF Step
<1>6. ASSUME NEW s \in Sessions, NEW r \in Requests, Ask(s, r) PROVE Kept
  BY <1>2, <1>6 DEF Ask, book
<1>7. ASSUME Cancel PROVE Kept
  <2>1. posted' = posted /\ result = NoResult
    BY <1>7 DEF Cancel, Live
  <2> QED BY <1>1, <2>1
<1>8. ASSUME Close PROVE Kept
  BY <1>2, <1>8 DEF Close, book
<1>9. ASSUME TradeElsewhere PROVE Kept
  BY <1>1, <1>9 DEF TradeElsewhere
<1>10. ASSUME Settle PROVE Kept
  <2>1. posted' = posted /\ result = NoResult
    BY <1>10 DEF Settle, Latched
  <2> QED BY <1>1, <2>1
<1> HIDE DEF Kept
<1>11. ASSUME Next PROVE Kept
  BY <1>5, <1>6, <1>7, <1>8, <1>9, <1>10, <1>11 DEF Next
<1>12. CASE Next
  BY <1>11, <1>12 DEF Kept
<1> QED BY <1>4, <1>12

\* A trade charges what its client was last shown or is refused, and nothing
\* trades, fills or rests once a result is recorded (the strict state_version
\* check and the latch, read under the book lock).
THEOREM NothingCommitsStale == EveryLead => (Spec => NothingStale)
<1> SUFFICES ASSUME EveryLead PROVE Spec => NothingStale
  OBVIOUS
<1>1. Core /\ [Next]_vars =>
        [/\ \A t \in posted' \ posted : t.key # NoKey =>
               \E s \in Sessions : /\ req[s] # NoRequest /\ req'[s] = NoRequest
                                   /\ req[s].key = t.key /\ quote[s].total = t.total
         /\ result # NoResult => UNCHANGED <<q, version, held, orders, posted, result>>]_vars
  BY StaleStep
<1>2. Spec => []Core
  BY CoreAlways
<1> QED BY <1>1, <1>2, PTL DEF Spec, NothingStale

----------------------------------------------------------------------------
(* What a batch takes from the rows *)

\* D is what each movement takes from the row it fills, F's before the batch and
\* G's after it.
Drains(moves, n, rows, F, G, D) ==
  /\ \A o \in rows : F[o] \in Int /\ G[o] \in Int
  /\ \A o \in rows : (\A i \in 1..n : moves[i].order # o.key) => G[o] = F[o]
  /\ \A i \in 1..n : D[i] \in Int /\ (moves[i].order = NoKey => D[i] = 0)
  /\ \A i \in 1..n : \A o \in rows : moves[i].order = o.key => D[i] = F[o] - G[o]

\* A sum over the rows falls by as much.
LEMMA BatchFalls ==
  ASSUME NEW moves, NEW n, NEW leads, NEW rows, NEW d, Batch(moves, n, leads, rows, d),
         RowsSound(rows), NEW F, NEW G, NEW D, Drains(moves, n, rows, F, G, D)
  PROVE  /\ SumFunctionOnSet(G, rows) = SumFunctionOnSet(F, rows) - SumFunctionOnSet(D, 1..n)
         /\ SumFunctionOnSet(F, rows) \in Int /\ SumFunctionOnSet(D, 1..n) \in Int
<1> DEFINE t == [i \in 0..n |-> {o \in rows : \E j \in 1..i : moves[j].order = o.key}]
<1>1. n \in Nat /\ n \in 0..n /\ IsFiniteSet(rows)
  BY BatchLists DEF RowsSound
<1>2. \A o \in rows : o.key # NoKey
  BY RequestsAssumption DEF RowsSound, RowSound, Order
<1>3. FallsInTurn(rows, F, G, n, D, t)
  <2>1. t[0] = {} /\ \A i \in 0..n : t[i] \in SUBSET rows
    <3>1. 0 \in 0..n /\ 1..0 = {}
      BY <1>1
    <3> QED BY <3>1
  <2>2. ASSUME NEW i \in 0..n, i < n
        PROVE  \/ t[i + 1] = t[i] /\ D[i + 1] = 0
               \/ \E x \in rows \ t[i] : t[i + 1] = t[i] \cup {x} /\ D[i + 1] = F[x] - G[x]
    <3>1. i + 1 \in 1..n /\ i + 1 \in 0..n /\ 1..i + 1 = 1..i \cup {i + 1} /\ i + 1 \notin 1..i
            /\ 1..i \subseteq 1..n
      BY <1>1, <2>2
    <3>2. t[i + 1] = t[i] \cup {o \in rows : moves[i + 1].order = o.key}
      BY <3>1
    <3>3. CASE moves[i + 1].order = NoKey
      <4>1. {o \in rows : moves[i + 1].order = o.key} = {}
        BY <1>2, <3>3
      <4>2. D[i + 1] = 0
        BY <3>1, <3>3 DEF Drains
      <4> QED BY <3>2, <4>1, <4>2
    <3>4. CASE moves[i + 1].order # NoKey
      <4>1. PICK x \in rows : moves[i + 1].order = x.key
        BY <3>1, <3>4, BatchFills
      <4>2. {o \in rows : moves[i + 1].order = o.key} = {x}
        BY <4>1 DEF RowsSound
      <4>3. x \notin t[i]
        <5>1. \A j \in 1..n : moves[i + 1].order = moves[j].order => i + 1 = j
          BY <3>1, BatchFills
        <5>2. \A j \in 1..i : moves[j].order # x.key
          BY <3>1, <4>1, <5>1
        <5> QED BY <5>2
      <4>4. D[i + 1] = F[x] - G[x]
        BY <3>1, <4>1 DEF Drains
      <4> HIDE DEF t
      <4> QED BY <3>2, <4>2, <4>3, <4>4
    <3> QED BY <3>3, <3>4
  <2> HIDE DEF t
  <2> QED BY <2>1, <2>2 DEF FallsInTurn
<1> DEFINE H == [x \in rows |-> IF x \in t[n] THEN G[x] ELSE F[x]]
<1>4. \A x \in rows : H[x] = G[x]
  BY <1>1 DEF Drains
<1> HIDE DEF t
<1>5. (\A i \in 1..n : D[i] \in Int) /\ \A o \in rows : F[o] \in Int /\ G[o] \in Int
  BY DEF Drains
<1>6. \A i \in 0..n : SumFunctionOnSet([x \in rows |-> IF x \in t[i] THEN G[x] ELSE F[x]], rows)
                      = SumFunctionOnSet(F, rows) - SumFunctionOnSet(D, 1..i)
  BY <1>1, <1>3, <1>5, SumFalls
<1>7. SumFunctionOnSet(H, rows) = SumFunctionOnSet(F, rows) - SumFunctionOnSet(D, 1..n)
  BY <1>1, <1>6
<1> HIDE DEF H
<1>8. SumFunctionOnSet(H, rows) = SumFunctionOnSet(G, rows)
  BY <1>1, <1>4, SumSame
<1>9. SumFunctionOnSet(F, rows) \in Int /\ SumFunctionOnSet(D, 1..n) \in Int
  <2>2. SumFunctionOnSet(F, rows) \in Int
    BY <1>1, <1>5, SumInt
  <2>3. SumFunctionOnSet(D, 1..n) \in Int
    BY <1>1, <1>5, SumsUnroll
  <2> QED BY <2>2, <2>3
<1> QED BY <1>7, <1>8, <1>9

\* A sum over the rows a batch leaves is one over the rows it found.
LEMMA SumAfter ==
  ASSUME EveryLead, NEW moves, NEW n, NEW leads, NEW rows, NEW d, Batch(moves, n, leads, rows, d),
         RowsSound(rows), NEW F, \A o \in rows : F[After(o, moves)] \in Int
  PROVE  SumFunctionOnSet(F, {After(o, moves) : o \in rows})
         = SumFunctionOnSet([o \in rows |-> F[After(o, moves)]], rows)
<1> DEFINE f == [o \in rows |-> After(o, moves)]
<1>1. \A o \in rows : f[o].key = o.key
  BY AfterRow
<1>2. /\ {After(o, moves) : o \in rows} = {f[o] : o \in rows}
      /\ [o \in rows |-> F[After(o, moves)]] = [o \in rows |-> F[f[o]]]
      /\ \A o \in rows : F[f[o]] \in Int
  OBVIOUS
<1> HIDE DEF f
<1>3. \A x, y \in rows : f[x] = f[y] => x = y
  BY <1>1 DEF RowsSound
<1>4. IsFiniteSet(rows)
  BY DEF RowsSound
<1>5. SumFunctionOnSet(F, {f[o] : o \in rows}) = SumFunctionOnSet([o \in rows |-> F[f[o]]], rows)
  BY <1>2, <1>3, <1>4, SumImage
<1> QED BY <1>2, <1>5

\* What a user's orders among these rows hold of their money.
LeftOf(rows, u) == SumFunctionOnSet([o \in rows |-> IF o.owner = u THEN Left(o) ELSE 0], rows)

LEMMA LeftNat ==
  ASSUME NEW o, RowSound(o)
  PROVE  Left(o) \in Nat /\ o.owner \in Users
<1>1. o.side = "buy" => o.budget \in Nat /\ o.spent \in Nat /\ o.spent <= o.budget
  BY Covered
<1> QED BY <1>1 DEF Left, RowSound, Order

\* What a user has set aside falls by what the batch drops of it.
LEMMA LeftFalls ==
  ASSUME EveryLead, NEW moves, NEW n, NEW leads, NEW rows, NEW d, Batch(moves, n, leads, rows, d),
         RowsSound(rows), NEW u
  PROVE  /\ LeftOf({After(o, moves) : o \in rows}, u) = LeftOf(rows, u) - DropBy(moves, rows, n, u)
         /\ LeftOf(rows, u) \in Int /\ DropBy(moves, rows, n, u) \in Int
         /\ \A i \in 1..n : DropOf(moves[i], rows) \in Int
<1> DEFINE A == {After(o, moves) : o \in rows}
           K == [x \in A |-> IF x.owner = u THEN Left(x) ELSE 0]
           F == [o \in rows |-> IF o.owner = u THEN Left(o) ELSE 0]
           G == [o \in rows |-> K[After(o, moves)]]
           D == [j \in DOMAIN moves |-> IF moves[j].user = u THEN DropOf(moves[j], rows) ELSE 0]
<1>1. DOMAIN moves = 1..n
  BY BatchLists
<1>2. \A o \in rows : RowSound(o) /\ RowSound(After(o, moves)) /\ After(o, moves).owner = o.owner
  BY AfterRow DEF RowsSound
<1>3. \A o \in rows : /\ Left(o) \in Int /\ Left(After(o, moves)) \in Int /\ After(o, moves) \in A
                      /\ F[o] = (IF o.owner = u THEN Left(o) ELSE 0)
                      /\ G[o] = (IF o.owner = u THEN Left(After(o, moves)) ELSE 0)
                      /\ K[After(o, moves)] = G[o]
  BY <1>2, LeftNat
<1>4. ASSUME NEW i \in 1..n
      PROVE  /\ DropOf(moves[i], rows) \in Int
             /\ moves[i].order = NoKey => DropOf(moves[i], rows) = 0
             /\ \A o \in rows : moves[i].order = o.key =>
                  moves[i].user = o.owner /\ DropOf(moves[i], rows) = Left(o) - Left(After(o, moves))
  <2>1. moves[i].order = NoKey => DropOf(moves[i], rows) = 0
    BY DEF DropOf
  <2>2. ASSUME NEW o \in rows, moves[i].order = o.key
        PROVE  /\ moves[i].user = o.owner /\ DropOf(moves[i], rows) \in Int
               /\ DropOf(moves[i], rows) = Left(o) - Left(After(o, moves))
    <3>1. o.status = "open" /\ Fits(o, moves[i]) /\ After(o, moves) = Filled(o, moves[i])
          /\ DropOf(moves[i], rows) = Drop(o, moves[i])
      BY <2>2, BatchHits
    <3>2. Drop(o, moves[i]) \in Int /\ Drop(o, moves[i]) = Left(o) - Left(Filled(o, moves[i]))
      BY <1>2, <3>1, DropSound
    <3> QED BY <3>1, <3>2 DEF Fits
  <2>3. moves[i].order = NoKey \/ \E o \in rows : moves[i].order = o.key
    BY BatchFills
  <2> QED BY <2>1, <2>2, <2>3
<1>5. \A i \in 1..n : D[i] = (IF moves[i].user = u THEN DropOf(moves[i], rows) ELSE 0)
  BY <1>1
<1>6. LeftOf(A, u) = SumFunctionOnSet(K, A) /\ LeftOf(rows, u) = SumFunctionOnSet(F, rows)
      /\ DropBy(moves, rows, n, u) = SumFunctionOnSet(D, 1..n)
  BY DEF LeftOf, DropBy
<1> HIDE DEF K, F, D
<1>7. SumFunctionOnSet(K, A) = SumFunctionOnSet(G, rows)
  <2>1. \A o \in rows : K[After(o, moves)] \in Int
    BY <1>3
  <2> QED BY <2>1, SumAfter
<1> HIDE DEF A, G
<1>8. /\ \A o \in rows : F[o] \in Int /\ G[o] \in Int
      /\ \A o \in rows : (\A i \in 1..n : moves[i].order # o.key) => G[o] = F[o]
  <2>1. \A o \in rows : (\A i \in 1..n : moves[i].order # o.key) => After(o, moves) = o
    BY AfterRow
  <2> QED BY <1>3, <2>1
<1>9. \A i \in 1..n : D[i] \in Int /\ (moves[i].order = NoKey => D[i] = 0)
  BY <1>4, <1>5
<1>10. \A i \in 1..n : \A o \in rows : moves[i].order = o.key => D[i] = F[o] - G[o]
  BY <1>3, <1>4, <1>5
<1>11. /\ SumFunctionOnSet(G, rows) = SumFunctionOnSet(F, rows) - SumFunctionOnSet(D, 1..n)
       /\ SumFunctionOnSet(F, rows) \in Int /\ SumFunctionOnSet(D, 1..n) \in Int
  <2>1. Drains(moves, n, rows, F, G, D)
    BY <1>8, <1>9, <1>10 DEF Drains
  <2> QED BY <2>1, BatchFalls
<1> QED BY <1>4, <1>6, <1>7, <1>11 DEF A

----------------------------------------------------------------------------
(* Money set aside *)

\* No one has set aside more than they have.
Solvent == result = NoResult => \A u \in Users : LeftOf(orders, u) <= funds[u]

LEMMA ReservedIsLeft ==
  ASSUME result = NoResult, NEW u
  PROVE  ReservedFunds(u) = LeftOf(orders, u)
<1>1. [o \in orders |-> FundsFor(o, u)] = [o \in orders |-> IF o.owner = u THEN Left(o) ELSE 0]
  BY DEF FundsFor, Live, Left
<1> QED BY <1>1 DEF ReservedFunds, LeftOf

\* What the first i movements leave a user better off by, what their orders let
\* go of included.
Slack(moves, rows, i, u) == CashBy(moves, i, u) + DropBy(moves, rows, i, u)

Droppable(moves, n, rows) == \A i \in 1..n : DropOf(moves[i], rows) \in Int

LEMMA DropUnroll ==
  ASSUME NEW n \in Nat, NEW moves \in [1..n -> Move], NEW rows, Droppable(moves, n, rows),
         NEW i \in 0..n, NEW u
  PROVE  /\ DropBy(moves, rows, 0, u) = 0 /\ DropBy(moves, rows, i, u) \in Int
         /\ i < n => DropBy(moves, rows, i + 1, u)
                     = DropBy(moves, rows, i, u)
                       + (IF moves[i + 1].user = u THEN DropOf(moves[i + 1], rows) ELSE 0)
<1> DEFINE F == [j \in DOMAIN moves |-> IF moves[j].user = u THEN DropOf(moves[j], rows) ELSE 0]
<1>1. \A j \in 1..n : F[j] \in Int
  BY DEF Droppable
<1>2. \A j \in 0..n : DropBy(moves, rows, j, u) = SumFunctionOnSet(F, 1..j)
  BY DEF DropBy
<1>3. i < n => i + 1 \in 1..n /\ i + 1 \in 0..n
  OBVIOUS
<1>4. i < n => F[i + 1] = (IF moves[i + 1].user = u THEN DropOf(moves[i + 1], rows) ELSE 0)
  BY <1>3
<1> HIDE DEF F
<1>5. /\ SumFunctionOnSet(F, 1..0) = 0 /\ SumFunctionOnSet(F, 1..i) \in Int
      /\ i < n => SumFunctionOnSet(F, 1..i + 1) = SumFunctionOnSet(F, 1..i) + F[i + 1]
  BY <1>1, SumsUnroll
<1>6. 0 \in 0..n
  OBVIOUS
<1> QED BY <1>2, <1>3, <1>4, <1>5, <1>6

\* A fill leaves no one worse off than their reservation allowed for: it takes
\* at most what the order it fills lets go of.
LEMMA SlackStep ==
  ASSUME EveryLead, NEW moves, NEW n, NEW leads, NEW rows, NEW d, Batch(moves, n, leads, rows, d),
         RowsSound(rows), NEW u, NEW i \in 0..n
  PROVE  /\ Slack(moves, rows, 0, u) = 0 /\ Slack(moves, rows, i, u) \in Int
         /\ CashBy(moves, i, u) \in Int /\ DropBy(moves, rows, i, u) \in Int
         /\ i < n => /\ moves[i + 1].order # NoKey => Slack(moves, rows, i + 1, u) >= Slack(moves, rows, i, u)
                     /\ moves[i + 1].user # u => Slack(moves, rows, i + 1, u) = Slack(moves, rows, i, u)
                     /\ moves[i + 1].side = "sell" => Slack(moves, rows, i + 1, u) >= Slack(moves, rows, i, u)
                     /\ Slack(moves, rows, i + 1, u) \in Int
<1>1. n \in Nat /\ moves \in [1..n -> Move]
  BY BatchLists DEF Batch
<1>2. \A j \in 1..n : DropOf(moves[j], rows) \in Int
  BY LeftFalls
<1>3. /\ CashBy(moves, 0, u) = 0 /\ CashBy(moves, i, u) \in Int
      /\ i < n => CashBy(moves, i + 1, u)
                  = CashBy(moves, i, u) + (IF moves[i + 1].user = u THEN Cash(moves[i + 1]) ELSE 0)
  BY <1>1, CashUnroll
<1>4. /\ DropBy(moves, rows, 0, u) = 0 /\ DropBy(moves, rows, i, u) \in Int
      /\ i < n => DropBy(moves, rows, i + 1, u)
                  = DropBy(moves, rows, i, u)
                    + (IF moves[i + 1].user = u THEN DropOf(moves[i + 1], rows) ELSE 0)
  <2>1. Droppable(moves, n, rows)
    BY <1>2 DEF Droppable
  <2> QED BY <1>1, <2>1, DropUnroll
<1>5. ASSUME i < n
      PROVE  /\ Cash(moves[i + 1]) \in Int /\ DropOf(moves[i + 1], rows) \in Int
             /\ moves[i + 1].order # NoKey => Cash(moves[i + 1]) + DropOf(moves[i + 1], rows) >= 0
             /\ moves[i + 1].side = "sell" => Cash(moves[i + 1]) + DropOf(moves[i + 1], rows) >= 0
  <2>1. i + 1 \in 1..n
    BY <1>1, <1>5
  <2>2. moves[i + 1] \in Move
    BY <1>1, <2>1
  <2>3. Cash(moves[i + 1]) \in Int /\ (moves[i + 1].side = "sell" => Cash(moves[i + 1]) >= 0)
    BY <2>2 DEF Move, Cash
  <2>4. ASSUME moves[i + 1].order # NoKey
        PROVE  Cash(moves[i + 1]) + DropOf(moves[i + 1], rows) >= 0
    <3>1. PICK o \in rows : moves[i + 1].order = o.key
      BY <2>1, <2>4, BatchFills
    <3>2. RowSound(o) /\ o.status = "open" /\ Fits(o, moves[i + 1])
            /\ DropOf(moves[i + 1], rows) = Drop(o, moves[i + 1])
      BY <2>1, <3>1, BatchHits DEF RowsSound
    <3>3. Cash(moves[i + 1]) + Drop(o, moves[i + 1]) >= 0
      BY <3>2, DropSound
    <3> QED BY <3>2, <3>3
  <2>5. moves[i + 1].order = NoKey => DropOf(moves[i + 1], rows) = 0
    BY DEF DropOf
  <2> QED BY <1>2, <2>1, <2>3, <2>4, <2>5
<1> QED BY <1>3, <1>4, <1>5 DEF Slack

\* What a user's movements bring, and what they set free, add up to no less
\* than the trade's own cost.
LEMMA SlackGrows ==
  ASSUME EveryLead, NEW moves, NEW n, NEW leads, NEW rows, NEW d, Batch(moves, n, leads, rows, d),
         RowsSound(rows), NEW u
  PROVE  /\ \A i \in 1..n : Slack(moves, rows, i, u) >= Slack(moves, rows, 1, u)
         /\ \A i \in 0..n : /\ Slack(moves, rows, i, u) \in Int
                            /\ CashBy(moves, i, u) \in Int /\ DropBy(moves, rows, i, u) \in Int
         /\ moves[1].order # NoKey \/ moves[1].user # u \/ moves[1].side = "sell" =>
              Slack(moves, rows, 1, u) >= 0
<1> DEFINE T == {i \in 0..n : i = 0 \/ Slack(moves, rows, i, u) >= Slack(moves, rows, 1, u)}
<1>1. n \in Nat \ {0} /\ n \in Nat
  BY BatchLists
<1>2. \A i \in 0..n : /\ Slack(moves, rows, i, u) \in Int
                      /\ CashBy(moves, i, u) \in Int /\ DropBy(moves, rows, i, u) \in Int
  BY SlackStep
<1>3. 0 \in T
  BY <1>1
<1>4. ASSUME NEW i \in T, i < n PROVE i + 1 \in T
  <2>1. i \in 0..n /\ i + 1 \in 0..n /\ i + 1 \in 1..n /\ 1 \in 0..n
    BY <1>1, <1>4
  <2>2. CASE i = 0
    <3>1. Slack(moves, rows, 1, u) >= Slack(moves, rows, 1, u)
      BY <1>2, <2>1
    <3> QED BY <2>1, <2>2, <3>1
  <2>3. CASE i # 0
    <3>1. i + 1 # 1
      BY <2>1, <2>3
    <3>2. moves[i + 1].order # NoKey
      BY <2>1, <3>1, BatchFills
    <3>3. Slack(moves, rows, i + 1, u) >= Slack(moves, rows, i, u)
      BY <1>4, <2>1, <3>2, SlackStep
    <3>4. Slack(moves, rows, i, u) >= Slack(moves, rows, 1, u)
      BY <2>3
    <3>5. Slack(moves, rows, i + 1, u) >= Slack(moves, rows, 1, u)
      BY <1>2, <2>1, <3>3, <3>4
    <3> QED BY <2>1, <3>5
  <2> QED BY <2>2, <2>3
<1>5. \A i \in 0..n : i \in T
  <2> HIDE DEF T
  <2> QED BY <1>1, <1>3, <1>4, Climbs
<1>6. \A i \in 1..n : Slack(moves, rows, i, u) >= Slack(moves, rows, 1, u)
  <2>1. \A i \in 1..n : i \in 0..n /\ i # 0
    BY <1>1
  <2> QED BY <1>5, <2>1
<1>7. moves[1].order # NoKey \/ moves[1].user # u \/ moves[1].side = "sell" => Slack(moves, rows, 1, u) >= 0
  <2>1. 0 \in 0..n /\ 0 < n /\ 0 + 1 = 1
    BY <1>1
  <2>2. /\ Slack(moves, rows, 0, u) = 0 /\ Slack(moves, rows, 1, u) \in Int
        /\ moves[1].order # NoKey => Slack(moves, rows, 1, u) >= Slack(moves, rows, 0, u)
        /\ moves[1].user # u => Slack(moves, rows, 1, u) = Slack(moves, rows, 0, u)
        /\ moves[1].side = "sell" => Slack(moves, rows, 1, u) >= Slack(moves, rows, 0, u)
    BY <2>1, SlackStep
  <2> QED BY <2>2
<1> QED BY <1>2, <1>6, <1>7

\* An arriving order's budget joins what its owner has set aside.
LEMMA LeftJoins ==
  ASSUME RowsSound(orders), NEW r \in Requests, r.kind = "order", StoredOrder(r) = {}, NEW u
  PROVE  LeftOf(orders \cup {OrderOf(r)}, u) = LeftOf(orders, u) + (IF u = r.user THEN BudgetOf(r) ELSE 0)
<1> DEFINE o == OrderOf(r)
           rows == orders \cup {o}
           F == [x \in rows |-> IF x.owner = u THEN Left(x) ELSE 0]
           G == [x \in orders |-> IF x.owner = u THEN Left(x) ELSE 0]
<1>1. /\ RowsSound(rows) /\ o.key = r.key /\ o.owner = r.user /\ o.side = r.side /\ o.status = "open"
      /\ o.spent = 0 /\ o.budget = BudgetOf(r) /\ BudgetOf(r) \in Nat
      /\ \A x \in orders : x.key # r.key
  BY OrderSound
<1> HIDE DEF o
<1>2. Left(o) = BudgetOf(r)
  BY <1>1 DEF Left, BudgetOf
<1>3. \A x \in orders \cup {o} : F[x] \in Int
  <2>1. \A x \in rows : Left(x) \in Nat
    BY <1>1, LeftNat DEF RowsSound
  <2> QED BY <2>1
<1>4. o \notin orders /\ IsFiniteSet(orders)
  BY <1>1 DEF RowsSound
<1>5. (\A x \in orders : F[x] = G[x]) /\ F[o] = IF u = r.user THEN BudgetOf(r) ELSE 0
  BY <1>1, <1>2
<1>6. LeftOf(rows, u) = SumFunctionOnSet(F, rows) /\ LeftOf(orders, u) = SumFunctionOnSet(G, orders)
  BY DEF LeftOf
<1> HIDE DEF F, G
<1>7. SumFunctionOnSet(F, orders \cup {o}) = SumFunctionOnSet(F, orders) + F[o]
  BY <1>3, <1>4, SumExtends
<1>8. SumFunctionOnSet(F, orders) = SumFunctionOnSet(G, orders)
  BY <1>4, <1>5, SumSame
<1> QED BY <1>5, <1>6, <1>7, <1>8 DEF o

\* What a request's movements are refused against.
Before(u, budget, placer) == LeftOf(orders, u) + (IF u = placer THEN budget ELSE 0)

LEMMA RefusedMeans ==
  ASSUME result = NoResult, NEW n \in Nat, NEW moves, Len(moves) = n, NEW rows, NEW budget, NEW placer
  PROVE  /\ RefusedAt(moves, rows, budget, placer) \subseteq 0..n
         /\ \A i \in 1..n : i \in RefusedAt(moves, rows, budget, placer) <=>
              /\ moves[i].side = "buy"
              /\ funds[moves[i].user] + CashBy(moves, i, moves[i].user)
                   < Before(moves[i].user, budget, placer) - DropBy(moves, rows, i, moves[i].user)
         /\ 0 \in RefusedAt(moves, rows, budget, placer) <=>
              \E j \in 1..n : moves[j].side = "buy"
                /\ funds[moves[j].user] < Before(moves[j].user, budget, placer)
<1> DEFINE before(u) == ReservedFunds(u) + (IF u = placer THEN budget ELSE 0)
           A == {i \in 1..n : /\ moves[i].side = "buy"
                              /\ funds[moves[i].user] + CashBy(moves, i, moves[i].user)
                                   < before(moves[i].user) - DropBy(moves, rows, i, moves[i].user)}
           B == {i \in {0} : \E j \in 1..n : moves[j].side = "buy" /\ funds[moves[j].user] < before(moves[j].user)}
<1>1. RefusedAt(moves, rows, budget, placer) = A \cup B
  BY DEF RefusedAt
<1>2. \A u : before(u) = Before(u, budget, placer)
  BY ReservedIsLeft DEF Before
<1>3. \A i \in 1..n : i # 0 /\ i \in 0..n
  OBVIOUS
<1>4. 0 \in 0..n
  OBVIOUS
<1> HIDE DEF before
<1> QED BY <1>1, <1>2, <1>3, <1>4

LEMMA RowsLeft ==
  ASSUME NEW rows, RowsSound(rows)
  PROVE  \A u : LeftOf(rows, u) \in Int
<1> SUFFICES ASSUME NEW u PROVE LeftOf(rows, u) \in Int
  OBVIOUS
<1> DEFINE F == [o \in rows |-> IF o.owner = u THEN Left(o) ELSE 0]
<1>1. \A o \in rows : F[o] \in Int
  <2>1. \A o \in rows : Left(o) \in Nat
    BY LeftNat DEF RowsSound
  <2> QED BY <2>1
<1>2. IsFiniteSet(rows)
  BY DEF RowsSound
<1>3. LeftOf(rows, u) = SumFunctionOnSet(F, rows)
  BY DEF LeftOf
<1> HIDE DEF F
<1> QED BY <1>1, <1>2, <1>3, SumInt

\* Whoever a batch is refused for, it is for want of the requester's money: every
\* other's reservation has paid for their fills.
LEMMA RefusedWho ==
  ASSUME EveryLead, Core, Solvent, result = NoResult,
         NEW moves, NEW n, NEW leads, NEW rows, NEW d, Batch(moves, n, leads, rows, d), RowsSound(rows),
         NEW budget \in Nat, NEW placer, moves[1].user = placer
  PROVE  /\ RefusedAt(moves, rows, budget, placer) \subseteq 0..n
         /\ 0 \in RefusedAt(moves, rows, budget, placer) =>
              funds[placer] < LeftOf(orders, placer) + budget /\ budget # 0
         /\ \A i \in 1..n : i \in RefusedAt(moves, rows, budget, placer) => moves[i].user = placer
         /\ (\E i \in 1..n : i \in RefusedAt(moves, rows, budget, placer)) /\ budget = 0 =>
              1 \in RefusedAt(moves, rows, budget, placer)
<1> DEFINE refused == RefusedAt(moves, rows, budget, placer)
<1>1. n \in Nat /\ Len(moves) = n /\ \A i \in 1..n : moves[i] \in Move
  BY BatchLists
<1>2. \A i \in 1..n : moves[i].user \in Users
  BY <1>1 DEF Move
<1>3. 1 \in 1..n /\ \A i \in 1..n : i \in 0..n
  BY BatchLists
<1>4. \A u \in Users : LeftOf(orders, u) <= funds[u] /\ funds[u] \in Int /\ LeftOf(orders, u) \in Int
  <2>1. \A u : LeftOf(orders, u) \in Int
    BY RowsLeft DEF Core
  <2> QED BY <2>1 DEF Solvent, Core
<1>5. /\ refused \subseteq 0..n
      /\ \A i \in 1..n : i \in refused <=>
           /\ moves[i].side = "buy"
           /\ funds[moves[i].user] + CashBy(moves, i, moves[i].user)
                < Before(moves[i].user, budget, placer) - DropBy(moves, rows, i, moves[i].user)
      /\ 0 \in refused <=>
           \E j \in 1..n : moves[j].side = "buy"
             /\ funds[moves[j].user] < Before(moves[j].user, budget, placer)
  BY <1>1, RefusedMeans
<1> HIDE DEF refused
<1>6. ASSUME 0 \in refused PROVE funds[placer] < LeftOf(orders, placer) + budget /\ budget # 0
  <2>1. PICK j \in 1..n : funds[moves[j].user] < Before(moves[j].user, budget, placer)
    BY <1>5, <1>6
  <2> DEFINE u == moves[j].user
  <2>2. u \in Users /\ LeftOf(orders, u) <= funds[u] /\ funds[u] \in Int /\ LeftOf(orders, u) \in Int
    BY <1>2, <1>4
  <2>3. funds[u] < LeftOf(orders, u) + (IF u = placer THEN budget ELSE 0)
    BY <2>1 DEF Before
  <2> HIDE DEF u
  <2>4. u = placer
    BY <2>2, <2>3
  <2> QED BY <2>2, <2>3, <2>4
<1>7. ASSUME NEW i \in 1..n
      PROVE  LET u == moves[i].user
             IN  /\ i \in refused <=> /\ moves[i].side = "buy"
                                      /\ funds[u] + Slack(moves, rows, i, u) < Before(u, budget, placer)
                 /\ Slack(moves, rows, i, u) \in Int /\ Slack(moves, rows, 1, u) \in Int
                 /\ Slack(moves, rows, i, u) >= Slack(moves, rows, 1, u)
                 /\ (moves[1].user # u \/ moves[1].side = "sell") => Slack(moves, rows, 1, u) >= 0
                 /\ funds[u] \in Int /\ LeftOf(orders, u) \in Int /\ LeftOf(orders, u) <= funds[u]
                 /\ Before(u, budget, placer) = LeftOf(orders, u) + (IF u = placer THEN budget ELSE 0)
  <2> DEFINE u == moves[i].user
  <2>1. u \in Users /\ LeftOf(orders, u) <= funds[u] /\ funds[u] \in Int /\ LeftOf(orders, u) \in Int
    BY <1>2, <1>4
  <2>2. i \in refused <=> /\ moves[i].side = "buy"
                          /\ funds[u] + CashBy(moves, i, u) < Before(u, budget, placer) - DropBy(moves, rows, i, u)
    BY <1>5
  <2>3. /\ Slack(moves, rows, i, u) \in Int /\ Slack(moves, rows, 1, u) \in Int
        /\ CashBy(moves, i, u) \in Int /\ DropBy(moves, rows, i, u) \in Int
        /\ Slack(moves, rows, i, u) >= Slack(moves, rows, 1, u)
        /\ (moves[1].user # u \/ moves[1].side = "sell") => Slack(moves, rows, 1, u) >= 0
    <3> HIDE DEF u
    <3> QED BY <1>3, SlackGrows
  <2>4. Before(u, budget, placer) = LeftOf(orders, u) + (IF u = placer THEN budget ELSE 0)
    BY DEF Before
  <2>5. Slack(moves, rows, i, u) = CashBy(moves, i, u) + DropBy(moves, rows, i, u)
    BY DEF Slack
  <2> HIDE DEF u
  <2>6. i \in refused <=> moves[i].side = "buy"
          /\ funds[u] + Slack(moves, rows, i, u) < Before(u, budget, placer)
    BY <2>1, <2>2, <2>3, <2>4, <2>5
  <2> QED BY <2>1, <2>3, <2>4, <2>6 DEF u
<1>8. ASSUME NEW i \in 1..n, i \in refused PROVE moves[i].user = placer
  BY <1>7, <1>8
<1>9. ASSUME NEW i \in 1..n, i \in refused, budget = 0 PROVE 1 \in refused
  <2>1. moves[i].user = placer
    BY <1>8, <1>9
  <2> DEFINE L == LeftOf(orders, placer)
             B == Before(placer, budget, placer)
             f == funds[placer]
             S(j) == Slack(moves, rows, j, placer)
  <2>2. /\ f + S(i) < B /\ B = L + budget /\ f \in Int /\ L \in Int /\ L <= f
        /\ S(i) \in Int /\ S(1) \in Int /\ S(i) >= S(1)
        /\ moves[1].side = "sell" => S(1) >= 0
    <3>1. B = L + (IF placer = placer THEN budget ELSE 0)
      BY DEF Before
    <3> HIDE DEF L, B, f, S
    <3> QED BY <1>7, <1>9, <2>1, <3>1 DEF L, B, f, S
  <2>3. 1 \in refused <=> moves[1].side = "buy" /\ f + S(1) < B
    BY <1>3, <1>7
  <2>4. moves[1].side \in {"buy", "sell"}
    BY <1>1, <1>3 DEF Move, Sides
  <2> HIDE DEF L, B, f, S
  <2> QED BY <1>9, <2>2, <2>3, <2>4
<1> QED BY <1>5, <1>6, <1>8, <1>9 DEF refused

LEMMA MinIs ==
  ASSUME NEW n \in Nat, NEW S \in SUBSET (0..n), S # {}
  PROVE  Min(S) \in S /\ \A y \in S : Min(S) <= y
<1>1. \E x \in S : \A y \in S : x <= y
  <2>1. S \in SUBSET Nat
    OBVIOUS
  <2> QED BY <2>1, Least
<1> DEFINE P(x) == x \in S /\ \A y \in S : x <= y
<1>2. Min(S) = CHOOSE x : P(x)
  BY Zenon DEF Min
<1>3. \E x : P(x)
  BY <1>1
<1> HIDE DEF P
<1>4. P(Min(S))
  BY <1>2, <1>3
<1> QED BY <1>4 DEF P

\* A batch nobody is refused for leaves everyone solvent.
LEMMA CommitSolvent ==
  ASSUME EveryLead, Core, Solvent, NEW s \in Sessions, NEW moves, NEW n, NEW leads, NEW brought,
         Committed(s, moves, n, leads, brought)
  PROVE  Solvent'
<1> DEFINE r == req[s]
           rows == orders \cup brought
           budget == IF r.kind = "order" THEN BudgetOf(r) ELSE 0
<1>1. /\ pc[s] = "locked" /\ result = NoResult /\ Batch(moves, n, leads, rows, q[0] - q[1]) /\ RowsSound(rows)
      /\ moves[1].user = r.user
      /\ r.kind = "trade" => brought = {} /\ moves[1].order = NoKey
      /\ r.kind = "order" => brought = {OrderOf(r)} /\ StoredOrder(r) = {} /\ moves[1].order = r.key
      /\ RefusedAt(moves, rows, budget, r.user) = {}
  BY DEF Committed, Latched
<1>2. r \in Requests /\ r.kind \in {"trade", "order"} /\ r.key # NoKey
  BY <1>1, RequestFields DEF Core, Quoted
<1>3. /\ n \in Nat \ {0} /\ n \in Nat /\ Len(moves) = n /\ 1 \in 1..n /\ n \in 1..n /\ n \in 0..n
      /\ funds' = [u \in Users |-> funds[u] + CashBy(moves, n, u)]
      /\ orders' = {After(o, moves) : o \in rows}
      /\ \A i \in 1..n : moves[i] \in Move
  BY <1>1, BatchLists, WriteMeans
<1>4. budget \in Nat
  BY <1>1, <1>2, OrderSound DEF Core
<1>5. ASSUME NEW u \in Users
      PROVE  LeftOf(rows, u) = Before(u, budget, r.user)
  <2>1. CASE r.kind = "trade"
    <3>1. rows = orders /\ budget = 0
      BY <1>1, <2>1
    <3>2. LeftOf(orders, u) \in Int
      BY <1>1, <3>1, LeftFalls
    <3> HIDE DEF budget, rows
    <3>3. Before(u, budget, r.user) = LeftOf(orders, u)
      BY <3>1, <3>2 DEF Before
    <3> QED BY <3>1, <3>3
  <2>2. CASE r.kind = "order"
    <3>1. rows = orders \cup {OrderOf(r)} /\ budget = BudgetOf(r)
      BY <1>1, <2>2
    <3>2. LeftOf(orders \cup {OrderOf(r)}, u) = LeftOf(orders, u) + (IF u = r.user THEN BudgetOf(r) ELSE 0)
      BY <1>1, <1>2, <2>2, LeftJoins DEF Core
    <3> HIDE DEF budget, rows
    <3> QED BY <3>1, <3>2 DEF Before
  <2> QED BY <1>2, <2>1, <2>2
<1>6. ASSUME NEW u \in Users
      PROVE  LeftOf(orders', u) <= funds'[u]
  <2> DEFINE L == LeftOf(rows, u)
             f == funds[u]
             S(i) == Slack(moves, rows, i, u)
  <2>1. /\ LeftOf(orders', u) = L - DropBy(moves, rows, n, u) /\ L \in Int
        /\ DropBy(moves, rows, n, u) \in Int
    <3>1. /\ LeftOf({After(o, moves) : o \in rows}, u) = LeftOf(rows, u) - DropBy(moves, rows, n, u)
          /\ LeftOf(rows, u) \in Int /\ DropBy(moves, rows, n, u) \in Int
      <4> HIDE DEF rows
      <4> QED BY <1>1, LeftFalls
    <3> HIDE DEF rows
    <3> QED BY <1>3, <3>1
  <2>2. /\ S(n) \in Int /\ S(1) \in Int /\ S(n) >= S(1) /\ CashBy(moves, n, u) \in Int
        /\ moves[1].order # NoKey \/ moves[1].user # u \/ moves[1].side = "sell" => S(1) >= 0
    <3>1. 1 \in 0..n
      BY <1>3
    <3> QED BY <1>1, <1>3, <3>1, SlackGrows
  <2>3. S(n) = CashBy(moves, n, u) + DropBy(moves, rows, n, u)
    BY DEF Slack
  <2>4. f \in Int /\ funds'[u] = f + CashBy(moves, n, u)
    BY <1>3 DEF Core
  <2>5. f + S(1) >= L
    <3>1. L = LeftOf(orders, u) + (IF u = r.user THEN budget ELSE 0)
      BY <1>5 DEF Before
    <3>2. LeftOf(orders, u) <= f
      BY <1>1 DEF Solvent
    <3>3. LeftOf(orders, u) \in Int
      <4>1. u = r.user => L = LeftOf(orders, u) + budget
        BY <3>1
      <4> QED BY RowsLeft DEF Core
    <3>4. moves[1].side \in {"buy", "sell"}
      BY <1>3 DEF Move, Sides
    <3>5. CASE moves[1].side = "buy" /\ u = r.user
      <4>1. ~(f + CashBy(moves, 1, u) < Before(u, budget, r.user) - DropBy(moves, rows, 1, u))
        <5> HIDE DEF rows, budget, r
        <5>1. ~(moves[1].side = "buy"
                /\ funds[moves[1].user] + CashBy(moves, 1, moves[1].user)
                     < Before(moves[1].user, budget, r.user) - DropBy(moves, rows, 1, moves[1].user))
          BY <1>1, <1>3, RefusedMeans
        <5>2. moves[1].user = u /\ moves[1].side = "buy"
          BY <1>1, <3>5
        <5> QED BY <5>1, <5>2
      <4>2. Before(u, budget, r.user) = L
        BY <1>5
      <4>3. S(1) = CashBy(moves, 1, u) + DropBy(moves, rows, 1, u)
        BY DEF Slack
      <4>4. CashBy(moves, 1, u) \in Int /\ DropBy(moves, rows, 1, u) \in Int
        <5>1. 1 \in 0..n
          BY <1>3
        <5> QED BY <1>1, <5>1, SlackGrows
      <4> HIDE DEF L, f, S, rows, budget, r
      <4> QED BY <2>1, <2>2, <2>4, <4>1, <4>2, <4>3, <4>4
    <3>6. CASE u # r.user
      <4>1. S(1) >= 0
        BY <1>1, <2>2, <3>6
      <4>2. L = LeftOf(orders, u)
        BY <3>1, <3>3, <3>6
      <4> HIDE DEF L, f, S, rows, budget, r
      <4> QED BY <2>1, <2>2, <2>4, <3>2, <4>1, <4>2
    <3>7. CASE moves[1].side = "sell"
      <4>1. S(1) >= 0
        BY <2>2, <3>7
      <4>2. budget = 0
        BY <1>1, <1>3, <3>7 DEF Committed, BudgetOf
      <4>3. L = LeftOf(orders, u)
        BY <3>1, <3>3, <4>2
      <4> HIDE DEF L, f, S, rows, budget, r
      <4> QED BY <2>1, <2>2, <2>4, <3>2, <4>1, <4>3
    <3> QED BY <3>4, <3>5, <3>6, <3>7
  <2> HIDE DEF L, f, S, rows, budget, r
  <2> QED BY <2>1, <2>2, <2>3, <2>4, <2>5
<1> QED BY <1>6 DEF Solvent

LEMMA RestSolvent ==
  ASSUME Core, Solvent, NEW s \in Sessions, Rested(s)
  PROVE  Solvent'
<1> DEFINE r == req[s]
<1>1. /\ r \in Requests /\ r.kind = "order" /\ StoredOrder(r) = {} /\ result = NoResult
      /\ orders' = orders \cup {OrderOf(r)} /\ funds' = funds
      /\ ~DoesNotFit(OrderOf(r))
  BY DEF Rested, Latched
<1>2. ASSUME NEW u \in Users PROVE LeftOf(orders', u) <= funds'[u]
  <2>1. LeftOf(orders', u) = LeftOf(orders, u) + (IF u = r.user THEN BudgetOf(r) ELSE 0)
    BY <1>1, LeftJoins DEF Core
  <2>2. LeftOf(orders, u) <= funds[u] /\ LeftOf(orders, u) \in Int /\ funds[u] \in Int
    BY <1>1, RowsLeft DEF Core, Solvent
  <2>3. /\ OrderOf(r).side = r.side /\ OrderOf(r).owner = r.user /\ OrderOf(r).budget = BudgetOf(r)
        /\ BudgetOf(r) \in Nat
    BY <1>1, OrderSound DEF Core
  <2>4. r.side # "buy" => BudgetOf(r) = 0
    BY DEF BudgetOf
  <2>5. r.side = "buy" => ~(BudgetOf(r) > funds[r.user] - LeftOf(orders, r.user))
    BY <1>1, <2>3, ReservedIsLeft DEF DoesNotFit
  <2> HIDE DEF r
  <2> QED BY <1>1, <2>1, <2>2, <2>3, <2>4, <2>5
<1> QED BY <1>2 DEF Solvent

LEMMA CancelSolvent ==
  ASSUME Core, Solvent, Cancel
  PROVE  Solvent'
<1>1. PICK o \in orders : /\ Live(o) /\ orders' = (orders \ {o}) \cup {[o EXCEPT !.status = "cancelled"]}
                          /\ funds' = funds /\ result' = result
  BY DEF Cancel
<1> DEFINE c == [o EXCEPT !.status = "cancelled"]
           rest == orders \ {o}
<1>2. /\ RowsSound(rest \cup {c}) /\ RowSound(c) /\ c.status = "cancelled" /\ c.key = o.key
  BY CancelRows DEF Core
<1> HIDE DEF c
<1>3. c \notin rest /\ IsFiniteSet(rest) /\ IsFiniteSet(orders)
  <2>1. IsFiniteSet(orders) /\ \A x \in orders : x.key = o.key => x = o
    BY DEF Core, RowsSound
  <2> QED BY <1>2, <2>1, FS_Subset
<1>4. ASSUME NEW u \in Users PROVE LeftOf(orders', u) <= LeftOf(orders, u)
  <2> DEFINE F == [x \in orders |-> IF x.owner = u THEN Left(x) ELSE 0]
             G == [x \in rest \cup {c} |-> IF x.owner = u THEN Left(x) ELSE 0]
  <2>1. \A x \in orders \cup {c} : Left(x) \in Nat
    BY <1>2, LeftNat DEF Core, RowsSound
  <2>2. /\ \A x \in orders : F[x] \in Int
        /\ \A x \in rest \cup {c} : G[x] \in Int
        /\ \A x \in rest : F[x] = G[x]
        /\ F[o] >= 0
    BY <2>1
  <2>3. G[c] = 0
    BY <1>2 DEF Left
  <2>4. LeftOf(orders, u) = SumFunctionOnSet(F, orders)
          /\ LeftOf(orders', u) = SumFunctionOnSet(G, rest \cup {c})
    BY <1>1 DEF LeftOf, c
  <2> HIDE DEF F, G, rest
  <2>5. SumFunctionOnSet(F, orders) = F[o] + SumFunctionOnSet(F, rest)
    BY <1>3, <2>2, SumRemove DEF rest
  <2>6. SumFunctionOnSet(G, rest \cup {c}) = SumFunctionOnSet(G, rest) + G[c]
    BY <1>3, <2>2, SumExtends
  <2>7. SumFunctionOnSet(F, rest) = SumFunctionOnSet(G, rest)
    BY <1>3, <2>2, SumSame
  <2>8. SumFunctionOnSet(F, rest) \in Int /\ F[o] \in Int
    <3>1. rest \in SUBSET orders
      BY DEF rest
    <3> QED BY <1>3, <2>2, <3>1, SumInt
  <2> QED BY <2>2, <2>3, <2>4, <2>5, <2>6, <2>7, <2>8
<1>5. RowsSound(orders')
  BY <1>1, <1>2 DEF c
<1>6. \A u \in Users : LeftOf(orders', u) \in Int /\ LeftOf(orders, u) \in Int /\ funds[u] \in Int
  <2>1. \A u : LeftOf(orders', u) \in Int
    BY <1>5, RowsLeft
  <2> QED BY <2>1, RowsLeft DEF Core
<1> QED BY <1>1, <1>4, <1>6 DEF Solvent, Live

LEMMA SolventInit == Init => Solvent
<1> SUFFICES ASSUME Init PROVE Solvent
  OBVIOUS
<1>1. orders = {} /\ \A u \in Users : funds[u] = Grant
  BY DEF Init
<1>2. \A u : LeftOf(orders, u) = 0
  BY <1>1, SumEmpty DEF LeftOf
<1> QED BY <1>1, <1>2, UsersAssumption DEF Solvent

LEMMA SolventNext ==
  ASSUME EveryLead, Core, Solvent, [Next]_vars
  PROVE  Solvent'
<1>1. ASSUME orders' = orders, funds' = funds, result' = result PROVE Solvent'
  BY <1>1 DEF Solvent
<1>2. ASSUME UNCHANGED book PROVE Solvent'
  BY <1>1, <1>2 DEF book
<1>3. CASE UNCHANGED vars
  BY <1>2, <1>3 DEF vars
<1>4. ASSUME NEW s \in Sessions, Step(s) PROVE Solvent'
  <2>1. CASE AccountRefused(s) \/ CheckGate(s) \/ Refuse(s) \/ Abort(s)
    <3>1. UNCHANGED book
      BY <2>1 DEF AccountRefused, CheckGate, Refuse, Abort, book
    <3> QED BY <1>2, <3>1
  <2>2. CASE Trade(s)
    BY <1>2, <2>2, TradeCommits, CommitSolvent
  <2>3. CASE PlaceAndFill(s)
    BY <1>2, <2>3, PlaceCommits, CommitSolvent
  <2>4. CASE PlaceAndRest(s)
    BY <1>2, <2>4, RestMeans, RestSolvent
  <2> QED BY <1>4, <2>1, <2>2, <2>3, <2>4 DEF Step
<1>5. ASSUME NEW s \in Sessions, NEW r \in Requests, Ask(s, r) PROVE Solvent'
  BY <1>2, <1>5 DEF Ask, book
<1>6. CASE Cancel
  BY <1>6, CancelSolvent
<1>7. CASE Close
  BY <1>2, <1>7 DEF Close
<1>8. CASE TradeElsewhere
  <2>1. PICK u \in Users, n \in Swings : /\ n < 0 => funds[u] + n >= ReservedFunds(u)
                                         /\ funds' = [funds EXCEPT ![u] = @ + n]
    BY <1>8 DEF TradeElsewhere
  <2>2. orders' = orders /\ result' = result
    BY <1>8 DEF TradeElsewhere
  <2>3. n \in Int /\ funds \in [Users -> Int] /\ \A x \in Users : LeftOf(orders, x) \in Int
    BY UsersAssumption, RowsLeft DEF Core
  <2>4. ASSUME result = NoResult, NEW x \in Users PROVE LeftOf(orders, x) <= funds'[x]
    <3>1. LeftOf(orders, x) <= funds[x] /\ ReservedFunds(u) = LeftOf(orders, u)
      BY <2>4, ReservedIsLeft DEF Solvent
    <3>2. CASE x = u
      <4>1. funds'[x] = funds[x] + n
        BY <2>1, <2>3, <3>2
      <4>2. n < 0 => funds[x] + n >= LeftOf(orders, x)
        BY <2>1, <3>1, <3>2
      <4> QED BY <2>3, <3>1, <4>1, <4>2
    <3>3. CASE x # u
      BY <2>1, <2>3, <3>1, <3>3
    <3> QED BY <3>2, <3>3
  <2> QED BY <2>2, <2>4 DEF Solvent
<1>9. CASE Settle
  <2>1. result' \in Outcomes
    BY <1>9 DEF Settle
  <2> QED BY <2>1, RequestsAssumption DEF Solvent
<1> QED BY <1>3, <1>4, <1>5, <1>6, <1>7, <1>8, <1>9 DEF Next

----------------------------------------------------------------------------
(* The refusal ADR 0024 calls impossible *)

\* A refused trade is refused for its own movement.
LEMMA TradeQuiet ==
  ASSUME EveryLead, Core, Solvent, NEW s \in Sessions, Trade(s)
  PROVE  alarm' = FALSE
<1> DEFINE r == req[s]
           moves == TradeMoves(r)
           refused == RefusedAt(moves, orders, 0, r.user)
<1>1. /\ Admitted(s) /\ r.kind = "trade"
      /\ \/ refused = {} /\ Say(s, "traded")
         \/ refused # {} /\ Say(s, IF Min(refused) = 1 THEN "InsufficientFunds" ELSE "CascadeFillRefused")
  BY DEF Trade, TradeMoves
<1>2. pc[s] = "locked" /\ result = NoResult
  BY <1>1, AdmittedMeans DEF Latched
<1>3. moves[1].user = r.user
  BY <1>1, <1>2, TradeBatch
<1>4. PICK n, leads : Batch(moves, n, leads, orders, q[0] - q[1])
  BY <1>1, <1>2, TradeBatch
<1>5. RowsSound(orders) /\ 0 \in Nat
  BY DEF Core
<1> HIDE DEF moves
<1>6. /\ refused \subseteq 0..n /\ 0 \notin refused
      /\ (\E i \in 1..n : i \in refused) => 1 \in refused
  BY <1>2, <1>3, <1>4, <1>5, RefusedWho
<1> HIDE DEF refused
<1>7. ASSUME refused # {} PROVE Min(refused) = 1
  <2>1. n \in Nat
    BY <1>4, BatchLists
  <2>2. Min(refused) \in refused /\ \A y \in refused : Min(refused) <= y
    BY <1>6, <1>7, <2>1, MinIs
  <2>3. \A i \in refused : i \in 1..n
    BY <1>6, <2>1
  <2>4. 1 \in refused
    BY <1>6, <1>7, <2>3
  <2> QED BY <2>2, <2>3, <2>4
<1>8. Say(s, "traded") \/ Say(s, "InsufficientFunds")
  BY <1>1, <1>7
<1> QED BY <1>8 DEF Say

\* A refused order is refused for its placer's money.
LEMMA PlaceQuiet ==
  ASSUME EveryLead, Core, Solvent, NEW s \in Sessions, PlaceAndFill(s)
  PROVE  alarm' = FALSE
<1> DEFINE r == req[s]
           o == OrderOf(r)
           moves == OrderMoves(r)
           refused == RefusedAt(moves, orders \cup {o}, o.budget, r.user)
           first == Min(refused)
           ofPlacer == IF first = 0 THEN funds[r.user] < ReservedFunds(r.user) + o.budget
                                    ELSE moves[first].user = r.user
<1>1. /\ Admitted(s) /\ r.kind = "order" /\ Executable(o, q[0] - q[1])
      /\ \/ refused = {} /\ Say(s, "placed")
         \/ refused # {} /\ Say(s, IF ofPlacer THEN "InsufficientFunds" ELSE "CascadeFillRefused")
  BY DEF PlaceAndFill, OrderMoves
<1>2. pc[s] = "locked" /\ result = NoResult /\ StoredOrder(r) = {}
  BY <1>1, AdmittedMeans DEF Latched, Stored
<1>3. moves[1].user = r.user /\ r \in Requests
  BY <1>1, <1>2, OrderBatch
<1>4. PICK n, leads : Batch(moves, n, leads, orders \cup {o}, q[0] - q[1])
  BY <1>1, <1>2, OrderBatch
<1>5. RowsSound(orders \cup {o}) /\ o.budget = BudgetOf(r) /\ BudgetOf(r) \in Nat
  BY <1>1, <1>2, <1>3, OrderSound DEF Core
<1>31. PICK rows, budget : rows = orders \cup {o} /\ budget = o.budget
  OBVIOUS
<1> HIDE DEF moves, o
<1>32. refused = RefusedAt(moves, rows, budget, r.user) /\ RowsSound(rows) /\ budget \in Nat
      /\ Batch(moves, n, leads, rows, q[0] - q[1])
  BY <1>4, <1>5, <1>31
<1> HIDE DEF refused
<1>6. /\ refused \subseteq 0..n
      /\ 0 \in refused => funds[r.user] < LeftOf(orders, r.user) + o.budget
      /\ \A i \in 1..n : i \in refused => moves[i].user = r.user
  <2>1. /\ RefusedAt(moves, rows, budget, r.user) \subseteq 0..n
        /\ 0 \in RefusedAt(moves, rows, budget, r.user) => funds[r.user] < LeftOf(orders, r.user) + budget
        /\ \A i \in 1..n : i \in RefusedAt(moves, rows, budget, r.user) => moves[i].user = r.user
    BY <1>2, <1>3, <1>32, RefusedWho
  <2> QED BY <1>31, <1>32, <2>1
<1>7. ASSUME refused # {} PROVE ofPlacer
  <2>1. n \in Nat
    BY <1>4, BatchLists
  <2>2. first \in refused
    BY <1>6, <1>7, <2>1, MinIs
  <2>3. first = 0 \/ first \in 1..n
    <3>1. \A i \in refused : i = 0 \/ i \in 1..n
      BY <1>6, <2>1
    <3> HIDE DEF first
    <3> QED BY <2>2, <3>1
  <2>4. ReservedFunds(r.user) = LeftOf(orders, r.user)
    BY <1>2, ReservedIsLeft
  <2> HIDE DEF first, r
  <2> QED BY <1>6, <2>2, <2>3, <2>4
<1> HIDE DEF ofPlacer
<1>8. Say(s, "placed") \/ Say(s, "InsufficientFunds")
  BY <1>1, <1>7
<1> QED BY <1>8 DEF Say

LEMMA QuietNext ==
  ASSUME EveryLead, Core, Solvent, ~alarm, [Next]_vars
  PROVE  ~alarm'
<1>1. ASSUME NEW s \in Sessions, NEW what, Say(s, what), what # "CascadeFillRefused" PROVE ~alarm'
  BY <1>1 DEF Say
<1>2. CASE UNCHANGED vars
  BY <1>2 DEF vars
<1>3. ASSUME NEW s \in Sessions, Step(s) PROVE ~alarm'
  <2>1. CASE AccountRefused(s)
    BY <1>1, <2>1 DEF AccountRefused
  <2>2. CASE CheckGate(s)
    BY <1>1, <2>2 DEF CheckGate, Silent
  <2>3. CASE Refuse(s)
    <3>1. ReplayOf(req[s]) # "CascadeFillRefused" /\ Refusal(s) # "CascadeFillRefused"
      BY DEF ReplayOf, Refusal
    <3> QED BY <1>1, <2>3, <3>1 DEF Refuse
  <2>4. CASE Abort(s)
    BY <1>1, <2>4 DEF Abort
  <2>5. CASE PlaceAndRest(s)
    <3>1. \E what : Say(s, what) /\ (what = "placed" \/ what = "InsufficientFunds")
      BY <2>5, RestMeans
    <3> QED BY <1>1, <3>1
  <2> QED BY <1>3, <2>1, <2>2, <2>3, <2>4, <2>5, TradeQuiet, PlaceQuiet DEF Step
<1>4. ASSUME NEW s \in Sessions, NEW r \in Requests, Ask(s, r) PROVE ~alarm'
  BY <1>4 DEF Ask, Silent
<1>5. CASE Cancel \/ Close \/ TradeElsewhere \/ Settle
  BY <1>5 DEF Cancel, Close, TradeElsewhere, Settle, Silent
<1> QED BY <1>2, <1>3, <1>4, <1>5 DEF Next

LEMMA SolventAlways == EveryLead => (Spec => [](Core /\ Solvent /\ ~alarm))
<1> SUFFICES ASSUME EveryLead PROVE Spec => [](Core /\ Solvent /\ ~alarm)
  OBVIOUS
<1>1. Init => Core /\ Solvent /\ ~alarm
  <2>1. Init => ~alarm
    BY DEF Init
  <2> QED BY <2>1, CoreInit, SolventInit
<1>2. Core /\ Solvent /\ ~alarm /\ [Next]_vars => Core' /\ Solvent' /\ ~alarm'
  BY CoreNext, SolventNext, QuietNext
<1> QED BY <1>1, <1>2, PTL DEF Spec

\* The overdraft check never refuses a cascade's fill: the 500 of ADR 0024 is
\* never answered (post_all, refuse_if_budget_does_not_fit).
THEOREM NoFillIsRefused == EveryLead => (Spec => []CascadeNeverRefused)
<1> SUFFICES ASSUME EveryLead PROVE Spec => []CascadeNeverRefused
  OBVIOUS
<1>1. Core /\ Solvent /\ ~alarm => CascadeNeverRefused
  BY DEF CascadeNeverRefused
<1>2. Spec => [](Core /\ Solvent /\ ~alarm)
  BY SolventAlways
<1> QED BY <1>1, <1>2, PTL

----------------------------------------------------------------------------
(* What the pool takes, and where the lead goes *)

\* A batch pays in at least what the cost function moves by, and leaves the
\* lead where its last movement did.
LEMMA PoolCovers ==
  ASSUME EveryLead, q \in [Outcomes -> Int],
         NEW moves, NEW n, NEW leads, NEW rows, Batch(moves, n, leads, rows, q[0] - q[1])
  PROVE  /\ leads[n + 1] = (q[0] + SharesTo(moves, n, Users, 0)) - (q[1] + SharesTo(moves, n, Users, 1))
         /\ Grain * PaidIn(moves, n)
              >= CostAt(q[0] + SharesTo(moves, n, Users, 0), q[1] + SharesTo(moves, n, Users, 1))
                 - CostAt(q[0], q[1])
<1> DEFINE A(i) == q[0] + SharesTo(moves, i, Users, 0)
           B(i) == q[1] + SharesTo(moves, i, Users, 1)
           P(i) == PaidIn(moves, i)
           T == {i \in 0..n : leads[i + 1] = A(i) - B(i)
                              /\ Grain * P(i) >= CostAt(A(i), B(i)) - CostAt(q[0], q[1])}
<1>1. /\ n \in Nat \ {0} /\ n \in Nat /\ moves \in [1..n -> Move] /\ leads[1] = q[0] - q[1]
      /\ 0 \in 0..n /\ n \in 0..n
  BY BatchLists DEF Batch
<1>2. q[0] \in Int /\ q[1] \in Int /\ Grain \in Nat \ {0}
  BY ScaleAssumption DEF Outcomes
<1>3. \A i \in 0..n : A(i) \in Int /\ B(i) \in Int /\ P(i) \in Int
  <2>1. \A i \in 0..n : SharesTo(moves, i, Users, 0) \in Int /\ SharesTo(moves, i, Users, 1) \in Int
    BY <1>1, SharesUnroll
  <2>2. \A i \in 0..n : PaidIn(moves, i) \in Int
    BY <1>1, PaidUnroll
  <2> QED BY <1>2, <2>1, <2>2
<1>4. 0 \in T
  <2>1. SharesTo(moves, 0, Users, 0) = 0 /\ SharesTo(moves, 0, Users, 1) = 0 /\ PaidIn(moves, 0) = 0
    BY <1>1, SharesUnroll, PaidUnroll
  <2>2. A(0) = q[0] /\ B(0) = q[1] /\ P(0) = 0
    BY <1>2, <2>1
  <2>3. CostAt(q[0], q[1]) \in Int
    BY <1>2, CostMoves DEF Outcomes
  <2>4. 0 + 1 = 1 /\ Grain * 0 = 0
    BY <1>2
  <2> HIDE DEF A, B, P
  <2> QED BY <1>1, <2>2, <2>3, <2>4
<1>5. ASSUME NEW i \in T, i < n PROVE i + 1 \in T
  <2> DEFINE m == moves[i + 1]
             k == Signed(m.side, m.quantity)
             d == leads[i + 1]
  <2>1. i \in 0..n /\ i + 1 \in 0..n /\ i + 1 \in 1..n
    BY <1>1, <1>5
  <2>2. d = A(i) - B(i) /\ Grain * P(i) >= CostAt(A(i), B(i)) - CostAt(q[0], q[1])
    OBVIOUS
  <2>3. m \in Move /\ Moved(m, d, leads[i + 1 + 1]) /\ d \in Int
    BY <2>1, BatchLists
  <2>4. /\ m.user \in Users /\ m.outcome \in {0, 1} /\ m.side \in {"buy", "sell"} /\ m.quantity \in Nat
        /\ m.total \in Nat /\ k \in Int /\ m.outcome \in Outcomes /\ m.side \in Sides
    BY <2>3 DEF Move, Outcomes, Sides, Signed
  <2>5. /\ A(i + 1) = A(i) + (IF m.outcome = 0 THEN k ELSE 0)
        /\ B(i + 1) = B(i) + (IF m.outcome = 1 THEN k ELSE 0)
    <3>1. /\ SharesTo(moves, i, Users, 0) \in Int /\ SharesTo(moves, i, Users, 1) \in Int
          /\ SharesTo(moves, i + 1, Users, 0) = SharesTo(moves, i, Users, 0)
               + (IF m.user \in Users /\ m.outcome = 0 THEN k ELSE 0)
          /\ SharesTo(moves, i + 1, Users, 1) = SharesTo(moves, i, Users, 1)
               + (IF m.user \in Users /\ m.outcome = 1 THEN k ELSE 0)
      <4>1. ASSUME NEW o
            PROVE  /\ SharesTo(moves, i, Users, o) \in Int
                   /\ SharesTo(moves, i + 1, Users, o)
                      = SharesTo(moves, i, Users, o) + (IF m.user \in Users /\ m.outcome = o THEN k ELSE 0)
        <5> HIDE DEF T
        <5> QED BY <1>1, <1>5, <2>1, SharesUnroll
      <4> HIDE DEF m, k
      <4> QED BY <4>1
    <3> HIDE DEF m, k
    <3> QED BY <1>2, <2>4, <3>1
  <2>6. P(i + 1) = P(i) + -Cash(m) /\ Cash(m) = (IF m.side = "buy" THEN -m.total ELSE m.total)
    BY <1>1, <1>5, <2>1, PaidUnroll DEF Cash
  <2>7. Grain * (-Cash(m)) >= CostOf(m.outcome, k, d) /\ CostOf(m.outcome, k, d) \in Int
        /\ Grain * (-Cash(m)) \in Int /\ -Cash(m) \in Int
    <3>1. m.total = Price(m.outcome, m.side, m.quantity, d)
      BY <2>3 DEF Moved
    <3>2. /\ m.side = "buy" => Grain * m.total >= CostOf(m.outcome, k, d)
          /\ m.side = "sell" => Grain * m.total <= -CostOf(m.outcome, k, d)
      <4> HIDE DEF m, d
      <4> QED BY <2>3, <2>4, <3>1, PriceCovers
    <3>3. CostOf(m.outcome, k, d) \in Int
      <4> HIDE DEF m, d
      <4> QED BY <2>3, <2>4, CostSigned
    <3>4. Grain * (-m.total) = -(Grain * m.total) /\ Grain * m.total \in Int
      BY <1>2, <2>4
    <3> HIDE DEF m, d, k
    <3> QED BY <2>4, <2>6, <3>2, <3>3, <3>4
  <2>8. /\ CostAt(A(i), B(i)) \in Int /\ CostAt(q[0], q[1]) \in Int
        /\ CostOf(m.outcome, k, d) = CostAt(A(i + 1), B(i + 1)) - CostAt(A(i), B(i))
        /\ CostAt(A(i + 1), B(i + 1)) \in Int
    <3>1. /\ CostAt(A(i), B(i)) \in Int
          /\ CostOf(m.outcome, k, A(i) - B(i)) = IF m.outcome = 0 THEN CostAt(A(i) + k, B(i)) - CostAt(A(i), B(i))
                                                 ELSE CostAt(A(i), B(i) + k) - CostAt(A(i), B(i))
      <4> HIDE DEF m, k, A, B
      <4> QED BY <1>3, <2>1, <2>4, CostMoves
    <3>2. CostAt(q[0], q[1]) \in Int /\ CostAt(A(i + 1), B(i + 1)) \in Int
      <4> HIDE DEF A, B
      <4> QED BY <1>2, <1>3, <2>1, CostMoves DEF Outcomes
    <3> HIDE DEF m, k, A, B, d
    <3> QED BY <1>3, <2>1, <2>2, <2>4, <2>5, <3>1, <3>2
  <2>9. leads[i + 1 + 1] = A(i + 1) - B(i + 1)
    <3>1. leads[i + 1 + 1] = d + (IF m.outcome = 0 THEN k ELSE -k)
      BY <2>3 DEF Moved, AfterFill, Lead
    <3> HIDE DEF m, k, A, B, d
    <3> QED BY <1>3, <2>1, <2>2, <2>4, <2>5, <3>1
  <2>10. Grain * P(i + 1) = Grain * P(i) + Grain * (-Cash(m)) /\ Grain * P(i) \in Int
    <3> HIDE DEF m, P
    <3> QED BY <1>2, <1>3, <2>1, <2>6, <2>7, Distributes
  <2> HIDE DEF m, k, A, B, d, P
  <2> QED BY <2>1, <2>2, <2>7, <2>8, <2>9, <2>10
<1>6. \A i \in 0..n : i \in T
  <2> HIDE DEF T
  <2> QED BY <1>1, <1>4, <1>5, Climbs
<1> QED BY <1>1, <1>6

\* What a batch gives all users is what it gives each of them.
LEMMA SharesAddUp ==
  ASSUME NEW n \in Nat, NEW moves \in [1..n -> Move], NEW o
  PROVE  SharesTo(moves, n, Users, o) = SumFunctionOnSet([u \in Users |-> SharesTo(moves, n, {u}, o)], Users)
<1> DEFINE F == [j \in 1..n |-> IF moves[j].outcome = o THEN Signed(moves[j].side, moves[j].quantity) ELSE 0]
           w == [j \in 1..n |-> moves[j].user]
           Own(u) == [j \in 1..n |-> IF w[j] = u THEN F[j] ELSE 0]
           All == [j \in DOMAIN moves |-> IF moves[j].user \in Users /\ moves[j].outcome = o
                                          THEN Signed(moves[j].side, moves[j].quantity) ELSE 0]
           One(u) == [j \in DOMAIN moves |-> IF moves[j].user \in {u} /\ moves[j].outcome = o
                                             THEN Signed(moves[j].side, moves[j].quantity) ELSE 0]
<1>1. DOMAIN moves = 1..n /\ IsFiniteSet(1..n) /\ n \in 0..n /\ IsFiniteSet(Users)
  BY FS_Interval, UsersAssumption
<1>2. \A j \in 1..n : w[j] \in Users /\ F[j] \in Int
  BY DEF Move, Signed
<1>3. \A j \in 1..n : All[j] = F[j]
  BY <1>1, <1>2
<1>4. \A u : \A j \in 1..n : One(u)[j] = Own(u)[j]
  BY <1>1
<1>5. SharesTo(moves, n, Users, o) = SumFunctionOnSet(All, 1..n)
        /\ \A u : SharesTo(moves, n, {u}, o) = SumFunctionOnSet(One(u), 1..n)
  BY DEF SharesTo
<1>6. SumFunctionOnSet(OwnSums(F, w, n, n, Users), Users) = SumFunctionOnSet(F, 1..n)
  <2> HIDE DEF F, w, All, One
  <2>1. Owned(F, w, n, Users)
    BY <1>1, <1>2 DEF Owned
  <2>2. \A i \in 0..n : SumFunctionOnSet(OwnSums(F, w, n, i, Users), Users) = SumFunctionOnSet(F, 1..i)
    BY <2>1, SumSplit
  <2> QED BY <1>1, <2>2
<1>9. \A u : OwnTerms(F, w, n, u) = Own(u)
  BY DEF OwnTerms
<1> HIDE DEF F, w, All, One, Own
<1>7. SumFunctionOnSet(All, 1..n) = SumFunctionOnSet(F, 1..n)
  BY <1>1, <1>3, SumSame
<1>8. \A u : SumFunctionOnSet(One(u), 1..n) = SumFunctionOnSet(Own(u), 1..n)
  <2> SUFFICES ASSUME NEW u PROVE SumFunctionOnSet(One(u), 1..n) = SumFunctionOnSet(Own(u), 1..n)
    OBVIOUS
  <2> QED BY <1>1, <1>4, SumSame
<1>10. OwnSums(F, w, n, n, Users) = [u \in Users |-> SharesTo(moves, n, {u}, o)]
  BY <1>5, <1>8, <1>9 DEF OwnSums
<1> QED BY <1>5, <1>6, <1>7, <1>10

----------------------------------------------------------------------------
(* Shares promised *)

\* What a sell order holds of its owner's shares of an outcome.
Promised(o, u, c) ==
  IF o.owner = u /\ o.status = "open" /\ o.side = "sell" /\ o.outcome = c THEN Remaining(o) ELSE 0

PromisedOf(rows, u, c) == SumFunctionOnSet([o \in rows |-> Promised(o, u, c)], rows)

LEMMA ReservedIsPromised ==
  ASSUME result = NoResult, NEW u, NEW c
  PROVE  ReservedShares(u, c) = PromisedOf(orders, u, c)
<1>1. [o \in orders |-> SharesFor(o, u, c)] = [o \in orders |-> Promised(o, u, c)]
  BY DEF SharesFor, Live, Promised
<1> QED BY <1>1 DEF ReservedShares, PromisedOf

LEMMA RowsPromised ==
  ASSUME NEW rows, RowsSound(rows), NEW u, NEW c
  PROVE  /\ IsFiniteSet(rows) /\ \A o \in rows : Promised(o, u, c) \in Nat
         /\ PromisedOf(rows, u, c) \in Nat
<1> DEFINE F == [o \in rows |-> Promised(o, u, c)]
<1>1. ASSUME NEW o \in rows PROVE Promised(o, u, c) \in Nat
  <2>1. o.quantity \in Nat /\ o.filled \in Nat /\ o.filled <= o.quantity
    BY DEF RowsSound, RowSound, Order
  <2> QED BY <2>1 DEF Promised, Remaining
<1>2. IsFiniteSet(rows) /\ \A o \in rows : F[o] \in Nat
  BY <1>1 DEF RowsSound
<1>3. PromisedOf(rows, u, c) = SumFunctionOnSet(F, rows)
  BY DEF PromisedOf
<1> HIDE DEF F
<1> QED BY <1>1, <1>2, <1>3, SumNat

\* What a movement takes out of its user's promises.
Sold(m, u, c) ==
  IF m.order # NoKey /\ m.user = u /\ m.side = "sell" /\ m.outcome = c THEN m.quantity ELSE 0

SoldBy(moves, i, u, c) == SumFunctionOnSet([j \in DOMAIN moves |-> Sold(moves[j], u, c)], 1..i)

LEMMA SoldUnroll ==
  ASSUME NEW n \in Nat, NEW moves \in [1..n -> Move], NEW i \in 0..n, NEW u, NEW c
  PROVE  /\ SoldBy(moves, 0, u, c) = 0 /\ SoldBy(moves, i, u, c) \in Int
         /\ i < n => SoldBy(moves, i + 1, u, c) = SoldBy(moves, i, u, c) + Sold(moves[i + 1], u, c)
<1> DEFINE F == [j \in DOMAIN moves |-> Sold(moves[j], u, c)]
<1>1. \A j \in 1..n : F[j] \in Int
  BY DEF Move, Sold
<1>2. \A j \in 0..n : SoldBy(moves, j, u, c) = SumFunctionOnSet(F, 1..j)
  BY DEF SoldBy
<1>3. i < n => i + 1 \in 1..n /\ i + 1 \in 0..n
  OBVIOUS
<1>4. i < n => F[i + 1] = Sold(moves[i + 1], u, c)
  BY <1>3
<1> HIDE DEF F
<1>5. /\ SumFunctionOnSet(F, 1..0) = 0 /\ SumFunctionOnSet(F, 1..i) \in Int
      /\ i < n => SumFunctionOnSet(F, 1..i + 1) = SumFunctionOnSet(F, 1..i) + F[i + 1]
  BY <1>1, SumsUnroll
<1>6. 0 \in 0..n
  OBVIOUS
<1> QED BY <1>2, <1>3, <1>4, <1>5, <1>6

\* What is promised falls by the shares the batch's sells hand over.
LEMMA PromisedFalls ==
  ASSUME EveryLead, NEW moves, NEW n, NEW leads, NEW rows, NEW d, Batch(moves, n, leads, rows, d),
         RowsSound(rows), NEW u, NEW c
  PROVE  PromisedOf({After(o, moves) : o \in rows}, u, c) = PromisedOf(rows, u, c) - SoldBy(moves, n, u, c)
<1> DEFINE A == {After(o, moves) : o \in rows}
           K == [x \in A |-> Promised(x, u, c)]
           F == [o \in rows |-> Promised(o, u, c)]
           G == [o \in rows |-> K[After(o, moves)]]
           D == [j \in DOMAIN moves |-> Sold(moves[j], u, c)]
<1>1. DOMAIN moves = 1..n
  BY BatchLists
<1>2. RowsSound(A)
  BY AfterRows
<1>3. (\A o \in rows : Promised(o, u, c) \in Nat) /\ \A o \in A : Promised(o, u, c) \in Nat
  <2> HIDE DEF A
  <2> QED BY <1>2, RowsPromised
<1>4. \A o \in rows : /\ F[o] \in Int /\ G[o] \in Int /\ K[After(o, moves)] \in Int
                      /\ F[o] = Promised(o, u, c)
                      /\ G[o] = Promised(After(o, moves), u, c) /\ K[After(o, moves)] = G[o]
  BY <1>3
<1>5. ASSUME NEW i \in 1..n, NEW o \in rows, moves[i].order = o.key
      PROVE  Sold(moves[i], u, c) = Promised(o, u, c) - Promised(After(o, moves), u, c)
  <2>1. o.status = "open" /\ Fits(o, moves[i]) /\ After(o, moves) = Filled(o, moves[i])
    BY <1>5, BatchHits
  <2>2. o \in Order /\ o.key # NoKey /\ o.quantity \in Nat /\ o.filled \in Nat
    BY RequestsAssumption DEF RowsSound, RowSound, Order
  <2> DEFINE p == Filled(o, moves[i])
  <2>3. /\ p.owner = o.owner /\ p.outcome = o.outcome /\ p.side = o.side /\ p.quantity = o.quantity
        /\ p.filled = o.filled + moves[i].quantity
        /\ p.status = (IF o.filled + moves[i].quantity = o.quantity THEN "filled" ELSE "open")
    BY <2>2, FilledFields
  <2>4. /\ moves[i].quantity \in Nat /\ moves[i].user = o.owner /\ moves[i].side = o.side
             /\ moves[i].outcome = o.outcome
    BY <2>1 DEF Fits
  <2> HIDE DEF p
  <2>5. Promised(p, u, c) = (IF o.owner = u /\ o.side = "sell" /\ o.outcome = c
                             THEN o.quantity - (o.filled + moves[i].quantity) ELSE 0)
    BY <2>2, <2>3, <2>4 DEF Promised, Remaining
  <2>6. Promised(o, u, c) = (IF o.owner = u /\ o.side = "sell" /\ o.outcome = c
                             THEN o.quantity - o.filled ELSE 0)
    BY <2>1 DEF Promised, Remaining
  <2>7. Sold(moves[i], u, c) = (IF o.owner = u /\ o.side = "sell" /\ o.outcome = c
                                THEN moves[i].quantity ELSE 0)
    BY <1>5, <2>2, <2>4 DEF Sold
  <2>8. After(o, moves) = p
    BY <2>1 DEF p
  <2> QED BY <2>2, <2>4, <2>5, <2>6, <2>7, <2>8
<1>6. \A i \in 1..n : D[i] = Sold(moves[i], u, c) /\ D[i] \in Int /\ (moves[i].order = NoKey => D[i] = 0)
  <2>1. \A i \in 1..n : moves[i] \in Move
    BY BatchLists
  <2> QED BY <1>1, <2>1 DEF Sold, Move
<1>7. PromisedOf(A, u, c) = SumFunctionOnSet(K, A) /\ PromisedOf(rows, u, c) = SumFunctionOnSet(F, rows)
      /\ SoldBy(moves, n, u, c) = SumFunctionOnSet(D, 1..n)
  BY DEF PromisedOf, SoldBy
<1> HIDE DEF K, F, D
<1>8. SumFunctionOnSet(K, A) = SumFunctionOnSet(G, rows)
  <2>1. \A o \in rows : K[After(o, moves)] \in Int
    BY <1>4
  <2> QED BY <2>1, SumAfter
<1> HIDE DEF A, G
<1>9. \A o \in rows : (\A i \in 1..n : moves[i].order # o.key) => G[o] = F[o]
  <2>1. \A o \in rows : (\A i \in 1..n : moves[i].order # o.key) => After(o, moves) = o
    BY AfterRow
  <2> QED BY <1>4, <2>1
<1>10. \A i \in 1..n : \A o \in rows : moves[i].order = o.key => D[i] = F[o] - G[o]
  BY <1>4, <1>5, <1>6
<1>11. SumFunctionOnSet(G, rows) = SumFunctionOnSet(F, rows) - SumFunctionOnSet(D, 1..n)
  <2>1. Drains(moves, n, rows, F, G, D)
    BY <1>4, <1>6, <1>9, <1>10 DEF Drains
  <2> QED BY <2>1, BatchFalls
<1> QED BY <1>7, <1>8, <1>11 DEF A

\* What the first i movements leave a user better off by, in shares of an
\* outcome beyond the promised ones.
Spare(moves, i, u, c) == SharesTo(moves, i, {u}, c) + SoldBy(moves, i, u, c)

\* A fill takes no share that was not promised; only a trade's own sale does.
LEMMA SpareGrows ==
  ASSUME NEW moves, NEW n, NEW leads, NEW rows, NEW d, Batch(moves, n, leads, rows, d), NEW u, NEW c
  PROVE  /\ SharesTo(moves, n, {u}, c) \in Int /\ SoldBy(moves, n, u, c) \in Int
         /\ Spare(moves, n, u, c)
              >= (IF moves[1].order = NoKey /\ moves[1].user = u /\ moves[1].side = "sell" /\ moves[1].outcome = c
                  THEN -moves[1].quantity ELSE 0)
<1> DEFINE least == IF moves[1].order = NoKey /\ moves[1].user = u /\ moves[1].side = "sell" /\ moves[1].outcome = c
                    THEN -moves[1].quantity ELSE 0
           S(i) == Spare(moves, i, u, c)
           T == {i \in 0..n : i = 0 \/ S(i) >= least}
<1>1. /\ n \in Nat \ {0} /\ n \in Nat /\ moves \in [1..n -> Move] /\ 0 \in 0..n /\ n \in 0..n /\ n # 0
      /\ \A i \in 1..n : moves[i] \in Move
  BY BatchLists DEF Batch
<1>2. \A i \in 0..n : SharesTo(moves, i, {u}, c) \in Int /\ SoldBy(moves, i, u, c) \in Int
  BY <1>1, SharesUnroll, SoldUnroll
<1>3. \A i \in 0..n : S(i) \in Int
  BY <1>2 DEF Spare
<1>4. S(0) = 0
  <2>1. SharesTo(moves, 0, {u}, c) = 0 /\ SoldBy(moves, 0, u, c) = 0
    BY <1>1, SharesUnroll, SoldUnroll
  <2> QED BY <2>1 DEF Spare
<1>5. ASSUME NEW i \in 0..n, i < n
      PROVE  /\ moves[i + 1].order # NoKey => S(i + 1) >= S(i)
             /\ i = 0 => S(i + 1) >= least
             /\ i + 1 \in 0..n /\ (i # 0 => moves[i + 1].order # NoKey)
  <2> DEFINE m == moves[i + 1]
  <2>1. i + 1 \in 1..n /\ i + 1 \in 0..n /\ (i # 0 => i + 1 # 1)
    BY <1>1, <1>5
  <2>2. m \in Move /\ (i # 0 => m.order # NoKey)
    BY <1>1, <2>1, BatchFills
  <2>3. m.side \in {"buy", "sell"} /\ m.quantity \in Nat
    BY <2>2 DEF Move, Sides
  <2>4. /\ SharesTo(moves, i + 1, {u}, c) = SharesTo(moves, i, {u}, c)
             + (IF m.user \in {u} /\ m.outcome = c THEN Signed(m.side, m.quantity) ELSE 0)
        /\ SoldBy(moves, i + 1, u, c) = SoldBy(moves, i, u, c) + Sold(m, u, c)
    <3>1. SharesTo(moves, i + 1, {u}, c) = SharesTo(moves, i, {u}, c)
            + (IF m.user \in {u} /\ m.outcome = c THEN Signed(m.side, m.quantity) ELSE 0)
      <4> HIDE DEF T, S, least
      <4>1. n \in Nat /\ moves \in [1..n -> Move] /\ i \in 0..n /\ i < n
        BY <1>1, <1>5
      <4>2. PICK U : U = {u}
        OBVIOUS
      <4>3. SharesTo(moves, i + 1, U, c) = SharesTo(moves, i, U, c)
              + (IF m.user \in U /\ m.outcome = c THEN Signed(m.side, m.quantity) ELSE 0)
        BY <4>1, SharesUnroll
      <4> HIDE DEF m
      <4> QED BY <4>2, <4>3
    <3>2. SoldBy(moves, i + 1, u, c) = SoldBy(moves, i, u, c) + Sold(m, u, c)
      BY <1>1, <1>5, SoldUnroll
    <3> HIDE DEF m
    <3> QED BY <3>1, <3>2
  <2>5. i = 0 => m = moves[1]
    OBVIOUS
  <2> DEFINE shares == IF m.user \in {u} /\ m.outcome = c THEN Signed(m.side, m.quantity) ELSE 0
  <2>6. shares + Sold(m, u, c) = (IF m.user = u /\ m.outcome = c
                                  THEN IF m.side = "buy" THEN m.quantity
                                       ELSE IF m.order = NoKey THEN -m.quantity ELSE 0
                                  ELSE 0)
        /\ shares \in Int /\ Sold(m, u, c) \in Int
    <3> HIDE DEF m
    <3> QED BY <2>3 DEF Sold, Signed
  <2> HIDE DEF shares
  <2>7. S(i + 1) = S(i) + (shares + Sold(m, u, c))
    <3>1. SharesTo(moves, i + 1, {u}, c) = SharesTo(moves, i, {u}, c) + shares
      BY <2>4 DEF shares
    <3> HIDE DEF m
    <3> QED BY <1>2, <2>4, <2>6, <3>1 DEF Spare
  <2>8. i = 0 => least = (IF m.order = NoKey /\ m.user = u /\ m.side = "sell" /\ m.outcome = c THEN -m.quantity ELSE 0)
    BY <2>5
  <2> HIDE DEF m, S, least
  <2>9. m.order # NoKey => S(i + 1) >= S(i)
    BY <1>3, <2>3, <2>6, <2>7
  <2>10. i = 0 => S(i + 1) >= least
    BY <1>3, <1>4, <2>3, <2>6, <2>7, <2>8
  <2> QED BY <2>1, <2>2, <2>9, <2>10 DEF m
<1>6. 0 \in T
  BY <1>1
<1>7. ASSUME NEW i \in T, i < n PROVE i + 1 \in T
  <2>1. i \in 0..n /\ (i = 0 \/ S(i) >= least)
    OBVIOUS
  <2>2. /\ moves[i + 1].order # NoKey => S(i + 1) >= S(i)
        /\ i = 0 => S(i + 1) >= least
        /\ i + 1 \in 0..n /\ (i # 0 => moves[i + 1].order # NoKey)
    BY <1>5, <1>7, <2>1
  <2>3. least \in Int
    <3>1. 1 \in 1..n
      BY <1>1
    <3>2. moves[1].quantity \in Nat
      BY <1>1, <3>1 DEF Move
    <3> QED BY <3>2
  <2> HIDE DEF S, least
  <2> QED BY <1>3, <2>1, <2>2, <2>3
<1>8. \A i \in 0..n : i \in T
  <2> HIDE DEF T
  <2> QED BY <1>1, <1>6, <1>7, Climbs
<1> QED BY <1>1, <1>2, <1>8

LEMMA PromisedJoins ==
  ASSUME RowsSound(orders), NEW r \in Requests, r.kind = "order", StoredOrder(r) = {}, NEW u, NEW c
  PROVE  PromisedOf(orders \cup {OrderOf(r)}, u, c)
         = PromisedOf(orders, u, c) + (IF r.user = u /\ r.side = "sell" /\ r.outcome = c THEN r.quantity ELSE 0)
<1> DEFINE o == OrderOf(r)
           F == [x \in orders \cup {o} |-> Promised(x, u, c)]
           G == [x \in orders |-> Promised(x, u, c)]
<1>1. /\ RowsSound(orders \cup {o}) /\ o.key = r.key /\ o.owner = r.user /\ o.side = r.side
           /\ o.status = "open"
      /\ o.outcome = r.outcome /\ o.quantity = r.quantity /\ o.filled = 0
      /\ \A x \in orders : x.key # r.key
  BY OrderSound
<1>2. r.quantity \in Nat
  BY RequestFields
<1> HIDE DEF o
<1>3. Promised(o, u, c) = (IF r.user = u /\ r.side = "sell" /\ r.outcome = c THEN r.quantity ELSE 0)
  BY <1>1, <1>2 DEF Promised, Remaining
<1>4. (\A x \in orders : F[x] = G[x] /\ F[x] \in Int) /\ F[o] \in Int /\ F[o] = Promised(o, u, c)
  <2>1. \A x \in orders \cup {o} : Promised(x, u, c) \in Nat
    BY <1>1, RowsPromised
  <2> QED BY <2>1
<1>5. o \notin orders /\ IsFiniteSet(orders)
  BY <1>1 DEF RowsSound
<1>6. PromisedOf(orders \cup {o}, u, c) = SumFunctionOnSet(F, orders \cup {o})
      /\ PromisedOf(orders, u, c) = SumFunctionOnSet(G, orders)
  BY DEF PromisedOf
<1> HIDE DEF F, G
<1>7. SumFunctionOnSet(F, orders \cup {o}) = SumFunctionOnSet(G, orders) + F[o]
  BY <1>4, <1>5, SumJoins
<1> QED BY <1>3, <1>4, <1>6, <1>7 DEF o

\* The shares and the pool: what users hold is what is outstanding, what their
\* sells promise is theirs, and the pool has what the cost function charges.
Balanced ==
  /\ \A u \in Users, o \in Outcomes : held[u][o] >= 0
  /\ result = NoResult => \A u \in Users, o \in Outcomes : PromisedOf(orders, u, o) <= held[u][o]
  /\ \A o \in Outcomes : q[o] = SumFunctionOnSet([u \in Users |-> held[u][o]], Users)
  /\ result = NoResult => Grain * (pool - Subsidy) >= CostAt(q[0], q[1]) - CostAt(0, 0)

\* A commit takes no share promised to another order.
LEMMA CommitShares ==
  ASSUME EveryLead, Core, Balanced, NEW s \in Sessions, NEW moves, NEW n, NEW leads, NEW brought,
         Committed(s, moves, n, leads, brought), NEW u \in Users, NEW c \in Outcomes
  PROVE  PromisedOf(orders', u, c) <= held'[u][c] /\ held'[u][c] >= 0
<1> DEFINE r == req[s]
           rows == orders \cup brought
           own == IF r.user = u /\ r.side = "sell" /\ r.outcome = c THEN r.quantity ELSE 0
<1>1. /\ pc[s] = "locked" /\ result = NoResult /\ Batch(moves, n, leads, rows, q[0] - q[1]) /\ RowsSound(rows)
      /\ ~ShortOfShares(r)
      /\ moves[1].user = r.user /\ moves[1].outcome = r.outcome /\ moves[1].side = r.side
      /\ r.kind = "trade" => brought = {} /\ moves[1].order = NoKey /\ moves[1].quantity = r.quantity
      /\ r.kind = "order" => brought = {OrderOf(r)} /\ StoredOrder(r) = {} /\ moves[1].order = r.key
  BY DEF Committed, Latched
<1>2. /\ r \in Requests /\ r.kind \in {"trade", "order"} /\ r.key # NoKey /\ r.quantity \in Nat
      /\ r.user \in Users /\ r.outcome \in Outcomes
  BY <1>1, RequestFields DEF Core, Quoted
<1>3. RowsSound(orders) /\ held \in [Users -> [Outcomes -> Int]]
  BY DEF Core
<1>4. /\ orders' = {After(o, moves) : o \in rows} /\ RowsSound(orders')
      /\ held'[u][c] = held[u][c] + SharesTo(moves, n, {u}, c)
  BY WriteMeans
<1>5. held[u][c] \in Int /\ PromisedOf(orders, u, c) <= held[u][c]
  BY <1>1, <1>3 DEF Balanced
<1>6. PromisedOf(orders, u, c) \in Nat
  BY <1>3, RowsPromised
<1>7. own \in Nat /\ PromisedOf(orders, u, c) + own <= held[u][c]
  <2>1. CASE r.user = u /\ r.side = "sell" /\ r.outcome = c
    <3>1. ~(r.quantity > held[u][c] - ReservedShares(u, c))
      BY <1>1, <2>1 DEF ShortOfShares
    <3>2. ReservedShares(u, c) = PromisedOf(orders, u, c)
      BY <1>1, ReservedIsPromised
    <3>3. own = r.quantity
      BY <2>1
    <3> HIDE DEF own, r
    <3> QED BY <1>2, <1>5, <1>6, <3>1, <3>2, <3>3
  <2>2. CASE ~(r.user = u /\ r.side = "sell" /\ r.outcome = c)
    <3>1. own = 0
      BY <2>2
    <3> HIDE DEF own
    <3> QED BY <1>5, <1>6, <3>1
  <2> QED BY <2>1, <2>2
<1>8. PromisedOf(orders', u, c) = PromisedOf(rows, u, c) - SoldBy(moves, n, u, c)
        /\ PromisedOf(orders', u, c) \in Nat
  <2> HIDE DEF rows
  <2>1. PromisedOf({After(o, moves) : o \in rows}, u, c) = PromisedOf(rows, u, c) - SoldBy(moves, n, u, c)
    BY <1>1, PromisedFalls
  <2>2. PromisedOf(orders', u, c) \in Nat
    BY <1>4, RowsPromised
  <2> QED BY <1>4, <2>1, <2>2
<1>9. /\ SharesTo(moves, n, {u}, c) \in Int /\ SoldBy(moves, n, u, c) \in Int
      /\ Spare(moves, n, u, c)
           >= (IF moves[1].order = NoKey /\ moves[1].user = u /\ moves[1].side = "sell" /\ moves[1].outcome = c
               THEN -moves[1].quantity ELSE 0)
  <2> HIDE DEF rows
  <2> QED BY <1>1, SpareGrows
<1>10. PromisedOf(rows, u, c) \in Nat
       /\ PromisedOf(rows, u, c) - Spare(moves, n, u, c) <= PromisedOf(orders, u, c) + own
  <2>1. PromisedOf(rows, u, c) \in Nat
    <3> HIDE DEF rows
    <3> QED BY <1>1, RowsPromised
  <2>2. Spare(moves, n, u, c) \in Int
    BY <1>9 DEF Spare
  <2>3. CASE r.kind = "trade"
    <3>1. rows = orders
      BY <1>1, <2>3
    <3>2. Spare(moves, n, u, c) >= -own
      <4> HIDE DEF rows, r
      <4> QED BY <1>1, <1>2, <1>9, <2>3
    <3> HIDE DEF rows, own
    <3> QED BY <1>6, <1>7, <2>1, <2>2, <3>1, <3>2
  <2>4. CASE r.kind = "order"
    <3>1. rows = orders \cup {OrderOf(r)}
      BY <1>1, <2>4
    <3>2. PromisedOf(orders \cup {OrderOf(r)}, u, c) = PromisedOf(orders, u, c) + own
      <4> HIDE DEF r
      <4> QED BY <1>1, <1>2, <1>3, <2>4, PromisedJoins
    <3>3. Spare(moves, n, u, c) >= 0
      BY <1>1, <1>2, <1>9, <2>4
    <3> HIDE DEF rows, own
    <3> QED BY <1>6, <1>7, <2>1, <2>2, <3>1, <3>2, <3>3
  <2> QED BY <1>2, <2>1, <2>3, <2>4
<1>11. Spare(moves, n, u, c) = SharesTo(moves, n, {u}, c) + SoldBy(moves, n, u, c)
  BY DEF Spare
<1> HIDE DEF rows, own, r
<1> QED BY <1>4, <1>5, <1>6, <1>7, <1>8, <1>9, <1>10, <1>11

\* A commit moves the shares outstanding by what it moves users' holdings.
LEMMA CommitAddsUp ==
  ASSUME EveryLead, Core, Balanced, NEW s, NEW moves, NEW n, NEW leads, NEW brought,
         Committed(s, moves, n, leads, brought), NEW c \in Outcomes
  PROVE  q'[c] = SumFunctionOnSet([u \in Users |-> held'[u][c]], Users)
<1> DEFINE F == [u \in Users |-> held[u][c]]
           G == [u \in Users |-> SharesTo(moves, n, {u}, c)]
           H == [u \in Users |-> held'[u][c]]
<1>1. /\ n \in Nat /\ n \in 0..n /\ moves \in [1..n -> Move]
      /\ q'[c] = q[c] + SharesTo(moves, n, Users, c)
      /\ \A u \in Users : held'[u][c] = held[u][c] + SharesTo(moves, n, {u}, c)
  BY WriteMeans
<1>2. \A u : SharesTo(moves, n, {u}, c) \in Int
  BY <1>1, SharesUnroll
<1>3. \A u \in Users : F[u] \in Int /\ G[u] \in Int /\ H[u] = F[u] + G[u]
  <2>1. \A u \in Users : held[u][c] \in Int
    BY DEF Core
  <2> QED BY <1>1, <1>2, <2>1
<1>4. SharesTo(moves, n, Users, c) = SumFunctionOnSet(G, Users)
  BY <1>1, SharesAddUp
<1>5. q[c] = SumFunctionOnSet(F, Users)
  BY DEF Balanced
<1> HIDE DEF F, G, H
<1>6. SumFunctionOnSet(H, Users) = SumFunctionOnSet(F, Users) + SumFunctionOnSet(G, Users)
  BY <1>3, UsersAssumption, SumOfBoth
<1> QED BY <1>1, <1>4, <1>5, <1>6 DEF H

\* A commit pays the pool what it takes the cost function to.
LEMMA CommitPaid ==
  ASSUME EveryLead, Core, Balanced, NEW s, NEW moves, NEW n, NEW leads, NEW brought,
         Committed(s, moves, n, leads, brought)
  PROVE  Grain * (pool' - Subsidy) >= CostAt(q'[0], q'[1]) - CostAt(0, 0)
<1> DEFINE rows == orders \cup brought
           a == q[0] + SharesTo(moves, n, Users, 0)
           b == q[1] + SharesTo(moves, n, Users, 1)
<1>1. Batch(moves, n, leads, rows, q[0] - q[1]) /\ result = NoResult /\ q \in [Outcomes -> Int]
        /\ pool \in Int
  BY DEF Committed, Latched, Core
<1>2. q[0] \in Int /\ q[1] \in Int
  BY <1>1, LeadInt
<1>3. /\ n \in Nat /\ n \in 0..n /\ moves \in [1..n -> Move] /\ pool' = pool + PaidIn(moves, n)
      /\ q'[0] = a /\ q'[1] = b
  BY WriteMeans DEF Outcomes
<1>4. Grain * PaidIn(moves, n) >= CostAt(a, b) - CostAt(q[0], q[1])
  <2> HIDE DEF rows
  <2> QED BY <1>1, PoolCovers
<1>5. SharesTo(moves, n, Users, 0) \in Int /\ SharesTo(moves, n, Users, 1) \in Int /\ PaidIn(moves, n) \in Int
  BY <1>3, SharesUnroll, PaidUnroll
<1>6. a \in Int /\ b \in Int
  BY <1>2, <1>5
<1> HIDE DEF a, b
<1>7. CostAt(a, b) \in Int /\ CostAt(q[0], q[1]) \in Int /\ CostAt(0, 0) \in Int
  BY <1>2, <1>6, CostMoves DEF Outcomes
<1>8. Grain * (pool - Subsidy) >= CostAt(q[0], q[1]) - CostAt(0, 0)
  BY <1>1 DEF Balanced
<1>9. Grain \in Int /\ Subsidy \in Int
  BY ScaleAssumption, UsersAssumption
<1> DEFINE v == PaidIn(moves, n)
<1> HIDE DEF v
<1>10. /\ Grain * (pool' - Subsidy) = Grain * (pool - Subsidy) + Grain * v
       /\ Grain * (pool - Subsidy) \in Int /\ Grain * v \in Int
  <2>1. pool' - Subsidy = (pool - Subsidy) + v /\ pool - Subsidy \in Int /\ v \in Int
    BY <1>1, <1>3, <1>5, <1>9 DEF v
  <2> QED BY <1>9, <2>1, Distributes
<1> QED BY <1>3, <1>4, <1>7, <1>8, <1>10 DEF v

LEMMA CommitBalanced ==
  ASSUME EveryLead, Core, Balanced, NEW s \in Sessions, NEW moves, NEW n, NEW leads, NEW brought,
         Committed(s, moves, n, leads, brought)
  PROVE  Balanced'
<1>1. \A u \in Users, c \in Outcomes : PromisedOf(orders', u, c) <= held'[u][c] /\ held'[u][c] >= 0
  BY CommitShares
<1>2. \A c \in Outcomes : q'[c] = SumFunctionOnSet([u \in Users |-> held'[u][c]], Users)
  BY CommitAddsUp
<1>3. Grain * (pool' - Subsidy) >= CostAt(q'[0], q'[1]) - CostAt(0, 0)
  BY CommitPaid
<1> QED BY <1>1, <1>2, <1>3 DEF Balanced

LEMMA RestBalanced ==
  ASSUME Core, Balanced, NEW s \in Sessions, Rested(s)
  PROVE  Balanced'
<1> DEFINE r == req[s]
<1>1. /\ r \in Requests /\ r.kind = "order" /\ StoredOrder(r) = {} /\ result = NoResult
      /\ orders' = orders \cup {OrderOf(r)} /\ ~ShortOfShares(r)
      /\ q' = q /\ pool' = pool /\ held' = held /\ result' = result
  BY DEF Rested, Latched
<1>2. ASSUME NEW u \in Users, NEW c \in Outcomes PROVE PromisedOf(orders', u, c) <= held'[u][c]
  <2>1. PromisedOf(orders', u, c)
        = PromisedOf(orders, u, c) + (IF r.user = u /\ r.side = "sell" /\ r.outcome = c THEN r.quantity ELSE 0)
    <3>1. orders' = orders \cup {OrderOf(r)} /\ r \in Requests /\ StoredOrder(r) = {} /\ r.kind = "order"
      BY <1>1
    <3>2. RowsSound(orders)
      BY DEF Core
    <3> HIDE DEF r
    <3>3. PromisedOf(orders \cup {OrderOf(r)}, u, c)
          = PromisedOf(orders, u, c) + (IF r.user = u /\ r.side = "sell" /\ r.outcome = c THEN r.quantity ELSE 0)
      BY <3>1, <3>2, PromisedJoins
    <3> QED BY <3>1, <3>3
  <2>2. PromisedOf(orders, u, c) <= held[u][c] /\ held[u][c] \in Int
    BY <1>1 DEF Core, Balanced
  <2>3. PromisedOf(orders, u, c) \in Nat
    BY RowsPromised DEF Core
  <2>4. r.quantity \in Nat
    BY <1>1, RequestFields
  <2>5. r.user = u /\ r.side = "sell" /\ r.outcome = c =>
          ~(r.quantity > held[u][c] - PromisedOf(orders, u, c))
    BY <1>1, ReservedIsPromised DEF ShortOfShares
  <2> HIDE DEF r
  <2> QED BY <1>1, <2>1, <2>2, <2>3, <2>4, <2>5
<1> QED BY <1>1, <1>2 DEF Balanced

LEMMA CancelBalanced ==
  ASSUME Core, Balanced, Cancel
  PROVE  Balanced'
<1>1. PICK o \in orders : /\ Live(o) /\ orders' = (orders \ {o}) \cup {[o EXCEPT !.status = "cancelled"]}
                          /\ q' = q /\ pool' = pool /\ held' = held /\ result' = result
  BY DEF Cancel
<1> DEFINE c == [o EXCEPT !.status = "cancelled"]
           rest == orders \ {o}
<1>2. RowsSound(rest \cup {c}) /\ c.status = "cancelled" /\ c.key = o.key
  BY CancelRows DEF Core
<1>3. orders' = rest \cup {c} /\ orders = rest \cup {o} /\ o \notin rest
  BY <1>1
<1> HIDE DEF c, rest
<1>4. c \notin rest /\ IsFiniteSet(rest)
  <2>1. IsFiniteSet(orders) /\ \A x \in orders : x.key = o.key => x = o
    BY DEF Core, RowsSound
  <2> QED BY <1>2, <1>3, <2>1, FS_Subset
<1>5. ASSUME NEW u \in Users, NEW k \in Outcomes PROVE PromisedOf(orders', u, k) <= PromisedOf(orders, u, k)
  <2> DEFINE F == [x \in orders |-> Promised(x, u, k)]
             G == [x \in rest \cup {c} |-> Promised(x, u, k)]
             K == [x \in rest |-> Promised(x, u, k)]
  <2>1. (\A x \in orders : Promised(x, u, k) \in Nat) /\ \A x \in rest \cup {c} : Promised(x, u, k) \in Nat
    BY <1>2, RowsPromised DEF Core
  <2>2. /\ \A x \in rest : F[x] = K[x] /\ F[x] \in Int
        /\ \A x \in rest : G[x] = K[x] /\ G[x] \in Int
        /\ F[o] \in Nat /\ F[o] \in Int /\ G[c] = 0 /\ G[c] \in Int
    BY <1>2, <1>3, <2>1 DEF Promised
  <2>3. PromisedOf(orders, u, k) = SumFunctionOnSet(F, rest \cup {o})
        /\ PromisedOf(orders', u, k) = SumFunctionOnSet(G, rest \cup {c})
    BY <1>3 DEF PromisedOf
  <2> HIDE DEF F, G, K
  <2>4. SumFunctionOnSet(F, rest \cup {o}) = SumFunctionOnSet(K, rest) + F[o]
          /\ SumFunctionOnSet(K, rest) \in Int
    BY <1>3, <1>4, <2>2, SumJoins
  <2>5. SumFunctionOnSet(G, rest \cup {c}) = SumFunctionOnSet(K, rest) + G[c]
    BY <1>4, <2>2, SumJoins
  <2> QED BY <2>2, <2>3, <2>4, <2>5
<1>6. \A u \in Users, k \in Outcomes : /\ PromisedOf(orders', u, k) \in Nat
        /\ PromisedOf(orders, u, k) \in Nat
                                       /\ held[u][k] \in Int
  <2>1. \A u, k : PromisedOf(orders', u, k) \in Nat
    BY <1>2, <1>3, RowsPromised
  <2>2. \A u, k : PromisedOf(orders, u, k) \in Nat
    BY RowsPromised DEF Core
  <2> QED BY <2>1, <2>2 DEF Core
<1>7. result = NoResult
  BY <1>1 DEF Live
<1>8. ASSUME NEW u \in Users, NEW k \in Outcomes
      PROVE  PromisedOf(orders', u, k) <= held'[u][k] /\ held'[u][k] >= 0
  <2>1. PromisedOf(orders, u, k) <= held[u][k] /\ held[u][k] >= 0
    BY <1>7 DEF Balanced
  <2>2. held'[u][k] = held[u][k]
    BY <1>1
  <2> QED BY <1>5, <1>6, <2>1, <2>2
<1> QED BY <1>1, <1>8 DEF Balanced

LEMMA BalancedInit == EveryLead /\ Init => Balanced
<1> SUFFICES ASSUME EveryLead, Init PROVE Balanced
  OBVIOUS
<1>1. /\ orders = {} /\ pool = Subsidy /\ q = [o \in Outcomes |-> 0]
      /\ held = [u \in Users |-> [o \in Outcomes |-> 0]]
  BY DEF Init
<1>2. \A u, c : PromisedOf(orders, u, c) = 0
  BY <1>1, SumEmpty DEF PromisedOf
<1>3. \A u \in Users, c \in Outcomes : held[u][c] = 0
  BY <1>1
<1>4. ASSUME NEW c \in Outcomes PROVE q[c] = SumFunctionOnSet([u \in Users |-> held[u][c]], Users)
  <2> DEFINE F == [u \in Users |-> held[u][c]]
  <2>1. \A u \in Users : F[u] = 0
    BY <1>3
  <2> HIDE DEF F
  <2>2. SumFunctionOnSet(F, Users) = 0
    BY <2>1, UsersAssumption, SumZero
  <2> QED BY <1>1, <2>2 DEF F
<1>5. Grain * (pool - Subsidy) >= CostAt(q[0], q[1]) - CostAt(0, 0)
  <2>1. q[0] = 0 /\ q[1] = 0
    BY <1>1 DEF Outcomes
  <2>2. CostAt(0, 0) \in Int
    BY CostMoves DEF Outcomes
  <2>3. pool - Subsidy = 0 /\ Grain * 0 = 0
    BY <1>1, ScaleAssumption, UsersAssumption
  <2> QED BY <2>1, <2>2, <2>3
<1> QED BY <1>2, <1>3, <1>4, <1>5 DEF Balanced

LEMMA BalancedNext ==
  ASSUME EveryLead, Core, Balanced, [Next]_vars
  PROVE  Balanced'
<1>1. ASSUME orders' = orders, q' = q, held' = held, pool' = pool, result' = result PROVE Balanced'
  BY <1>1 DEF Balanced
<1>2. ASSUME UNCHANGED book PROVE Balanced'
  BY <1>1, <1>2 DEF book
<1>3. CASE UNCHANGED vars
  BY <1>2, <1>3 DEF vars
<1>4. ASSUME NEW s \in Sessions, Step(s) PROVE Balanced'
  <2>1. CASE AccountRefused(s) \/ CheckGate(s) \/ Refuse(s) \/ Abort(s)
    <3>1. UNCHANGED book
      BY <2>1 DEF AccountRefused, CheckGate, Refuse, Abort, book
    <3> QED BY <1>2, <3>1
  <2>2. CASE Trade(s)
    BY <1>2, <2>2, TradeCommits, CommitBalanced
  <2>3. CASE PlaceAndFill(s)
    BY <1>2, <2>3, PlaceCommits, CommitBalanced
  <2>4. CASE PlaceAndRest(s)
    BY <1>2, <2>4, RestMeans, RestBalanced
  <2> QED BY <1>4, <2>1, <2>2, <2>3, <2>4 DEF Step
<1>5. ASSUME NEW s \in Sessions, NEW r \in Requests, Ask(s, r) PROVE Balanced'
  BY <1>2, <1>5 DEF Ask, book
<1>6. CASE Cancel
  BY <1>6, CancelBalanced
<1>7. CASE Close
  BY <1>2, <1>7 DEF Close
<1>8. CASE TradeElsewhere
  BY <1>1, <1>8 DEF TradeElsewhere
<1>9. CASE Settle
  <2>1. result' \in Outcomes /\ q' = q /\ held' = held
    BY <1>9 DEF Settle
  <2>2. result' # NoResult
    BY <2>1, RequestsAssumption
  <2> QED BY <2>1, <2>2 DEF Balanced
<1> QED BY <1>3, <1>4, <1>5, <1>6, <1>7, <1>8, <1>9 DEF Next

LEMMA BalancedTells ==
  ASSUME EveryLead, Core, Balanced
  PROVE  BookAddsUp
<1>1. /\ \A o \in orders : RowSound(o) /\ o \in Order
      /\ q \in [Outcomes -> Int] /\ held \in [Users -> [Outcomes -> Int]]
  BY DEF Core, RowsSound, RowSound
<1>2. \A u \in Users, c \in Outcomes : held[u][c] \in Nat
  BY <1>1 DEF Balanced
<1>3. ASSUME NEW c \in Outcomes
      PROVE  q[c] \in Nat /\ q[c] = SumFunctionOnSet([u \in Users |-> held[u][c]], Users)
  <2> DEFINE F == [u \in Users |-> held[u][c]]
  <2>1. \A u \in Users : F[u] \in Nat
    BY <1>2
  <2> HIDE DEF F
  <2>2. SumFunctionOnSet(F, Users) \in Nat
    BY <2>1, UsersAssumption, SumNat
  <2>3. q[c] = SumFunctionOnSet(F, Users)
    BY DEF Balanced, F
  <2> QED BY <2>2, <2>3 DEF F
<1>4. TypeOK
  <2>1. q \in [Outcomes -> Nat] /\ held \in [Users -> [Outcomes -> Nat]]
    BY <1>1, <1>2, <1>3
  <2>2. orders \subseteq Order /\ \A o \in orders : o.filled <= o.quantity
          /\ (o.side = "buy" => o.spent <= o.budget)
    BY <1>1, Covered DEF RowSound
  <2>3. posted \subseteq Entry
    BY DEF Core
  <2> QED BY <2>1, <2>2, <2>3 DEF TypeOK, Core, Entry
<1>5. ASSUME NEW u \in Users, NEW c \in Outcomes PROVE ReservedShares(u, c) <= held[u][c]
  <2>1. CASE result = NoResult
    BY <2>1, ReservedIsPromised DEF Balanced
  <2>2. CASE result # NoResult
    <3> DEFINE F == [o \in orders |-> SharesFor(o, u, c)]
    <3>1. \A o \in orders : F[o] = 0
      BY <2>2 DEF SharesFor, Live
    <3>2. IsFiniteSet(orders)
      BY DEF Core, RowsSound
    <3>3. ReservedShares(u, c) = SumFunctionOnSet(F, orders)
      BY DEF ReservedShares
    <3> HIDE DEF F
    <3>4. ReservedShares(u, c) = 0
      BY <3>1, <3>2, <3>3, SumZero
    <3> QED BY <1>2, <3>4
  <2> QED BY <2>1, <2>2
<1>6. result = NoResult => Grain * (pool - Subsidy) >= Share * Grain * q[1] + LogCost[q[0] - q[1]] - LogCost[0]
  <2>1. q[0] \in Int /\ q[1] \in Int /\ q[0] - q[1] \in Int
    BY <1>1, LeadInt
  <2>2. CostAt(0, 0) = LogCost[0] /\ CostAt(q[0], q[1]) = Share * Grain * q[1] + LogCost[q[0] - q[1]]
    <3>1. LogCost[0] \in Int
      BY LogCostAssumption DEF EveryLead
    <3>2. Scale * 0 = 0 /\ 0 - 0 = 0
      BY ScaleAssumption DEF Scale
    <3> QED BY <3>1, <3>2 DEF CostAt, Scale
  <2>3. result = NoResult => Grain * (pool - Subsidy) >= CostAt(q[0], q[1]) - CostAt(0, 0)
    BY DEF Balanced
  <2>4. Share * Grain * q[1] \in Int /\ LogCost[q[0] - q[1]] \in Int /\ LogCost[0] \in Int
    <3>1. LogCost[q[0] - q[1]] \in Int /\ LogCost[0] \in Int
      BY <2>1, LogCostAssumption DEF EveryLead
    <3>2. Share * Grain \in Int
      BY ScaleAssumption
    <3>3. Share * Grain * q[1] \in Int
      BY <2>1, <3>2, Distributes
    <3> QED BY <3>1, <3>3
  <2> DEFINE a == Share * Grain * q[1]
             b == LogCost[q[0] - q[1]]
             c == LogCost[0]
             p == Grain * (pool - Subsidy)
  <2>5. result = NoResult => p >= (a + b) - c
    BY <2>2, <2>3
  <2>6. a \in Int /\ b \in Int /\ c \in Int
    BY <2>4
  <2> HIDE DEF a, b, c, p
  <2>7. result = NoResult => p >= a + b - c
    BY <2>5, <2>6
  <2> QED BY <2>7 DEF a, b, c, p
<1> QED BY <1>3, <1>4, <1>5, <1>6 DEF BookAddsUp

LEMMA BalancedAlways == EveryLead => (Spec => [](Core /\ Balanced))
<1> SUFFICES ASSUME EveryLead PROVE Spec => [](Core /\ Balanced)
  OBVIOUS
<1>1. Init => Core /\ Balanced
  BY CoreInit, BalancedInit
<1>2. Core /\ Balanced /\ [Next]_vars => Core' /\ Balanced'
  BY CoreNext, BalancedNext
<1> QED BY <1>1, <1>2, PTL DEF Spec

\* The book adds up: shares outstanding are those users hold, none is promised
\* twice, and rounding never takes a profit out of the pool.
THEOREM BookAlwaysAddsUp == EveryLead => (Spec => []BookAddsUp)
<1> SUFFICES ASSUME EveryLead PROVE Spec => []BookAddsUp
  OBVIOUS
<1>1. Core /\ Balanced => BookAddsUp
  BY BalancedTells
<1>2. Spec => [](Core /\ Balanced)
  BY BalancedAlways
<1> QED BY <1>1, <1>2, PTL

----------------------------------------------------------------------------
(* Limits: where an order's fills stop *)

\* Outcome 0's side of an order's limit, on the line of the lead.
Goal(o) == IF o.outcome = 0 THEN Reach[o.limit] ELSE -Reach[o.limit]

\* Not one more share of the order fits between the lead and its limit.
Reached(o, d) ==
  IF IsUpPusher(o.outcome, o.side) THEN Goal(o) - Unit * d < Unit ELSE Unit * d - Goal(o) < Unit

\* An order's fill moves the lead towards its limit.
LEMMA Pushes ==
  ASSUME NEW o, RowSound(o), NEW d \in Int
  PROVE  /\ Goal(o) \in Int /\ Unit * d \in Int
         /\ IsUpPusher(o.outcome, o.side) =>
              /\ Signed(o.side, Reach[o.limit] - Unit * Lead(o.outcome, d)) = Goal(o) - Unit * d
              /\ LeadAfter(o, d) = d + FillQuantity(o, d)
         /\ ~IsUpPusher(o.outcome, o.side) =>
              /\ Signed(o.side, Reach[o.limit] - Unit * Lead(o.outcome, d)) = Unit * d - Goal(o)
              /\ LeadAfter(o, d) = d - FillQuantity(o, d)
<1>1. o.outcome \in {0, 1} /\ o.side \in {"buy", "sell"}
  BY DEF RowSound, Order, Outcomes, Sides
<1>2. Reach[o.limit] \in Int /\ Unit \in Nat \ {0}
  BY LimitDistance, ReachAssumption
<1>3. FillQuantity(o, d) \in Nat
  BY QuantitySound
<1>4. Unit * d \in Int /\ Unit * (-d) = -(Unit * d)
  BY <1>2
<1>5. Unit * Lead(o.outcome, d) = IF o.outcome = 0 THEN Unit * d ELSE -(Unit * d)
  BY <1>4 DEF Lead
<1>6. LeadAfter(o, d) = d + Lead(o.outcome, Signed(o.side, FillQuantity(o, d)))
  BY DEF LeadAfter, AfterFill
<1> QED BY <1>1, <1>2, <1>3, <1>4, <1>5, <1>6 DEF IsUpPusher, Goal, Signed, Lead

\* An order that has reached its limit fills no further.
LEMMA ReachedStops ==
  ASSUME NEW o, RowSound(o), NEW d \in Int, Reached(o, d)
  PROVE  ~Executable(o, d)
<1>1. /\ ToLimit(o, d) \in Int /\ Unit * ToLimit(o, d) \in Int
      /\ Unit * ToLimit(o, d) <= Signed(o.side, Reach[o.limit] - Unit * Lead(o.outcome, d))
  BY LimitDistance
<1>2. Signed(o.side, Reach[o.limit] - Unit * Lead(o.outcome, d)) < Unit
  BY Pushes DEF Reached
<1>3. Signed(o.side, Reach[o.limit] - Unit * Lead(o.outcome, d)) \in Int /\ Unit \in Nat \ {0}
  BY LimitDistance, ReachAssumption
<1>4. Unit * ToLimit(o, d) < Unit
  BY <1>1, <1>2, <1>3
<1>5. ToLimit(o, d) <= 0
  <2> DEFINE t == ToLimit(o, d)
  <2> HIDE DEF t
  <2>1. t \in Int /\ Unit * t < Unit
    BY <1>1, <1>4 DEF t
  <2>2. ~(t >= 1)
    BY <1>3, <2>1
  <2> QED BY <2>1, <2>2 DEF t
<1> QED BY <1>5, QuantitySound DEF Executable

\* A fill that leaves some of its order takes the price to the order's limit.
LEMMA PartlyReaches ==
  ASSUME NEW o, RowSound(o), NEW d \in Int, Executable(o, d), FillQuantity(o, d) # Remaining(o)
  PROVE  Reached(o, LeadAfter(o, d))
<1> DEFINE n == FillQuantity(o, d)
           X == Signed(o.side, Reach[o.limit] - Unit * Lead(o.outcome, d))
<1>1. n \in Nat /\ n > 0 /\ n = ToLimit(o, d)
  BY QuantitySound DEF Executable
<1>2. X \in Int /\ X < Unit * n + Unit /\ Unit * n \in Int
  BY <1>1, LimitDistance
<1>3. Unit \in Nat \ {0} /\ Goal(o) \in Int /\ Unit * d \in Int
  BY Pushes, ReachAssumption
<1>4. /\ IsUpPusher(o.outcome, o.side) => X = Goal(o) - Unit * d /\ LeadAfter(o, d) = d + n
      /\ ~IsUpPusher(o.outcome, o.side) => X = Unit * d - Goal(o) /\ LeadAfter(o, d) = d - n
  BY Pushes
<1>5. Unit * (d + n) = Unit * d + Unit * n /\ Unit * (d - n) = Unit * d - Unit * n
  BY <1>1, <1>3, Distributes
<1> HIDE DEF n, X
<1> QED BY <1>2, <1>3, <1>4, <1>5 DEF Reached

\* Limits in order of their prices are in order on the line.
LEMMA GoalsInOrder ==
  ASSUME NEW a, NEW b, RowSound(a), RowSound(b), Threshold(a.outcome, a.limit) < Threshold(b.outcome, b.limit)
  PROVE  Goal(a) <= Goal(b)
<1>1. /\ a.outcome \in {0, 1} /\ b.outcome \in {0, 1} /\ a.limit \in DOMAIN Reach /\ b.limit \in DOMAIN Reach
      /\ a.limit \in Nat /\ b.limit \in Nat /\ Share * Grain \in Nat
  BY ScaleAssumption DEF RowSound, Order, Outcomes
<1>2. /\ Reach[a.limit] \in Int /\ Reach[b.limit] \in Int
      /\ a.limit <= b.limit => Reach[a.limit] <= Reach[b.limit]
      /\ b.limit <= a.limit => Reach[b.limit] <= Reach[a.limit]
      /\ a.limit + b.limit < Share * Grain => Reach[a.limit] + Reach[b.limit] <= 0
      /\ a.limit + b.limit > Share * Grain => Reach[a.limit] + Reach[b.limit] >= 0
  BY <1>1, ReachAssumption
<1> QED BY <1>1, <1>2 DEF Goal, Threshold

\* Two orders that push the price apart: neither's limit lies beyond the other's.
Apart(a, b) ==
  IsUpPusher(a.outcome, a.side) /\ ~IsUpPusher(b.outcome, b.side) =>
    Threshold(a.outcome, a.limit) < Threshold(b.outcome, b.limit)

\* No other order's fill brings the price back from an order's limit.
LEMMA ReachedStays ==
  ASSUME NEW a, NEW b, RowSound(a), RowSound(b), Apart(a, b), Apart(b, a),
         NEW d \in Int, Reached(a, d), Executable(b, d)
  PROVE  Reached(a, LeadAfter(b, d))
<1> DEFINE n == FillQuantity(b, d)
           X == Signed(b.side, Reach[b.limit] - Unit * Lead(b.outcome, d))
           up(o) == IsUpPusher(o.outcome, o.side)
<1>1. n \in Nat /\ n > 0 /\ n <= ToLimit(b, d)
  BY QuantitySound DEF Executable
<1>2. X \in Int /\ ToLimit(b, d) \in Int /\ Unit * ToLimit(b, d) <= X /\ Unit * ToLimit(b, d) \in Int
  BY LimitDistance
<1>3. Unit \in Nat \ {0} /\ Goal(a) \in Int /\ Goal(b) \in Int /\ Unit * d \in Int
  BY Pushes, ReachAssumption
<1>4. /\ up(b) => X = Goal(b) - Unit * d /\ LeadAfter(b, d) = d + n
      /\ ~up(b) => X = Unit * d - Goal(b) /\ LeadAfter(b, d) = d - n
  BY Pushes
<1>5. Unit * (d + n) = Unit * d + Unit * n /\ Unit * (d - n) = Unit * d - Unit * n /\ Unit * n \in Int
  BY <1>1, <1>3, Distributes
<1>6. Unit * n >= 0 /\ Unit * n <= Unit * ToLimit(b, d)
  <2> DEFINE t == ToLimit(b, d)
  <2> HIDE DEF t, n
  <2>1. t \in Int /\ n \in Nat /\ n <= t
    BY <1>1, <1>2 DEF t
  <2>2. Unit * n >= 0 /\ Unit * n <= Unit * t
    BY <1>3, <2>1
  <2> QED BY <2>2 DEF t
<1>7. Unit * n <= X
  <2> HIDE DEF X, n
  <2> QED BY <1>2, <1>5, <1>6
<1>8. (up(a) /\ ~up(b) => Goal(a) <= Goal(b)) /\ (up(b) /\ ~up(a) => Goal(b) <= Goal(a))
  BY GoalsInOrder DEF Apart
<1>9. (up(a) => Goal(a) - Unit * d < Unit) /\ (~up(a) => Unit * d - Goal(a) < Unit)
  BY DEF Reached
<1>10. (up(a) => Goal(a) - Unit * LeadAfter(b, d) < Unit)
         /\ (~up(a) => Unit * LeadAfter(b, d) - Goal(a) < Unit)
  <2> HIDE DEF X, n, up
  <2> QED BY <1>2, <1>3, <1>4, <1>5, <1>6, <1>7, <1>8, <1>9
<1> QED BY <1>10 DEF Reached

----------------------------------------------------------------------------
(* Limits are kept *)

\* No two open orders' limits meet.
NoneCross(rows) == \A a, b \in rows : a.status = "open" /\ b.status = "open" => Apart(a, b)

\* What a batch leaves of an order it filled is as far as its limit allows.
LEMMA PartlyRests ==
  ASSUME EveryLead, NEW moves, NEW n, NEW leads, NEW rows, NEW d, Batch(moves, n, leads, rows, d),
         RowsSound(rows), NoneCross(rows), NEW i \in 1..n, NEW o \in rows, moves[i].order = o.key,
         After(o, moves).status = "open"
  PROVE  ~Executable(After(o, moves), leads[n + 1])
<1> DEFINE p == After(o, moves)
           T == {j \in 0..n : j >= i => Reached(p, leads[j + 1])}
<1>1. /\ n \in Nat /\ 0 \in 0..n /\ i \in 0..n /\ n \in 0..n /\ i \in 1..n
      /\ \A j \in 1..n : leads[j] \in Int /\ leads[j + 1] \in Int /\ Moved(moves[j], leads[j], leads[j + 1])
  BY BatchLists
<1>2. /\ o.status = "open" /\ Executable(o, leads[i]) /\ moves[i] = FillOf(o, leads[i])
      /\ p = Filled(o, moves[i])
  BY BatchHits
<1>3. RowSound(o) /\ RowSound(p) /\ p.outcome = o.outcome /\ p.side = o.side /\ p.limit = o.limit
        /\ o \in Order
  BY AfterRow DEF RowsSound, RowSound
<1>4. FillQuantity(o, leads[i]) # Remaining(o)
  <2>1. moves[i].quantity = FillQuantity(o, leads[i])
    BY <1>1, <1>2, <1>3, FillSound
  <2>2. p.status = (IF o.filled + moves[i].quantity = o.quantity THEN "filled" ELSE "open")
    BY <1>2, <1>3, FilledFields
  <2>3. o.filled + moves[i].quantity # o.quantity
    BY <2>2
  <2>4. o.filled \in Nat /\ o.quantity \in Nat /\ FillQuantity(o, leads[i]) \in Nat
    BY <1>1, <1>3, QuantitySound DEF Order
  <2> QED BY <2>1, <2>3, <2>4 DEF Remaining
<1>5. \A e : Reached(p, e) <=> Reached(o, e)
  BY <1>3 DEF Reached, Goal
<1>6. ASSUME NEW j \in 1..n, NEW b \in rows, b.status = "open", Executable(b, leads[j]), moves[j] = FillOf(b, leads[j])
      PROVE  leads[j + 1] = LeadAfter(b, leads[j])
  <2>1. RowSound(b)
    BY DEF RowsSound
  <2>2. /\ moves[j].outcome = b.outcome /\ moves[j].side = b.side
        /\ moves[j].quantity = FillQuantity(b, leads[j])
        /\ LeadAfter(b, leads[j]) = AfterFill(b.outcome, b.side, FillQuantity(b, leads[j]), leads[j])
    BY <1>1, <1>6, <2>1, FillSound
  <2> QED BY <1>1, <2>2 DEF Moved
<1>7. Reached(o, leads[i + 1])
  <2>1. Reached(o, LeadAfter(o, leads[i]))
    BY <1>1, <1>2, <1>3, <1>4, PartlyReaches
  <2> QED BY <1>1, <1>2, <1>6, <2>1
<1> HIDE DEF p
<1>8. 0 \in T
  BY <1>1
<1>9. ASSUME NEW j \in T, j < n PROVE j + 1 \in T
  <2>1. j \in 0..n /\ j + 1 \in 0..n /\ j + 1 \in 1..n
    BY <1>1, <1>9
  <2>2. CASE j + 1 < i
    BY <2>1, <2>2
  <2>3. CASE j + 1 = i
    BY <1>5, <1>7, <2>1, <2>3
  <2>4. CASE j + 1 > i
    <3>1. Reached(o, leads[j + 1])
      BY <1>1, <1>5, <2>1, <2>4
    <3>2. moves[j + 1].order # NoKey
      BY <1>1, <2>1, <2>4, BatchFills
    <3>3. PICK b \in rows : /\ b.status = "open" /\ b.key = moves[j + 1].order /\ Executable(b, leads[j + 1])
                            /\ moves[j + 1] = FillOf(b, leads[j + 1])
      BY <2>1, <3>2 DEF Batch, Fires
    <3>4. leads[j + 1 + 1] = LeadAfter(b, leads[j + 1])
      BY <1>6, <2>1, <3>3
    <3>5. Apart(o, b) /\ Apart(b, o)
      BY <1>2, <3>3 DEF NoneCross
    <3>6. RowSound(b)
      BY DEF RowsSound
    <3>7. Reached(o, leads[j + 1 + 1])
      BY <1>1, <1>3, <2>1, <3>1, <3>3, <3>4, <3>5, <3>6, ReachedStays
    <3> QED BY <1>5, <2>1, <3>7
  <2> QED BY <1>1, <2>1, <2>2, <2>3, <2>4
<1>10. \A j \in 0..n : j \in T
  <2> HIDE DEF T
  <2> QED BY <1>1, <1>8, <1>9, Climbs
<1>11. n \in 1..n /\ n >= i
  BY <1>1
<1>12. Reached(p, leads[n + 1])
  BY <1>1, <1>10, <1>11
<1> QED BY <1>1, <1>3, <1>11, <1>12, ReachedStops DEF p

\* Nothing rests that could fill, and no two orders could fill each other.
Resting ==
  /\ NoneCross(orders)
  /\ result = NoResult => \A o \in Open : ~Executable(o, q[0] - q[1])

\* An order that does not cross the book is apart from every order in it.
LEMMA BroughtApart ==
  ASSUME RowsSound(orders), NoneCross(orders), NEW r \in Requests, r.kind = "order",
         StoredOrder(r) = {}, ~Crosses(r)
  PROVE  NoneCross(orders \cup {OrderOf(r)})
<1> DEFINE c == OrderOf(r)
<1>1. RowSound(c) /\ c.outcome = r.outcome /\ c.side = r.side /\ c.limit = r.limit
  BY OrderSound
<1>2. \A o \in Open :
         ~ /\ IsUpPusher(o.outcome, o.side) # IsUpPusher(r.outcome, r.side)
           /\ IF IsUpPusher(r.outcome, r.side)
              THEN Threshold(r.outcome, r.limit) >= Threshold(o.outcome, o.limit)
              ELSE Threshold(r.outcome, r.limit) <= Threshold(o.outcome, o.limit)
  BY DEF Crosses
<1> HIDE DEF c
<1>3. ASSUME NEW o \in orders, o.status = "open" PROVE Apart(o, c) /\ Apart(c, o)
  <2>1. o \in Open
    BY <1>3 DEF Open
  <2>2. RowSound(o)
    BY DEF RowsSound
  <2>3. Threshold(o.outcome, o.limit) \in Int /\ Threshold(c.outcome, c.limit) \in Int
    BY <1>1, <2>2, ScaleAssumption DEF Threshold, RowSound, Order
  <2>4. /\ IsUpPusher(c.outcome, c.side) \in BOOLEAN /\ IsUpPusher(o.outcome, o.side) \in BOOLEAN
    BY DEF IsUpPusher
  <2>5. IsUpPusher(c.outcome, c.side) /\ ~IsUpPusher(o.outcome, o.side) =>
          ~(Threshold(c.outcome, c.limit) >= Threshold(o.outcome, o.limit))
    BY <1>1, <1>2, <2>1, Zenon
  <2>6. ~IsUpPusher(c.outcome, c.side) /\ IsUpPusher(o.outcome, o.side) =>
          ~(Threshold(c.outcome, c.limit) <= Threshold(o.outcome, o.limit))
    BY <1>1, <1>2, <2>1, Zenon
  <2> QED BY <2>3, <2>4, <2>5, <2>6 DEF Apart
<1>4. Apart(c, c)
  BY DEF Apart
<1>5. \A a, b \in orders : a.status = "open" /\ b.status = "open" => Apart(a, b)
  BY DEF NoneCross
<1> QED BY <1>3, <1>4, <1>5 DEF NoneCross, c

\* The orders a commit writes its batch against are apart too.
LEMMA CommitApart ==
  ASSUME Core, Resting, NEW s \in Sessions, NEW moves, NEW n, NEW leads, NEW brought,
         Committed(s, moves, n, leads, brought)
  PROVE  /\ NoneCross(orders \cup brought)
         /\ \A o \in brought : moves[1].order = o.key
<1>1. req[s] \in Requests /\ RowsSound(orders) /\ NoneCross(orders)
  BY DEF Committed, Core, Quoted, Resting
<1>2. CASE req[s].kind = "trade"
  <2>1. brought = {}
    BY <1>2 DEF Committed
  <2>2. orders \cup brought = orders
    BY <2>1
  <2> QED BY <1>1, <2>1, <2>2
<1>3. CASE req[s].kind = "order"
  <2>1. /\ brought = {OrderOf(req[s])} /\ StoredOrder(req[s]) = {} /\ ~Crosses(req[s])
        /\ moves[1].order = req[s].key
    BY <1>3 DEF Committed
  <2>2. OrderOf(req[s]).key = req[s].key
    BY <1>1, <1>3, <2>1, OrderSound
  <2>3. NoneCross(orders \cup {OrderOf(req[s])})
    BY <1>1, <1>3, <2>1, BroughtApart
  <2> QED BY <2>1, <2>2, <2>3
<1> QED BY <1>1, <1>2, <1>3, RequestFields

\* A commit leaves nothing that could fill.
LEMMA CommitRests ==
  ASSUME EveryLead, Core, Resting, NEW s \in Sessions, NEW moves, NEW n, NEW leads, NEW brought,
         Committed(s, moves, n, leads, brought)
  PROVE  Resting'
<1> DEFINE rows == orders \cup brought
<1>1. /\ Batch(moves, n, leads, rows, q[0] - q[1]) /\ RowsSound(rows)
      /\ NoneCross(rows) /\ \A o \in brought : moves[1].order = o.key
  <2>1. NoneCross(rows) /\ \A o \in brought : moves[1].order = o.key
    BY CommitApart
  <2>2. Batch(moves, n, leads, rows, q[0] - q[1]) /\ RowsSound(rows)
    BY DEF Committed
  <2> QED BY <2>1, <2>2
<1>2. /\ n \in Nat \ {0} /\ 1 \in 1..n /\ orders' = {After(o, moves) : o \in rows} /\ result' = result
      /\ q' = [o \in Outcomes |-> q[o] + SharesTo(moves, n, Users, o)]
  BY <1>1, WriteMeans, BatchLists
<1>3. leads[n + 1] = q'[0] - q'[1]
  <2>1. leads[n + 1] = (q[0] + SharesTo(moves, n, Users, 0)) - (q[1] + SharesTo(moves, n, Users, 1))
    BY <1>1, PoolCovers DEF Core
  <2> QED BY <1>2, <2>1 DEF Outcomes
<1>4. ASSUME NEW o \in rows, After(o, moves).status = "open"
      PROVE  o.status = "open" /\ ~Executable(After(o, moves), leads[n + 1])
  <2>1. /\ After(o, moves) = o
           \/ (\E i \in 1..n : moves[i].order = o.key /\ o.status = "open")
        /\ (\A i \in 1..n : moves[i].order # o.key) => After(o, moves) = o
    BY <1>1, AfterRow
  <2>2. CASE \E i \in 1..n : moves[i].order = o.key
    <3>1. PICK i \in 1..n : moves[i].order = o.key
      BY <2>2
    <3>2. ~Executable(After(o, moves), leads[n + 1])
      BY <1>1, <1>4, <3>1, PartlyRests
    <3> QED BY <1>4, <2>1, <3>2
  <2>3. CASE \A i \in 1..n : moves[i].order # o.key
    <3>1. o \in orders /\ After(o, moves) = o
      BY <1>1, <1>2, <2>1, <2>3
    <3>2. o \in Open
      BY <1>4, <3>1 DEF Open
    <3>3. ~Executable(o, leads[n + 1])
      BY <1>1, <2>3, <3>2 DEF Batch
    <3> QED BY <1>4, <3>1, <3>3
  <2> QED BY <2>2, <2>3
<1>5. NoneCross(orders')
  <2> SUFFICES ASSUME NEW x \in orders', NEW y \in orders', x.status = "open", y.status = "open"
               PROVE  Apart(x, y)
    BY DEF NoneCross
  <2>1. PICK a \in rows, b \in rows : x = After(a, moves) /\ y = After(b, moves)
    BY <1>2
  <2>2. a.status = "open" /\ b.status = "open"
    BY <1>4, <2>1
  <2>3. /\ x.outcome = a.outcome /\ x.side = a.side /\ x.limit = a.limit
        /\ y.outcome = b.outcome /\ y.side = b.side /\ y.limit = b.limit
    BY <1>1, <2>1, AfterRow
  <2>4. Apart(a, b)
    BY <1>1, <2>2 DEF NoneCross
  <2> QED BY <2>3, <2>4 DEF Apart
<1>6. ASSUME NEW x \in orders', x.status = "open" PROVE ~Executable(x, q'[0] - q'[1])
  BY <1>2, <1>3, <1>4, <1>6
<1>7. ASSUME NEW x \in Open' PROVE ~Executable(x, q'[0] - q'[1])
  BY <1>6, <1>7 DEF Open
<1>8. (\A o \in Open : ~Executable(o, q[0] - q[1]))'
  BY <1>7
<1> QED BY <1>5, <1>8 DEF Resting, NoneCross

LEMMA RestRests ==
  ASSUME Core, Resting, NEW s \in Sessions, Rested(s)
  PROVE  Resting'
<1> DEFINE r == req[s]
           c == OrderOf(r)
<1>1. /\ r \in Requests /\ r.kind = "order" /\ StoredOrder(r) = {} /\ ~Crosses(r)
      /\ ~Executable(c, q[0] - q[1])
      /\ orders' = orders \cup {c} /\ q' = q /\ result' = result
  BY DEF Rested
<1>2. NoneCross(orders \cup {c})
  <2>1. RowsSound(orders) /\ NoneCross(orders)
    BY DEF Core, Resting
  <2> QED BY <1>1, <2>1, BroughtApart
<1> HIDE DEF c
<1>3. ASSUME result' = NoResult, NEW o \in Open' PROVE ~Executable(o, q'[0] - q'[1])
  <2>1. o = c \/ o \in Open
    BY <1>1, <1>3 DEF Open
  <2> QED BY <1>1, <1>3, <2>1 DEF Resting
<1>4. (result = NoResult => \A o \in Open : ~Executable(o, q[0] - q[1]))'
  BY <1>3
<1> QED BY <1>1, <1>2, <1>4 DEF Resting, NoneCross

LEMMA CancelRests ==
  ASSUME Core, Resting, Cancel
  PROVE  Resting'
<1>1. PICK o \in orders : /\ orders' = (orders \ {o}) \cup {[o EXCEPT !.status = "cancelled"]}
                          /\ q' = q /\ result' = result
  BY DEF Cancel
<1>2. [o EXCEPT !.status = "cancelled"].status = "cancelled"
  BY CancelRows DEF Core
<1>3. \A x \in orders' : x.status = "open" => x \in orders
  BY <1>1, <1>2
<1>4. NoneCross(orders')
  BY <1>3 DEF Resting, NoneCross
<1>5. ASSUME result' = NoResult, NEW x \in Open' PROVE ~Executable(x, q'[0] - q'[1])
  BY <1>1, <1>3, <1>5 DEF Open, Resting
<1>6. (result = NoResult => \A x \in Open : ~Executable(x, q[0] - q[1]))'
  BY <1>5
<1> QED BY <1>4, <1>6 DEF Resting, NoneCross

LEMMA RestingNext ==
  ASSUME EveryLead, Core, Resting, [Next]_vars
  PROVE  Resting'
<1>1. ASSUME orders' = orders, q' = q, result' = result PROVE Resting'
  BY <1>1 DEF Resting, Open
<1>2. ASSUME UNCHANGED book PROVE Resting'
  BY <1>1, <1>2 DEF book
<1>3. CASE UNCHANGED vars
  BY <1>2, <1>3 DEF vars
<1>4. ASSUME NEW s \in Sessions, Step(s) PROVE Resting'
  <2>1. CASE AccountRefused(s) \/ CheckGate(s) \/ Refuse(s) \/ Abort(s)
    <3>1. UNCHANGED book
      BY <2>1 DEF AccountRefused, CheckGate, Refuse, Abort, book
    <3> QED BY <1>2, <3>1
  <2>2. CASE Trade(s)
    BY <1>2, <2>2, TradeCommits, CommitRests
  <2>3. CASE PlaceAndFill(s)
    BY <1>2, <2>3, PlaceCommits, CommitRests
  <2>4. CASE PlaceAndRest(s)
    BY <1>2, <2>4, RestMeans, RestRests
  <2> QED BY <1>4, <2>1, <2>2, <2>3, <2>4 DEF Step
<1>5. ASSUME NEW s \in Sessions, NEW r \in Requests, Ask(s, r) PROVE Resting'
  BY <1>2, <1>5 DEF Ask, book
<1>6. CASE Cancel
  BY <1>6, CancelRests
<1>7. CASE Close
  BY <1>2, <1>7 DEF Close
<1>8. CASE TradeElsewhere
  BY <1>1, <1>8 DEF TradeElsewhere
<1>9. CASE Settle
  <2>1. result' \in Outcomes /\ orders' = orders
    BY <1>9 DEF Settle
  <2>2. result' # NoResult
    BY <2>1, RequestsAssumption
  <2> QED BY <2>1, <2>2 DEF Resting
<1> QED BY <1>3, <1>4, <1>5, <1>6, <1>7, <1>8, <1>9 DEF Next

LEMMA RestingTells ==
  ASSUME Core, Resting
  PROVE  LimitsKept
<1>1. ASSUME NEW o \in orders
      PROVE  /\ IF o.side = "buy" THEN Grain * o.spent <= o.limit * o.filled
                                  ELSE Grain * o.spent >= o.limit * o.filled
             /\ Live(o) => ~Executable(o, q[0] - q[1])
  <2>1. RowSound(o) /\ o.side \in {"buy", "sell"}
    BY DEF Core, RowsSound, RowSound, Order, Sides
  <2>2. Live(o) => ~Executable(o, q[0] - q[1])
    BY DEF Live, Open, Resting
  <2> QED BY <2>1, <2>2 DEF RowSound
<1>2. \A a, b \in Open : Apart(a, b)
  BY DEF Resting, NoneCross, Open
<1> QED BY <1>1, <1>2 DEF LimitsKept, Apart

LEMMA RestingAlways == EveryLead => (Spec => [](Core /\ Resting))
<1> SUFFICES ASSUME EveryLead PROVE Spec => [](Core /\ Resting)
  OBVIOUS
<1>1. Init => Core /\ Resting
  <2>1. Init => Resting
    BY DEF Init, Resting, NoneCross, Open
  <2> QED BY <2>1, CoreInit
<1>2. Core /\ Resting /\ [Next]_vars => Core' /\ Resting'
  BY CoreNext, RestingNext
<1> QED BY <1>1, <1>2, PTL DEF Spec

\* Every order's fills keep its limit, none rests that could fill, and no two
\* could fill each other (write_cascade, refuse_if_crosses_book).
THEOREM LimitsAlwaysKept == EveryLead => (Spec => []LimitsKept)
<1> SUFFICES ASSUME EveryLead PROVE Spec => []LimitsKept
  OBVIOUS
<1>1. Core /\ Resting => LimitsKept
  BY RestingTells
<1>2. Spec => [](Core /\ Resting)
  BY RestingAlways
<1> QED BY <1>1, <1>2, PTL

=============================================================================
