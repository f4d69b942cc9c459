------------------------------- MODULE Browse -------------------------------
(***************************************************************************)
(* The two lists of markets (market_service's service/browsing.py): the     *)
(* public browse, still-trading markets first and grouped by the clock of   *)
(* its first page, and the administrators' overview, finished markets last. *)
(* Markets are published, stop and finish while somebody pages.             *)
(*                                                                          *)
(* An early close reads the clock under the row's lock and commits later.   *)
(* Postgres's clock and the services' own are one clock here.               *)
(***************************************************************************)
EXTENDS Paging

CONSTANTS
  Markets,    \* integers: an id breaks ties
  CloseTimes, \* what a close time may be
  LastClock   \* bound: the clock stops here

ASSUME BrowseAssumption ==
  Markets \subseteq Nat /\ IsFiniteSet(Markets) /\ CloseTimes \subseteq Nat /\ LastClock \in Nat

Never == 0    \* a null timestamp

VARIABLES
  clock,
  market,     \* id -> status, close_time, closed_at
  closing     \* early closes not yet committed: id -> the closed_at they read

markets == <<clock, market, closing>>

Draft == [status |-> "draft", close |-> Never, closedAt |-> Never]

InitMarkets ==
  /\ clock = 1
  /\ market = [m \in Markets |-> Draft]
  /\ closing = [m \in Markets |-> Never]

----------------------------------------------------------------------------
(* What a row says at an instant *)

IsVisible(m) == market[m].status # "draft"

IsPast(time, as_of) == time # Never /\ time <= as_of

\* Mutation: only a close that has been written is a stop.
WasTradingByStatus(m, as_of) == market[m].status = "open" /\ ~IsPast(market[m].close, as_of)

\* was_open_for_trading_at: nothing but times, so a later close cannot move it.
WasOpenForTradingAt(m, as_of) ==
  ~IsPast(market[m].close, as_of) /\ ~IsPast(market[m].closedAt, as_of)

\* displayed_status, and what a status filter matches.
DisplayedStatus(m, now) ==
  IF market[m].status = "open" /\ IsPast(market[m].close, now) THEN "closed" ELSE market[m].status

Matches(m, filter, now) == filter = "any" \/ DisplayedStatus(m, now) = filter

\* LEAST skips a null.
StoppedAt(m) ==
  IF market[m].closedAt = Never \/ market[m].close < market[m].closedAt
  THEN market[m].close ELSE market[m].closedAt

SortKey(m, as_of) == IF WasOpenForTradingAt(m, as_of) THEN market[m].close ELSE StoppedAt(m)

IsFinished(m) == market[m].status \in {"settled", "voided"}

----------------------------------------------------------------------------
(* The two orders.  A position is what a row of a page was listed under. *)

BrowsePosition(m, as_of) ==
  [id |-> m, as_of |-> as_of, is_open |-> WasOpenForTradingAt(m, as_of), sort_at |-> SortKey(m, as_of)]

\* Trading before stopped; the soonest to close, and the latest to stop.
BrowsePrecedes(p, q) ==
  IF p.is_open # q.is_open THEN p.is_open
  ELSE IF p.sort_at = q.sort_at THEN p.id < q.id
  ELSE IF p.is_open THEN p.sort_at < q.sort_at ELSE p.sort_at > q.sort_at

OverviewPosition(m) == [id |-> m, finished |-> IsFinished(m), close |-> market[m].close]

\* Finished last; the soonest close, none last.
OverviewPrecedes(p, q) ==
  IF p.finished # q.finished THEN q.finished
  ELSE IF p.close = q.close THEN p.id < q.id
  ELSE p.close # Never /\ (q.close = Never \/ p.close < q.close)

\* The rows a page may show: _visible, the status filter and _after.
Browsed(cursor, filter) ==
  LET as_of == IF cursor = None THEN clock ELSE cursor[1].as_of
      listed == {BrowsePosition(m, as_of) : m \in {n \in Markets : IsVisible(n) /\ Matches(n, filter, clock)}}
  IN  {p \in listed : cursor = None \/ BrowsePrecedes(cursor[1], p)}

\* The caller is every draft's creator here.
Overviewed(cursor, filter) ==
  {p \in {OverviewPosition(m) : m \in {n \in Markets : Matches(n, filter, clock)}} :
     cursor = None \/ OverviewPrecedes(cursor[1], p)}

----------------------------------------------------------------------------
(* What happens to markets (module MarketLifecycle has all of it) *)

Write(m, status, closedAt) ==
  market' = [market EXCEPT ![m].status = status, ![m].closedAt = closedAt]

SaveDraft(m, close) ==
  /\ market[m].status = "draft"
  /\ market' = [market EXCEPT ![m].close = close]
  /\ UNCHANGED <<clock, closing>>

Publish(m) ==
  /\ market[m].status = "draft" /\ market[m].close > clock
  /\ Write(m, "open", Never)
  /\ UNCHANGED <<clock, closing>>

\* close_early, up to the clock it reads under the lock.
ReadCloseClock(m) ==
  /\ market[m].status = "open" /\ closing[m] = Never /\ market[m].close > clock
  /\ closing' = [closing EXCEPT ![m] = clock]
  /\ UNCHANGED <<clock, market>>

CommitClose(m) ==
  /\ closing[m] # Never
  /\ Write(m, "closed", closing[m])
  /\ closing' = [closing EXCEPT ![m] = Never]
  /\ UNCHANGED clock

\* close_due_markets skips a row that is locked.
SweepClosed(m) ==
  /\ market[m].status = "open" /\ market[m].close <= clock /\ closing[m] = Never
  /\ Write(m, "closed", clock)
  /\ UNCHANGED <<clock, closing>>

\* Settled or voided.
FinishMarket(m) ==
  /\ market[m].status = "closed"
  /\ Write(m, "settled", market[m].closedAt)
  /\ UNCHANGED <<clock, closing>>

Tick ==
  /\ clock < LastClock
  /\ clock' = clock + 1
  /\ UNCHANGED <<market, closing>>

MarketsNext ==
  \/ \E m \in Markets :
       \/ \E close \in CloseTimes : SaveDraft(m, close)
       \/ Publish(m) \/ ReadCloseClock(m) \/ CommitClose(m) \/ SweepClosed(m) \/ FinishMarket(m)
  \/ Tick
=============================================================================
