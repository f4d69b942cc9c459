---------------------------- MODULE BookOpening ----------------------------
(***************************************************************************)
(* The first touch of one market in the ledger: requests of several         *)
(* processes find no book, ask market_service for the terms, and write the  *)
(* pool's account, the book, the house account and the funding, in one      *)
(* transaction each (service/books.py, service/accounts.py,                 *)
(* service/market_terms.py, core/not_found_cache.py).                       *)
(*                                                                          *)
(* A row is named by the request that inserted it.  An insert of a row that *)
(* another transaction has inserted waits until that one ends, as Postgres  *)
(* makes it, and sees what it committed.  A market_service 404 is           *)
(* remembered for TTL, in the process that heard it.                        *)
(***************************************************************************)
EXTENDS Integers, FiniteSets

CONSTANTS
  Openers,    \* requests that may be the first to touch the market
  Processes,  \* the ledger's replicas
  ProcessOf,  \* the replica each request runs in
  TTL,        \* how long a 404 is remembered
  Timeout,    \* how long a call to market_service may take (D-030)
  MaxClock,   \* bound: the clock stops here
  Granter,    \* whoever mints a first grant, which needs PLATFORM too
  NoOne

ASSUME OpeningAssumption ==
  /\ ProcessOf \in [Openers -> Processes]
  /\ TTL \in Nat /\ Timeout \in Nat /\ MaxClock \in Nat
  /\ NoOne \notin Openers \cup {Granter} /\ Granter \notin Openers

Rows == {"pool", "book", "platform", "funding"}

\* The rows a first touch writes, in order.
After(k) == CASE k = "pool" -> "book" [] k = "book" -> "platform" [] OTHER -> "funding"

VARIABLES
  clock,
  publishedAt,  \* 0 while market_service answers 404
  expiry,       \* process -> when its remembered 404 lapses
  row,          \* the committed rows
  inserting,    \* rows a transaction has inserted and not committed
  uses,         \* request -> row -> the row it goes on with
  fundings,     \* the committed funding movements, and the pool each one fed
  step,         \* each request's next step, or "not_found", its last answer
  since,        \* when its call to market_service was sent
  broken        \* a replay found writes of its own pending

tables  == <<row, inserting, fundings>>
request == <<uses, step, since>>
opening == <<clock, publishedAt, expiry, tables, request, broken>>

----------------------------------------------------------------------------
(* The 404 cache *)

\* Mutation: an entry is good at the very moment it expires, and one past it.
RememberedTooLong(p) == expiry[p] # 0 /\ expiry[p] + 1 > clock

\* NotFoundCache.is_remembered
Remembered(p) == expiry[p] > clock

\* NotFoundCache.remember: the window starts over.
Remember(p) == expiry' = [expiry EXCEPT ![p] = clock + TTL]

----------------------------------------------------------------------------
(* One request *)

Unused == [k \in Rows |-> NoOne]

InitOpening ==
  /\ clock = 1 /\ publishedAt = 0
  /\ expiry = [p \in Processes |-> 0]
  /\ row = Unused /\ inserting = Unused /\ fundings = {}
  /\ uses = [s \in Openers |-> Unused]
  /\ step = [s \in Openers |-> "idle"]
  /\ since = [s \in Openers |-> 0]
  /\ broken = FALSE

IsIdle(s) == step[s] \in {"idle", "not_found"}

GoTo(s, where) == step' = [step EXCEPT ![s] = where]

\* The request is over; whatever its transaction has not committed is gone.
Answer(s, what) ==
  /\ GoTo(s, what)
  /\ uses' = [uses EXCEPT ![s] = Unused]
  /\ since' = [since EXCEPT ![s] = 0]

\* ensure_open's first read.  A hit answers without asking anyone.
Find(s) ==
  /\ IsIdle(s)
  /\ IF row["book"] # NoOne
     THEN Answer(s, "idle")
     ELSE GoTo(s, "missed") /\ UNCHANGED <<uses, since>>
  /\ UNCHANGED <<clock, publishedAt, expiry, tables, broken>>

\* market_terms.fetch, up to its call.
Fetch(s) ==
  /\ step[s] = "missed"
  /\ IF Remembered(ProcessOf[s])
     THEN Answer(s, "not_found")
     ELSE /\ GoTo(s, "asked")
          /\ since' = [since EXCEPT ![s] = clock]
          /\ UNCHANGED uses
  /\ UNCHANGED <<clock, publishedAt, expiry, tables, broken>>

\* market_service answers: only a published market has terms to show.
Serve(s) ==
  /\ step[s] = "asked"
  /\ GoTo(s, IF publishedAt = 0 THEN "told_404" ELSE "told_terms")
  /\ UNCHANGED <<clock, publishedAt, expiry, tables, uses, since, broken>>

HearNotFound(s) ==
  /\ step[s] = "told_404"
  /\ Remember(ProcessOf[s])
  /\ Answer(s, "not_found")
  /\ UNCHANGED <<clock, publishedAt, tables, broken>>

HearTerms(s) ==
  /\ step[s] = "told_terms"
  /\ GoTo(s, "pool")
  /\ UNCHANGED <<clock, publishedAt, expiry, tables, uses, since, broken>>

\* A connect error, a timeout, a 5xx or a body that is no terms.
FailCall(s) ==
  /\ step[s] \in {"asked", "told_404", "told_terms"}
  /\ Answer(s, "idle")
  /\ UNCHANGED <<clock, publishedAt, expiry, tables, broken>>

\* What the insert of row k comes to: the row of whoever committed it first,
\* or its own.
OrOwn(s, k) == IF row[k] # NoOne THEN row[k] ELSE s

\* accounts.ensure for the pool and for PLATFORM, and the book's savepoint.
Ensure(s, k) ==
  /\ step[s] = k /\ k # "funding"
  /\ inserting[k] \in {NoOne, s}
  /\ uses' = [uses EXCEPT ![s][k] = OrOwn(s, k)]
  /\ inserting' = [inserting EXCEPT ![k] = IF row[k] # NoOne THEN @ ELSE s]
  /\ GoTo(s, After(k))
  /\ UNCHANGED <<clock, publishedAt, expiry, row, fundings, since, broken>>

HasPendingWrites(s) == \E k \in Rows : inserting[k] = s

\* Mutation: a key of the request's own.
NeverFunded == FALSE

\* The funding is keyed on the market id (market_open_key).
Funded == row["funding"] # NoOne

\* posting.post: the key's transaction is found, or inserted.
Fund(s) ==
  /\ step[s] = "funding"
  /\ inserting["funding"] = NoOne
  /\ IF Funded
     THEN /\ broken' = (broken \/ HasPendingWrites(s))
          /\ inserting' = [k \in Rows |-> IF inserting[k] = s THEN NoOne ELSE inserting[k]]
          /\ Answer(s, "idle")
     ELSE /\ inserting' = [inserting EXCEPT !["funding"] = s]
          /\ GoTo(s, "commit")
          /\ UNCHANGED <<uses, since, broken>>
  /\ UNCHANGED <<clock, publishedAt, expiry, row, fundings>>

Commit(s) ==
  /\ step[s] = "commit"
  /\ row' = [k \in Rows |-> IF inserting[k] = s THEN s ELSE row[k]]
  /\ inserting' = [k \in Rows |-> IF inserting[k] = s THEN NoOne ELSE inserting[k]]
  /\ fundings' = fundings \cup {[by |-> s, pool |-> uses[s]["pool"]]}
  /\ Answer(s, "idle")
  /\ UNCHANGED <<clock, publishedAt, expiry, broken>>

\* The request dies, or its client goes, before it commits.
Abort(s) ==
  /\ step[s] \in Rows \cup {"missed", "commit"}
  /\ inserting' = [k \in Rows |-> IF inserting[k] = s THEN NoOne ELSE inserting[k]]
  /\ Answer(s, "idle")
  /\ UNCHANGED <<clock, publishedAt, expiry, row, fundings, broken>>

----------------------------------------------------------------------------

\* market_service publishes the market, and never hides it again.
Publish ==
  /\ publishedAt = 0
  /\ publishedAt' = clock
  /\ UNCHANGED <<clock, expiry, tables, request, broken>>

\* A first grant, for this market's traders or another's, makes PLATFORM.
GrantElsewhere ==
  /\ row["platform"] = NoOne /\ inserting["platform"] = NoOne
  /\ row' = [row EXCEPT !["platform"] = Granter]
  /\ UNCHANGED <<clock, publishedAt, expiry, inserting, fundings, request, broken>>

\* Other markets' 404s fill the cache, and this one's goes.
Evict(p) ==
  /\ expiry[p] # 0
  /\ expiry' = [expiry EXCEPT ![p] = 0]
  /\ UNCHANGED <<clock, publishedAt, tables, request, broken>>

\* No call outlives its timeout.
Tick ==
  /\ clock < MaxClock
  /\ \A s \in Openers :
       step[s] \in {"asked", "told_404", "told_terms"} => clock < since[s] + Timeout
  /\ clock' = clock + 1
  /\ UNCHANGED <<publishedAt, expiry, tables, request, broken>>

OpenerNext(s) ==
  \/ Find(s) \/ Fetch(s) \/ Serve(s) \/ HearNotFound(s) \/ HearTerms(s) \/ FailCall(s)
  \/ (\E k \in Rows : Ensure(s, k)) \/ Fund(s) \/ Commit(s) \/ Abort(s)

OpeningNext ==
  \/ \E s \in Openers : OpenerNext(s)
  \/ Publish \/ Tick \/ GrantElsewhere \/ (\E p \in Processes : Evict(p))

OpeningSpec == InitOpening /\ [][OpeningNext]_opening

----------------------------------------------------------------------------
(* What opening must keep true *)

Steps == Rows \cup {"idle", "not_found", "missed", "asked", "told_404", "told_terms", "commit"}

\* Every variable stays within its type.
OpeningTypeOK ==
  /\ clock \in Nat /\ publishedAt \in Nat
  /\ expiry \in [Processes -> Nat]
  /\ row \in [Rows -> Openers \cup {Granter, NoOne}]
  /\ inserting \in [Rows -> Openers \cup {NoOne}]
  /\ uses \in [Openers -> [Rows -> Openers \cup {Granter, NoOne}]]
  /\ fundings \subseteq [by: Openers, pool: Openers]
  /\ step \in [Openers -> Steps]
  /\ since \in [Openers -> Nat]
  /\ broken \in BOOLEAN

\* However many requests touch a market first, from however many replicas, its
\* pool, its book and its funding are committed together, the funding once and
\* into the pool the book names, and no request replays with writes of its own
\* pending (D-009, D-010, D-028, D-032).
OpenedOnce ==
  /\ OpeningTypeOK
  /\ \A k \in Rows \ {"platform"} : (row[k] = NoOne) = (fundings = {})
  /\ \A f, g \in fundings : f = g
  /\ \A f \in fundings : f.pool = row["pool"]
  /\ ~broken

\* A published market is refused as not found only while a 404 that was on its
\* way when it was published is on its way or remembered, for all that other
\* requests ask about it meanwhile (#115: "remembered for ten seconds").
HiddenBriefly ==
  [][\A s \in Openers :
       step[s] # "not_found" /\ step'[s] = "not_found" /\ publishedAt # 0 =>
         clock < publishedAt + Timeout + TTL]_opening

=============================================================================
