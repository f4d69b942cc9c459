# A TLA+ model of the prediction market

This directory models the backend of the prediction-market exchange in this
repository: TLA+ modules translated from `backend/`, TLC configurations that
check them on small instances, and TLAPS proofs of what matters most for every
instance. Paths below are relative to the repository's root.

## 1. The system

Five FastAPI services share one Postgres (a schema each) and one Redis. They
call each other over HTTP with the caller's own token and share no table and no
transaction. Each runs as several replicas behind nginx.

| Component | State | Operations | Modelled in |
| --- | --- | --- | --- |
| ledger: posting (`ledger_service/service/posting.py`, `accounts.py`, `reservations.py`) | accounts, transactions, entries (append-only); balances and reservations are derived | `post`, `post_all` | `Posting`, `AtomicLedger` |
| ledger: book, trades, limit orders (`trading.py`, `orders.py`, `cancellation.py`, `core/limit_orders.py`, `core/pricing.py`) | the book row (`q`, `state_version`), positions, orders | `execute`, `place`, `cancel`, the cascade | `OrderBook` |
| market: lifecycle (`market_service/service/market_service.py`) | the market row and its audit log | save, publish, close, propose, approve, reject, send back, settle, void | `MarketLifecycle` |
| market: close sweep (`closing.py`, `sweeper.py`) | none of its own | `close_due_markets` | `MarketLifecycle` |
| ledger + market: ending a market (`settlement.py`, `voiding.py`, `market_terms.py`) | `market_results`; the market row | settle, void, and the calls between the services | `Ending` |
| ledger: opening a book, signup grant, 404 cache (`books.py`, `grants.py`, `core/not_found_cache.py`) | the book row, the pool's account, a per-process dictionary | `ensure_open`, `ensure_granted`, remember | `BookOpening` |
| ledger: payouts, refunds and what a position is worth (`settlement.py`, `voiding.py`, `core/voiding.py`, `valuation.py`) | balances, positions, `market_results` | pay, replay the lots, cut, repeat, portfolio | `Positions` |
| ledger: paged reads (`ledger_service.py`), audit log (`audit_service/`) | none of their own | history, trade feed, log | `Feeds`, `Readers` |
| ledger: leaderboard (`leaderboard.py`, `leaderboard_refresher.py`) | generations of a ranking | refresh, prune, page | `Leaderboard`, `Readers` |
| market: browse and overview (`browsing.py`) | none of their own | page by page | `Browse`, `Readers` |
| routes of four services (`controller/`), `shared/security.py`, `account_status.py` | the access token; the rows of the others | every route's checks, writes and answers | `Access` |
| auth: sessions (`auth_service/service/auth_service.py`) | users, refresh tokens | register, login, rotate, replay, logout | `AuthSessions` |
| auth: administration (`user_admin.py`, `audit.py`) | the users' role and suspension, the audit log | change role, suspend, unsuspend | `AuthSessions` |
| realtime (`realtime_service/`) and the price hooks of the frontend | the version gate, the hub's indexes, a queue per socket; a page's cards | publish, relay, subscribe, drop, read again | `Hub`, `PriceFeed` |
| auth: attempt limits (`attempt_limits.py`) | Redis counters | claim, clear | not modelled |
| the rest of the frontend, deployment, schema | see `PROJECT.json` | | not modelled |

How they interact:

- **A trade** asks auth_service whether the account is suspended and
  market_service whether the market is open, holding no lock; then it locks the
  book row, looks for a recorded result, prices, fills whatever resting orders
  became executable, and posts one batch through `posting.post_all`.
- **`post_all`** locks the batch's account rows in ascending order, looks the
  idempotency keys up, checks every debited user's floor, stamps the batch after
  the newest entry of its accounts and inserts it.
- **Settle and void** read the market's terms, look for a recorded result with
  and without the book's lock, post the money and the result in one commit, and
  then call market_service's last step. Nothing joins the two commits; the
  administrator's repeat is the recovery (ADR 0019, ADR 0025).
- **auth_service** decides from locked rows: the token paths lock the account
  and then its token, a logout the token alone, and an administrator's change
  the set of administrators, row by row, and then its target. A suspension and
  a replay revoke what tokens they can see, which the account's lock makes all.
- **A trade's price** is published after its commit, through Redis, to whichever
  relays listen; nothing is replayed, so a page closes every gap by reading the
  ledger again. Versions of the book order the two.
- **Every request** passes its route's checks first. Three services believe the
  role in a signed token until it expires; auth reads its own row; a trade and an
  order ask auth. A retry is looked up before anything that may have changed.
- **market_service** decides everything under the market's row lock and on
  Postgres's clock read after the lock (ADR 0015, #179); its public flags are on
  the request's Python clock. The sweep writes CLOSED with SKIP LOCKED.

What is hard in it: database transactions interleaving under READ COMMITTED
(the locks are few and deliberate), idempotent retries that race the original,
one commit that carries other people's fills, two services that commit one
after the other, clocks that differ, and requests that die anywhere. The
`hazards` of `PROJECT.json` list them with the line where each bites and the
property that would catch it.

What makes each component correct:

- posting: nobody owes more than they have, a key moves money once, money is
  conserved, an account's history is in commit order, no deadlock;
- book: no order rests that could fill, none is filled past its limit or its
  budget, the pool can pay, a settled market is never traded;
- lifecycle: only forward, each decision once, by a second administrator, about
  the proposal they read, at times that agree; overdue markets close;
- ending: what was paid is what stands, the services never tell different
  endings, "done" is true, a settlement can always be finished;
- money of one market: opened and funded once, a void repays what is owed and no
  more than there is, nobody alone gains by one, a repeat tells the first answer;
- prices: no page's price goes back, and none keeps an old one for good;
- lists: a walk shows each row once, a leaderboard is one ranking;
- sessions: a suspension and a replay leave none, somebody can always act;
- requests: nothing is done on authority lost a token's life ago, whoever
  repeats a write is told of it, and a first touch is made once and for good.

## 2. The modules

`Posting` has one database session per request and one action per statement (or
run of statements between which nobody else can change what it reads): `Begin`,
`LockBook`, `Plan`, `CheckBatch`, `LockAccount`, `LookUp`, `ReadFloors`, `Walk`,
`Stamp`, `Insert`, `Commit`, `CommitCancel`, `Abort`. Its callers are reduced to
what they ask for: a batch of movements, an order opened or cancelled, a book.
`AtomicLedger` is its promise: batches that happen at one instant. `Posting`
instantiates it, and `PostsAtomically` is the refinement.

`OrderBook` is a two-outcome market. The unlocked steps of a request (replay
lookup, account check, gate) are separate actions; what happens under the book
lock commits once and is one action, whose inside `Posting` has. Money is in
ticks (the column's 0.0001), costs and limits in grains of a tick, so that
`quantize_cost` rounds; shares are whole. The LMSR enters as `LogCost`, a table
of `b ln(1 + e^(d/b))`, with the assumption that it is symmetric and that a
share never costs more than it can pay.

`MarketLifecycle` is one market's row. A worker is a request or a sweeper:
`Ask` (the request leaves the screen, quoting the proposal it showed), `Decide`
(the locked read, the clock, the checks), `Commit` (the write and its audit
entry), `Abort`; `LoseInsert` is the unique key of a first save, `Sweep` the
SKIP LOCKED update, `Tick` Postgres's clock. Each handler's checks are an
operator (`MayClose`, `MayDecide`, `MaySendBack`, ...) and so is each handler's
write (`Approved`, `SentBack`, ...).

`Ending` extends it with the ledger's side. A clerk is one settle or void
request in ledger_service: `ReadTerms`, `Lookup`, `PayOut` or `Refund`, `Tell`,
`Hear`, with `GiveUp` possible at every point. `Deliver` is market_service's
step run by a call in flight; a call whose caller timed out stays in `late` and
may arrive any number of times (`DeliverLate`) or never (`LoseLate`).

`AuthSessions` has one database session per request. `Ask` is what it reads
before it locks anything; `InsertUser`, `LockUser` and `LockToken` are the
locking statements of the token paths, each with what is decided from the row;
`ScanSet` finds the rows of the set of administrators as one statement's
snapshot, `LockAdmin` locks them one at a time in the order the scan meets them
and keeps those that still match, and `LockTarget` decides. What was decided is
`plan`, written by `Commit`, which waits for the tokens a revoke-all has to
update; `Abort` ends a request anywhere. `ScanOrders` are the orders in which
Postgres may return the rows, which the code does not fix.

`Pricing` is the quantised cost and the price limits of a two-outcome book, which
`OrderBook` and `Positions` share.

`BookOpening` is a market's first touch: `Look`, the call to market_service and
its 404 or time-out, and the savepoint's inserts one by one, each waiting for
the transaction that inserted the same key. `Positions` extends it with
the market's whole money: `FirstRead` (the grant), `Trade`, `PayOut`, `Void`. The
lot replay (`Replay`), the cut (`CutOf`) and the valuation are functions of the
entries, compared with a ledger the model keeps on the side (`banked`, `told`).

`PriceFeed` follows a price from a trade's commit to a page. Its parts are the
publication, the bus with its faults, a relay (the version gate, and the indexes
of `Hub`: who watches what), each socket's bounded queue and sender, and the
page's hook: subscribe, acknowledge, read again, back off, replace a socket whose
token expired. Every hand-over is an action, and each may fail.

`Readers` is one reader going through one list, page by page. What it reads, and
who writes it meanwhile, is in `Feeds` (an account's history with its running
balance, a market's trades, the audit log), `Leaderboard` (refreshes that value,
name, write and prune) and `Browse` (markets that are published, stop, are swept
and finish). How a page is cut of what a statement returns is in `Paging`.

`Access` has every route as a record: what it does, its checks in order, and the
statuses it declares. `Begin` sends a request with the token the client holds;
each check is one action (`GetClaims`, `RequireAdmin`, `GetCurrentUser`,
`ReplayIfPresent`, `RefuseIfSuspended`, `EnsureTrading`, ...) that passes it on or
answers it with a set of codes; each write is one (`PostTrade`, `Cancel`,
`PayOut`, `Confirm`, `AmendMarket`, ...). A first touch is two actions of whichever
request needs it, the look-up with no lock (`FindGrant`, `FindBook`) and the write
that commits on its own (`MintGrant`, `OpenBook`): `/entries/me` mints before it
decodes its cursor, `/portfolio/me` before it values a position, and a preview or a
snapshot opens, funds and commits the book before it prices, so each of them may
write and then be refused; `request.wrote` tells such a write from the one that was
asked for. `written` says of a key whether it names what the followed request asks
with it (`Own`) or something else (`Another`: another body, or for the grant the
amount of a process with other `STARTING_CREDITS`). The rest of the world moves
between any two steps: roles, standing, tokens, the market, its record, the account's
other requests (`WriteElsewhere`, `EndOrder`) and anybody's first touch
(`TouchElsewhere`). `MarketNotPublished` is there because the code has it
(`books.py`, `ensure_open`), and is never answered, as `docs/api/ledger-service.md`
says: no unpublished market's terms are read.

`*MC` modules hold the instances' requests, tables and symmetry sets; a name
under `\* Mutation:` is a plausible bug in the definition below it, there to
show which property catches it.

## 3. What is checked

| Run | Instance | Shows |
| --- | --- | --- |
| `posting` | 2 sessions, 2 users, 2 pools and PLATFORM, 2 orders, 12 requests | floors, keys, stamps, no lock cycle, and that the write path implements `AtomicLedger` |
| `orderbook` | 2 sessions, 2 users, 7 requests with one key reused, 1 shock from another market | the book adds up and pays, limits and the cascade, versions, nothing stale commits |
| `lifecycle` | 2 requests in flight, 1 sweeper that may fail, 2 administrators, 2 proposals, clock to 6 | forward only, decided once, the proposal that was read, one story per row, an overdue market is closed in the end |
| `ending` | 2 clerks, 1 administrator's request, 2 winners, 2 proposals, clock to 5 | the winner paid is the one that stands; the services agree; "done" is true |
| `finishing` | 1 clerk | a settlement is finished by repeating it |
| `sessions` | 2 requests, an account of 3 tokens and an administrator, each promoting, demoting, suspending the other | a suspension and a replay leave no session; a rotation is of a live token; roles are current; somebody can act; the log tells |
| `admin_waits` | 2 administrators and a newcomer, 1 scan order | *violated*: two requests can wait for each other |
| `feed` | 2 pages, one that turns, 1 relay, 2 sockets, 2 versions, 1 fault | indexes agree, no price goes back, none stays old unless a known gap is open |
| `frozen` | as `feed`, with the read the hook skips | *violated*: a card stays live on an old price |
| `positions` | 2 openers in 2 processes, 2 users, 7 trades of which 4 happen | opened once, hidden briefly, voids clear, repeats and statements agree |
| `readers` | 4 rows with tied and late stamps; 2 holders, 2 refreshers; 3 markets over 3 ticks; 1 row a page | each walk is whole |
| `access` | every route, 1 request followed, a token of 1 tick, 3 ticks, 2 bodies to a key, 2 amounts of the grant | authority is fresh, answers are kept, first touches last |

**The bounds.** Two sessions are what every race in the code is about: each
lock is held by one against one waiter, and the state a third would add is that
of another committed request, which the request sets contain. The requests of
an instance are chosen so that they collide: the same account in two books, the
same key with other money, an order below and one above the price, budgets
that together exceed the balance. Two proposals let a decision arrive about the
one before; `Window`, `Stall` and `Skew` are 1 and `Gap` 2, the least for which
the gap's inequality is tight, so that any smaller gap breaks `PaysWhatStands`
(its mutant shows it). `MaxClock` is reached after settlement opens for
the first approval. Three tokens are the fewest with which a rotation inserts
one while a replay of another looks. In `positions`, four trades are enough to
buy low, let another push the price, sell high and buy again, and the seed is
less than the AMM can lose, so that refunds are cut; before the book is open
nobody trades, so openings and trades do not multiply. In `feed` a behaviour has
one trouble at a time (`OneTroubleAtATime`: of a page that turns, a page that is
closed and a fault), a queue of one, and a gap of two between versions. A page of
one row makes every cut of a list a page's end; in `readers` only the writers
of the list being read move, and only until its walk is over, and the overview's
markets stop one tick before the end (`Few`). In `access` a token lives one tick
of three, so that it expires before and after every check; the account uses the
routes of one set (`Uses`) in a behaviour, since routes of two sets share nothing
but the market's row and its record, a book and a grant, which the rest of the world
writes too, and its other requests are folded into the one action each of them would
commit with. The role moves only where some route in use looks at it. `MaxProposals`, `MaxSwings`, `MaxClock`,
`MaxEntries`, `MaxTrades`, `MaxFaults`, `MaxInbox`, `MaxMoves`, `LastClock`, `LastVersion`, `Tokens`,
`Ids` and `Stamps` are the bounds on what is unbounded in the code. Deadlock is
checked except where the system really may stop: `positions` (everything ended),
`feed` (pages closed, last version published) and `readers` (the walk is over).

**Fairness.** The safety properties assume none. `FairSpec` (`lifecycle`): the sweeper is
a timer loop that swallows every error, so a sweep that stays possible happens,
and one of the sweeps that start gets to commit (strong fairness on the
sweepers' commit, as any number may fail); a request that holds the row commits
or dies. A request that is refused holds the row for no time in the model.
`FairEnding` (`finishing`): the administrator goes on repeating the request,
which is the remedy the code's own errors name; each step of a repeat succeeds
sometimes; time passes. Nothing forces anybody to ask in the first place.

**The findings.** ADR 0015 and `user_admin.py` say that every request takes the
set of administrators first and its target second, so that two requests wait on
each other in one direction only. `NeverWaitOnEachOther` is violated, even when
every scan returns the rows in one order: the set is found before its first row
is locked, so a request that found it while its target was a trader holds the
administrators and waits for the target, while one that started after the
target's promotion has the target in its set, holds it, and waits for an
administrator. Postgres breaks the tie by aborting one of two valid requests
(`Abort`), and nothing is lost but an answer: the `sessions` run includes
those aborts.

`usePricesForMarkets.ts` says that nothing on screen is ever silently frozen, and
`docs/api/realtime-service.md` that the read on every `subscribed` closes the gap
before it. `NothingFrozen` is violated as the hook is written (`SkipsInFlight`):
an acknowledgement's read is skipped for a market the page is already reading,
and that earlier read may have been served before a trade whose frame was
published before the subscription. Nothing is due for the market after that but
the next trade. `feed` checks the same hook without the skip, in which it holds.

**Known edges**, which the documents admit and the properties therefore except.
A void recorded in the ledger whose last step has not arrived by the time
settlement opens stays unmarked (ADR 0025, "Known edges"). A market closed early
may be shown twice by a walk of the browse, when its close was stamped before the
walk began and committed after (`StoppedUnseen`; DECISIONS, Notes). A retry that
overtakes its own first attempt may be refused (ADR 0017): `AnswersKept` speaks of
repeats begun after the commit. An answer of 400, 409, 422 or 500 to a first touch
does not mean that nothing was written: the grant or the book stays, and nothing else.
`grants.py` says that two processes which mint for one new user across a restart
that changed `STARTING_CREDITS` get one 409. `routes.py` declares none for the three
reads that mint, and `docs/api/ledger-service.md` lists that code as the trade
route's own. `AnswersAreDeclared` alone is therefore false (a first read finds no
grant, another process commits one of another amount, and the read's own is
refused), and `AnswersKept` excepts that one answer (`RacedGrant`). Its
`FirstTouchLasts` says that the refresh resolves it: whoever had the grant when the
request began is not answered so.

## 4. What is proved

Eight modules hold the proofs: seven of a component or two each, and `Sums` for
what they share. Each theorem is for every value of the constants that the
named assumptions of its module allow; TLC evaluates those on every run.

`Sums` has facts about numbers and finite sets: the least and the greatest of a
set of numbers (`Least`, `Greatest`), a minimal set with a property (`Smallest`),
what passes from each number to the next (`Climbs`), what a division rounded up or
down tells (`DivTells`), what steps add up to (`StepsAddUp`) and that they widen
when they grow (`StepsWiden`), and sums over finite sets.
The sum of the community modules is a recursive function on the subsets of its
domain; `AddsExists` and `AddsAgree` show that there is exactly one such
function, by the smallest counterexample, and `SumRemove`, `SumSplit` and the rest
follow. That form, and `Climbs`, stand wherever an induction would.

`PostingProofs` proves, for any sessions, markets, requests and clock readings and
any finite sets of accounts and orders: `TypeCorrect`, `NeverOverdrawn`
(`FundsCoverReservations`), `PostsOnce` (`OneTransactionPerKey`), `HistoryInOrder`
(`StampsFollowCommits`), `NeverDeadlocked` (`NoLockCycle`), `RetriesAreReplays`
(`RetryNeverOverdrawn`) and `PostingIsAtomic` (the refinement `PostsAtomically`).
The assumptions are those declared in `Posting`: ids are ordered, a request's legs
are total functions, an order has one owner and one market, a batch fills no order
twice, and a grant or a funding, which takes no book row, names no order and lowers
no reservation of a user it debits.

`FundsCoverReservations` is not inductive, because what makes a commit safe is
what the session read several statements before. `IInv` strengthens it, session
by session: the account rows and the book it holds (`HoldsAccounts`,
`HoldsBook`), that the plan its caller made under the book lock still holds
(`PlanStands`), what it has walked and that every debited user's floor is still
what it read (`Floored`), that its keys are in nobody's hands (`Claimed`) and
that its stamp is later than every entry of its accounts (`Stamped`). Each
action has a lemma that it keeps `IInv`; the lemmas `OthersStand`, `StillSee` and
`StillClaim` say why one session's step leaves another's part alone, and they
rest on the locks. `NextKeeps` collects them and `Inductive` concludes.

`NoLockCycle` adds `LockInv`, the converse of what `IInv` says of locks: who holds
one is past the statement that takes it, and wants only accounts that come later.
So among the sessions that hold accounts, the one that holds the greatest waits
for nobody. `RetryNeverOverdrawn` adds `RetryInv`: from the lookup of a batch's
keys under its account locks to the end of its walk, no movement of the batch is
in the ledger, because whoever posts one locks an account that the batch holds
(`CheckedTouches`). The refinement adds `PostInv`: a user's reservation is the sum
over their orders, which is how `AtomicLedger` states it (`Backed`), and the walk
has added up and checked every movement so far (`Walked`), so that what it finds at
`commit` is the abstract batch's condition at each of its movements
(`CommitPosts`). Every other step, the aborts among them, leaves the four tables
alone.

`OrderBookProofs` proves, for any finite set of users and any requests, limits,
cost curve and number of resting orders: `VersionsStayDense` (`VersionsDense`),
`NothingCommitsStale` (`NothingStale`), `NoFillIsRefused` (`CascadeNeverRefused`),
`BookAlwaysAddsUp` (`BookAddsUp`) and `LimitsAlwaysKept` (`LimitsKept`). The
assumptions are those of `Pricing` and `OrderBook`: the curve is symmetric, a share
costs between nothing and what it can pay, and the log-odds of two prices are in
the order of the prices. `EveryLead` is a hypothesis of each theorem: the curve has
a cost at every lead, where an instance holds a finite part of it.

A cascade is a recursive function, so the first thing shown is what it comes to
(`CascadeRuns`): a sequence of fills, each priced where the one before left the
price, of an order that came first among those that could fill, none twice, until
none can. `Batch` is that with the request's own movement in front, and `Committed`
and `Rested` are the only ways in which a request changes the book. On this stand
four invariants. `Core`: the rows are sound (`RowSound`: never filled past their
size, a buy's budget pays for its limit, the fills together no worse than it), a
quote of the current version is of the current price, and the versions are dense.
`Solvent`: no user's orders hold more of their money than they have. It is not enough
that it held before the commit, since the batch is paid out of the same money one
movement at a time: `Slack` is what the first movements leave a user better off by,
what their orders let go of included, and a resting order's fill never lowers it
(`DropSound`: it costs its owner no more than the order held for it). `Balanced`:
nobody has promised shares they do not hold, what users hold is what is outstanding,
and the pool has taken at least what the cost function has moved by. Rounding is
per movement and the bound is on the batch, so `PoolCovers` climbs the movements.
`Resting`: nothing rests that could fill, and no two rows could fill each other.
That a cascade ends so follows from its last fills: an order is left open only at
its limit, to within a share (`Reached`), and what fills after it moves the price no
further than that (`ReachedStays`).

`MarketProofs` proves, for any administrators, sweepers, requests and window:
`MarketTyped`, `TimesAgree` (`TimesInOrder`), `OneStory` (`RowCoherent`, from those
two), `ForwardOnly` (`MovesForward`), `ReadByASecond` (`ApprovesWhatWasRead`) and
`NothingDecidedTwice` (`DecidedOnce`). `LifeInv` adds to the type invariant which
times a row of each status may have (`Shape`), that none is ahead of the clock
(`Past`), and, worker by worker, what the row lock is worth between the checks and
the commit (`Holds`): the checks still hold of the row, and nothing on it is later
than the clock the handler read. Each kind of commit has a lemma (`SaveWrites`, ...,
`EndWrites`); `CommitWrites` collects them, and the two action properties follow
from it directly. `LogInv` relates the log to the row: what the row still shows of
every entry (`Told`) is what keeps a handler from writing one like it. A proposal
sent back is no longer the row's, and no later one has its number.

The same module proves, for any number of requests in both services, any dispute
window and any `Gap` with `Skew + Stall <= Gap`: `PaidOutcomeStands`
(`PaysWhatStands`), `EndingsAgree` (`ServicesAgree`) and `DoneStaysDone`
(`DoneMeansDone`). None of the three is inductive. `MarketInv` adds that a
handler between its checks and its commit holds the row, that those checks still
hold of it and are at most `Stall` old. `Stands(w)` is what the ledger needs
from that: `w` is approved (or final), and so late after its window that no
send-back that read its clock inside it can still commit. `LedgerInv` says that
terms which admit a payment name an outcome that stands (`TermsHold`), that
market_service is told only of what is recorded (`CallsAreRecorded`), and that a
"done" on its way, or given, is true (`AnswersHold`). `MarketStep` and
`StepWrites` show that no step of market_service undoes a final status or an
outcome that stands, and that only the ledger's own call ends a market;
`LedgerStep` goes through the ledger's actions. The inequality is used in
one place, the lemma `TermsStand`: the gap must cover both the difference of the
clocks and the longest time a handler holds the row, which is what ADR 0019's
five minutes are for. The code does not bound that time, so it is an assumption.

`AuthorityProofs` has what `AuthSessions` and `Access` share. It proves, for any
accounts, tokens, requests in flight and orders of a scan: `SomebodyCanAct` (`AdministratorRemains`), `SuspensionHolds`
(`SuspendedHoldsNothing`), `ExchangedOnce` (`ExchangedWhileLive`),
`ReplayEndsAll` (`ReplayClosesAll`), `OpenedInItsRole` (`BadgeIsCurrent`) and
`LogTellsAll` (`AuditTells`). The assumptions are `AuthAssumption`: requests name
what they are about, there is a first administrator, and a scan's order is total.
`AuthInv` adds to the rows what each request may rely on: the administrators it
counted are locked by it and still count (`Counted`), and for each of the six things
a request may have decided, that its reasons still hold (`WillRegister`, ...,
`WillChange`), among them that a revoke-all has seen every live token of the
account. `OthersKeep` shows that a request whose locked rows are undisturbed keeps
its part; `CommitWrites` and `CommitRevokes` show that a commit disturbs only rows
its session holds, or inserts an account no request can hold yet, of which there is
one at a time (`OneInsert`). No order of the rows is used: the safety of the
set rests on the locks alone, its order only on who waits for whom. `LogInv` adds,
for the audit log, that what an administrator's request read of its target is what
the row still says when the entry is written (`WasRead`).

Of `Access` it proves `AuthorityStaysFresh` (`AuthorityIsFresh`) and
`AnswersStayKept` (`AnswersKept`, in which `FirstTouchesStay`) for any lifetime of the access tokens and any
clock. The first speaks of requests that have written or answered, so it is not
inductive: `AccessInv` adds that a request which should be refused still has in
front of it the check that will refuse it, with only harmless checks before that
one (`Ahead`, `Owing`), and what a token may still claim of a role or a standing its
account has lost (`WorldInv`). `RoutesGuarded` goes through the routes and finds in
each one the checks that the argument needs, in that order. A step that writes or
answers is at no such check (`AtHead`), so nothing is owed any more (`PastChecks`,
`PastAccount`), and a check that lets a request pass has looked at what it is named
for (`Passed`). `AnswerInv` does the same for a repeat: while it is under way, the
lookup of its key is ahead of it with nothing before that could refuse it for what
has changed since (`Asked`), and every check answers only with codes its route
declares (`Fitting`, for each route), the mint's 409 and the opening's
`market_not_published` apart; that what a first touch found when the request
began is still there, so the request has not missed it (`Remembered`); and that
nothing but telling market_service follows the request's own write. `FirstTouchesStay` is of reads, and inductive with that: a refusal of a first touch comes
from a request that missed it, and no other check answers those codes (`NoRead`,
`Apart`).

`PositionsProofs` proves, of a market's opening, for any requests, replicas,
timeouts and memory: `OpensOnce` (`OpenedOnce`) and `HidesBriefly`
(`HiddenBriefly`, if a 404 is remembered at all). `OpeningInv` says of a request
on its way through the inserts that each row it has passed is committed or its own
(`Reached`), so that whoever holds the funding key has inserted the pool and the
book itself: had it found them committed, the funding would have been committed
with them. `CallInv` bounds what a 404 can outlive: a call that heard it was sent
before the publication.

Of the money, for any finite set of users and any trades, seed, grant and cost
curve, it proves `VoidsClear` (`VoidClears`), `NobodyAloneProfits`
(`AloneNeverProfits`), `RepeatsAgree` (`RepeatsTellTheSame`) and
`StatementsAlwaysAddUp` (`StatementsAddUp`). The assumptions are
`PositionsAssumption` (trades are well formed and the accounts have different
names), those of `Pricing`, and `ConvexAssumption`: the more an outcome leads, the
more its next share costs. That is a fact of the LMSR (`core/lmsr.py`), which the
code's arithmetic keeps to within its own precision, many digits below a grain. As in
`OrderBookProofs`, `EveryLead` is a hypothesis of each. All four follow from
`PositionsInv`, which `PositionsStaySound` keeps:

- `TradesTell`: the replay of the trades agrees with the book and, lot by lot,
  with the stored positions, which is what the void's guard asks;
- `SharesHeld`: the shares outstanding are those held, a position without shares
  has no cost left, and whoever has no grant has nothing;
- `MoneyKept`: the pool has, over its seed, at least what the cost function asks
  for the shares outstanding, so that no payout, refund or valuation can take more
  than is there (`HeldAtMost`, `WorthHolds`), and what each user realised is what
  closing shares banked;
- `EndTold`: what an ending paid, and what it said. `CutSound` shows that refunds
  cut in proportion and rounded down stay within what is owed and in the pool.

`AloneNeverProfits` is the hard one. A lot keeps the price it was bought at, and
shares of the other outcome bought and sold in between have moved that price, so
what the remaining lots cost is no longer what the cost function says of the
remaining shares. The proof tells what they cost by two curves, one per outcome:
a purchase makes a curve go on by what the shares cost then (`Grown`), and a sale,
which takes the newest lots off, leaves what is told of the rest alone (`Tells`).
The curves' sum stays under the cost function (`Under`), because with convexity the
more is out of one outcome the less shares of the other cost (`OtherCheapens`); and
a trader alone has paid the cost function, and beside it what each untouched lot was
charged by rounding up (`Extras`). Were sales taken off the oldest lot, `Tells`
would fail, which is ADR 0025's reason for the order.

`PriceFeedProofs` proves, for any finite sets of markets and users and any
relays, sockets, clients, queues and faults: `HubsAlwaysAgree` (`HubsAgree`),
`NoPriceGoesBack` (`PricesNeverGoBack`) and, where no read is skipped
(`~SkipsInFlight`), `NothingStaysFrozen` (`NothingFrozen`). `FeedInv` is the type
invariant with the relays' indexes (`HubsSound`), the addressees of what is queued
(`Addressed`), and which socket is whose (`Tied`, `Emptied`); each operation of
`Hub` has a lemma that it keeps its four indexes in agreement
(`SubscribeAgrees`, ..., `ForgetAgrees`). `NothingFrozen` needs three things more.
`PricesDue`: nothing in flight, at a gate or on a page is newer than what was
committed, so an applied newest price is the one shown. `Following`: a page
believes it holds only markets it shows. And `Told`, which sharpens what it means
that the newest price is coming: it is at the page or in its socket's queue
(`Fed`), or the gate of its relay has yet to pass it (`Awaited`), since a price
that the gate has already passed would be refused. Each step then has a lemma
that it keeps `Told`: a page becomes live only by a read of the ledger, and the
gate passes the newest price only into the queues of all its watchers, or by
ending the one that is full. That pages' frames are well typed rests on
`Unanswered`, a recursive function, of which `LeftExists` and `UnansweredType`
show what is needed from the least index at which it could fail.

`ReadersProofs` proves `HistoriesStayWhole` (`HistoryWhole`), `RankingsStayWhole`
(`RankingWhole`) and `BrowsingStaysWhole` (`BrowseWhole`), for any finite sets of
holders and markets, any row ids, batches, clock readings and page sizes, and however
many pages a walk has and whatever is written between two of them. The assumptions
are `FeedsAssumption`, `LeaderboardAssumption`, `BrowseAssumption` and
`ReadersAssumption`: ids, times and worths are numbers, a batch is a sequence of
movements, a page has at least one row, a refresh keeps at least one generation.
A page is chosen from a list of what a statement returns, in its order, so first it
is shown that there is such a list: in a finite set ordered without ties, each place
is exactly one row's (`PlacesFill`), and so any such set can be listed (`ListExists`).
`CutPages` says then what a page is: the first rows of what its cursor leaves, with
whatever else is left after the last of them, which the cursor names. `GoesOn` puts
pages together. All three theorems follow from `ReadersInv` (`ReadersStayInStep`),
which says for each list what keeps shown rows where they are:

- A feed (`Walked`): what the walk began with has been shown or is older than its
  last row. In an account, times go up with the commits (`AccountSound`), because
  `_stamp_after_newest` reads the newest under the lock (`StampIsAfter`); so what is
  appended is newer than the whole walk (`RestHasBegun`), and the entries up to one
  are those committed by then, which is why a balance counted down from the page's
  newest row is what the account held (`BalanceIs`). In the log nothing orders the
  writers' clocks: an entry that commits late may be shown or not, but moves
  no other.
- The leaderboard (`BoardInv`): no other generation has, or will have, the time of
  the one a walk is of (`Fixed`), since a newer one is there before it can be
  discarded and no older one is written after; a generation's worths were all read
  at one moment (`GenerationSound`).
- The browse and the overview (`BrowseInv`, `OverviewInv`): a public market's
  position as of the walk's moment stays, or moves later when a close stamped early
  commits (`PlacesGoLater`), which is the exception the property names; a market that
  finishes leaves its place in the overview for good.

**Model-checked only.** Every safety invariant and every action property of a
passing run is stated by a theorem. Out of the prover's reach: liveness
under fairness (`OverdueCloses`, `SettlementFinishes`) and `ENABLED`; induction over
data, since the induction theorems cannot be instantiated, except where a smallest
counterexample serves; anything behind a `RECURSIVE` operator. The two properties
that are violated, `NeverWaitOnEachOther` and `NothingFrozen` as the hook is
written, have no theorem.

## 5. How the modules compose

`AtomicLedger` is what `Posting` promises, and `Posting` instantiates it. `Ending`
extends `MarketLifecycle`; `OrderBook` and `Positions` extend `Pricing`, and
`Positions` extends `BookOpening`; `PriceFeed` extends `Hub`; `Feeds`,
`Leaderboard` and `Browse` extend `Paging`, and `Readers` extends the three. `Access` stands above them: what each of its
writes does inside is theirs. `Posting` is what lets the others take a batch as one
action. Each `*Proofs` module extends the module it is about, and `Sums` where
something is added up or counted.

## 6. What is not modelled, and why

- Direct calls to market_service's settle and void steps by an administrator:
  ADR 0025 accepts that they mark a market nobody has paid.
- Which of several errors a refused request carries, except where a property
  is about it; reasons, evidence, texts, timestamps' formats.
- Attempt limits: counters in Redis with an expiry of their own, in front of
  passwords, which the model leaves out.
- The thinning of the price history, the text search of users and markets, the
  per-field validation of a market's form and of request bodies: functions of
  one row or one body, with no state between two steps.
- The 404 cache's limit on its size: one market is modelled.
- More than two outcomes: the limit-order code itself is binary.
- The LMSR's logarithms: `LogCost` is a table. The quantisation of its result,
  which is where money could leak, is modelled.
- Rendering in the frontend, tracing, metrics, configuration and deployment.
