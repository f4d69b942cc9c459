------------------------------ MODULE Posting ------------------------------
(***************************************************************************)
(* The ledger service's one write path: posting.post_all, and the two       *)
(* writers of a reservation that run beside it, orders._rest and            *)
(* cancellation.cancel.                                                     *)
(*                                                                          *)
(* Each session is one request's database transaction under Postgres READ   *)
(* COMMITTED.  It may take one market's book row FOR UPDATE, then account   *)
(* rows FOR UPDATE one statement at a time, ascending by id; every later    *)
(* statement reads what is committed when it runs.  An action is one        *)
(* statement, or a run of statements between which no other session can     *)
(* change anything it reads.                                                *)
(*                                                                          *)
(* Money is a whole number of ticks (the column's 0.0001).  A movement's    *)
(* legs are a total function from accounts to ticks, zero where it has no   *)
(* leg, so a movement's fingerprint (posting._fingerprint) is the function. *)
(***************************************************************************)
EXTENDS Integers, Sequences, FiniteSets, Functions

CONSTANTS
  Sessions,     \* concurrent requests, over every replica
  Accounts,     \* account ids; their order is the lock order
  Users,        \* the accounts of kind USER, the only ones with a floor
  Markets,      \* book rows
  Orders,       \* resting buy orders, each with an owner and a market
  OwnerOf, MarketOf,
  Keys,         \* idempotency keys
  Requests,     \* what callers may ask for, retries included
  Clock,        \* readings of any replica's clock, skew included
  Stamps,       \* the times an entry can carry
  Nobody, NoMarket, NoOrder, NoRequest

Movement == [key: Keys, legs: [Accounts -> Int], order: Orders \cup {NoOrder}, drop: Int]

Request == [market: Markets \cup {NoMarket}, moves: Seq(Movement),
            opens: Orders \cup {NoOrder}, budget: Nat, cancels: Orders \cup {NoOrder}]

ASSUME AccountsAssumption ==
  Accounts \subseteq Nat /\ IsFiniteSet(Accounts) /\ Users \subseteq Accounts
ASSUME OrdersAssumption ==
  /\ OwnerOf \in [Orders -> Users]
  /\ MarketOf \in [Orders -> Markets]
  /\ NoOrder \notin Orders /\ NoMarket \notin Markets
  /\ IsFiniteSet(Orders)
\* A batch fills no order twice.  A grant or a funding, which takes no book row,
\* names no order, and lowers no reservation of a user it debits.
ASSUME RequestsAssumption ==
  /\ Requests \subseteq Request
  /\ NoRequest \notin Requests
  /\ \A r \in Requests : \A i, j \in DOMAIN r.moves :
       i # j /\ r.moves[i].order = r.moves[j].order => r.moves[i].order = NoOrder
  /\ \A r \in Requests : r.market = NoMarket =>
       /\ r.opens = NoOrder /\ r.cancels = NoOrder
       /\ \A i \in DOMAIN r.moves :
            /\ r.moves[i].order = NoOrder
            /\ \A u \in Users : r.moves[i].legs[u] < 0 => r.moves[i].drop = 0
ASSUME ClockAssumption == Stamps \subseteq Nat /\ Clock \subseteq Stamps
ASSUME NobodyAssumption == Nobody \notin Sessions

VARIABLES
  balance,   \* account -> the sum of its committed entries
  reserved,  \* user -> what reservations.reserved_of reads of committed rows
  hold,      \* order -> budget - filled_value while it is live, else 0
  opened,    \* orders whose row is committed, live or not
  ledger,    \* the committed transactions
  rowLock,   \* account -> the session holding its row
  bookLock,  \* market -> the session holding its book row
  pc, req,   \* each session's next statement and request
  todo,      \* accounts still to lock
  floor,     \* balances and reservations read before the batch
  at,        \* the next movement of the overdraft walk
  delta,     \* what the movements walked so far do to each account
  dropped,   \* how far they lower each user's reservation
  stamp,     \* the batch's first timestamp
  outcome    \* how the session's last request ended

tables == <<balance, reserved, hold, opened, ledger>>
locks  == <<rowLock, bookLock>>
walk   == <<floor, at, delta, dropped, stamp>>
vars   == <<tables, locks, pc, req, todo, walk, outcome>>

----------------------------------------------------------------------------
(* What a request names *)

Touched(m) == {a \in Accounts : m.legs[a] # 0}

KeysOf(r) == {r.moves[i].key : i \in DOMAIN r.moves}

\* Mutation: a batch locks the pools it touches and leaves the users' rows.
AccountsOfPools(r) ==
  ((UNION {Touched(r.moves[i]) : i \in DOMAIN r.moves}) \ Users)
    \cup {OwnerOf[o] : o \in {x \in Orders : x = r.opens /\ r.moves = <<>>}}

\* _rest locks its placer's account; a batch locks every account it touches;
\* a cancellation locks none.
AccountsOf(r) ==
  (UNION {Touched(r.moves[i]) : i \in DOMAIN r.moves})
    \cup {OwnerOf[o] : o \in {x \in Orders : x = r.opens /\ r.moves = <<>>}}

FilledOrders(r) == {o \in Orders : \E i \in DOMAIN r.moves : r.moves[i].order = o}

DropOn(r, o) == LET i == CHOOSE j \in DOMAIN r.moves : r.moves[j].order = o
                IN  r.moves[i].drop

\* What the request's own new order adds to a user's reservation.
Opening(r, u) == IF r.opens # NoOrder /\ OwnerOf[r.opens] = u THEN r.budget ELSE 0

OpeningOn(r, o) == IF r.opens = o THEN r.budget ELSE 0

DropFrom(m, u) == IF u \in Touched(m) THEN m.drop ELSE 0

DebitedUsers(r) == {u \in Users : \E i \in DOMAIN r.moves : r.moves[i].legs[u] < 0}

\* The accounts whose floor is read: the batch's debited users, or the
\* placer of an order that only rests.
GuardedUsers(r) == DebitedUsers(r) \cup
  {OwnerOf[o] : o \in {x \in Orders : x = r.opens /\ r.moves = <<>>}}

----------------------------------------------------------------------------
(* The refusals before any SQL *)

HasMalformedDrop(m) ==
  /\ m.drop # 0
  /\ \/ m.drop < 0
     \/ Cardinality(Touched(m) \cap Users) # 1
     \/ \E u \in Touched(m) \cap Users : m.legs[u] >= 0

MalformedBatch(r) ==
  \/ r.moves = <<>>
  \/ \E i, j \in DOMAIN r.moves : i # j /\ r.moves[i].key = r.moves[j].key
  \/ \E i \in DOMAIN r.moves : HasMalformedDrop(r.moves[i])

Unbalanced(m) == Cardinality(Touched(m)) < 2 \/ SumFunction(m.legs) # 0

----------------------------------------------------------------------------
(* Reads of committed rows *)

\* Mutation: the lookup asks for another key than the one the insert stores.
FoundNone(K) == {}

Found(K) == {t \in ledger : t.key \in K}

Replays(r) ==
  \A i \in DOMAIN r.moves :
    \E t \in ledger : t.key = r.moves[i].key /\ t.legs = r.moves[i].legs

\* What the caller found under its book lock still lets it ask for this: the
\* order it opens has no row yet, each order it fills or cancels is live with
\* that much left, and belongs to this book and to the user the fill debits.
PlanHolds(r) ==
  /\ r.opens # NoOrder => r.opens \notin opened
  /\ r.cancels # NoOrder => hold[r.cancels] > 0
  /\ r.opens # NoOrder /\ r.moves # <<>> /\ r.budget > 0 =>
       \E i \in DOMAIN r.moves : r.moves[i].legs[OwnerOf[r.opens]] < 0
  /\ \A o \in FilledOrders(r) \cup ({r.opens, r.cancels} \ {NoOrder}) :
       MarketOf[o] = r.market
  /\ \A i \in DOMAIN r.moves :
       /\ r.moves[i].order # NoOrder =>
            /\ r.moves[i].drop <= hold[r.moves[i].order] + OpeningOn(r, r.moves[i].order)
            /\ r.moves[i].legs[OwnerOf[r.moves[i].order]] < 0
       /\ r.moves[i].order = NoOrder => r.moves[i].drop = 0

\* Mutation: the replica's clock alone.
StampAtNow(r, now, st) == st = now

\* `now`, or one tick after the newest entry on any account of the batch.
StampAfterNewest(r, now, st) ==
  LET shared == {t \in ledger : \E a \in AccountsOf(r) : t.legs[a] # 0}
  IN  /\ st >= now
      /\ \A t \in shared : t.stamp < st
      /\ st = now \/ \E t \in shared : st = t.stamp + 1

----------------------------------------------------------------------------
(* The end of a session's transaction: COMMIT or ROLLBACK frees its locks *)

NoFloor == [balance |-> [u \in Users |-> 0], reserved |-> [u \in Users |-> 0]]

Finish(s, result) ==
  /\ pc' = [pc EXCEPT ![s] = "idle"]
  /\ req' = [req EXCEPT ![s] = NoRequest]
  /\ outcome' = [outcome EXCEPT ![s] = result]
  /\ rowLock' = [a \in Accounts |-> IF rowLock[a] = s THEN Nobody ELSE rowLock[a]]
  /\ bookLock' = [m \in Markets |-> IF bookLock[m] = s THEN Nobody ELSE bookLock[m]]
  /\ todo' = [todo EXCEPT ![s] = {}]
  /\ floor' = [floor EXCEPT ![s] = NoFloor]
  /\ at' = [at EXCEPT ![s] = 1]
  /\ delta' = [delta EXCEPT ![s] = [a \in Accounts |-> 0]]
  /\ dropped' = [dropped EXCEPT ![s] = [u \in Users |-> 0]]
  /\ stamp' = [stamp EXCEPT ![s] = 0]

\* A raise: get_session rolls back.
Refuse(s, result) == Finish(s, result) /\ UNCHANGED tables

GoTo(s, label) == pc' = [pc EXCEPT ![s] = label]

----------------------------------------------------------------------------
(* One request, statement by statement *)

Init ==
  /\ balance = [a \in Accounts |-> 0]
  /\ reserved = [u \in Users |-> 0]
  /\ hold = [o \in Orders |-> 0]
  /\ opened = {}
  /\ ledger = {}
  /\ rowLock = [a \in Accounts |-> Nobody]
  /\ bookLock = [m \in Markets |-> Nobody]
  /\ pc = [s \in Sessions |-> "idle"]
  /\ req = [s \in Sessions |-> NoRequest]
  /\ todo = [s \in Sessions |-> {}]
  /\ floor = [s \in Sessions |-> NoFloor]
  /\ at = [s \in Sessions |-> 1]
  /\ delta = [s \in Sessions |-> [a \in Accounts |-> 0]]
  /\ dropped = [s \in Sessions |-> [u \in Users |-> 0]]
  /\ stamp = [s \in Sessions |-> 0]
  /\ outcome = [s \in Sessions |-> "none"]

\* A request arrives, for the first time or again: a grant or a funding goes
\* straight to post_all, everything else to its market's book row.
Begin(s, r) ==
  /\ pc[s] = "idle"
  /\ req' = [req EXCEPT ![s] = r]
  /\ outcome' = [outcome EXCEPT ![s] = "none"]
  /\ GoTo(s, IF r.market = NoMarket THEN "batch" ELSE "book")
  /\ UNCHANGED <<tables, locks, todo, walk>>

\* books.lock_book
LockBook(s) ==
  /\ pc[s] = "book"
  /\ bookLock[req[s].market] = Nobody
  /\ bookLock' = [bookLock EXCEPT ![req[s].market] = s]
  /\ GoTo(s, "plan")
  /\ UNCHANGED <<tables, rowLock, req, todo, walk, outcome>>

\* The caller's own key, looked up again under the book lock; a cancellation
\* has none, and a placement's is its order row.
AlreadyDone(r) ==
  \/ r.opens \in opened
  \/ r.moves # <<>> /\ Found({r.moves[1].key}) # {}

SameRequest(r) ==
  r.moves # <<>> => \E t \in ledger : t.key = r.moves[1].key /\ t.legs = r.moves[1].legs

\* Under the book lock: a request done already is answered from what it
\* wrote, and one the market no longer supports is refused.
Plan(s) ==
  /\ pc[s] = "plan"
  /\ IF AlreadyDone(req[s])
     THEN Refuse(s, IF SameRequest(req[s]) THEN "replayed" ELSE "IdempotencyKeyReused")
     ELSE IF ~PlanHolds(req[s])
     THEN Refuse(s, "refused by the caller")
     ELSE /\ GoTo(s, IF req[s].cancels # NoOrder THEN "commit"
                     ELSE IF req[s].moves = <<>> THEN "locks" ELSE "batch")
          /\ todo' = [todo EXCEPT ![s] = IF req[s].cancels = NoOrder /\ req[s].moves = <<>>
                                         THEN AccountsOf(req[s]) ELSE {}]
          /\ UNCHANGED <<tables, locks, req, walk, outcome>>

\* The entry of post_all: malformed, then unbalanced, before any statement.
CheckBatch(s) ==
  /\ pc[s] = "batch"
  /\ IF MalformedBatch(req[s])
     THEN Refuse(s, "MalformedBatch")
     ELSE IF \E i \in DOMAIN req[s].moves : Unbalanced(req[s].moves[i])
     THEN Refuse(s, "UnbalancedTransaction")
     ELSE /\ GoTo(s, "locks")
          /\ todo' = [todo EXCEPT ![s] = AccountsOf(req[s])]
          /\ UNCHANGED <<tables, locks, req, walk, outcome>>

\* Mutation: the accounts in any order.
LockAnyAccount(s) ==
  /\ pc[s] = "locks"
  /\ \E a \in todo[s] :
       /\ rowLock[a] = Nobody
       /\ rowLock' = [rowLock EXCEPT ![a] = s]
       /\ todo' = [todo EXCEPT ![s] = @ \ {a}]
       /\ GoTo(s, IF todo[s] = {a} THEN "lookup" ELSE "locks")
  /\ UNCHANGED <<tables, bookLock, req, walk, outcome>>

\* accounts.lock: the next account, ascending, once its row is free.
LockAccount(s) ==
  /\ pc[s] = "locks"
  /\ \E a \in todo[s] :
       /\ \A b \in todo[s] : a <= b
       /\ rowLock[a] = Nobody
       /\ rowLock' = [rowLock EXCEPT ![a] = s]
       /\ todo' = [todo EXCEPT ![s] = @ \ {a}]
       /\ GoTo(s, IF todo[s] = {a} THEN "lookup" ELSE "locks")
  /\ UNCHANGED <<tables, bookLock, req, walk, outcome>>

\* _replay_batch: caller_pending is TRUE for every request that holds a book
\* row, since those write positions or orders before they post.
ReplayBatch(s) ==
  Refuse(s, IF req[s].market # NoMarket THEN "PendingWritesOnReplay"
            ELSE IF Replays(req[s]) THEN "replayed" ELSE "IdempotencyKeyReused")

\* The keys, looked up under the account locks.
LookUp(s) ==
  /\ pc[s] = "lookup"
  /\ IF Found(KeysOf(req[s])) # {}
     THEN ReplayBatch(s)
     ELSE /\ GoTo(s, "floors")
          /\ UNCHANGED <<tables, locks, req, todo, walk, outcome>>

\* _floors_before_batch, and _rest's comparison of its budget with what is
\* available: a guarded user below the reservation before the batch, a new
\* order counted whole, is refused.
ReadFloors(s) ==
  /\ pc[s] = "floors"
  /\ LET reservedNow == [u \in Users |-> reserved[u] + Opening(req[s], u)]
     IN  IF \E u \in GuardedUsers(req[s]) : balance[u] < reservedNow[u]
         THEN Refuse(s, "InsufficientFunds")
         ELSE /\ floor' = [floor EXCEPT ![s] =
                    [balance |-> [u \in Users |-> balance[u]], reserved |-> reservedNow]]
              /\ GoTo(s, IF req[s].moves = <<>> THEN "commit" ELSE "walk")
              /\ UNCHANGED <<tables, locks, req, todo, at, delta, dropped, stamp, outcome>>

\* Mutation: the batch netted, so a later credit pays for an earlier debit.
OverdrawnAtEnd(s, m) ==
  \E u \in Users :
    /\ at[s] = Len(req[s].moves)
    /\ floor[s].balance[u] + delta[s][u] + m.legs[u]
         < floor[s].reserved[u] - dropped[s][u] - DropFrom(m, u)

\* One movement of _refuse_overdrafts: what it debits must stay covered,
\* whatever a later movement would give back.
Overdrawn(s, m) ==
  \E u \in Users :
    /\ m.legs[u] < 0
    /\ floor[s].balance[u] + delta[s][u] + m.legs[u]
         < floor[s].reserved[u] - dropped[s][u] - DropFrom(m, u)

Walk(s) ==
  /\ pc[s] = "walk"
  /\ LET m == req[s].moves[at[s]]
     IN  IF Overdrawn(s, m)
         THEN Refuse(s, "InsufficientFunds")
         ELSE /\ delta' = [delta EXCEPT ![s] = [a \in Accounts |-> delta[s][a] + m.legs[a]]]
              /\ dropped' = [dropped EXCEPT ![s] =
                               [u \in Users |-> dropped[s][u] + DropFrom(m, u)]]
              /\ at' = [at EXCEPT ![s] = @ + 1]
              /\ GoTo(s, IF at[s] = Len(req[s].moves) THEN "stamp" ELSE "walk")
              /\ UNCHANGED <<tables, locks, req, todo, floor, stamp, outcome>>

\* _stamp_after_newest, at whatever this replica's clock reads.
Stamp(s) ==
  /\ pc[s] = "stamp"
  /\ \E now \in Clock, st \in Stamps :
       /\ StampAfterNewest(req[s], now, st)
       /\ stamp' = [stamp EXCEPT ![s] = st]
  /\ GoTo(s, "insert")
  /\ UNCHANGED <<tables, locks, req, todo, floor, at, delta, dropped, outcome>>

\* Another session's uncommitted insert of one of these keys.
ClaimedElsewhere(s, K) ==
  \E t \in Sessions \ {s} :
    pc[t] = "commit" /\ req[t].moves # <<>> /\ KeysOf(req[t]) \cap K # {}

\* Mutation: no unique index on the key.
InsertUnchecked(s) ==
  /\ pc[s] = "insert"
  /\ GoTo(s, "commit")
  /\ UNCHANGED <<tables, locks, req, todo, walk, outcome>>

\* The SAVEPOINT: the unique index makes a second insert of a key wait for
\* the first one's commit, and then fail and re-read.
Insert(s) ==
  /\ pc[s] = "insert"
  /\ ~ClaimedElsewhere(s, KeysOf(req[s]))
  /\ IF Found(KeysOf(req[s])) # {}
     THEN ReplayBatch(s)
     ELSE /\ GoTo(s, "commit")
          /\ UNCHANGED <<tables, locks, req, todo, walk, outcome>>

TransactionsOf(s) ==
  {[key |-> req[s].moves[i].key, legs |-> req[s].moves[i].legs,
    stamp |-> stamp[s] + i - 1] : i \in DOMAIN req[s].moves}

\* The one commit of a batch, with the order rows its caller wrote, or of an
\* order that rests.
Commit(s) ==
  /\ pc[s] = "commit"
  /\ req[s].cancels = NoOrder
  /\ balance' = [a \in Accounts |-> balance[a] + delta[s][a]]
  /\ ledger' = ledger \cup TransactionsOf(s)
  /\ reserved' = [u \in Users |-> reserved[u] + Opening(req[s], u) - dropped[s][u]]
  /\ hold' = [o \in Orders |->
       hold[o] + OpeningOn(req[s], o)
         - (IF o \in FilledOrders(req[s]) THEN DropOn(req[s], o) ELSE 0)]
  /\ opened' = opened \cup ({req[s].opens} \ {NoOrder})
  /\ Finish(s, "posted")

\* cancellation.cancel: the order row alone, under the book lock.
CommitCancel(s) ==
  /\ pc[s] = "commit"
  /\ req[s].cancels # NoOrder
  /\ hold' = [hold EXCEPT ![req[s].cancels] = 0]
  /\ reserved' = [reserved EXCEPT ![OwnerOf[req[s].cancels]] =
                    @ - hold[req[s].cancels]]
  /\ UNCHANGED <<balance, opened, ledger>>
  /\ Finish(s, "posted")

\* The request dies: a lost connection, a cancelled task, a killed process.
Abort(s) == pc[s] # "idle" /\ Refuse(s, "aborted")

Step(s) ==
  \/ LockBook(s) \/ Plan(s) \/ CheckBatch(s) \/ LockAccount(s) \/ LookUp(s)
  \/ ReadFloors(s) \/ Walk(s) \/ Stamp(s) \/ Insert(s) \/ Commit(s) \/ CommitCancel(s)

Next == \E s \in Sessions : Step(s) \/ Abort(s) \/ \E r \in Requests : Begin(s, r)

Spec == Init /\ [][Next]_vars

----------------------------------------------------------------------------
(* What the write path must keep true *)

\* Every variable stays within its type; a live order never holds less than
\* nothing (order rows and posting.py's Decimals).
TypeOK ==
  /\ balance \in [Accounts -> Int]
  /\ reserved \in [Users -> Int]
  /\ hold \in [Orders -> Nat]
  /\ opened \subseteq Orders
  /\ ledger \subseteq [key: Keys, legs: [Accounts -> Int], stamp: Nat]
  /\ rowLock \in [Accounts -> Sessions \cup {Nobody}]
  /\ bookLock \in [Markets -> Sessions \cup {Nobody}]
  /\ pc \in [Sessions -> {"idle", "book", "plan", "batch", "locks", "lookup", "floors",
                          "walk", "stamp", "insert", "commit"}]
  /\ req \in [Sessions -> Requests \cup {NoRequest}]
  /\ \A s \in Sessions : (pc[s] = "idle") <=> (req[s] = NoRequest)
  /\ todo \in [Sessions -> SUBSET Accounts]
  /\ floor \in [Sessions -> [balance: [Users -> Int], reserved: [Users -> Int]]]
  /\ at \in [Sessions -> Nat \ {0}]
  /\ delta \in [Sessions -> [Accounts -> Int]]
  /\ dropped \in [Sessions -> [Users -> Int]]
  /\ stamp \in [Sessions -> Nat]

\* No user's balance is ever below what their resting buy orders reserve,
\* whichever sessions debit the account, fill its orders and rest new ones
\* at once (posting._refuse_overdrafts, accounts.lock; ADR 0024).
FundsCoverReservations == \A u \in Users : balance[u] >= reserved[u]

\* An idempotency key names one transaction for ever: the unique index, the
\* lookup under the locks and the SAVEPOINT let no second one in.
OneTransactionPerKey == \A t1, t2 \in ledger : t1.key = t2.key => t1 = t2

\* No request is answered as an overdraft when its own movement is already
\* in the ledger: a retry that races its original replays it (ADR 0015; the
\* keys are looked up after the locks, before the floors).
RetryNeverOverdrawn ==
  [][\A s \in Sessions :
       req[s] # NoRequest /\ outcome'[s] = "InsufficientFunds" =>
         \A t \in ledger, i \in DOMAIN req[s].moves :
           t.key # req[s].moves[i].key \/ t.legs # req[s].moves[i].legs]_vars

\* On every account the timestamps follow the commit order, and no two
\* transactions of an account share one, whatever the replicas' clocks say
\* (_stamp_after_newest, #187).
StampsFollowCommits ==
  [][\A t \in ledger, n \in ledger' \ ledger :
       (\E a \in Accounts : t.legs[a] # 0 /\ n.legs[a] # 0) => t.stamp < n.stamp]_vars

WaitsFor(s, t) ==
  \/ pc[s] = "book" /\ bookLock[req[s].market] = t
  \/ pc[s] = "locks" /\ \E a \in todo[s] : (\A b \in todo[s] : a <= b) /\ rowLock[a] = t
  \/ pc[s] = "insert" /\ t # s /\ pc[t] = "commit" /\ KeysOf(req[s]) \cap KeysOf(req[t]) # {}

\* No set of sessions waits in a circle: book row before account rows, and
\* account rows ascending (accounts.lock, books.lock_book; ADR 0009).
NoLockCycle ==
  \A S \in (SUBSET Sessions) \ {{}} : \E s \in S : \A t \in S : ~WaitsFor(s, t)

Atomic == INSTANCE AtomicLedger
            WITH balance <- balance, hold <- hold, opened <- opened, ledger <- ledger

\* Every behaviour of the sessions is one of a ledger whose batches happen at
\* one instant, each checked at each of its movements.
PostsAtomically == Atomic!Spec

=============================================================================
