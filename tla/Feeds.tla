------------------------------- MODULE Feeds -------------------------------
(***************************************************************************)
(* The append-only feeds and how a page of one is cut: an account's history *)
(* with its running balance and its trades (service/ledger_service.py), and *)
(* the audit log (audit_service).  All are read newest first and paged by   *)
(* keyset on (time, id) (shared/paging.py, core/paging.py).                 *)
(*                                                                          *)
(* A movement is stamped under its account's lock, and is appended in one   *)
(* action with the commit that releases it; module Posting has the lock.    *)
(* An audit entry is stamped by whichever service writes it, and commits    *)
(* when that service does.                                                  *)
(***************************************************************************)
EXTENDS Paging

CONSTANTS
  Ids,       \* row ids: random, and compared only to break ties
  Stamps,    \* what a clock may read
  Batches    \* what one commit appends: a sequence of [kind, amount]

ASSUME FeedsAssumption ==
  /\ Ids \subseteq Nat /\ Stamps \subseteq Nat
  /\ \A b \in Batches : b \in Seq([kind : STRING, amount : Int])

VARIABLES
  account,   \* the entries of one account, a user's or a pool's
  log        \* audit.admin_actions

feeds == <<account, log>>

----------------------------------------------------------------------------
(* Newest first *)

\* Mutation: rows of one instant are not told apart.
OlderByTime(row, position) == row.at < position.at

\* (created_at, id) < (created_at, id)
Older(row, position) ==
  \/ row.at < position.at
  \/ row.at = position.at /\ row.id < position.id

Newer(row, other) == row # other /\ ~Older(row, other)

\* What a cursor leaves of the feed.
Rest(rows, cursor) == {r \in rows : cursor = None \/ Older(r, cursor[1])}

NewestFirst(rows) == InOrder(rows, Newer)

SumOf(rows) == SumFunction([r \in rows |-> r.amount])

\* _page_query: the account's sum up to the page's newest row, less the
\* page's own rows newer than each.
WithBalances(fetched) ==
  LET anchor == SumOf({r \in account : ~Newer(r, fetched[1])})
      newerOnPage(i) == SumOf({fetched[j] : j \in 1..(i - 1)})
  IN  [i \in DOMAIN fetched |-> [row |-> fetched[i], balance |-> anchor - newerOnPage(i)]]

\* One page of each feed: its rows, and the row to go on after.
HistoryPage(cursor, limit) ==
  LET fetched == Fetched(NewestFirst(Rest(account, cursor)), limit)
      page == Cut(fetched, limit)
  IN  [rows |-> SubSeq(WithBalances(fetched), 1, Len(page.rows)), next |-> page.next]

Plain(page) == [page EXCEPT !.rows = [i \in DOMAIN @ |-> [row |-> @[i]]]]

MatchingTrades == {r \in account : r.kind = "trade"}
TradePage(cursor, limit) ==
  Plain(Cut(Fetched(NewestFirst(Rest(MatchingTrades, cursor)), limit), limit))

MatchingActions == {r \in log : r.kind = "suspend"}
ActionPage(cursor, limit) ==
  Plain(Cut(Fetched(NewestFirst(Rest(MatchingActions, cursor)), limit), limit))

----------------------------------------------------------------------------
(* What is appended *)

Used == {r.id : r \in account \cup log}

\* _stamp_after_newest
StampAfterNewest(now) == Max({now} \cup {r.at + 1 : r \in account})

\* posting.post_all commits; movement i lands i microseconds after the first.
PostBatch(batch, now) ==
  LET first == StampAfterNewest(now)
  IN  \E ids \in [DOMAIN batch -> Ids \ Used] :
        /\ \A i, j \in DOMAIN batch : ids[i] = ids[j] => i = j
        /\ account' = account \cup
             {[at |-> first + i, id |-> ids[i], kind |-> batch[i].kind, amount |-> batch[i].amount,
               nth |-> Cardinality(account) + i] : i \in DOMAIN batch}
        /\ UNCHANGED log

\* An administrator's action commits with its entry (shared.audit.record): the
\* time is its writer's, and nothing orders the writers.
Record(kind, at) ==
  /\ \E id \in Ids \ Used :
       log' = log \cup {[at |-> at, id |-> id, kind |-> kind, amount |-> 0, nth |-> Cardinality(log) + 1]}
  /\ UNCHANGED account

InitFeeds == account = {} /\ log = {}

\* What the account held once its first n entries were in.
Held(n) == SumOf({r \in account : r.nth <= n})
=============================================================================
