-------------------------- MODULE PositionsProofs --------------------------
(***************************************************************************)
(* Theorems about one market's opening and about its pool and positions,    *)
(* for any users, trades, replicas, seed, grant and cost curve.             *)
(*                                                                          *)
(* Opening.  OpenedOnce is not inductive: it has to be known, while a       *)
(* request is on its way through the four inserts, that each row it goes on *)
(* with is one that it inserted itself and still holds, or one that is      *)
(* committed (Reached), and that no row is both committed and being         *)
(* inserted.                                                                *)
(*                                                                          *)
(* Positions.  PositionsInv ties the replay of the trades to the book and   *)
(* the positions (TradesTell), the shares outstanding to those held         *)
(* (SharesHeld), and the pool to its seed and the cost function (MoneyKept). *)
(*                                                                          *)
(* One trader alone.  The lots of a stack keep the prices they were bought  *)
(* at, and shares of the other outcome bought and sold in between have      *)
(* changed those prices: what the lots cost is no longer what the cost      *)
(* function says of the shares left.  It is told by two curves, one per     *)
(* outcome, which each purchase grows by what it costs then (Grown) and     *)
(* which a sale leaves alone, as it takes the newest shares (Tells).  Their *)
(* sum stays under the cost function (Under), because the more is out of    *)
(* one outcome the less shares of the other cost; and the trader has paid   *)
(* that function, and what was rounded up beside it (Extras).               *)
(*                                                                          *)
(* EveryLead says that the curve has a cost at every lead: C(q) is defined  *)
(* for all q, of which a finite instance holds a part.                      *)
(***************************************************************************)
EXTENDS Positions, Sums, SequenceTheorems

----------------------------------------------------------------------------
(* Opening *)

\* The rows a request has passed.
Passed(s) ==
  CASE step[s] = "book" -> {"pool"}
    [] step[s] = "platform" -> {"pool", "book"}
    [] step[s] = "funding" -> {"pool", "book", "platform"}
    [] step[s] = "commit" -> Rows
    [] OTHER -> {}

Reached(s) ==
  /\ \A k \in Passed(s) : inserting[k] = s \/ row[k] # NoOne
  /\ \A k \in Rows : inserting[k] = s => k \in Passed(s)
  /\ step[s] = "commit" => inserting["funding"] = s
  /\ "pool" \in Passed(s) /\ inserting["pool"] = s => uses[s]["pool"] = s

OpeningInv ==
  /\ OpenedOnce
  /\ fundings # {} => row["platform"] # NoOne
  /\ \A k \in Rows : inserting[k] # NoOne => row[k] = NoOne
  /\ \A s \in Openers : Reached(s)

----------------------------------------------------------------------------
(* The steps of one request *)

LEMMA InitOpens == InitOpening => OpeningInv
<1>1. SUFFICES ASSUME InitOpening PROVE OpeningInv
  OBVIOUS
<1>2. OpeningTypeOK
  BY <1>1, OpeningAssumption DEF InitOpening, OpeningTypeOK, Unused, Rows, Steps
<1>3. \A k \in Rows : row[k] = NoOne /\ inserting[k] = NoOne
  BY <1>1 DEF InitOpening, Unused
<1>4. OpenedOnce
  BY <1>1, <1>2, <1>3 DEF InitOpening, OpenedOnce
<1>5. \A s \in Openers : Reached(s)
  BY <1>1, <1>3, OpeningAssumption DEF InitOpening, Reached, Passed, Rows
<1> QED BY <1>1, <1>3, <1>4, <1>5 DEF InitOpening, OpeningInv

\* A request that ends without committing.
LEMMA LeavesOpen ==
  ASSUME OpeningInv, NEW s \in Openers, NEW what \in {"idle", "not_found"}, Answer(s, what),
         OpeningTypeOK', row' = row, fundings' = fundings, broken' = broken,
         inserting' = [k \in Rows |-> IF inserting[k] = s THEN NoOne ELSE inserting[k]]
  PROVE  OpeningInv'
<1>1. OpeningTypeOK /\ NoOne \notin Openers
  BY OpeningAssumption DEF OpeningInv, OpenedOnce
<1>2. /\ step'[s] = what
      /\ \A t \in Openers \ {s} : step'[t] = step[t] /\ uses'[t] = uses[t]
      /\ \A k \in Rows : inserting'[k] # s
      /\ \A t \in Openers \ {s} : \A k \in Rows : inserting'[k] = t <=> inserting[k] = t
  <2>1. step \in [Openers -> Steps] /\ uses \in [Openers -> [Rows -> Openers \cup {Granter, NoOne}]]
    BY <1>1 DEF OpeningTypeOK
  <2>2. /\ step'[s] = what
        /\ \A t \in Openers \ {s} : step'[t] = step[t] /\ uses'[t] = uses[t]
    BY <2>1 DEF Answer, GoTo
  <2> QED BY <1>1, <2>2
<1>3. Reached(s)'
  BY <1>2 DEF Reached, Passed, Rows
<1>4. \A t \in Openers \ {s} : Reached(t)'
  <2>1. ASSUME NEW t \in Openers \ {s} PROVE Reached(t)'
    <3>1. Passed(t)' = Passed(t) /\ Passed(t) \subseteq Rows
      BY <1>2 DEF Passed, Rows
    <3>2. "pool" \in Rows /\ "funding" \in Rows
      BY DEF Rows
    <3>3. Reached(t)
      BY DEF OpeningInv
    <3> QED BY <1>2, <3>1, <3>2, <3>3 DEF Reached
  <2> QED BY <2>1
<1>5. OpenedOnce' /\ (fundings' # {} => row'["platform"] # NoOne)
  BY DEF OpeningInv, OpenedOnce
<1>6. \A k \in Rows : inserting'[k] # NoOne => row'[k] = NoOne
  BY DEF OpeningInv
<1> QED BY <1>3, <1>4, <1>5, <1>6 DEF OpeningInv

\* A step that neither inserts nor commits.
LEMMA LooksOn ==
  ASSUME OpeningInv, UNCHANGED <<tables, broken>>, OpeningTypeOK', uses' = uses,
         \A s \in Openers : Passed(s)' = Passed(s) /\ (step[s] = "commit" <=> step'[s] = "commit")
  PROVE  OpeningInv'
<1>1. \A s \in Openers : Reached(s)'
  <2>1. ASSUME NEW s \in Openers PROVE Reached(s)'
    <3>1. Passed(s)' = Passed(s) /\ UNCHANGED <<row, inserting, uses>>
      BY DEF tables
    <3> QED BY <3>1 DEF OpeningInv, Reached
  <2> QED BY <2>1
<1> QED BY <1>1 DEF OpeningInv, OpenedOnce, tables

\* Each insert keeps the opening's invariant.
LEMMA EnsureOpens ==
  ASSUME OpeningInv, NEW s \in Openers, NEW k \in Rows, Ensure(s, k)
  PROVE  OpeningInv'
<1>1. OpeningTypeOK /\ NoOne \notin Openers
  BY OpeningAssumption DEF OpeningInv, OpenedOnce
<1>2. /\ step[s] = k /\ k \in {"pool", "book", "platform"} /\ step'[s] = After(k)
      /\ \A t \in Openers \ {s} : step'[t] = step[t] /\ uses'[t] = uses[t]
      /\ uses'[s][k] = OrOwn(s, k) /\ \A j \in Rows \ {k} : uses'[s][j] = uses[s][j]
      /\ UNCHANGED <<row, fundings, broken>>
  BY <1>1 DEF Ensure, GoTo, OpeningTypeOK, Rows
<1>3. /\ inserting'[k] = IF row[k] # NoOne THEN inserting[k] ELSE s
      /\ \A j \in Rows \ {k} : inserting'[j] = inserting[j]
      /\ inserting[k] \in {NoOne, s}
  BY <1>1 DEF Ensure, OpeningTypeOK
<1>4. OpeningTypeOK'
  <2>1. OrOwn(s, k) \in Openers \cup {Granter, NoOne}
    BY <1>1 DEF OrOwn, OpeningTypeOK
  <2> QED BY <1>1, <2>1 DEF OpeningTypeOK, Ensure, GoTo, After, Steps, Rows
<1>5. Reached(s)'
  <2>1. Passed(s)' = Passed(s) \cup {k} /\ k \notin Passed(s) /\ Passed(s) \subseteq Rows \ {k}
    BY <1>2 DEF Passed, After, Rows
  <2>2. inserting[k] # s
    BY <2>1 DEF OpeningInv, Reached
  <2>3. inserting'[k] = s \/ row[k] # NoOne
    BY <1>3
  <2>4. inserting'["pool"] = s => uses'[s]["pool"] = s
    <3>1. CASE k = "pool"
      BY <1>2, <1>3, <2>2, <3>1 DEF OrOwn
    <3>2. CASE k # "pool"
      BY <1>2, <1>3, <3>2 DEF OpeningInv, Reached, Rows
    <3> QED BY <3>1, <3>2
  <2>5. step'[s] # "commit"
    BY <1>2 DEF After
  <2>6. \A j \in Rows : inserting'[j] = s => j \in Passed(s) \cup {k}
    BY <1>3 DEF OpeningInv, Reached
  <2>7. \A j \in Passed(s) : inserting'[j] = s \/ row[j] # NoOne
    BY <1>3, <2>1 DEF OpeningInv, Reached
  <2> QED BY <1>2, <2>1, <2>3, <2>4, <2>5, <2>6, <2>7 DEF Reached
<1>6. ASSUME NEW t \in Openers \ {s} PROVE Reached(t)'
  <2>1. Passed(t)' = Passed(t) /\ Passed(t) \subseteq Rows
    BY <1>2 DEF Passed, Rows
  <2>2. \A j \in Rows : inserting'[j] = t <=> inserting[j] = t
    BY <1>1, <1>3
  <2> QED BY <1>2, <2>1, <2>2 DEF OpeningInv, Reached, Rows
<1>7. OpenedOnce' /\ (fundings' # {} => row'["platform"] # NoOne)
  BY <1>2, <1>4 DEF OpeningInv, OpenedOnce
<1>8. \A j \in Rows : inserting'[j] # NoOne => row'[j] = NoOne
  BY <1>2, <1>3 DEF OpeningInv
<1> QED BY <1>5, <1>6, <1>7, <1>8 DEF OpeningInv

\* The key is looked up with nothing of one's own pending, or claimed.
LEMMA FundOpens ==
  ASSUME OpeningInv, NEW s \in Openers, Fund(s)
  PROVE  OpeningInv'
<1>1. OpeningTypeOK /\ NoOne \notin Openers
  BY OpeningAssumption DEF OpeningInv, OpenedOnce
<1>2. CASE Funded
  <2>1. \A k \in Rows : row[k] # NoOne
    BY <1>2 DEF Funded, OpeningInv, OpenedOnce, Rows
  <2>2. ~HasPendingWrites(s)
    BY <1>1, <2>1 DEF HasPendingWrites, OpeningInv
  <2>3. /\ broken' = broken /\ Answer(s, "idle") /\ UNCHANGED <<clock, publishedAt, expiry, row, fundings>>
        /\ inserting' = [k \in Rows |-> IF inserting[k] = s THEN NoOne ELSE inserting[k]]
    BY <1>1, <1>2, <2>2 DEF Fund, OpeningTypeOK
  <2>4. OpeningTypeOK'
    BY <1>1, <2>3 DEF OpeningTypeOK, Answer, GoTo, Unused, Steps, Rows
  <2> QED BY <2>3, <2>4, LeavesOpen
<1>3. CASE ~Funded
  <2>1. /\ step[s] = "funding" /\ step'[s] = "commit" /\ inserting["funding"] = NoOne
        /\ \A t \in Openers \ {s} : step'[t] = step[t]
        /\ inserting'["funding"] = s /\ \A k \in Rows \ {"funding"} : inserting'[k] = inserting[k]
        /\ UNCHANGED <<row, fundings, uses, broken>>
    BY <1>1, <1>3 DEF Fund, GoTo, OpeningTypeOK, Rows
  <2>2. OpeningTypeOK'
    <3>1. step' \in [Openers -> Steps] /\ inserting' \in [Rows -> Openers \cup {NoOne}]
      BY <1>1, <1>3 DEF OpeningTypeOK, Fund, GoTo, Steps, Rows
    <3> QED BY <1>1, <1>3, <3>1 DEF OpeningTypeOK, Fund
  <2>3. Reached(s)'
    <3>1. Passed(s)' = Rows /\ Passed(s) = Rows \ {"funding"}
      BY <2>1 DEF Passed, Rows
    <3> QED BY <2>1, <3>1 DEF OpeningInv, Reached, Rows
  <2>4. ASSUME NEW t \in Openers \ {s} PROVE Reached(t)'
    <3>1. Passed(t)' = Passed(t) /\ Passed(t) \subseteq Rows
      BY <2>1 DEF Passed, Rows
    <3>2. \A j \in Rows : inserting'[j] = t <=> inserting[j] = t
      BY <1>1, <2>1
    <3> QED BY <2>1, <3>1, <3>2 DEF OpeningInv, Reached, Rows
  <2>5. \A j \in Rows : inserting'[j] # NoOne => row'[j] = NoOne
    BY <1>3, <2>1 DEF OpeningInv, Funded
  <2> QED BY <2>1, <2>2, <2>3, <2>4, <2>5 DEF OpeningInv, OpenedOnce
<1> QED BY <1>2, <1>3

\* Who holds the funding key holds the pool and the book, and commits first.
LEMMA CommitOpens ==
  ASSUME OpeningInv, NEW s \in Openers, Commit(s)
  PROVE  OpeningInv'
<1>1. OpeningTypeOK /\ NoOne \notin Openers
  BY OpeningAssumption DEF OpeningInv, OpenedOnce
<1>2. Passed(s) = Rows /\ inserting["funding"] = s /\ fundings = {}
  BY <1>1 DEF Commit, Passed, OpeningInv, OpenedOnce, Reached, Rows
<1>3. /\ inserting["pool"] = s /\ inserting["book"] = s /\ uses[s]["pool"] = s
      /\ inserting["platform"] = s \/ row["platform"] # NoOne
  BY <1>2 DEF OpeningInv, OpenedOnce, Reached, Rows
<1>4. /\ row' = [k \in Rows |-> IF inserting[k] = s THEN s ELSE row[k]]
      /\ inserting' = [k \in Rows |-> IF inserting[k] = s THEN NoOne ELSE inserting[k]]
      /\ fundings' = {[by |-> s, pool |-> s]}
      /\ Answer(s, "idle") /\ UNCHANGED <<clock, publishedAt, expiry, broken>>
  BY <1>2, <1>3 DEF Commit
<1>5. OpeningTypeOK'
  <2>1. step' \in [Openers -> Steps] /\ since' \in [Openers -> Nat]
    BY <1>1, <1>4 DEF OpeningTypeOK, Answer, GoTo, Steps
  <2>2. uses' \in [Openers -> [Rows -> Openers \cup {Granter, NoOne}]]
    BY <1>1, <1>4 DEF OpeningTypeOK, Answer, Unused
  <2>3. row' \in [Rows -> Openers \cup {Granter, NoOne}] /\ inserting' \in [Rows -> Openers \cup {NoOne}]
    BY <1>1, <1>4 DEF OpeningTypeOK
  <2>4. fundings' \subseteq [by: Openers, pool: Openers]
    BY <1>4
  <2> QED BY <1>1, <1>4, <2>1, <2>2, <2>3, <2>4 DEF OpeningTypeOK
<1>6. /\ \A k \in Rows : row'[k] # NoOne
      /\ row'["pool"] = s
  BY <1>1, <1>2, <1>3, <1>4 DEF Rows
<1>7. OpenedOnce' /\ row'["platform"] # NoOne
  <2>1. fundings' # {} /\ \A f \in fundings' : f = [by |-> s, pool |-> s]
    BY <1>4
  <2>2. \A k \in Rows \ {"platform"} : (row'[k] = NoOne) = (fundings' = {})
    BY <1>6, <2>1
  <2>3. \A f, g \in fundings' : f = g
    BY <2>1
  <2>4. \A f \in fundings' : f.pool = row'["pool"]
    BY <1>6, <2>1
  <2>5. ~broken'
    BY <1>4 DEF OpeningInv, OpenedOnce
  <2> QED BY <1>5, <1>6, <2>2, <2>3, <2>4, <2>5 DEF OpenedOnce, Rows
<1>8. \A k \in Rows : inserting'[k] # NoOne => row'[k] = NoOne
  BY <1>4 DEF OpeningInv
<1>9. ASSUME NEW t \in Openers PROVE Reached(t)'
  <2>1. CASE t = s
    BY <1>1, <1>4, <2>1 DEF Reached, Passed, Answer, GoTo, OpeningTypeOK, Rows
  <2>2. CASE t # s
    <3>1. Passed(t)' = Passed(t) /\ Passed(t) \subseteq Rows /\ step'[t] = step[t] /\ uses'[t] = uses[t]
      BY <1>1, <1>4, <2>2 DEF Passed, Answer, GoTo, OpeningTypeOK, Rows
    <3>2. \A k \in Rows : inserting'[k] = t <=> inserting[k] = t
      BY <1>1, <1>4, <2>2
    <3> QED BY <1>6, <3>1, <3>2 DEF OpeningInv, Reached, Rows
  <2> QED BY <2>1, <2>2
<1> QED BY <1>7, <1>8, <1>9 DEF OpeningInv

\* A 404, a failed call, a hit and a death leave the rows as they were.
LEMMA AnswerOpens ==
  ASSUME OpeningInv, NEW s \in Openers,
         (Find(s) /\ row["book"] # NoOne) \/ (Fetch(s) /\ Remembered(ProcessOf[s]))
           \/ HearNotFound(s) \/ FailCall(s) \/ Abort(s)
  PROVE  OpeningInv'
<1>1. OpeningTypeOK /\ NoOne \notin Openers
  BY OpeningAssumption DEF OpeningInv, OpenedOnce
<1>2. PICK what \in {"idle", "not_found"} : Answer(s, what)
  BY DEF Find, Fetch, HearNotFound, FailCall, Abort
<1>3. UNCHANGED <<clock, publishedAt, row, fundings, broken>>
  BY DEF Find, Fetch, HearNotFound, FailCall, Abort, tables
<1>4. inserting' = [k \in Rows |-> IF inserting[k] = s THEN NoOne ELSE inserting[k]]
  <2>1. CASE Abort(s)
    BY <2>1 DEF Abort
  <2>2. CASE ~Abort(s)
    <3>1. Passed(s) = {} /\ inserting' = inserting
      BY <2>2 DEF Find, Fetch, HearNotFound, FailCall, IsIdle, Passed, tables
    <3>2. \A k \in Rows : inserting[k] # s
      BY <3>1 DEF OpeningInv, Reached
    <3> QED BY <1>1, <3>1, <3>2 DEF OpeningTypeOK
  <2> QED BY <2>1, <2>2
<1>5. expiry' \in [Processes -> Nat]
  <2>1. clock + TTL \in Nat /\ ProcessOf[s] \in Processes
    <3>1. clock \in Nat
      BY <1>1 DEF OpeningTypeOK
    <3> QED BY <3>1, OpeningAssumption
  <2> QED BY <1>1, <2>1 DEF Find, Fetch, HearNotFound, FailCall, Abort, Remember, OpeningTypeOK
<1>6. OpeningTypeOK'
  BY <1>1, <1>2, <1>3, <1>4, <1>5 DEF OpeningTypeOK, Answer, GoTo, Unused, Steps, Rows
<1> QED BY <1>2, <1>3, <1>4, <1>6, LeavesOpen

\* The steps before the first insert, and the world's.
LEMMA LookOpens ==
  ASSUME OpeningInv, NEW s \in Openers,
         (Find(s) /\ row["book"] = NoOne) \/ (Fetch(s) /\ ~Remembered(ProcessOf[s]))
           \/ Serve(s) \/ HearTerms(s)
  PROVE  OpeningInv'
<1>1. OpeningTypeOK
  BY DEF OpeningInv, OpenedOnce
<1>2. /\ UNCHANGED <<tables, broken, uses, clock, publishedAt, expiry>>
      /\ \A t \in Openers \ {s} : step'[t] = step[t]
      /\ step[s] \in {"idle", "not_found", "missed", "asked", "told_terms"}
      /\ step'[s] \in {"missed", "asked", "told_404", "told_terms", "pool"}
  BY <1>1 DEF Find, Fetch, Serve, HearTerms, GoTo, IsIdle, OpeningTypeOK
<1>3. OpeningTypeOK'
  BY <1>1 DEF OpeningTypeOK, Find, Fetch, Serve, HearTerms, GoTo, tables, Steps, Rows
<1>4. \A t \in Openers : Passed(t)' = Passed(t) /\ (step[t] = "commit" <=> step'[t] = "commit")
  BY <1>2 DEF Passed
<1> QED BY <1>2, <1>3, <1>4, LooksOn

\* The publication, the clock and an eviction keep it.
LEMMA WorldOpens ==
  ASSUME OpeningInv, Publish \/ Tick \/ (\E p \in Processes : Evict(p)) \/ UNCHANGED opening
  PROVE  OpeningInv'
<1>1. OpeningTypeOK
  BY DEF OpeningInv, OpenedOnce
<1>2. UNCHANGED <<tables, broken, uses, step, since>>
  BY DEF Publish, Tick, Evict, opening, request
<1>3. OpeningTypeOK'
  <2>1. clock' \in Nat /\ publishedAt' \in Nat
    <3>1. clock \in Nat /\ publishedAt \in Nat
      BY <1>1 DEF OpeningTypeOK
    <3> QED BY <3>1 DEF Publish, Tick, Evict, opening
  <2>2. expiry' \in [Processes -> Nat]
    BY <1>1 DEF OpeningTypeOK, Publish, Tick, Evict, opening
  <2> QED BY <1>1, <1>2, <2>1, <2>2 DEF OpeningTypeOK, tables
<1>4. \A t \in Openers : Passed(t)' = Passed(t)
  BY <1>2 DEF Passed
<1> QED BY <1>2, <1>3, <1>4, LooksOn

\* A grant elsewhere keeps it.
LEMMA GrantOpens ==
  ASSUME OpeningInv, GrantElsewhere
  PROVE  OpeningInv'
<1>1. OpeningTypeOK /\ Granter # NoOne
  BY OpeningAssumption DEF OpeningInv, OpenedOnce
<1>2. /\ row'["platform"] = Granter /\ \A k \in Rows \ {"platform"} : row'[k] = row[k]
      /\ UNCHANGED <<inserting, fundings, uses, step, broken>>
      /\ inserting["platform"] = NoOne
  BY <1>1 DEF GrantElsewhere, OpeningTypeOK, Rows, request
<1>3. OpeningTypeOK'
  BY <1>1 DEF OpeningTypeOK, GrantElsewhere, Rows, request
<1>4. \A t \in Openers : Reached(t)'
  <2>1. ASSUME NEW t \in Openers PROVE Reached(t)'
    <3>1. Passed(t)' = Passed(t) /\ Passed(t) \subseteq Rows
      BY <1>2 DEF Passed, Rows
    <3> QED BY <1>1, <1>2, <3>1 DEF OpeningInv, Reached, Rows
  <2> QED BY <2>1
<1> QED BY <1>1, <1>2, <1>3, <1>4 DEF OpeningInv, OpenedOnce, Rows

\* Every step of an opening keeps its invariant.
LEMMA NextOpens == OpeningInv /\ [OpeningNext]_opening => OpeningInv'
<1>1. SUFFICES ASSUME OpeningInv, [OpeningNext]_opening PROVE OpeningInv'
  OBVIOUS
<1>2. ASSUME NEW s \in Openers, OpenerNext(s) PROVE OpeningInv'
  BY <1>1, <1>2, EnsureOpens, FundOpens, CommitOpens, AnswerOpens, LookOpens DEF OpenerNext
<1> QED BY <1>1, <1>2, WorldOpens, GrantOpens DEF OpeningNext

\* For any number of first touches in any number of replicas, dying anywhere:
\* the pool, the book and one funding of that pool are committed together, and
\* the replay of the funding never meets its own pending writes.
THEOREM OpensOnce == OpeningSpec => []OpenedOnce
<1>1. OpeningInv => OpenedOnce
  BY DEF OpeningInv
<1> QED BY <1>1, InitOpens, NextOpens, PTL DEF OpeningSpec

----------------------------------------------------------------------------
(* How long a 404 can outlive the publication *)

Calling == {"asked", "told_404", "told_terms"}

CallInv ==
  /\ OpeningTypeOK
  /\ clock >= 1 /\ publishedAt <= clock
  /\ \A s \in Openers : step[s] \in Calling => since[s] <= clock /\ clock <= since[s] + Timeout
  /\ \A s \in Openers : step[s] = "told_404" /\ publishedAt # 0 => since[s] <= publishedAt
  /\ \A p \in Processes :
       /\ expiry[p] <= clock + TTL
       /\ publishedAt # 0 => expiry[p] <= publishedAt + Timeout + TTL

\* What the clock and the times are.
LEMMA Times ==
  ASSUME OpeningTypeOK
  PROVE  /\ clock \in Nat /\ publishedAt \in Nat /\ TTL \in Nat /\ Timeout \in Nat
         /\ \A s \in Openers : since[s] \in Nat
         /\ \A p \in Processes : expiry[p] \in Nat
<1>1. since \in [Openers -> Nat] /\ expiry \in [Processes -> Nat]
  BY DEF OpeningTypeOK
<1> QED BY <1>1, OpeningAssumption DEF OpeningTypeOK

\* What is known of each call holds at first, and is kept.
LEMMA InitCalls == InitOpening => CallInv
<1>1. SUFFICES ASSUME InitOpening PROVE CallInv
  OBVIOUS
<1>2. OpeningTypeOK
  BY <1>1, InitOpens DEF OpeningInv, OpenedOnce
<1> QED BY <1>1, <1>2, OpeningAssumption DEF InitOpening, CallInv, Calling

LEMMA NextCalls == OpeningInv /\ CallInv /\ [OpeningNext]_opening => CallInv'
<1>1. SUFFICES ASSUME OpeningInv, CallInv, [OpeningNext]_opening PROVE CallInv'
  OBVIOUS
<1>2. OpeningTypeOK /\ OpeningTypeOK'
  BY <1>1, NextOpens DEF OpeningInv, OpenedOnce
<1>3. /\ clock \in Nat /\ publishedAt \in Nat /\ TTL \in Nat /\ Timeout \in Nat
      /\ \A s \in Openers : since[s] \in Nat
      /\ \A p \in Processes : expiry[p] \in Nat
  BY <1>2, Times
<1>4. ASSUME NEW s \in Openers, OpenerNext(s) PROVE CallInv'
  <2>1. UNCHANGED <<clock, publishedAt>> /\ ProcessOf[s] \in Processes
    BY <1>4, OpeningAssumption
       DEF OpenerNext, Find, Fetch, Serve, HearNotFound, HearTerms, FailCall, Ensure, Fund, Commit, Abort
  <2>2. \A t \in Openers \ {s} : step'[t] = step[t] /\ since'[t] = since[t]
    BY <1>2, <1>4
       DEF OpenerNext, Find, Fetch, Serve, HearNotFound, HearTerms, FailCall, Ensure, Fund, Commit, Abort,
           Answer, GoTo, OpeningTypeOK
  <2>3. /\ step'[s] \in Calling => (step[s] \in Calling /\ since'[s] = since[s]) \/ since'[s] = clock
        /\ step'[s] = "told_404" => publishedAt = 0
    BY <1>2, <1>4
       DEF OpenerNext, Find, Fetch, Serve, HearNotFound, HearTerms, FailCall, Ensure, Fund, Commit, Abort,
           Answer, GoTo, OpeningTypeOK, After, Calling, Rows
  <2>4. \A p \in Processes :
          \/ expiry'[p] = expiry[p]
          \/ step[s] = "told_404" /\ expiry'[p] = clock + TTL
    BY <1>2, <1>4, <2>1
       DEF OpenerNext, Find, Fetch, Serve, HearNotFound, HearTerms, FailCall, Ensure, Fund, Commit, Abort,
           Remember, OpeningTypeOK
  <2>5. step[s] = "told_404" /\ publishedAt # 0 => clock + TTL <= publishedAt + Timeout + TTL
    <3>1. step[s] = "told_404" /\ publishedAt # 0 => since[s] <= publishedAt /\ clock <= since[s] + Timeout
      BY <1>1 DEF CallInv, Calling
    <3> QED BY <1>3, <3>1
  <2>6. \A t \in Openers : step'[t] \in Calling => since'[t] <= clock /\ clock <= since'[t] + Timeout
    <3>1. \A t \in Openers : step[t] \in Calling => since[t] <= clock /\ clock <= since[t] + Timeout
      BY <1>1 DEF CallInv
    <3> QED BY <1>3, <2>2, <2>3, <3>1
  <2>7. \A t \in Openers : step'[t] = "told_404" /\ publishedAt # 0 => since'[t] <= publishedAt
    BY <1>1, <2>2, <2>3 DEF CallInv
  <2>8. \A p \in Processes :
          /\ expiry'[p] <= clock + TTL
          /\ publishedAt # 0 => expiry'[p] <= publishedAt + Timeout + TTL
    <3>1. \A p \in Processes :
            expiry[p] <= clock + TTL /\ (publishedAt # 0 => expiry[p] <= publishedAt + Timeout + TTL)
      BY <1>1 DEF CallInv
    <3> QED BY <1>3, <2>4, <2>5, <3>1
  <2> QED BY <1>1, <1>2, <2>1, <2>6, <2>7, <2>8 DEF CallInv
<1>5. CASE UNCHANGED request
  <2>1. UNCHANGED <<step, since>>
    BY <1>5 DEF request
  <2>2. \A s \in Openers : step[s] \in Calling => since[s] <= clock /\ clock <= since[s] + Timeout
    BY <1>1 DEF CallInv
  <2>3. \A p \in Processes :
          expiry[p] <= clock + TTL /\ (publishedAt # 0 => expiry[p] <= publishedAt + Timeout + TTL)
    BY <1>1 DEF CallInv
  <2>4. clock >= 1 /\ publishedAt <= clock
    BY <1>1 DEF CallInv
  <2>5. \A s \in Openers : step[s] = "told_404" /\ publishedAt # 0 => since[s] <= publishedAt
    BY <1>1 DEF CallInv
  <2>6. CASE Publish
    <3>1. publishedAt = 0 /\ publishedAt' = clock /\ UNCHANGED <<clock, expiry>>
      BY <2>6 DEF Publish
    <3>2. \A s \in Openers : step[s] = "told_404" => since[s] <= clock
      BY <2>2 DEF Calling
    <3>3. \A p \in Processes : expiry[p] <= clock + Timeout + TTL
      BY <1>3, <2>3
    <3> QED BY <1>2, <2>1, <2>2, <2>3, <2>4, <3>1, <3>2, <3>3, <1>3 DEF CallInv
  <2>7. CASE Tick
    <3>1. clock' = clock + 1 /\ UNCHANGED <<publishedAt, expiry>>
      BY <2>7 DEF Tick
    <3>2. \A s \in Openers : step[s] \in Calling => since[s] <= clock + 1 /\ clock + 1 <= since[s] + Timeout
      BY <1>3, <2>2, <2>7 DEF Tick, Calling
    <3>3. \A p \in Processes : expiry[p] <= (clock + 1) + TTL
      BY <1>3, <2>3
    <3>4. clock + 1 >= 1 /\ publishedAt <= clock + 1
      BY <1>3, <2>4
    <3> QED BY <1>2, <2>1, <2>3, <2>5, <3>1, <3>2, <3>3, <3>4 DEF CallInv
  <2>8. CASE \E p \in Processes : Evict(p)
    <3>1. UNCHANGED <<clock, publishedAt>>
      BY <2>8 DEF Evict
    <3>2. \A a \in Processes : expiry'[a] = expiry[a] \/ expiry'[a] = 0
      BY <1>2, <2>8 DEF Evict, OpeningTypeOK
    <3>3. \A p \in Processes :
            expiry'[p] <= clock + TTL /\ (publishedAt # 0 => expiry'[p] <= publishedAt + Timeout + TTL)
      BY <1>3, <2>3, <3>2
    <3> QED BY <1>2, <2>1, <2>2, <2>4, <2>5, <3>1, <3>3 DEF CallInv
  <2>9. CASE GrantElsewhere \/ UNCHANGED opening
    <3>1. UNCHANGED <<clock, publishedAt, expiry>>
      BY <2>9 DEF GrantElsewhere, opening
    <3> QED BY <1>2, <2>1, <2>2, <2>3, <2>4, <2>5, <3>1 DEF CallInv
  <2>10. CASE \E s \in Openers : OpenerNext(s)
    BY <1>4, <2>10
  <2> QED BY <1>1, <2>6, <2>7, <2>8, <2>9, <2>10 DEF OpeningNext
<1>6. (\E s \in Openers : OpenerNext(s)) \/ UNCHANGED request
  BY <1>1 DEF OpeningNext, Publish, Tick, Evict, GrantElsewhere, opening, request
<1> QED BY <1>4, <1>5, <1>6

\* Only a call that was answered 404 and a remembered 404 answer not found.
LEMMA Refuses ==
  ASSUME OpeningTypeOK, OpeningNext, NEW s \in Openers, step[s] # "not_found", step'[s] = "not_found"
  PROVE  Remembered(ProcessOf[s]) \/ HearNotFound(s)
<1>1. PICK t \in Openers : OpenerNext(t)
  BY DEF OpeningNext, Publish, Tick, Evict, GrantElsewhere, request
<1>2. t = s
  BY <1>1
     DEF OpenerNext, Find, Fetch, Serve, HearNotFound, HearTerms, FailCall, Ensure, Fund, Commit, Abort,
         Answer, GoTo, OpeningTypeOK
<1>3. CASE Find(s) \/ Serve(s) \/ HearTerms(s) \/ FailCall(s) \/ Commit(s) \/ Abort(s)
  BY <1>3 DEF Find, Serve, HearTerms, FailCall, Commit, Abort, Answer, GoTo, OpeningTypeOK
<1>4. CASE Fund(s)
  BY <1>4 DEF Fund, Answer, GoTo, OpeningTypeOK
<1>5. CASE \E k \in Rows : Ensure(s, k)
  BY <1>5 DEF Ensure, GoTo, After, OpeningTypeOK, Rows
<1>6. CASE Fetch(s)
  BY <1>6 DEF Fetch, GoTo, OpeningTypeOK
<1> QED BY <1>1, <1>2, <1>3, <1>4, <1>5, <1>6 DEF OpenerNext

\* Whatever the replicas remember, a published market is answered as not found
\* for less than one call and one remembered 404 after its publication.
THEOREM HidesBriefly ==
  ASSUME TTL # 0
  PROVE  OpeningSpec => HiddenBriefly
<1> DEFINE Hides ==
      \A s \in Openers :
        step[s] # "not_found" /\ step'[s] = "not_found" /\ publishedAt # 0 =>
          clock < publishedAt + Timeout + TTL
<1>1. CallInv /\ [OpeningNext]_opening => [Hides]_opening
  <2>1. SUFFICES ASSUME CallInv, OpeningNext, NEW s \in Openers, step[s] # "not_found",
                        step'[s] = "not_found", publishedAt # 0
                 PROVE  clock < publishedAt + Timeout + TTL
    OBVIOUS
  <2>2. /\ clock \in Nat /\ publishedAt \in Nat /\ TTL \in Nat /\ Timeout \in Nat /\ since[s] \in Nat
        /\ ProcessOf[s] \in Processes /\ expiry[ProcessOf[s]] \in Nat
    BY <2>1, Times, OpeningAssumption DEF CallInv
  <2>3. CASE Remembered(ProcessOf[s])
    <3>1. expiry[ProcessOf[s]] <= publishedAt + Timeout + TTL /\ expiry[ProcessOf[s]] > clock
      BY <2>1, <2>2, <2>3 DEF Remembered, CallInv
    <3> QED BY <2>2, <3>1
  <2>4. CASE HearNotFound(s)
    <3>1. since[s] <= publishedAt /\ clock <= since[s] + Timeout
      BY <2>1, <2>4 DEF HearNotFound, CallInv, Calling
    <3> QED BY <2>2, <3>1
  <2> QED BY <2>1, <2>3, <2>4, Refuses DEF CallInv
<1>2. OpeningSpec => []CallInv
  BY InitOpens, NextOpens, InitCalls, NextCalls, PTL DEF OpeningSpec
<1> QED BY <1>1, <1>2, PTL DEF OpeningSpec, HiddenBriefly

----------------------------------------------------------------------------
(* Prices *)

\* The curve has a cost at every lead.
EveryLead == DOMAIN LogCost = Int

\* Grains in a share.
Scale == Share * Grain

\* Each share costs between nothing and what it can pay.
LEMMA CurveClimbs ==
  ASSUME EveryLead, NEW d \in Int, NEW n \in Nat
  PROVE  LogCost[d + n] \in Int /\ LogCost[d + n] - LogCost[d] \in 0 .. Scale * n /\ Scale * n \in Int
<1>1. Scale \in Nat
  BY ScaleAssumption DEF Scale
<1>2. \A e \in Int : LogCost[e] \in Int /\ LogCost[e + 1] - LogCost[e] \in 0 .. Scale
  BY LogCostAssumption DEF EveryLead, Scale
<1> QED BY <1>1, <1>2, StepsAddUp

\* What a movement of n shares takes the AMM's cost up by, a sell's down by.
LEMMA CostSigned ==
  ASSUME EveryLead, NEW o \in Outcomes, NEW side \in Sides, NEW n \in Nat, NEW d \in Int
  PROVE  /\ CostOf(o, Signed(side, n), d) \in Int
         /\ side = "buy" => CostOf(o, Signed(side, n), d) >= 0
         /\ side = "sell" => CostOf(o, Signed(side, n), d) <= 0
<1>1. /\ d - n \in Int /\ (d - n) + n = d
      /\ LogCost[d + n] \in Int /\ LogCost[d + n] - LogCost[d] \in 0 .. Scale * n /\ Scale * n \in Int
      /\ LogCost[d] - LogCost[d - n] \in 0 .. Scale * n
  <2>1. d - n \in Int /\ (d - n) + n = d
    OBVIOUS
  <2>2. LogCost[(d - n) + n] - LogCost[d - n] \in 0 .. Scale * n
    BY <2>1, CurveClimbs
  <2> QED BY <2>1, <2>2, CurveClimbs
<1>2. LogCost[d] \in Int /\ LogCost[d - n] \in Int
  BY <1>1, LogCostAssumption DEF EveryLead
<1>3. d + (-n) = d - n /\ d - (-n) = d + n /\ Scale * (-n) = -(Scale * n) /\ Scale \in Nat
  BY ScaleAssumption DEF Scale
<1>4. ASSUME side = "buy"
      PROVE CostOf(o, Signed(side, n), d) \in Int /\ CostOf(o, Signed(side, n), d) >= 0
  <2>1. CostOf(o, Signed(side, n), d)
        = IF o = 0 THEN LogCost[d + n] - LogCost[d] ELSE Scale * n + LogCost[d - n] - LogCost[d]
    BY <1>4 DEF CostOf, Signed, Scale
  <2> QED BY <1>1, <1>2, <2>1
<1>5. ASSUME side = "sell"
      PROVE CostOf(o, Signed(side, n), d) \in Int /\ CostOf(o, Signed(side, n), d) <= 0
  <2>1. CostOf(o, Signed(side, n), d)
        = IF o = 0 THEN LogCost[d - n] - LogCost[d] ELSE -(Scale * n) + LogCost[d + n] - LogCost[d]
    <3>1. Signed(side, n) = -n
      BY <1>5 DEF Signed
    <3> QED BY <1>3, <3>1 DEF CostOf, Scale
  <2> QED BY <1>1, <1>2, <2>1
<1> QED BY <1>4, <1>5 DEF Sides

\* A price is never below the cost it is charged for, nor above the proceeds.
LEMMA PriceCovers ==
  ASSUME EveryLead, NEW o \in Outcomes, NEW side \in Sides, NEW n \in Nat, NEW d \in Int
  PROVE  /\ Price(o, side, n, d) \in Nat
         /\ side = "buy" => Grain * Price(o, side, n, d) >= CostOf(o, Signed(side, n), d)
         /\ side = "sell" => Grain * Price(o, side, n, d) <= -CostOf(o, Signed(side, n), d)
<1> DEFINE raw == CostOf(o, Signed(side, n), d)
<1>1. raw \in Int /\ (side = "buy" => raw >= 0) /\ (side = "sell" => raw <= 0)
  BY CostSigned
<1>2. Price(o, side, n, d) = Quantized(side, IF raw < 0 THEN -raw ELSE raw)
  BY DEF Price
<1> HIDE DEF raw
<1>3. Grain \in Nat \ {0}
  BY ScaleAssumption
<1>4. CASE side = "buy"
  <2>1. Price(o, side, n, d) = -((-raw) \div Grain)
    BY <1>1, <1>2, <1>4 DEF Quantized
  <2>2. -raw \in Int
    BY <1>1
  <2>3. (-raw) \div Grain \in Int /\ Grain * ((-raw) \div Grain) <= -raw
          /\ -raw < Grain * ((-raw) \div Grain) + Grain
    BY <1>3, <2>2, DivTells
  <2> QED BY <1>1, <1>3, <1>4, <2>1, <2>3 DEF raw
<1>5. CASE side = "sell"
  <2>1. Price(o, side, n, d) = (-raw) \div Grain
    BY <1>1, <1>2, <1>5 DEF Quantized
  <2>2. -raw \in Int
    BY <1>1
  <2>3. (-raw) \div Grain \in Int /\ Grain * ((-raw) \div Grain) <= -raw
          /\ -raw < Grain * ((-raw) \div Grain) + Grain
    BY <1>3, <2>2, DivTells
  <2> QED BY <1>1, <1>3, <1>5, <2>1, <2>3 DEF raw
<1> QED BY <1>4, <1>5 DEF Sides

\* The cost function, in grains.
CostAt(a, b) == Scale * b + LogCost[a - b]

\* What a movement costs is what it moves the cost function by (C(q + delta) -
\* C(q)).
LEMMA CostMoves ==
  ASSUME EveryLead, NEW o \in Outcomes, NEW n \in Int, NEW a \in Int, NEW b \in Int
  PROVE  /\ CostAt(a, b) \in Int
         /\ CostOf(o, n, a - b) = IF o = 0 THEN CostAt(a + n, b) - CostAt(a, b)
                                           ELSE CostAt(a, b + n) - CostAt(a, b)
<1>1. Scale \in Nat /\ Scale * b \in Int /\ Scale * (b + n) = Scale * b + Scale * n /\ Scale * n \in Int
  BY ScaleAssumption DEF Scale
<1>2. (a + n) - b = (a - b) + n /\ a - (b + n) = (a - b) - n
  OBVIOUS
<1>3. \A d \in Int : LogCost[d] \in Int
  BY LogCostAssumption DEF EveryLead
<1>4. LogCost[a - b] \in Int /\ LogCost[(a - b) + n] \in Int /\ LogCost[(a - b) - n] \in Int
  BY <1>3
<1>5. CostOf(o, n, a - b) = IF o = 0 THEN LogCost[(a - b) + n] - LogCost[a - b]
                            ELSE Scale * n + LogCost[(a - b) - n] - LogCost[a - b]
  BY DEF CostOf, Scale
<1>6. /\ CostAt(a + n, b) = Scale * b + LogCost[(a - b) + n]
      /\ CostAt(a, b + n) = Scale * b + Scale * n + LogCost[(a - b) - n]
      /\ CostAt(a, b) = Scale * b + LogCost[a - b]
  BY <1>1, <1>2 DEF CostAt
<1> HIDE DEF Scale
<1> QED BY <1>1, <1>4, <1>5, <1>6

\* The cost function falls with neither outcome's shares.
LEMMA CostClimbs ==
  ASSUME EveryLead, NEW a \in Int, NEW b \in Int, NEW m \in Nat, NEW n \in Nat
  PROVE  CostAt(a, b) <= CostAt(a + m, b + n) /\ CostAt(a, b) \in Int /\ CostAt(a + m, b + n) \in Int
<1>1. CostAt(a, b) <= CostAt(a + m, b) /\ CostAt(a + m, b) \in Int /\ CostAt(a, b) \in Int
  <2>1. (a + m) - b = (a - b) + m /\ a - b \in Int
    OBVIOUS
  <2>2. LogCost[(a - b) + m] - LogCost[a - b] \in 0..Scale * m /\ LogCost[(a - b) + m] \in Int
    BY <2>1, CurveClimbs
  <2>3. LogCost[a - b] \in Int /\ Scale * b \in Int
    BY <2>1, LogCostAssumption, ScaleAssumption DEF EveryLead, Scale
  <2> QED BY <2>1, <2>2, <2>3 DEF CostAt
<1>2. CostAt(a + m, b) <= CostAt(a + m, b + n) /\ CostAt(a + m, b + n) \in Int
  <2> DEFINE e == (a + m) - (b + n)
  <2>1. e + n = (a + m) - b /\ e \in Int
    OBVIOUS
  <2>2. LogCost[e + n] - LogCost[e] \in 0..Scale * n /\ LogCost[e + n] \in Int /\ Scale * n \in Int
    BY <2>1, CurveClimbs
  <2>3. LogCost[e] \in Int /\ Scale * b \in Int /\ Scale * (b + n) = Scale * b + Scale * n
    BY <2>1, LogCostAssumption, ScaleAssumption, Distributes DEF EveryLead, Scale
  <2>4. CostAt(a + m, b + n) = Scale * b + Scale * n + LogCost[e] /\ CostAt(a + m, b) = Scale * b + LogCost[e + n]
    BY <2>1, <2>3 DEF CostAt
  <2> QED BY <2>2, <2>3, <2>4
<1> QED BY <1>1, <1>2

\* The more of an outcome is out, the less shares of the other one cost.
LEMMA OtherCheapens ==
  ASSUME EveryLead, NEW a \in Int, NEW b \in Int, NEW m \in Nat, NEW n \in Nat
  PROVE  CostAt(a + m, b + n) - CostAt(a, b + n) <= CostAt(a + m, b) - CostAt(a, b)
<1> DEFINE e == a - (b + n)
<1>1. e \in Int /\ e + n = a - b /\ (e + n) + m = (a + m) - b /\ e + m = (a + m) - (b + n)
  OBVIOUS
<1>2. \A d \in Int : LogCost[d] \in Int /\ LogCost[d] - LogCost[d - 1] <= LogCost[d + 1] - LogCost[d]
  BY LogCostAssumption, ConvexAssumption DEF EveryLead
<1>3. LogCost[e + m] - LogCost[e] <= LogCost[(e + n) + m] - LogCost[e + n]
  BY <1>1, <1>2, StepsWiden
<1>4. LogCost[e] \in Int /\ LogCost[e + n] \in Int /\ LogCost[e + m] \in Int /\ LogCost[(e + n) + m] \in Int
  BY <1>1, <1>2
<1>5. Scale * (b + n) \in Int /\ Scale * b \in Int
  BY ScaleAssumption, Distributes DEF Scale
<1>6. /\ CostAt(a + m, b + n) = Scale * (b + n) + LogCost[e + m] /\ CostAt(a, b + n) = Scale * (b + n) + LogCost[e]
      /\ CostAt(a + m, b) = Scale * b + LogCost[(e + n) + m] /\ CostAt(a, b) = Scale * b + LogCost[e + n]
  BY <1>1 DEF CostAt
<1> HIDE DEF e
<1> QED BY <1>3, <1>4, <1>5, <1>6

----------------------------------------------------------------------------
(* The least and the greatest of two *)

\* The least and the greatest of two numbers.
LEMMA MinOfTwo ==
  ASSUME NEW a \in Int, NEW b \in Int
  PROVE  Min({a, b}) = IF a <= b THEN a ELSE b
<1> DEFINE m == IF a <= b THEN a ELSE b
<1>1. m \in {a, b} /\ \A y \in {a, b} : m <= y
  OBVIOUS
<1>2. \A x \in {a, b} : (\A y \in {a, b} : x <= y) => x = m
  OBVIOUS
<1>3. Min({a, b}) \in {a, b} /\ \A y \in {a, b} : Min({a, b}) <= y
  <2> DEFINE P(x) == x \in {a, b} /\ \A y \in {a, b} : x <= y
  <2>1. P(m)
    BY <1>1
  <2>2. Min({a, b}) = CHOOSE x : P(x)
    BY Zenon DEF Min
  <2> HIDE DEF P
  <2>3. P(Min({a, b}))
    BY <2>1, <2>2
  <2> QED BY <2>3 DEF P
<1> QED BY <1>2, <1>3

LEMMA MaxOfTwo ==
  ASSUME NEW a \in Int, NEW b \in Int
  PROVE  Max({a, b}) = IF a >= b THEN a ELSE b
<1> DEFINE m == IF a >= b THEN a ELSE b
<1>1. m \in {a, b} /\ \A y \in {a, b} : m >= y
  OBVIOUS
<1>2. \A x \in {a, b} : (\A y \in {a, b} : x >= y) => x = m
  OBVIOUS
<1>3. Max({a, b}) \in {a, b} /\ \A y \in {a, b} : Max({a, b}) >= y
  <2> DEFINE P(x) == x \in {a, b} /\ \A y \in {a, b} : x >= y
  <2>1. P(m)
    BY <1>1
  <2>2. Max({a, b}) = CHOOSE x : P(x)
    BY Zenon DEF Max
  <2> HIDE DEF P
  <2>3. P(Max({a, b}))
    BY <2>1, <2>2
  <2> QED BY <2>3 DEF P
<1> QED BY <1>2, <1>3

----------------------------------------------------------------------------
(* The replay, trade by trade *)

Replays(s, g, n) == g = [i \in 0..n |-> IF i = 0 THEN NoLots ELSE ReplayTrade(g[i - 1], s[i])]

\* There is such a function for every number of trades, and it depends on the
\* trades alone.
LEMMA ReplayExists ==
  ASSUME NEW s, NEW n \in Nat
  PROVE  \E g : Replays(s, g, n)
<1> DEFINE T == {k \in Nat : \E g : Replays(s, g, k)}
<1>1. 0 \in T
  <2> DEFINE g == [i \in 0..0 |-> NoLots]
  <2>1. Replays(s, g, 0)
    BY DEF Replays
  <2> QED BY <2>1
<1>2. ASSUME NEW k \in T PROVE k + 1 \in T
  <2>1. k \in Nat
    OBVIOUS
  <2>2. PICK f : Replays(s, f, k)
    OBVIOUS
  <2> DEFINE g == [i \in 0..k + 1 |-> IF i \in 0..k THEN f[i] ELSE ReplayTrade(f[k], s[k + 1])]
  <2>3. \A i \in 0..k : g[i] = f[i] /\ f[i] = IF i = 0 THEN NoLots ELSE ReplayTrade(f[i - 1], s[i])
    BY <2>1, <2>2 DEF Replays
  <2>4. g[k + 1] = ReplayTrade(f[k], s[k + 1]) /\ k \in 0..k /\ (k + 1) - 1 = k
    BY <2>1
  <2>5. ASSUME NEW i \in 0..k + 1
        PROVE  g[i] = IF i = 0 THEN NoLots ELSE ReplayTrade(g[i - 1], s[i])
    <3>1. CASE i \in 0..k
      <4>1. i # 0 => i - 1 \in 0..k
        BY <2>1, <3>1
      <4> HIDE DEF g
      <4> QED BY <2>3, <3>1, <4>1
    <3>2. CASE i = k + 1
      <4> HIDE DEF g
      <4> QED BY <2>1, <2>3, <2>4, <3>2
    <3> QED BY <2>1, <3>1, <3>2
  <2>6. Replays(s, g, k + 1)
    <3>1. g = [i \in 0..k + 1 |-> g[i]]
      OBVIOUS
    <3> HIDE DEF g
    <3> QED BY <2>5, <3>1 DEF Replays
  <2> QED BY <2>1, <2>6
<1>3. n \in T
  <2> HIDE DEF T
  <2>1. \A k \in 0..n : k \in T
    BY <1>1, <1>2, Climbs
  <2> QED BY <2>1
<1> QED BY <1>3

\* t starts as s does.
Starts(s, m, t) == \A i \in 1..m : s[i] = t[i]

LEMMA ReplaysAgree ==
  ASSUME NEW s, NEW t, NEW f, NEW g, NEW m \in Nat, NEW n \in Nat, m <= n,
         Replays(s, f, m), Replays(t, g, n), Starts(s, m, t)
  PROVE  f[m] = g[m]
<1> DEFINE T == {i \in Nat : i <= m => f[i] = g[i]}
<1>1. /\ \A i \in 0..m : f[i] = IF i = 0 THEN NoLots ELSE ReplayTrade(f[i - 1], s[i])
      /\ \A i \in 0..n : g[i] = IF i = 0 THEN NoLots ELSE ReplayTrade(g[i - 1], t[i])
  BY DEF Replays
<1>2. 0 \in T
  BY <1>1
<1>3. ASSUME NEW i \in T PROVE i + 1 \in T
  <2>1. CASE i + 1 <= m
    <3>1. i + 1 \in 0..m /\ i + 1 \in 0..n /\ i + 1 \in 1..m /\ i + 1 # 0 /\ (i + 1) - 1 = i /\ f[i] = g[i]
      BY <2>1
    <3>2. f[i + 1] = ReplayTrade(f[i], s[i + 1]) /\ g[i + 1] = ReplayTrade(g[i], t[i + 1])
      BY <1>1, <3>1
    <3> QED BY <3>1, <3>2 DEF Starts
  <2> QED BY <2>1
<1>4. m \in T
  <2> HIDE DEF T
  <2>1. \A k \in 0..m : k \in T
    BY <1>2, <1>3, Climbs
  <2> QED BY <2>1
<1> QED BY <1>4

\* lot_replay_of is one.
LEMMA ReplayIs ==
  ASSUME NEW s, Len(s) \in Nat
  PROVE  \E g : Replays(s, g, Len(s)) /\ ReplayOf(s) = g[Len(s)]
<1> DEFINE G == CHOOSE g : Replays(s, g, Len(s))
<1>1. ReplayOf(s) = G[Len(s)]
  BY Zenon DEF ReplayOf, Replays
<1>2. Replays(s, G, Len(s))
  BY ReplayExists
<1> QED BY <1>1, <1>2

\* No trade leaves no lots, and one trade more is one more step of the replay.
LEMMA ReplayStarts == ReplayOf(<<>>) = NoLots
<1>1. Len(<<>>) = 0
  OBVIOUS
<1>2. PICK g : Replays(<<>>, g, Len(<<>>)) /\ ReplayOf(<<>>) = g[Len(<<>>)]
  BY <1>1, ReplayIs
<1> QED BY <1>1, <1>2 DEF Replays

LEMMA ReplayGrows ==
  ASSUME NEW S, NEW s \in Seq(S), NEW t \in S
  PROVE  ReplayOf(Append(s, t)) = ReplayTrade(ReplayOf(s), t)
<1> DEFINE n == Len(s)  r == Append(s, t)
<1>1. n \in Nat /\ Len(r) = n + 1 /\ r[n + 1] = t /\ \A i \in 1..n : s[i] = r[i]
  OBVIOUS
<1> HIDE DEF n, r
<1>2. PICK f : Replays(s, f, n) /\ ReplayOf(s) = f[n]
  BY <1>1, ReplayIs DEF n
<1>3. PICK g : Replays(r, g, n + 1) /\ ReplayOf(r) = g[n + 1]
  <2>1. Len(r) \in Nat
    BY <1>1
  <2>2. PICK g : Replays(r, g, Len(r)) /\ ReplayOf(r) = g[Len(r)]
    BY <2>1, ReplayIs
  <2> QED BY <1>1, <2>2
<1>4. f[n] = g[n]
  <2>1. PICK m : m = n + 1
    OBVIOUS
  <2>2. n \in Nat /\ m \in Nat /\ n <= m
    BY <1>1, <2>1
  <2>3. Replays(s, f, n) /\ Replays(r, g, m) /\ Starts(s, n, r)
    BY <1>1, <1>2, <1>3, <2>1 DEF Starts
  <2> QED BY <2>2, <2>3, ReplaysAgree
<1>5. g[n + 1] = ReplayTrade(g[n], r[n + 1])
  <2>1. n + 1 \in 0..n + 1 /\ n + 1 # 0 /\ (n + 1) - 1 = n
    BY <1>1
  <2> QED BY <1>3, <2>1 DEF Replays
<1> QED BY <1>1, <1>2, <1>3, <1>4, <1>5 DEF r

----------------------------------------------------------------------------
(* Stacks of lots *)

Lot == [bought: Nat \ {0}, charged: Nat, before: [Outcomes -> Int], left: Nat]

\* The shares in the oldest i lots.
Below(lots, i) == SharesIn(lots, 1..i)

\* The shares in some lots are a sum of the Sums module.
LEMMA SharesAre ==
  ASSUME NEW lots \in Seq(Lot), NEW P \in SUBSET (1..Len(lots))
  PROVE  SharesIn(lots, P) = SumFunctionOnSet([j \in 1..Len(lots) |-> lots[j].left], P)
<1> DEFINE F == [j \in P |-> lots[j].left]  G == [j \in 1..Len(lots) |-> lots[j].left]
<1>1. IsFiniteSet(P)
  <2>1. IsFiniteSet(1..Len(lots))
    BY FS_Interval
  <2> QED BY <2>1, FS_Subset
<1>2. SharesIn(lots, P) = SumFunctionOnSet(F, P)
  BY DEF SharesIn, SumFunction
<1>3. \A j \in P : F[j] = G[j]
  OBVIOUS
<1> HIDE DEF F, G
<1>4. SumFunctionOnSet(F, P) = SumFunctionOnSet(G, P)
  BY <1>1, <1>3, SumSame
<1> QED BY <1>2, <1>4 DEF G

\* The shares in the oldest lots grow lot by lot.
LEMMA BelowUnrolls ==
  ASSUME NEW lots \in Seq(Lot), NEW i \in 0..Len(lots)
  PROVE  /\ Below(lots, 0) = 0 /\ Below(lots, i) \in Nat
         /\ i < Len(lots) => Below(lots, i + 1) = Below(lots, i) + lots[i + 1].left /\ lots[i + 1].left \in Nat
<1> DEFINE G == [j \in 1..Len(lots) |-> lots[j].left]
<1>1. \A j \in 1..Len(lots) : G[j] \in Nat /\ G[j] = lots[j].left
  <2>1. \A j \in 1..Len(lots) : lots[j] \in Lot
    OBVIOUS
  <2> QED BY <2>1 DEF Lot
<1>2. \A k \in 0..Len(lots) : Below(lots, k) = SumFunctionOnSet(G, 1..k)
  <2> SUFFICES ASSUME NEW k \in 0..Len(lots) PROVE Below(lots, k) = SumFunctionOnSet(G, 1..k)
    OBVIOUS
  <2>1. 1..k \in SUBSET (1..Len(lots))
    OBVIOUS
  <2> QED BY <2>1, SharesAre DEF Below
<1> HIDE DEF G
<1>3. Len(lots) \in Nat /\ \A j \in 1..Len(lots) : G[j] \in Int
  BY <1>1
<1>4. /\ SumFunctionOnSet(G, 1..0) = 0
      /\ i < Len(lots) => SumFunctionOnSet(G, 1..i + 1) = SumFunctionOnSet(G, 1..i) + G[i + 1]
  BY <1>3, SumsUnroll
<1>5. SumFunctionOnSet(G, 1..i) \in Nat
  <2>1. IsFiniteSet(1..i) /\ \A j \in 1..i : G[j] \in Nat
    BY <1>1, FS_Interval
  <2> QED BY <2>1, SumNat
<1>6. 0 \in 0..Len(lots) /\ (i < Len(lots) => i + 1 \in 0..Len(lots) /\ i + 1 \in 1..Len(lots))
  OBVIOUS
<1> QED BY <1>1, <1>2, <1>4, <1>5, <1>6

LEMMA BelowClimbs ==
  ASSUME NEW lots \in Seq(Lot), NEW i \in 0..Len(lots)
  PROVE  Below(lots, i) <= Below(lots, Len(lots)) /\ Below(lots, Len(lots)) \in Nat
<1> DEFINE N == Len(lots)
           T == {k \in Nat : i + k <= N => Below(lots, i) <= Below(lots, i + k)}
<1>1. N \in Nat
  OBVIOUS
<1>2. \A j \in 0..N : /\ Below(lots, j) \in Nat
                      /\ j < N => Below(lots, j + 1) = Below(lots, j) + lots[j + 1].left /\ lots[j + 1].left \in Nat
  BY BelowUnrolls
<1> HIDE DEF N
<1>3. 0 \in T
  <2>1. i + 0 = i /\ i \in 0..N
    BY <1>1 DEF N
  <2> QED BY <1>2, <2>1
<1>4. ASSUME NEW k \in T PROVE k + 1 \in T
  <2>1. CASE i + (k + 1) <= N
    <3>1. i + k \in 0..N /\ i + k < N /\ i + (k + 1) = (i + k) + 1 /\ i \in 0..N /\ i + k <= N
      BY <1>1, <2>1 DEF N
    <3>2. Below(lots, i) <= Below(lots, i + k)
      BY <3>1
    <3>3. Below(lots, (i + k) + 1) = Below(lots, i + k) + lots[(i + k) + 1].left /\ lots[(i + k) + 1].left \in Nat
      BY <1>2, <3>1
    <3>4. Below(lots, i) \in Nat /\ Below(lots, i + k) \in Nat
      BY <1>2, <3>1
    <3> QED BY <3>1, <3>2, <3>3, <3>4
  <2> QED BY <2>1
<1>5. N - i \in Nat /\ i + (N - i) = N
  BY <1>1 DEF N
<1>6. N - i \in T
  <2> HIDE DEF T
  <2>1. \A k \in 0..N - i : k \in T
    BY <1>3, <1>4, <1>5, Climbs
  <2> QED BY <1>5, <2>1
<1>7. N \in 0..N
  BY <1>1
<1> QED BY <1>2, <1>5, <1>6, <1>7 DEF N

\* The shares in the newer lots are the rest.
LEMMA AboveIs ==
  ASSUME NEW lots \in Seq(Lot), NEW i \in 0..Len(lots)
  PROVE  SharesIn(lots, i + 1..Len(lots)) = Below(lots, Len(lots)) - Below(lots, i)
<1> DEFINE N == Len(lots)
           F == [j \in 1..N |-> lots[j].left]
           A(j) == SumFunctionOnSet(F, j + 1..N)
           T == {k \in Nat : k <= N => A(N - k) = Below(lots, N) - Below(lots, N - k)}
<1>1. N \in Nat
  OBVIOUS
<1>2. \A j \in 0..N : /\ Below(lots, j) \in Nat
                      /\ j < N => Below(lots, j + 1) = Below(lots, j) + lots[j + 1].left /\ lots[j + 1].left \in Nat
  BY BelowUnrolls
<1>3. \A j \in 1..N : F[j] \in Int /\ F[j] = lots[j].left
  <2>1. \A j \in 1..N : lots[j] \in Lot
    OBVIOUS
  <2> QED BY <2>1 DEF Lot
<1>4. \A j \in 0..N : SharesIn(lots, j + 1..N) = A(j)
  <2> SUFFICES ASSUME NEW j \in 0..N PROVE SharesIn(lots, j + 1..N) = A(j)
    OBVIOUS
  <2>1. j + 1..N \in SUBSET (1..Len(lots))
    OBVIOUS
  <2> QED BY <2>1, SharesAre
<1> HIDE DEF N, F
<1>5. 0 \in T
  <2>1. N - 0 = N /\ N + 1..N = {} /\ N \in 0..N
    BY <1>1
  <2>2. SumFunctionOnSet(F, {}) = 0
    BY SumEmpty
  <2>3. Below(lots, N) \in Nat
    BY <1>2, <2>1
  <2>4. A(N - 0) = 0
    BY <2>1, <2>2
  <2> QED BY <2>1, <2>3, <2>4
<1>6. ASSUME NEW k \in T PROVE k + 1 \in T
  <2>1. CASE k + 1 <= N
    <3> DEFINE j == N - (k + 1)
    <3>1. /\ j \in 0..N /\ j < N /\ j + 1 = N - k /\ k <= N /\ j + 1 \in 1..N /\ N \in 0..N
          /\ j + 1..N = ((j + 1) + 1..N) \cup {j + 1} /\ j + 1 \notin (j + 1) + 1..N
          /\ (j + 1) + 1..N \in SUBSET (1..N)
      BY <1>1, <2>1
    <3>2. IsFiniteSet((j + 1) + 1..N)
      BY <1>1, <3>1, FS_Interval
    <3> HIDE DEF j
    <3>3. SumFunctionOnSet(F, j + 1..N) = SumFunctionOnSet(F, (j + 1) + 1..N) + F[j + 1]
      <4>1. PICK S, a : S = (j + 1) + 1..N /\ a = j + 1
        OBVIOUS
      <4>2. Joins(S, a, F)
        BY <1>3, <3>1, <3>2, <4>1 DEF Joins
      <4>3. SumFunctionOnSet(F, S \cup {a}) = SumFunctionOnSet(F, S) + F[a]
        BY <4>2, SumAdds
      <4> QED BY <3>1, <4>1, <4>3
    <3>4. A(j) = A(j + 1) + lots[j + 1].left
      BY <1>3, <3>1, <3>3
    <3>5. A(j + 1) = Below(lots, N) - Below(lots, j + 1)
      BY <3>1
    <3>6. /\ Below(lots, j + 1) = Below(lots, j) + lots[j + 1].left /\ lots[j + 1].left \in Nat
          /\ Below(lots, j) \in Nat /\ Below(lots, N) \in Nat
      BY <1>2, <3>1
    <3>7. A(j) = Below(lots, N) - Below(lots, j)
      <4> HIDE DEF A
      <4> QED BY <3>4, <3>5, <3>6
    <3> QED BY <3>7 DEF j
  <2> QED BY <2>1
<1>7. N - i \in Nat /\ N - i <= N /\ N - (N - i) = i /\ i \in 0..N
  BY <1>1 DEF N
<1>8. N - i \in T
  <2> HIDE DEF T
  <2>1. \A k \in 0..N : k \in T
    BY <1>1, <1>5, <1>6, Climbs
  <2>2. N - i \in 0..N
    BY <1>1, <1>7
  <2> QED BY <2>1, <2>2
<1>9. A(i) = Below(lots, N) - Below(lots, i)
  <2> HIDE DEF A
  <2> QED BY <1>7, <1>8
<1> QED BY <1>4, <1>7, <1>9 DEF N

Lower(a, b) == IF a <= b THEN a ELSE b

\* What a sale leaves of each lot: the sale takes the top n shares.
LEMMA SellLeaves ==
  ASSUME NEW lots \in Seq(Lot), NEW n \in Nat, n <= Below(lots, Len(lots))
  PROVE  LET r == SellNewestFirst(lots, n)
             K == Below(lots, Len(lots)) - n
         IN  /\ DOMAIN r = 1..Len(lots) /\ K \in Nat
             /\ \A i \in 1..Len(lots) :
                  /\ r[i] = [lots[i] EXCEPT !.left = r[i].left]
                  /\ r[i].left = Lower(Below(lots, i), K) - Lower(Below(lots, i - 1), K)
                  /\ r[i].left \in 0..lots[i].left
<1> DEFINE N == Len(lots)
           K == Below(lots, N) - n
           taken(i) == Max({0, Min({lots[i].left, n - SharesIn(lots, (i + 1)..N)})})
           r == SellNewestFirst(lots, n)
<1>1. N \in Nat /\ DOMAIN lots = 1..N
  OBVIOUS
<1>2. \A j \in 0..N : /\ Below(lots, j) \in Nat
                      /\ j < N => Below(lots, j + 1) = Below(lots, j) + lots[j + 1].left /\ lots[j + 1].left \in Nat
                      /\ SharesIn(lots, (j + 1)..N) = Below(lots, N) - Below(lots, j)
                      /\ Below(lots, j) <= Below(lots, N)
  BY BelowUnrolls, AboveIs, BelowClimbs
<1>3. r = [i \in 1..N |-> [lots[i] EXCEPT !.left = @ - taken(i)]]
  BY <1>1 DEF SellNewestFirst
<1>4. K \in Nat
  <2>1. N \in 0..N
    BY <1>1
  <2> QED BY <1>2, <2>1
<1>5. \A i \in 1..N : lots[i] \in Lot
  OBVIOUS
<1> SUFFICES /\ DOMAIN r = 1..N
             /\ \A i \in 1..N :
                  /\ r[i] = [lots[i] EXCEPT !.left = r[i].left]
                  /\ r[i].left = Lower(Below(lots, i), K) - Lower(Below(lots, i - 1), K)
                  /\ r[i].left \in 0..lots[i].left
  BY <1>4
<1>6. DOMAIN r = 1..N
  <2> HIDE DEF r, taken
  <2> QED BY <1>3
<1>7. ASSUME NEW i \in 1..N
      PROVE  /\ r[i] = [lots[i] EXCEPT !.left = r[i].left]
             /\ r[i].left = Lower(Below(lots, i), K) - Lower(Below(lots, i - 1), K)
             /\ r[i].left \in 0..lots[i].left
  <2> DEFINE l == lots[i].left  b == Below(lots, i)  a == Below(lots, i - 1)
  <2>1. b = a + l /\ l \in Nat /\ a \in Nat /\ b \in Nat
    <3>1. i - 1 \in 0..N /\ i - 1 < N /\ (i - 1) + 1 = i
      BY <1>1
    <3> QED BY <1>2, <3>1
  <2>2. n - SharesIn(lots, (i + 1)..N) = b - K
    <3>1. i \in 0..N /\ N \in 0..N
      BY <1>1
    <3>2. SharesIn(lots, (i + 1)..N) = Below(lots, N) - b /\ Below(lots, N) \in Nat
      BY <1>2, <3>1
    <3> QED BY <2>1, <3>2
  <2> HIDE DEF l, a, b
  <2>3. taken(i) = Max({0, Min({l, b - K})})
    BY <2>2 DEF l
  <2>4. Min({l, b - K}) = IF l <= b - K THEN l ELSE b - K
    <3> HIDE DEF K
    <3>1. b - K \in Int /\ l \in Int
      BY <1>4, <2>1
    <3> QED BY <3>1, MinOfTwo
  <2>5. taken(i) = IF b <= K THEN 0 ELSE IF l <= b - K THEN l ELSE b - K
    <3> HIDE DEF K, taken
    <3> DEFINE m == IF l <= b - K THEN l ELSE b - K
    <3>0. m \in Int
      BY <1>4, <2>1
    <3>1. m \in Int /\ taken(i) = Max({0, m}) /\ 0 \in Int
      <4>1. Min({l, b - K}) = m
        BY <2>4
      <4> HIDE DEF m, taken, K
      <4>2. taken(i) = Max({0, m})
        BY <2>3, <4>1, Zenon
      <4> QED BY <3>0, <4>2
    <3>2. Max({0, m}) = IF 0 >= m THEN 0 ELSE m
      <4> HIDE DEF m
      <4> QED BY <3>1, MaxOfTwo
    <3> QED BY <1>4, <2>1, <3>1, <3>2
  <2>6. r[i] = [lots[i] EXCEPT !.left = l - taken(i)]
    <3> HIDE DEF r, taken
    <3> QED BY <1>3 DEF l
  <2>7. r[i].left = l - taken(i)
    <3> HIDE DEF r, taken
    <3> QED BY <1>5, <2>6 DEF Lot
  <2>8. r[i].left = Lower(b, K) - Lower(a, K) /\ r[i].left \in 0..l
    <3> HIDE DEF r, taken, K
    <3> QED BY <1>4, <2>1, <2>5, <2>7 DEF Lower
  <2> HIDE DEF r
  <2> QED BY <2>6, <2>7, <2>8 DEF l, a, b
<1> QED BY <1>6, <1>7

\* A sale takes the newest shares: whatever lay below what it leaves stays.
LEMMA SellKeeps ==
  ASSUME NEW lots \in Seq(Lot), NEW n \in Nat, n <= Below(lots, Len(lots))
  PROVE  LET r == SellNewestFirst(lots, n)
             K == Below(lots, Len(lots)) - n
         IN  /\ r \in Seq(Lot) /\ Len(r) = Len(lots) /\ K \in Nat
             /\ \A i \in 1..Len(lots) :
                  /\ r[i] = [lots[i] EXCEPT !.left = r[i].left]
                  /\ r[i].left \in 0..lots[i].left
             /\ \A i \in 0..Len(lots) : Below(r, i) = Lower(Below(lots, i), K)
<1> DEFINE N == Len(lots)
           K == Below(lots, N) - n
           r == SellNewestFirst(lots, n)
<1>1. /\ DOMAIN r = 1..N /\ K \in Nat
      /\ \A i \in 1..N :
                  /\ r[i] = [lots[i] EXCEPT !.left = r[i].left]
                  /\ r[i].left = Lower(Below(lots, i), K) - Lower(Below(lots, i - 1), K)
                  /\ r[i].left \in 0..lots[i].left
  BY SellLeaves
<1>2. N \in Nat /\ \A i \in 1..N : lots[i] \in Lot
  OBVIOUS
<1>0. \A j \in 0..N : Below(lots, j) \in Nat
  BY BelowUnrolls
<1>a. Below(lots, 0) = 0
  <2>1. 0 \in 0..Len(lots)
    OBVIOUS
  <2> QED BY <2>1, BelowUnrolls
<1>3. r \in Seq(Lot) /\ Len(r) = N
  <2>1. \A i \in 1..N : r[i] \in Lot
    <3> SUFFICES ASSUME NEW i \in 1..N PROVE r[i] \in Lot
      OBVIOUS
    <3>1. r[i] = [lots[i] EXCEPT !.left = r[i].left] /\ r[i].left \in Nat /\ lots[i] \in Lot
      <4>1. r[i].left \in 0..lots[i].left /\ lots[i] \in Lot /\ lots[i].left \in Nat
        BY <1>1, <1>2 DEF Lot
      <4>2. r[i] = [lots[i] EXCEPT !.left = r[i].left]
        BY <1>1
      <4>3. r[i].left \in Nat
        <5> DEFINE x == r[i].left  y == lots[i].left
        <5>1. x \in 0..y /\ y \in Nat
          BY <4>1
        <5> HIDE DEF x, y
        <5>2. x \in Nat
          BY <5>1
        <5> QED BY <5>2 DEF x
      <4> QED BY <4>1, <4>2, <4>3
    <3> HIDE DEF r
    <3>2. PICK x : x = r[i].left
      OBVIOUS
    <3>3. r[i] = [lots[i] EXCEPT !.left = x] /\ x \in Nat /\ lots[i] \in Lot
      BY <3>1, <3>2
    <3> QED BY <3>3 DEF Lot
  <2>2. r = [i \in 1..N |-> r[i]]
    BY <1>1 DEF SellNewestFirst
  <2> HIDE DEF r, N
  <2>3. r \in [1..N -> Lot]
    BY <2>1, <2>2
  <2>4. r \in Seq(Lot)
    BY <1>2, <2>3, SeqDef
  <2> QED BY <1>1, <1>2, <2>4
<1> HIDE DEF r, K
<1> DEFINE T == {k \in Nat : k <= N => Below(r, k) = Lower(Below(lots, k), K)}
<1>4. 0 \in T
  <2>1. 0 \in 0..Len(r)
    BY <1>2, <1>3
  <2>2. Below(r, 0) = 0
    BY <1>3, <2>1, BelowUnrolls
  <2>3. Lower(0, K) = 0
    BY <1>1 DEF Lower
  <2> QED BY <1>a, <2>2, <2>3
<1>5. ASSUME NEW k \in T PROVE k + 1 \in T
  <2>1. CASE k + 1 <= N
    <3>1. /\ k \in 0..N /\ k < N /\ k + 1 \in 1..N /\ (k + 1) - 1 = k /\ k <= N /\ k + 1 \in 0..N
          /\ k \in 0..Len(r) /\ k < Len(r)
      BY <1>2, <1>3, <2>1
    <3>2. Below(r, k + 1) = Below(r, k) + r[k + 1].left
      BY <1>3, <3>1, BelowUnrolls
    <3>3. r[k + 1].left = Lower(Below(lots, k + 1), K) - Lower(Below(lots, k), K)
      BY <1>1, <3>1
    <3>4. Below(r, k) = Lower(Below(lots, k), K)
      BY <3>1
    <3>5. Lower(Below(lots, k + 1), K) \in Int /\ Lower(Below(lots, k), K) \in Int
      BY <1>0, <1>1, <3>1 DEF Lower
    <3>6. Below(r, k + 1) = Lower(Below(lots, k + 1), K)
      BY <3>2, <3>3, <3>4, <3>5
    <3> QED BY <3>6
  <2> QED BY <2>1
<1>6. \A i \in 0..N : i \in T
  <2> HIDE DEF T
  <2> QED BY <1>2, <1>4, <1>5, Climbs
<1>7. \A i \in 0..N : Below(r, i) = Lower(Below(lots, i), K)
  BY <1>6
<1> HIDE DEF T
<1> QED BY <1>1, <1>3, <1>7 DEF r, K

\* A purchase is one lot more.
LEMMA BuyKeeps ==
  ASSUME NEW lots \in Seq(Lot), NEW l \in Lot
  PROVE  /\ Append(lots, l) \in Seq(Lot) /\ Len(Append(lots, l)) = Len(lots) + 1
         /\ \A i \in 1..Len(lots) : Append(lots, l)[i] = lots[i]
         /\ Append(lots, l)[Len(lots) + 1] = l
         /\ \A i \in 0..Len(lots) : Below(Append(lots, l), i) = Below(lots, i)
         /\ Below(Append(lots, l), Len(lots) + 1) = Below(lots, Len(lots)) + l.left
<1> DEFINE r == Append(lots, l)  N == Len(lots)
<1>1. /\ r \in Seq(Lot) /\ Len(r) = N + 1 /\ N \in Nat
      /\ \A i \in 1..N : r[i] = lots[i]
      /\ r[N + 1] = l
  OBVIOUS
<1> HIDE DEF r, N
<1> DEFINE T == {k \in Nat : k <= N => Below(r, k) = Below(lots, k)}
<1>2. 0 \in T
  <2>1. 0 \in 0..Len(r) /\ 0 \in 0..Len(lots)
    BY <1>1 DEF N
  <2>2. Below(r, 0) = 0 /\ Below(lots, 0) = 0
    BY <1>1, <2>1, BelowUnrolls
  <2> QED BY <2>2
<1>3. ASSUME NEW k \in T PROVE k + 1 \in T
  <2>1. CASE k + 1 <= N
    <3>1. /\ k \in 0..Len(lots) /\ k < Len(lots) /\ k + 1 \in 1..N /\ k <= N
          /\ k \in 0..Len(r) /\ k < Len(r)
      BY <1>1, <2>1 DEF N
    <3>2. Below(r, k + 1) = Below(r, k) + r[k + 1].left
      BY <1>1, <3>1, BelowUnrolls
    <3>3. Below(lots, k + 1) = Below(lots, k) + lots[k + 1].left
      BY <1>1, <3>1, BelowUnrolls
    <3>4. r[k + 1] = lots[k + 1] /\ Below(r, k) = Below(lots, k)
      BY <1>1, <3>1
    <3> QED BY <3>2, <3>3, <3>4
  <2> QED BY <2>1
<1>4. \A i \in 0..N : i \in T
  <2> HIDE DEF T
  <2> QED BY <1>1, <1>2, <1>3, Climbs
<1>5. \A i \in 0..N : Below(r, i) = Below(lots, i)
  BY <1>4
<1>6. Below(r, N + 1) = Below(r, N) + r[N + 1].left
  <2>1. N \in 0..Len(r) /\ N < Len(r)
    BY <1>1
  <2> QED BY <1>1, <2>1, BelowUnrolls
<1>7. Below(r, N) = Below(lots, N)
  BY <1>1, <1>5
<1> HIDE DEF T
<1> QED BY <1>1, <1>5, <1>6, <1>7 DEF r, N

----------------------------------------------------------------------------
(* What a replay holds *)

\* What the bottom k shares of a lot cost where they were bought.
Raw(l, o, k) == CostOf(o, k, l.before[0] - l.before[1])

LotSound(l, o) == l \in Lot /\ l.left <= l.bought /\ Grain * l.charged >= Raw(l, o, l.bought)

Stack(lots, o) == lots \in Seq(Lot) /\ \A i \in 1..Len(lots) : LotSound(lots[i], o)

Entry == [user: Users, outcome: Outcomes, side: Sides, quantity: Nat \ {0}, total: Nat, version: Nat]

ReplaySound(r) ==
  /\ r.q \in [Outcomes -> Nat]
  /\ DOMAIN r.lots = Holders /\ r.lots = [h \in Holders |-> r.lots[h]]
  /\ \A h \in Holders : Stack(r.lots[h], h[2])

Held(lots) == Below(lots, Len(lots))

Fits(r, t) ==
  /\ t \in Entry
  /\ t.total = Price(t.outcome, t.side, t.quantity, r.q[0] - r.q[1])
  /\ t.side = "sell" => t.quantity <= Held(r.lots[<<t.user, t.outcome>>]) /\ t.quantity <= r.q[t.outcome]

\* The shares of a lot cost a whole number of grains, and never less than none.
LEMMA RawInt ==
  ASSUME EveryLead, NEW l \in Lot, NEW o \in Outcomes, NEW k \in Nat
  PROVE  Raw(l, o, k) \in Int /\ Raw(l, o, k) >= 0
<1>1. l.before[0] - l.before[1] \in Int
  BY DEF Lot, Outcomes
<1>2. "buy" \in Sides /\ Signed("buy", k) = k
  BY DEF Sides, Signed
<1> QED BY <1>1, <1>2, CostSigned DEF Raw

\* What a stack holds is what all its lots have left.
LEMMA HeldIs ==
  ASSUME NEW lots \in Seq(Lot)
  PROVE  SharesIn(lots, DOMAIN lots) = Held(lots) /\ Held(lots) \in Nat
<1>1. DOMAIN lots = 1..Len(lots) /\ Len(lots) \in 0..Len(lots)
  OBVIOUS
<1> QED BY <1>1, BelowUnrolls DEF Held, Below

\* A purchase leaves a sound stack, and so does a sale of no more than it
\* holds.
LEMMA BuyStacks ==
  ASSUME EveryLead, NEW o \in Outcomes, NEW lots, Stack(lots, o), NEW t \in Entry, t.outcome = o, t.side = "buy",
         NEW before \in [Outcomes -> Nat], t.total = Price(o, "buy", t.quantity, before[0] - before[1])
  PROVE  LET x == Append(lots, LotOf(t, before))
         IN  Stack(x, o) /\ Held(x) = Held(lots) + t.quantity /\ LotSound(LotOf(t, before), o)
<1> DEFINE l == LotOf(t, before)
<1>1. t.quantity \in Nat \ {0} /\ t.total \in Nat
  BY DEF Entry
<1>2. l \in Lot /\ l.left = t.quantity /\ l.bought = t.quantity /\ l.charged = t.total /\ l.before = before
  BY <1>1 DEF LotOf, Lot
<1>3. Grain * t.total >= CostOf(o, t.quantity, before[0] - before[1])
  <2>1. before[0] - before[1] \in Int /\ "buy" \in Sides /\ Signed("buy", t.quantity) = t.quantity
    BY DEF Outcomes, Sides, Signed
  <2> QED BY <1>1, <2>1, PriceCovers
<1>4. LotSound(l, o)
  BY <1>1, <1>2, <1>3 DEF LotSound, Raw
<1> HIDE DEF l
<1>5. lots \in Seq(Lot)
  BY DEF Stack
<1> DEFINE x == Append(lots, l)
<1>6. /\ x \in Seq(Lot) /\ Len(x) = Len(lots) + 1 /\ x[Len(lots) + 1] = l
      /\ \A i \in 1..Len(lots) : x[i] = lots[i]
      /\ Below(x, Len(lots) + 1) = Below(lots, Len(lots)) + l.left
  BY <1>2, <1>5, BuyKeeps
<1>7. Stack(x, o)
  <2> HIDE DEF x
  <2>1. ASSUME NEW i \in 1..Len(x) PROVE LotSound(x[i], o)
    <3>1. Len(lots) \in Nat
      BY <1>5
    <3>2. i \in 1..Len(lots) \/ i = Len(lots) + 1
      BY <1>6, <3>1
    <3> QED BY <1>4, <1>6, <3>2 DEF Stack
  <2> QED BY <1>6, <2>1 DEF Stack
<1>8. Held(x) = Held(lots) + t.quantity
  <2> HIDE DEF x
  <2> QED BY <1>2, <1>6 DEF Held
<1> QED BY <1>4, <1>7, <1>8 DEF l

LEMMA SellStacks ==
  ASSUME EveryLead, NEW o \in Outcomes, NEW lots, Stack(lots, o), NEW n \in Nat, n <= Held(lots)
  PROVE  LET x == SellNewestFirst(lots, n) IN Stack(x, o) /\ Held(x) = Held(lots) - n
<1> DEFINE x == SellNewestFirst(lots, n)  K == Held(lots) - n
<1>1. lots \in Seq(Lot)
  BY DEF Stack
<1>2. n <= Below(lots, Len(lots))
  BY DEF Held
<1>3. /\ x \in Seq(Lot) /\ Len(x) = Len(lots) /\ Below(lots, Len(lots)) - n \in Nat
      /\ \A i \in 1..Len(lots) :
           /\ x[i] = [lots[i] EXCEPT !.left = x[i].left]
           /\ x[i].left \in 0..lots[i].left
      /\ \A i \in 0..Len(lots) : Below(x, i) = Lower(Below(lots, i), Below(lots, Len(lots)) - n)
  BY <1>1, <1>2, SellKeeps
<1> HIDE DEF x
<1>4. Stack(x, o)
  <2>1. ASSUME NEW i \in 1..Len(x) PROVE LotSound(x[i], o)
    <3> DEFINE m == x[i].left  l == lots[i]
    <3>1. x[i] = [l EXCEPT !.left = m] /\ m \in 0..l.left /\ LotSound(l, o)
      BY <1>3 DEF Stack
    <3> HIDE DEF m, l
    <3>2. PICK y : y = x[i]
      OBVIOUS
    <3>3. y = [l EXCEPT !.left = m]
      BY <3>1, <3>2
    <3>4. y \in Lot /\ y.left = m /\ y.bought = l.bought /\ y.charged = l.charged /\ y.before = l.before
      <4>1. l \in Lot /\ l.left \in Nat /\ m \in Nat
        BY <3>1 DEF LotSound, Lot
      <4> QED BY <3>3, <4>1 DEF Lot
    <3>5. y.left <= y.bought
      <4>1. l.left \in Nat /\ l.bought \in Nat /\ l.left <= l.bought
        BY <3>1 DEF LotSound, Lot
      <4> QED BY <3>1, <3>4, <4>1
    <3>6. Grain * y.charged >= Raw(y, o, y.bought)
      BY <3>1, <3>4 DEF LotSound, Raw
    <3> QED BY <3>2, <3>4, <3>5, <3>6 DEF LotSound
  <2> QED BY <1>3, <2>1 DEF Stack
<1>5. Held(x) = Held(lots) - n
  <2>1. Len(lots) \in 0..Len(lots)
    BY <1>1
  <2>2. Held(x) = Lower(Held(lots), Held(lots) - n)
    BY <1>3, <2>1 DEF Held
  <2>3. Held(lots) \in Nat
    BY <1>1, HeldIs
  <2> QED BY <2>2, <2>3 DEF Lower
<1> QED BY <1>4, <1>5 DEF x

\* One trade of a replay keeps it sound: it moves one stack, and nothing is
\* oversold.
LEMMA TradeReplays ==
  ASSUME EveryLead, NEW r, ReplaySound(r), NEW t, Fits(r, t)
  PROVE  LET x == ReplayTrade(r, t)
             k == <<t.user, t.outcome>>
         IN  /\ ReplaySound(x)
             /\ ~ r.oversold => ~ x.oversold
             /\ x.q = [r.q EXCEPT ![t.outcome] = @ + Signed(t.side, t.quantity)]
             /\ k \in Holders /\ \A h \in Holders : h # k => x.lots[h] = r.lots[h]
             /\ x.lots[k] = IF t.side = "buy" THEN Append(r.lots[k], LotOf(t, r.q))
                                              ELSE SellNewestFirst(r.lots[k], t.quantity)
             /\ Held(x.lots[k]) = Held(r.lots[k]) + Signed(t.side, t.quantity)
<1> DEFINE x == ReplayTrade(r, t)
           k == <<t.user, t.outcome>>
           lots == r.lots[k]
           new == IF t.side = "buy" THEN Append(lots, LotOf(t, r.q)) ELSE SellNewestFirst(lots, t.quantity)
<1>1. /\ t \in Entry /\ t.outcome \in Outcomes /\ t.side \in Sides /\ t.quantity \in Nat \ {0}
      /\ t.user \in Users /\ t.total \in Nat
  BY DEF Fits, Entry
<1>2. k \in Holders /\ k[2] = t.outcome
  BY <1>1 DEF Holders
<1>3. Stack(lots, t.outcome)
  BY <1>2 DEF ReplaySound
<1>4. /\ x.q = [r.q EXCEPT ![t.outcome] = @ + Signed(t.side, t.quantity)]
      /\ x.lots = [r.lots EXCEPT ![k] = new]
      /\ x.oversold = (r.oversold \/ (t.side = "sell" /\ t.quantity > SharesIn(lots, DOMAIN lots)))
  BY DEF ReplayTrade
<1>5. x.q \in [Outcomes -> Nat]
  <2>1. r.q \in [Outcomes -> Nat] /\ (t.side = "sell" => t.quantity <= r.q[t.outcome])
    BY DEF ReplaySound, Fits
  <2>2. r.q[t.outcome] + Signed(t.side, t.quantity) \in Nat
    BY <1>1, <2>1 DEF Signed, Sides
  <2> HIDE DEF x
  <2> QED BY <1>4, <2>1, <2>2
<1>6. Stack(new, t.outcome) /\ Held(new) = Held(lots) + Signed(t.side, t.quantity)
  <2>1. CASE t.side = "buy"
    <3>1. r.q \in [Outcomes -> Nat] /\ t.total = Price(t.outcome, "buy", t.quantity, r.q[0] - r.q[1])
      BY <2>1 DEF ReplaySound, Fits
    <3> HIDE DEF lots
    <3>2. /\ Stack(Append(lots, LotOf(t, r.q)), t.outcome)
          /\ Held(Append(lots, LotOf(t, r.q))) = Held(lots) + t.quantity
      BY <1>1, <1>3, <2>1, <3>1, BuyStacks
    <3> QED BY <2>1, <3>2 DEF Signed
  <2>2. CASE t.side = "sell"
    <3>1. t.quantity <= Held(lots) /\ t.quantity \in Nat
      BY <1>1, <2>2 DEF Fits
    <3> HIDE DEF lots
    <3>2. /\ Stack(SellNewestFirst(lots, t.quantity), t.outcome)
          /\ Held(SellNewestFirst(lots, t.quantity)) = Held(lots) - t.quantity
      BY <1>1, <1>3, <3>1, SellStacks
    <3>3. Held(lots) \in Nat
      BY <1>3, HeldIs DEF Stack
    <3> QED BY <1>1, <2>2, <3>2, <3>3 DEF Signed
  <2> QED BY <1>1, <2>1, <2>2 DEF Sides
<1>7. ~ r.oversold => ~ x.oversold
  <2>1. SharesIn(lots, DOMAIN lots) = Held(lots) /\ Held(lots) \in Nat
    BY <1>3, HeldIs DEF Stack
  <2>2. ~ (t.side = "sell" /\ t.quantity > SharesIn(lots, DOMAIN lots))
    BY <1>1, <2>1 DEF Fits
  <2> HIDE DEF x, lots
  <2> QED BY <1>4, <2>2, Zenon
<1> HIDE DEF x, new
<1>8. \A h \in Holders : h # k => x.lots[h] = r.lots[h]
  BY <1>2, <1>4 DEF ReplaySound
<1>9. x.lots[k] = new
  BY <1>2, <1>4 DEF ReplaySound
<1>10. ReplaySound(x)
  <2>1. DOMAIN x.lots = Holders /\ x.lots = [h \in Holders |-> x.lots[h]]
    BY <1>4 DEF ReplaySound
  <2>2. ASSUME NEW h \in Holders PROVE Stack(x.lots[h], h[2])
    <3>1. CASE h = k
      BY <1>2, <1>6, <1>9, <3>1
    <3>2. CASE h # k
      BY <1>8, <3>2 DEF ReplaySound
    <3> QED BY <3>1, <3>2
  <2> QED BY <1>5, <2>1, <2>2 DEF ReplaySound
<1> QED BY <1>2, <1>4, <1>6, <1>7, <1>8, <1>9, <1>10 DEF x, new

\* A replay of no trades is sound, and holds nothing.
LEMMA NoLotsSound == ReplaySound(NoLots) /\ \A h \in Holders : Held(NoLots.lots[h]) = 0 /\ NoLots.lots[h] = <<>>
<1>1. NoLots.q = NoShares /\ NoLots.lots = [h \in Holders |-> <<>>]
  BY DEF NoLots
<1>2. <<>> \in Seq(Lot) /\ Len(<<>>) = 0 /\ 0 \in 0..Len(<<>>)
  OBVIOUS
<1>3. \A o : Stack(<<>>, o)
  BY <1>2 DEF Stack
<1>4. Held(<<>>) = 0
  BY <1>2, BelowUnrolls DEF Held
<1>5. NoLots.q \in [Outcomes -> Nat]
  BY <1>1 DEF NoShares
<1>6. \A h \in Holders : NoLots.lots[h] = <<>>
  BY <1>1
<1> QED BY <1>1, <1>3, <1>4, <1>5, <1>6 DEF ReplaySound

----------------------------------------------------------------------------
(* One trader alone *)

\* Shares of outcome o number x + 1 to x + k down the stack cost what g climbs.
Tells(g, lots, o) ==
  \A i \in 1..Len(lots) : \A k \in 0..lots[i].left :
    Raw(lots[i], o, k) = g[Below(lots, i - 1) + k] - g[Below(lots, i - 1)]

Under(f, v) ==
  \A x \in 0..v[0], y \in 0..v[1] : f[0][x] + f[1][y] <= CostAt(x, y) - CostAt(0, 0)

\* What an untouched lot is owed beyond what its shares cost.
Extra(l, o) == IF l.left = l.bought THEN Grain * l.charged - Raw(l, o, l.bought) ELSE 0

Extras(lots, o) == SumFunctionOnSet([i \in 1..Len(lots) |-> Extra(lots[i], o)], 1..Len(lots))

\* Selling the bottom shares of a lot back, where they were bought, brings
\* what they cost.
LEMMA RawBack ==
  ASSUME EveryLead, NEW l \in Lot, NEW o \in Outcomes, NEW k \in Nat
  PROVE  /\ Raw(l, o, 0) = 0
         /\ l.before[0] - l.before[1] + Lead(o, k) \in Int
         /\ CostOf(o, -k, l.before[0] - l.before[1] + Lead(o, k)) = -Raw(l, o, k)
<1>1. PICK d \in Int : d = l.before[0] - l.before[1]
  BY DEF Lot, Outcomes
<1>2. \A e \in Int : LogCost[e] \in Int
  BY LogCostAssumption DEF EveryLead
<1>3. Share * Grain \in Int
  BY ScaleAssumption
<1>4. d + k \in Int /\ d - k \in Int /\ (d + k) + (-k) = d /\ (d - k) - (-k) = d /\ d + 0 = d /\ d - 0 = d
  BY <1>1
<1>5. LogCost[d] \in Int /\ LogCost[d + k] \in Int /\ LogCost[d - k] \in Int
  BY <1>1, <1>2, <1>4
<1>6. CASE o = 0
  <2>1. Lead(o, k) = k
    BY <1>6 DEF Lead
  <2>2. CostOf(o, -k, d + k) = LogCost[d] - LogCost[d + k] /\ Raw(l, o, k) = LogCost[d + k] - LogCost[d]
    BY <1>1, <1>4, <1>6 DEF CostOf, Raw
  <2>3. Raw(l, o, 0) = LogCost[d] - LogCost[d]
    BY <1>1, <1>4, <1>6 DEF CostOf, Raw
  <2> QED BY <1>1, <1>4, <1>5, <2>1, <2>2, <2>3
<1>7. CASE o = 1
  <2>1. Lead(o, k) = -k /\ d + (-k) = d - k
    BY <1>1, <1>7 DEF Lead
  <2>2. /\ CostOf(o, -k, d - k) = Share * Grain * (-k) + LogCost[d] - LogCost[d - k]
        /\ Raw(l, o, k) = Share * Grain * k + LogCost[d - k] - LogCost[d]
    BY <1>1, <1>4, <1>7 DEF CostOf, Raw
  <2>3. Raw(l, o, 0) = Share * Grain * 0 + LogCost[d] - LogCost[d]
    BY <1>1, <1>4, <1>7 DEF CostOf, Raw
  <2>4. PICK s \in Int : s = Share * Grain
    BY <1>3
  <2>5. s * (-k) = -(s * k) /\ s * k \in Int /\ s * 0 = 0
    OBVIOUS
  <2> QED BY <1>1, <1>4, <1>5, <2>1, <2>2, <2>3, <2>4, <2>5
<1> QED BY <1>6, <1>7 DEF Outcomes

\* What a curve tells of a stack it tells after a sale, which takes shares off
\* the top, and after a purchase that goes on along the curve.
LEMMA TellsSell ==
  ASSUME EveryLead, NEW o \in Outcomes, NEW lots, Stack(lots, o), NEW n \in Nat, n <= Held(lots),
         NEW g \in [Nat -> Int], Tells(g, lots, o)
  PROVE  Tells(g, SellNewestFirst(lots, n), o)
<1> DEFINE x == SellNewestFirst(lots, n)  K == Below(lots, Len(lots)) - n
<1>1. lots \in Seq(Lot) /\ n <= Below(lots, Len(lots)) /\ Len(lots) \in Nat
  BY DEF Stack, Held
<1>2. /\ x \in Seq(Lot) /\ Len(x) = Len(lots) /\ K \in Nat
      /\ \A i \in 1..Len(lots) :
           /\ x[i] = [lots[i] EXCEPT !.left = x[i].left]
           /\ x[i].left \in 0..lots[i].left
      /\ \A i \in 0..Len(lots) : Below(x, i) = Lower(Below(lots, i), K)
  BY <1>1, SellKeeps
<1>3. \A j \in 0..Len(lots) :
        /\ Below(lots, j) \in Nat
        /\ j < Len(lots) => Below(lots, j + 1) = Below(lots, j) + lots[j + 1].left /\ lots[j + 1].left \in Nat
  BY <1>1, BelowUnrolls
<1>a. \A j \in 0..Len(lots) : j < Len(lots) => Below(x, j + 1) = Below(x, j) + x[j + 1].left /\ Below(x, j) \in Nat
  BY <1>2, BelowUnrolls
<1> HIDE DEF x, K
<1>4. ASSUME NEW i \in 1..Len(x), NEW k \in 0..x[i].left
      PROVE  Raw(x[i], o, k) = g[Below(x, i - 1) + k] - g[Below(x, i - 1)]
  <2>1. i \in 1..Len(lots) /\ i - 1 \in 0..Len(lots) /\ i - 1 < Len(lots) /\ (i - 1) + 1 = i /\ i \in 0..Len(lots)
    BY <1>1, <1>2
  <2>2. lots[i] \in Lot /\ x[i] \in Lot /\ x[i].left \in Nat /\ lots[i].left \in Nat
    <3>1. lots[i] \in Lot /\ x[i] \in Lot
      BY <1>1, <1>2, <2>1
    <3> QED BY <3>1 DEF Lot
  <2>3. Raw(x[i], o, k) = Raw(lots[i], o, k)
    <3>1. x[i].before = lots[i].before
      <4>1. PICK m : m = x[i].left
        OBVIOUS
      <4>2. x[i] = [lots[i] EXCEPT !.left = m]
        BY <1>2, <2>1, <4>1
      <4> QED BY <2>2, <4>2 DEF Lot
    <3> QED BY <3>1 DEF Raw
  <2>4. CASE x[i].left = 0
    <3>1. k = 0
      BY <2>4
    <3>2. Raw(lots[i], o, 0) = 0
      BY <2>2, RawBack
    <3>3. Below(x, i - 1) \in Nat
      BY <1>a, <2>1
    <3>4. Below(x, i - 1) + 0 = Below(x, i - 1) /\ g[Below(x, i - 1)] \in Int
      BY <3>3
    <3> QED BY <2>3, <3>1, <3>2, <3>4
  <2>5. CASE x[i].left # 0
    <3>1. Below(x, i) = Below(x, i - 1) + x[i].left
      BY <1>a, <2>1
    <3>2. Below(x, i) = Lower(Below(lots, i), K) /\ Below(x, i - 1) = Lower(Below(lots, i - 1), K)
      BY <1>2, <2>1
    <3>3. Below(lots, i) = Below(lots, i - 1) + lots[i].left /\ Below(lots, i - 1) \in Nat
      <4>1. PICK j \in 0..Len(lots) : j = i - 1 /\ j < Len(lots) /\ j + 1 = i
        BY <2>1
      <4>2. Below(lots, j + 1) = Below(lots, j) + lots[j + 1].left /\ Below(lots, j) \in Nat
        BY <1>1, <1>3, <4>1
      <4> QED BY <4>1, <4>2
    <3>a. PICK m \in Nat, a \in Nat, b \in Nat, c \in Nat :
            m = x[i].left /\ a = lots[i].left /\ b = Below(lots, i - 1) /\ c = Below(lots, i)
      BY <1>3, <2>1, <2>2, <3>3
    <3>b. m # 0 /\ m \in 0..a /\ c = b + a /\ Lower(c, K) = Lower(b, K) + m
      <4>1. x[i].left \in 0..lots[i].left
        BY <1>2, <2>1
      <4> QED BY <2>5, <3>1, <3>2, <3>3, <3>a, <4>1
    <3>c. Lower(b, K) = b /\ m <= a
      <4>1. K \in Nat
        BY <1>2
      <4>2. CASE b <= K
        <5>1. m <= a
          BY <3>b
        <5> QED BY <4>1, <4>2, <5>1 DEF Lower
      <4>3. CASE ~ (b <= K)
        <5>1. Lower(b, K) = K /\ Lower(c, K) = K
          BY <3>b, <4>1, <4>3 DEF Lower
        <5> QED BY <3>b, <4>1, <5>1
      <4> QED BY <4>2, <4>3
    <3>4. Below(x, i - 1) = Below(lots, i - 1)
      BY <3>2, <3>a, <3>c
    <3>5. k \in 0..lots[i].left
      <4>1. k \in 0..m
        BY <3>a
      <4>2. k \in 0..a
        BY <3>c, <4>1
      <4> QED BY <3>a, <4>2
    <3>6. Raw(lots[i], o, k) = g[Below(lots, i - 1) + k] - g[Below(lots, i - 1)]
      BY <2>1, <3>5 DEF Tells
    <3> QED BY <2>3, <3>4, <3>6
  <2> QED BY <2>4, <2>5
<1>5. Tells(g, x, o)
  BY <1>4 DEF Tells
<1> QED BY <1>5 DEF x

LEMMA TellsBuy ==
  ASSUME NEW o \in Outcomes, NEW lots, Stack(lots, o), NEW l \in Lot,
         NEW g, NEW e, Tells(g, lots, o), \A x \in 0..Held(lots) : e[x] = g[x],
         \A k \in 0..l.left : Raw(l, o, k) = e[Held(lots) + k] - e[Held(lots)]
  PROVE  Tells(e, Append(lots, l), o)
<1> DEFINE x == Append(lots, l)  N == Len(lots)
<1>1. lots \in Seq(Lot) /\ N \in Nat
  BY DEF Stack
<1>2. /\ x \in Seq(Lot) /\ Len(x) = N + 1 /\ x[N + 1] = l
      /\ \A i \in 1..N : x[i] = lots[i]
      /\ \A i \in 0..N : Below(x, i) = Below(lots, i)
  BY <1>1, BuyKeeps
<1>3. \A j \in 0..N :
        /\ Below(lots, j) \in Nat /\ Below(lots, j) <= Below(lots, N)
        /\ j < N => Below(lots, j + 1) = Below(lots, j) + lots[j + 1].left /\ lots[j + 1].left \in Nat
  BY <1>1, BelowUnrolls, BelowClimbs
<1> HIDE DEF x
<1>4. ASSUME NEW i \in 1..Len(x), NEW k \in 0..x[i].left
      PROVE  Raw(x[i], o, k) = e[Below(x, i - 1) + k] - e[Below(x, i - 1)]
  <2>1. CASE i = N + 1
    <3>1. i - 1 = N /\ N \in 0..N /\ x[i] = l
      BY <1>1, <1>2, <2>1
    <3>2. Below(x, i - 1) = Held(lots)
      BY <1>2, <3>1 DEF Held
    <3> QED BY <3>1, <3>2
  <2>2. CASE i \in 1..N
    <3>1. i - 1 \in 0..N /\ i - 1 < N /\ (i - 1) + 1 = i /\ i \in 0..N /\ x[i] = lots[i]
      BY <1>1, <1>2, <2>2
    <3>2. /\ Below(lots, i) = Below(lots, i - 1) + lots[i].left /\ lots[i].left \in Nat
          /\ Below(lots, i - 1) \in Nat /\ Below(lots, i) <= Held(lots) /\ Below(lots, i) \in Nat
          /\ Held(lots) \in Nat
      <4>1. N \in 0..N
        BY <1>1
      <4>2. PICK j \in 0..N : j = i - 1 /\ j < N /\ j + 1 = i
        BY <3>1
      <4>3. /\ Below(lots, j + 1) = Below(lots, j) + lots[j + 1].left
            /\ Below(lots, j) \in Nat /\ lots[j + 1].left \in Nat
        BY <1>3, <4>2
      <4>4. Below(lots, i) <= Held(lots) /\ Below(lots, i) \in Nat /\ Held(lots) \in Nat
        BY <1>3, <3>1, <4>1 DEF Held
      <4> QED BY <4>2, <4>3, <4>4
    <3>3. k \in 0..lots[i].left
      BY <3>1
    <3>4. Below(lots, i - 1) + k \in 0..Held(lots) /\ Below(lots, i - 1) \in 0..Held(lots)
      BY <3>2, <3>3
    <3>5. Raw(lots[i], o, k) = g[Below(lots, i - 1) + k] - g[Below(lots, i - 1)]
      BY <2>2, <3>3 DEF Tells
    <3>6. Below(x, i - 1) = Below(lots, i - 1)
      BY <1>2, <3>1
    <3> QED BY <3>1, <3>4, <3>5, <3>6
  <2>3. i = N + 1 \/ i \in 1..N
    BY <1>1, <1>2
  <2> QED BY <2>1, <2>2, <2>3
<1>5. Tells(e, x, o)
  BY <1>4 DEF Tells
<1> QED BY <1>5 DEF x

\* Extras are never below nothing; a purchase adds its own, and a sale adds
\* none.
LEMMA ExtraInt ==
  ASSUME EveryLead, NEW o \in Outcomes, NEW l, LotSound(l, o)
  PROVE  Extra(l, o) \in Nat /\ Grain * l.charged \in Int /\ Raw(l, o, l.bought) \in Int
<1>1. l \in Lot /\ l.bought \in Nat /\ l.charged \in Nat /\ Grain \in Nat
  BY ScaleAssumption DEF LotSound, Lot
<1>2. Raw(l, o, l.bought) \in Int /\ Grain * l.charged \in Int
  BY <1>1, RawInt
<1> QED BY <1>2 DEF LotSound, Extra

LEMMA ExtrasBuy ==
  ASSUME EveryLead, NEW o \in Outcomes, NEW lots, Stack(lots, o), NEW l, LotSound(l, o)
  PROVE  Extras(Append(lots, l), o) = Extras(lots, o) + Extra(l, o) /\ Extras(lots, o) \in Nat
<1> DEFINE x == Append(lots, l)  N == Len(lots)
           F == [i \in 1..N + 1 |-> Extra(x[i], o)]  G == [i \in 1..N |-> Extra(lots[i], o)]
<1>1. lots \in Seq(Lot) /\ N \in Nat /\ l \in Lot
  BY DEF Stack, LotSound
<1>2. Len(x) = N + 1 /\ x[N + 1] = l /\ \A i \in 1..N : x[i] = lots[i]
  BY <1>1, BuyKeeps
<1> HIDE DEF x
<1>3. \A i \in 1..N : Extra(lots[i], o) \in Nat
  BY ExtraInt DEF Stack
<1>4. (\A i \in 1..N : F[i] = G[i] /\ G[i] \in Nat) /\ F[N + 1] = Extra(l, o) /\ F[N + 1] \in Int
  <2>1. N + 1 \in 1..N + 1 /\ \A i \in 1..N : i \in 1..N + 1
    BY <1>1
  <2>2. Extra(l, o) \in Nat
    BY ExtraInt
  <2>3. F[N + 1] = Extra(l, o)
    BY <1>2, <2>1
  <2> QED BY <1>2, <1>3, <2>1, <2>2, <2>3
<1>5. Extras(x, o) = SumFunctionOnSet(F, 1..N + 1) /\ Extras(lots, o) = SumFunctionOnSet(G, 1..N)
  BY <1>2 DEF Extras
<1> HIDE DEF F, G
<1>6. \A i \in 1..N + 1 : F[i] \in Int
  <2>1. \A i \in 1..N + 1 : i \in 1..N \/ i = N + 1
    BY <1>1
  <2>2. \A i \in 1..N : F[i] \in Int
    BY <1>4
  <2> QED BY <1>4, <2>1, <2>2
<1>7. SumFunctionOnSet(F, 1..N + 1) = SumFunctionOnSet(F, 1..N) + F[N + 1]
  BY <1>1, <1>6, SumUpto
<1>8. IsFiniteSet(1..N)
  BY <1>1, FS_Interval
<1>9. SumFunctionOnSet(F, 1..N) = SumFunctionOnSet(G, 1..N)
  BY <1>4, <1>8, SumSame
<1>10. SumFunctionOnSet(G, 1..N) \in Nat
  BY <1>4, <1>8, SumNat
<1> QED BY <1>4, <1>5, <1>7, <1>9, <1>10 DEF x

LEMMA ExtrasSell ==
  ASSUME EveryLead, NEW o \in Outcomes, NEW lots, Stack(lots, o), NEW n \in Nat, n <= Held(lots)
  PROVE  /\ Extras(SellNewestFirst(lots, n), o) <= Extras(lots, o)
         /\ Extras(SellNewestFirst(lots, n), o) \in Int /\ Extras(lots, o) \in Int
<1> DEFINE x == SellNewestFirst(lots, n)  N == Len(lots)
           F == [i \in 1..N |-> Extra(x[i], o)]  G == [i \in 1..N |-> Extra(lots[i], o)]
<1>1. lots \in Seq(Lot) /\ n <= Below(lots, Len(lots)) /\ N \in Nat
  BY DEF Stack, Held
<1>2. /\ Len(x) = N
      /\ \A i \in 1..N :
           /\ x[i] = [lots[i] EXCEPT !.left = x[i].left]
           /\ x[i].left \in 0..lots[i].left
  BY <1>1, SellKeeps
<1>3. Stack(x, o)
  BY SellStacks
<1> HIDE DEF x
<1>4. ASSUME NEW i \in 1..N
      PROVE  Extra(x[i], o) \in Nat /\ Extra(lots[i], o) \in Nat /\ Extra(x[i], o) <= Extra(lots[i], o)
  <2>1. LotSound(x[i], o) /\ LotSound(lots[i], o)
    BY <1>2, <1>3 DEF Stack
  <2>2. Extra(x[i], o) \in Nat /\ Extra(lots[i], o) \in Nat
    BY <2>1, ExtraInt
  <2> DEFINE m == x[i].left  l == lots[i]
  <2>3. x[i] = [l EXCEPT !.left = m] /\ m \in 0..l.left
    BY <1>2
  <2>4. l \in Lot /\ l.left \in Nat /\ l.bought \in Nat /\ l.left <= l.bought
    BY <2>1 DEF LotSound, Lot
  <2>5. PICK y : y = x[i]
    OBVIOUS
  <2> HIDE DEF m, l
  <2>6. y = [l EXCEPT !.left = m]
    BY <2>3, <2>5
  <2>7. y.left = m /\ y.bought = l.bought /\ y.charged = l.charged /\ y.before = l.before
    BY <2>4, <2>6 DEF Lot
  <2>8. CASE m = l.left
    <3>1. Extra(y, o) = Extra(l, o)
      BY <2>7, <2>8 DEF Extra, Raw
    <3> QED BY <2>2, <2>5, <3>1 DEF l
  <2>9. CASE m # l.left
    <3>1. y.left # y.bought
      BY <2>3, <2>4, <2>7, <2>9
    <3>2. Extra(y, o) = 0
      BY <3>1 DEF Extra
    <3> QED BY <2>2, <2>5, <3>2
  <2> QED BY <2>8, <2>9
<1>5. Extras(x, o) = SumFunctionOnSet(F, 1..N) /\ Extras(lots, o) = SumFunctionOnSet(G, 1..N)
  BY <1>2 DEF Extras
<1>6. Bounds(1, F, 1, G, 1..N)
  <2>1. IsFiniteSet(1..N)
    BY <1>1, FS_Interval
  <2>2. \A i \in 1..N : F[i] = Extra(x[i], o) /\ G[i] = Extra(lots[i], o)
    OBVIOUS
  <2> HIDE DEF F, G
  <2>3. ASSUME NEW i \in 1..N PROVE F[i] \in Int /\ G[i] \in Int /\ 1 * F[i] <= 1 * G[i]
    <3>1. F[i] \in Nat /\ G[i] \in Nat /\ F[i] <= G[i]
      BY <1>4, <2>2
    <3> QED BY <3>1
  <2> QED BY <2>1, <2>3 DEF Bounds
<1> HIDE DEF F, G
<1>7. /\ 1 * SumFunctionOnSet(F, 1..N) <= 1 * SumFunctionOnSet(G, 1..N)
      /\ SumFunctionOnSet(F, 1..N) \in Int /\ SumFunctionOnSet(G, 1..N) \in Int
  BY <1>6, SumBounded
<1>8. Extras(x, o) <= Extras(lots, o) /\ Extras(x, o) \in Int /\ Extras(lots, o) \in Int
  BY <1>5, <1>7
<1> QED BY <1>8 DEF x

Curves == [Outcomes -> [Nat -> Int]]

\* What shares of o beyond those of v cost, up to x of them in all.
CostOver(o, x, v) ==
  IF o = 0 THEN CostAt(x, v[1]) - CostAt(v[0], v[1]) ELSE CostAt(v[0], x) - CostAt(v[0], v[1])

\* g goes on with what shares beyond those of v cost.
Grown(g, o, v) == [x \in Nat |-> IF x <= v[o] THEN g[x] ELSE g[v[o]] + CostOver(o, x, v)]

\* The grown curve keeps what it told, and goes on with what shares cost.
LEMMA GrownIs ==
  ASSUME EveryLead, NEW o \in Outcomes, NEW v \in [Outcomes -> Nat], NEW g \in [Nat -> Int]
  PROVE  /\ Grown(g, o, v) \in [Nat -> Int]
         /\ \A x \in 0..v[o] : Grown(g, o, v)[x] = g[x]
         /\ \A k \in Nat : /\ Grown(g, o, v)[v[o] + k] = g[v[o]] + CostOf(o, k, v[0] - v[1])
                           /\ CostOf(o, k, v[0] - v[1]) \in Int
         /\ \A x \in Nat : x > v[o] => Grown(g, o, v)[x] = g[v[o]] + CostOver(o, x, v) /\ CostOver(o, x, v) \in Int
<1>1. v[0] \in Nat /\ v[1] \in Nat /\ v[o] \in Nat /\ (o = 0 \/ o = 1)
  BY DEF Outcomes
<1>2. \A a, b \in Int : CostAt(a, b) \in Int
  <2>1. 0 \in Outcomes /\ 0 \in Int
    BY DEF Outcomes
  <2> QED BY <2>1, CostMoves
<1>3. ASSUME NEW x \in Nat PROVE CostOver(o, x, v) \in Int
  <2>0. x \in Int /\ v[0] \in Int /\ v[1] \in Int
    BY <1>1
  <2>1. CostAt(x, v[1]) \in Int /\ CostAt(v[0], v[1]) \in Int /\ CostAt(v[0], x) \in Int
    BY <1>2, <2>0
  <2> QED BY <2>1 DEF CostOver
<1>4. \A k \in Nat : CostOf(o, k, v[0] - v[1]) = CostOver(o, v[o] + k, v)
  BY <1>1, CostMoves DEF CostOver, Outcomes
<1>5. g[v[o]] \in Int
  BY <1>1
<1>6. \A x \in Nat : Grown(g, o, v)[x] = IF x <= v[o] THEN g[x] ELSE g[v[o]] + CostOver(o, x, v)
  BY DEF Grown
<1>7. Grown(g, o, v) \in [Nat -> Int]
  <2>1. \A x \in Nat : (IF x <= v[o] THEN g[x] ELSE g[v[o]] + CostOver(o, x, v)) \in Int
    BY <1>3, <1>5
  <2> QED BY <2>1 DEF Grown
<1>8. \A x \in 0..v[o] : Grown(g, o, v)[x] = g[x]
  BY <1>1, <1>6
<1>9. ASSUME NEW k \in Nat
      PROVE  /\ Grown(g, o, v)[v[o] + k] = g[v[o]] + CostOf(o, k, v[0] - v[1])
             /\ CostOf(o, k, v[0] - v[1]) \in Int
  <2>1. v[o] + k \in Nat /\ CostOver(o, v[o] + k, v) \in Int
    BY <1>1, <1>3
  <2>2. CASE k = 0
    <3>1. CostOver(o, v[o], v) = 0
      <4>0. v[0] \in Int /\ v[1] \in Int
        BY <1>1
      <4>1. CostAt(v[0], v[1]) \in Int
        BY <1>2, <4>0
      <4>2. CostAt(v[0], v[1]) - CostAt(v[0], v[1]) = 0
        BY <4>1
      <4> QED BY <1>1, <4>2 DEF CostOver
    <3>2. v[o] + 0 = v[o]
      BY <1>1
    <3> QED BY <1>1, <1>4, <1>5, <1>8, <2>1, <2>2, <3>1, <3>2
  <2>3. CASE k # 0
    <3>1. ~ (v[o] + k <= v[o])
      BY <1>1, <2>3
    <3> QED BY <1>4, <1>6, <2>1, <3>1
  <2> QED BY <2>2, <2>3
<1>10. ASSUME NEW x \in Nat, x > v[o]
       PROVE  Grown(g, o, v)[x] = g[v[o]] + CostOver(o, x, v)
  <2>1. ~ (x <= v[o])
    BY <1>1, <1>10
  <2> QED BY <1>6, <2>1
<1> QED BY <1>3, <1>7, <1>8, <1>9, <1>10

\* A curve stays under the cost function when shares are sold, and, grown by
\* what they cost, when they are bought.
LEMMA UnderSell ==
  ASSUME NEW f, NEW v \in [Outcomes -> Nat], NEW w \in [Outcomes -> Nat], Under(f, v),
         \A o \in Outcomes : w[o] <= v[o]
  PROVE  Under(f, w)
<1>1. v[0] \in Nat /\ v[1] \in Nat /\ w[0] \in Nat /\ w[1] \in Nat /\ w[0] <= v[0] /\ w[1] <= v[1]
  BY DEF Outcomes
<1>2. 0..w[0] \subseteq 0..v[0] /\ 0..w[1] \subseteq 0..v[1]
  BY <1>1
<1> QED BY <1>2 DEF Under

LEMMA UnderBuy ==
  ASSUME EveryLead, NEW o \in Outcomes, NEW f \in Curves, NEW v \in [Outcomes -> Nat], Under(f, v),
         NEW n \in Nat, NEW w \in [Outcomes -> Nat], w = [v EXCEPT ![o] = @ + n],
         NEW e, e = [f EXCEPT ![o] = Grown(f[o], o, v)]
  PROVE  e \in Curves /\ Under(e, w)
<1>1. v[0] \in Nat /\ v[1] \in Nat /\ f[0] \in [Nat -> Int] /\ f[1] \in [Nat -> Int] /\ (o = 0 \/ o = 1)
  BY DEF Outcomes, Curves
<1>2. \A a, b \in Int : CostAt(a, b) \in Int
  <2>1. 0 \in Outcomes /\ 0 \in Int
    BY DEF Outcomes
  <2> QED BY <2>1, CostMoves
<1> DEFINE G == Grown(f[o], o, v)
<1>3. f[o] \in [Nat -> Int]
  BY <1>1
<1>4. /\ G \in [Nat -> Int]
      /\ \A x \in 0..v[o] : G[x] = f[o][x]
      /\ \A x \in Nat : x > v[o] => G[x] = f[o][v[o]] + CostOver(o, x, v)
  BY <1>3, GrownIs
<1> HIDE DEF G
<1>5. e \in Curves
  BY <1>4 DEF Curves, G
<1>6. ASSUME NEW x \in 0..w[0], NEW y \in 0..w[1]
      PROVE  e[0][x] + e[1][y] <= CostAt(x, y) - CostAt(0, 0)
  <2>0. PICK a \in Nat, b \in Nat : a = v[0] /\ b = v[1]
    BY <1>1
  <2>a. \A i \in 0..a, j \in 0..b : f[0][i] + f[1][j] <= CostAt(i, j) - CostAt(0, 0)
    BY <2>0 DEF Under
  <2>1. CASE o = 0
    <3>1. e[0] = G /\ e[1] = f[1] /\ w[1] = b /\ w[0] = a + n
      BY <1>1, <2>0, <2>1 DEF Curves, Outcomes, G
    <3>2. y \in 0..b /\ x \in Nat /\ y \in Nat
      BY <2>0, <3>1
    <3>3. CASE x <= a
      <4>1. x \in 0..a
        BY <3>2, <3>3
      <4>2. G[x] = f[0][x]
        BY <1>4, <2>0, <2>1, <4>1
      <4> QED BY <2>a, <3>1, <3>2, <4>1, <4>2
    <3>4. CASE x > a
      <4>1. G[x] = f[0][a] + (CostAt(x, b) - CostAt(a, b))
        BY <1>4, <2>0, <2>1, <3>2, <3>4 DEF CostOver
      <4>2. f[0][a] + f[1][y] <= CostAt(a, y) - CostAt(0, 0)
        <5>1. a \in 0..a
          OBVIOUS
        <5> QED BY <2>a, <3>2, <5>1
      <4>3. CostAt(x, b) - CostAt(a, b) <= CostAt(x, y) - CostAt(a, y)
        <5>1. x - a \in Nat /\ b - y \in Nat /\ a + (x - a) = x /\ y + (b - y) = b /\ y \in Int /\ a \in Int
          BY <3>2, <3>4
        <5>2. CostAt(a + (x - a), y + (b - y)) - CostAt(a, y + (b - y)) <= CostAt(a + (x - a), y) - CostAt(a, y)
          BY <5>1, OtherCheapens
        <5> QED BY <5>1, <5>2
      <4>4. /\ CostAt(x, b) \in Int /\ CostAt(a, b) \in Int /\ CostAt(x, y) \in Int /\ CostAt(a, y) \in Int
            /\ CostAt(0, 0) \in Int /\ f[0][a] \in Int /\ f[1][y] \in Int
        BY <1>1, <1>2, <3>2
      <4> QED BY <3>1, <4>1, <4>2, <4>3, <4>4
    <3> QED BY <3>2, <3>3, <3>4
  <2>2. CASE o = 1
    <3>1. e[1] = G /\ e[0] = f[0] /\ w[0] = a /\ w[1] = b + n
      BY <1>1, <2>0, <2>2 DEF Curves, Outcomes, G
    <3>2. x \in 0..a /\ x \in Nat /\ y \in Nat
      BY <2>0, <3>1
    <3>3. CASE y <= b
      <4>1. y \in 0..b
        BY <3>2, <3>3
      <4>2. G[y] = f[1][y]
        BY <1>4, <2>0, <2>2, <4>1
      <4> QED BY <2>a, <3>1, <3>2, <4>1, <4>2
    <3>4. CASE y > b
      <4>1. G[y] = f[1][b] + (CostAt(a, y) - CostAt(a, b))
        BY <1>4, <2>0, <2>2, <3>2, <3>4 DEF CostOver
      <4>2. f[0][x] + f[1][b] <= CostAt(x, b) - CostAt(0, 0)
        <5>1. b \in 0..b
          OBVIOUS
        <5> QED BY <2>a, <3>2, <5>1
      <4>3. CostAt(a, y) - CostAt(x, y) <= CostAt(a, b) - CostAt(x, b)
        <5>1. a - x \in Nat /\ y - b \in Nat /\ x + (a - x) = a /\ b + (y - b) = y /\ x \in Int /\ b \in Int
          BY <3>2, <3>4
        <5>2. CostAt(x + (a - x), b + (y - b)) - CostAt(x, b + (y - b)) <= CostAt(x + (a - x), b) - CostAt(x, b)
          BY <5>1, OtherCheapens
        <5> QED BY <5>1, <5>2
      <4>4. /\ CostAt(x, b) \in Int /\ CostAt(a, b) \in Int /\ CostAt(x, y) \in Int /\ CostAt(a, y) \in Int
            /\ CostAt(0, 0) \in Int /\ f[0][x] \in Int /\ f[1][b] \in Int
        BY <1>1, <1>2, <3>2
      <4> QED BY <3>1, <4>1, <4>2, <4>3, <4>4
    <3> QED BY <3>2, <3>3, <3>4
  <2> QED BY <1>1, <2>1, <2>2
<1>7. Under(e, w)
  BY <1>6 DEF Under
<1> QED BY <1>5, <1>7

\* What a stack of lots is refunded is what its shares cost, and the extras.
LEMMA RefundsBounded ==
  ASSUME EveryLead, NEW o \in Outcomes, NEW lots, Stack(lots, o), NEW g \in [Nat -> Int], Tells(g, lots, o)
  PROVE  Grain * RefundsOf(lots, o) <= g[Held(lots)] - g[0] + Extras(lots, o)
<1> DEFINE N == Len(lots)
           F == [i \in 1..N |-> RefundOfLot(lots[i], o)]
           G == [i \in 1..N |-> Extra(lots[i], o)]
           T == {i \in Nat : i <= N => Grain * SumFunctionOnSet(F, 1..i)
                                         <= g[Below(lots, i)] - g[0] + SumFunctionOnSet(G, 1..i)}
<1>1. lots \in Seq(Lot) /\ N \in Nat /\ DOMAIN lots = 1..N
  BY DEF Stack
<1>2. RefundsOf(lots, o) = SumFunctionOnSet(F, 1..N)
  <2>1. RefundsOf(lots, o) = SumFunction(F)
    BY <1>1 DEF RefundsOf
  <2>2. DOMAIN F = 1..N
    OBVIOUS
  <2> HIDE DEF F
  <2> QED BY <2>1, <2>2 DEF SumFunction
<1>3. Extras(lots, o) = SumFunctionOnSet(G, 1..N)
  BY DEF Extras
<1>4. Grain \in Nat
  BY ScaleAssumption
<1>5. ASSUME NEW i \in 1..N
      PROVE  /\ F[i] \in Nat /\ G[i] \in Int
             /\ Grain * F[i] <= Raw(lots[i], o, lots[i].left) + G[i]
             /\ Raw(lots[i], o, lots[i].left) \in Int
  <2> DEFINE l == lots[i]
  <2>1. LotSound(l, o) /\ l \in Lot /\ l.left \in Nat /\ l.charged \in Nat
    BY DEF Stack, LotSound, Lot
  <2>2. F[i] = RefundOfLot(l, o) /\ G[i] = Extra(l, o)
    OBVIOUS
  <2> HIDE DEF l
  <2>3. Raw(l, o, l.left) \in Int /\ Extra(l, o) \in Int
    <3>1. Raw(l, o, l.left) \in Int
      BY <2>1, RawInt
    <3>2. Extra(l, o) \in Int
      BY <2>1, ExtraInt
    <3> QED BY <3>1, <3>2
  <2>4. CASE l.left = l.bought
    <3>1. RefundOfLot(l, o) = l.charged /\ Extra(l, o) = Grain * l.charged - Raw(l, o, l.left)
      BY <2>4 DEF RefundOfLot, Extra
    <3>2. Grain * l.charged \in Int
      BY <1>4, <2>1
    <3>3. Grain * l.charged <= Raw(l, o, l.left) + (Grain * l.charged - Raw(l, o, l.left))
      BY <2>3, <3>2
    <3> QED BY <2>1, <2>2, <2>3, <3>1, <3>3 DEF l
  <2>5. CASE l.left # l.bought
    <3> DEFINE d == l.before[0] - l.before[1] + Lead(o, l.left)
               p == Price(o, "sell", l.left, d)
    <3>1. RefundOfLot(l, o) = p /\ Extra(l, o) = 0
      BY <2>5 DEF RefundOfLot, Extra
    <3>2. d \in Int /\ CostOf(o, -l.left, d) = -Raw(l, o, l.left)
      BY <2>1, RawBack
    <3> HIDE DEF d
    <3>3. "sell" \in Sides /\ Signed("sell", l.left) = -l.left
      BY DEF Sides, Signed
    <3>4. p \in Nat /\ Grain * p <= -CostOf(o, -l.left, d)
      BY <2>1, <3>2, <3>3, PriceCovers
    <3> HIDE DEF p
    <3>5. Grain * p <= Raw(l, o, l.left) + 0
      BY <2>3, <3>2, <3>4
    <3> QED BY <2>2, <2>3, <3>1, <3>4, <3>5 DEF l
  <2> QED BY <2>4, <2>5
<1>6. /\ \A i \in 1..N : F[i] \in Int /\ G[i] \in Int
  BY <1>5
<1>7. \A i \in 0..N : /\ SumFunctionOnSet(F, 1..0) = 0 /\ SumFunctionOnSet(G, 1..0) = 0
                      /\ SumFunctionOnSet(F, 1..i) \in Int /\ SumFunctionOnSet(G, 1..i) \in Int
                      /\ i < N => /\ SumFunctionOnSet(F, 1..i + 1) = SumFunctionOnSet(F, 1..i) + F[i + 1]
                                  /\ SumFunctionOnSet(G, 1..i + 1) = SumFunctionOnSet(G, 1..i) + G[i + 1]
  <2> HIDE DEF F, G
  <2> QED BY <1>1, <1>6, SumsUnroll
<1>8. \A i \in 0..N : /\ Below(lots, 0) = 0 /\ Below(lots, i) \in Nat
                      /\ i < N => Below(lots, i + 1) = Below(lots, i) + lots[i + 1].left /\ lots[i + 1].left \in Nat
  BY <1>1, BelowUnrolls
<1>9. \A i \in 0..N : g[Below(lots, i)] \in Int
  BY <1>8
<1> HIDE DEF N, F, G
<1>10. 0 \in T
  <2>1. 0 \in 0..N
    BY <1>1
  <2>2. Below(lots, 0) = 0 /\ SumFunctionOnSet(F, 1..0) = 0 /\ SumFunctionOnSet(G, 1..0) = 0 /\ g[0] \in Int
    BY <1>7, <1>8, <2>1
  <2>3. Grain * 0 <= g[0] - g[0] + 0
    BY <1>4, <2>2
  <2> QED BY <2>2, <2>3
<1>11. ASSUME NEW i \in T PROVE i + 1 \in T
  <2>1. CASE i + 1 <= N
    <3>1. i \in 0..N /\ i < N /\ i <= N /\ i + 1 \in 1..N /\ (i + 1) - 1 = i /\ i + 1 \in 0..N
      BY <1>1, <2>1
    <3>2. PICK s \in Int, t \in Int, a \in Nat, b \in Int :
            s = SumFunctionOnSet(F, 1..i) /\ t = SumFunctionOnSet(G, 1..i) /\ a = F[i + 1] /\ b = G[i + 1]
      BY <1>5, <1>7, <3>1
    <3>3. SumFunctionOnSet(F, 1..i + 1) = s + a /\ SumFunctionOnSet(G, 1..i + 1) = t + b
      BY <1>7, <3>1, <3>2
    <3>4. Grain * s <= g[Below(lots, i)] - g[0] + t
      BY <3>1, <3>2
    <3>5. PICK m \in Nat : m = lots[i + 1].left
      BY <1>8, <3>1
    <3>6. Below(lots, i + 1) = Below(lots, i) + m
      BY <1>8, <3>1, <3>5
    <3>7. Raw(lots[i + 1], o, m) = g[Below(lots, i) + m] - g[Below(lots, i)]
      <4>1. m \in 0..lots[i + 1].left
        BY <3>5
      <4> QED BY <3>1, <4>1 DEF Tells, N
    <3>8. Grain * a <= g[Below(lots, i) + m] - g[Below(lots, i)] + b
      BY <1>5, <3>1, <3>2, <3>5, <3>7
    <3>9. PICK c \in Int, d \in Int, z \in Int : c = g[Below(lots, i)] /\ d = g[Below(lots, i) + m] /\ z = g[0]
      BY <1>9, <3>1, <3>6
    <3>10. Grain * (s + a) <= d - z + (t + b)
      <4>1. Grain * (s + a) = Grain * s + Grain * a /\ Grain * s \in Int /\ Grain * a \in Int
        BY <1>4, Distributes
      <4>2. Grain * s <= c - z + t /\ Grain * a <= d - c + b
        BY <3>4, <3>8, <3>9
      <4>3. PICK j \in Int, k \in Int : j = Grain * s /\ k = Grain * a
        BY <4>1
      <4> QED BY <4>1, <4>2, <4>3
    <3> QED BY <3>3, <3>6, <3>9, <3>10
  <2> QED BY <2>1
<1>12. N \in T
  <2> HIDE DEF T
  <2>1. \A i \in 0..N : i \in T
    BY <1>1, <1>10, <1>11, Climbs
  <2> QED BY <1>1, <2>1
<1>13. Grain * SumFunctionOnSet(F, 1..N) <= g[Below(lots, N)] - g[0] + SumFunctionOnSet(G, 1..N)
  BY <1>1, <1>12
<1> QED BY <1>2, <1>3, <1>13 DEF Held, N

\* What a trader who traded alone has paid covers what the pool's shares cost,
\* and every extra; and what each of their lots cost is told by a curve.
Alone(r, u, paid) ==
  /\ \E f \in Curves :
       /\ Under(f, r.q)
       /\ \A o \in Outcomes : f[o][0] = 0 /\ Tells(f[o], r.lots[<<u, o>>], o)
  /\ \A o \in Outcomes : r.q[o] = Held(r.lots[<<u, o>>])
  /\ Grain * paid >= CostAt(r.q[0], r.q[1]) - CostAt(0, 0)
                       + Extras(r.lots[<<u, 0>>], 0) + Extras(r.lots[<<u, 1>>], 1)

\* The cost function is a whole number of grains.
LEMMA CostInt ==
  ASSUME EveryLead, NEW a \in Int, NEW b \in Int
  PROVE  CostAt(a, b) \in Int
<1>1. 0 \in Outcomes /\ 0 \in Int
  BY DEF Outcomes
<1> QED BY <1>1, CostMoves

\* Alone holds of no trades, and is kept by each trade of that trader's.
LEMMA AloneStarts ==
  ASSUME EveryLead, NEW u \in Users
  PROVE  Alone(NoLots, u, 0)
<1> DEFINE f == [o \in Outcomes |-> [x \in Nat |-> 0]]
<1>1. f \in Curves /\ \A o \in Outcomes : \A x \in Nat : f[o][x] = 0
  BY DEF Curves
<1>2. \A o \in Outcomes : NoLots.q[o] = 0
  BY DEF NoLots, NoShares
<1>3. \A o \in Outcomes : <<u, o>> \in Holders /\ NoLots.lots[<<u, o>>] = <<>> /\ Held(NoLots.lots[<<u, o>>]) = 0
  BY NoLotsSound DEF Holders
<1>4. CostAt(0, 0) \in Int
  BY CostInt
<1>5. \A o \in Outcomes : Extras(NoLots.lots[<<u, o>>], o) = 0
  <2>1. ASSUME NEW o \in Outcomes PROVE Extras(NoLots.lots[<<u, o>>], o) = 0
    <3>1. Len(<<>>) = 0 /\ 1..0 = {}
      OBVIOUS
    <3>2. SumFunctionOnSet([i \in 1..0 |-> Extra(<<>>[i], o)], {}) = 0
      BY SumEmpty
    <3> QED BY <1>3, <3>1, <3>2 DEF Extras
  <2> QED BY <2>1
<1> HIDE DEF f
<1>6. Under(f, NoLots.q)
  <2>1. 0 \in Outcomes /\ 1 \in Outcomes
    BY DEF Outcomes
  <2>2. ASSUME NEW x \in 0..NoLots.q[0], NEW y \in 0..NoLots.q[1]
        PROVE  f[0][x] + f[1][y] <= CostAt(x, y) - CostAt(0, 0)
    <3>1. x = 0 /\ y = 0
      BY <1>2, <2>1
    <3>2. f[0][0] = 0 /\ f[1][0] = 0
      BY <1>1, <2>1
    <3> QED BY <1>4, <3>1, <3>2
  <2> QED BY <2>2 DEF Under
<1>7. \A o \in Outcomes : f[o][0] = 0 /\ Tells(f[o], NoLots.lots[<<u, o>>], o)
  BY <1>1, <1>3 DEF Tells
<1>8. Grain * 0 >= CostAt(0, 0) - CostAt(0, 0) + 0 + 0
  BY <1>4, ScaleAssumption
<1>9. 0 \in Outcomes /\ 1 \in Outcomes
  BY DEF Outcomes
<1> QED BY <1>1, <1>2, <1>3, <1>5, <1>6, <1>7, <1>8, <1>9 DEF Alone

\* The cost function after a trade, in terms of the trade's own cost.
LEMMA CostAfter ==
  ASSUME EveryLead, NEW v \in [Outcomes -> Nat], NEW o \in Outcomes, NEW n \in Int, NEW w,
         w = [v EXCEPT ![o] = @ + n]
  PROVE  /\ CostAt(w[0], w[1]) - CostAt(0, 0) = (CostAt(v[0], v[1]) - CostAt(0, 0)) + CostOf(o, n, v[0] - v[1])
         /\ CostAt(v[0], v[1]) - CostAt(0, 0) \in Int /\ CostAt(w[0], w[1]) - CostAt(0, 0) \in Int
<1>1. PICK a \in Nat, b \in Nat : a = v[0] /\ b = v[1]
  BY DEF Outcomes
<1>2. /\ CostAt(a, b) \in Int
      /\ CostOf(o, n, a - b) = IF o = 0 THEN CostAt(a + n, b) - CostAt(a, b) ELSE CostAt(a, b + n) - CostAt(a, b)
  BY CostMoves
<1>3. CostAt(0, 0) \in Int /\ CostAt(a + n, b) \in Int /\ CostAt(a, b + n) \in Int
  <2>1. a + n \in Int /\ b + n \in Int
    OBVIOUS
  <2>2. CostAt(0, 0) \in Int
    BY CostInt
  <2>3. CostAt(a + n, b) \in Int
    BY <2>1, CostInt
  <2>4. CostAt(a, b + n) \in Int
    BY <2>1, CostInt
  <2> QED BY <2>2, <2>3, <2>4
<1>4. CASE o = 0
  <2>1. w[0] = a + n /\ w[1] = b
    BY <1>1, <1>4 DEF Outcomes
  <2> QED BY <1>1, <1>2, <1>3, <1>4, <2>1
<1>5. CASE o = 1
  <2>1. w[1] = b + n /\ w[0] = a
    BY <1>1, <1>5 DEF Outcomes
  <2> QED BY <1>1, <1>2, <1>3, <1>5, <2>1
<1> QED BY <1>4, <1>5 DEF Outcomes

LEMMA AloneTrade ==
  ASSUME EveryLead, NEW r, ReplaySound(r), NEW t, Fits(r, t),
         NEW paid \in Int, Alone(r, t.user, paid)
  PROVE  Alone(ReplayTrade(r, t), t.user, paid + Signed(t.side, t.total))
<1> DEFINE x == ReplayTrade(r, t)
           u == t.user
           o == t.outcome
           k == <<u, o>>
           n == t.quantity
           lots == r.lots[k]
<1>1. /\ t \in Entry /\ o \in Outcomes /\ t.side \in Sides /\ n \in Nat \ {0}
      /\ u \in Users /\ t.total \in Nat
  BY DEF Fits, Entry
<1>2. /\ ReplaySound(x)
      /\ x.q = [r.q EXCEPT ![o] = @ + Signed(t.side, n)]
      /\ \A h \in Holders : h # k => x.lots[h] = r.lots[h]
      /\ x.lots[k] = IF t.side = "buy" THEN Append(lots, LotOf(t, r.q)) ELSE SellNewestFirst(lots, n)
      /\ Held(x.lots[k]) = Held(lots) + Signed(t.side, n)
  BY TradeReplays
<1>3. r.q \in [Outcomes -> Nat] /\ x.q \in [Outcomes -> Nat]
  BY <1>2 DEF ReplaySound
<1>4. \A p \in Outcomes : <<u, p>> \in Holders /\ Stack(r.lots[<<u, p>>], p) /\ (p # o => <<u, p>> # k)
  BY <1>1 DEF ReplaySound, Holders
<1>5. Stack(lots, o) /\ \A p \in Outcomes : p # o => x.lots[<<u, p>>] = r.lots[<<u, p>>]
  BY <1>1, <1>2, <1>4
<1>6. PICK f \in Curves : /\ Under(f, r.q)
                          /\ \A p \in Outcomes : f[p][0] = 0 /\ Tells(f[p], r.lots[<<u, p>>], p)
  BY DEF Alone
<1>7. f[o] \in [Nat -> Int] /\ f[o][0] = 0 /\ Tells(f[o], lots, o)
  BY <1>1, <1>6 DEF Curves
<1>8. Held(lots) = r.q[o] /\ Held(lots) \in Nat
  <2>1. Held(lots) = r.q[o]
    BY <1>1 DEF Alone
  <2> QED BY <1>1, <1>3, <2>1
<1> HIDE DEF x, u, o, lots, n
<1>9. \A p \in Outcomes : x.q[p] = Held(x.lots[<<u, p>>])
  <2>1. ASSUME NEW p \in Outcomes PROVE x.q[p] = Held(x.lots[<<u, p>>])
    <3>1. CASE p = o
      BY <1>1, <1>2, <1>3, <1>8, <3>1
    <3>2. CASE p # o
      <4>1. x.q[p] = r.q[p]
        BY <1>2, <1>3, <3>2
      <4>2. x.lots[<<u, p>>] = r.lots[<<u, p>>]
        BY <1>5, <3>2
      <4>3. r.q[p] = Held(r.lots[<<u, p>>])
        BY DEF Alone, u
      <4> QED BY <4>1, <4>2, <4>3
    <3> QED BY <3>1, <3>2
  <2> QED BY <2>1
<1>10. \E e \in Curves :
         /\ Under(e, x.q)
         /\ \A p \in Outcomes : e[p][0] = 0 /\ Tells(e[p], x.lots[<<u, p>>], p)
  <2>1. CASE t.side = "buy"
    <3> DEFINE G == Grown(f[o], o, r.q)  e == [f EXCEPT ![o] = G]  l == LotOf(t, r.q)
    <3>1. Signed(t.side, n) = n /\ n \in Nat
      BY <1>1, <2>1 DEF Signed
    <3>2. e \in Curves /\ Under(e, x.q)
      BY <1>1, <1>2, <1>3, <1>6, <3>1, UnderBuy
    <3>3. /\ \A i \in 0..Held(lots) : G[i] = f[o][i]
          /\ \A i \in Nat : G[r.q[o] + i] = f[o][r.q[o]] + CostOf(o, i, r.q[0] - r.q[1]) /\ CostOf(o, i, r.q[0] - r.q[1]) \in Int
      <4>1. /\ \A i \in 0..r.q[o] : G[i] = f[o][i]
            /\ \A i \in Nat : /\ G[r.q[o] + i] = f[o][r.q[o]] + CostOf(o, i, r.q[0] - r.q[1])
                              /\ CostOf(o, i, r.q[0] - r.q[1]) \in Int
        <5>1. PICK v \in [Outcomes -> Nat], g \in [Nat -> Int] : v = r.q /\ g = f[o]
          BY <1>3, <1>7
        <5>2. /\ \A i \in 0..v[o] : Grown(g, o, v)[i] = g[i]
              /\ \A i \in Nat : /\ Grown(g, o, v)[v[o] + i] = g[v[o]] + CostOf(o, i, v[0] - v[1])
                                /\ CostOf(o, i, v[0] - v[1]) \in Int
          BY <1>1, <5>1, GrownIs
        <5>3. G = Grown(g, o, v)
          BY <5>1
        <5> HIDE DEF G
        <5> QED BY <5>1, <5>2, <5>3
      <4> HIDE DEF G
      <4> QED BY <1>8, <4>1
    <3>4. e[o] = G /\ \A p \in Outcomes : p # o => e[p] = f[p]
      BY <1>1, <1>6 DEF Curves
    <3> HIDE DEF G, e
    <3>5. l \in Lot /\ l.left = n /\ l.before = r.q
      BY <1>1, <1>3 DEF LotOf, Lot, n
    <3> HIDE DEF l
    <3>6. \A i \in 0..l.left : Raw(l, o, i) = G[Held(lots) + i] - G[Held(lots)]
      <4>1. ASSUME NEW i \in 0..l.left PROVE Raw(l, o, i) = G[Held(lots) + i] - G[Held(lots)]
        <5>1. i \in Nat
          BY <1>1, <3>5
        <5>2. Raw(l, o, i) = CostOf(o, i, r.q[0] - r.q[1])
          BY <3>5 DEF Raw
        <5>3. Held(lots) \in 0..Held(lots) /\ f[o][r.q[o]] \in Int
          BY <1>7, <1>8
        <5>4. G[Held(lots)] = f[o][r.q[o]]
          BY <1>8, <3>3, <5>3
        <5>5. /\ G[Held(lots) + i] = f[o][r.q[o]] + CostOf(o, i, r.q[0] - r.q[1])
              /\ CostOf(o, i, r.q[0] - r.q[1]) \in Int
          BY <1>8, <3>3, <5>1
        <5> QED BY <5>2, <5>3, <5>4, <5>5
      <4> QED BY <4>1
    <3>7. Tells(G, Append(lots, l), o)
      BY <1>1, <1>5, <1>7, <3>3, <3>5, <3>6, TellsBuy
    <3>8. G[0] = 0
      <4>1. 0 \in 0..Held(lots)
        BY <1>8
      <4> QED BY <1>7, <3>3, <4>1
    <3>9. ASSUME NEW p \in Outcomes PROVE e[p][0] = 0 /\ Tells(e[p], x.lots[<<u, p>>], p)
      <4>1. CASE p = o
        <5>1. x.lots[<<u, p>>] = Append(lots, l)
          BY <1>2, <2>1, <4>1 DEF l
        <5> QED BY <3>4, <3>7, <3>8, <4>1, <5>1
      <4>2. CASE p # o
        BY <1>5, <1>6, <3>4, <4>2
      <4> QED BY <4>1, <4>2
    <3> QED BY <3>2, <3>9
  <2>2. CASE t.side = "sell"
    <3>1. n \in Nat /\ n <= Held(lots) /\ Signed(t.side, n) = -n
      BY <1>1, <2>2 DEF Fits, Signed, n, lots, o, u
    <3>2. Tells(f[o], SellNewestFirst(lots, n), o)
      BY <1>1, <1>5, <1>7, <3>1, TellsSell
    <3>3. \A p \in Outcomes : x.q[p] <= r.q[p]
      <4>1. x.q[o] = r.q[o] - n
        BY <1>1, <1>2, <1>3, <3>1
      <4>2. \A p \in Outcomes : p # o => x.q[p] = r.q[p]
        BY <1>2, <1>3
      <4>3. \A p \in Outcomes : r.q[p] \in Nat
        BY <1>3
      <4> QED BY <3>1, <4>1, <4>2, <4>3
    <3>4. Under(f, x.q)
      BY <1>3, <1>6, <3>3, UnderSell
    <3>5. ASSUME NEW p \in Outcomes PROVE f[p][0] = 0 /\ Tells(f[p], x.lots[<<u, p>>], p)
      <4>1. CASE p = o
        <5>1. x.lots[<<u, p>>] = SellNewestFirst(lots, n)
          BY <1>2, <2>2, <4>1
        <5> QED BY <1>7, <3>2, <4>1, <5>1
      <4>2. CASE p # o
        BY <1>5, <1>6, <4>2
      <4> QED BY <4>1, <4>2
    <3> QED BY <1>6, <3>4, <3>5
  <2> QED BY <1>1, <2>1, <2>2 DEF Sides
<1> DEFINE dc == CostOf(o, Signed(t.side, n), r.q[0] - r.q[1])
           C(v) == CostAt(v[0], v[1]) - CostAt(0, 0)
           E(y) == Extras(y.lots[<<u, 0>>], 0) + Extras(y.lots[<<u, 1>>], 1)
<1>11. /\ C(x.q) = C(r.q) + dc /\ C(r.q) \in Int /\ dc \in Int /\ C(x.q) \in Int
  <2>1. Signed(t.side, n) \in Int /\ r.q[0] - r.q[1] \in Int /\ n \in Nat
    BY <1>1, <1>3 DEF Signed, Sides, Outcomes
  <2>2. dc \in Int
    BY <1>1, <2>1, CostSigned
  <2>3. /\ CostAt(x.q[0], x.q[1]) - CostAt(0, 0) = (CostAt(r.q[0], r.q[1]) - CostAt(0, 0)) + dc
        /\ CostAt(r.q[0], r.q[1]) - CostAt(0, 0) \in Int /\ CostAt(x.q[0], x.q[1]) - CostAt(0, 0) \in Int
    <3>1. PICK v \in [Outcomes -> Nat], w \in [Outcomes -> Nat], m \in Int : v = r.q /\ w = x.q /\ m = Signed(t.side, n)
      BY <1>3, <2>1
    <3>2. w = [v EXCEPT ![o] = @ + m]
      BY <1>2, <3>1
    <3>3. /\ CostAt(w[0], w[1]) - CostAt(0, 0) = (CostAt(v[0], v[1]) - CostAt(0, 0)) + CostOf(o, m, v[0] - v[1])
          /\ CostAt(v[0], v[1]) - CostAt(0, 0) \in Int /\ CostAt(w[0], w[1]) - CostAt(0, 0) \in Int
      <4>1. v \in [Outcomes -> Nat] /\ m \in Int /\ o \in Outcomes
        BY <1>1, <3>1
      <4> QED BY <3>2, <4>1, CostAfter
    <3> QED BY <3>1, <3>3
  <2> HIDE DEF dc
  <2> QED BY <2>2, <2>3
<1>12. \E c \in Int : /\ Extras(x.lots[k], o) <= Extras(lots, o) + c
                      /\ Extras(x.lots[k], o) \in Int /\ Extras(lots, o) \in Int
                      /\ dc + c <= Grain * Signed(t.side, t.total)
  <2>0. Grain \in Nat /\ r.q[0] - r.q[1] \in Int
    BY <1>3, ScaleAssumption DEF Outcomes
  <2>1. CASE t.side = "buy"
    <3> DEFINE l == LotOf(t, r.q)
    <3>1. LotSound(l, o)
      <4>1. t.total = Price(o, "buy", t.quantity, r.q[0] - r.q[1])
        BY <2>1 DEF Fits, o
      <4> QED BY <1>1, <1>3, <1>5, <2>1, <4>1, BuyStacks DEF o
    <3>2. l.left = n /\ l.bought = n /\ l.before = r.q /\ l.charged = t.total
      BY DEF LotOf, n
    <3> HIDE DEF l
    <3>3. Extra(l, o) = Grain * t.total - dc
      BY <2>1, <3>2 DEF Extra, Raw, Signed
    <3>4. Extras(Append(lots, l), o) = Extras(lots, o) + Extra(l, o) /\ Extras(lots, o) \in Int
      BY <1>1, <1>5, <3>1, ExtrasBuy
    <3>5. x.lots[k] = Append(lots, l)
      BY <1>2, <2>1 DEF l
    <3>6. Grain * t.total \in Int /\ Signed(t.side, t.total) = t.total
      BY <1>1, <2>0, <2>1 DEF Signed
    <3> HIDE DEF dc, k
    <3>7. Extra(l, o) \in Int /\ dc + Extra(l, o) <= Grain * Signed(t.side, t.total)
      BY <1>11, <3>3, <3>6
    <3>8. Extras(x.lots[k], o) = Extras(lots, o) + Extra(l, o)
      BY <3>4, <3>5
    <3> QED BY <3>4, <3>7, <3>8
  <2>2. CASE t.side = "sell"
    <3>1. n \in Nat /\ n <= Held(lots)
      BY <1>1, <2>2 DEF Fits, n, lots, o, u
    <3>2. x.lots[k] = SellNewestFirst(lots, n)
      BY <1>2, <2>2
    <3>3. Extras(x.lots[k], o) <= Extras(lots, o) + 0 /\ Extras(x.lots[k], o) \in Int /\ Extras(lots, o) \in Int
      <4>1. /\ Extras(SellNewestFirst(lots, n), o) <= Extras(lots, o)
            /\ Extras(SellNewestFirst(lots, n), o) \in Int /\ Extras(lots, o) \in Int
        BY <1>1, <1>5, <3>1, ExtrasSell
      <4> QED BY <3>2, <4>1
    <3>4. Grain * t.total <= -dc
      <4>1. t.total = Price(o, "sell", n, r.q[0] - r.q[1]) /\ "sell" \in Sides
        BY <2>2 DEF Fits, o, n, Sides
      <4>2. Grain * Price(o, "sell", n, r.q[0] - r.q[1]) <= -CostOf(o, Signed("sell", n), r.q[0] - r.q[1])
        BY <1>1, <2>0, <3>1, <4>1, PriceCovers
      <4> QED BY <2>2, <4>1, <4>2
    <3>5. Signed(t.side, t.total) = -t.total /\ Grain * t.total \in Int /\ Grain * (-t.total) = -(Grain * t.total)
      BY <1>1, <2>0, <2>2 DEF Signed
    <3> HIDE DEF dc, k
    <3>6. dc + 0 <= Grain * Signed(t.side, t.total)
      BY <1>11, <3>4, <3>5
    <3> QED BY <3>3, <3>6
  <2> QED BY <1>1, <2>1, <2>2 DEF Sides
<1>13. PICK c \in Int : /\ Extras(x.lots[k], o) <= Extras(lots, o) + c
                        /\ Extras(x.lots[k], o) \in Int /\ Extras(lots, o) \in Int
                        /\ dc + c <= Grain * Signed(t.side, t.total)
  BY <1>12
<1>14. E(x) <= E(r) + c /\ E(x) \in Int /\ E(r) \in Int
  <2>0. \A p \in Outcomes : Extras(r.lots[<<u, p>>], p) \in Int
    <3>1. ASSUME NEW p \in Outcomes PROVE Extras(r.lots[<<u, p>>], p) \in Int
      <4>1. Stack(r.lots[<<u, p>>], p)
        BY <1>4 DEF u
      <4>2. 0 \in Nat
        OBVIOUS
      <4>3. 0 <= Held(r.lots[<<u, p>>])
        BY <4>1, HeldIs DEF Stack
      <4> QED BY <4>1, <4>2, <4>3, ExtrasSell
    <3> QED BY <3>1
  <2>1. \A p \in Outcomes : p # o => Extras(x.lots[<<u, p>>], p) = Extras(r.lots[<<u, p>>], p)
    BY <1>5
  <2>2. 0 \in Outcomes /\ 1 \in Outcomes /\ 0 # 1 /\ (o = 0 \/ o = 1)
    BY <1>1 DEF Outcomes
  <2>3. lots = r.lots[<<u, o>>] /\ k = <<u, o>>
    BY DEF lots, u, o
  <2>4. CASE o = 0
    BY <1>13, <2>0, <2>1, <2>2, <2>3, <2>4
  <2>5. CASE o = 1
    BY <1>13, <2>0, <2>1, <2>2, <2>3, <2>5
  <2> QED BY <2>2, <2>4, <2>5
<1>15. Grain * (paid + Signed(t.side, t.total)) >= C(x.q) + E(x)
  <2>1. Grain * paid >= C(r.q) + E(r)
    <3>1. Grain * paid >= CostAt(r.q[0], r.q[1]) - CostAt(0, 0)
                       + Extras(r.lots[<<u, 0>>], 0) + Extras(r.lots[<<u, 1>>], 1)
      BY DEF Alone, u
    <3>2. C(r.q) \in Int /\ Extras(r.lots[<<u, 0>>], 0) \in Int /\ Extras(r.lots[<<u, 1>>], 1) \in Int
      <4>1. ASSUME NEW p \in Outcomes PROVE Extras(r.lots[<<u, p>>], p) \in Int
        <5>1. Stack(r.lots[<<u, p>>], p)
          BY <1>4 DEF u
        <5>2. 0 \in Nat
          OBVIOUS
        <5>3. 0 <= Held(r.lots[<<u, p>>])
          BY <5>1, HeldIs DEF Stack
        <5> QED BY <5>1, <5>2, <5>3, ExtrasSell
      <4> QED BY <1>11, <4>1 DEF Outcomes
    <3> QED BY <3>1, <3>2
  <2> HIDE DEF C, E, dc
  <2>2. Signed(t.side, t.total) \in Int /\ Grain \in Int
    BY <1>1, ScaleAssumption DEF Signed
  <2>3. /\ Grain * (paid + Signed(t.side, t.total)) = Grain * paid + Grain * Signed(t.side, t.total)
        /\ Grain * paid \in Int /\ Grain * Signed(t.side, t.total) \in Int
    BY <2>2, Distributes
  <2> QED BY <1>11, <1>13, <1>14, <2>1, <2>3
<1>16. Grain * (paid + Signed(t.side, t.total)) >= CostAt(x.q[0], x.q[1]) - CostAt(0, 0)
                       + Extras(x.lots[<<u, 0>>], 0) + Extras(x.lots[<<u, 1>>], 1)
  <2>1. Extras(x.lots[<<u, 0>>], 0) \in Int /\ Extras(x.lots[<<u, 1>>], 1) \in Int
    <3>1. ASSUME NEW p \in Outcomes PROVE Extras(x.lots[<<u, p>>], p) \in Int
      <4>1. Stack(x.lots[<<u, p>>], p)
        <5>1. <<u, p>> \in Holders /\ <<u, p>>[2] = p
          BY <1>4 DEF u
        <5> QED BY <1>2, <5>1 DEF ReplaySound
      <4>2. 0 \in Nat
        OBVIOUS
      <4>3. 0 <= Held(x.lots[<<u, p>>])
        BY <4>1, HeldIs DEF Stack
      <4> QED BY <4>1, <4>2, <4>3, ExtrasSell
    <3> QED BY <3>1 DEF Outcomes
  <2>2. C(x.q) \in Int
    BY <1>11
  <2> QED BY <1>15, <2>1, <2>2
<1>17. Alone(x, u, paid + Signed(t.side, t.total))
  BY <1>9, <1>10, <1>16 DEF Alone
<1> QED BY <1>17 DEF x, u

\* A void owes nobody who traded alone more than they have paid.
LEMMA AloneRefunds ==
  ASSUME EveryLead, NEW r, ReplaySound(r), NEW u \in Users, NEW paid \in Int, Alone(r, u, paid),
         NEW a \in Int, NEW b \in Int, a = RefundsOf(r.lots[<<u, 0>>], 0), b = RefundsOf(r.lots[<<u, 1>>], 1)
  PROVE  a + b <= paid
<1>1. PICK f \in Curves : /\ Under(f, r.q)
                          /\ \A p \in Outcomes : f[p][0] = 0 /\ Tells(f[p], r.lots[<<u, p>>], p)
  BY DEF Alone
<1>2. PICK x \in Nat, y \in Nat : /\ x = r.q[0] /\ y = r.q[1]
                                  /\ x = Held(r.lots[<<u, 0>>]) /\ y = Held(r.lots[<<u, 1>>])
  BY DEF Alone, ReplaySound, Outcomes
<1>3. \A p \in Outcomes : Stack(r.lots[<<u, p>>], p)
  BY DEF ReplaySound, Holders
<1>4. 0 \in Outcomes /\ 1 \in Outcomes /\ f[0] \in [Nat -> Int] /\ f[1] \in [Nat -> Int]
  BY DEF Outcomes, Curves
<1>5. \A p \in Outcomes : Extras(r.lots[<<u, p>>], p) \in Int
  <2>1. ASSUME NEW p \in Outcomes PROVE Extras(r.lots[<<u, p>>], p) \in Int
    <3>1. 0 \in Nat /\ 0 <= Held(r.lots[<<u, p>>])
      BY <1>3, HeldIs DEF Stack
    <3> QED BY <1>3, <3>1, ExtrasSell
  <2> QED BY <2>1
<1>6. PICK s \in Int, t \in Int : s = Extras(r.lots[<<u, 0>>], 0) /\ t = Extras(r.lots[<<u, 1>>], 1)
  BY <1>4, <1>5
<1>7. Grain * a <= f[0][x] - 0 + s
  BY <1>1, <1>2, <1>3, <1>4, <1>6, RefundsBounded
<1>8. Grain * b <= f[1][y] - 0 + t
  BY <1>1, <1>2, <1>3, <1>4, <1>6, RefundsBounded
<1>9. f[0][x] + f[1][y] <= CostAt(x, y) - CostAt(0, 0)
  BY <1>1, <1>2 DEF Under
<1>10. Grain * paid >= CostAt(x, y) - CostAt(0, 0) + s + t
  BY <1>2, <1>6 DEF Alone
<1>11. CostAt(x, y) \in Int /\ CostAt(0, 0) \in Int /\ f[0][x] \in Int /\ f[1][y] \in Int
  <2>1. CostAt(x, y) \in Int
    BY <1>2, CostInt
  <2>2. CostAt(0, 0) \in Int
    BY CostInt
  <2> QED BY <1>4, <2>1, <2>2
<1>12. Grain \in Nat \ {0}
  BY ScaleAssumption
<1>13. Grain * (a + b) = Grain * a + Grain * b /\ Grain * a \in Int /\ Grain * b \in Int /\ Grain * paid \in Int
  BY <1>12, Distributes
<1>14. Grain * (a + b) <= Grain * paid
  BY <1>6, <1>7, <1>8, <1>9, <1>10, <1>11, <1>13
<1> QED BY <1>12, <1>14, LessByScale

----------------------------------------------------------------------------
(* The cut *)

\* A cut refund is no more than what it is cut from, and in its proportion.
LEMMA CutOne ==
  ASSUME NEW r \in Nat, NEW inPool \in Int, NEW all \in Nat, inPool + Seed >= 0, all > inPool + Seed
  PROVE  /\ CutTo(r, all, inPool) \in Nat /\ CutTo(r, all, inPool) <= r
         /\ all * CutTo(r, all, inPool) <= (inPool + Seed) * r
<1>1. PICK m \in Nat : m = inPool + Seed
  BY PositionsAssumption
<1>2. all \in Nat \ {0} /\ m <= all
  BY <1>1
<1>3. PICK n \in Nat : n = r * m
  BY <1>1
<1>4. CutTo(r, all, inPool) = n \div all
  BY <1>1, <1>3 DEF CutTo
<1>5. PICK z : z = n \div all
  OBVIOUS
<1>6. z \in Int /\ all * z <= n /\ n < all * z + all
  BY <1>2, <1>3, <1>5, DivTells
<1>7. z \in Nat
  BY <1>2, <1>3, <1>6
<1>8. n <= all * r
  BY <1>1, <1>2, <1>3
<1>9. z <= r
  <2>1. all * z <= all * r /\ z \in Int /\ r \in Int
    <3>1. all * z \in Int /\ all * r \in Int
      BY <1>6
    <3> QED BY <1>3, <1>6, <1>8, <3>1
  <2> QED BY <1>2, <2>1, LessByScale
<1>10. all * z <= m * r
  BY <1>1, <1>3, <1>6
<1> QED BY <1>1, <1>4, <1>5, <1>7, <1>9, <1>10

\* What is refunded is never more than the pool and one seed, each refund
\* never more than is owed, and all that is owed when nothing is cut.
LEMMA CutSound ==
  ASSUME NEW owed, IsFiniteSet(DOMAIN owed), \A h \in DOMAIN owed : owed[h] \in Nat,
         NEW inPool \in Int, inPool + Seed >= 0
  PROVE  LET cut == CutOf(owed, inPool)
             D == DOMAIN cut.refunds
         IN  /\ D \subseteq DOMAIN owed /\ IsFiniteSet(D)
             /\ \A h \in D : cut.refunds[h] \in Nat \ {0} /\ cut.refunds[h] <= owed[h]
             /\ ~ cut.cut => \A h \in DOMAIN owed : IF h \in D THEN cut.refunds[h] = owed[h] ELSE owed[h] = 0
             /\ cut.refunded \in Nat /\ cut.refunded <= inPool + Seed
             /\ cut.refunded = SumFunctionOnSet(cut.refunds, D)
             /\ cut.residue = inPool - cut.refunded
<1> DEFINE S == DOMAIN owed
           all == SumFunction(owed)
           short == IsShortBeyondOneSeed(all, inPool)
           pays(h) == IF short THEN CutTo(owed[h], all, inPool) ELSE owed[h]
           D == {h \in S : pays(h) > 0}
           R == [h \in D |-> pays(h)]
           cut == CutOf(owed, inPool)
<1>1. /\ cut.refunds = R /\ cut.cut = short /\ cut.refunded = SumFunction(R)
      /\ cut.residue = inPool - SumFunction(R)
  BY DEF CutOf
<1>2. all = SumFunctionOnSet(owed, S)
  BY DEF SumFunction
<1>3. all \in Nat
  <2>1. S \in SUBSET S
    OBVIOUS
  <2> QED BY <1>2, <2>1, SumNat
<1>4. Seed \in Nat /\ Seed > 0
  BY PositionsAssumption
<1>5. short <=> all > inPool + Seed
  BY <1>3, <1>4 DEF IsShortBeyondOneSeed
<1> HIDE DEF all, short, cut
<1>6. ASSUME NEW h \in S
      PROVE  pays(h) \in Nat /\ pays(h) <= owed[h] /\ (short => all * pays(h) <= (inPool + Seed) * owed[h])
  <2>1. CASE short
    BY <1>3, <1>5, <2>1, CutOne
  <2>2. CASE ~ short
    BY <2>2
  <2> QED BY <2>1, <2>2
<1> HIDE DEF pays
<1>7. D \subseteq S /\ IsFiniteSet(D) /\ DOMAIN R = D
  <2>1. D \subseteq S /\ DOMAIN R = D
    OBVIOUS
  <2> HIDE DEF D
  <2> QED BY <2>1, FS_Subset
<1>8. \A h \in D : h \in S /\ pays(h) > 0 /\ R[h] = pays(h)
  OBVIOUS
<1>9. \A h \in S : h \notin D => pays(h) = 0
  BY <1>6
<1> HIDE DEF D, R
<1>10. \A h \in D : R[h] \in Nat \ {0} /\ R[h] <= owed[h] /\ owed[h] \in Nat
  BY <1>6, <1>8
<1>11. ~ short => \A h \in S : IF h \in D THEN R[h] = owed[h] ELSE owed[h] = 0
  BY <1>8, <1>9 DEF pays
<1>12. SumFunction(R) = SumFunctionOnSet(R, D)
  BY <1>7 DEF SumFunction
<1>13. /\ SumFunctionOnSet(R, D) \in Nat
       /\ SumFunctionOnSet(owed, D) \in Nat /\ SumFunctionOnSet(owed, D) <= all
  <2>1. D \in SUBSET D /\ D \in SUBSET S /\ S \cap D = D
    BY <1>7
  <2>2. \A h \in D : R[h] \in Nat
    BY <1>10
  <2>3. SumFunctionOnSet(R, D) \in Nat
    BY <1>7, <2>1, <2>2, SumNat
  <2>4. SumFunctionOnSet(owed, D) \in Nat
    BY <2>1, SumNat
  <2>5. SumFunctionOnSet(owed, S \cap D) <= SumFunctionOnSet(owed, S)
    BY SumNarrows
  <2> QED BY <1>2, <2>1, <2>3, <2>4, <2>5
<1>14. SumFunctionOnSet(R, D) <= inPool + Seed
  <2>1. CASE ~ short
    <3>1. Bounds(1, R, 1, owed, D)
      <4>1. ASSUME NEW h \in D PROVE owed[h] \in Int /\ R[h] \in Int /\ 1 * R[h] <= 1 * owed[h]
        BY <1>10
      <4> QED BY <1>7, <4>1 DEF Bounds
    <3>2. 1 * SumFunctionOnSet(R, D) <= 1 * SumFunctionOnSet(owed, D)
      BY <3>1, SumBounded
    <3> QED BY <1>3, <1>4, <1>5, <1>13, <2>1, <3>2
  <2>2. CASE short
    <3>1. PICK m \in Nat : m = inPool + Seed
      BY <1>4
    <3>2. Bounds(all, R, m, owed, D)
      <4>1. ASSUME NEW h \in D PROVE owed[h] \in Int /\ R[h] \in Int /\ all * R[h] <= m * owed[h]
        BY <1>6, <1>8, <1>10, <2>2, <3>1
      <4> QED BY <1>7, <4>1 DEF Bounds
    <3>3. all * SumFunctionOnSet(R, D) <= m * SumFunctionOnSet(owed, D)
      BY <1>3, <3>2, SumBounded
    <3>4. PICK a \in Nat, b \in Nat : a = SumFunctionOnSet(R, D) /\ b = SumFunctionOnSet(owed, D)
      BY <1>13
    <3>5. all * a <= m * b /\ b <= all
      BY <1>13, <3>3, <3>4
    <3>6. m * b <= all * m
      BY <1>3, <3>5
    <3>7. all * a <= all * m
      BY <1>3, <3>5, <3>6
    <3>8. all \in Nat \ {0}
      BY <1>3, <1>4, <1>5, <2>2, <3>1
    <3>9. a <= m
      BY <3>7, <3>8, LessByScale
    <3> QED BY <3>1, <3>4, <3>9
  <2> QED BY <2>1, <2>2
<1>15. /\ cut.refunds = R /\ cut.cut = short /\ cut.refunded = SumFunctionOnSet(R, D)
       /\ cut.residue = inPool - SumFunctionOnSet(R, D) /\ DOMAIN cut.refunds = D
  BY <1>1, <1>7, <1>12
<1> QED BY <1>7, <1>10, <1>11, <1>13, <1>14, <1>15 DEF cut, S

----------------------------------------------------------------------------
(* The invariant *)

PositionsType ==
  /\ feed \in Seq(Entry)
  /\ q \in [Outcomes -> Nat]
  /\ positions \in [Users -> [Outcomes -> [quantity: Nat, basis: Nat]]]
  /\ granted \in SUBSET Users
  /\ balance \in [Owners -> Int] /\ banked \in [Users -> Int] /\ residue \in Int
  /\ \/ record = NoResult
     \/ record \in [kind: {"settled"}, winner: Outcomes]
     \/ record \in [kind: {"voided"}, by: Users \cup {Admin}]

\* The trades tell the book and the positions.
TradesTell ==
  /\ ReplaySound(Replay) /\ ~ Replay.oversold /\ Replay.q = q
  /\ \A i \in DOMAIN feed : feed[i].version = i
  /\ \A h \in Holders : Held(Replay.lots[h]) = positions[h[1]][h[2]].quantity

\* The shares outstanding are what is held; whoever has no grant has nothing.
SharesHeld ==
  /\ \A o \in Outcomes : q[o] = SumFunctionOnSet([u \in Users |-> positions[u][o].quantity], Users)
  /\ \A u \in Users, o \in Outcomes : positions[u][o].quantity = 0 => positions[u][o].basis = 0
  /\ \A u \in Users \ granted :
       balance[u] = 0 /\ banked[u] = 0 /\ u \notin Traders /\ \A o \in Outcomes : positions[u][o] = NoPosition
  /\ granted # {} \/ record # NoResult => fundings # {}

Put(u) == (IF u \in granted THEN Grant ELSE 0) - balance[u]

MoneyKept ==
  /\ record = NoResult =>
       /\ residue = 0
       /\ Grain * (balance["pool"] - Seed * Cardinality(fundings)) >= CostAt(q[0], q[1]) - CostAt(0, 0)
       /\ \A u \in Users : Traders \subseteq {u} => Alone(Replay, u, Put(u))
  /\ record # NoResult => balance["pool"] = 0
  /\ balance["platform"] = residue - Seed * Cardinality(fundings) - Grant * Cardinality(granted)
  /\ \A u \in granted : Realized(u) = banked[u]

\* What a void paid, holder by holder.
VoidPays ==
  LET owed == Owed(Replay)
  IN  /\ \A h \in Holders : PaidFor(h[1], h[2]) <= (IF h \in DOMAIN owed THEN owed[h] ELSE 0)
      /\ ~told.cut => \A h \in DOMAIN owed : PaidFor(h[1], h[2]) = owed[h]

EndTold ==
  /\ RepeatsTellTheSame
  /\ Voided => VoidPays /\ residue >= -Seed
  /\ AloneNeverProfits

PositionsInv == OpeningInv /\ PositionsType /\ TradesTell /\ SharesHeld /\ MoneyKept /\ EndTold

----------------------------------------------------------------------------
(* Funding, first reads and grants *)

\* The market is funded once, and only when its book is open.
LEMMA FundedOnce ==
  ASSUME OpeningInv
  PROVE  /\ IsFiniteSet(fundings)
         /\ Cardinality(fundings) = IF fundings = {} THEN 0 ELSE 1
         /\ Open <=> fundings # {}
<1>1. \A f, g \in fundings : f = g
  BY DEF OpeningInv, OpenedOnce
<1>2. Open <=> fundings # {}
  <2>1. "book" \in Rows \ {"platform"}
    BY DEF Rows
  <2>2. (row["book"] = NoOne) = (fundings = {})
    BY <2>1 DEF OpeningInv, OpenedOnce
  <2> QED BY <2>2 DEF Open
<1>3. CASE fundings = {}
  BY <1>2, <1>3, FS_EmptySet
<1>4. CASE fundings # {}
  <2>1. PICK f : fundings = {f}
    BY <1>1, <1>4
  <2> QED BY <1>2, <1>4, <2>1, FS_Singleton
<1> QED BY <1>3, <1>4

\* A funding is never undone, and a second one never follows.
LEMMA FundingsStay ==
  ASSUME OpeningInv, OpeningNext
  PROVE  /\ OpeningInv' /\ fundings \subseteq fundings'
         /\ Cardinality(fundings' \ fundings) = Cardinality(fundings') - Cardinality(fundings)
         /\ Cardinality(fundings') \in Nat /\ Cardinality(fundings) \in Nat
         /\ fundings # {} => fundings' = fundings
<1>1. OpeningInv'
  BY NextOpens
<1>2. fundings \subseteq fundings'
  <2>1. CASE \E s \in Openers : OpenerNext(s)
    <3>1. PICK s \in Openers : OpenerNext(s)
      BY <2>1
    <3> QED BY <3>1 DEF OpenerNext, Find, Fetch, Serve, HearNotFound, HearTerms, FailCall,
                        Ensure, Fund, Commit, Abort, tables
  <2>2. CASE Publish \/ Tick \/ GrantElsewhere \/ (\E p \in Processes : Evict(p))
    BY <2>2 DEF Publish, Tick, GrantElsewhere, Evict, tables
  <2> QED BY <2>1, <2>2 DEF OpeningNext
<1>3. Cardinality(fundings) = IF fundings = {} THEN 0 ELSE 1
  BY FundedOnce
<1>4. Cardinality(fundings') = IF fundings' = {} THEN 0 ELSE 1
  <2>1. \A f, g \in fundings' : f = g
    BY <1>1 DEF OpeningInv, OpenedOnce
  <2>2. CASE fundings' = {}
    BY <2>2, FS_EmptySet
  <2>3. CASE fundings' # {}
    <3>1. PICK f : fundings' = {f}
      BY <2>1, <2>3
    <3> QED BY <3>1, FS_Singleton
  <2> QED BY <2>2, <2>3
<1>5. fundings # {} => fundings' = fundings
  <2>1. \A f, g \in fundings' : f = g
    BY <1>1 DEF OpeningInv, OpenedOnce
  <2> QED BY <1>2, <2>1
<1>6. Cardinality(fundings' \ fundings) = Cardinality(fundings') - Cardinality(fundings)
  <2>1. CASE fundings = {}
    <3>1. fundings' \ fundings = fundings'
      BY <2>1
    <3> QED BY <1>3, <1>4, <2>1, <3>1
  <2>2. CASE fundings # {}
    <3>1. fundings' \ fundings = {}
      BY <1>5, <2>2
    <3>2. Cardinality({}) = 0
      BY FS_EmptySet
    <3> QED BY <1>3, <1>5, <2>2, <3>1, <3>2
  <2> QED BY <2>1, <2>2
<1> QED BY <1>1, <1>2, <1>3, <1>4, <1>5, <1>6

\* What the trades and the ending tell, where neither changes.
LEMMA SameTrades ==
  ASSUME UNCHANGED <<feed, q, positions>>
  PROVE  /\ Replay' = Replay /\ Traders' = Traders
         /\ TradesTell => TradesTell'
<1>1. Replay' = Replay /\ Traders' = Traders
  BY DEF Replay, Traders
<1> QED BY <1>1 DEF TradesTell

\* What an ending told stays told while trades and ending stay as they are.
LEMMA SameEnding ==
  ASSUME UNCHANGED <<feed, ended>>, RepeatsTellTheSame, Voided => VoidPays /\ residue >= -Seed
  PROVE  /\ RepeatsTellTheSame' /\ (Voided' <=> Voided)
         /\ Voided' => VoidPays' /\ residue' >= -Seed
<1>1. Replay' = Replay /\ UNCHANGED <<record, payments, residue, told>>
  BY DEF Replay, ended
<1>2. Voided' <=> Voided
  BY <1>1 DEF Voided
<1>3. Taken' = Taken /\ PoolBefore' = PoolBefore
  BY <1>1 DEF Taken, PoolBefore
<1>4. RepeatedVoid' = RepeatedVoid /\ ReplayedSettlement' = ReplayedSettlement
  BY <1>1, <1>3 DEF RepeatedVoid, ReplayedSettlement
<1>5. RepeatsTellTheSame'
  BY <1>1, <1>2, <1>4 DEF RepeatsTellTheSame
<1>6. \A u, o : PaidFor(u, o)' = PaidFor(u, o)
  BY <1>1 DEF PaidFor
<1>7. VoidPays => VoidPays'
  BY <1>1, <1>6 DEF VoidPays
<1> QED BY <1>1, <1>2, <1>5, <1>7

\* Facts about the constants.
LEMMA Names ==
  /\ "pool" \in Owners /\ "platform" \in Owners /\ "pool" # "platform"
  /\ \A u \in Users : u \in Owners /\ u # "pool" /\ u # "platform"
  /\ Grant \in Nat /\ Seed \in Nat /\ Seed > 0 /\ IsFiniteSet(Users) /\ Grain \in Nat /\ Grain > 0
BY PositionsAssumption, ScaleAssumption DEF Owners

\* The invariant holds at first.
LEMMA InitHolds ==
  ASSUME EveryLead, Init
  PROVE  PositionsInv
<1>1. OpeningInv /\ fundings = {}
  BY InitOpens DEF Init, InitOpening
<1>2. /\ feed = <<>> /\ q = NoShares /\ positions = [u \in Users |-> [o \in Outcomes |-> NoPosition]]
      /\ granted = {} /\ balance = [a \in Owners |-> 0] /\ record = NoResult /\ payments = {} /\ residue = 0
      /\ banked = [u \in Users |-> 0]
  BY DEF Init
<1>3. PositionsType
  <2>1. feed \in Seq(Entry)
    BY <1>2
  <2>2. q \in [Outcomes -> Nat] /\ positions \in [Users -> [Outcomes -> [quantity: Nat, basis: Nat]]]
    BY <1>2 DEF NoShares, NoPosition
  <2> QED BY <1>2, <2>1, <2>2 DEF PositionsType
<1>4. Replay = NoLots /\ Traders = {}
  <2>1. Replay = NoLots
    BY <1>2, ReplayStarts DEF Replay
  <2> QED BY <1>2, <2>1 DEF Traders
<1>5. TradesTell
  <2>1. NoLots.q = NoShares /\ ~ NoLots.oversold
    BY DEF NoLots
  <2>2. \A h \in Holders : positions[h[1]][h[2]].quantity = 0
    BY <1>2 DEF Holders, NoPosition
  <2>3. \A i \in DOMAIN feed : feed[i].version = i
    BY <1>2
  <2> QED BY <1>2, <1>4, <2>1, <2>2, <2>3, NoLotsSound DEF TradesTell
<1>6. SharesHeld
  <2>1. \A u \in Users, o \in Outcomes : positions[u][o] = NoPosition
    BY <1>2
  <2>2. \A o \in Outcomes : q[o] = SumFunctionOnSet([u \in Users |-> positions[u][o].quantity], Users)
    <3>1. ASSUME NEW o \in Outcomes PROVE q[o] = SumFunctionOnSet([u \in Users |-> positions[u][o].quantity], Users)
      <4> DEFINE F == [u \in Users |-> positions[u][o].quantity]
      <4>1. \A u \in Users : F[u] = 0
        BY <2>1 DEF NoPosition
      <4> HIDE DEF F
      <4>2. SumFunctionOnSet(F, Users) = 0
        BY <4>1, Names, SumZero
      <4> QED BY <1>2, <4>2 DEF F, NoShares
    <3> QED BY <3>1
  <2>3. \A u \in Users : balance[u] = 0 /\ banked[u] = 0
    BY <1>2, Names
  <2> QED BY <1>2, <1>4, <2>1, <2>2, <2>3 DEF SharesHeld, NoPosition
<1>7. MoneyKept
  <2>1. Cardinality(fundings) = 0 /\ Cardinality(granted) = 0
    BY <1>1, <1>2, FS_EmptySet
  <2>2. balance["pool"] = 0 /\ balance["platform"] = 0 /\ \A u \in Users : balance[u] = 0
    BY <1>2, Names
  <2>3. q[0] = 0 /\ q[1] = 0
    BY <1>2 DEF NoShares, Outcomes
  <2>4. \A u \in Users : Put(u) = 0
    BY <1>2, <2>2 DEF Put
  <2>5. \A u \in Users : Alone(Replay, u, Put(u))
    BY <1>4, <2>4, AloneStarts
  <2>6. CostAt(0, 0) \in Int
    BY CostInt
  <2>7. Seed * 0 = 0 /\ Grant * 0 = 0 /\ Grain * (0 - 0) = 0
    BY Names
  <2>8. /\ Grain * (balance["pool"] - Seed * Cardinality(fundings)) = 0
        /\ balance["platform"] = residue - Seed * Cardinality(fundings) - Grant * Cardinality(granted)
    BY <1>2, <2>1, <2>2, <2>7
  <2> QED BY <1>2, <2>3, <2>5, <2>6, <2>8 DEF MoneyKept
<1>8. EndTold
  BY <1>2 DEF EndTold, RepeatsTellTheSame, Voided, AloneNeverProfits
<1> QED BY <1>1, <1>3, <1>5, <1>6, <1>7, <1>8 DEF PositionsInv

\* The invariant is kept by each step of a first touch.
LEMMA OpeningHolds ==
  ASSUME EveryLead, PositionsInv, OpeningStep
  PROVE  PositionsInv'
<1>1. OpeningInv /\ PositionsType /\ TradesTell /\ SharesHeld /\ MoneyKept /\ EndTold
  BY DEF PositionsInv
<1>2. OpeningNext /\ UNCHANGED <<feed, q, positions, granted, ended, banked>>
  BY DEF OpeningStep
<1>3. /\ OpeningInv' /\ fundings \subseteq fundings'
      /\ Cardinality(fundings' \ fundings) = Cardinality(fundings') - Cardinality(fundings)
      /\ Cardinality(fundings') \in Nat /\ Cardinality(fundings) \in Nat
      /\ fundings # {} => fundings' = fundings
  BY <1>1, <1>2, FundingsStay
<1>4. UNCHANGED <<feed, q, positions, granted, banked, record, payments, residue, told>>
  BY <1>2 DEF ended
<1>5. PICK c \in Nat, d \in Nat : c = Cardinality(fundings) /\ d = Cardinality(fundings')
  BY <1>3
<1>6. /\ balance' \in [Owners -> Int]
      /\ balance'["pool"] = balance["pool"] + Seed * (d - c)
      /\ balance'["platform"] = balance["platform"] - Seed * (d - c)
      /\ \A u \in Users : balance'[u] = balance[u]
  <2>1. balance \in [Owners -> Int] /\ Seed * (d - c) \in Int
    BY <1>1, Names DEF PositionsType
  <2>2. Cardinality(fundings' \ fundings) = d - c
    BY <1>3, <1>5
  <2>3. balance' = [balance EXCEPT !["pool"] = @ + Seed * (d - c), !["platform"] = @ - Seed * (d - c)]
    BY <2>2 DEF OpeningStep
  <2> QED BY <2>1, <2>3, Names
<1>7. PositionsType' /\ TradesTell' /\ Replay' = Replay /\ Traders' = Traders
  <2>1. Replay' = Replay /\ Traders' = Traders /\ TradesTell'
    BY <1>1, <1>4, SameTrades
  <2> QED BY <1>1, <1>4, <1>6, <2>1 DEF PositionsType
<1>8. SharesHeld'
  BY <1>1, <1>3, <1>4, <1>6, <1>7 DEF SharesHeld
<1>9. MoneyKept'
  <2>0. /\ balance["pool"] \in Int /\ balance["platform"] \in Int /\ Seed \in Nat /\ Grant \in Nat /\ residue \in Int
        /\ Grant * Cardinality(granted) \in Int
    <3>1. IsFiniteSet(granted)
      BY <1>1, Names, FS_Subset DEF PositionsType
    <3>2. Cardinality(granted) \in Nat
      BY <3>1, FS_CardinalityType
    <3> QED BY <1>1, <3>2, Names DEF PositionsType
  <2>1. Seed * (d - c) = Seed * d - Seed * c /\ Seed * d \in Int /\ Seed * c \in Int
    BY <2>0, Distributes
  <2>2. balance'["pool"] - Seed * d = balance["pool"] - Seed * c
    BY <1>6, <2>0, <2>1
  <2>3. balance'["platform"] = residue - Seed * d - Grant * Cardinality(granted)
    <3>1. balance["platform"] = residue - Seed * c - Grant * Cardinality(granted)
      BY <1>1, <1>5 DEF MoneyKept
    <3> QED BY <1>6, <2>0, <2>1, <3>1
  <2>4. \A u \in Users : Put(u)' = Put(u) /\ Realized(u)' = Realized(u)
    BY <1>4, <1>6 DEF Put, Realized, OpenCostBasis
  <2>5. ASSUME record = NoResult
        PROVE  /\ residue' = 0
               /\ Grain * (balance'["pool"] - Seed * Cardinality(fundings')) >= CostAt(q'[0], q'[1]) - CostAt(0, 0)
               /\ \A u \in Users : Traders' \subseteq {u} => Alone(Replay', u, Put(u)')
    <3>1. Grain * (balance["pool"] - Seed * c) >= CostAt(q[0], q[1]) - CostAt(0, 0) /\ residue = 0
      BY <1>1, <1>5, <2>5 DEF MoneyKept
    <3>2. Grain * (balance'["pool"] - Seed * Cardinality(fundings')) >= CostAt(q'[0], q'[1]) - CostAt(0, 0)
      BY <1>4, <1>5, <2>2, <3>1
    <3>3. \A u \in Users : Traders \subseteq {u} => Alone(Replay, u, Put(u))
      BY <1>1, <2>5 DEF MoneyKept
    <3> QED BY <1>4, <1>7, <2>4, <3>1, <3>2, <3>3
  <2>6. record # NoResult => balance'["pool"] = 0
    <3>1. record # NoResult => fundings' = fundings /\ balance["pool"] = 0
      BY <1>1, <1>3 DEF SharesHeld, MoneyKept
    <3>2. record # NoResult => d - c = 0
      BY <1>5, <3>1
    <3> QED BY <1>6, <2>0, <3>1, <3>2
  <2>7. \A u \in granted : Realized(u)' = banked[u]
    BY <1>1, <2>4 DEF MoneyKept, PositionsType
  <2> QED BY <1>4, <1>5, <2>3, <2>5, <2>6, <2>7 DEF MoneyKept
<1>10. EndTold'
  <2>1. /\ RepeatsTellTheSame' /\ (Voided' <=> Voided)
        /\ Voided' => VoidPays' /\ residue' >= -Seed
    BY <1>1, <1>2, SameEnding DEF EndTold
  <2>2. AloneNeverProfits'
    BY <1>1, <1>4, <1>6, <1>7, <2>1 DEF EndTold, AloneNeverProfits, PositionsType
  <2> QED BY <2>1, <2>2 DEF EndTold
<1> QED BY <1>3, <1>7, <1>8, <1>9, <1>10 DEF PositionsInv

\* The invariant is kept by a grant.
LEMMA FirstReadHolds ==
  ASSUME EveryLead, PositionsInv, NEW w \in Users, FirstRead(w)
  PROVE  PositionsInv'
<1>1. OpeningInv /\ PositionsType /\ TradesTell /\ SharesHeld /\ MoneyKept /\ EndTold
  BY DEF PositionsInv
<1>2. /\ Open /\ w \notin granted /\ granted' = granted \cup {w}
      /\ balance' = [balance EXCEPT ![w] = Grant, !["platform"] = @ - Grant]
      /\ UNCHANGED <<opening, feed, q, positions, ended, banked>>
  BY DEF FirstRead, Quiet
<1>3. OpeningInv' /\ fundings' = fundings /\ fundings # {}
  <2>1. UNCHANGED opening
    BY <1>2
  <2>2. OpeningInv'
    BY <1>1, <2>1, NextOpens
  <2>3. fundings' = fundings
    BY <2>1 DEF opening, tables
  <2> QED BY <1>1, <1>2, <2>2, <2>3, FundedOnce
<1>4. UNCHANGED <<feed, q, positions, banked, record, payments, residue, told>>
  BY <1>2 DEF ended
<1>6. /\ balance' \in [Owners -> Int]
      /\ balance'["pool"] = balance["pool"]
      /\ balance'["platform"] = balance["platform"] - Grant
      /\ balance'[w] = Grant
      /\ \A u \in Users \ {w} : balance'[u] = balance[u]
  <2>1. balance \in [Owners -> Int]
    BY <1>1 DEF PositionsType
  <2> QED BY <1>2, <2>1, Names
<1>7. PositionsType' /\ TradesTell' /\ Replay' = Replay /\ Traders' = Traders
  <2>1. Replay' = Replay /\ Traders' = Traders /\ TradesTell'
    BY <1>1, <1>4, SameTrades
  <2> QED BY <1>1, <1>2, <1>4, <1>6, <2>1 DEF PositionsType
<1>8. SharesHeld'
  <2>1. \A u \in Users \ granted' : u \in Users \ granted /\ u # w
    BY <1>2
  <2> QED BY <1>1, <1>3, <1>4, <1>6, <1>7, <2>1 DEF SharesHeld
<1>a. balance[w] = 0 /\ banked[w] = 0 /\ \A o \in Outcomes : positions[w][o] = NoPosition
  BY <1>1, <1>2 DEF SharesHeld
<1>9. MoneyKept'
  <2>1. Cardinality(granted') = Cardinality(granted) + 1 /\ Cardinality(granted) \in Nat
    <3>1. IsFiniteSet(granted)
      BY <1>1, Names, FS_Subset DEF PositionsType
    <3> QED BY <1>2, <3>1, FS_AddElement, FS_CardinalityType
  <2>2. \A u \in Users : Put(u)' = Put(u)
    <3>1. ASSUME NEW u \in Users PROVE Put(u)' = Put(u)
      <4>1. CASE u = w
        <5>1. Put(u)' = Grant - Grant /\ Put(u) = 0 - 0
          BY <1>2, <1>6, <1>a, <4>1 DEF Put
        <5> QED BY <5>1, Names
      <4>2. CASE u # w
        <5>1. u \in granted' <=> u \in granted
          BY <1>2, <4>2
        <5> QED BY <1>6, <4>2, <5>1 DEF Put
      <4> QED BY <4>1, <4>2
    <3> QED BY <3>1
  <2>3. \A u \in granted' : Realized(u)' = banked'[u]
    <3>1. ASSUME NEW u \in granted' PROVE Realized(u)' = banked'[u]
      <4>1. CASE u = w
        <5>1. OpenCostBasis(u)' = 0
          <6>1. 0 \in Outcomes /\ 1 \in Outcomes
            BY DEF Outcomes
          <6>2. positions'[u][0].basis = 0 /\ positions'[u][1].basis = 0
            BY <1>4, <1>a, <4>1, <6>1 DEF NoPosition
          <6> QED BY <6>2 DEF OpenCostBasis
        <5>2. Realized(u)' = Grant - Grant + 0
          BY <1>6, <4>1, <5>1 DEF Realized
        <5> QED BY <1>4, <1>a, <4>1, <5>2, Names
      <4>2. CASE u # w
        <5>1. u \in granted /\ u \in Users \ {w}
          BY <1>1, <1>2, <4>2 DEF PositionsType
        <5>2. Realized(u)' = Realized(u)
          BY <1>4, <1>6, <5>1 DEF Realized, OpenCostBasis
        <5> QED BY <1>1, <1>4, <5>1, <5>2 DEF MoneyKept
      <4> QED BY <4>1, <4>2
    <3> QED BY <3>1
  <2>4. balance'["platform"] = residue - Seed * Cardinality(fundings) - Grant * Cardinality(granted')
    <3>1. PICK c \in Int, d \in Int, n \in Nat : /\ c = residue - Seed * Cardinality(fundings)
                                                /\ d = balance["platform"] /\ n = Cardinality(granted)
      <4>1. Seed * Cardinality(fundings) \in Int
        BY <1>1, Names, FundedOnce
      <4> QED BY <1>1, <2>1, <4>1, Names DEF PositionsType
    <3>2. d = c - Grant * n
      BY <1>1, <3>1 DEF MoneyKept
    <3>3. Grant * (n + 1) = Grant * n + Grant * 1 /\ Grant * n \in Int /\ Grant * 1 = Grant /\ Grant \in Int
      BY Names, Distributes
    <3>4. d - Grant = c - Grant * (n + 1)
      BY <3>2, <3>3
    <3> QED BY <1>6, <2>1, <3>1, <3>4
  <2> QED BY <1>1, <1>3, <1>4, <1>6, <1>7, <2>2, <2>3, <2>4 DEF MoneyKept
<1>10. EndTold'
  <2>1. /\ RepeatsTellTheSame' /\ (Voided' <=> Voided)
        /\ Voided' => VoidPays' /\ residue' >= -Seed
    BY <1>1, <1>2, SameEnding DEF EndTold
  <2>2. AloneNeverProfits'
    <3>1. ASSUME Voided', NEW u \in granted', Traders' = {u} PROVE balance'[u] <= Grant
      <4>1. CASE u = w
        BY <1>6, <4>1, Names
      <4>2. CASE u # w
        <5>1. u \in granted /\ u \in Users \ {w}
          BY <1>1, <1>2, <4>2 DEF PositionsType
        <5> QED BY <1>1, <1>6, <1>7, <2>1, <3>1, <5>1 DEF EndTold, AloneNeverProfits
      <4> QED BY <4>1, <4>2
    <3> QED BY <3>1 DEF AloneNeverProfits
  <2> QED BY <2>1, <2>2 DEF EndTold
<1> QED BY <1>3, <1>7, <1>8, <1>9, <1>10 DEF PositionsInv

----------------------------------------------------------------------------
(* Trading *)

Holding == [quantity: Nat, basis: Nat]

\* A position after a trade: its shares moved, and no cost left without shares
\* (release_basis is never more than the basis).
LEMMA PositionMoves ==
  ASSUME NEW p \in Holding, NEW t \in Entry, t.side = "sell" => t.quantity <= p.quantity
  PROVE  /\ PositionAfter(p, t) \in Holding
         /\ PositionAfter(p, t).quantity = p.quantity + Signed(t.side, t.quantity)
         /\ PositionAfter(p, t).quantity = 0 => PositionAfter(p, t).basis = 0
         /\ t.side = "buy" => PositionAfter(p, t).basis = p.basis + t.total
<1>1. t.quantity \in Nat \ {0} /\ t.total \in Nat /\ t.side \in Sides
  BY DEF Entry
<1>2. PICK m \in Nat, b \in Nat : m = p.quantity /\ b = p.basis
  BY DEF Holding
<1>3. CASE t.side = "buy"
  BY <1>1, <1>2, <1>3 DEF PositionAfter, Holding, Signed
<1>4. CASE t.side = "sell"
  <2>1. PICK n \in Nat \ {0} : n = t.quantity
    BY <1>1
  <2>2. n <= m /\ m \in Nat \ {0} /\ Signed(t.side, t.quantity) = -n
    BY <1>2, <1>4, <2>1 DEF Signed
  <2> DEFINE k == 2 * b * (m - n) + m
             z == k \div (2 * m)
             nb == IF n = m THEN 0 ELSE b - (b - z)
  <2>3. z \in Nat
    <3>1. k \in Nat /\ 2 * m \in Nat \ {0}
      <4>1. m - n \in Nat
        BY <2>2
      <4>2. 2 * b \in Nat
        OBVIOUS
      <4>3. 2 * b * (m - n) \in Nat
        BY <4>1, <4>2
      <4> QED BY <2>2, <4>3
    <3> HIDE DEF k
    <3>2. PICK u \in Nat \ {0} : u = 2 * m
      BY <3>1
    <3>3. k \div u \in Int /\ u * (k \div u) <= k /\ k < u * (k \div u) + u
      BY <3>1, DivTells
    <3>4. k \div u >= 0
      <4>1. PICK y \in Int : y = k \div u
        BY <3>3
      <4>2. u * y + u > 0
        BY <3>1, <3>3, <4>1
      <4>3. y > -1
        BY <4>2
      <4> QED BY <4>1, <4>3
    <3> QED BY <3>2, <3>3, <3>4
  <2>4. Released(p, n) = b - z
    BY <1>2 DEF Released
  <2>5. PositionAfter(p, t) = [quantity |-> m - n, basis |-> nb]
    BY <1>2, <1>4, <2>1, <2>4 DEF PositionAfter
  <2> HIDE DEF z
  <2>6. nb \in Nat /\ m - n \in Nat /\ (m - n = 0 => nb = 0) /\ m - n = m + (-n)
    BY <2>2, <2>3
  <2> HIDE DEF nb
  <2> QED BY <1>2, <1>4, <2>1, <2>2, <2>5, <2>6 DEF Holding
<1> QED BY <1>1, <1>3, <1>4 DEF Sides

\* Nobody holds more shares than are outstanding.
LEMMA HeldAtMost ==
  ASSUME PositionsType, SharesHeld, NEW u \in Users, NEW o \in Outcomes
  PROVE  positions[u][o].quantity \in Nat /\ positions[u][o].quantity <= q[o]
<1> DEFINE F == [x \in Users |-> positions[x][o].quantity]
<1>1. \A x \in Users : F[x] \in Nat
  BY DEF PositionsType
<1>2. q[o] = SumFunctionOnSet(F, Users) /\ F[u] = positions[u][o].quantity
  BY DEF SharesHeld
<1> HIDE DEF F
<1>3. Users \cap {u} = {u} /\ IsFiniteSet({u})
  BY FS_Singleton
<1>4. SumFunctionOnSet(F, Users \cap {u}) <= SumFunctionOnSet(F, Users)
  BY <1>1, Names, SumNarrows
<1>5. SumFunctionOnSet(F, {u}) = F[u]
  <2>1. u \in {u} /\ F[u] \in Int /\ \A x \in {u} \ {u} : F[x] = 0
    BY <1>1
  <2> QED BY <1>3, <2>1, SumOne
<1> QED BY <1>1, <1>2, <1>3, <1>4, <1>5

\* What a trade is, once it is priced.
TradeOf(a) ==
  [user |-> a.user, outcome |-> a.outcome, side |-> a.side, quantity |-> a.quantity,
   total |-> Price(a.outcome, a.side, a.quantity, q[0] - q[1]), version |-> Len(feed) + 1]

\* What a trade does to the state, its cash being what it puts in.
Traded(t) ==
  LET p == positions[t.user][t.outcome]
      paid == Signed(t.side, t.total)
  IN  /\ record = NoResult /\ Open /\ t.user \in granted
      /\ Fits(Replay, t) /\ t.version = Len(feed) + 1
      /\ feed' = Append(feed, t)
      /\ q' = [q EXCEPT ![t.outcome] = @ + Signed(t.side, t.quantity)]
      /\ positions' = [positions EXCEPT ![t.user][t.outcome] = PositionAfter(p, t)]
      /\ balance' = [balance EXCEPT ![t.user] = @ + (-paid), !["pool"] = @ - (-paid)]
      /\ banked' = [banked EXCEPT ![t.user] =
           @ + IF t.side = "buy" THEN 0 ELSE t.total - (p.basis - PositionAfter(p, t).basis)]
      /\ UNCHANGED <<opening, granted, ended>>

\* A trade that commits fits the replay of those before it.
LEMMA TradeIs ==
  ASSUME EveryLead, PositionsInv, NEW a \in Trades, Trade(a)
  PROVE  \E t : Traded(t)
<1>1. PositionsType /\ TradesTell /\ SharesHeld
  BY DEF PositionsInv
<1>2. PICK t : t = TradeOf(a)
  OBVIOUS
<1>3. /\ t.user = a.user /\ t.outcome = a.outcome /\ t.side = a.side /\ t.quantity = a.quantity
      /\ t.total = Price(a.outcome, a.side, a.quantity, q[0] - q[1]) /\ t.version = Len(feed) + 1
  BY <1>2 DEF TradeOf
<1>4. a.user \in Users /\ a.outcome \in Outcomes /\ a.side \in Sides /\ a.quantity \in Nat \ {0}
  BY PositionsAssumption
<1>5. q[0] - q[1] \in Int /\ Len(feed) \in Nat
  BY <1>1 DEF PositionsType, Outcomes
<1>6. t \in Entry
  <2>1. t.total \in Nat
    BY <1>3, <1>4, <1>5, PriceCovers
  <2> QED BY <1>2, <1>3, <1>4, <1>5, <2>1 DEF TradeOf, Entry
<1>7. Fits(Replay, t)
  <2>1. t.total = Price(t.outcome, t.side, t.quantity, Replay.q[0] - Replay.q[1])
    BY <1>1, <1>3 DEF TradesTell
  <2>2. ASSUME t.side = "sell"
        PROVE  t.quantity <= Held(Replay.lots[<<t.user, t.outcome>>]) /\ t.quantity <= Replay.q[t.outcome]
    <3>1. t.quantity <= positions[t.user][t.outcome].quantity
      BY <1>3, <2>2 DEF Trade
    <3>2. <<t.user, t.outcome>> \in Holders
      BY <1>3, <1>4 DEF Holders
    <3>3. Held(Replay.lots[<<t.user, t.outcome>>]) = positions[t.user][t.outcome].quantity
      BY <1>1, <3>2 DEF TradesTell
    <3>4. positions[t.user][t.outcome].quantity \in Nat /\ positions[t.user][t.outcome].quantity <= q[t.outcome]
      BY <1>1, <1>3, <1>4, HeldAtMost
    <3>5. q[t.outcome] \in Nat /\ Replay.q = q
      BY <1>1, <1>3, <1>4 DEF PositionsType, TradesTell
    <3> QED BY <1>3, <1>4, <3>1, <3>3, <3>4, <3>5
  <2> QED BY <1>6, <2>1, <2>2 DEF Fits
<1>8. Signed(a.side, t.total) = Signed(t.side, t.total)
  BY <1>3
<1>9. Traded(t)
  <2>1. /\ record = NoResult /\ Open /\ t.user \in granted /\ feed' = Append(feed, t)
        /\ q' = [q EXCEPT ![t.outcome] = @ + Signed(t.side, t.quantity)]
        /\ UNCHANGED <<opening, granted, ended>>
    BY <1>2, <1>3 DEF Trade, TradeOf, Quiet
  <2>2. positions' = [positions EXCEPT ![t.user][t.outcome] = PositionAfter(positions[t.user][t.outcome], t)]
    BY <1>2, <1>3 DEF Trade, TradeOf
  <2>3. balance' = [balance EXCEPT ![t.user] = @ + (-Signed(t.side, t.total)),
                                   !["pool"] = @ - (-Signed(t.side, t.total))]
    BY <1>2, <1>3 DEF Trade, TradeOf
  <2>4. banked' = [banked EXCEPT ![t.user] = @ + IF t.side = "buy" THEN 0 ELSE
             t.total - (positions[t.user][t.outcome].basis - PositionAfter(positions[t.user][t.outcome], t).basis)]
    BY <1>2, <1>3 DEF Trade, TradeOf
  <2> QED BY <1>3, <1>7, <2>1, <2>2, <2>3, <2>4 DEF Traded
<1> QED BY <1>9

\* A committed trade is of a user with a grant, and its shares and money are
\* numbers.
LEMMA TradedTypes ==
  ASSUME EveryLead, PositionsInv, NEW t, Traded(t)
  PROVE  /\ t.user \in Users /\ t.outcome \in Outcomes /\ t.side \in Sides
         /\ t.quantity \in Nat \ {0} /\ t.total \in Nat /\ t.user \in granted /\ t \in Entry
         /\ Signed(t.side, t.total) \in Int /\ Signed(t.side, t.quantity) \in Int
         /\ positions[t.user][t.outcome] \in Holding
         /\ PositionAfter(positions[t.user][t.outcome], t) \in Holding
         /\ PositionAfter(positions[t.user][t.outcome], t).quantity
              = positions[t.user][t.outcome].quantity + Signed(t.side, t.quantity)
         /\ (PositionAfter(positions[t.user][t.outcome], t).quantity = 0 =>
               PositionAfter(positions[t.user][t.outcome], t).basis = 0)
         /\ (t.side = "buy" => PositionAfter(positions[t.user][t.outcome], t).basis
                                 = positions[t.user][t.outcome].basis + t.total)
<1>1. PositionsType /\ TradesTell /\ SharesHeld
  BY DEF PositionsInv
<1>2. t \in Entry /\ t.user \in granted /\ Fits(Replay, t)
  BY DEF Traded, Fits
<1>3. /\ t.user \in Users /\ t.outcome \in Outcomes /\ t.side \in Sides
      /\ t.quantity \in Nat \ {0} /\ t.total \in Nat
  BY <1>2 DEF Entry
<1>4. Signed(t.side, t.total) \in Int /\ Signed(t.side, t.quantity) \in Int
  BY <1>3 DEF Signed
<1>5. positions[t.user][t.outcome] \in Holding
  BY <1>1, <1>3 DEF PositionsType, Holding
<1>6. t.side = "sell" => t.quantity <= positions[t.user][t.outcome].quantity
  <2>1. <<t.user, t.outcome>> \in Holders
    BY <1>3 DEF Holders
  <2>2. Held(Replay.lots[<<t.user, t.outcome>>]) = positions[t.user][t.outcome].quantity
    BY <1>1, <2>1 DEF TradesTell
  <2> QED BY <1>2, <2>2 DEF Fits
<1> QED BY <1>2, <1>3, <1>4, <1>5, <1>6, PositionMoves

\* A committed trade keeps what the trades tell.
LEMMA TradedTells ==
  ASSUME EveryLead, PositionsInv, NEW t, Traded(t)
  PROVE  /\ PositionsType' /\ TradesTell' /\ Replay' = ReplayTrade(Replay, t)
         /\ Traders' = Traders \cup {t.user}
         /\ q \in [Outcomes -> Nat] /\ q' \in [Outcomes -> Nat]
<1>1. PositionsType /\ TradesTell
  BY DEF PositionsInv
<1> DEFINE u == t.user  o == t.outcome  p == positions[u][o]  np == PositionAfter(p, t)
<1>2. /\ u \in Users /\ o \in Outcomes /\ t \in Entry /\ p \in Holding /\ np \in Holding
      /\ np.quantity = p.quantity + Signed(t.side, t.quantity)
      /\ Signed(t.side, t.total) \in Int /\ t.total \in Nat
  BY TradedTypes
<1> HIDE DEF u, o, np
<1>3. /\ feed' = Append(feed, t) /\ feed \in Seq(Entry)
  BY <1>1 DEF Traded, PositionsType
<1>4. Replay' = ReplayTrade(Replay, t)
  BY <1>2, <1>3, ReplayGrows DEF Replay
<1>5. Fits(Replay, t) /\ ReplaySound(Replay) /\ ~ Replay.oversold /\ Replay.q = q
  BY <1>1 DEF Traded, TradesTell
<1>6. LET x == Replay'
          k == <<t.user, t.outcome>>
      IN  /\ ReplaySound(x)
          /\ ~ Replay.oversold => ~ x.oversold
          /\ x.q = [Replay.q EXCEPT ![t.outcome] = @ + Signed(t.side, t.quantity)]
          /\ k \in Holders /\ \A h \in Holders : h # k => x.lots[h] = Replay.lots[h]
          /\ Held(x.lots[k]) = Held(Replay.lots[k]) + Signed(t.side, t.quantity)
  BY <1>4, <1>5, TradeReplays
<1>7. Traders' = Traders \cup {u}
  <2>1. /\ Len(feed') = Len(feed) + 1 /\ feed'[Len(feed) + 1] = t /\ \A i \in 1..Len(feed) : feed'[i] = feed[i]
        /\ DOMAIN feed' = 1..Len(feed) + 1 /\ DOMAIN feed = 1..Len(feed) /\ Len(feed) \in Nat
    BY <1>2, <1>3
  <2>2. DOMAIN feed' = DOMAIN feed \cup {Len(feed) + 1}
    BY <2>1
  <2>3. {feed'[i].user : i \in DOMAIN feed'} = {feed[i].user : i \in DOMAIN feed} \cup {t.user}
    BY <2>1, <2>2
  <2> QED BY <2>3 DEF Traders, u
<1>8. q' = [q EXCEPT ![o] = @ + Signed(t.side, t.quantity)] /\ q' = Replay'.q
  BY <1>5, <1>6 DEF Traded, o
<1>9. q' \in [Outcomes -> Nat] /\ q \in [Outcomes -> Nat]
  BY <1>1, <1>6, <1>8 DEF ReplaySound, PositionsType
<1>10. /\ positions' \in [Users -> [Outcomes -> Holding]]
       /\ positions'[u][o] = np
       /\ \A w \in Users, e \in Outcomes : w # u \/ e # o => positions'[w][e] = positions[w][e]
  <2>1. positions \in [Users -> [Outcomes -> Holding]]
    BY <1>1 DEF PositionsType, Holding
  <2>2. positions' = [positions EXCEPT ![u][o] = np]
    BY DEF Traded, u, o, np
  <2> QED BY <1>2, <2>1, <2>2
<1>11. balance' \in [Owners -> Int] /\ banked' \in [Users -> Int]
  <2>1. balance \in [Owners -> Int] /\ banked \in [Users -> Int]
    BY <1>1 DEF PositionsType
  <2>2. balance' = [balance EXCEPT ![u] = @ + (-Signed(t.side, t.total)), !["pool"] = @ - (-Signed(t.side, t.total))]
    BY DEF Traded, u
  <2>3. PICK z : z = IF t.side = "buy" THEN 0 ELSE t.total - (p.basis - np.basis)
    OBVIOUS
  <2>4. z \in Int
    BY <1>2, <2>3 DEF Holding
  <2>5. banked' = [banked EXCEPT ![u] = @ + z]
    BY <2>3 DEF Traded, u, np, o
  <2>6. balance' \in [Owners -> Int]
    BY <1>2, <2>1, <2>2, Names
  <2>7. banked' \in [Users -> Int]
    BY <1>2, <2>1, <2>4, <2>5
  <2> QED BY <2>6, <2>7
<1>12. PositionsType'
  <2>1. feed' \in Seq(Entry)
    BY <1>2, <1>3
  <2>2. UNCHANGED <<granted, record, residue>>
    BY DEF Traded, ended
  <2> QED BY <1>1, <1>9, <1>10, <1>11, <2>1, <2>2 DEF PositionsType, Holding
<1>13. TradesTell'
  <2>1. \A i \in DOMAIN feed' : feed'[i].version = i
    <3>1. /\ feed'[Len(feed) + 1] = t /\ \A i \in 1..Len(feed) : feed'[i] = feed[i]
          /\ DOMAIN feed' = 1..Len(feed) + 1 /\ DOMAIN feed = 1..Len(feed) /\ Len(feed) \in Nat
      BY <1>2, <1>3
    <3>2. t.version = Len(feed) + 1 /\ \A i \in DOMAIN feed : feed[i].version = i
      BY <1>1 DEF TradesTell, Traded
    <3>3. \A i \in DOMAIN feed' : i \in 1..Len(feed) \/ i = Len(feed) + 1
      BY <3>1
    <3> QED BY <3>1, <3>2, <3>3
  <2>2. \A h \in Holders : Held(Replay'.lots[h]) = positions'[h[1]][h[2]].quantity
    <3>1. ASSUME NEW h \in Holders PROVE Held(Replay'.lots[h]) = positions'[h[1]][h[2]].quantity
      <4>1. h[1] \in Users /\ h[2] \in Outcomes /\ h = <<h[1], h[2]>>
        BY DEF Holders
      <4>2. Held(Replay.lots[h]) = positions[h[1]][h[2]].quantity
        BY <1>1 DEF TradesTell
      <4>3. CASE h = <<u, o>>
        <5>1. h[1] = u /\ h[2] = o
          BY <4>3
        <5>2. Held(Replay'.lots[h]) = Held(Replay.lots[h]) + Signed(t.side, t.quantity)
          BY <1>6, <4>3 DEF u, o
        <5> QED BY <1>2, <1>10, <4>2, <5>1, <5>2
      <4>4. CASE h # <<u, o>>
        <5>1. h[1] # u \/ h[2] # o
          BY <4>1, <4>4
        <5>2. Replay'.lots[h] = Replay.lots[h]
          BY <1>6, <4>4 DEF u, o
        <5> QED BY <1>10, <4>1, <4>2, <5>1, <5>2
      <4> QED BY <4>3, <4>4
    <3> QED BY <3>1
  <2> QED BY <1>5, <1>6, <1>8, <2>1, <2>2 DEF TradesTell
<1> QED BY <1>4, <1>7, <1>9, <1>12, <1>13 DEF u

\* A committed trade keeps what is held equal to what is outstanding.
LEMMA TradedShares ==
  ASSUME EveryLead, PositionsInv, NEW t, Traded(t)
  PROVE  SharesHeld'
<1>1. PositionsType /\ SharesHeld
  BY DEF PositionsInv
<1> DEFINE u == t.user  o == t.outcome  p == positions[u][o]  np == PositionAfter(p, t)
           paid == Signed(t.side, t.total)  moved == Signed(t.side, t.quantity)
<1>2. /\ u \in Users /\ o \in Outcomes /\ t \in Entry /\ p \in Holding /\ np \in Holding /\ u \in granted
      /\ np.quantity = p.quantity + moved /\ moved \in Int /\ paid \in Int
      /\ np.quantity = 0 => np.basis = 0
  BY TradedTypes
<1>3. Traders' = Traders \cup {u} /\ q \in [Outcomes -> Nat]
  BY TradedTells
<1> HIDE DEF u, o, p, np, paid, moved
<1>4. /\ positions'[u][o] = np
      /\ \A w \in Users, e \in Outcomes : w # u \/ e # o => positions'[w][e] = positions[w][e]
  <2>1. positions \in [Users -> [Outcomes -> Holding]]
    BY <1>1 DEF PositionsType, Holding
  <2>2. positions' = [positions EXCEPT ![u][o] = np]
    BY DEF Traded, u, o, p, np
  <2> QED BY <1>2, <2>1, <2>2
<1>5. UNCHANGED <<granted, record, fundings>>
  BY DEF Traded, ended, opening, tables
<1>6. q' = [q EXCEPT ![o] = @ + moved]
  BY DEF Traded, o, moved
<1>7. \A w \in Users : w # u => balance'[w] = balance[w] /\ banked'[w] = banked[w]
  <2>1. balance \in [Owners -> Int] /\ banked \in [Users -> Int]
    BY <1>1 DEF PositionsType
  <2>2. balance' = [balance EXCEPT ![u] = @ + (-paid), !["pool"] = @ - (-paid)]
    BY DEF Traded, u, paid
  <2>3. \E z : banked' = [banked EXCEPT ![u] = @ + z]
    BY DEF Traded, u
  <2> QED BY <2>1, <2>2, <2>3, Names
<1>8. ASSUME NEW e \in Outcomes
      PROVE  q'[e] = SumFunctionOnSet([w \in Users |-> positions'[w][e].quantity], Users)
  <2> DEFINE F == [w \in Users |-> positions[w][e].quantity]
             G == [w \in Users |-> positions'[w][e].quantity]
  <2>1. q[e] = SumFunctionOnSet(F, Users)
    BY <1>1 DEF SharesHeld
  <2>2. \A w \in Users : F[w] = positions[w][e].quantity /\ G[w] = positions'[w][e].quantity
    OBVIOUS
  <2>3. \A w \in Users : F[w] \in Int
    BY <1>1, <2>2 DEF PositionsType
  <2> HIDE DEF F, G
  <2>4. CASE e = o
    <3>1. F[u] = p.quantity /\ G[u] = np.quantity /\ F[u] \in Int /\ G[u] \in Int
      BY <1>2, <1>4, <2>2, <2>4 DEF p, Holding
    <3>2. \A w \in Users \ {u} : F[w] = G[w]
      BY <1>4, <2>2
    <3>3. \A w \in Users : F[w] \in Int /\ G[w] \in Int
      BY <2>3, <3>1, <3>2
    <3>4. SumFunctionOnSet(G, Users) = SumFunctionOnSet(F, Users) - F[u] + G[u]
      BY <1>2, <3>2, <3>3, Names, SumChanged
    <3>5. q'[e] = q[e] + moved /\ q[e] \in Int
      BY <1>3, <1>6, <2>4
    <3>6. SumFunctionOnSet(G, Users) = q[e] - p.quantity + (p.quantity + moved) /\ p.quantity \in Int
      BY <1>2, <2>1, <3>1, <3>4
    <3> QED BY <1>2, <3>5, <3>6 DEF G
  <2>5. CASE e # o
    <3>1. \A w \in Users : F[w] = G[w]
      BY <1>4, <2>2, <2>5
    <3>2. SumFunctionOnSet(F, Users) = SumFunctionOnSet(G, Users)
      BY <3>1, Names, SumSame
    <3>3. q'[e] = q[e]
      BY <1>3, <1>6, <2>5
    <3> QED BY <2>1, <3>2, <3>3 DEF G
  <2> QED BY <2>4, <2>5
<1>9. ASSUME NEW w \in Users, NEW e \in Outcomes, positions'[w][e].quantity = 0
      PROVE  positions'[w][e].basis = 0
  <2>1. CASE w = u /\ e = o
    BY <1>2, <1>4, <1>9, <2>1
  <2>2. CASE w # u \/ e # o
    BY <1>1, <1>4, <1>9, <2>2 DEF SharesHeld
  <2> QED BY <2>1, <2>2
<1>10. ASSUME NEW w \in Users \ granted'
       PROVE  /\ balance'[w] = 0 /\ banked'[w] = 0 /\ w \notin Traders'
              /\ \A e \in Outcomes : positions'[w][e] = NoPosition
  <2>1. w \in Users \ granted /\ w # u
    BY <1>2, <1>5
  <2> QED BY <1>1, <1>3, <1>4, <1>7, <2>1 DEF SharesHeld
<1>11. granted' # {} \/ record' # NoResult => fundings' # {}
  BY <1>1, <1>5 DEF SharesHeld
<1> QED BY <1>8, <1>9, <1>10, <1>11 DEF SharesHeld

\* A committed trade keeps the pool over the cost function, and what its
\* trader made equal to what is banked.
LEMMA TradedMoney ==
  ASSUME EveryLead, PositionsInv, NEW t, Traded(t)
  PROVE  MoneyKept'
<1>1. PositionsType /\ SharesHeld /\ TradesTell /\ MoneyKept /\ OpeningInv
  BY DEF PositionsInv
<1> DEFINE u == t.user  o == t.outcome  p == positions[u][o]  np == PositionAfter(p, t)
           paid == Signed(t.side, t.total)  moved == Signed(t.side, t.quantity)
           got == IF t.side = "buy" THEN 0 ELSE t.total - (p.basis - np.basis)
<1>2. /\ u \in Users /\ o \in Outcomes /\ t \in Entry /\ p \in Holding /\ np \in Holding /\ u \in granted
      /\ t.total \in Nat /\ t.quantity \in Nat \ {0} /\ t.side \in Sides
      /\ moved \in Int /\ paid \in Int /\ (t.side = "buy" => np.basis = p.basis + t.total)
  BY TradedTypes
<1>3. /\ Traders' = Traders \cup {u} /\ q \in [Outcomes -> Nat] /\ Replay' = ReplayTrade(Replay, t)
      /\ Fits(Replay, t) /\ ReplaySound(Replay) /\ Replay.q = q
  BY <1>1, TradedTells DEF Traded, TradesTell
<1>4. /\ UNCHANGED <<granted, record, residue, fundings>> /\ record = NoResult
  BY DEF Traded, ended, opening, tables
<1>5. /\ balance'["pool"] = balance["pool"] + paid /\ balance["pool"] \in Int
      /\ balance'[u] = balance[u] - paid /\ balance[u] \in Int
      /\ \A w \in Owners : w # u /\ w # "pool" => balance'[w] = balance[w]
  <2>1. balance \in [Owners -> Int]
    BY <1>1 DEF PositionsType
  <2> HIDE DEF u, paid
  <2>2. balance' = [balance EXCEPT ![u] = @ + (-paid), !["pool"] = @ - (-paid)]
    BY DEF Traded, u, paid
  <2>3. /\ balance'["pool"] = balance["pool"] - (-paid) /\ balance'[u] = balance[u] + (-paid)
        /\ \A w \in Owners : w # u /\ w # "pool" => balance'[w] = balance[w]
    BY <1>2, <2>1, <2>2, Names
  <2> QED BY <1>2, <2>1, <2>3, Names
<1>6. /\ positions'[u][o] = np
      /\ \A w \in Users, e \in Outcomes : w # u \/ e # o => positions'[w][e] = positions[w][e]
  <2>1. positions \in [Users -> [Outcomes -> Holding]]
    BY <1>1 DEF PositionsType, Holding
  <2>2. positions' = [positions EXCEPT ![u][o] = np]
    BY DEF Traded
  <2> HIDE DEF u, o, np
  <2> QED BY <1>2, <2>1, <2>2
<1>7. banked'[u] = banked[u] + got /\ banked[u] \in Int /\ \A w \in Users : w # u => banked'[w] = banked[w]
  <2>1. banked \in [Users -> Int]
    BY <1>1 DEF PositionsType
  <2>2. banked' = [banked EXCEPT ![u] = @ + got]
    BY DEF Traded
  <2> HIDE DEF u, got
  <2> QED BY <1>2, <2>1, <2>2
<1>8. q' = [q EXCEPT ![o] = @ + moved]
  BY DEF Traded
<1> HIDE DEF u, o, p, np, paid, moved
<1>9. Grain * (balance'["pool"] - Seed * Cardinality(fundings')) >= CostAt(q'[0], q'[1]) - CostAt(0, 0)
  <2> DEFINE dc == CostOf(o, moved, q[0] - q[1])  s == Seed * Cardinality(fundings)
  <2>1. /\ CostAt(q'[0], q'[1]) - CostAt(0, 0) = (CostAt(q[0], q[1]) - CostAt(0, 0)) + dc
        /\ CostAt(q[0], q[1]) - CostAt(0, 0) \in Int
    <3>1. PICK v \in [Outcomes -> Nat] : v = q
      BY <1>3
    <3>2. PICK w : w = q'
      OBVIOUS
    <3>3. /\ v \in [Outcomes -> Nat] /\ moved \in Int /\ o \in Outcomes
          /\ w = [v EXCEPT ![o] = @ + moved]
      BY <1>2, <1>8, <3>1, <3>2
    <3>4. /\ CostAt(w[0], w[1]) - CostAt(0, 0) = (CostAt(v[0], v[1]) - CostAt(0, 0)) + CostOf(o, moved, v[0] - v[1])
          /\ CostAt(v[0], v[1]) - CostAt(0, 0) \in Int
      BY <3>3, CostAfter
    <3> QED BY <3>1, <3>2, <3>4
  <2>2. dc \in Int /\ Grain * paid >= dc
    <3>1. PICK d \in Int : d = q[0] - q[1]
      BY <1>3 DEF Outcomes
    <3>2. t.total = Price(o, t.side, t.quantity, d)
      BY <1>3, <3>1 DEF Fits, o
    <3>3. CASE t.side = "buy"
      <4>1. moved = Signed("buy", t.quantity) /\ paid = t.total /\ "buy" \in Sides
        BY <3>3 DEF moved, paid, Signed, Sides
      <4>2. CostOf(o, Signed("buy", t.quantity), d) \in Int
        BY <1>2, <4>1, CostSigned
      <4>3. Grain * Price(o, "buy", t.quantity, d) >= CostOf(o, Signed("buy", t.quantity), d)
        BY <1>2, <4>1, PriceCovers
      <4> QED BY <3>1, <3>2, <3>3, <4>1, <4>2, <4>3
    <3>4. CASE t.side = "sell"
      <4>1. moved = Signed("sell", t.quantity) /\ paid = -t.total /\ "sell" \in Sides
        BY <3>4 DEF moved, paid, Signed, Sides
      <4>2. CostOf(o, Signed("sell", t.quantity), d) \in Int
        BY <1>2, <4>1, CostSigned
      <4>3. Grain * Price(o, "sell", t.quantity, d) <= -CostOf(o, Signed("sell", t.quantity), d)
        BY <1>2, <4>1, PriceCovers
      <4>4. Grain * (-t.total) = -(Grain * t.total) /\ Grain * t.total \in Int
        BY <1>2, Names
      <4>5. dc = CostOf(o, Signed("sell", t.quantity), d)
        BY <3>1, <4>1
      <4> HIDE DEF dc
      <4>6. Grain * t.total <= -dc /\ dc \in Int
        BY <3>2, <3>4, <4>2, <4>3, <4>5
      <4> QED BY <4>1, <4>4, <4>6
    <3> QED BY <1>2, <3>3, <3>4 DEF Sides
  <2>3. s \in Int
    BY <1>1, FundedOnce, Names
  <2>4. Grain * (balance["pool"] - s) >= CostAt(q[0], q[1]) - CostAt(0, 0)
    BY <1>1, <1>4 DEF MoneyKept
  <2> HIDE DEF dc, s
  <2>5. balance'["pool"] - s = (balance["pool"] - s) + paid /\ balance["pool"] - s \in Int
    BY <1>2, <1>5, <2>3
  <2>6. /\ Grain * ((balance["pool"] - s) + paid) = Grain * (balance["pool"] - s) + Grain * paid
        /\ Grain * (balance["pool"] - s) \in Int /\ Grain * paid \in Int
    BY <1>2, <2>5, Names, Distributes
  <2>7. Grain * (balance'["pool"] - s) >= CostAt(q'[0], q'[1]) - CostAt(0, 0)
    BY <2>1, <2>2, <2>4, <2>5, <2>6
  <2> QED BY <1>4, <2>7 DEF s
<1>10. ASSUME NEW w \in Users, Traders' \subseteq {w} PROVE Alone(Replay', w, Put(w)')
  <2>1. w = u /\ Traders \subseteq {w}
    BY <1>3, <1>10
  <2>2. Alone(Replay, u, Put(u))
    BY <1>1, <1>4, <2>1 DEF MoneyKept
  <2>3. Put(u) \in Int /\ Put(u)' = Put(u) + paid
    BY <1>2, <1>4, <1>5, Names DEF Put
  <2>4. Alone(ReplayTrade(Replay, t), t.user, Put(u) + Signed(t.side, t.total))
    BY <1>3, <2>2, <2>3, AloneTrade DEF u
  <2> QED BY <1>3, <2>1, <2>3, <2>4 DEF u, paid
<1>11. ASSUME NEW w \in granted' PROVE Realized(w)' = banked'[w]
  <2>1. w \in Users /\ w \in granted
    BY <1>1, <1>4 DEF PositionsType
  <2>2. balance[w] - Grant + OpenCostBasis(w) = banked[w]
    BY <1>1, <2>1 DEF MoneyKept, Realized
  <2>3. /\ OpenCostBasis(w) = positions[w][0].basis + positions[w][1].basis
        /\ OpenCostBasis(w)' = positions'[w][0].basis + positions'[w][1].basis
    BY <1>4 DEF OpenCostBasis
  <2>4. CASE w # u
    <3>1. positions'[w][0] = positions[w][0] /\ positions'[w][1] = positions[w][1]
      BY <1>6, <2>1, <2>4 DEF Outcomes
    <3>2. balance'[w] = balance[w] /\ banked'[w] = banked[w]
      BY <1>5, <1>7, <2>1, <2>4, Names
    <3> QED BY <2>2, <2>3, <3>1, <3>2 DEF Realized
  <2>5. CASE w = u
    <3>1. positions[w][0].basis \in Int /\ positions[w][1].basis \in Int
      BY <1>1, <2>1 DEF PositionsType, Outcomes
    <3>2. p.basis \in Int /\ np.basis \in Int
      BY <1>2 DEF Holding
    <3>3. OpenCostBasis(w)' = OpenCostBasis(w) - p.basis + np.basis /\ OpenCostBasis(w) \in Int
      <4>1. CASE o = 0
        <5>1. positions'[w][0] = np /\ positions'[w][1] = positions[w][1] /\ positions[w][0] = p
          BY <1>6, <2>1, <2>5, <4>1 DEF Outcomes, p
        <5> QED BY <2>3, <3>1, <3>2, <5>1
      <4>2. CASE o = 1
        <5>1. positions'[w][1] = np /\ positions'[w][0] = positions[w][0] /\ positions[w][1] = p
          BY <1>6, <2>1, <2>5, <4>2 DEF Outcomes, p
        <5> QED BY <2>3, <3>1, <3>2, <5>1
      <4> QED BY <1>2, <4>1, <4>2 DEF Outcomes
    <3>5. balance'[w] - Grant + OpenCostBasis(w)' = banked[w] + got
      <4>1. CASE t.side = "buy"
        <5>1. paid = t.total /\ got = 0 /\ np.basis = p.basis + t.total
          BY <1>2, <4>1 DEF paid, Signed
        <5> HIDE DEF got
        <5> QED BY <1>2, <1>5, <1>7, <2>2, <2>5, <3>2, <3>3, <5>1, Names
      <4>2. CASE t.side # "buy"
        <5>1. paid = -t.total /\ got = t.total - (p.basis - np.basis)
          BY <4>2 DEF paid, Signed
        <5> HIDE DEF got
        <5> QED BY <1>2, <1>5, <1>7, <2>2, <2>5, <3>2, <3>3, <5>1, Names
      <4> QED BY <4>1, <4>2
    <3> HIDE DEF got
    <3>6. Realized(w)' = balance'[w] - Grant + OpenCostBasis(w)'
      BY DEF Realized
    <3> QED BY <1>7, <2>5, <3>5, <3>6
  <2> QED BY <2>4, <2>5
<1>12. balance'["platform"] = residue' - Seed * Cardinality(fundings') - Grant * Cardinality(granted')
  <2>1. balance'["platform"] = balance["platform"]
    BY <1>2, <1>5, Names
  <2> QED BY <1>1, <1>4, <2>1 DEF MoneyKept
<1>13. residue' = 0
  BY <1>1, <1>4 DEF MoneyKept
<1> QED BY <1>4, <1>9, <1>10, <1>11, <1>12, <1>13 DEF MoneyKept

\* A trade keeps the invariant.
LEMMA TradeHolds ==
  ASSUME EveryLead, PositionsInv, NEW a \in Trades, Trade(a)
  PROVE  PositionsInv'
<1>1. PICK t : Traded(t)
  BY TradeIs
<1>2. PositionsType' /\ TradesTell' /\ SharesHeld' /\ MoneyKept'
  BY <1>1, TradedTells, TradedShares, TradedMoney
<1>3. OpeningInv'
  <2>1. UNCHANGED opening /\ OpeningInv
    BY <1>1 DEF Traded, PositionsInv
  <2> QED BY <2>1, NextOpens
<1>4. EndTold'
  <2>1. record' = NoResult
    BY <1>1 DEF Traded, ended
  <2> QED BY <2>1 DEF EndTold, RepeatsTellTheSame, Voided, AloneNeverProfits
<1> QED BY <1>2, <1>3, <1>4 DEF PositionsInv

----------------------------------------------------------------------------
(* Payments *)

Slips(A, H) == {[user |-> h[1], outcome |-> h[2], amount |-> A[h]] : h \in H}

Payable(A, H) == H \subseteq Holders /\ IsFiniteSet(H) /\ \A h \in H : A[h] \in Nat

Due(A, H, h) == IF h \in H THEN A[h] ELSE 0

\* One payment per holder, and they come to what is paid in all.
LEMMA SlipsAddUp ==
  ASSUME NEW A, NEW H, Payable(A, H)
  PROVE  /\ Amounts(Slips(A, H)) = SumFunctionOnSet(A, H) /\ Amounts(Slips(A, H)) \in Nat
         /\ Cardinality(Slips(A, H)) = Cardinality(H)
<1> DEFINE f == [h \in H |-> [user |-> h[1], outcome |-> h[2], amount |-> A[h]]]
           P == {f[h] : h \in H}
           F == [p \in P |-> p.amount]
           G == [h \in H |-> F[f[h]]]
<1>1. H \subseteq Holders /\ IsFiniteSet(H) /\ \A h \in H : A[h] \in Nat
  BY DEF Payable
<1>2. P = Slips(A, H)
  BY DEF Slips
<1>3. \A h \in H : f[h] = [user |-> h[1], outcome |-> h[2], amount |-> A[h]]
  OBVIOUS
<1>4. \A h, k \in H : f[h] = f[k] => h = k
  <2>1. ASSUME NEW h \in H, NEW k \in H, f[h] = f[k] PROVE h = k
    <3>1. h[1] = k[1] /\ h[2] = k[2]
      BY <1>3, <2>1
    <3>2. h = <<h[1], h[2]>> /\ k = <<k[1], k[2]>>
      BY <1>1 DEF Holders
    <3> QED BY <3>1, <3>2
  <2> QED BY <2>1
<1>5. \A h \in H : F[f[h]] = A[h] /\ G[h] = A[h]
  BY <1>3
<1>6. Amounts(P) = SumFunctionOnSet(F, P)
  BY DEF Amounts, SumFunction
<1> HIDE DEF f, F
<1>7. /\ Cardinality({f[h] : h \in H}) = Cardinality(H)
      /\ SumFunctionOnSet(F, {f[h] : h \in H}) = SumFunctionOnSet([h \in H |-> F[f[h]]], H)
  BY <1>1, <1>4, <1>5, SumImage
<1> HIDE DEF G
<1>8. SumFunctionOnSet(G, H) = SumFunctionOnSet(A, H)
  BY <1>1, <1>5, SumSame
<1>9. SumFunctionOnSet(A, H) \in Nat
  <2>1. H \in SUBSET H
    OBVIOUS
  <2> QED BY <1>1, <2>1, SumNat
<1> QED BY <1>2, <1>6, <1>7, <1>8, <1>9 DEF G

\* What each payment, and all the payments of one user, come to.
LEMMA SlipsPay ==
  ASSUME NEW A, NEW H, Payable(A, H), NEW u \in Users
  PROVE  /\ \A o \in Outcomes : Amounts({p \in Slips(A, H) : p.user = u /\ p.outcome = o}) = Due(A, H, <<u, o>>)
         /\ \A o \in Outcomes : Due(A, H, <<u, o>>) \in Nat
         /\ Amounts({p \in Slips(A, H) : p.user = u}) = Due(A, H, <<u, 0>>) + Due(A, H, <<u, 1>>)
<1>1. H \subseteq Holders /\ IsFiniteSet(H) /\ \A h \in H : A[h] \in Nat
  BY DEF Payable
<1>2. \A o \in Outcomes : Due(A, H, <<u, o>>) \in Nat
  BY <1>1 DEF Due
<1>3. \A K \in SUBSET H : Payable(A, K)
  BY <1>1, FS_Subset DEF Payable
<1>4. ASSUME NEW o \in Outcomes
      PROVE  Amounts({p \in Slips(A, H) : p.user = u /\ p.outcome = o}) = Due(A, H, <<u, o>>)
  <2>1. PICK k : k = <<u, o>>
    OBVIOUS
  <2>2. Amounts({p \in Slips(A, H) : p.user = u /\ p.outcome = o}) = SumFunctionOnSet(A, H \cap {k})
    <3>1. H \cap {k} \in SUBSET H
      OBVIOUS
    <3>2. Payable(A, H \cap {k})
      BY <1>3, <3>1
    <3>3. {p \in Slips(A, H) : p.user = u /\ p.outcome = o} = Slips(A, H \cap {<<u, o>>})
      <4>1. \A h \in H : (h[1] = u /\ h[2] = o) <=> h = <<u, o>>
        BY <1>1 DEF Holders
      <4>2. {p \in Slips(A, H) : p.user = u /\ p.outcome = o} = Slips(A, {h \in H : h[1] = u /\ h[2] = o})
        BY DEF Slips
      <4>3. {h \in H : h[1] = u /\ h[2] = o} = H \cap {<<u, o>>}
        BY <4>1
      <4> QED BY <4>2, <4>3
    <3>4. Amounts(Slips(A, H \cap {k})) = SumFunctionOnSet(A, H \cap {k})
      BY <3>2, SlipsAddUp
    <3> QED BY <2>1, <3>3, <3>4
  <2>3. CASE k \in H
    <3>1. H \cap {k} = {k} /\ A[k] \in Int /\ k \in {k} /\ \A x \in {k} \ {k} : A[x] = 0
      BY <1>1, <2>3
    <3>2. SumFunctionOnSet(A, {k}) = A[k]
      BY <3>1, FS_Singleton, SumOne
    <3> QED BY <2>1, <2>2, <2>3, <3>1, <3>2 DEF Due
  <2>4. CASE k \notin H
    <3>1. H \cap {k} = {}
      BY <2>4
    <3> QED BY <2>1, <2>2, <2>4, <3>1, SumEmpty DEF Due
  <2> QED BY <2>3, <2>4
<1>5. Amounts({p \in Slips(A, H) : p.user = u}) = Due(A, H, <<u, 0>>) + Due(A, H, <<u, 1>>)
  <2>1. PICK a, b : a = <<u, 0>> /\ b = <<u, 1>>
    OBVIOUS
  <2>2. a # b /\ \A h \in Holders : h[1] = u <=> h = a \/ h = b
    BY <2>1 DEF Holders, Outcomes
  <2> DEFINE K == {h \in H : h[1] = u}
             F == [h \in {a, b} |-> Due(A, H, h)]
  <2>3. K = {a, b} \cap H /\ K \in SUBSET H
    BY <1>1, <2>2
  <2>4. Amounts({p \in Slips(A, H) : p.user = u}) = SumFunctionOnSet(A, K)
    <3>1. Payable(A, K)
      BY <1>3, <2>3
    <3>2. {p \in Slips(A, H) : p.user = u} = Slips(A, K)
      BY DEF Slips, K
    <3> HIDE DEF K
    <3>3. Amounts(Slips(A, K)) = SumFunctionOnSet(A, K)
      BY <3>1, SlipsAddUp
    <3> QED BY <3>2, <3>3
  <2>5. F[a] = Due(A, H, a) /\ F[b] = Due(A, H, b) /\ \A x \in {a, b} : F[x] \in Nat
    BY <1>2, <2>1 DEF Outcomes
  <2>6. \A x \in K : A[x] = F[x]
    BY <2>3 DEF Due
  <2>7. \A x \in {a, b} \ H : F[x] = 0
    BY DEF Due
  <2>8. IsFiniteSet({a, b}) /\ IsFiniteSet(K) /\ IsFiniteSet({a}) /\ {a, b} = {a} \cup {b}
    <3>1. IsFiniteSet({a}) /\ {a, b} = {a} \cup {b}
      BY FS_Singleton
    <3>2. IsFiniteSet({a} \cup {b})
      BY <3>1, FS_AddElement
    <3> QED BY <1>1, <2>3, <3>1, <3>2, FS_Subset
  <2> HIDE DEF K, F
  <2>9. SumFunctionOnSet(A, K) = SumFunctionOnSet(F, K)
    BY <2>6, <2>8, SumSame
  <2>10. SumFunctionOnSet(F, {a, b} \cap H) = SumFunctionOnSet(F, {a, b})
    BY <2>5, <2>7, <2>8, SumNarrows
  <2>11. SumFunctionOnSet(F, {a} \cup {b}) = SumFunctionOnSet(F, {a}) + F[b]
    <3>1. b \notin {a} /\ \A x \in {a} \cup {b} : F[x] \in Int
      BY <2>2, <2>5
    <3> QED BY <2>8, <3>1, SumExtends
  <2>12. SumFunctionOnSet(F, {a}) = F[a]
    <3>1. a \in {a} /\ F[a] \in Int /\ \A x \in {a} \ {a} : F[x] = 0
      BY <2>5
    <3> QED BY <2>8, <3>1, SumOne
  <2> QED BY <2>1, <2>3, <2>4, <2>5, <2>8, <2>9, <2>10, <2>11, <2>12
<1> QED BY <1>2, <1>4, <1>5

\* The pool holds its seed until the market ends.
LEMMA PoolKeeps ==
  ASSUME EveryLead, PositionsInv, record = NoResult, Open
  PROVE  /\ balance["pool"] \in Int /\ Seed \in Nat /\ balance["pool"] >= Seed
         /\ Cardinality(fundings) = 1
<1>1. PositionsType /\ MoneyKept /\ OpeningInv
  BY DEF PositionsInv
<1>2. Cardinality(fundings) = 1
  BY <1>1, FundedOnce
<1>3. PICK p \in Int, s \in Nat : p = balance["pool"] /\ s = Seed
  BY <1>1, Names DEF PositionsType
<1>4. PICK a \in Nat, b \in Nat : a = q[0] /\ b = q[1]
  BY <1>1 DEF PositionsType, Outcomes
<1>5. CostAt(0, 0) <= CostAt(0 + a, 0 + b) /\ CostAt(0, 0) \in Int /\ CostAt(0 + a, 0 + b) \in Int
  <2>1. 0 \in Int
    OBVIOUS
  <2> QED BY <2>1, CostClimbs
<1>6. 0 + a = a /\ 0 + b = b
  OBVIOUS
<1>7. Grain * (p - s) >= CostAt(a, b) - CostAt(0, 0)
  <2>1. Seed * Cardinality(fundings) = s
    BY <1>2, <1>3
  <2> QED BY <1>1, <1>3, <1>4, <2>1 DEF MoneyKept
<1>8. Grain * 0 <= Grain * (p - s)
  <2>1. Grain * 0 = 0 /\ Grain * (p - s) \in Int
    BY Names
  <2> QED BY <1>5, <1>6, <1>7, <2>1
<1>9. 0 <= p - s
  <2>1. Grain \in Nat \ {0} /\ p - s \in Int /\ 0 \in Int
    BY Names
  <2> QED BY <1>8, <2>1, LessByScale
<1> QED BY <1>2, <1>3, <1>9

----------------------------------------------------------------------------
(* Endings *)

Results == [kind: {"settled"}, winner: Outcomes] \cup [kind: {"voided"}, by: Users \cup {Admin}]

\* An ending that pays what A says to the holders in H.
Ended(A, H) ==
  /\ record = NoResult /\ Open
  /\ Payable(A, H) /\ \A h \in H : h[1] \in granted
  /\ record' \in Results /\ PayAndEmpty(Slips(A, H))

\* What an ending does to every balance.
LEMMA EndedMoney ==
  ASSUME PositionsInv, NEW A, NEW H, Ended(A, H)
  PROVE  /\ residue' = balance["pool"] - SumFunctionOnSet(A, H)
         /\ SumFunctionOnSet(A, H) \in Nat /\ balance["pool"] \in Int
         /\ Taken' = SumFunctionOnSet(A, H) /\ PoolBefore' = balance["pool"]
         /\ Cardinality(payments') = Cardinality(H)
         /\ \A u \in Users, o \in Outcomes :
              PaidFor(u, o)' = Due(A, H, <<u, o>>) /\ Due(A, H, <<u, o>>) \in Nat
         /\ balance' \in [Owners -> Int] /\ banked' \in [Users -> Int] /\ residue' \in Int
         /\ balance'["pool"] = 0 /\ balance'["platform"] = balance["platform"] + residue'
         /\ \A u \in Users :
              LET got == Due(A, H, <<u, 0>>) + Due(A, H, <<u, 1>>)
              IN  balance'[u] = balance[u] + got /\ banked'[u] = banked[u] + got - OpenCostBasis(u)
<1> DEFINE P == Slips(A, H)
           own(u) == Amounts({p \in P : p.user = u})
           got(u) == Due(A, H, <<u, 0>>) + Due(A, H, <<u, 1>>)
<1>1. PositionsType /\ Payable(A, H)
  BY DEF PositionsInv, Ended
<1>2. PICK s \in Nat, b \in Int : s = Amounts(P) /\ b = balance["pool"]
  BY <1>1, SlipsAddUp, Names DEF PositionsType
<1>3. s = SumFunctionOnSet(A, H) /\ Cardinality(P) = Cardinality(H)
  BY <1>1, <1>2, SlipsAddUp
<1>4. payments' = P /\ residue' = b - s
  BY <1>2 DEF Ended, PayAndEmpty
<1>5. Taken' = s /\ PoolBefore' = b
  <2>1. Taken' = s
    BY <1>2, <1>4 DEF Taken
  <2> QED BY <1>4, <2>1 DEF PoolBefore
<1>6. ASSUME NEW u \in Users
      PROVE  /\ \A o \in Outcomes : PaidFor(u, o)' = Due(A, H, <<u, o>>) /\ Due(A, H, <<u, o>>) \in Nat
             /\ own(u) = got(u) /\ got(u) \in Nat
  <2>1. /\ \A o \in Outcomes : Amounts({p \in Slips(A, H) : p.user = u /\ p.outcome = o}) = Due(A, H, <<u, o>>)
        /\ \A o \in Outcomes : Due(A, H, <<u, o>>) \in Nat
        /\ Amounts({p \in Slips(A, H) : p.user = u}) = Due(A, H, <<u, 0>>) + Due(A, H, <<u, 1>>)
    BY <1>1, SlipsPay
  <2>2. \A o \in Outcomes : PaidFor(u, o)' = Due(A, H, <<u, o>>)
    BY <1>4, <2>1 DEF PaidFor
  <2>3. 0 \in Outcomes /\ 1 \in Outcomes
    BY DEF Outcomes
  <2> QED BY <2>1, <2>2, <2>3
<1>7. balance' = [a \in Owners |->
           CASE a = "pool" -> balance[a] - Amounts(P) - (balance["pool"] - Amounts(P))
             [] a = "platform" -> balance[a] + (balance["pool"] - Amounts(P))
             [] OTHER -> balance[a] + own(a)]
  BY DEF Ended, PayAndEmpty
<1>8. banked' = [u \in Users |-> banked[u] + own(u) - OpenCostBasis(u)]
  BY DEF Ended, PayAndEmpty
<1>9. \A a \in Owners : balance[a] \in Int
  BY <1>1 DEF PositionsType
<1>a. \A u \in Users : banked[u] \in Int /\ OpenCostBasis(u) \in Int
  <2>1. ASSUME NEW u \in Users PROVE OpenCostBasis(u) \in Int
    <3>1. 0 \in Outcomes /\ 1 \in Outcomes
      BY DEF Outcomes
    <3>2. positions[u][0].basis \in Nat /\ positions[u][1].basis \in Nat
      BY <1>1, <3>1 DEF PositionsType
    <3> QED BY <3>2 DEF OpenCostBasis
  <2> QED BY <1>1, <2>1 DEF PositionsType
<1> HIDE DEF P, own, got
<1>10. \A a \in Owners : a \in Users \/ a = "pool" \/ a = "platform"
  BY DEF Owners
<1>11. /\ balance'["pool"] = 0 /\ balance'["platform"] = balance["platform"] + residue'
       /\ \A u \in Users : balance'[u] = balance[u] + got(u)
  <2>1. balance'["pool"] = 0
    BY <1>2, <1>7, Names
  <2>2. balance'["platform"] = balance["platform"] + residue'
    BY <1>2, <1>4, <1>7, Names
  <2>3. ASSUME NEW u \in Users PROVE balance'[u] = balance[u] + got(u)
    <3>1. balance'[u] = balance[u] + own(u)
      BY <1>7, Names
    <3> QED BY <1>6, <3>1
  <2> QED BY <2>1, <2>2, <2>3
<1>12. \A u \in Users : banked'[u] = banked[u] + got(u) - OpenCostBasis(u)
  BY <1>6, <1>8
<1>13. balance' \in [Owners -> Int]
  <2>1. \A a \in Owners : balance'[a] \in Int
    BY <1>2, <1>4, <1>6, <1>9, <1>10, <1>11, Names
  <2> QED BY <1>7, <2>1
<1>14. banked' \in [Users -> Int]
  <2>1. \A u \in Users : banked'[u] \in Int
    BY <1>6, <1>12, <1>a
  <2> QED BY <1>8, <2>1
<1>15. residue' \in Int
  BY <1>4
<1>16. Cardinality(payments') = Cardinality(H)
  BY <1>3, <1>4
<1> QED BY <1>2, <1>3, <1>4, <1>5, <1>6, <1>11, <1>12, <1>13, <1>14, <1>15, <1>16 DEF got

\* An ending keeps all of the invariant but what it tells.
LEMMA EndedHolds ==
  ASSUME EveryLead, PositionsInv, NEW A, NEW H, Ended(A, H)
  PROVE  /\ OpeningInv' /\ PositionsType' /\ TradesTell' /\ SharesHeld' /\ MoneyKept'
         /\ Replay' = Replay /\ Traders' = Traders /\ record' # NoResult
<1>1. OpeningInv /\ PositionsType /\ TradesTell /\ SharesHeld /\ MoneyKept
  BY DEF PositionsInv
<1>2. UNCHANGED <<opening, feed, q, positions, granted>> /\ record = NoResult /\ Open /\ record' \in Results
  BY DEF Ended, PayAndEmpty
<1>3. record' # NoResult
  BY <1>2, PositionsAssumption DEF Results
<1>4. OpeningInv' /\ fundings' = fundings
  <2>1. OpeningInv'
    BY <1>1, <1>2, NextOpens
  <2> QED BY <1>2, <2>1 DEF opening, tables
<1>5. Replay' = Replay /\ Traders' = Traders /\ TradesTell'
  BY <1>1, <1>2, SameTrades
<1>6. /\ balance' \in [Owners -> Int] /\ banked' \in [Users -> Int] /\ residue' \in Int
      /\ balance'["pool"] = 0 /\ balance'["platform"] = balance["platform"] + residue'
  BY EndedMoney
<1>7. PositionsType'
  <2>1. \/ record' \in [kind: {"settled"}, winner: Outcomes]
        \/ record' \in [kind: {"voided"}, by: Users \cup {Admin}]
    BY <1>2 DEF Results
  <2> QED BY <1>1, <1>2, <1>6, <2>1 DEF PositionsType
<1>8. \A u \in Users, o \in Outcomes : Due(A, H, <<u, o>>) \in Nat
  BY EndedMoney
<1>9. ASSUME NEW u \in Users
      PROVE  LET got == Due(A, H, <<u, 0>>) + Due(A, H, <<u, 1>>)
             IN  balance'[u] = balance[u] + got /\ banked'[u] = banked[u] + got - OpenCostBasis(u) /\ got \in Nat
  <2>1. 0 \in Outcomes /\ 1 \in Outcomes
    BY DEF Outcomes
  <2>2. Due(A, H, <<u, 0>>) \in Nat /\ Due(A, H, <<u, 1>>) \in Nat
    BY <1>8, <2>1
  <2> QED BY <2>2, EndedMoney
<1>10. SharesHeld'
  <2>1. ASSUME NEW u \in Users \ granted
        PROVE  balance'[u] = 0 /\ banked'[u] = 0
    <3>1. Due(A, H, <<u, 0>>) = 0 /\ Due(A, H, <<u, 1>>) = 0
      BY <2>1 DEF Ended, Due
    <3>2. balance[u] = 0 /\ banked[u] = 0 /\ \A o \in Outcomes : positions[u][o] = NoPosition
      BY <1>1 DEF SharesHeld
    <3>3. OpenCostBasis(u) = 0
      <4>1. positions[u][0].basis = 0 /\ positions[u][1].basis = 0
        BY <3>2 DEF Outcomes, NoPosition
      <4> QED BY <4>1 DEF OpenCostBasis
    <3>4. PICK got \in Nat : /\ got = Due(A, H, <<u, 0>>) + Due(A, H, <<u, 1>>)
                            /\ balance'[u] = balance[u] + got /\ banked'[u] = banked[u] + got - OpenCostBasis(u)
      BY <1>9
    <3>5. got = 0
      BY <3>1, <3>4
    <3> QED BY <3>2, <3>3, <3>4, <3>5
  <2>2. fundings # {}
    BY <1>1, <1>2, FundedOnce
  <2> QED BY <1>1, <1>2, <1>4, <1>5, <2>1, <2>2 DEF SharesHeld
<1>11. \A u \in granted' : Realized(u)' = banked'[u]
  <2>1. ASSUME NEW u \in granted PROVE Realized(u)' = banked'[u]
    <3>1. u \in Users
      BY <1>1 DEF PositionsType
    <3>2. PICK got \in Nat : balance'[u] = balance[u] + got /\ banked'[u] = banked[u] + got - OpenCostBasis(u)
      BY <1>9, <3>1
    <3>3. balance[u] - Grant + OpenCostBasis(u) = banked[u]
      BY <1>1 DEF MoneyKept, Realized
    <3>4. Realized(u)' = balance'[u] - Grant + 0
      <4>1. OpenCostBasis(u)' = 0
        BY <1>3 DEF OpenCostBasis
      <4> QED BY <4>1 DEF Realized
    <3>5. balance[u] \in Int /\ Grant \in Int /\ OpenCostBasis(u) \in Int
      <4>1. 0 \in Outcomes /\ 1 \in Outcomes
        BY DEF Outcomes
      <4>2. positions[u][0].basis \in Nat /\ positions[u][1].basis \in Nat
        BY <1>1, <3>1, <4>1 DEF PositionsType
      <4>3. OpenCostBasis(u) \in Int
        BY <4>2 DEF OpenCostBasis
      <4> QED BY <1>1, <3>1, <4>3, Names DEF PositionsType
    <3> QED BY <3>2, <3>3, <3>4, <3>5
  <2> QED BY <1>2, <2>1
<1>12. balance'["platform"] = residue' - Seed * Cardinality(fundings') - Grant * Cardinality(granted')
  <2>1. balance["platform"] = residue - Seed * Cardinality(fundings) - Grant * Cardinality(granted) /\ residue = 0
    BY <1>1, <1>2 DEF MoneyKept
  <2>2. PICK a \in Int, b \in Int : a = Seed * Cardinality(fundings) /\ b = Grant * Cardinality(granted)
    <3>1. IsFiniteSet(granted)
      BY <1>1, Names, FS_Subset DEF PositionsType
    <3>2. Cardinality(granted) \in Nat /\ Cardinality(fundings) \in Nat
      BY <1>1, <3>1, FundedOnce, FS_CardinalityType
    <3> QED BY <3>2, Names
  <2>3. balance'["platform"] = residue' - a - b
    BY <1>6, <2>1, <2>2
  <2> QED BY <1>2, <1>4, <2>2, <2>3
<1>13. MoneyKept'
  BY <1>3, <1>6, <1>11, <1>12 DEF MoneyKept
<1> QED BY <1>3, <1>4, <1>5, <1>7, <1>10, <1>13

\* A payout takes a share for each share of the outcome that won.
LEMMA PayoutCosts ==
  ASSUME PositionsInv, NEW w \in Outcomes, NEW H, NEW A,
         H = {u \in Users : positions[u][w].quantity > 0} \X {w},
         A = [h \in H |-> Share * positions[h[1]][h[2]].quantity]
  PROVE  /\ Payable(A, H) /\ \A h \in H : h[1] \in granted
         /\ SumFunctionOnSet(A, H) = Share * q[w]
         /\ Cardinality(H) = Cardinality({u \in Users : positions[u][w].quantity > 0})
<1>1. PositionsType /\ SharesHeld
  BY DEF PositionsInv
<1> DEFINE S == {u \in Users : positions[u][w].quantity > 0}
           F == [u \in Users |-> positions[u][w].quantity]
           G == [u \in Users |-> Share * F[u]]
           f == [u \in S |-> <<u, w>>]
           K == [u \in S |-> A[f[u]]]
<1>2. Share \in Nat
  BY ScaleAssumption
<1>3. \A u \in Users : positions[u][w].quantity \in Nat
  BY <1>1 DEF PositionsType
<1>4. /\ \A u \in Users : F[u] = positions[u][w].quantity /\ F[u] \in Nat /\ F[u] \in Int
      /\ \A u \in Users : G[u] = Share * F[u] /\ G[u] \in Nat /\ G[u] \in Int
  BY <1>2, <1>3
<1>5. S \subseteq Users /\ IsFiniteSet(S) /\ IsFiniteSet(Users) /\ Users \cap S = S
  BY Names, FS_Subset
<1>6. /\ \A u \in S : f[u] = <<u, w>>
      /\ \A u, v \in S : f[u] = f[v] => u = v
      /\ {f[u] : u \in S} = H
  <2>1. \A u \in S : f[u] = <<u, w>>
    OBVIOUS
  <2> HIDE DEF f
  <2>2. H = S \X {w}
    OBVIOUS
  <2> HIDE DEF S
  <2>3. \A h \in H : h[1] \in S /\ h = <<h[1], w>>
    BY <2>2
  <2>4. \A u \in S : <<u, w>> \in H
    BY <2>2
  <2>5. \A u, v \in S : f[u] = f[v] => u = v
    <3>1. ASSUME NEW u \in S, NEW v \in S, f[u] = f[v] PROVE u = v
      <4>1. <<u, w>> = <<v, w>>
        BY <2>1, <3>1
      <4> QED BY <4>1
    <3> QED BY <3>1
  <2>6. \A h \in H : h \in {f[u] : u \in S}
    BY <2>1, <2>3
  <2>7. \A h \in {f[u] : u \in S} : h \in H
    BY <2>1, <2>4
  <2>8. {f[u] : u \in S} = H
    BY <2>6, <2>7
  <2> QED BY <2>1, <2>5, <2>8
<1>7. \A h \in H : h[1] \in Users /\ h[2] = w /\ A[h] = Share * positions[h[1]][w].quantity /\ A[h] \in Nat
  <2>1. ASSUME NEW h \in H
        PROVE  h[1] \in Users /\ h[2] = w /\ A[h] = Share * positions[h[1]][w].quantity /\ A[h] \in Nat
    <3>1. h[1] \in Users /\ h[2] = w /\ A[h] = Share * positions[h[1]][h[2]].quantity
      OBVIOUS
    <3>2. Share * positions[h[1]][w].quantity \in Nat
      BY <1>2, <1>3, <3>1
    <3> QED BY <3>1, <3>2
  <2> QED BY <2>1
<1>8. \A u \in S : A[f[u]] = G[u] /\ A[f[u]] \in Int /\ K[u] = A[f[u]]
  BY <1>4, <1>6
<1>9. \A h \in H : h[1] \in granted
  <2>1. ASSUME NEW h \in H, h[1] \notin granted PROVE FALSE
    <3>1. h[1] \in Users /\ positions[h[1]][w].quantity > 0
      OBVIOUS
    <3>2. positions[h[1]][w] = NoPosition
      BY <1>1, <2>1, <3>1 DEF SharesHeld
    <3> QED BY <3>1, <3>2 DEF NoPosition
  <2> QED BY <2>1
<1> HIDE DEF F, G, f, S
<1>10. /\ IsFiniteSet(H) /\ Cardinality(H) = Cardinality(S)
       /\ SumFunctionOnSet(A, H) = SumFunctionOnSet(K, S)
  <2>1. /\ IsFiniteSet({f[x] : x \in S}) /\ Cardinality({f[x] : x \in S}) = Cardinality(S)
        /\ SumFunctionOnSet(A, {f[x] : x \in S}) = SumFunctionOnSet([x \in S |-> A[f[x]]], S)
    <3>1. \A x \in S : A[f[x]] \in Int
      BY <1>8
    <3>2. IsFiniteSet(S) /\ \A x, y \in S : f[x] = f[y] => x = y
      BY <1>5, <1>6
    <3> HIDE DEF K
    <3>3. IsFiniteSet({f[x] : x \in S}) /\ Cardinality({f[x] : x \in S}) = Cardinality(S)
      BY <3>1, <3>2, SumImage
    <3>4. PICK B : B = A
      OBVIOUS
    <3>5. \A x \in S : B[f[x]] \in Int
      BY <3>1, <3>4
    <3>6. SumFunctionOnSet(B, {f[x] : x \in S}) = SumFunctionOnSet([x \in S |-> B[f[x]]], S)
      BY <3>2, <3>5, SumImage
    <3> QED BY <3>3, <3>4, <3>6
  <2> QED BY <1>6, <2>1
<1> HIDE DEF K
<1>11. SumFunctionOnSet(K, S) = SumFunctionOnSet(G, S)
  BY <1>5, <1>8, SumSame
<1>12. SumFunctionOnSet(G, Users \cap S) = SumFunctionOnSet(G, Users)
  <2>1. \A u \in Users \ S : G[u] = 0
    BY <1>2, <1>4 DEF S
  <2> QED BY <1>4, <1>5, <2>1, SumNarrows
<1>13. SumFunctionOnSet(G, Users) = Share * SumFunctionOnSet(F, Users)
  <2>1. Bounds(1, G, Share, F, Users)
    BY <1>2, <1>4, <1>5 DEF Bounds
  <2>2. Bounds(Share, F, 1, G, Users)
    BY <1>2, <1>4, <1>5 DEF Bounds
  <2>3. /\ 1 * SumFunctionOnSet(G, Users) <= Share * SumFunctionOnSet(F, Users)
        /\ SumFunctionOnSet(G, Users) \in Int /\ SumFunctionOnSet(F, Users) \in Int
    BY <1>2, <2>1, SumBounded
  <2>4. Share * SumFunctionOnSet(F, Users) <= 1 * SumFunctionOnSet(G, Users)
    BY <1>2, <2>2, SumBounded
  <2>5. PICK a \in Int, b \in Int : a = SumFunctionOnSet(G, Users) /\ b = SumFunctionOnSet(F, Users)
    BY <2>3
  <2> QED BY <1>2, <2>3, <2>4, <2>5
<1>14. SumFunctionOnSet(F, Users) = q[w]
  BY <1>1 DEF SharesHeld, F
<1>15. H \subseteq Holders
  BY <1>5 DEF Holders, S
<1>16. Payable(A, H)
  BY <1>7, <1>10, <1>15 DEF Payable
<1>17. SumFunctionOnSet(A, H) = Share * q[w]
  BY <1>5, <1>10, <1>11, <1>12, <1>13, <1>14
<1> QED BY <1>9, <1>10, <1>16, <1>17 DEF S

\* A payout keeps the invariant.
LEMMA PayOutHolds ==
  ASSUME EveryLead, PositionsInv, NEW w \in Outcomes, PayOut(w)
  PROVE  PositionsInv'
<1>1. PICK H : H = {u \in Users : positions[u][w].quantity > 0} \X {w}
  OBVIOUS
<1>2. PICK A : A = [h \in H |-> Share * positions[h[1]][h[2]].quantity]
  OBVIOUS
<1> DEFINE S == {u \in Users : positions[u][w].quantity > 0}
<1>3. /\ Payable(A, H) /\ \A h \in H : h[1] \in granted
      /\ SumFunctionOnSet(A, H) = Share * q[w] /\ Cardinality(H) = Cardinality(S)
  BY <1>1, <1>2, PayoutCosts
<1>4. /\ record = NoResult /\ Open
      /\ record' = [kind |-> "settled", winner |-> w]
      /\ told' = [winner |-> w, holders |-> Cardinality(S),
                  paid |-> Share * q[w], residue |-> balance["pool"] - Share * q[w]]
      /\ PayAndEmpty({[user |-> u, outcome |-> w, amount |-> Share * positions[u][w].quantity] : u \in S})
  BY DEF PayOut, Quiet, ExposureTo
<1>5. {[user |-> u, outcome |-> w, amount |-> Share * positions[u][w].quantity] : u \in S} = Slips(A, H)
  <2> DEFINE L == {[user |-> u, outcome |-> w, amount |-> Share * positions[u][w].quantity] : u \in S}
  <2>1. \A h \in H : /\ h[1] \in S /\ h[2] = w /\ A[h] = Share * positions[h[1]][w].quantity
    BY <1>1, <1>2
  <2>2. \A u \in S : <<u, w>> \in H
    BY <1>1
  <2>3. ASSUME NEW p \in L PROVE p \in Slips(A, H)
    <3>1. PICK u \in S : p = [user |-> u, outcome |-> w, amount |-> Share * positions[u][w].quantity]
      OBVIOUS
    <3>2. PICK h \in H : h[1] = u /\ h[2] = w
      BY <2>2
    <3>3. p = [user |-> h[1], outcome |-> h[2], amount |-> A[h]]
      BY <2>1, <3>1, <3>2
    <3> HIDE DEF S
    <3> QED BY <3>3 DEF Slips
  <2>4. ASSUME NEW p \in Slips(A, H) PROVE p \in L
    <3>1. PICK h \in H : p = [user |-> h[1], outcome |-> h[2], amount |-> A[h]]
      BY DEF Slips
    <3>2. h[1] \in S /\ p = [user |-> h[1], outcome |-> w, amount |-> Share * positions[h[1]][w].quantity]
      BY <2>1, <3>1
    <3> HIDE DEF S
    <3> QED BY <3>2
  <2> HIDE DEF L
  <2>5. L = Slips(A, H)
    BY <2>3, <2>4
  <2> QED BY <2>5 DEF L
<1> HIDE DEF S
<1>6. Ended(A, H)
  <2>1. record' \in Results
    BY <1>4 DEF Results
  <2> QED BY <1>3, <1>4, <1>5, <2>1 DEF Ended
<1>7. /\ OpeningInv' /\ PositionsType' /\ TradesTell' /\ SharesHeld' /\ MoneyKept' /\ record' # NoResult
  BY <1>6, EndedHolds
<1>8. /\ residue' = balance["pool"] - Share * q[w] /\ Taken' = Share * q[w]
      /\ Cardinality(payments') = Cardinality(S)
  BY <1>3, <1>6, EndedMoney
<1>9. ~ Voided'
  BY <1>4 DEF Voided
<1>10. told' = ReplayedSettlement'
  BY <1>4, <1>8 DEF ReplayedSettlement
<1>11. EndTold'
  BY <1>7, <1>9, <1>10 DEF EndTold, RepeatsTellTheSame, AloneNeverProfits
<1> QED BY <1>7, <1>11 DEF PositionsInv

----------------------------------------------------------------------------
(* Voids *)

\* A stack is owed a refund, or nothing.
LEMMA RefundsAre ==
  ASSUME EveryLead, NEW o \in Outcomes, NEW lots, Stack(lots, o)
  PROVE  RefundsOf(lots, o) \in Nat
<1>1. ASSUME NEW i \in 1..Len(lots) PROVE RefundOfLot(lots[i], o) \in Nat
  <2>1. PICK l \in Lot : l = lots[i]
    BY DEF Stack, LotSound
  <2>2. l.left \in Nat /\ l.charged \in Nat
    BY DEF Lot
  <2>3. l.before[0] - l.before[1] + Lead(o, l.left) \in Int
    BY <2>2, RawBack
  <2>4. Price(o, "sell", l.left, l.before[0] - l.before[1] + Lead(o, l.left)) \in Nat
    <3>1. "sell" \in Sides
      BY DEF Sides
    <3>2. PICK d \in Int : d = l.before[0] - l.before[1] + Lead(o, l.left)
      BY <2>3
    <3>3. Price(o, "sell", l.left, d) \in Nat
      BY <2>2, <3>1, PriceCovers
    <3> QED BY <3>2, <3>3
  <2> QED BY <2>1, <2>2, <2>4 DEF RefundOfLot
<1>2. DOMAIN lots = 1..Len(lots) /\ Len(lots) \in Nat /\ IsFiniteSet(1..Len(lots))
  <2>1. lots \in Seq(Lot)
    BY DEF Stack
  <2>2. Len(lots) \in Nat /\ DOMAIN lots = 1..Len(lots) /\ 1 \in Int /\ Len(lots) \in Int
    BY <2>1
  <2> QED BY <2>2, FS_Interval
<1> DEFINE F == [i \in 1..Len(lots) |-> RefundOfLot(lots[i], o)]
<1>3. \A i \in 1..Len(lots) : F[i] \in Nat
  BY <1>1
<1>4. RefundsOf(lots, o) = SumFunctionOnSet(F, 1..Len(lots))
  BY <1>2 DEF RefundsOf, SumFunction
<1> HIDE DEF F
<1>5. 1..Len(lots) \in SUBSET (1..Len(lots))
  OBVIOUS
<1> QED BY <1>2, <1>3, <1>4, <1>5, SumNat

\* Whoever is owed a refund holds shares, and has a grant.
LEMMA OwedIs ==
  ASSUME EveryLead, PositionsInv, NEW owed, owed = Owed(Replay)
  PROVE  /\ DOMAIN owed = LotsLeft(Replay) /\ DOMAIN owed \subseteq Holders /\ IsFiniteSet(DOMAIN owed)
         /\ \A h \in DOMAIN owed : /\ owed[h] = RefundsOf(Replay.lots[h], h[2]) /\ owed[h] \in Nat
                                   /\ h[1] \in granted
         /\ \A h \in Holders : RefundsOf(Replay.lots[h], h[2]) \in Nat /\ h[2] \in Outcomes
<1>1. PositionsType /\ TradesTell /\ SharesHeld
  BY DEF PositionsInv
<1>2. DOMAIN owed = LotsLeft(Replay) /\ \A h \in DOMAIN owed : owed[h] = RefundsOf(Replay.lots[h], h[2])
  BY DEF Owed
<1>3. DOMAIN owed \subseteq Holders
  BY <1>2 DEF LotsLeft
<1>4. IsFiniteSet(DOMAIN owed)
  <2>1. IsFiniteSet(Users) /\ IsFiniteSet(Outcomes)
    <3>1. Outcomes = {0} \cup {1} /\ IsFiniteSet({0})
      BY FS_Singleton DEF Outcomes
    <3> QED BY <3>1, Names, FS_AddElement
  <2>2. IsFiniteSet(Holders)
    BY <2>1, FS_Product DEF Holders
  <2> QED BY <1>3, <2>2, FS_Subset
<1>5. \A h \in Holders : h[1] \in Users /\ h[2] \in Outcomes /\ Stack(Replay.lots[h], h[2])
  BY <1>1 DEF TradesTell, ReplaySound, Holders
<1>6. \A h \in Holders : RefundsOf(Replay.lots[h], h[2]) \in Nat
  BY <1>5, RefundsAre
<1>7. \A h \in DOMAIN owed : h[1] \in granted
  <2>1. ASSUME NEW h \in DOMAIN owed, h[1] \notin granted PROVE FALSE
    <3>1. h \in Holders /\ SharesLeft(Replay, h) > 0
      BY <1>2 DEF LotsLeft
    <3>2. SharesLeft(Replay, h) = Held(Replay.lots[h])
      BY <1>5, <3>1, HeldIs DEF SharesLeft, Stack
    <3>3. Held(Replay.lots[h]) = positions[h[1]][h[2]].quantity
      BY <1>1, <3>1 DEF TradesTell
    <3>4. positions[h[1]][h[2]] = NoPosition
      BY <1>1, <1>5, <2>1, <3>1 DEF SharesHeld
    <3> QED BY <3>1, <3>2, <3>3, <3>4 DEF NoPosition
  <2> QED BY <2>1
<1> QED BY <1>2, <1>3, <1>4, <1>5, <1>6, <1>7

\* A void keeps the invariant: a repeat finds the same pool and the same
\* trades, so the same cut.
LEMMA VoidHolds ==
  ASSUME EveryLead, PositionsInv, NEW by \in Users \cup {Admin}, Void(by)
  PROVE  PositionsInv'
<1>1. record = NoResult /\ Open
  BY DEF Void, Quiet
<1>2. PICK owed : owed = Owed(Replay)
  OBVIOUS
<1>3. /\ DOMAIN owed = LotsLeft(Replay) /\ DOMAIN owed \subseteq Holders /\ IsFiniteSet(DOMAIN owed)
      /\ \A h \in DOMAIN owed : /\ owed[h] = RefundsOf(Replay.lots[h], h[2]) /\ owed[h] \in Nat
                                /\ h[1] \in granted
      /\ \A h \in Holders : RefundsOf(Replay.lots[h], h[2]) \in Nat /\ h[2] \in Outcomes
  BY <1>2, OwedIs
<1>4. PICK p \in Int : p = balance["pool"] /\ p + Seed >= 0
  BY <1>1, PoolKeeps
<1>5. PICK cut : cut = CutOf(owed, p)
  OBVIOUS
<1>6. PICK A, H : A = cut.refunds /\ H = DOMAIN cut.refunds
  OBVIOUS
<1>7. /\ H \subseteq DOMAIN owed /\ IsFiniteSet(H)
      /\ \A h \in H : A[h] \in Nat \ {0} /\ A[h] <= owed[h]
      /\ ~ cut.cut => \A h \in DOMAIN owed : IF h \in H THEN A[h] = owed[h] ELSE owed[h] = 0
      /\ cut.refunded \in Nat /\ cut.refunded <= p + Seed
      /\ cut.refunded = SumFunctionOnSet(A, H)
      /\ cut.residue = p - cut.refunded
  <2>1. \A h \in DOMAIN owed : owed[h] \in Nat
    BY <1>3
  <2>2. LET c == CutOf(owed, p)
            D == DOMAIN c.refunds
        IN  /\ D \subseteq DOMAIN owed /\ IsFiniteSet(D)
            /\ \A h \in D : c.refunds[h] \in Nat \ {0} /\ c.refunds[h] <= owed[h]
            /\ ~ c.cut => \A h \in DOMAIN owed : IF h \in D THEN c.refunds[h] = owed[h] ELSE owed[h] = 0
            /\ c.refunded \in Nat /\ c.refunded <= p + Seed
            /\ c.refunded = SumFunctionOnSet(c.refunds, D)
            /\ c.residue = p - c.refunded
    BY <1>3, <1>4, <2>1, CutSound
  <2> QED BY <1>5, <1>6, <2>2
<1>8. Payable(A, H) /\ \A h \in H : h[1] \in granted
  BY <1>3, <1>7 DEF Payable
<1>9. /\ record' = [kind |-> "voided", by |-> by]
      /\ told' = [positions |-> Cardinality(H), owed |-> cut.owed,
                  refunded |-> cut.refunded, cut |-> cut.cut, residue |-> cut.residue]
      /\ PayAndEmpty(Slips(A, H))
  <2>1. CutOf(Owed(Replay), balance["pool"]) = cut
    BY <1>2, <1>4, <1>5
  <2> QED BY <1>6, <2>1 DEF Void, Slips
<1>10. Ended(A, H)
  <2>1. record' \in Results
    BY <1>9 DEF Results
  <2> QED BY <1>1, <1>8, <1>9, <2>1 DEF Ended
<1>11. /\ OpeningInv' /\ PositionsType' /\ TradesTell' /\ SharesHeld' /\ MoneyKept' /\ record' # NoResult
       /\ Replay' = Replay /\ Traders' = Traders
  BY <1>10, EndedHolds
<1>12. /\ residue' = p - cut.refunded /\ Taken' = cut.refunded /\ PoolBefore' = p
       /\ Cardinality(payments') = Cardinality(H)
       /\ \A u \in Users, o \in Outcomes :
            PaidFor(u, o)' = Due(A, H, <<u, o>>) /\ Due(A, H, <<u, o>>) \in Nat
  BY <1>4, <1>7, <1>10, EndedMoney
<1>13. Voided'
  BY <1>9, <1>11 DEF Voided
<1>14. RepeatsTellTheSame'
  <2>1. CutOf(Owed(Replay'), PoolBefore') = cut
    BY <1>2, <1>5, <1>11, <1>12
  <2>2. RepeatedVoid' = [positions |-> Cardinality(payments'), owed |-> cut.owed, refunded |-> Taken',
                         cut |-> cut.cut, residue |-> residue']
    BY <2>1 DEF RepeatedVoid
  <2>3. told' = RepeatedVoid'
    BY <1>7, <1>9, <1>12, <2>2
  <2> QED BY <1>13, <2>3 DEF RepeatsTellTheSame
<1>15. \A h \in Holders : PaidFor(h[1], h[2])' = Due(A, H, h)
  <2>1. ASSUME NEW h \in Holders PROVE PaidFor(h[1], h[2])' = Due(A, H, h)
    <3>1. h[1] \in Users /\ h[2] \in Outcomes /\ h = <<h[1], h[2]>>
      BY DEF Holders
    <3>2. PICK u \in Users, o \in Outcomes : u = h[1] /\ o = h[2]
      BY <3>1
    <3>3. PaidFor(u, o)' = Due(A, H, <<u, o>>)
      BY <1>12
    <3>4. PaidFor(h[1], h[2])' = PaidFor(u, o)'
      BY <3>2 DEF PaidFor
    <3> QED BY <3>1, <3>2, <3>3, <3>4
  <2> QED BY <2>1
<1>16. VoidPays' /\ residue' >= -Seed
  <2>1. Owed(Replay') = owed
    BY <1>2, <1>11
  <2>2. \A h \in Holders : Due(A, H, h) <= (IF h \in DOMAIN owed THEN owed[h] ELSE 0)
    BY <1>3, <1>7 DEF Due
  <2>3. ~ told'.cut => \A h \in DOMAIN owed : Due(A, H, h) = owed[h]
    BY <1>7, <1>9 DEF Due
  <2>4. VoidPays'
    BY <1>3, <1>15, <2>1, <2>2, <2>3 DEF VoidPays
  <2>5. residue' >= -Seed
    BY <1>4, <1>7, <1>12, Names
  <2> QED BY <2>4, <2>5
<1>17. AloneNeverProfits'
  <2>1. ASSUME NEW u \in granted', Traders' = {u} PROVE balance'[u] <= Grant
    <3>1. u \in granted /\ u \in Users /\ granted' = granted
      <4>1. granted' = granted
        BY <1>9 DEF PayAndEmpty
      <4> QED BY <4>1 DEF PositionsInv, PositionsType
    <3>2. Alone(Replay, u, Put(u)) /\ ReplaySound(Replay) /\ balance[u] \in Int /\ Put(u) = Grant - balance[u]
      <4>1. MoneyKept /\ TradesTell /\ PositionsType
        BY DEF PositionsInv
      <4>2. Traders \subseteq {u}
        BY <1>11, <2>1
      <4> QED BY <1>1, <3>1, <4>1, <4>2, Names DEF MoneyKept, TradesTell, PositionsType, Put
    <3>3. PICK a \in Nat, b \in Nat : /\ a = RefundsOf(Replay.lots[<<u, 0>>], 0)
                                      /\ b = RefundsOf(Replay.lots[<<u, 1>>], 1)
      <4>1. <<u, 0>> \in Holders /\ <<u, 1>> \in Holders
        BY <3>1 DEF Holders, Outcomes
      <4>2. RefundsOf(Replay.lots[<<u, 0>>], 0) \in Nat
        BY <1>3, <4>1
      <4>3. RefundsOf(Replay.lots[<<u, 1>>], 1) \in Nat
        BY <1>3, <4>1
      <4> QED BY <4>2, <4>3
    <3>4. a + b <= Grant - balance[u]
      <4>1. PICK paid \in Int : paid = Put(u)
        BY <3>2, Names
      <4>2. Alone(Replay, u, paid) /\ a \in Int /\ b \in Int
        BY <3>2, <4>1
      <4>3. a + b <= paid
        BY <3>1, <3>2, <3>3, <4>2, AloneRefunds
      <4> QED BY <3>2, <4>1, <4>3
    <3>5. ASSUME NEW o \in Outcomes
          PROVE  Due(A, H, <<u, o>>) \in Nat /\ Due(A, H, <<u, o>>) <= RefundsOf(Replay.lots[<<u, o>>], o)
      <4>1. PICK h \in Holders : h = <<u, o>>
        BY <3>1 DEF Holders
      <4>2. RefundsOf(Replay.lots[h], h[2]) \in Nat /\ h[2] = o
        BY <1>3, <4>1
      <4>3. h \in H => h \in DOMAIN owed /\ A[h] <= RefundsOf(Replay.lots[h], h[2]) /\ A[h] \in Nat
        BY <1>3, <1>7
      <4> QED BY <4>1, <4>2, <4>3 DEF Due
    <3>6. /\ Due(A, H, <<u, 0>>) \in Nat /\ Due(A, H, <<u, 0>>) <= a
          /\ Due(A, H, <<u, 1>>) \in Nat /\ Due(A, H, <<u, 1>>) <= b
      BY <3>3, <3>5 DEF Outcomes
    <3>7. balance'[u] = balance[u] + (Due(A, H, <<u, 0>>) + Due(A, H, <<u, 1>>))
      BY <1>10, <3>1, EndedMoney
    <3> QED BY <3>2, <3>4, <3>6, <3>7, Names
  <2> QED BY <2>1 DEF AloneNeverProfits
<1>18. EndTold'
  BY <1>14, <1>16, <1>17 DEF EndTold
<1> QED BY <1>11, <1>18 DEF PositionsInv

----------------------------------------------------------------------------
(* Every step *)

\* A step that changes nothing here keeps the invariant.
LEMMA StutterHolds ==
  ASSUME PositionsInv, UNCHANGED vars
  PROVE  PositionsInv'
<1>1. UNCHANGED <<opening, feed, q, positions, granted, balance, record, payments, residue, told, banked>>
  BY DEF vars, trading, accounts, ended
<1>2. OpeningInv /\ PositionsType /\ TradesTell /\ SharesHeld /\ MoneyKept /\ EndTold
  BY DEF PositionsInv
<1>3. OpeningInv' /\ fundings' = fundings
  <2>1. OpeningInv'
    BY <1>1, <1>2, NextOpens
  <2> QED BY <1>1, <2>1 DEF opening, tables
<1>4. Replay' = Replay /\ Traders' = Traders /\ TradesTell'
  BY <1>1, <1>2, SameTrades
<1>5. PositionsType'
  BY <1>1, <1>2 DEF PositionsType
<1>6. SharesHeld'
  BY <1>1, <1>2, <1>3, <1>4 DEF SharesHeld
<1>7. MoneyKept'
  <2>1. \A u : Put(u)' = Put(u)
    BY <1>1 DEF Put
  <2>2. \A u : Realized(u)' = Realized(u)
    BY <1>1 DEF Realized, OpenCostBasis
  <2> QED BY <1>1, <1>2, <1>3, <1>4, <2>1, <2>2 DEF MoneyKept
<1>8. EndTold'
  <2>1. /\ RepeatsTellTheSame' /\ (Voided' <=> Voided)
        /\ Voided' => VoidPays' /\ residue' >= -Seed
    BY <1>1, <1>2, SameEnding DEF EndTold, ended
  <2>2. AloneNeverProfits'
    BY <1>1, <1>2, <1>4, <2>1 DEF EndTold, AloneNeverProfits
  <2> QED BY <2>1, <2>2 DEF EndTold
<1> QED BY <1>3, <1>4, <1>5, <1>6, <1>7, <1>8 DEF PositionsInv

\* Every step keeps the invariant.
LEMMA PositionsNextHolds ==
  ASSUME EveryLead, PositionsInv, [Next]_vars
  PROVE  PositionsInv'
<1>1. CASE OpeningStep
  BY <1>1, OpeningHolds
<1>2. CASE \E u \in Users : FirstRead(u)
  BY <1>2, FirstReadHolds
<1>3. CASE \E r \in Trades : Trade(r)
  BY <1>3, TradeHolds
<1>4. CASE \E w \in Outcomes : PayOut(w)
  BY <1>4, PayOutHolds
<1>5. CASE \E by \in Users \cup {Admin} : Void(by)
  BY <1>5, VoidHolds
<1>6. CASE UNCHANGED vars
  BY <1>6, StutterHolds
<1> QED BY <1>1, <1>2, <1>3, <1>4, <1>5, <1>6 DEF Next

\* Whatever users, trades, seed, grant and cost curve there are, what the
\* trades, the positions, the money and the endings say of each other stays so
\* (service/settlement.py, service/voiding.py, core/voiding.py).
THEOREM PositionsStaySound == EveryLead => (Spec => []PositionsInv)
<1> SUFFICES ASSUME EveryLead PROVE Spec => []PositionsInv
  OBVIOUS
<1>1. Init => PositionsInv
  BY InitHolds
<1>2. PositionsInv /\ [Next]_vars => PositionsInv'
  BY PositionsNextHolds
<1> QED BY <1>1, <1>2, PTL DEF Spec

\* The invariant says that a void's guard never fires and that its batch adds
\* up.
LEMMA VoidClearsHolds ==
  ASSUME EveryLead, PositionsInv
  PROVE  VoidClears
<1>1. OpeningInv /\ PositionsType /\ TradesTell /\ SharesHeld /\ MoneyKept /\ EndTold
  BY DEF PositionsInv
<1>2. ReplayAgrees
  <2>1. \A h \in Holders : SharesLeft(Replay, h) = positions[h[1]][h[2]].quantity
    <3>1. ASSUME NEW h \in Holders PROVE SharesLeft(Replay, h) = Held(Replay.lots[h])
      <4>1. Stack(Replay.lots[h], h[2])
        BY <1>1 DEF TradesTell, ReplaySound
      <4> QED BY <4>1, HeldIs DEF SharesLeft, Stack
    <3> QED BY <1>1, <3>1 DEF TradesTell
  <2> QED BY <1>1, <2>1 DEF ReplayAgrees, TradesTell
<1>3. Open /\ record = NoResult => balance["pool"] >= Seed
  BY PoolKeeps
<1>4. record # NoResult => balance["pool"] = 0
  BY <1>1 DEF MoneyKept
<1>5. ASSUME Voided PROVE VoidPays /\ balance["platform"] + Grant * Cardinality(granted) >= -2 * Seed
  <2>1. VoidPays /\ residue >= -Seed
    BY <1>1, <1>5 DEF EndTold
  <2>2. Seed * Cardinality(fundings) <= Seed /\ Seed * Cardinality(fundings) \in Int
    <3>1. Cardinality(fundings) = 0 \/ Cardinality(fundings) = 1
      BY <1>1, FundedOnce
    <3>2. Seed * 0 = 0 /\ Seed * 1 = Seed
      BY Names
    <3> QED BY <3>1, <3>2, Names
  <2>3. Grant * Cardinality(granted) \in Int
    <3>1. IsFiniteSet(granted)
      BY <1>1, Names, FS_Subset DEF PositionsType
    <3>2. Cardinality(granted) \in Nat
      BY <3>1, FS_CardinalityType
    <3> QED BY <3>2, Names
  <2>4. PICK a \in Int, b \in Int, r \in Int, s \in Nat :
          a = Seed * Cardinality(fundings) /\ b = Grant * Cardinality(granted) /\ r = residue /\ s = Seed
    BY <1>1, <2>2, <2>3, Names DEF PositionsType
  <2>5. balance["platform"] = r - a - b
    BY <1>1, <2>4 DEF MoneyKept
  <2>6. balance["platform"] + b >= -2 * s
    BY <2>1, <2>2, <2>4, <2>5
  <2> QED BY <2>1, <2>4, <2>6
<1> QED BY <1>2, <1>3, <1>4, <1>5 DEF VoidClears, VoidPays

\* What selling n shares of o would bring is never more than the cost function
\* falls by.
LEMMA SaleWorth ==
  ASSUME EveryLead, NEW o \in Outcomes, NEW n \in Nat, NEW a \in Int, NEW b \in Int,
         NEW v, v = Price(o, "sell", n, a - b)
  PROVE  /\ v \in Nat
         /\ Grain * v <= CostAt(a, b) - (IF o = 0 THEN CostAt(a - n, b) ELSE CostAt(a, b - n))
<1>1. "sell" \in Sides /\ Signed("sell", n) = -n /\ a - b \in Int /\ -n \in Int
  BY DEF Sides, Signed
<1>2. PICK d \in Int : d = a - b
  BY <1>1
<1>3. Price(o, "sell", n, d) \in Nat /\ Grain * Price(o, "sell", n, d) <= -CostOf(o, Signed("sell", n), d)
  BY <1>1, <1>2, PriceCovers
<1>4. CostOf(o, Signed("sell", n), d) \in Int
  BY <1>1, <1>2, CostSigned
<1>5. CostOf(o, -n, a - b) = IF o = 0 THEN CostAt(a + (-n), b) - CostAt(a, b) ELSE CostAt(a, b + (-n)) - CostAt(a, b)
  BY <1>1, CostMoves
<1>6. a + (-n) = a - n /\ b + (-n) = b - n /\ a - n \in Int /\ b - n \in Int
  OBVIOUS
<1>7. CostAt(a, b) \in Int /\ CostAt(a - n, b) \in Int /\ CostAt(a, b - n) \in Int
  <2>1. CostAt(a, b) \in Int
    BY CostInt
  <2>2. CostAt(a - n, b) \in Int
    BY <1>6, CostInt
  <2>3. CostAt(a, b - n) \in Int
    BY <1>6, CostInt
  <2> QED BY <2>1, <2>2, <2>3
<1>8. PICK c \in Int : c = CostOf(o, -n, a - b) /\ Grain * v <= -c /\ v \in Nat
  BY <1>1, <1>2, <1>3, <1>4
<1>9. CASE o = 0
  <2>1. c = CostAt(a - n, b) - CostAt(a, b)
    BY <1>5, <1>6, <1>8, <1>9
  <2> QED BY <1>7, <1>8, <1>9, <2>1, Names
<1>10. CASE o # 0
  <2>1. c = CostAt(a, b - n) - CostAt(a, b)
    BY <1>5, <1>6, <1>8, <1>10
  <2> QED BY <1>7, <1>8, <1>10, <2>1, Names
<1> QED BY <1>9, <1>10

\* Both of a user's holdings are worth no more than the pool has over its seed.
LEMMA WorthHolds ==
  ASSUME EveryLead, PositionsInv, NEW u \in granted, record = NoResult
  PROVE  Value(u, 0) + Value(u, 1) <= balance["pool"] - Seed /\ Value(u, 0) + Value(u, 1) \in Int
<1>1. PositionsType /\ SharesHeld /\ MoneyKept /\ OpeningInv
  BY DEF PositionsInv
<1>2. u \in Users /\ Open /\ 0 \in Outcomes /\ 1 \in Outcomes
  BY <1>1, FundedOnce DEF PositionsType, SharesHeld, Outcomes
<1>3. PICK a \in Nat, b \in Nat, x \in Nat, y \in Nat :
        /\ a = positions[u][0].quantity /\ b = positions[u][1].quantity
        /\ x = q[0] /\ y = q[1] /\ a <= x /\ b <= y
  <2>1. positions[u][0].quantity \in Nat /\ positions[u][0].quantity <= q[0]
    BY <1>1, <1>2, HeldAtMost
  <2>2. positions[u][1].quantity \in Nat /\ positions[u][1].quantity <= q[1]
    BY <1>1, <1>2, HeldAtMost
  <2>3. q[0] \in Nat /\ q[1] \in Nat
    BY <1>1, <1>2 DEF PositionsType
  <2> QED BY <2>1, <2>2, <2>3
<1>4. PICK v, w : v = Value(u, 0) /\ w = Value(u, 1)
  OBVIOUS
<1> DEFINE z == Price(0, "sell", a, x - y)
           sold == a > 0 /\ z > 0
<1>5. /\ v = IF a = 0 THEN 0 ELSE z
      /\ w = IF b = 0 THEN 0 ELSE Price(1, "sell", b, IF sold THEN AfterFill(0, "sell", a, x - y) ELSE x - y)
  BY <1>3, <1>4 DEF Value
<1>6. PICK c \in Int, d \in Int, e \in Int, f \in Int, g \in Int :
        /\ c = CostAt(x, y) /\ d = CostAt(x - a, y) /\ e = CostAt(x - a, y - b)
        /\ f = CostAt(x, y - b) /\ g = CostAt(0, 0)
  <2>1. x - a \in Int /\ y - b \in Int /\ x \in Int /\ y \in Int /\ 0 \in Int
    BY <1>3
  <2>2. CostAt(x, y) \in Int
    BY <2>1, CostInt
  <2>3. CostAt(x - a, y) \in Int
    BY <2>1, CostInt
  <2>4. CostAt(x - a, y - b) \in Int
    BY <2>1, CostInt
  <2>5. CostAt(x, y - b) \in Int
    BY <2>1, CostInt
  <2>6. CostAt(0, 0) \in Int
    BY <2>1, CostInt
  <2> QED BY <2>2, <2>3, <2>4, <2>5, <2>6
<1>7. z \in Nat /\ Grain * z <= c - d
  <2>1. x \in Int /\ y \in Int
    BY <1>3
  <2>2. /\ z \in Nat
        /\ Grain * z <= CostAt(x, y) - (IF 0 = 0 THEN CostAt(x - a, y) ELSE CostAt(x, y - a))
    BY <1>2, <1>3, <2>1, SaleWorth
  <2> HIDE DEF z
  <2> QED BY <1>6, <2>2
<1>8. g <= e /\ g <= f
  <2>1. PICK k \in Nat, l \in Nat : k = x - a /\ l = y - b
    BY <1>3
  <2>2. 0 \in Int /\ 0 + k = k /\ 0 + l = l /\ 0 + x = x
    BY <1>3, <2>1
  <2>3. CostAt(0, 0) <= CostAt(0 + k, 0 + l)
    BY <2>1, <2>2, CostClimbs
  <2>4. CostAt(0, 0) <= CostAt(0 + x, 0 + l)
    BY <1>3, <2>1, <2>2, CostClimbs
  <2> QED BY <1>6, <2>1, <2>2, <2>3, <2>4
<1> HIDE DEF z, sold
<1>9. v \in Nat /\ w \in Nat /\ Grain * v + Grain * w <= c - g
  <2>0. Grain * 0 = 0 /\ Grain * z \in Int
    BY <1>7, Names
  <2>1. CASE sold
    <3>1. v = z
      BY <1>5, <2>1 DEF sold
    <3>2. AfterFill(0, "sell", a, x - y) = (x - a) - y
      <4>1. Signed("sell", a) = -a
        BY DEF Signed
      <4>2. AfterFill(0, "sell", a, x - y) = (x - y) + (-a)
        BY <4>1 DEF AfterFill, Lead
      <4> QED BY <1>3, <4>2
    <3>3. CASE b = 0
      <4>1. w = 0 /\ y - b = y /\ e = d
        BY <1>3, <1>5, <1>6, <3>3
      <4> QED BY <1>6, <1>7, <1>8, <2>0, <3>1, <4>1
    <3>4. CASE b # 0
      <4>1. w = Price(1, "sell", b, (x - a) - y)
        BY <1>5, <2>1, <3>2, <3>4
      <4>2. PICK k \in Int, l \in Int : k = x - a /\ l = y
        BY <1>3
      <4>3. w = Price(1, "sell", b, k - l) /\ 1 # 0
        BY <4>1, <4>2
      <4>4. /\ w \in Nat
            /\ Grain * w <= CostAt(k, l) - (IF 1 = 0 THEN CostAt(k - b, l) ELSE CostAt(k, l - b))
        BY <1>2, <1>3, <4>3, SaleWorth
      <4>5. w \in Nat /\ Grain * w <= d - e
        BY <1>6, <4>2, <4>3, <4>4
      <4>6. Grain * w \in Int
        BY <4>5, Names
      <4> QED BY <1>6, <1>7, <1>8, <2>0, <3>1, <4>5, <4>6
    <3> QED BY <3>3, <3>4
  <2>2. CASE ~ sold
    <3>1. v = 0
      BY <1>3, <1>5, <1>7, <2>2 DEF sold
    <3>2. CASE b = 0
      <4>1. w = 0 /\ g <= c
        <5>1. y - b = y /\ f = c
          BY <1>3, <1>6, <3>2
        <5> QED BY <1>5, <1>8, <3>2, <5>1
      <4> QED BY <1>6, <2>0, <3>1, <4>1
    <3>3. CASE b # 0
      <4>1. w = Price(1, "sell", b, x - y)
        BY <1>5, <2>2, <3>3
      <4>2. PICK k \in Int, l \in Int : k = x /\ l = y
        BY <1>3
      <4>3. w = Price(1, "sell", b, k - l) /\ 1 # 0
        BY <4>1, <4>2
      <4>4. /\ w \in Nat
            /\ Grain * w <= CostAt(k, l) - (IF 1 = 0 THEN CostAt(k - b, l) ELSE CostAt(k, l - b))
        BY <1>2, <1>3, <4>3, SaleWorth
      <4>5. w \in Nat /\ Grain * w <= c - f
        BY <1>6, <4>2, <4>3, <4>4
      <4>6. Grain * w \in Int
        BY <4>5, Names
      <4> QED BY <1>6, <1>8, <2>0, <3>1, <4>5, <4>6
    <3> QED BY <3>2, <3>3
  <2> QED BY <2>1, <2>2
<1>10. PICK p \in Int, s \in Nat : p = balance["pool"] /\ s = Seed
  BY <1>1, Names DEF PositionsType
<1>11. Grain * (p - s) >= c - g
  <2>1. Cardinality(fundings) = 1 /\ Seed * 1 = Seed
    BY <1>2, Names, PoolKeeps
  <2>2. Seed * Cardinality(fundings) = s
    BY <1>10, <2>1
  <2> QED BY <1>1, <1>3, <1>6, <1>10, <2>2 DEF MoneyKept
<1>12. v + w <= p - s
  <2>1. Grain \in Nat \ {0} /\ v + w \in Int /\ p - s \in Int /\ v \in Int /\ w \in Int
    BY <1>9, Names
  <2>2. Grain * (v + w) = Grain * v + Grain * w
    BY <2>1, Distributes
  <2>3. Grain * (v + w) <= Grain * (p - s)
    <3>1. Grain * (p - s) \in Int /\ Grain * (v + w) \in Int
      BY <2>1
    <3> QED BY <1>6, <1>9, <1>11, <2>2, <3>1
  <2> QED BY <2>1, <2>3, LessByScale
<1> QED BY <1>4, <1>9, <1>10, <1>12

\* The invariant says that the statements add up.
LEMMA StatementsHold ==
  ASSUME EveryLead, PositionsInv
  PROVE  StatementsAddUp
<1>1. PositionsType /\ SharesHeld /\ MoneyKept
  BY DEF PositionsInv
<1>2. SUFFICES ASSUME NEW u \in granted
               PROVE  /\ Realized(u) = banked[u]
                      /\ \A o \in Outcomes : /\ positions[u][o].basis >= 0
                                             /\ positions[u][o].quantity = 0 => positions[u][o].basis = 0
                      /\ NetWorth(u) - balance[u] <= Max({0, balance["pool"] - Seed})
  BY DEF StatementsAddUp
<1>3. u \in Users
  BY <1>1 DEF PositionsType
<1>4. \A o \in Outcomes : /\ positions[u][o].basis >= 0
                          /\ positions[u][o].quantity = 0 => positions[u][o].basis = 0
  BY <1>1, <1>3 DEF PositionsType, SharesHeld
<1>5. NetWorth(u) - balance[u] <= Max({0, balance["pool"] - Seed})
  <2>1. PICK p \in Int, b \in Int : p = balance["pool"] - Seed /\ b = balance[u]
    BY <1>1, <1>3, Names DEF PositionsType
  <2>2. Max({0, p}) = IF 0 >= p THEN 0 ELSE p
    <3>1. 0 \in Int
      OBVIOUS
    <3> QED BY <3>1, MaxOfTwo
  <2>3. CASE record # NoResult
    <3>1. PositionsValue(u) = 0
      BY <2>3 DEF PositionsValue
    <3> QED BY <2>1, <2>2, <3>1 DEF NetWorth
  <2>4. CASE record = NoResult
    <3>1. PICK v \in Int : v = Value(u, 0) + Value(u, 1) /\ v <= p
      BY <2>1, <2>4, WorthHolds
    <3>2. PositionsValue(u) = v
      BY <2>4, <3>1 DEF PositionsValue
    <3>3. v <= Max({0, p})
      BY <2>2, <3>1
    <3> QED BY <2>1, <3>2, <3>3 DEF NetWorth
  <2> QED BY <2>3, <2>4
<1> QED BY <1>1, <1>4, <1>5 DEF MoneyKept

\* A void's guard never fires, its pool holds a seed before it and nothing
\* after it, nobody is refunded more than they are owed, and PLATFORM puts in
\* two seeds at most (ADR 0025).
THEOREM VoidsClear == EveryLead => (Spec => []VoidClears)
<1> SUFFICES ASSUME EveryLead PROVE Spec => []VoidClears
  OBVIOUS
<1>1. Spec => []PositionsInv
  BY PositionsStaySound
<1>2. PositionsInv => VoidClears
  BY VoidClearsHolds
<1> QED BY <1>1, <1>2, PTL

\* Whoever traded alone never comes out of a void with more than they went in
\* with, whatever they bought and sold (ADR 0025, sales come off the newest
\* lot).
THEOREM NobodyAloneProfits == EveryLead => (Spec => []AloneNeverProfits)
<1> SUFFICES ASSUME EveryLead PROVE Spec => []AloneNeverProfits
  OBVIOUS
<1>1. Spec => []PositionsInv
  BY PositionsStaySound
<1>2. PositionsInv => AloneNeverProfits
  BY DEF PositionsInv, EndTold
<1> QED BY <1>1, <1>2, PTL

\* A repeated settlement or void tells what the first one told, though it is
\* worked out from the entries again (settlement._replay, voiding._repeat).
THEOREM RepeatsAgree == EveryLead => (Spec => []RepeatsTellTheSame)
<1> SUFFICES ASSUME EveryLead PROVE Spec => []RepeatsTellTheSame
  OBVIOUS
<1>1. Spec => []PositionsInv
  BY PositionsStaySound
<1>2. PositionsInv => RepeatsTellTheSame
  BY DEF PositionsInv, EndTold
<1> QED BY <1>1, <1>2, PTL

\* The portfolio's figures add up: realised profit is what was banked, no cost
\* outlives its shares, and what positions are worth is in the pool
\* (profit_and_loss_of, liquidation_values_of).
THEOREM StatementsAlwaysAddUp == EveryLead => (Spec => []StatementsAddUp)
<1> SUFFICES ASSUME EveryLead PROVE Spec => []StatementsAddUp
  OBVIOUS
<1>1. Spec => []PositionsInv
  BY PositionsStaySound
<1>2. PositionsInv => StatementsAddUp
  BY StatementsHold
<1> QED BY <1>1, <1>2, PTL

=============================================================================
