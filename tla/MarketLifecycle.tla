-------------------------- MODULE MarketLifecycle --------------------------
(***************************************************************************)
(* One market in market_service: the form that saves it, the two             *)
(* administrators who decide it, the clock that closes it and the steps that *)
(* end it (service/market_service.py, service/closing.py).                   *)
(*                                                                          *)
(* A handler locks the market's row, reads Postgres's clock, decides and     *)
(* commits the change with its audit entry.  Decide is everything up to the  *)
(* flush, while the lock is held; Commit is the commit, up to Stall later;   *)
(* between the two the world still reads the old row.  Which error a refusal *)
(* carries, and the length of a reason, are left out: no refusal writes.     *)
(***************************************************************************)
EXTENDS Integers, Sequences, FiniteSets

CONSTANTS
  Sessions,      \* administrators' requests in flight
  Sweepers,      \* replicas running the close sweep
  Administrators, Creator,
  Requests,
  Outcomes,
  Window,        \* dispute_window_seconds
  Gap,           \* SETTLEMENT_GAP
  Stall,         \* bound: how long a handler holds the row before it commits
  MaxClock,      \* bound on time
  MaxProposals,  \* bound on proposals
  NoOne, NoOutcome, NoRequest, SweepRequest

Workers == Sessions \cup Sweepers

Kinds == {"autosave", "submit", "publish", "close", "propose", "approve", "reject",
          "send_back", "settle", "void"}

\* time is a save's close time, winner a proposal's outcome.
Request == [kind: Kinds, by: Administrators, time: Nat, winner: Outcomes \cup {NoOutcome}]

ASSUME LifecycleAssumption ==
  /\ Requests \subseteq Request
  /\ NoRequest \notin Request /\ SweepRequest \notin Request \cup {NoRequest}
  /\ Creator \in Administrators /\ NoOne \notin Administrators /\ NoOutcome \notin Outcomes
  /\ \A r \in Requests : r.kind \in {"autosave", "submit"} => r.by = Creator
  /\ \A r \in Requests : r.kind = "propose" => r.winner \in Outcomes
  /\ Sessions \cap Sweepers = {} /\ NoOne \notin Sessions \cup Sweepers
  /\ {Window, Stall, MaxClock, MaxProposals} \subseteq Nat \ {0} /\ Gap \in Nat

VARIABLES
  row,     \* the market's row as committed; status "none" before the first save
  log,     \* the audit entries from the publication on, in commit order
  minted,  \* how many proposal ids have been drawn
  clock,   \* Postgres's clock
  rowLock, \* who holds the row, or NoOne
  pc, req, \* each worker's next step and request
  quote,   \* the proposal its administrator had on screen, 0 for none
  at       \* the clock it read under the lock

market  == <<row, log, minted>>
handler == <<rowLock, pc, req, quote, at>>
vars    == <<market, clock, handler>>

----------------------------------------------------------------------------
(* What a row allows *)

Resolving == {"pending", "approved", "settled", "voided"}
AwaitingOutcome == {"closed", "pending"}

\* Mutation: VOIDED joins the statuses without joining the frozen ones.
FrozenButVoided == {"open", "closed"} \cup (Resolving \ {"voided"})

\* The statuses whose terms no save may write.
Frozen == {"open", "closed"} \cup Resolving

\* _future_problems: a close time must be after now.
IsFuture(t, now) == t > now

\* Mutation: the sweep looks for the markets that close this instant.
IsDueNow(now) == row.status = "open" /\ row.closeTime = now

\* close_due_markets: the clock is read once, and a missed sweep is made up for.
IsDue(now) == row.status = "open" /\ row.closeTime <= now

IsOpenForTrading(now) == row.status = "open" /\ row.closeTime > now

\* An end of 0 is no end: both flags fail closed.
InDisputeWindow(now) == row.endsAt # 0 /\ now < row.endsAt

BeforeSettlementOpens(now) == row.endsAt # 0 /\ now < row.endsAt + Gap

\* Mutation: settlement opens as the window closes, with no gap between.
SettleableAtOnce(now) ==
  \/ row.status = "settled"
  \/ row.status = "approved" /\ row.endsAt # 0 /\ now >= row.endsAt

IsSettleable(now) ==
  \/ row.status = "settled"
  \/ row.status = "approved" /\ row.endsAt # 0 /\ now >= row.endsAt + Gap

IsVoidable(now) ==
  \/ row.status \in AwaitingOutcome \cup {"voided"}
  \/ row.status = "approved" /\ InDisputeWindow(now)

\* Mutation: the quoted proposal is not compared.
AnyProposal(quoted) == TRUE

\* _refuse_if_superseded
NotSuperseded(quoted) == quoted = row.proposal

\* The checks each handler makes under the lock, on the clock read there.
MayAutosave == row.status \notin Frozen \cup {"submitted"}

MaySubmit(r, now) == row.status \notin Frozen /\ IsFuture(r.time, now)

MayPublish(by, now) ==
  by = Creator /\ row.status = "submitted" /\ IsFuture(row.closeTime, now)

MayClose(now) == IsOpenForTrading(now)

MayPropose(by) == by = Creator /\ row.status = "closed" /\ minted < MaxProposals

\* _proposal_to_decide
MayDecide(by, quoted) ==
  row.status = "pending" /\ row.proposer # by /\ NotSuperseded(quoted)

MaySendBack(quoted, now) ==
  row.status = "approved" /\ InDisputeWindow(now) /\ NotSuperseded(quoted)

MaySettle(now) == row.status = "approved" /\ IsSettleable(now)

\* _refuse_if_not_voidable
MayVoid(now) ==
  \/ row.status \in AwaitingOutcome
  \/ row.status = "approved" /\ BeforeSettlementOpens(now)

Accepts(r, quoted, now) ==
  \/ r.kind = "autosave" /\ MayAutosave
  \/ r.kind = "submit" /\ MaySubmit(r, now)
  \/ r.kind = "publish" /\ MayPublish(r.by, now)
  \/ r.kind = "close" /\ MayClose(now)
  \/ r.kind = "propose" /\ MayPropose(r.by)
  \/ r.kind \in {"approve", "reject"} /\ MayDecide(r.by, quoted)
  \/ r.kind = "send_back" /\ MaySendBack(quoted, now)
  \/ r.kind = "settle" /\ MaySettle(now)
  \/ r.kind = "void" /\ MayVoid(now)

\* Asked again after it was done: answered as done, and nothing written.
Repeats(r) ==
  \/ r.kind = "settle" /\ row.status = "settled"
  \/ r.kind = "void" /\ row.status = "voided"

----------------------------------------------------------------------------
(* What a commit writes: the columns the handler assigned, no others *)

\* Mutation: a cleared proposal keeps its id.
ClearedButId(m) == [m EXCEPT !.winner = NoOutcome, !.proposer = NoOne, !.proposedAt = 0]

\* _clear_proposal
Cleared(m) == [m EXCEPT !.proposal = 0, !.winner = NoOutcome, !.proposer = NoOne, !.proposedAt = 0]

Unapproved(m) == [m EXCEPT !.approver = NoOne, !.approvedAt = 0, !.endsAt = 0]

Saved(r) ==
  [row EXCEPT !.status = IF r.kind = "submit" THEN "submitted" ELSE "draft",
              !.closeTime = r.time]

Published(now) == [row EXCEPT !.status = "open", !.publishedAt = now]

\* The sweep's close, and an administrator's: closeTime is kept.
Closed(now) == [row EXCEPT !.status = "closed", !.closedAt = now]

Proposed(r, now) ==
  [row EXCEPT !.status = "pending", !.proposal = minted + 1, !.winner = r.winner,
              !.proposer = r.by, !.proposedAt = now]

Approved(by, now) ==
  [row EXCEPT !.status = "approved", !.approver = by, !.approvedAt = now,
              !.endsAt = now + Window]

Rejected == [Cleared(row) EXCEPT !.status = "closed"]

SentBack == [Unapproved(Cleared(row)) EXCEPT !.status = "closed"]

Settled == [row EXCEPT !.status = "settled"]

\* A pending proposal is cleared; an approval is kept.
Voided == [(IF row.status = "pending" THEN Cleared(row) ELSE row) EXCEPT !.status = "voided"]

Effect(r, now) ==
  IF r = SweepRequest THEN Closed(now)
  ELSE CASE r.kind \in {"autosave", "submit"} -> Saved(r)
         [] r.kind = "publish"   -> Published(now)
         [] r.kind = "close"     -> Closed(now)
         [] r.kind = "propose"   -> Proposed(r, now)
         [] r.kind = "approve"   -> Approved(r.by, now)
         [] r.kind = "reject"    -> Rejected
         [] r.kind = "send_back" -> SentBack
         [] r.kind = "settle"    -> Settled
         [] r.kind = "void"      -> Voided

\* The sweep and an autosave append nothing; a submission's entry, which may
\* be repeated for ever, is left out.
Entries(r) ==
  IF r = SweepRequest THEN <<>>
  ELSE IF r.kind \in {"autosave", "submit"} THEN <<>>
  ELSE <<[action |-> r.kind,
          proposal |-> IF r.kind = "propose" THEN minted + 1 ELSE row.proposal]>>

Write(r, now) ==
  /\ row' = Effect(r, now)
  /\ log' = log \o Entries(r)
  /\ minted' = IF r # SweepRequest /\ r.kind = "propose" THEN minted + 1 ELSE minted

----------------------------------------------------------------------------
(* Handlers *)

NoRow == [status |-> "none", closeTime |-> 0, publishedAt |-> 0, closedAt |-> 0,
          proposal |-> 0, winner |-> NoOutcome, proposer |-> NoOne, proposedAt |-> 0,
          approver |-> NoOne, approvedAt |-> 0, endsAt |-> 0]

Init ==
  /\ row = NoRow /\ log = <<>> /\ minted = 0
  /\ clock = 1
  /\ rowLock = NoOne
  /\ pc = [w \in Workers |-> "idle"]
  /\ req = [w \in Workers |-> NoRequest]
  /\ quote = [w \in Workers |-> 0]
  /\ at = [w \in Workers |-> 0]

\* The handler is over, and whatever it held is released.
End(w) ==
  /\ pc' = [pc EXCEPT ![w] = "idle"]
  /\ req' = [req EXCEPT ![w] = NoRequest]
  /\ quote' = [quote EXCEPT ![w] = 0]
  /\ at' = [at EXCEPT ![w] = 0]
  /\ rowLock' = IF rowLock = w THEN NoOne ELSE rowLock

\* An administrator sends a request, about the proposal the screen showed.
Ask(s, r) ==
  /\ pc[s] = "idle"
  /\ pc' = [pc EXCEPT ![s] = "asked"]
  /\ req' = [req EXCEPT ![s] = r]
  /\ quote' = [quote EXCEPT ![s] =
       IF r.kind \in {"approve", "reject", "send_back"} THEN row.proposal ELSE 0]
  /\ UNCHANGED <<market, clock, rowLock, at>>

\* Mutation: the row is read without its lock.
NoLock == TRUE

\* SELECT ... FOR UPDATE may go ahead; a row that does not exist locks nothing.
RowFree == rowLock = NoOne \/ row.status = "none"

\* The locked read, the clock and the checks; a refusal rolls back at once.
Decide(s) ==
  /\ pc[s] = "asked" /\ RowFree
  /\ IF Accepts(req[s], quote[s], clock)
     THEN /\ pc' = [pc EXCEPT ![s] = IF row.status = "none" THEN "inserting" ELSE "deciding"]
          /\ at' = [at EXCEPT ![s] = clock]
          /\ rowLock' = IF row.status = "none" THEN rowLock ELSE s
          /\ UNCHANGED <<req, quote>>
     ELSE End(s)
  /\ UNCHANGED <<market, clock>>

\* Two first saves of one form: the unique (creator_id, draft_key) catches the
\* loser, which starts again and finds the winner's row.
LoseInsert(s) ==
  /\ pc[s] = "inserting" /\ row.status # "none"
  /\ pc' = [pc EXCEPT ![s] = "asked"]
  /\ UNCHANGED <<market, clock, rowLock, req, quote, at>>

\* close_due_markets: SKIP LOCKED passes over a row somebody holds.
Sweep(w) ==
  /\ pc[w] = "idle" /\ rowLock = NoOne
  /\ IsDue(clock)
  /\ pc' = [pc EXCEPT ![w] = "deciding"]
  /\ req' = [req EXCEPT ![w] = SweepRequest]
  /\ at' = [at EXCEPT ![w] = clock]
  /\ rowLock' = w
  /\ UNCHANGED <<market, clock, quote>>

Commit(w) ==
  /\ pc[w] = "inserting" => row.status = "none"
  /\ pc[w] \in {"deciding", "inserting"}
  /\ Write(req[w], at[w])
  /\ End(w)
  /\ UNCHANGED clock

\* The request, or the sweep, dies before its commit.
Abort(w) ==
  /\ pc[w] # "idle"
  /\ End(w)
  /\ UNCHANGED <<market, clock>>

InHand == {w \in Workers : pc[w] \in {"deciding", "inserting"}}

Tick ==
  /\ clock < MaxClock
  /\ \A w \in InHand : clock + 1 - at[w] <= Stall
  /\ clock' = clock + 1
  /\ UNCHANGED <<market, handler>>

Next ==
  \/ \E s \in Sessions, r \in Requests : Ask(s, r)
  \/ \E s \in Sessions : Decide(s) \/ LoseInsert(s)
  \/ \E w \in Sweepers : Sweep(w)
  \/ \E w \in Workers : Commit(w) \/ Abort(w)
  \/ Tick

Spec == Init /\ [][Next]_vars

\* The sweep runs for ever on its timer and does not fail every time; a
\* handler that holds the row comes to its end.  Nobody has to ask, and time
\* may stop.
FairSpec ==
  /\ Spec
  /\ WF_vars(\E w \in Sweepers : Sweep(w))
  /\ \A s \in Sessions : WF_vars(Commit(s))
  /\ SF_vars(\E w \in Sweepers : Commit(w))

----------------------------------------------------------------------------
(* What a market's life must keep true *)

Statuses == {"none", "draft", "submitted", "open", "closed"} \cup Resolving

Time == 0..(MaxClock + Window)

\* Every variable stays within its type, the row is held by nobody but a
\* worker in the middle of it, and a market has the columns its status says:
\* a proposal is whole or absent, and so is an approval.
TypeOK ==
  /\ row \in [status: Statuses, closeTime: Nat, publishedAt: Time, closedAt: Time,
              proposal: 0..MaxProposals, winner: Outcomes \cup {NoOutcome},
              proposer: Administrators \cup {NoOne}, proposedAt: Time,
              approver: Administrators \cup {NoOne}, approvedAt: Time, endsAt: Time]
  /\ minted \in 0..MaxProposals /\ clock \in 1..MaxClock
  /\ rowLock \in {NoOne} \cup {w \in Workers : pc[w] = "deciding"}
  /\ pc \in [Workers -> {"idle", "asked", "inserting", "deciding"}]
  /\ req \in [Workers -> Requests \cup {NoRequest, SweepRequest}]
  /\ quote \in [Workers -> 0..MaxProposals] /\ at \in [Workers -> Time]
  /\ (row.proposal # 0) = (row.winner # NoOutcome)
  /\ row.status \in {"pending", "approved", "settled"} => row.proposal # 0
  /\ row.status \in {"none", "draft", "submitted", "open", "closed"} => row.proposal = 0
  /\ row.status \in {"approved", "settled"} => row.endsAt # 0

Count(actions, p) ==
  Cardinality({i \in DOMAIN log : log[i].action \in actions /\ log[i].proposal = p})

\* However often a button is pressed, a market is published once, closed by
\* hand once and ended once, and each proposal is made once, decided once and
\* sent back once (the row locks of ADR 0015).
DecidedOnce ==
  /\ Cardinality({i \in DOMAIN log : log[i].action = "publish"}) <= 1
  /\ Cardinality({i \in DOMAIN log : log[i].action = "close"}) <= 1
  /\ Cardinality({i \in DOMAIN log : log[i].action \in {"settle", "void"}}) <= 1
  /\ \A p \in 1..MaxProposals :
       /\ Count({"propose"}, p) <= 1
       /\ Count({"approve", "reject"}, p) <= 1
       /\ Count({"send_back"}, p) <= 1

Moves ==
  {<<"none", "draft">>, <<"none", "submitted">>, <<"draft", "submitted">>,
   <<"submitted", "open">>, <<"open", "closed">>, <<"closed", "pending">>,
   <<"pending", "approved">>, <<"pending", "closed">>, <<"approved", "closed">>,
   <<"approved", "settled">>}
  \cup ({"closed", "pending", "approved"} \X {"voided"})

\* A market only moves along its lifecycle, and from its publication on its
\* terms never change: no autosave or second click that was on its way takes
\* it back (_FROZEN_STATUS_ERRORS, ADR 0008, ADR 0025).
MovesForward ==
  [][/\ row'.status # row.status => <<row.status, row'.status>> \in Moves
     /\ row.status \in Frozen => row'.closeTime = row.closeTime]_vars

\* What a second administrator approves is the proposal they had read, and
\* never their own, whatever was rejected, sent back and proposed again while
\* the request was on its way (ADR 0016).
ApprovesWhatWasRead ==
  [][\A w \in Sessions :
       row'.approver # row.approver /\ row'.approver # NoOne /\ pc'[w] # pc[w] =>
         quote[w] = row'.proposal /\ row'.proposer # row'.approver]_vars

\* The times a market records agree with the order things happened in: it goes
\* live before its close time, and it is published, closed, proposed and
\* approved in that order (#179).
TimesInOrder ==
  /\ row.publishedAt # 0 => row.publishedAt < row.closeTime
  /\ row.closedAt # 0 => row.publishedAt <= row.closedAt
  /\ row.proposedAt # 0 => row.closedAt <= row.proposedAt
  /\ row.approvedAt # 0 => row.proposedAt <= row.approvedAt

\* The columns of a market's row tell one story, of one proposal: what its
\* status needs is there, what a rejection or a send-back cleared is gone
\* whole, and the times are those of one history (#179).
RowCoherent == TypeOK /\ TimesInOrder

\* A market whose close time has passed is written CLOSED in the end, even if
\* an administrator was holding its row when a sweep came by (ADR 0011).
OverdueCloses ==
  (row.status = "open" /\ row.closeTime <= clock) ~> row.status # "open"

=============================================================================
