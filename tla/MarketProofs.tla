----------------------------- MODULE MarketProofs -----------------------------
(***************************************************************************)
(* A market's row in market_service (MarketLifecycle), for any number of      *)
(* administrators, sweepers and requests and any dispute window; and what the *)
(* two services agree on when it ends (Ending), for every Gap that covers     *)
(* Skew and Stall.                                                            *)
(*                                                                          *)
(* LifeInv is inductive.  Beyond the properties it says which columns a       *)
(* status may have (Shape), that no recorded time is ahead of the clock       *)
(* (Past), and what the row lock gives a handler between its checks and its   *)
(* commit: the row is still the one it checked, and nothing recorded on it    *)
(* is later than the clock it read (Holds).  LogInv is the audit log's: what  *)
(* the row still shows of every entry (Told) is what keeps a handler from     *)
(* writing one like it.                                                       *)
(*                                                                          *)
(* EndingInv is inductive for the two services.  Its market half says what a  *)
(* handler that holds the row may rely on: nobody else writes the row, so     *)
(* what it checked still holds, and it is at most Stall old.  Its ledger half *)
(* says what the properties leave out: where a call may come from, and that   *)
(* the outcome terms admitted for payment Stands, however long ago they were  *)
(* read.                                                                      *)
(***************************************************************************)
EXTENDS Ending, FiniteSetTheorems, TLAPS

----------------------------------------------------------------------------
(* One market's row *)

Rows ==
  [status: Statuses, closeTime: Nat, publishedAt: Time, closedAt: Time,
   proposal: 0..MaxProposals, winner: Outcomes \cup {NoOutcome},
   proposer: Administrators \cup {NoOne}, proposedAt: Time,
   approver: Administrators \cup {NoOne}, approvedAt: Time, endsAt: Time]

\* A proposal is whole or absent, and so is an approval.
Whole ==
  /\ (row.proposal # 0) = (row.winner # NoOutcome)
  /\ row.status \in {"pending", "approved", "settled"} => row.proposal # 0
  /\ row.status \in {"none", "draft", "submitted", "open", "closed"} => row.proposal = 0
  /\ row.status \in {"approved", "settled"} => row.endsAt # 0

\* The times a row of each status may have.
Shape ==
  /\ row.publishedAt # 0 => row.status \in Frozen
  /\ row.closedAt # 0 => row.status \in {"closed"} \cup Resolving
  /\ row.proposedAt # 0 => row.status \in Resolving
  /\ row.approvedAt # 0 => row.status \in {"approved", "settled", "voided"}

Past(t) ==
  /\ row.publishedAt <= t /\ row.closedAt <= t
  /\ row.proposedAt <= t /\ row.approvedAt <= t

RowInv ==
  /\ row \in Rows /\ minted \in 0..MaxProposals /\ clock \in 1..MaxClock
  /\ Whole /\ Shape /\ Past(clock) /\ TimesInOrder

HandlerTypes ==
  /\ rowLock \in {NoOne} \cup {w \in Workers : pc[w] = "deciding"}
  /\ pc \in [Workers -> {"idle", "asked", "inserting", "deciding"}]
  /\ req \in [Workers -> Requests \cup {NoRequest, SweepRequest}]
  /\ quote \in [Workers -> 0..MaxProposals] /\ at \in [Workers -> 0..MaxClock]

\* What worker w may rely on.
Holds(w) ==
  /\ w \in Sessions /\ pc[w] # "idle" => req[w] \in Requests
  /\ w \in Sweepers => pc[w] \in {"idle", "deciding"}
  /\ w \in Sweepers /\ pc[w] = "deciding" => req[w] = SweepRequest /\ row.status = "open"
  /\ w \in Sessions /\ pc[w] = "deciding" => Accepts(req[w], quote[w], at[w])
  /\ pc[w] = "deciding" =>
       rowLock = w /\ row.status # "none" /\ at[w] \in 1..clock /\ Past(at[w])
  /\ pc[w] = "inserting" => req[w].kind \in {"autosave", "submit"} /\ at[w] \in 1..clock

LifeInv == RowInv /\ HandlerTypes /\ \A w \in Workers : Holds(w)

\* What a write may do to the row, as MovesForward and ApprovesWhatWasRead ask.
Moved ==
  /\ row'.status # row.status => <<row.status, row'.status>> \in Moves
  /\ row.status \in Frozen => row'.closeTime = row.closeTime

ApprovedBy(w) ==
  row'.approver # row.approver /\ row'.approver # NoOne =>
    quote[w] = row'.proposal /\ row'.proposer # row'.approver

LEMMA Constants ==
  /\ Sessions \subseteq Workers /\ Sweepers \subseteq Workers
  /\ \A w \in Workers : w \in Sessions <=> w \notin Sweepers
  /\ NoOne \notin Workers /\ NoOne \notin Administrators /\ NoOutcome \notin Outcomes
  /\ SweepRequest \notin Requests /\ NoRequest \notin Requests /\ NoRequest # SweepRequest
  /\ \A r \in Requests : r \in Request
  /\ \A r \in Requests : r.kind = "propose" => r.winner \in Outcomes
  /\ Window \in Nat \ {0} /\ MaxClock \in Nat \ {0} /\ MaxProposals \in Nat \ {0} /\ Stall \in Nat
  /\ Gap \in Nat
BY LifecycleAssumption DEF Workers

\* One column's type is enough for one write of it.
LEMMA RowFields ==
  ASSUME RowInv
  PROVE  /\ row.status \in Statuses /\ row.closeTime \in Nat /\ row.publishedAt \in Nat
         /\ row.closedAt \in Nat /\ row.proposal \in 0..MaxProposals
         /\ row.winner \in Outcomes \cup {NoOutcome} /\ row.proposedAt \in Nat
         /\ row.approvedAt \in Nat /\ row.endsAt \in Nat
         /\ 0 \in Time /\ 0 \in 0..MaxProposals
         /\ NoOutcome \in Outcomes \cup {NoOutcome} /\ NoOne \in Administrators \cup {NoOne}
<1>1. 0..MaxProposals \subseteq Nat /\ Time \subseteq Nat
  BY Constants DEF Time
<1>2. row \in Rows
  BY DEF RowInv
<1> QED BY <1>1, <1>2, Constants DEF Rows, Time

----------------------------------------------------------------------------
(* What each commit writes *)

LEMMA SaveWrites ==
  ASSUME RowInv, NEW r \in Request, row' = Saved(r), minted' = minted, clock' = clock,
         r.kind \in {"autosave", "submit"}, row.status \notin Frozen,
         r.kind = "autosave" => row.status # "submitted"
  PROVE  RowInv' /\ Moved /\ row'.approver = row.approver
<1>1. row \in Rows /\ r.time \in Nat /\ {"draft", "submitted"} \subseteq Statuses
  BY DEF RowInv, Request, Statuses
<1>2. row' \in Rows
  <2>1. (IF r.kind = "submit" THEN "submitted" ELSE "draft") \in Statuses
    BY <1>1
  <2> QED BY <1>1, <2>1, Zenon DEF Saved, Rows
<1>3. /\ row'.status = IF r.kind = "submit" THEN "submitted" ELSE "draft"
      /\ row'.publishedAt = row.publishedAt /\ row'.closedAt = row.closedAt
      /\ row'.proposal = row.proposal /\ row'.winner = row.winner
      /\ row'.proposedAt = row.proposedAt /\ row'.approver = row.approver
      /\ row'.approvedAt = row.approvedAt /\ row'.endsAt = row.endsAt
  BY <1>1 DEF Saved, Rows
<1>4. row.status \in {"none", "draft", "submitted"}
  BY <1>1, RowFields DEF Statuses, Frozen, Resolving
<1>5. Moved
  BY <1>3, <1>4 DEF Moved, Moves, Frozen
<1>6. RowInv'
  BY <1>2, <1>3, <1>4 DEF RowInv, Whole, Shape, Past, TimesInOrder, Frozen, Resolving
<1> QED BY <1>3, <1>5, <1>6

LEMMA PublicationWrites ==
  ASSUME RowInv, NEW now \in 1..clock, row' = Published(now), minted' = minted, clock' = clock,
         row.status = "submitted", IsFuture(row.closeTime, now), Past(now)
  PROVE  RowInv' /\ Moved /\ row'.approver = row.approver
<1>1. row \in Rows /\ now \in Time /\ "open" \in Statuses /\ now \in Nat /\ clock \in Nat /\ now <= clock
  BY Constants DEF RowInv, Statuses, Time
<1>2. row' \in Rows
  BY <1>1, Zenon DEF Published, Rows
<1>3. /\ row'.status = "open" /\ row'.publishedAt = now /\ row'.closeTime = row.closeTime
      /\ row'.closedAt = row.closedAt /\ row'.proposal = row.proposal /\ row'.winner = row.winner
      /\ row'.proposedAt = row.proposedAt /\ row'.approver = row.approver
      /\ row'.approvedAt = row.approvedAt
  BY <1>1 DEF Published, Rows
<1>4. Moved
  BY <1>3 DEF Moved, Moves
<1>5. RowInv'
  BY <1>1, <1>2, <1>3, RowFields
  DEF RowInv, Whole, Shape, Past, TimesInOrder, Frozen, Resolving, IsFuture
<1> QED BY <1>3, <1>4, <1>5

LEMMA ClosingWrites ==
  ASSUME RowInv, NEW now \in 1..clock, row' = Closed(now), minted' = minted, clock' = clock,
         row.status = "open", Past(now)
  PROVE  RowInv' /\ Moved /\ row'.approver = row.approver
<1>1. row \in Rows /\ now \in Time /\ "closed" \in Statuses /\ now \in Nat /\ clock \in Nat /\ now <= clock
  BY Constants DEF RowInv, Statuses, Time
<1>2. row' \in Rows
  BY <1>1, Zenon DEF Closed, Rows
<1>3. /\ row'.status = "closed" /\ row'.closedAt = now /\ row'.closeTime = row.closeTime
      /\ row'.publishedAt = row.publishedAt /\ row'.proposal = row.proposal
      /\ row'.winner = row.winner /\ row'.proposedAt = row.proposedAt
      /\ row'.approver = row.approver /\ row'.approvedAt = row.approvedAt
  BY <1>1 DEF Closed, Rows
<1>4. Moved
  BY <1>3 DEF Moved, Moves
<1>5. RowInv'
  BY <1>1, <1>2, <1>3, RowFields
  DEF RowInv, Whole, Shape, Past, TimesInOrder, Frozen, Resolving
<1> QED BY <1>3, <1>4, <1>5

LEMMA ProposalWrites ==
  ASSUME RowInv, NEW r \in Request, r.winner \in Outcomes, NEW now \in 1..clock,
         row' = Proposed(r, now), minted' = minted + 1, clock' = clock,
         row.status = "closed", minted < MaxProposals, Past(now)
  PROVE  RowInv' /\ Moved /\ row'.approver = row.approver
<1>1. /\ row \in Rows /\ now \in Time /\ "pending" \in Statuses /\ now \in Nat /\ clock \in Nat
      /\ now <= clock /\ minted + 1 \in 0..MaxProposals /\ minted + 1 # 0
      /\ r.winner \in Outcomes \cup {NoOutcome} /\ r.by \in Administrators \cup {NoOne}
  BY Constants DEF RowInv, Statuses, Resolving, Time, Request
<1>2. row' \in Rows
  BY <1>1, Zenon DEF Proposed, Rows
<1>3. /\ row'.status = "pending" /\ row'.proposal = minted + 1 /\ row'.winner = r.winner
      /\ row'.proposedAt = now /\ row'.closedAt = row.closedAt /\ row'.closeTime = row.closeTime
      /\ row'.publishedAt = row.publishedAt /\ row'.approver = row.approver
      /\ row'.approvedAt = row.approvedAt
  BY <1>1 DEF Proposed, Rows
<1>4. Moved
  BY <1>3 DEF Moved, Moves
<1>5. RowInv'
  BY <1>1, <1>2, <1>3, RowFields, Constants
  DEF RowInv, Whole, Shape, Past, TimesInOrder, Frozen, Resolving
<1> QED BY <1>3, <1>4, <1>5

LEMMA ApprovalWrites ==
  ASSUME RowInv, NEW by \in Administrators, NEW now \in 1..clock, NEW w \in Workers,
         row' = Approved(by, now), minted' = minted, clock' = clock, Past(now),
         MayDecide(by, quote[w])
  PROVE  RowInv' /\ Moved /\ ApprovedBy(w)
<1>1. /\ row \in Rows /\ now \in Time /\ now + Window \in Time /\ now + Window # 0
      /\ "approved" \in Statuses /\ now \in Nat /\ clock \in Nat
      /\ now <= clock /\ by \in Administrators \cup {NoOne}
  BY Constants DEF RowInv, Statuses, Resolving, Time
<1>2. row' \in Rows
  BY <1>1, Zenon DEF Approved, Rows
<1>3. /\ row'.status = "approved" /\ row'.approver = by /\ row'.approvedAt = now
      /\ row'.endsAt = now + Window /\ row'.proposal = row.proposal /\ row'.winner = row.winner
      /\ row'.proposer = row.proposer /\ row'.proposedAt = row.proposedAt
      /\ row'.closedAt = row.closedAt /\ row'.closeTime = row.closeTime
      /\ row'.publishedAt = row.publishedAt
  BY <1>1 DEF Approved, Rows
<1>4. Moved /\ ApprovedBy(w)
  BY <1>3 DEF Moved, Moves, ApprovedBy, MayDecide, NotSuperseded
<1>5. RowInv'
  BY <1>1, <1>2, <1>3, RowFields
  DEF RowInv, Whole, Shape, Past, TimesInOrder, Frozen, Resolving, MayDecide
<1> QED BY <1>4, <1>5

LEMMA ClearedRows ==
  ASSUME RowInv
  PROVE  /\ Cleared(row) \in Rows
         /\ Cleared(row).status = row.status /\ Cleared(row).closeTime = row.closeTime
         /\ Cleared(row).publishedAt = row.publishedAt /\ Cleared(row).closedAt = row.closedAt
         /\ Cleared(row).proposal = 0 /\ Cleared(row).winner = NoOutcome
         /\ Cleared(row).proposedAt = 0 /\ Cleared(row).approver = row.approver
         /\ Cleared(row).approvedAt = row.approvedAt /\ Cleared(row).endsAt = row.endsAt
<1>1. row \in Rows
  BY DEF RowInv
<1>2. Cleared(row) \in Rows
  BY <1>1, RowFields, Zenon DEF Cleared, Rows
<1> QED BY <1>1, <1>2 DEF Cleared, Rows

\* The writes that take a market back to closed.
LEMMA ReturnWrites ==
  ASSUME RowInv, minted' = minted, clock' = clock,
         \/ row.status = "pending" /\ row' = Rejected
         \/ row.status = "approved" /\ row' = SentBack
  PROVE  RowInv' /\ Moved /\ (row'.approver = row.approver \/ row'.approver = NoOne)
<1> DEFINE m == Cleared(row)
<1>1. "closed" \in Statuses /\ row \in Rows
  BY DEF Statuses, RowInv
<1>2. CASE row.status = "pending" /\ row' = Rejected
  <2>1. row' \in Rows
    BY <1>1, <1>2, ClearedRows, Zenon DEF Rejected, Rows
  <2>2. /\ row'.status = "closed" /\ row'.proposal = 0 /\ row'.winner = NoOutcome
        /\ row'.proposedAt = 0 /\ row'.closeTime = row.closeTime
        /\ row'.publishedAt = row.publishedAt /\ row'.closedAt = row.closedAt
        /\ row'.approver = row.approver /\ row'.approvedAt = row.approvedAt
    BY <1>2, ClearedRows DEF Rejected, Rows
  <2>3. Moved
    BY <1>2, <2>2 DEF Moved, Moves
  <2>4. RowInv'
    BY <1>2, <2>1, <2>2, RowFields
    DEF RowInv, Whole, Shape, Past, TimesInOrder, Frozen, Resolving
  <2> QED BY <2>2, <2>3, <2>4
<1>3. CASE row.status = "approved" /\ row' = SentBack
  <2>1. Unapproved(m) \in Rows
    BY <1>1, RowFields, ClearedRows, Zenon DEF Unapproved, Rows
  <2>2. row' \in Rows
    BY <1>1, <1>3, <2>1, Zenon DEF SentBack, Rows
  <2>3. /\ row'.status = "closed" /\ row'.proposal = 0 /\ row'.winner = NoOutcome
        /\ row'.proposedAt = 0 /\ row'.closeTime = row.closeTime
        /\ row'.publishedAt = row.publishedAt /\ row'.closedAt = row.closedAt
        /\ row'.approver = NoOne /\ row'.approvedAt = 0
    BY <1>3, ClearedRows DEF SentBack, Unapproved, Rows
  <2>4. Moved
    BY <1>3, <2>3 DEF Moved, Moves
  <2>5. RowInv'
    BY <1>3, <2>2, <2>3, RowFields
    DEF RowInv, Whole, Shape, Past, TimesInOrder, Frozen, Resolving
  <2> QED BY <2>3, <2>4, <2>5
<1> QED BY <1>2, <1>3

\* The last step of a market.
LEMMA EndWrites ==
  ASSUME RowInv, minted' = minted, clock' = clock,
         \/ row.status = "approved" /\ row' = Settled
         \/ row.status \in {"closed", "pending", "approved"} /\ row' = Voided
  PROVE  RowInv' /\ Moved /\ row'.approver = row.approver
<1>1. {"settled", "voided"} \subseteq Statuses /\ row \in Rows
  BY DEF Statuses, Resolving, RowInv
<1>2. CASE row.status = "approved" /\ row' = Settled
  <2>1. row' \in Rows
    BY <1>1, <1>2, Zenon DEF Settled, Rows
  <2>2. /\ row'.status = "settled" /\ row'.proposal = row.proposal /\ row'.winner = row.winner
        /\ row'.proposedAt = row.proposedAt /\ row'.closeTime = row.closeTime
        /\ row'.publishedAt = row.publishedAt /\ row'.closedAt = row.closedAt
        /\ row'.approver = row.approver /\ row'.approvedAt = row.approvedAt
        /\ row'.endsAt = row.endsAt
    BY <1>1, <1>2 DEF Settled, Rows
  <2>3. Moved
    BY <1>2, <2>2 DEF Moved, Moves
  <2>4. RowInv'
    BY <1>2, <2>1, <2>2, RowFields
    DEF RowInv, Whole, Shape, Past, TimesInOrder, Frozen, Resolving
  <2> QED BY <2>2, <2>3, <2>4
<1>3. CASE row.status \in {"closed", "pending", "approved"} /\ row' = Voided
  <2> DEFINE m == IF row.status = "pending" THEN Cleared(row) ELSE row
  <2>1. /\ m \in Rows /\ m.publishedAt = row.publishedAt /\ m.closedAt = row.closedAt
        /\ m.closeTime = row.closeTime /\ m.approver = row.approver
        /\ m.approvedAt = row.approvedAt /\ m.proposedAt \in {0, row.proposedAt}
        /\ (m.proposal # 0) = (m.winner # NoOutcome)
        /\ row' = [m EXCEPT !.status = "voided"]
        /\ row.approvedAt # 0 => m.proposedAt = row.proposedAt
    BY <1>1, <1>3, ClearedRows DEF RowInv, Whole, Shape, Voided
  <2> HIDE DEF m
  <2>2. row' \in Rows
    BY <1>1, <2>1, Zenon DEF Rows
  <2>3. /\ row'.status = "voided" /\ row'.proposal = m.proposal /\ row'.winner = m.winner
        /\ row'.proposedAt = m.proposedAt /\ row'.closeTime = row.closeTime
        /\ row'.publishedAt = row.publishedAt /\ row'.closedAt = row.closedAt
        /\ row'.approver = row.approver /\ row'.approvedAt = row.approvedAt
    BY <2>1 DEF Rows
  <2>4. Moved
    BY <1>3, <2>3 DEF Moved, Moves
  <2>5. RowInv'
    BY <1>3, <2>1, <2>2, <2>3, RowFields
    DEF RowInv, Whole, Shape, Past, TimesInOrder, Frozen, Resolving
  <2> QED BY <2>3, <2>4, <2>5
<1> QED BY <1>2, <1>3

\* Whatever a handler or a sweeper commits.
LEMMA CommitWrites ==
  ASSUME LifeInv, NEW w \in Workers, Commit(w)
  PROVE  RowInv' /\ Moved /\ ApprovedBy(w)
<1> DEFINE r == req[w]  now == at[w]
<1>1. /\ Holds(w) /\ Write(r, now) /\ clock' = clock /\ RowInv
      /\ pc[w] \in {"deciding", "inserting"} /\ (pc[w] = "inserting" => row.status = "none")
  BY DEF Commit, LifeInv
<1>2. CASE w \in Sweepers
  <2>1. r = SweepRequest /\ row.status = "open" /\ Past(now) /\ now \in 1..clock
    BY <1>1, <1>2 DEF Holds
  <2>2. row' = Closed(now) /\ minted' = minted
    BY <1>1, <2>1 DEF Write, Effect
  <2> QED BY <1>1, <2>1, <2>2, ClosingWrites DEF ApprovedBy
<1>3. CASE w \in Sessions
  <2>1. r \in Request /\ r \in Requests /\ r # SweepRequest
    BY <1>1, <1>3, Constants DEF Holds
  <2>2. /\ row' = Effect(r, now) /\ now \in 1..clock
        /\ minted' = IF r.kind = "propose" THEN minted + 1 ELSE minted
    BY <1>1, <2>1 DEF Write, Holds
  <2>3. CASE pc[w] = "inserting"
    <3>1. r.kind \in {"autosave", "submit"} /\ row.status = "none"
      BY <1>1, <2>3 DEF Holds
    <3>2. row' = Saved(r) /\ minted' = minted
      BY <2>1, <2>2, <3>1 DEF Effect
    <3> QED BY <1>1, <2>1, <3>1, <3>2, SaveWrites DEF Frozen, Resolving, ApprovedBy
  <2>4. CASE pc[w] = "deciding"
    <3>1. Accepts(r, quote[w], now) /\ Past(now)
      BY <1>1, <1>3, <2>4 DEF Holds
    <3>2. CASE r.kind \in {"autosave", "submit"}
      <4>1. row' = Saved(r) /\ minted' = minted
        BY <2>1, <2>2, <3>2 DEF Effect
      <4>2. row.status \notin Frozen /\ (r.kind = "autosave" => row.status # "submitted")
        BY <3>1, <3>2 DEF Accepts, MayAutosave, MaySubmit
      <4> QED BY <1>1, <2>1, <3>2, <4>1, <4>2, SaveWrites DEF ApprovedBy
    <3>3. CASE r.kind = "publish"
      <4>1. row' = Published(now) /\ minted' = minted
        BY <2>1, <2>2, <3>3 DEF Effect
      <4>2. row.status = "submitted" /\ IsFuture(row.closeTime, now)
        BY <3>1, <3>3 DEF Accepts, MayPublish
      <4> QED BY <1>1, <2>2, <3>1, <4>1, <4>2, PublicationWrites DEF ApprovedBy
    <3>4. CASE r.kind = "close"
      <4>1. row' = Closed(now) /\ minted' = minted
        BY <2>1, <2>2, <3>4 DEF Effect
      <4>2. row.status = "open"
        BY <3>1, <3>4 DEF Accepts, MayClose, IsOpenForTrading
      <4> QED BY <1>1, <2>2, <3>1, <4>1, <4>2, ClosingWrites DEF ApprovedBy
    <3>5. CASE r.kind = "propose"
      <4>1. row' = Proposed(r, now) /\ minted' = minted + 1
        BY <2>1, <2>2, <3>5 DEF Effect
      <4>2. row.status = "closed" /\ minted < MaxProposals /\ r.winner \in Outcomes
        BY <2>1, <3>1, <3>5, Constants DEF Accepts, MayPropose
      <4> QED BY <1>1, <2>1, <2>2, <3>1, <4>1, <4>2, ProposalWrites DEF ApprovedBy
    <3>6. CASE r.kind = "approve"
      <4>1. row' = Approved(r.by, now) /\ minted' = minted
        BY <2>1, <2>2, <3>6 DEF Effect
      <4>2. MayDecide(r.by, quote[w]) /\ r.by \in Administrators
        BY <2>1, <3>1, <3>6 DEF Accepts, Request
      <4> QED BY <1>1, <2>2, <3>1, <4>1, <4>2, ApprovalWrites
    <3>7. CASE r.kind \in {"reject", "send_back"}
      <4>1. /\ minted' = minted
            /\ \/ row.status = "pending" /\ row' = Rejected
               \/ row.status = "approved" /\ row' = SentBack
        BY <2>1, <2>2, <3>1, <3>7 DEF Effect, Accepts, MayDecide, MaySendBack
      <4> QED BY <1>1, <4>1, ReturnWrites DEF ApprovedBy
    <3>8. CASE r.kind \in {"settle", "void"}
      <4>1. /\ minted' = minted
            /\ \/ row.status = "approved" /\ row' = Settled
               \/ row.status \in {"closed", "pending", "approved"} /\ row' = Voided
        BY <2>1, <2>2, <3>1, <3>8 DEF Effect, Accepts, MaySettle, MayVoid, AwaitingOutcome
      <4> QED BY <1>1, <4>1, EndWrites DEF ApprovedBy
    <3> QED BY <3>1, <3>2, <3>3, <3>4, <3>5, <3>6, <3>7, <3>8 DEF Accepts
  <2> QED BY <1>1, <2>3, <2>4
<1> QED BY <1>2, <1>3, Constants

----------------------------------------------------------------------------
(* What each step keeps *)

\* A handler's checks still hold while the row stays as it was.
LEMMA LifeChecksKeep ==
  ASSUME row' = row, minted' = minted, NEW w, NEW n,
         req'[w] = req[w], quote'[w] = quote[w], at'[w] = n,
         Accepts(req[w], quote[w], n)
  PROVE  Accepts(req[w], quote[w], at[w])'
BY DEF Accepts, MayAutosave, MaySubmit, MayPublish, MayClose, MayPropose, MayDecide,
   MaySendBack, MaySettle, MayVoid, IsOpenForTrading, InDisputeWindow,
   BeforeSettlementOpens, IsSettleable, IsFuture, NotSuperseded

\* A worker that does not move may go on relying on a row that does not move.
LEMMA StillHolds ==
  ASSUME LifeInv, NEW w \in Workers, Holds(w), row' = row, minted' = minted,
         clock' \in Nat, clock' >= clock,
         pc'[w] = pc[w], req'[w] = req[w], quote'[w] = quote[w], at'[w] = at[w],
         pc[w] = "deciding" => rowLock' = w
  PROVE  Holds(w)'
<1>1. Accepts(req[w], quote[w], at[w]) => Accepts(req[w], quote[w], at[w])'
  BY LifeChecksKeep
<1>2. Past(at[w]) => Past(at[w])'
  BY DEF Past
<1>3. clock \in Nat
  BY DEF LifeInv, RowInv
<1>4. 1..clock \subseteq (1..clock)'
  BY <1>3
<1> QED BY <1>1, <1>2, <1>4 DEF Holds

\* The row is held by at most one worker, and by nobody but a decider.
LEMMA OneDecides ==
  ASSUME LifeInv, NEW w \in Workers, pc[w] = "deciding"
  PROVE  rowLock = w
BY DEF LifeInv, Holds

LEMMA RowStays ==
  ASSUME RowInv, row' = row, minted' = minted, clock' \in 1..MaxClock, clock' >= clock
  PROVE  RowInv'
<1>1. /\ row.publishedAt \in Nat /\ row.closedAt \in Nat /\ row.proposedAt \in Nat
      /\ row.approvedAt \in Nat /\ clock \in Nat /\ clock' \in Nat
  BY RowFields DEF RowInv
<1>2. Past(clock)'
  BY <1>1 DEF RowInv, Past
<1> QED BY <1>2 DEF RowInv, Whole, Shape, TimesInOrder

\* End(w), after a step that left the row alone or that w alone could take.
LEMMA EndKeeps ==
  ASSUME LifeInv, NEW w \in Workers, End(w), RowInv', clock' = clock,
         \/ row' = row /\ minted' = minted
         \/ \A v \in Workers \ {w} : pc[v] # "deciding"
  PROVE  LifeInv'
<1>1. /\ pc' = [pc EXCEPT ![w] = "idle"] /\ req' = [req EXCEPT ![w] = NoRequest]
      /\ quote' = [quote EXCEPT ![w] = 0] /\ at' = [at EXCEPT ![w] = 0]
      /\ rowLock' = IF rowLock = w THEN NoOne ELSE rowLock
  BY DEF End
<1>2. HandlerTypes'
  <2>1. 0 \in 0..MaxClock /\ 0 \in 0..MaxProposals
    BY Constants
  <2> QED BY <1>1, <2>1, Constants DEF LifeInv, HandlerTypes
<1>3. pc'[w] = "idle"
  BY <1>1 DEF LifeInv, HandlerTypes
<1>4. ASSUME NEW v \in Workers \ {w}
      PROVE  Holds(v)'
  <2>1. /\ Holds(v) /\ pc'[v] = pc[v] /\ req'[v] = req[v] /\ quote'[v] = quote[v] /\ at'[v] = at[v]
        /\ clock \in Nat
    BY <1>1, <1>4 DEF LifeInv, HandlerTypes, RowInv
  <2>2. pc[v] = "deciding" => rowLock' = v
    BY <1>1, <1>4, OneDecides
  <2>3. CASE row' = row /\ minted' = minted
    BY <2>1, <2>2, <2>3, StillHolds
  <2>4. CASE pc[v] # "deciding"
    BY <2>1, <2>4 DEF Holds
  <2> QED BY <1>4, <2>3, <2>4
<1>5. Holds(w)'
  BY <1>3 DEF Holds
<1> QED BY <1>2, <1>4, <1>5 DEF LifeInv

\* No write at all: what MovesForward and ApprovesWhatWasRead ask holds of it.
LEMMA NothingWritten ==
  ASSUME row' = row
  PROVE  Moved /\ \A w \in Workers : ApprovedBy(w)
BY DEF Moved, ApprovedBy

LEMMA NextKeeps ==
  ASSUME LifeInv, Next
  PROVE  /\ LifeInv' /\ Moved
         /\ \A w \in Workers : pc'[w] # pc[w] => ApprovedBy(w)
<1>1. RowInv /\ HandlerTypes /\ clock \in Nat /\ clock \in 1..MaxClock
      /\ \A w \in Workers : Holds(w)
  BY DEF LifeInv, RowInv
<1>2. ASSUME NEW s \in Sessions, NEW r \in Requests, Ask(s, r)
      PROVE  LifeInv' /\ row' = row
  <2>1. /\ row' = row /\ minted' = minted /\ clock' = clock /\ rowLock' = rowLock /\ at' = at
        /\ pc[s] = "idle" /\ pc' = [pc EXCEPT ![s] = "asked"] /\ req' = [req EXCEPT ![s] = r]
        /\ quote' \in [Workers -> 0..MaxProposals]
        /\ \A w \in Workers \ {s} : quote'[w] = quote[w]
    BY <1>1, <1>2, Constants, RowFields DEF Ask, market, HandlerTypes
  <2>2. RowInv'
    BY <1>1, <2>1, RowStays
  <2>3. HandlerTypes'
    BY <1>1, <2>1, Constants DEF HandlerTypes
  <2>4. ASSUME NEW w \in Workers \ {s}
        PROVE  Holds(w)'
    BY <1>1, <2>1, <2>4, StillHolds, OneDecides DEF HandlerTypes
  <2>5. Holds(s)'
    BY <1>1, <2>1, Constants DEF Holds, HandlerTypes
  <2> QED BY <2>1, <2>2, <2>3, <2>4, <2>5 DEF LifeInv
<1>3. ASSUME NEW s \in Sessions, Decide(s)
      PROVE  LifeInv' /\ row' = row
  <2>1. /\ row' = row /\ minted' = minted /\ clock' = clock /\ pc[s] = "asked"
        /\ s \in Workers /\ (rowLock = NoOne \/ row.status = "none")
    BY <1>3, Constants DEF Decide, market, RowFree
  <2>2. RowInv'
    BY <1>1, <2>1, RowStays
  <2>3. CASE End(s)
    BY <2>1, <2>2, <2>3, EndKeeps
  <2>4. CASE /\ Accepts(req[s], quote[s], clock)
             /\ pc' = [pc EXCEPT ![s] = IF row.status = "none" THEN "inserting" ELSE "deciding"]
             /\ at' = [at EXCEPT ![s] = clock]
             /\ rowLock' = IF row.status = "none" THEN rowLock ELSE s
             /\ UNCHANGED <<req, quote>>
    <3>1. \A w \in Workers : pc[w] # "deciding"
      BY <1>1, <2>1, OneDecides, Constants DEF Holds
    <3>2. HandlerTypes'
      <4>1. clock \in 0..MaxClock
        BY <1>1
      <4> QED BY <1>1, <2>1, <2>4, <3>1, <4>1 DEF HandlerTypes
    <3>3. ASSUME NEW w \in Workers \ {s}
          PROVE  Holds(w)'
      BY <1>1, <2>1, <2>4, <3>1, <3>3, StillHolds DEF HandlerTypes
    <3>4. /\ req[s] \in Requests /\ s \notin Sweepers /\ req'[s] = req[s] /\ quote'[s] = quote[s]
          /\ at'[s] = clock /\ Past(clock) /\ clock \in 1..clock
      BY <1>1, <2>1, <2>4, Constants DEF Holds, HandlerTypes, RowInv
    <3>5. CASE row.status = "none"
      <4>1. pc'[s] = "inserting"
        BY <1>1, <2>1, <2>4, <3>5 DEF HandlerTypes
      <4>2. req[s].kind \in {"autosave", "submit"}
        BY <2>4, <3>5 DEF Accepts, MayPublish, MayClose, IsOpenForTrading, MayPropose,
           MayDecide, MaySendBack, MaySettle, MayVoid, AwaitingOutcome
      <4> QED BY <1>1, <2>1, <2>2, <3>2, <3>3, <3>4, <4>1, <4>2 DEF LifeInv, Holds
    <3>6. CASE row.status # "none"
      <4>1. pc'[s] = "deciding" /\ rowLock' = s
        BY <1>1, <2>1, <2>4, <3>6 DEF HandlerTypes
      <4>2. Accepts(req[s], quote[s], at[s])'
        BY <2>1, <2>4, <3>4, LifeChecksKeep
      <4>3. Past(at[s])'
        BY <2>1, <3>4 DEF Past
      <4>4. Holds(s)'
        BY <2>1, <3>4, <3>6, <4>1, <4>2, <4>3 DEF Holds
      <4> QED BY <2>1, <2>2, <3>2, <3>3, <4>4 DEF LifeInv
    <3> QED BY <3>5, <3>6
  <2> QED BY <1>3, <2>1, <2>3, <2>4 DEF Decide
<1>4. ASSUME NEW s \in Sessions, LoseInsert(s)
      PROVE  LifeInv' /\ row' = row
  <2>1. /\ row' = row /\ minted' = minted /\ clock' = clock /\ pc[s] = "inserting" /\ s \in Workers
        /\ pc' = [pc EXCEPT ![s] = "asked"] /\ UNCHANGED <<rowLock, req, quote, at>>
    BY <1>4, Constants DEF LoseInsert, market
  <2>2. RowInv'
    BY <1>1, <2>1, RowStays
  <2>3. HandlerTypes'
    BY <1>1, <2>1 DEF HandlerTypes
  <2>4. ASSUME NEW w \in Workers \ {s}
        PROVE  Holds(w)'
    BY <1>1, <2>1, <2>4, StillHolds, OneDecides DEF HandlerTypes
  <2>5. Holds(s)'
    BY <1>1, <2>1, Constants DEF Holds, HandlerTypes
  <2> QED BY <2>1, <2>2, <2>3, <2>4, <2>5 DEF LifeInv
<1>5. ASSUME NEW s \in Sweepers, Sweep(s)
      PROVE  LifeInv' /\ row' = row
  <2>1. /\ row' = row /\ minted' = minted /\ clock' = clock /\ pc[s] = "idle" /\ s \in Workers
        /\ rowLock = NoOne /\ row.status = "open" /\ quote' = quote
        /\ pc' = [pc EXCEPT ![s] = "deciding"] /\ req' = [req EXCEPT ![s] = SweepRequest]
        /\ at' = [at EXCEPT ![s] = clock] /\ rowLock' = s
    BY <1>5, Constants DEF Sweep, market, IsDue
  <2>2. RowInv'
    BY <1>1, <2>1, RowStays
  <2>3. \A w \in Workers : pc[w] # "deciding"
    BY <1>1, <2>1, OneDecides, Constants
  <2>4. HandlerTypes'
    <3>1. clock \in 0..MaxClock
      BY <1>1
    <3> QED BY <1>1, <2>1, <3>1 DEF HandlerTypes
  <2>5. ASSUME NEW w \in Workers \ {s}
        PROVE  Holds(w)'
    BY <1>1, <2>1, <2>3, <2>5, StillHolds DEF HandlerTypes
  <2>6. Past(at[s])' /\ at'[s] = clock /\ clock \in 1..clock
    BY <1>1, <2>1 DEF HandlerTypes, RowInv, Past
  <2>7. Holds(s)'
    BY <1>1, <1>5, <2>1, <2>6, Constants DEF Holds, HandlerTypes
  <2> QED BY <2>1, <2>2, <2>4, <2>5, <2>7 DEF LifeInv
<1>6. ASSUME NEW w \in Workers, Commit(w)
      PROVE  /\ LifeInv' /\ Moved
             /\ \A v \in Workers : pc'[v] # pc[v] => ApprovedBy(v)
  <2>1. RowInv' /\ Moved /\ ApprovedBy(w)
    BY <1>6, CommitWrites
  <2>2. /\ End(w) /\ clock' = clock /\ pc[w] \in {"deciding", "inserting"}
        /\ (pc[w] = "inserting" => row.status = "none")
    BY <1>6 DEF Commit
  <2>3. \A v \in Workers \ {w} : pc[v] # "deciding"
    BY <1>1, <2>2, OneDecides DEF Holds
  <2>4. LifeInv'
    BY <2>1, <2>2, <2>3, EndKeeps
  <2>5. \A v \in Workers \ {w} : pc'[v] = pc[v]
    BY <1>1, <2>2 DEF End, HandlerTypes
  <2> QED BY <2>1, <2>4, <2>5
<1>7. ASSUME NEW w \in Workers, Abort(w)
      PROVE  LifeInv' /\ row' = row
  <2>1. End(w) /\ row' = row /\ minted' = minted /\ clock' = clock
    BY <1>7 DEF Abort, market
  <2>2. RowInv'
    BY <1>1, <2>1, RowStays
  <2> QED BY <2>1, <2>2, EndKeeps
<1>8. ASSUME Tick
      PROVE  LifeInv' /\ row' = row
  <2>1. /\ row' = row /\ minted' = minted /\ clock' = clock + 1 /\ clock < MaxClock
        /\ UNCHANGED <<rowLock, pc, req, quote, at>>
    BY <1>8 DEF Tick, market, handler
  <2>2. clock' \in 1..MaxClock /\ clock' \in Nat /\ clock' >= clock
    BY <1>1, <2>1, Constants
  <2>3. RowInv'
    BY <1>1, <2>1, <2>2, RowStays
  <2>4. HandlerTypes'
    BY <1>1, <2>1 DEF HandlerTypes
  <2>5. ASSUME NEW w \in Workers
        PROVE  Holds(w)'
    BY <1>1, <2>1, <2>2, <2>5, StillHolds, OneDecides
  <2> QED BY <2>1, <2>3, <2>4, <2>5 DEF LifeInv
<1> QED BY <1>2, <1>3, <1>4, <1>5, <1>6, <1>7, <1>8, NothingWritten DEF Next

----------------------------------------------------------------------------
(* The theorems *)

LEMMA LifeInit ==
  ASSUME Init
  PROVE  LifeInv
<1>1. 0 \in Time /\ 0 \in 0..MaxProposals /\ 0 \in 0..MaxClock /\ 1 \in 1..MaxClock /\ 0 \in Nat
  BY Constants DEF Time
<1>2. "none" \in Statuses
  BY DEF Statuses
<1>3. NoRow \in Rows
  BY <1>1, <1>2 DEF NoRow, Rows
<1>4. RowInv
  BY <1>1, <1>3, Constants
  DEF Init, NoRow, RowInv, Whole, Shape, Past, TimesInOrder
<1>5. HandlerTypes /\ \A w \in Workers : Holds(w)
  BY <1>1 DEF Init, HandlerTypes, Holds
<1> QED BY <1>4, <1>5 DEF LifeInv

LEMMA LifeStep ==
  ASSUME LifeInv, [Next]_vars
  PROVE  LifeInv'
<1>1. CASE Next
  BY <1>1, NextKeeps
<1>2. CASE UNCHANGED vars
  <2>1. /\ row' = row /\ minted' = minted /\ clock' = clock
        /\ UNCHANGED <<rowLock, pc, req, quote, at>> /\ clock \in Nat /\ clock \in 1..MaxClock
    BY <1>2 DEF vars, market, handler, LifeInv, RowInv
  <2>2. RowInv'
    BY <2>1, RowStays DEF LifeInv
  <2>3. \A w \in Workers : Holds(w)'
    BY <2>1, StillHolds, OneDecides DEF LifeInv
  <2> QED BY <2>1, <2>2, <2>3 DEF LifeInv, HandlerTypes
<1> QED BY <1>1, <1>2

LEMMA LifeInductive == Spec => []LifeInv
BY LifeInit, LifeStep, PTL DEF Spec

\* Every state is well typed, and a market has the columns its status says.
THEOREM MarketTyped == Spec => []TypeOK
<1>1. LifeInv => TypeOK
  <2> SUFFICES ASSUME LifeInv PROVE TypeOK
    OBVIOUS
  <2>1. 0..MaxClock \subseteq Time
    BY Constants DEF Time
  <2>2. at \in [Workers -> Time]
    BY <2>1 DEF LifeInv, HandlerTypes
  <2> QED BY <2>2 DEF LifeInv, RowInv, HandlerTypes, Rows, Whole, TypeOK
<1> QED BY <1>1, LifeInductive, PTL

\* The times a market records agree with the order things happened in, whoever
\* waited for the row and for how long.
THEOREM TimesAgree == Spec => []TimesInOrder
<1>1. LifeInv => TimesInOrder
  BY DEF LifeInv, RowInv
<1> QED BY <1>1, LifeInductive, PTL

\* The columns of a row tell one story, whatever its handlers waited for.
THEOREM OneStory == Spec => []RowCoherent
BY MarketTyped, TimesAgree, PTL DEF RowCoherent

\* No late save, second click or superseded decision takes a market back, or
\* writes its terms once it is published.
THEOREM ForwardOnly == Spec => MovesForward
<1>1. LifeInv /\ [Next]_vars =>
        [/\ row'.status # row.status => <<row.status, row'.status>> \in Moves
         /\ row.status \in Frozen => row'.closeTime = row.closeTime]_vars
  BY NextKeeps DEF Moved
<1> QED BY <1>1, LifeInductive, PTL DEF Spec, MovesForward

\* An approval is of the proposal its administrator had read, and never of
\* their own.
THEOREM ReadByASecond == Spec => ApprovesWhatWasRead
<1>1. LifeInv /\ [Next]_vars =>
        [\A w \in Sessions :
           row'.approver # row.approver /\ row'.approver # NoOne /\ pc'[w] # pc[w] =>
             quote[w] = row'.proposal /\ row'.proposer # row'.approver]_vars
  BY NextKeeps, Constants DEF ApprovedBy
<1> QED BY <1>1, LifeInductive, PTL DEF Spec, ApprovesWhatWasRead

----------------------------------------------------------------------------
(* The audit entries *)

Entry == [action: Kinds, proposal: 0..MaxProposals]

\* What the row still shows of an entry once it is committed.
Told(e) ==
  /\ e.proposal <= minted
  /\ e.action = "publish" => row.status \in Frozen
  /\ e.action = "close" => row.status \in {"closed"} \cup Resolving
  /\ e.action \in {"settle", "void"} => row.status \in {"settled", "voided"}
  /\ e.action \in {"approve", "reject", "send_back"} => e.proposal # 0
  /\ e.action \in {"approve", "reject"} /\ e.proposal = row.proposal =>
       row.status \in {"approved", "settled", "voided"}
  /\ e.action = "send_back" => e.proposal # row.proposal

\* Two entries of which a market may have one.
Alike(e, f) ==
  \/ \E k \in {"publish", "close"} : e.action = k /\ f.action = k
  \/ e.action \in {"settle", "void"} /\ f.action \in {"settle", "void"}
  \/ /\ e.proposal = f.proposal
     /\ \E K \in {{"propose"}, {"approve", "reject"}, {"send_back"}} :
          e.action \in K /\ f.action \in K

LogInv ==
  /\ log \in Seq(Entry)
  /\ row.proposal <= minted
  /\ \A i \in DOMAIN log : Told(log[i])
  /\ \A i, j \in DOMAIN log : Alike(log[i], log[j]) => i = j

\* What a commit does to the row's status and its proposal.
Goes(action) ==
  \/ /\ action = "publish" /\ row.status = "submitted"
     /\ row'.status = "open" /\ row'.proposal = row.proposal
  \/ /\ action = "close" /\ row.status = "open"
     /\ row'.status = "closed" /\ row'.proposal = row.proposal
  \/ /\ action = "propose" /\ row.status = "closed"
     /\ row'.status = "pending" /\ row'.proposal = minted + 1
  \/ /\ action = "approve" /\ row.status = "pending"
     /\ row'.status = "approved" /\ row'.proposal = row.proposal
  \/ /\ action = "reject" /\ row.status = "pending"
     /\ row'.status = "closed" /\ row'.proposal = 0
  \/ /\ action = "send_back" /\ row.status = "approved"
     /\ row'.status = "closed" /\ row'.proposal = 0
  \/ /\ action = "settle" /\ row.status = "approved"
     /\ row'.status = "settled" /\ row'.proposal = row.proposal
  \/ /\ action = "void" /\ row.status \in {"closed", "pending", "approved"}
     /\ row'.status = "voided" /\ row'.proposal \in {0, row.proposal}

\* And to the log and the proposals' ids.
Named(action) == IF action = "propose" THEN minted + 1 ELSE row.proposal

Tells(action) ==
  /\ log' = log \o <<[action |-> action, proposal |-> Named(action)]>>
  /\ minted' = IF action = "propose" THEN minted + 1 ELSE minted
  /\ Goes(action)

\* A save or the sweep writes no entry.
TellsNothing ==
  /\ log' = log /\ minted' = minted /\ row'.proposal = row.proposal
  /\ row.status \in Frozen => row.status = "open" /\ row'.status = "closed"

LEMMA CommitTells ==
  ASSUME LifeInv, NEW w \in Workers, Commit(w), log \in Seq(Entry)
  PROVE  TellsNothing \/ \E action \in Kinds : Tells(action)
<1> DEFINE r == req[w]  now == at[w]
<1>1. /\ Holds(w) /\ Write(r, now) /\ RowInv /\ row \in Rows
      /\ pc[w] \in {"deciding", "inserting"} /\ (pc[w] = "inserting" => row.status = "none")
  BY DEF Commit, LifeInv, RowInv
<1>2. log \o <<>> = log
  OBVIOUS
<1>3. CASE w \in Sweepers
  <2>1. r = SweepRequest /\ row.status = "open"
    BY <1>1, <1>3 DEF Holds
  <2>2. row' = Closed(now) /\ minted' = minted /\ log' = log
    BY <1>1, <1>2, <2>1 DEF Write, Effect, Entries
  <2> QED BY <1>1, <2>1, <2>2 DEF TellsNothing, Closed, Rows
<1>4. CASE w \in Sessions
  <2>1. r \in Request /\ r # SweepRequest /\ r.kind \in Kinds
    BY <1>1, <1>4, Constants DEF Holds, Request
  <2>2. /\ row' = Effect(r, now) /\ log' = log \o Entries(r)
        /\ minted' = IF r.kind = "propose" THEN minted + 1 ELSE minted
    BY <1>1, <2>1 DEF Write
  <2>3. CASE r.kind \in {"autosave", "submit"}
    <3>1. row' = Saved(r) /\ minted' = minted /\ log' = log
      BY <1>2, <2>1, <2>2, <2>3 DEF Effect, Entries
    <3>2. row.status \notin Frozen
      BY <1>1, <1>4, <2>3 DEF Holds, Accepts, MayAutosave, MaySubmit, Frozen, Resolving
    <3> QED BY <1>1, <3>1, <3>2 DEF TellsNothing, Saved, Rows
  <2>4. CASE r.kind \notin {"autosave", "submit"}
    <3>1. pc[w] = "deciding" /\ Accepts(r, quote[w], now)
      BY <1>1, <1>4, <2>4 DEF Holds
    <3>2. log' = log \o <<[action |-> r.kind,
            proposal |-> IF r.kind = "propose" THEN minted + 1 ELSE row.proposal]>>
      BY <2>1, <2>2, <2>4 DEF Entries
    <3>3. CASE r.kind = "publish"
      <4>1. row' = Published(now) /\ row.status = "submitted"
        BY <2>1, <2>2, <3>1, <3>3 DEF Effect, Accepts, MayPublish
      <4>2. Tells("publish")
        BY <1>1, <2>2, <3>2, <3>3, <4>1 DEF Tells, Goes, Named, Published, Rows
      <4> QED BY <2>1, <3>3, <4>2
    <3>4. CASE r.kind = "close"
      <4>1. row' = Closed(now) /\ row.status = "open"
        BY <2>1, <2>2, <3>1, <3>4 DEF Effect, Accepts, MayClose, IsOpenForTrading
      <4>2. Tells("close")
        BY <1>1, <2>2, <3>2, <3>4, <4>1 DEF Tells, Goes, Named, Closed, Rows
      <4> QED BY <2>1, <3>4, <4>2
    <3>5. CASE r.kind = "propose"
      <4>1. row' = Proposed(r, now) /\ row.status = "closed"
        BY <2>1, <2>2, <3>1, <3>5 DEF Effect, Accepts, MayPropose
      <4>2. Tells("propose")
        BY <1>1, <2>2, <3>2, <3>5, <4>1 DEF Tells, Goes, Named, Proposed, Rows
      <4> QED BY <2>1, <3>5, <4>2
    <3>6. CASE r.kind = "approve"
      <4>1. row' = Approved(r.by, now) /\ row.status = "pending"
        BY <2>1, <2>2, <3>1, <3>6 DEF Effect, Accepts, MayDecide
      <4>2. Tells("approve")
        BY <1>1, <2>2, <3>2, <3>6, <4>1 DEF Tells, Goes, Named, Approved, Rows
      <4> QED BY <2>1, <3>6, <4>2
    <3>7. CASE r.kind = "reject"
      <4>1. row' = Rejected /\ row.status = "pending"
        BY <2>1, <2>2, <3>1, <3>7 DEF Effect, Accepts, MayDecide
      <4>2. Tells("reject")
        BY <1>1, <2>2, <3>2, <3>7, <4>1, ClearedRows DEF Tells, Goes, Named, Rejected, Rows
      <4> QED BY <2>1, <3>7, <4>2
    <3>8. CASE r.kind = "send_back"
      <4>1. row' = SentBack /\ row.status = "approved"
        BY <2>1, <2>2, <3>1, <3>8 DEF Effect, Accepts, MaySendBack
      <4>2. Tells("send_back")
        BY <1>1, <2>2, <3>2, <3>8, <4>1, ClearedRows DEF Tells, Goes, Named, SentBack, Unapproved, Rows
      <4> QED BY <2>1, <3>8, <4>2
    <3>9. CASE r.kind = "settle"
      <4>1. row' = Settled /\ row.status = "approved"
        BY <2>1, <2>2, <3>1, <3>9 DEF Effect, Accepts, MaySettle
      <4>2. Tells("settle")
        BY <1>1, <2>2, <3>2, <3>9, <4>1 DEF Tells, Goes, Named, Settled, Rows
      <4> QED BY <2>1, <3>9, <4>2
    <3>10. CASE r.kind = "void"
      <4>1. row' = Voided /\ row.status \in {"closed", "pending", "approved"}
        BY <2>1, <2>2, <3>1, <3>10 DEF Effect, Accepts, MayVoid, AwaitingOutcome
      <4>2. row'.status = "voided" /\ row'.proposal \in {0, row.proposal}
        BY <1>1, <4>1, ClearedRows DEF Voided, Rows
      <4>3. Tells("void")
        BY <2>2, <3>2, <3>10, <4>1, <4>2 DEF Tells, Goes, Named
      <4> QED BY <2>1, <3>10, <4>3
    <3> QED BY <2>1, <2>4, <3>3, <3>4, <3>5, <3>6, <3>7, <3>8, <3>9, <3>10 DEF Kinds
  <2> QED BY <2>3, <2>4
<1> QED BY <1>3, <1>4, Constants

LEMMA LogInit == Init => LogInv
BY DEF Init, NoRow, LogInv

LEMMA LogStays ==
  ASSUME LogInv, log' = log, minted' = minted, row' = row
  PROVE  LogInv'
BY DEF LogInv, Told

\* One more entry: the row shows it, still shows the others, and no earlier one
\* is like it.
LEMMA LogGrows ==
  ASSUME LifeInv, LifeInv', LogInv, NEW action \in Kinds, Tells(action)
  PROVE  LogInv'
<1> DEFINE e == [action |-> action, proposal |-> Named(action)]
           n == Len(log)
<1>1. /\ minted \in 0..MaxProposals /\ row.proposal \in 0..MaxProposals
      /\ row.proposal <= minted /\ minted' \in 0..MaxProposals /\ MaxProposals \in Nat /\ Whole
  <2>1. minted \in 0..MaxProposals /\ minted' \in 0..MaxProposals /\ Whole
    BY DEF LifeInv, RowInv
  <2>2. row.proposal \in 0..MaxProposals
    BY RowFields DEF LifeInv
  <2> QED BY <2>1, <2>2, Constants DEF LogInv
<1>2. minted' = (IF action = "propose" THEN minted + 1 ELSE minted) /\ Goes(action)
  BY DEF Tells
<1>3. /\ e \in Entry /\ e.action = action /\ e.proposal = Named(action)
  BY <1>1, <1>2 DEF Entry, Named
<1> HIDE DEF e
<1>4. /\ log' \in Seq(Entry) /\ n \in Nat /\ DOMAIN log = 1..n /\ DOMAIN log' = 1..(n + 1)
      /\ log'[n + 1] = e /\ \A i \in 1..n : log'[i] = log[i] /\ log[i] \in Entry
  <2>1. log \in Seq(Entry) /\ log' = log \o <<e>>
    BY DEF LogInv, Tells, e
  <2> QED BY <1>3, <2>1
<1> HIDE DEF n
<1>5. ASSUME NEW i \in 1..n
      PROVE  Told(log[i])' /\ ~ Alike(log[i], e) /\ ~ Alike(e, log[i])
  <2>1. Told(log[i]) /\ log[i] \in Entry /\ log'[i] = log[i]
    BY <1>4, <1>5 DEF LogInv
  <2>2. log[i].proposal \in Nat
    BY <1>1, <2>1 DEF Entry
  <2> DEFINE f == log[i]
  <2>3. Told(f)'
    <3>1. f' = f
      BY <2>1
    <3> HIDE DEF f
    <3>2. Told(f)
      BY <2>1 DEF f
    <3>3. f.proposal \in Nat
      BY <2>2 DEF f
    <3> QED BY <1>1, <1>2, <3>1, <3>2, <3>3 DEF Told, Goes, Frozen, Resolving, Whole
  <2>4. ~ Alike(f, e) /\ ~ Alike(e, f)
    <3> HIDE DEF f
    <3>2. Told(f)
      BY <2>1 DEF f
    <3>3. f.proposal \in Nat
      BY <2>2 DEF f
    <3> QED BY <1>1, <1>2, <1>3, <3>2, <3>3 DEF Told, Alike, Goes, Named, Frozen, Resolving, Whole
  <2> QED BY <2>1, <2>3, <2>4
<1>6. \A i \in DOMAIN log' : i = n + 1 => Told(log[i])'
  BY <1>1, <1>2, <1>3, <1>4 DEF Told, Goes, Named, Frozen, Resolving, Whole
<1>7. row'.proposal <= minted'
  BY <1>1, <1>2 DEF Goes
<1>8. \A i \in DOMAIN log' : Told(log[i])'
  BY <1>4, <1>5, <1>6
<1>9. ASSUME NEW i \in DOMAIN log', NEW j \in DOMAIN log', Alike(log'[i], log'[j])
      PROVE  i = j
  <2>1. CASE i \in 1..n /\ j \in 1..n
    BY <1>4, <1>9, <2>1 DEF LogInv
  <2>2. CASE i = n + 1 /\ j \in 1..n
    BY <1>4, <1>5, <1>9, <2>2
  <2>3. CASE j = n + 1 /\ i \in 1..n
    BY <1>4, <1>5, <1>9, <2>3
  <2> QED BY <1>4, <2>1, <2>2, <2>3
<1> QED BY <1>4, <1>7, <1>8, <1>9 DEF LogInv

LEMMA LogStep ==
  ASSUME LifeInv, LogInv, [Next]_vars
  PROVE  LogInv'
<1>1. LifeInv'
  BY LifeStep
<1>2. ASSUME NEW w \in Workers, Commit(w)
      PROVE  LogInv'
  <2>1. TellsNothing \/ \E action \in Kinds : Tells(action)
    BY <1>2, CommitTells DEF LogInv
  <2>2. CASE TellsNothing
    <3>1. row.status \in Statuses
      BY RowFields DEF LifeInv
    <3>2. ASSUME NEW i \in DOMAIN log
          PROVE  Told(log[i])'
      BY <2>2, <3>1 DEF LogInv, Told, TellsNothing, Frozen, Resolving, LifeInv, RowInv, Whole, Statuses
    <3> QED BY <2>2, <3>2 DEF LogInv, TellsNothing
  <2>3. CASE \E action \in Kinds : Tells(action)
    BY <1>1, <2>3, LogGrows
  <2> QED BY <2>1, <2>2, <2>3
<1>3. CASE \A w \in Workers : ~ Commit(w)
  <2>1. UNCHANGED market
    BY <1>3 DEF Next, Ask, Decide, LoseInsert, Sweep, Abort, Tick, vars
  <2> QED BY <2>1, LogStays DEF market
<1> QED BY <1>2, <1>3

LEMMA AtMostOne ==
  ASSUME NEW S, \A x, y \in S : x = y
  PROVE  Cardinality(S) <= 1
<1>1. CASE S = {}
  BY <1>1, FS_EmptySet
<1>2. CASE S # {}
  <2>1. PICK x \in S : TRUE
    BY <1>2
  <2>2. S = {x}
    BY <2>1
  <2> QED BY <2>2, FS_Singleton
<1> QED BY <1>1, <1>2

\* However often a button is pressed, a market is published, closed by hand and
\* ended at most once, and each of its proposals made, decided and sent back
\* at most once.
THEOREM NothingDecidedTwice == Spec => []DecidedOnce
<1>1. LogInv => DecidedOnce
  <2> SUFFICES ASSUME LogInv PROVE DecidedOnce
    OBVIOUS
  <2>1. \A K \in {{"publish"}, {"close"}, {"settle", "void"}} :
          \A i, j \in {k \in DOMAIN log : log[k].action \in K} : i = j
    BY DEF LogInv, Alike
  <2>2. \A K \in {{"propose"}, {"approve", "reject"}, {"send_back"}}, p \in 1..MaxProposals :
          \A i, j \in {k \in DOMAIN log : log[k].action \in K /\ log[k].proposal = p} : i = j
    BY DEF LogInv, Alike
  <2>3. Cardinality({k \in DOMAIN log : log[k].action = "publish"}) <= 1
    BY <2>1, AtMostOne
  <2>4. Cardinality({k \in DOMAIN log : log[k].action = "close"}) <= 1
    BY <2>1, AtMostOne
  <2>5. Cardinality({k \in DOMAIN log : log[k].action \in {"settle", "void"}}) <= 1
    BY <2>1, AtMostOne
  <2>6. ASSUME NEW p \in 1..MaxProposals
        PROVE  Count({"propose"}, p) <= 1 /\ Count({"approve", "reject"}, p) <= 1
               /\ Count({"send_back"}, p) <= 1
    BY <2>2, AtMostOne DEF Count
  <2> QED BY <2>3, <2>4, <2>5, <2>6 DEF DecidedOnce
<1>2. LifeInv /\ LogInv /\ [Next]_vars => LogInv'
  BY LogStep
<1> QED BY <1>1, <1>2, LogInit, LifeInductive, PTL DEF Spec

----------------------------------------------------------------------------
(* The two services *)

Winners == Outcomes \cup {NoOutcome}

Row ==
  [status: Statuses, closeTime: Nat, publishedAt: Nat, closedAt: Nat,
   proposal: Nat, winner: Winners, proposer: Administrators \cup {NoOne}, proposedAt: Nat,
   approver: Administrators \cup {NoOne}, approvedAt: Nat, endsAt: Nat]

\* The market is past its close, so no sweep and no save finds work; a handler
\* between its checks and its commit holds the row, and they still hold of it.
MarketInv ==
  /\ row \in Row /\ row.status \in {"closed"} \cup Resolving
  /\ minted \in Nat /\ clock \in Nat
  /\ pc \in [Workers -> {"idle", "asked", "deciding"}]
  /\ req \in [Workers -> Requests \cup {NoRequest}]
  /\ quote \in [Workers -> Nat] /\ at \in [Workers -> Nat]
  /\ rowLock \in Workers \cup {NoOne}
  /\ \A w \in Workers : pc[w] # "idle" => w \in Sessions /\ req[w] \in Requests
  /\ \A w \in Workers : pc[w] = "deciding" =>
       /\ rowLock = w
       /\ Accepts(req[w], quote[w], at[w])
       /\ at[w] <= clock /\ clock <= at[w] + Stall

\* w is the outcome nobody can take back any more: it was approved and no
\* send-back that read its clock inside the window is still to commit.
Stands(w) ==
  /\ row.status \in {"approved", "settled", "voided"}
  /\ row.winner = w
  /\ row.status = "approved" => row.endsAt # 0 /\ clock >= row.endsAt + Stall

Final == {"settled", "voided"}

Ended(k) == IF k = "settle" THEN "settled" ELSE "voided"

LedgerTypes ==
  /\ record \in {NoRecord} \cup [kind: Endings, winner: Winners]
  /\ step \in [Clerks -> {"idle", "lookup", "pay", "tell", "wait"}]
  /\ ending \in [Clerks -> Endings]
  /\ terms \in [Clerks -> Terms \cup {NoTerms}]
  /\ call \in [Clerks -> {"none", "sent", "ok", "refused"}]
  /\ late \subseteq Endings
  /\ told \in [Clerks -> BOOLEAN]

\* The record exists and is of this ending.
Recorded(k) == record # NoRecord /\ record.kind = k

\* Terms that admit a payment name an outcome that stands.
TermsHold ==
  \A c \in Clerks : step[c] \in {"lookup", "pay"} =>
    /\ terms[c] \in Terms
    /\ MayPayOut(terms[c]) => Stands(terms[c].winner)
    /\ step[c] = "pay" => MayEnd(ending[c], terms[c])

\* market_service is only ever told what the ledger recorded.
CallsAreRecorded ==
  /\ \A c \in Clerks : step[c] \in {"tell", "wait"} => Recorded(ending[c])
  /\ \A c \in Clerks : call[c] # "none" => step[c] = "wait"
  /\ \A k \in late : Recorded(k)

RecordStands ==
  /\ Recorded("settle") => Stands(record.winner)
  /\ \A k \in Endings : row.status = Ended(k) => Recorded(k)

AnswersHold ==
  /\ \A c \in Clerks : call[c] = "ok" => row.status = Ended(ending[c])
  /\ \A c \in Clerks : told[c] => record # NoRecord /\ row.status = Ended(record.kind)

LedgerInv == LedgerTypes /\ TermsHold /\ CallsAreRecorded /\ RecordStands /\ AnswersHold

EndingInv == MarketInv /\ LedgerInv

\* What no step of market_service undoes: a final status, and an outcome that
\* stands.
Kept ==
  /\ row.status \in Final => row'.status = row.status
  /\ \A w \in Winners : Stands(w) => Stands(w)'

----------------------------------------------------------------------------
(* The market *)

LEMMA ClearedRow ==
  ASSUME NEW m \in Row
  PROVE  Cleared(m) \in Row
<1>1. 0 \in Nat /\ NoOutcome \in Winners
  BY DEF Winners
<1> QED BY <1>1, Zenon DEF Cleared, Row

\* The writes market_service's handlers make once the market is closed.
LEMMA HandlerWrites ==
  ASSUME MarketInv, NEW w \in Workers, pc[w] = "deciding", Write(req[w], at[w]), clock' = clock
  PROVE  /\ row' \in Row /\ row'.status \in {"closed"} \cup Resolving /\ minted' \in Nat
         /\ row.status \notin Final /\ row'.status \notin Final
         /\ \A x \in Winners : ~Stands(x)
<1> DEFINE r == req[w]
<1>1. /\ r \in Requests /\ r \in Request /\ r.kind \notin {"settle", "void"}
      /\ r # SweepRequest /\ Accepts(r, quote[w], at[w])
      /\ at[w] \in Nat /\ clock <= at[w] + Stall
  BY LifecycleAssumption, EndingAssumption DEF MarketInv
<1>2. /\ row \in Row /\ row.status \in {"closed"} \cup Resolving
      /\ minted \in Nat /\ clock \in Nat /\ Window \in Nat /\ Stall \in Nat
  BY LifecycleAssumption DEF MarketInv
<1>3. r.kind \in {"propose", "approve", "reject", "send_back"}
  BY <1>1, <1>2 DEF Accepts, MayAutosave, MaySubmit, MayPublish, MayClose, IsOpenForTrading,
     Frozen, Resolving, Request, Kinds
<1>4. row' = Effect(r, at[w]) /\ minted' \in Nat
  BY <1>2 DEF Write
<1>5. CASE r.kind = "propose"
  <2>1. row.status = "closed" /\ row' = Proposed(r, at[w])
    BY <1>1, <1>2, <1>4, <1>5 DEF Accepts, MayPropose, Effect
  <2>2. /\ r.winner \in Winners /\ r.by \in Administrators /\ minted + 1 \in Nat
        /\ "pending" \in Statuses
    BY <1>1, <1>2 DEF Request, Winners, Statuses, Resolving
  <2>3. row' \in Row
    BY <1>1, <1>2, <2>1, <2>2, Zenon DEF Proposed, Row
  <2>4. row'.status = "pending"
    BY <1>2, <2>1 DEF Proposed, Row
  <2> QED BY <1>4, <2>1, <2>3, <2>4 DEF Resolving, Final, Stands
<1>6. CASE r.kind = "approve"
  <2>1. row.status = "pending" /\ row' = Approved(r.by, at[w])
    BY <1>1, <1>2, <1>4, <1>6 DEF Accepts, MayDecide, Effect
  <2>2. r.by \in Administrators /\ at[w] + Window \in Nat /\ "approved" \in Statuses
    BY <1>1, <1>2 DEF Request, Statuses, Resolving
  <2>3. row' \in Row
    BY <1>1, <1>2, <2>1, <2>2, Zenon DEF Approved, Row
  <2>4. row'.status = "approved"
    BY <1>2, <2>1 DEF Approved, Row
  <2> QED BY <1>4, <2>1, <2>3, <2>4 DEF Resolving, Final, Stands
<1>7. CASE r.kind = "reject"
  <2>1. row.status = "pending" /\ row' = Rejected
    BY <1>1, <1>2, <1>4, <1>7 DEF Accepts, MayDecide, Effect
  <2>2. row' \in Row /\ row'.status = "closed"
    BY <1>2, <2>1, ClearedRow DEF Rejected, Row, Statuses
  <2> QED BY <1>4, <2>1, <2>2 DEF Final, Stands
<1>8. CASE r.kind = "send_back"
  <2>1. row.status = "approved" /\ at[w] < row.endsAt /\ row' = SentBack
    BY <1>1, <1>2, <1>4, <1>8 DEF Accepts, MaySendBack, InDisputeWindow, Effect
  <2>2. row.endsAt \in Nat
    BY <1>2 DEF Row
  <2>3. \A x \in Winners : ~Stands(x)
    BY <1>1, <1>2, <2>1, <2>2 DEF Stands
  <2>4. Unapproved(Cleared(row)) \in Row
    BY <1>2, ClearedRow DEF Unapproved, Row
  <2>5. row' \in Row /\ row'.status = "closed"
    BY <2>1, <2>4 DEF SentBack, Row, Statuses
  <2> QED BY <1>4, <2>1, <2>3, <2>5 DEF Final
<1> QED BY <1>3, <1>5, <1>6, <1>7, <1>8

\* market_service's settle or void step, whoever's call it answers.
LEMMA StepWrites ==
  ASSUME MarketInv, NEW k \in Endings, TakeStep(k)
  PROVE  /\ MarketInv' /\ Kept
         /\ row'.status \in Final => row'.status \in {row.status, Ended(k)}
         /\ Accepts(StepRequest(k), 0, clock) \/ Repeats(StepRequest(k)) => row'.status = Ended(k)
<1> DEFINE r == StepRequest(k)
<1>1. r \in Request /\ r # SweepRequest /\ r.kind = k /\ k \in {"settle", "void"}
  <2>1. k \in Kinds /\ k \in {"settle", "void"}
    BY DEF Kinds, Endings
  <2>2. r \in Request /\ r.kind = k
    BY <2>1, LifecycleAssumption DEF StepRequest, Request
  <2> QED BY <2>1, <2>2, LifecycleAssumption
<1>2. /\ row \in Row /\ row.status \in {"closed"} \cup Resolving
      /\ minted \in Nat /\ clock \in Nat /\ clock' = clock
  BY DEF MarketInv, TakeStep
<1>3. \A w \in Workers : pc[w] # "deciding"
  BY LifecycleAssumption DEF MarketInv, TakeStep, Workers
<1>4. /\ row' \in Row /\ row'.status \in {"closed"} \cup Resolving /\ minted' \in Nat
      /\ Kept
      /\ row'.status \in Final => row'.status \in {row.status, Ended(k)}
      /\ Accepts(r, 0, clock) \/ Repeats(r) => row'.status = Ended(k)
  <2>1. CASE ~Accepts(r, 0, clock)
    <3>1. row' = row /\ minted' = minted
      BY <2>1 DEF TakeStep, market
    <3> QED BY <1>1, <1>2, <2>1, <3>1 DEF Kept, Stands, Repeats, Ended
  <2>2. CASE Accepts(r, 0, clock)
    <3>1. row' = Effect(r, clock) /\ minted' = minted
      BY <1>1, <2>2 DEF TakeStep, Write
    <3>2. CASE k = "settle"
      <4>1. row.status = "approved" /\ row' = Settled
        BY <1>1, <2>2, <3>1, <3>2 DEF Accepts, MaySettle, Effect
      <4> QED BY <1>2, <3>1, <3>2, <4>1
        DEF Settled, Row, Statuses, Resolving, Final, Ended, Kept, Stands
    <3>3. CASE k = "void"
      <4>1. row.status \in {"closed", "pending", "approved"} /\ row' = Voided
        BY <1>1, <2>2, <3>1, <3>3 DEF Accepts, MayVoid, AwaitingOutcome, Effect
      <4>2. /\ row' \in Row /\ row'.status = "voided"
            /\ row.status # "pending" => row'.winner = row.winner
        BY <1>2, <4>1, ClearedRow DEF Voided, Row, Statuses, Resolving
      <4> QED BY <1>2, <3>1, <3>3, <4>1, <4>2 DEF Resolving, Final, Ended, Kept, Stands
    <3> QED BY <1>1, <3>2, <3>3
  <2> QED BY <2>1, <2>2
<1>5. MarketInv'
  BY <1>2, <1>3, <1>4 DEF MarketInv, TakeStep, handler
<1> QED BY <1>4, <1>5

\* A handler's checks still hold while the row stays as it was.
LEMMA ChecksKeep ==
  ASSUME row' = row, minted' = minted, NEW w, NEW n,
         req'[w] = req[w], quote'[w] = quote[w], at'[w] = n,
         Accepts(req[w], quote[w], n)
  PROVE  Accepts(req[w], quote[w], at[w])'
BY DEF Accepts, MayAutosave, MaySubmit, MayPublish, MayClose, MayPropose, MayDecide,
   MaySendBack, MaySettle, MayVoid, IsOpenForTrading, InDisputeWindow,
   BeforeSettlementOpens, IsSettleable, IsFuture, NotSuperseded

\* A step that leaves the row alone takes nothing back.
LEMMA QuietKeeps ==
  ASSUME MarketInv, row' = row, clock' \in Nat, clock' >= clock
  PROVE  Kept
<1>1. clock \in Nat /\ row.endsAt \in Nat /\ Stall \in Nat
  BY LifecycleAssumption DEF MarketInv, Row
<1>2. ASSUME NEW w \in Winners, Stands(w)
      PROVE  Stands(w)'
  BY <1>1, <1>2 DEF Stands
<1> QED BY <1>2 DEF Kept

\* Whatever market_service's handlers do on their own, no market is ended by
\* it and nothing settled is taken back.
LEMMA MarketStep ==
  ASSUME MarketInv, Next
  PROVE  MarketInv' /\ Kept /\ (row'.status \in Final => row'.status = row.status)
<1> USE DEF MarketInv
<1>1. /\ NoOne \notin Workers /\ Stall \in Nat /\ NoRequest \notin Requests
      /\ Sessions \subseteq Workers /\ Sweepers \subseteq Workers
  BY LifecycleAssumption DEF Workers
<1>2. row.proposal \in Nat
  BY DEF Row
<1>3. ASSUME row' = row, minted' = minted, clock' = clock
      PROVE  Kept /\ (row'.status \in Final => row'.status = row.status)
  BY <1>3, QuietKeeps
<1>4. ASSUME NEW s \in Sessions, NEW r \in Requests, Ask(s, r)
      PROVE  MarketInv' /\ Kept /\ (row'.status \in Final => row'.status = row.status)
  <2>1. /\ row' = row /\ minted' = minted /\ clock' = clock /\ rowLock' = rowLock /\ at' = at
        /\ pc' = [pc EXCEPT ![s] = "asked"] /\ req' = [req EXCEPT ![s] = r]
        /\ quote' \in [Workers -> Nat] /\ \A w \in Workers \ {s} : quote'[w] = quote[w]
    BY <1>1, <1>2, <1>4 DEF Ask, market
  <2>2. \A w \in Workers \ {s} : Accepts(req[w], quote[w], at[w]) =>
           Accepts(req[w], quote[w], at[w])'
    BY <1>1, <2>1, ChecksKeep
  <2>3. MarketInv'
    BY <1>1, <2>1, <2>2
  <2> QED BY <1>3, <2>1, <2>3
<1>5. ASSUME NEW w \in Workers, End(w), row' \in Row, row'.status \in {"closed"} \cup Resolving,
             minted' \in Nat, clock' = clock,
             (row' = row /\ minted' = minted) \/ rowLock = w
      PROVE  MarketInv'
  <2>1. /\ pc' = [pc EXCEPT ![w] = "idle"] /\ req' = [req EXCEPT ![w] = NoRequest]
        /\ quote' = [quote EXCEPT ![w] = 0] /\ at' = [at EXCEPT ![w] = 0]
        /\ rowLock' = IF rowLock = w THEN NoOne ELSE rowLock
    BY <1>5 DEF End
  <2>2. \A v \in Workers \ {w} : pc[v] = "deciding" =>
           rowLock' = v /\ Accepts(req[v], quote[v], at[v])'
    BY <1>1, <1>5, <2>1, ChecksKeep
  <2> QED BY <1>1, <1>5, <2>1, <2>2
<1>6. ASSUME NEW s \in Sessions, Decide(s)
      PROVE  MarketInv' /\ Kept /\ (row'.status \in Final => row'.status = row.status)
  <2>1. /\ row' = row /\ minted' = minted /\ clock' = clock /\ rowLock = NoOne
        /\ row.status # "none" /\ pc[s] = "asked"
    BY <1>6 DEF Decide, RowFree, market, Resolving
  <2>2. CASE End(s)
    BY <1>1, <1>3, <1>5, <2>1, <2>2
  <2>3. CASE /\ Accepts(req[s], quote[s], clock)
             /\ pc' = [pc EXCEPT ![s] = "deciding"] /\ at' = [at EXCEPT ![s] = clock]
             /\ rowLock' = s /\ UNCHANGED <<req, quote>>
    <3>1. Accepts(req[s], quote[s], at[s])'
      BY <1>1, <2>1, <2>3, ChecksKeep
    <3>2. MarketInv'
      BY <1>1, <2>1, <2>3, <3>1
    <3> QED BY <1>3, <2>1, <3>2
  <2> QED BY <1>6, <2>1, <2>2, <2>3 DEF Decide
<1>7. ASSUME NEW s \in Sessions, LoseInsert(s)
      PROVE  FALSE
  BY <1>1, <1>7 DEF LoseInsert
<1>8. ASSUME NEW w \in Sweepers, Sweep(w)
      PROVE  FALSE
  BY <1>8 DEF Sweep, IsDue, Resolving
<1>9. ASSUME NEW w \in Workers, Commit(w)
      PROVE  MarketInv' /\ Kept /\ (row'.status \in Final => row'.status = row.status)
  <2>1. /\ pc[w] = "deciding" /\ rowLock = w /\ Write(req[w], at[w]) /\ clock' = clock /\ End(w)
    BY <1>9 DEF Commit
  <2>2. /\ row' \in Row /\ row'.status \in {"closed"} \cup Resolving /\ minted' \in Nat
        /\ row.status \notin Final /\ row'.status \notin Final
        /\ \A x \in Winners : ~Stands(x)
    BY <2>1, HandlerWrites
  <2> QED BY <1>5, <2>1, <2>2 DEF Kept
<1>10. ASSUME NEW w \in Workers, Abort(w)
       PROVE  MarketInv' /\ Kept /\ (row'.status \in Final => row'.status = row.status)
  BY <1>3, <1>5, <1>10 DEF Abort, market
<1>11. ASSUME Tick
       PROVE  MarketInv' /\ Kept /\ (row'.status \in Final => row'.status = row.status)
  <2>1. /\ row' = row /\ minted' = minted /\ clock' = clock + 1
        /\ UNCHANGED <<rowLock, pc, req, quote, at>>
        /\ \A w \in Workers : pc[w] = "deciding" => clock + 1 - at[w] <= Stall
    BY <1>11 DEF Tick, InHand, market, handler
  <2>2. \A w \in Workers : Accepts(req[w], quote[w], at[w]) => Accepts(req[w], quote[w], at[w])'
    BY <2>1, ChecksKeep
  <2>3. MarketInv'
    BY <1>1, <2>1, <2>2
  <2> QED BY <2>1, <2>3, QuietKeeps
<1> QED BY <1>4, <1>6, <1>7, <1>8, <1>9, <1>10, <1>11 DEF Next

----------------------------------------------------------------------------
(* The ledger *)

\* An ending market_service's row tells of, but did not, is one recorded.
EndsRecorded ==
  \A k \in Endings : row'.status = Ended(k) => row.status = Ended(k) \/ Recorded(k)

\* What each part of LedgerInv says of clerks that do not move.
LEMMA MarketMoves ==
  ASSUME MarketInv, LedgerInv, Kept, EndsRecorded, UNCHANGED ledger
  PROVE  LedgerInv'
<1> USE DEF LedgerInv
<1>1. \A k : Recorded(k)' = Recorded(k)
  BY DEF ledger, Recorded
<1>2. LedgerTypes'
  BY DEF LedgerTypes, ledger, clerk
<1>3. TermsHold'
  BY DEF TermsHold, MayPayOut, MayEnd, MayRefund, Kept, Terms, Winners, ledger, clerk
<1>4. CallsAreRecorded'
  BY <1>1 DEF CallsAreRecorded, ledger, clerk
<1>5. RecordStands'
  BY <1>1 DEF RecordStands, Kept, EndsRecorded, ledger, LedgerTypes, Recorded
<1>6. AnswersHold'
  BY DEF AnswersHold, Kept, Ended, Final, ledger, clerk
<1> QED BY <1>2, <1>3, <1>4, <1>5, <1>6

\* The clerk's request ends; done only if both services say so.
LEMMA Answered ==
  ASSUME LedgerInv, NEW c \in Clerks, NEW done \in BOOLEAN, Answer(c, done),
         row' = row, clock' = clock, record' = record, late' \subseteq Endings,
         \A k \in late' : Recorded(k),
         done => record # NoRecord /\ row.status = Ended(record.kind)
  PROVE  LedgerInv'
<1> USE DEF LedgerInv, LedgerTypes
<1>1. /\ \A k : Recorded(k)' = Recorded(k)
      /\ \A w : Stands(w)' = Stands(w)
  BY DEF Recorded, Stands
<1>2. LedgerTypes'
  BY DEF Answer, Endings
<1>3. TermsHold'
  BY <1>1 DEF TermsHold, Answer, MayPayOut, MayEnd, MayRefund
<1>4. CallsAreRecorded'
  BY <1>1 DEF CallsAreRecorded, Answer
<1>5. RecordStands'
  BY <1>1 DEF RecordStands, Recorded
<1>6. AnswersHold'
  BY DEF AnswersHold, Answer
<1> QED BY <1>2, <1>3, <1>4, <1>5, <1>6

\* The clerk goes on to tell what is recorded.
LEMMA GoesToTell ==
  ASSUME LedgerInv, NEW c \in Clerks, GoTell(c), step[c] \in {"lookup", "pay"},
         row' = row, clock' = clock, late' = late,
         record' \in [kind: Endings, winner: Winners], record'.kind = ending[c],
         record # NoRecord => record' = record,
         record = NoRecord /\ record'.kind = "settle" => Stands(record'.winner)
  PROVE  LedgerInv'
<1> USE DEF LedgerInv, LedgerTypes
<1>1. /\ record' # NoRecord
      /\ \A k : Recorded(k) => Recorded(k)'
      /\ Recorded(ending[c])'
      /\ \A w : Stands(w)' = Stands(w)
  BY EndingAssumption DEF GoTell, Recorded, Stands, Endings, Winners
<1>2. LedgerTypes'
  BY DEF GoTell
<1>3. TermsHold'
  BY <1>1 DEF TermsHold, GoTell, MayPayOut, MayEnd, MayRefund
<1>4. CallsAreRecorded'
  BY <1>1 DEF CallsAreRecorded, GoTell
<1>5. RecordStands'
  BY <1>1 DEF RecordStands, Recorded
<1>6. AnswersHold'
  BY <1>1 DEF AnswersHold, GoTell
<1> QED BY <1>2, <1>3, <1>4, <1>5, <1>6

\* An admitted payment's outcome stands, however far the clocks are apart.
LEMMA TermsStand ==
  ASSUME MarketInv, NEW off \in -Skew..Skew
  PROVE  /\ TermsAt(clock + off) \in Terms
         /\ MayPayOut(TermsAt(clock + off)) => Stands(TermsAt(clock + off).winner)
<1>1. /\ row \in Row /\ row.endsAt \in Nat /\ clock \in Nat
      /\ Skew \in Nat /\ Gap \in Nat /\ Stall \in Nat /\ Skew + Stall <= Gap
  BY LifecycleAssumption, EndingAssumption DEF MarketInv, Row
<1>2. row.status \in Statuses /\ row.winner \in Winners
  BY <1>1 DEF Row
<1>3. IsSettleable(clock + off) \in BOOLEAN /\ IsVoidable(clock + off) \in BOOLEAN
  BY DEF IsSettleable, IsVoidable
<1>4. TermsAt(clock + off) \in Terms
  BY <1>2, <1>3 DEF TermsAt, Terms, Winners
<1>5. IsSettleable(clock + off) /\ row.status = "approved" =>
        row.endsAt # 0 /\ clock >= row.endsAt + Stall
  BY <1>1 DEF IsSettleable
<1>6. MayPayOut(TermsAt(clock + off)) => Stands(row.winner)
  BY <1>5 DEF MayPayOut, TermsAt, Stands
<1>7. TermsAt(clock + off).winner = row.winner
  BY DEF TermsAt
<1> QED BY <1>4, <1>6, <1>7

\* Every step of the ledger's requests, and of their calls.
LEMMA LedgerStep ==
  ASSUME EndingInv, LedgerNext
  PROVE  EndingInv'
<1> USE DEF EndingInv
<1> DEFINE Still == UNCHANGED vars
<1>1. ASSUME Still
      PROVE  MarketInv' /\ row' = row /\ clock' = clock
  <2>1. /\ row' = row /\ minted' = minted /\ clock' = clock /\ rowLock' = rowLock
        /\ pc' = pc /\ req' = req /\ quote' = quote /\ at' = at
    BY <1>1 DEF vars, market, handler
  <2>2. \A w \in Workers : Accepts(req[w], quote[w], at[w]) => Accepts(req[w], quote[w], at[w])'
    BY <2>1, ChecksKeep
  <2> QED BY <2>1, <2>2 DEF MarketInv
<1>2. ASSUME NEW c \in Clerks, NEW k \in Endings, NEW off \in -Skew..Skew, ReadTerms(c, k, off)
      PROVE  EndingInv'
  <2>1. /\ TermsAt(clock + off) \in Terms
        /\ MayPayOut(TermsAt(clock + off)) => Stands(TermsAt(clock + off).winner)
    BY TermsStand
  <2>2. /\ Still /\ UNCHANGED <<record, call, late>> /\ step[c] = "idle"
        /\ step' = [step EXCEPT ![c] = "lookup"] /\ ending' = [ending EXCEPT ![c] = k]
        /\ terms' = [terms EXCEPT ![c] = TermsAt(clock + off)]
        /\ told' = [told EXCEPT ![c] = FALSE]
    BY <1>2 DEF ReadTerms
  <2>3. MarketInv' /\ \A w : Stands(w)' = Stands(w) /\ Recorded(w)' = Recorded(w)
    BY <1>1, <2>2 DEF Stands, Recorded
  <2>4. LedgerTypes'
    BY <2>1, <2>2 DEF LedgerInv, LedgerTypes
  <2>5. TermsHold'
    BY <2>1, <2>2, <2>3 DEF LedgerInv, LedgerTypes, TermsHold, MayPayOut, MayEnd, MayRefund
  <2>6. CallsAreRecorded' /\ RecordStands' /\ AnswersHold'
    BY <1>1, <2>2, <2>3
    DEF LedgerInv, LedgerTypes, CallsAreRecorded, RecordStands, AnswersHold, Recorded
  <2> QED BY <2>3, <2>4, <2>5, <2>6 DEF LedgerInv
<1>3. ASSUME NEW c \in Clerks, AnswerRecorded(c), Still, record # NoRecord, UNCHANGED <<record, late>>,
             step[c] \in {"lookup", "pay"}
      PROVE  EndingInv'
  <2>1. record \in [kind: Endings, winner: Winners] /\ late \subseteq Endings
    BY <1>3 DEF LedgerInv, LedgerTypes
  <2>2. CASE record.kind = ending[c]
    BY <1>1, <1>3, <2>1, <2>2, GoesToTell DEF AnswerRecorded, SameEnding, TellAgain
  <2>3. CASE record.kind # ending[c] /\ Answer(c, FALSE)
    <3>1. \A k \in late' : Recorded(k)
      BY <1>3 DEF LedgerInv, CallsAreRecorded
    <3> QED BY <1>1, <1>3, <2>1, <2>3, <3>1, Answered
  <2> QED BY <1>3, <2>2, <2>3 DEF AnswerRecorded, SameEnding
<1>4. ASSUME NEW c \in Clerks, Answer(c, FALSE), Still, record' = record,
             late' \subseteq Endings, \A k \in late' : Recorded(k)
      PROVE  EndingInv'
  BY <1>1, <1>4, Answered
<1>5. ASSUME NEW c \in Clerks, Lookup(c)
      PROVE  EndingInv'
  <2>1. /\ step[c] = "lookup" /\ Still /\ UNCHANGED <<record, late>>
        /\ late \subseteq Endings /\ \A k \in late : Recorded(k)
    BY <1>5 DEF Lookup, LedgerInv, LedgerTypes, CallsAreRecorded
  <2>2. CASE record # NoRecord
    BY <1>3, <1>5, <2>1, <2>2 DEF Lookup
  <2>3. CASE Answer(c, FALSE)
    BY <1>4, <2>1, <2>3
  <2>4. CASE /\ MayEnd(ending[c], terms[c])
             /\ step' = [step EXCEPT ![c] = "pay"] /\ UNCHANGED <<ending, terms, call, told>>
    <3>1. MarketInv' /\ \A w : Stands(w)' = Stands(w) /\ Recorded(w)' = Recorded(w)
      BY <1>1, <2>1 DEF Stands, Recorded
    <3>2. TermsHold'
      BY <2>1, <2>4, <3>1 DEF LedgerInv, LedgerTypes, TermsHold, MayPayOut, MayEnd, MayRefund
    <3>3. LedgerTypes' /\ CallsAreRecorded' /\ RecordStands' /\ AnswersHold'
      BY <1>1, <2>1, <2>4, <3>1
      DEF LedgerInv, LedgerTypes, CallsAreRecorded, RecordStands, AnswersHold, Recorded
    <3> QED BY <3>1, <3>2, <3>3 DEF LedgerInv
  <2> QED BY <1>5, <2>2, <2>3, <2>4 DEF Lookup
<1>6. ASSUME NEW c \in Clerks, NEW new \in [kind: Endings, winner: Winners], EndBook(c, new),
             new.kind = ending[c], new.kind = "settle" => new.winner = terms[c].winner
      PROVE  EndingInv'
  <2>1. step[c] = "pay" /\ Still /\ late' = late
    BY <1>6 DEF EndBook
  <2>2. CASE record # NoRecord
    BY <1>3, <1>6, <2>1, <2>2 DEF EndBook
  <2>3. CASE record = NoRecord
    <3>1. new.kind = "settle" => Stands(new.winner)
      BY <1>6, <2>1 DEF LedgerInv, TermsHold, MayEnd
    <3> QED BY <1>1, <1>6, <2>1, <2>3, <3>1, GoesToTell DEF EndBook
  <2> QED BY <2>2, <2>3
<1>7. ASSUME NEW c \in Clerks, PayOut(c)
      PROVE  EndingInv'
  <2>1. step[c] = "pay" /\ terms[c] \in Terms
    BY <1>7 DEF PayOut, EndBook, LedgerInv, TermsHold
  <2>2. [kind |-> "settle", winner |-> terms[c].winner] \in [kind: Endings, winner: Winners]
    BY <2>1 DEF Terms, Winners, Endings
  <2> QED BY <1>6, <1>7, <2>2 DEF PayOut
<1>8. ASSUME NEW c \in Clerks, Refund(c)
      PROVE  EndingInv'
  <2>1. [kind |-> "void", winner |-> NoOutcome] \in [kind: Endings, winner: Winners]
    BY DEF Winners, Endings
  <2> QED BY <1>6, <1>8, <2>1 DEF Refund
<1>9. ASSUME NEW c \in Clerks, Tell(c)
      PROVE  EndingInv'
  <2>1. /\ Still /\ UNCHANGED <<record, ending, terms, late, told>> /\ step[c] = "tell"
        /\ step' = [step EXCEPT ![c] = "wait"] /\ call' = [call EXCEPT ![c] = "sent"]
    BY <1>9 DEF Tell
  <2>2. MarketInv' /\ \A w : Stands(w)' = Stands(w) /\ Recorded(w)' = Recorded(w)
    BY <1>1, <2>1 DEF Stands, Recorded
  <2>3. LedgerTypes' /\ CallsAreRecorded' /\ RecordStands' /\ AnswersHold'
    BY <1>1, <2>1, <2>2
    DEF LedgerInv, LedgerTypes, CallsAreRecorded, RecordStands, AnswersHold, Recorded
  <2>4. TermsHold'
    BY <2>1, <2>2 DEF LedgerInv, LedgerTypes, TermsHold, MayPayOut, MayEnd, MayRefund
  <2> QED BY <2>2, <2>3, <2>4 DEF LedgerInv
<1>10. ASSUME NEW c \in Clerks, Hear(c)
       PROVE  EndingInv'
  <2>1. /\ call[c] \in {"ok", "refused"} /\ Answer(c, call[c] = "ok") /\ Still
        /\ UNCHANGED <<record, late>> /\ late \subseteq Endings /\ \A k \in late : Recorded(k)
    BY <1>10 DEF Hear, IsConfirmed, LedgerInv, LedgerTypes, CallsAreRecorded
  <2>2. call[c] = "ok" => record # NoRecord /\ row.status = Ended(record.kind)
    BY <2>1 DEF LedgerInv, CallsAreRecorded, AnswersHold, Recorded
  <2>3. LedgerInv'
    <3> DEFINE done == call[c] = "ok"
    <3>1. done \in BOOLEAN /\ Answer(c, done)
      BY <2>1
    <3> HIDE DEF done
    <3>2. done => record # NoRecord /\ row.status = Ended(record.kind)
      BY <2>2 DEF done
    <3> QED BY <1>1, <2>1, <3>1, <3>2, Answered
  <2> QED BY <1>1, <2>1, <2>3
<1>11. ASSUME NEW c \in Clerks, GiveUp(c)
       PROVE  EndingInv'
  <2>1. /\ Still /\ record' = record /\ Answer(c, FALSE)
        /\ late' = IF call[c] = "sent" THEN late \cup {ending[c]} ELSE late
    BY <1>11 DEF GiveUp
  <2>2. late' \subseteq Endings /\ \A k \in late' : Recorded(k)
    BY <2>1 DEF LedgerInv, LedgerTypes, CallsAreRecorded
  <2> QED BY <1>4, <2>1, <2>2
<1>12. ASSUME NEW k \in Endings, TakeStep(k), Recorded(k)
       PROVE  /\ MarketInv' /\ Kept /\ EndsRecorded
              /\ Accepts(StepRequest(k), 0, clock) \/ Repeats(StepRequest(k)) =>
                   row'.status = Ended(k)
  BY <1>12, StepWrites DEF EndsRecorded, Ended, Endings, Final
<1>13. ASSUME NEW c \in Clerks, Deliver(c)
       PROVE  EndingInv'
  <2>1. /\ call[c] = "sent" /\ TakeStep(ending[c]) /\ ending[c] \in Endings
        /\ UNCHANGED <<record, step, ending, terms, late, told>>
        /\ call' = [call EXCEPT ![c] =
             IF Accepts(StepRequest(ending[c]), 0, clock) \/ Repeats(StepRequest(ending[c]))
             THEN "ok" ELSE "refused"]
    BY <1>13 DEF Deliver, LedgerInv, LedgerTypes
  <2>2. Recorded(ending[c])
    BY <2>1 DEF LedgerInv, CallsAreRecorded
  <2>3. /\ MarketInv' /\ Kept /\ EndsRecorded
        /\ Accepts(StepRequest(ending[c]), 0, clock) \/ Repeats(StepRequest(ending[c])) =>
             row'.status = Ended(ending[c])
    BY <1>12, <2>1, <2>2
  <2>4. call' \in [Clerks -> {"none", "sent", "ok", "refused"}]
        /\ (call'[c] = "ok" => row'.status = Ended(ending[c])) /\ call'[c] # "none"
        /\ \A d \in Clerks \ {c} : call'[d] = call[d]
    BY <2>1, <2>3 DEF LedgerInv, LedgerTypes
  <2>5. LedgerTypes' /\ \A k : Recorded(k)' = Recorded(k)
    BY <2>1, <2>4 DEF LedgerInv, LedgerTypes, Recorded
  <2>6. TermsHold'
    BY <2>1, <2>3 DEF LedgerInv, TermsHold, MayPayOut, MayEnd, MayRefund, Kept, Terms, Winners
  <2>7. CallsAreRecorded'
    BY <2>1, <2>4, <2>5 DEF LedgerInv, CallsAreRecorded
  <2>8. RecordStands'
    BY <2>1, <2>3, <2>5
    DEF LedgerInv, LedgerTypes, RecordStands, Kept, EndsRecorded, Recorded
  <2>9. AnswersHold'
    BY <2>1, <2>3, <2>4 DEF LedgerInv, AnswersHold, Kept, Ended, Final
  <2> QED BY <2>3, <2>5, <2>6, <2>7, <2>8, <2>9 DEF LedgerInv
<1>14. ASSUME NEW k \in Endings, DeliverLate(k)
       PROVE  EndingInv'
  <2>1. TakeStep(k) /\ UNCHANGED ledger /\ Recorded(k)
    BY <1>14 DEF DeliverLate, LedgerInv, CallsAreRecorded
  <2> QED BY <1>12, <2>1, MarketMoves
<1>15. ASSUME NEW k \in Endings, LoseLate(k)
       PROVE  EndingInv'
  <2>1. Still /\ UNCHANGED <<record, clerk>> /\ late' \subseteq late
    BY <1>15 DEF LoseLate
  <2>2. MarketInv' /\ \A w : Stands(w)' = Stands(w) /\ Recorded(w)' = Recorded(w)
    BY <1>1, <2>1 DEF Stands, Recorded
  <2>3. LedgerInv'
    BY <1>1, <2>1, <2>2 DEF LedgerInv, LedgerTypes, TermsHold, CallsAreRecorded, RecordStands,
       AnswersHold, clerk, MayPayOut, MayEnd, MayRefund, Recorded
  <2> QED BY <2>2, <2>3
<1> QED
  BY <1>2, <1>5, <1>7, <1>8, <1>9, <1>10, <1>11, <1>13, <1>14, <1>15 DEF LedgerNext

----------------------------------------------------------------------------
(* The theorems *)

LEMMA EndingInit ==
  ASSUME InitEnding
  PROVE  EndingInv
<1>1. row = ClosedMarket /\ ClosedMarket \in Row /\ ClosedMarket.status = "closed"
  <2>1. NoOutcome \in Winners /\ NoOne \in Administrators \cup {NoOne}
        /\ {"none", "closed"} \subseteq Statuses /\ 0 \in Nat /\ 1 \in Nat /\ 2 \in Nat
    BY DEF Winners, Statuses
  <2>2. NoRow \in Row
    BY <2>1 DEF NoRow, Row
  <2>3. ClosedMarket \in Row
    BY <2>1, <2>2, Zenon DEF ClosedMarket, Row
  <2>4. ClosedMarket.status = "closed"
    BY DEF ClosedMarket, NoRow
  <2> QED BY <2>3, <2>4 DEF InitEnding
<1>2. MarketInv
  BY <1>1, LifecycleAssumption DEF InitEnding, MarketInv, Resolving
<1>3. LedgerInv
  BY <1>1 DEF InitEnding, LedgerInv, LedgerTypes, TermsHold, CallsAreRecorded, RecordStands,
     AnswersHold, Recorded, Endings, Ended
<1> QED BY <1>2, <1>3 DEF EndingInv

LEMMA EndingStep ==
  ASSUME EndingInv, [EndingNext]_endingVars
  PROVE  EndingInv'
<1>1. CASE LedgerNext
  BY <1>1, LedgerStep
<1>2. CASE MarketNext
  <2>1. MarketInv' /\ Kept /\ (row'.status \in Final => row'.status = row.status)
    BY <1>2, MarketStep DEF EndingInv, MarketNext
  <2>2. EndsRecorded
    BY <2>1 DEF EndsRecorded, Ended, Final, EndingInv
  <2> QED BY <1>2, <2>1, <2>2, MarketMoves DEF EndingInv, MarketNext
<1>3. CASE UNCHANGED endingVars
  <2>1. /\ row' = row /\ minted' = minted /\ clock' = clock /\ rowLock' = rowLock
        /\ pc' = pc /\ req' = req /\ quote' = quote /\ at' = at /\ UNCHANGED ledger
    BY <1>3 DEF endingVars, vars, market, handler
  <2>2. \A w \in Workers : Accepts(req[w], quote[w], at[w]) => Accepts(req[w], quote[w], at[w])'
    BY <2>1, ChecksKeep
  <2>3. MarketInv'
    BY <2>1, <2>2 DEF EndingInv, MarketInv
  <2>4. clock \in Nat
    BY DEF EndingInv, MarketInv
  <2>5. Kept /\ EndsRecorded
    BY <2>1, <2>4, QuietKeeps DEF EndingInv, EndsRecorded
  <2> QED BY <2>1, <2>3, <2>5, MarketMoves DEF EndingInv
<1> QED BY <1>1, <1>2, <1>3 DEF EndingNext

LEMMA EndingInductive == EndingSpec => []EndingInv
BY EndingInit, EndingStep, PTL DEF EndingSpec

\* For every Gap that covers the clocks' difference and a stalled handler, the
\* outcome settlement paid is the outcome market_service keeps: a send-back
\* that read its clock inside the dispute window has committed, or died,
\* before any terms admit a payment.
THEOREM PaidOutcomeStands == EndingSpec => []PaysWhatStands
<1>1. EndingInv => PaysWhatStands
  BY DEF EndingInv, LedgerInv, RecordStands, Recorded, Stands, PaysWhatStands, Ended, Endings
<1> QED BY <1>1, EndingInductive, PTL

\* market_service never tells an ending the ledger has not recorded, nor the
\* other one, whatever calls arrive and however late.
THEOREM EndingsAgree == EndingSpec => []ServicesAgree
<1>1. EndingInv => ServicesAgree
  BY DEF EndingInv, LedgerInv, RecordStands, Recorded, Stands, ServicesAgree, Ended, Endings
<1> QED BY <1>1, EndingInductive, PTL

\* Once an administrator has been told it is done, both services say so, and
\* no later request changes it.
THEOREM DoneStaysDone == EndingSpec => []DoneMeansDone
<1>1. EndingInv => DoneMeansDone
  BY DEF EndingInv, LedgerInv, AnswersHold, DoneMeansDone, Ended
<1> QED BY <1>1, EndingInductive, PTL

===============================================================================
