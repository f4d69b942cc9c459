------------------------------- MODULE Ending -------------------------------
(***************************************************************************)
(* How a market ends across two services.  An administrator's settle or void *)
(* request reads the market's terms from market_service, moves the money and *)
(* records the ending in ledger_service in one commit, and then tells        *)
(* market_service (service/settlement.py, service/voiding.py,                *)
(* service/market_terms.py), while other administrators still propose,       *)
(* approve, reject and send back.  Nothing joins the two commits: a request  *)
(* dies anywhere, a call is lost or arrives late, and an answer is lost.     *)
(*                                                                          *)
(* The commit under the book lock is one step (OrderBook and Posting have    *)
(* its inside); so is market_service's settle or void step.  A direct call   *)
(* to those steps, which ADR 0025 accepts, is left out.                      *)
(***************************************************************************)
EXTENDS MarketLifecycle

CONSTANTS
  Clerks,   \* administrators' requests in ledger_service
  Skew,     \* bound: how far market_service's Python clock is from Postgres's
  NoTerms, NoRecord

ASSUME EndingAssumption ==
  /\ Skew \in Nat /\ Skew + Stall <= Gap
  /\ \A r \in Requests : r.kind \notin {"settle", "void"}
  /\ NoRecord \notin [kind: {"settle", "void"}, winner: Outcomes \cup {NoOutcome}]

Endings == {"settle", "void"}

VARIABLES
  record,  \* the market's row in market_results
  step,    \* each clerk's next step
  ending,  \* settle or void
  terms,   \* what market_service answered about the market
  call,    \* its call to market_service's last step: sent, then answered
  late,    \* calls whose caller has gone and that may still arrive
  told     \* whether its administrator was last told it is done

clerk == <<step, ending, terms, call, told>>
ledger == <<record, clerk, late>>

----------------------------------------------------------------------------
(* What the ledger allows *)

\* public_market, through market_status.read_terms: the flags are on the
\* request's own clock, off from the database's by off.
TermsAt(now) ==
  [status |-> row.status, winner |-> row.winner,
   settleable |-> IsSettleable(now), voidable |-> IsVoidable(now)]

\* _refuse_if_not_settleable
MayPayOut(t) ==
  \/ t.status = "settled"
  \/ t.status = "approved" /\ t.settleable

\* _refuse_if_not_voidable
MayRefund(t) == t.status # "settled" /\ t.voidable

MayEnd(k, t) == IF k = "settle" THEN MayPayOut(t) ELSE MayRefund(t)

\* Mutation: a settlement does not ask what kind of record it found.
AnyRecord(k) == TRUE

\* _refuse_if_voided, _answer_recorded: only the same ending is answered again.
SameEnding(k) == record.kind = k

\* Mutation: a conflict is taken for an ending already marked.
OkOrConflict(answer) == answer \in {"ok", "refused"}

\* _confirm: only a 200 is done.
IsConfirmed(answer) == answer = "ok"

----------------------------------------------------------------------------

\* A market published at 1 that closed at 2, its result not yet proposed.
ClosedMarket ==
  [NoRow EXCEPT !.status = "closed", !.closeTime = 2, !.publishedAt = 1, !.closedAt = 2]

InitEnding ==
  /\ row = ClosedMarket /\ log = <<>> /\ minted = 0
  /\ clock = 2
  /\ rowLock = NoOne
  /\ pc = [w \in Workers |-> "idle"]
  /\ req = [w \in Workers |-> NoRequest]
  /\ quote = [w \in Workers |-> 0]
  /\ at = [w \in Workers |-> 0]
  /\ record = NoRecord
  /\ step = [c \in Clerks |-> "idle"]
  /\ ending = [c \in Clerks |-> "settle"]
  /\ terms = [c \in Clerks |-> NoTerms]
  /\ call = [c \in Clerks |-> "none"]
  /\ late = {}
  /\ told = [c \in Clerks |-> FALSE]

\* The clerk's request is over, and its administrator is told it is done or not.
Answer(c, done) ==
  /\ step' = [step EXCEPT ![c] = "idle"]
  /\ ending' = [ending EXCEPT ![c] = "settle"]
  /\ terms' = [terms EXCEPT ![c] = NoTerms]
  /\ call' = [call EXCEPT ![c] = "none"]
  /\ told' = [told EXCEPT ![c] = done]

\* A new request: the terms come before anything else.
ReadTerms(c, k, off) ==
  /\ step[c] = "idle"
  /\ step' = [step EXCEPT ![c] = "lookup"]
  /\ ending' = [ending EXCEPT ![c] = k]
  /\ terms' = [terms EXCEPT ![c] = TermsAt(clock + off)]
  /\ told' = [told EXCEPT ![c] = FALSE]
  /\ UNCHANGED <<vars, record, call, late>>

\* The terms have served; only the ending is told.
GoTell(c) ==
  /\ step' = [step EXCEPT ![c] = "tell"]
  /\ terms' = [terms EXCEPT ![c] = NoTerms]
  /\ UNCHANGED <<ending, call, told>>

\* Mutation: a repeat answers from the record and tells market_service nothing.
ToldAlready(c) == Answer(c, TRUE)

\* _replay, _repeat: write nothing, and tell market_service again.
TellAgain(c) == GoTell(c)

AnswerRecorded(c) ==
  IF SameEnding(ending[c]) THEN TellAgain(c) ELSE Answer(c, FALSE)

\* The unlocked lookup, and only on a miss the status.
Lookup(c) ==
  /\ step[c] = "lookup"
  /\ IF record # NoRecord THEN AnswerRecorded(c)
     ELSE IF ~MayEnd(ending[c], terms[c]) THEN Answer(c, FALSE)
     ELSE /\ step' = [step EXCEPT ![c] = "pay"]
          /\ UNCHANGED <<ending, terms, call, told>>
  /\ UNCHANGED <<vars, record, late>>

\* Under the book lock: the record again, then the money and the record, once.
EndBook(c, new) ==
  /\ step[c] = "pay"
  /\ IF record # NoRecord
     THEN AnswerRecorded(c) /\ UNCHANGED record
     ELSE /\ record' = new
          /\ GoTell(c)
  /\ UNCHANGED <<vars, late>>

PayOut(c) ==
  /\ ending[c] = "settle"
  /\ EndBook(c, [kind |-> "settle", winner |-> terms[c].winner])

Refund(c) ==
  /\ ending[c] = "void"
  /\ EndBook(c, [kind |-> "void", winner |-> NoOutcome])

\* mark_settled, mark_voided
Tell(c) ==
  /\ step[c] = "tell"
  /\ step' = [step EXCEPT ![c] = "wait"]
  /\ call' = [call EXCEPT ![c] = "sent"]
  /\ UNCHANGED <<vars, record, ending, terms, late, told>>

\* market_service's step for the ending k, by the caller's own token.
StepRequest(k) == [kind |-> k, by |-> Creator, time |-> 0, winner |-> NoOutcome]

TakeStep(k) ==
  /\ rowLock = NoOne
  /\ IF Accepts(StepRequest(k), 0, clock) THEN Write(StepRequest(k), clock) ELSE UNCHANGED market
  /\ UNCHANGED <<clock, handler>>

Deliver(c) ==
  /\ call[c] = "sent"
  /\ TakeStep(ending[c])
  /\ call' = [call EXCEPT ![c] =
       IF Accepts(StepRequest(ending[c]), 0, clock) \/ Repeats(StepRequest(ending[c]))
       THEN "ok" ELSE "refused"]
  /\ UNCHANGED <<record, step, ending, terms, late, told>>

\* A call left behind arrives after all; it stands for as many as were left.
DeliverLate(k) ==
  /\ k \in late
  /\ TakeStep(k)
  /\ UNCHANGED ledger

LoseLate(k) ==
  /\ k \in late
  /\ late' = late \ {k}
  /\ UNCHANGED <<vars, record, clerk>>

Hear(c) ==
  /\ call[c] \in {"ok", "refused"}
  /\ Answer(c, IsConfirmed(call[c]))
  /\ UNCHANGED <<vars, record, late>>

\* The call times out or the request dies: before the commit nothing was
\* written, and after it the record stands.
GiveUp(c) ==
  /\ step[c] # "idle"
  /\ late' = IF call[c] = "sent" THEN late \cup {ending[c]} ELSE late
  /\ Answer(c, FALSE)
  /\ UNCHANGED <<vars, record>>

LedgerNext ==
  \/ \E c \in Clerks :
       \/ \E k \in Endings, off \in -Skew..Skew : ReadTerms(c, k, off)
       \/ Lookup(c) \/ PayOut(c) \/ Refund(c) \/ Tell(c)
       \/ Deliver(c) \/ Hear(c) \/ GiveUp(c)
  \/ \E k \in Endings : DeliverLate(k) \/ LoseLate(k)

MarketNext == Next /\ UNCHANGED ledger

EndingNext == LedgerNext \/ MarketNext

endingVars == <<vars, ledger>>

EndingSpec == InitEnding /\ [][EndingNext]_endingVars

\* An administrator who was not told "done" repeats the recorded ending, as
\* SettlementUnconfirmed and VoidUnconfirmed ask, no step fails every time, and
\* time and the handlers that hold the row go on.
Repeat(c) ==
  /\ record # NoRecord
  /\ ReadTerms(c, record.kind, 0)

FairEnding ==
  /\ EndingSpec
  /\ WF_endingVars(Tick /\ UNCHANGED ledger)
  /\ \A s \in Sessions : WF_endingVars(Commit(s) /\ UNCHANGED ledger)
  /\ \A c \in Clerks :
       /\ SF_endingVars(Repeat(c))
       /\ SF_endingVars(record # NoRecord /\ SameEnding(ending[c]) /\ Lookup(c))
       /\ SF_endingVars(Tell(c)) /\ SF_endingVars(Deliver(c))
       /\ WF_endingVars(Lookup(c) \/ GiveUp(c))

----------------------------------------------------------------------------
(* What the two services must agree on *)

Terms == [status: Statuses, winner: Outcomes \cup {NoOutcome},
          settleable: BOOLEAN, voidable: BOOLEAN]

\* Every variable stays within its type, a request past the lookup was
\* admitted by the terms it carries, and a clerk that tells or waits has a
\* record of the ending it tells.
EndingTypeOK ==
  /\ TypeOK
  /\ record \in {NoRecord} \cup [kind: Endings, winner: Outcomes \cup {NoOutcome}]
  /\ record # NoRecord => (record.kind = "settle") = (record.winner # NoOutcome)
  /\ step \in [Clerks -> {"idle", "lookup", "pay", "tell", "wait"}]
  /\ ending \in [Clerks -> Endings]
  /\ terms \in [Clerks -> Terms \cup {NoTerms}]
  /\ call \in [Clerks -> {"none", "sent", "ok", "refused"}]
  /\ late \subseteq Endings
  /\ told \in [Clerks -> BOOLEAN]
  /\ \A c \in Clerks :
       /\ (terms[c] = NoTerms) = (step[c] \notin {"lookup", "pay"})
       /\ step[c] = "pay" => MayEnd(ending[c], terms[c])
       /\ step[c] \in {"tell", "wait"} => record # NoRecord /\ record.kind = ending[c]
       /\ call[c] # "none" => step[c] = "wait"

\* The outcome that was paid is the outcome that stands: no send-back that
\* read the clock inside the window commits after the payouts were made, for
\* all the difference between the clocks (ADR 0019's five-minute gap).
PaysWhatStands ==
  record # NoRecord /\ record.kind = "settle" =>
    row.status \in {"approved", "settled"} /\ row.winner = record.winner

\* market_service never says a market was settled that the ledger voided or
\* has not ended, nor voided that the ledger settled or has not ended, however
\* late a call arrives (ADR 0019, ADR 0025: the money moves first).
ServicesAgree ==
  /\ row.status = "settled" =>
       record # NoRecord /\ record.kind = "settle" /\ record.winner = row.winner
  /\ row.status = "voided" => record # NoRecord /\ record.kind = "void"

\* An administrator who is told it is done can believe it: both services say
\* so, and go on saying so.
DoneMeansDone ==
  \A c \in Clerks :
    told[c] =>
      /\ record # NoRecord
      /\ row.status = IF record.kind = "settle" THEN "settled" ELSE "voided"

\* A settlement whose last step failed is finished by repeating it
\* (SettlementUnconfirmed).  Bounded: if the clock reaches its opening.
SettlementFinishes ==
  (record # NoRecord /\ record.kind = "settle" /\ row.endsAt + Gap <= MaxClock)
    ~> row.status = "settled"

=============================================================================
