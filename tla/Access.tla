------------------------------- MODULE Access -------------------------------
(***************************************************************************)
(* What a request goes through before it does anything: the routes of the  *)
(* ledger, market, auth and audit services, the checks each makes, their   *)
(* order, and the statuses a ledger route declares.  Three services believe *)
(* the role in the access token until it expires; auth reads its own row; a *)
(* trade asks auth (ADR 0022) and then market_service (ADR 0017).  One      *)
(* account's requests are followed, some at the same time, while it is      *)
(* promoted, demoted and suspended, the market stops and ends, services     *)
(* fail to answer, replicas crash and clients repeat themselves.            *)
(*                                                                          *)
(* What a write does inside is in the other modules: here it happens, or is *)
(* refused with one of a set of codes.  A market's book and a user's grant   *)
(* are written by the first request that needs them, whatever it asks for,   *)
(* and that request may be refused afterwards.                              *)
(***************************************************************************)
EXTENDS Integers, Sequences

CONSTANTS
  Lifetime,   \* access_token_ttl_seconds
  LastClock   \* bound: the clock stops here

ASSUME AccessAssumption == Lifetime \in Nat \ {0} /\ LastClock \in Nat

----------------------------------------------------------------------------
(* The codes an answer may carry, by the check that gives it.               *)

InvalidToken == {"invalid_token"}
NotAnAdministrator == {"not_an_administrator"}
AccountSuspended == {"account_suspended"}
AuthUnavailable == {"auth_unavailable"}
IdempotencyKeyReused == {"idempotency_key_reused"}
MarketClosed == {"market_closed"}
MarketTermsUnavailable == {"market_terms_unavailable"}
MarketNotFound == {"market_not_found"}
MarketNotPublished == {"market_not_published"}
EndingRefusals == {"market_not_approved", "dispute_window_open", "market_not_voidable"}
AdminHasAStake == {"admin_has_a_stake"}
InsufficientFunds == {"insufficient_funds"}
PricingRefusals == {"insufficient_shares_outstanding", "quantity_too_large", "cost_below_tick",
                    "proceeds_below_tick", "unknown_outcome"}
TradeRefusals == {"insufficient_shares_held", "quote_stale"} \cup InsufficientFunds \cup PricingRefusals
OrderRefusals == {"order_crosses_book", "market_not_binary"} \cup (TradeRefusals \ {"quote_stale"})
CancelRefusals == {"order_not_found", "order_already_filled", "order_already_cancelled", "order_released"}
LeaderboardRefreshed == {"leaderboard_refreshed"}
ServerFaults == {"market_book_incomplete", "cascade_fill_refused", "price_history_inconsistent",
                 "void_replay_mismatch"}
\* market_service's and auth's own refusals of a write, and of a page.
MarketRefusals == {"refused_by_market_service"}
AccountRefusals == {"refused_by_auth"}
InvalidRequest == {"invalid_request"}
MalformedCursor == {"malformed_cursor"}

Done == {"done"}

Statuses == {200, 400, 401, 403, 404, 409, 422, 500, 503}

\* status_code of each error class.
StatusOf(code) ==
  CASE code = "done" -> 200
    [] code \in MalformedCursor -> 400
    [] code \in InvalidToken -> 401
    [] code \in NotAnAdministrator \cup AccountSuspended \cup AdminHasAStake -> 403
    [] code \in MarketNotFound \cup {"order_not_found"} -> 404
    [] code \in ServerFaults -> 500
    [] code \in AuthUnavailable \cup MarketTermsUnavailable \cup {"settlement_unconfirmed", "void_unconfirmed"} -> 503
    [] code \in InvalidRequest \cup (PricingRefusals \ {"insufficient_shares_outstanding"}) -> 422
    [] OTHER -> 409

----------------------------------------------------------------------------
(* The routes: the checks before each, in order, what it writes, and the    *)
(* statuses it declares.                                                    *)

Route(does, gates, declares) == [does |-> does, gates |-> gates, declares |-> declares]
Reads(gates, declares) == Route("read", gates, declares)

\* get_claims and require_admin; auth's own dependencies read the row.
CurrentUser == <<"token">>
CurrentAdmin == <<"token", "role">>
LiveUser == <<"token", "row">>
LiveAdmin == <<"token", "row", "row_role">>

\* The ledger.  A user's first read of their own money mints the grant before it
\* looks at anything else; an administrator's reads mint nothing.  The first
\* price of a market opens its book.
MyBalance == Reads(CurrentUser \o <<"find_grant", "mint">>, {401})
MyEntries == Reads(CurrentUser \o <<"shape", "find_grant", "mint", "cursor">>, {400, 401, 422})
MyPortfolio == Reads(CurrentUser \o <<"find_grant", "mint", "book_read">>, {401, 500})
UserBalance == Reads(CurrentAdmin \o <<"shape">>, {401, 403, 422})
UserEntries == Reads(CurrentAdmin \o <<"shape", "cursor">>, {400, 401, 403, 422})
MarketTrades == Reads(CurrentAdmin \o <<"shape", "cursor">>, {400, 401, 403, 422})
MarketExposure == Reads(CurrentAdmin \o <<"shape">>, {401, 403, 422})
PreviewTrade == Reads(CurrentUser \o <<"shape", "find_book", "open", "book_read", "price">>, {401, 404, 409, 422, 500, 503})
MarketSnapshot == Reads(CurrentUser \o <<"shape", "find_book", "open", "book_read">>, {401, 404, 422, 500, 503})
MarketSnapshots == Reads(CurrentUser \o <<"shape">>, {401, 422})
MyOrders == Reads(CurrentUser, {401})
TheLeaderboard == Reads(CurrentUser \o <<"shape", "cursor", "generation">>, {400, 401, 409, 422})
MarketPriceHistory == Reads(CurrentUser \o <<"shape", "history">>, {401, 422, 500})

\* The retry lookup comes before everything that may have changed since; the
\* first touches commit before the book is locked.
ReplayFirst == <<"replay", "account", "market", "find_book", "open", "find_grant", "mint", "book">>

\* Mutation: the market is asked about before the key is looked up.
GateFirst == <<"account", "market", "replay", "find_book", "open", "find_grant", "mint", "book">>

PreGate == ReplayFirst

ExecuteTrade == Route("trade", CurrentUser \o <<"shape">> \o PreGate, {401, 403, 404, 409, 422, 500, 503})
PlaceOrder == Route("order", CurrentUser \o <<"shape">> \o PreGate, {401, 403, 404, 409, 422, 500, 503})

CancelOrder == Route("cancel", CurrentUser \o <<"shape", "cancel">>, {401, 404, 409, 422})
CancelAnyOrder == Route("cancel", CurrentAdmin \o <<"shape", "cancel">>, {401, 403, 404, 409, 422})
SettleMarket == Route("settle", CurrentAdmin \o <<"shape", "terms", "record", "find_book", "open", "pay", "tell">>,
                      {401, 403, 404, 409, 422, 503})
VoidFlawedMarket == Route("void", CurrentAdmin \o <<"shape", "terms", "record", "find_book", "open", "pay", "tell">>,
                          {401, 403, 404, 409, 422, 500, 503})

\* market_service, auth and audit declare some of their answers only.
MarketWrite(does) == Route(does, CurrentAdmin \o <<"shape">>, Statuses)
SaveMarket == MarketWrite("save")
PublishMarket == MarketWrite("publish")
CloseMarketEarly == MarketWrite("close")
ProposeMarketOutcome == MarketWrite("propose")
ApproveMarketOutcome == MarketWrite("approve")
RejectMarketOutcome == MarketWrite("reject")
SendBackMarketOutcome == MarketWrite("send_back")
MarkMarketSettled == MarketWrite("mark_settled")
MarkMarketVoided == MarketWrite("mark_voided")
ListMarkets == Reads(CurrentAdmin, Statuses)
MarketOverview == Reads(CurrentAdmin \o <<"shape", "cursor">>, Statuses)
GetMarket == Reads(CurrentAdmin \o <<"shape", "found">>, Statuses)
BrowseMarkets == Reads(CurrentUser \o <<"shape", "cursor">>, Statuses)
GetPublicMarket == Reads(CurrentUser \o <<"shape", "found">>, Statuses)

Me == Reads(LiveUser, Statuses)
ListUsers == Reads(LiveAdmin \o <<"shape", "cursor">>, Statuses)
LookupUsers == Reads(LiveAdmin \o <<"shape">>, Statuses)
ChangeRole == Route("account", LiveAdmin \o <<"shape">>, Statuses)
SetSuspension == Route("account", LiveAdmin \o <<"shape">>, Statuses)
ListActions == Reads(CurrentAdmin \o <<"shape", "cursor">>, Statuses)

LedgerRoutes ==
  {MyBalance, MyEntries, MyPortfolio, UserBalance, UserEntries, MarketTrades, MarketExposure,
   PreviewTrade, MarketSnapshot, MarketSnapshots, MyOrders, TheLeaderboard, MarketPriceHistory,
   ExecuteTrade, PlaceOrder, CancelOrder, CancelAnyOrder, SettleMarket, VoidFlawedMarket}

OtherRoutes ==
  {SaveMarket, PublishMarket, CloseMarketEarly, ProposeMarketOutcome, ApproveMarketOutcome,
   RejectMarketOutcome, SendBackMarketOutcome, MarkMarketSettled, MarkMarketVoided, ListMarkets,
   MarketOverview, GetMarket, BrowseMarkets, GetPublicMarket, Me, ListUsers, LookupUsers, ChangeRole, SetSuspension, ListActions}

Routes == LedgerRoutes \cup OtherRoutes

MarketWrites == {"save", "publish", "close", "propose", "approve", "reject", "send_back", "mark_settled", "mark_voided"}
Endings == {"settle", "void"}
Keyed == {"trade", "order"}

FirstReads == {MyBalance, MyEntries, MyPortfolio}
FirstPrices == {PreviewTrade, MarketSnapshot}
AuthRoutes == {Me, ListUsers, LookupUsers, ChangeRole, SetSuspension}

\* What an account uses in one run of the model: routes of two sets share
\* nothing but the market's row and its record, a book and a grant, which others
\* write meanwhile.
Uses ==
  {{ExecuteTrade}, {PlaceOrder}, {CancelOrder, CancelAnyOrder}, {SettleMarket, VoidFlawedMarket},
   {r \in Routes : r.does \in MarketWrites}, FirstReads, FirstPrices, AuthRoutes,
   {r \in Routes : r.does = "read"} \ (FirstReads \cup FirstPrices \cup AuthRoutes)}

\* What a market write makes of the market, as far as a request can tell.
Moves(does) ==
  CASE does = "publish" -> {<<"draft", "trading">>}
    [] does = "close" -> {<<"trading", "stopped">>}
    [] does = "approve" -> {<<"stopped", "approved">>}
    [] does = "send_back" -> {<<"approved", "stopped">>}
    [] does = "mark_settled" -> {<<"approved", "ended">>}
    [] does = "mark_voided" -> {<<"stopped", "ended">>, <<"approved", "ended">>}
    [] OTHER -> {<<m, m>> : m \in {"draft", "trading", "stopped", "approved"}}

----------------------------------------------------------------------------
VARIABLES
  uses,     \* the routes the account uses
  clock,
  account,  \* auth's row: is it an administrator's, is it suspended
  lost,     \* when the role and the standing were last lost
  token,    \* the access token the client holds: its role claim and expiry
  market,   \* market_service's row
  record,   \* the ledger's market_results row: "none", "settle" or "void"
  resting,  \* a resting order of the account's
  written,  \* what each key names: the account's trade, order and grant, and the
            \* market's opening
  request   \* the request under way, or its answer

accessVars == <<uses, clock, account, lost, token, market, record, resting, written, request>>
\* A key names nothing yet, what the followed request asks with it, or something
\* else: another body, and for the grant another process's amount.
Unwritten == 0
Own == 1
Another == 2

world == <<uses, clock, account, lost, token, market, record, resting, written>>

Never == LastClock + 1

Idle == [does |-> "nothing", left |-> <<>>, declares |-> {}, admin |-> FALSE, token |-> [admin |-> FALSE, until |-> 0],
         lacked |-> {}, overdue |-> {}, again |-> FALSE, had |-> {}, missed |-> {}, terms |-> "unread",
         wrote |-> {}, answer |-> {}]

InitAccess ==
  /\ uses \in Uses
  /\ clock = 0
  /\ account = [admin |-> FALSE, suspended |-> FALSE]
  /\ lost = [role |-> -Lifetime, standing |-> Never]
  /\ token = [admin |-> FALSE, until |-> Lifetime]
  /\ record = "none"
  /\ resting \in (IF CancelOrder \in uses THEN {"none", "open"} ELSE {"none"})
  /\ market = (IF resting = "none" THEN "draft" ELSE "trading")
  /\ LET touched == IF resting = "none" THEN Unwritten ELSE Own IN
       written = [trade |-> Unwritten, order |-> Unwritten, grant |-> touched, book |-> touched]
  /\ request = Idle

UnderWay == request.does # "nothing" /\ request.answer = {}
At(gate) == UnderWay /\ request.left # <<>> /\ Head(request.left) = gate
Passes == request' = [request EXCEPT !.left = Tail(@)]
Answers(codes) == request' = [request EXCEPT !.left = <<>>, !.token = Idle.token, !.missed = {}, !.terms = "unread", !.answer = codes]
\* The write that was asked for.
Commits == request' = [request EXCEPT !.left = Tail(@), !.wrote = @ \cup {"asked"}]
Serves == request' = [request EXCEPT !.left = <<>>, !.token = Idle.token, !.missed = {}, !.wrote = @ \cup {"asked"}, !.answer = Done]

\* What the account lacks, and what it has lacked for an access token's life.
Lacking == {a \in {"role", "standing"} : lost[a] # Never}
Overdue == {a \in Lacking : lost[a] + Lifetime <= clock}

\* What the first request that needs it writes, and every later one finds.
FirstTouches == {"book", "grant"}
Touched == {first \in FirstTouches : written[first] # Unwritten}

\* What a repeat would repeat.
HasHappened(does) ==
  \/ does \in Keyed /\ written[does] # Unwritten
  \/ does \in Endings /\ record = does
  \/ does = "cancel" /\ resting = "cancelled"

Begin(route) ==
  /\ request = Idle
  /\ request' =
       [Idle EXCEPT !.does = route.does, !.left = route.gates, !.declares = route.declares,
          !.admin = (\E i \in DOMAIN route.gates : route.gates[i] = "role"), !.token = token,
          !.lacked = Lacking, !.overdue = Overdue, !.again = HasHappened(route.does),
          !.had = Touched]
  /\ UNCHANGED world

----------------------------------------------------------------------------
(* The checks.                                                              *)

\* decode_access_token: exp is compared with the clock.
IsValid == clock < request.token.until

GetClaims ==
  /\ At("token")
  /\ IF IsValid THEN Passes ELSE Answers(InvalidToken)
  /\ UNCHANGED world

RequireAdmin ==
  /\ At("role")
  /\ IF request.token.admin THEN Passes ELSE Answers(NotAnAdministrator)
  /\ UNCHANGED world

\* auth's own dependencies look at the row, and never at the claim.
GetCurrentUser ==
  /\ At("row")
  /\ IF account.suspended THEN Answers(AccountSuspended) ELSE Passes
  /\ UNCHANGED world

RequireLiveAdmin ==
  /\ At("row_role")
  /\ IF account.admin THEN Passes ELSE Answers(NotAnAdministrator)
  /\ UNCHANGED world

\* The framework's own refusals, and the two cursor decoders'.
Validate ==
  /\ \/ At("shape") /\ (Passes \/ Answers(InvalidRequest))
     \/ At("cursor") /\ (Passes \/ Answers(MalformedCursor))
  /\ UNCHANGED world

\* One key names one body: the same is answered again, another refused.
AnsweredFor == IF written[request.does] = Own THEN Done ELSE IdempotencyKeyReused

ReplayIfPresent ==
  /\ At("replay")
  /\ IF written[request.does] # Unwritten THEN Answers(AnsweredFor) ELSE Passes
  /\ UNCHANGED world

\* Mutation: no answer counts as a good one.
RefuseIfSuspendedUnlessSilent ==
  /\ At("account")
  /\ \/ ~account.suspended /\ IsValid /\ Passes
     \/ account.suspended /\ IsValid /\ Answers(AccountSuspended)
     \/ ~IsValid /\ Answers(InvalidToken)
     \/ Passes
  /\ UNCHANGED world

\* auth's GET /auth/me with the trader's own token; fails closed.
RefuseIfSuspended ==
  /\ At("account")
  /\ \/ ~account.suspended /\ IsValid /\ Passes
     \/ account.suspended /\ IsValid /\ Answers(AccountSuspended)
     \/ ~IsValid /\ Answers(InvalidToken)
     \/ Answers(AuthUnavailable)
  /\ UNCHANGED world

\* The public read shows a market in every later status, and publishing is
\* what stamps it.
IsPublic == market # "draft"
IsPublished == market # "draft"

\* market_service is asked with the same token, which may just have expired.
\* A process answers a 404 it remembers without asking: BookOpening has for how
\* long, here it may be heard at any time.
TermsRefused ==
  \/ Answers(MarketTermsUnavailable)
  \/ ~IsValid /\ Answers(InvalidToken)
  \/ Answers(MarketNotFound)

TermsRead == IsValid /\ IsPublic

EnsureTrading ==
  /\ At("market")
  /\ \/ TermsRefused
     \/ TermsRead /\ (IF market = "trading" THEN Passes ELSE Answers(MarketClosed))
  /\ UNCHANGED world

AskTerms ==
  /\ At("terms")
  /\ \/ TermsRefused
     \/ TermsRead /\ request' = [request EXCEPT !.left = Tail(@), !.terms = market]
  /\ UNCHANGED world

\* What the prices of a read can run into.
ReadBook ==
  /\ \/ At("book_read") /\ (Passes \/ Answers({"market_book_incomplete"}))
     \/ At("price") /\ (Passes \/ Answers(PricingRefusals))
     \/ At("history") /\ (Passes \/ Answers({"price_history_inconsistent"}))
     \/ At("generation") /\ (Passes \/ Answers(LeaderboardRefreshed))
     \/ At("found") /\ (IF market = "draft" THEN Answers(MarketNotFound) ELSE Passes)
  /\ UNCHANGED world

----------------------------------------------------------------------------
(* The writes.                                                              *)

\* A first touch looks first, with no lock; what it missed may have been written
\* by the time it writes.
LooksFor(first) ==
  /\ request' = [request EXCEPT !.left = Tail(@), !.missed = IF written[first] = Unwritten THEN @ \cup {first} ELSE @]
  /\ UNCHANGED world

\* Mutation: the grant's legs are built on every read.
MissesGrant ==
  /\ At("find_grant")
  /\ request' = [request EXCEPT !.left = Tail(@), !.missed = @ \cup {"grant"}]
  /\ UNCHANGED world

FindBook == At("find_book") /\ LooksFor("book")
FindGrant == At("find_grant") /\ LooksFor("grant")

\* It commits on its own, before the rest of the request; the loser of a race
\* takes what the winner wrote.
Touches(first) ==
  /\ request' = [request EXCEPT !.left = Tail(@), !.wrote = IF written[first] = Unwritten THEN @ \cup {first} ELSE @]
  /\ written' = [written EXCEPT ![first] = IF @ = Unwritten THEN Own ELSE @]

\* A book that was found is used with no call; else market_service is asked.
OpenBook ==
  /\ At("open")
  /\ \/ "book" \notin request.missed /\ Passes /\ UNCHANGED written
     \/ "book" \in request.missed /\ TermsRefused /\ UNCHANGED written
     \/ /\ "book" \in request.missed /\ TermsRead
        /\ IF IsPublished THEN Touches("book") ELSE Answers(MarketNotPublished) /\ UNCHANGED written
  /\ UNCHANGED <<uses, clock, account, lost, token, market, record, resting>>

\* The amount is the process's STARTING_CREDITS, which a restart may change:
\* two processes may mint different ones for one new user.
MintGrant ==
  /\ At("mint")
  /\ \/ "grant" \notin request.missed /\ Passes /\ UNCHANGED written
     \/ /\ "grant" \in request.missed
        /\ IF written.grant = Another THEN Answers(IdempotencyKeyReused) /\ UNCHANGED written ELSE Touches("grant")
  /\ UNCHANGED <<uses, clock, account, lost, token, market, record, resting>>

\* Under the book lock: the key again, then the latch, then the money.
PostTrade ==
  LET does == request.does IN
  /\ At("book")
  /\ \/ /\ written[does] # Unwritten
        /\ Answers(AnsweredFor)
        /\ UNCHANGED <<written, resting>>
     \/ /\ written[does] = Unwritten /\ record # "none"
        /\ Answers(MarketClosed)
        /\ UNCHANGED <<written, resting>>
     \/ /\ written[does] = Unwritten /\ record = "none"
        /\ Answers(ServerFaults \cup (IF does = "trade" THEN TradeRefusals ELSE OrderRefusals))
        /\ UNCHANGED <<written, resting>>
     \/ /\ written[does] = Unwritten /\ record = "none"
        /\ Serves
        /\ written' = [written EXCEPT ![does] = Own]
        /\ UNCHANGED resting
  /\ UNCHANGED <<uses, clock, account, lost, token, market, record>>

Cancel ==
  /\ At("cancel")
  /\ IF resting = "open" /\ record = "none"
     THEN Serves /\ resting' = "cancelled"
     ELSE /\ Answers(CASE resting = "none" -> {"order_not_found"}
                          [] resting = "filled" -> {"order_already_filled"}
                          [] resting = "cancelled" -> {"order_already_cancelled"}
                          [] OTHER -> {"order_released"})
          /\ UNCHANGED resting
  /\ UNCHANGED <<uses, clock, account, lost, token, market, record, written>>

\* The other ending has been recorded, or market_service reports it.
OtherEnding == {IF request.does = "settle" THEN "market_already_voided" ELSE "market_already_settled"}

FindResult ==
  LET r == request IN
  /\ At("record")
  /\ \/ record = r.does /\ request' = [request EXCEPT !.left = <<"tell">>]
     \/ record \notin {"none", r.does} /\ Answers(OtherEnding)
     \/ /\ record = "none"
        /\ \/ r.terms = "ended" /\ Answers(OtherEnding)
           \/ Answers(EndingRefusals)
           \/ r.terms \in (IF r.does = "settle" THEN {"approved"} ELSE {"stopped", "approved"}) /\ Passes
  /\ UNCHANGED world

\* Under the book lock: the record again, and the money with it.
PayOut ==
  LET r == request IN
  /\ At("pay")
  /\ \/ record = r.does /\ Passes /\ UNCHANGED record
     \/ record \notin {"none", r.does} /\ Answers(OtherEnding) /\ UNCHANGED record
     \/ /\ record = "none"
        /\ \/ Answers(IF r.does = "void" THEN AdminHasAStake \cup {"void_replay_mismatch"}
                                            ELSE MarketTermsUnavailable)
              /\ UNCHANGED record
           \/ Commits /\ record' = r.does
  /\ UNCHANGED <<uses, clock, account, lost, token, market, resting, written>>

\* After the commit, and again on every repeat: market_service is told.
Confirm ==
  LET r == request IN
  /\ At("tell")
  /\ \/ Answers({IF r.does = "settle" THEN "settlement_unconfirmed" ELSE "void_unconfirmed"}) /\ UNCHANGED market
     \/ IsValid /\ Answers(Done) /\ market' = "ended"
  /\ UNCHANGED <<uses, clock, account, lost, token, record, resting, written>>

Finished == UnderWay /\ request.left = <<>>

\* The writes with nothing left to check, and the end of every read.
AmendMarket ==
  /\ Finished /\ request.does \in MarketWrites
  /\ \/ Answers(MarketRefusals) /\ UNCHANGED market
     \/ \E move \in Moves(request.does) : market = move[1] /\ market' = move[2] /\ Serves
  /\ UNCHANGED <<uses, clock, account, lost, token, record, resting, written>>

AmendAccount ==
  /\ Finished /\ request.does = "account"
  /\ Answers(AccountRefusals) \/ Serves
  /\ UNCHANGED world

AnswerRead ==
  /\ Finished /\ request.does = "read"
  /\ Answers(Done)
  /\ UNCHANGED world

\* The answer arrives; or the replica dies under the request.
Receive ==
  /\ request.does # "nothing"
  /\ request' = Idle
  /\ UNCHANGED world

----------------------------------------------------------------------------
(* The rest of the world.                                                   *)

Meets(gate) == \E route \in uses : \E i \in DOMAIN route.gates : route.gates[i] = gate

Regained(a) == request' = IF UnderWay THEN [request EXCEPT !.lacked = @ \ {a}] ELSE request

\* auth mints from the row, and refuses a suspended account.
Refresh ==
  /\ ~account.suspended
  /\ token' = [admin |-> account.admin, until |-> clock + Lifetime]
  /\ UNCHANGED <<uses, clock, account, lost, market, record, resting, written, request>>

\* Where some route looks at the role.
SetRole ==
  /\ Meets("role") \/ Meets("row_role")
  /\ account' = [account EXCEPT !.admin = ~@]
  /\ lost' = [lost EXCEPT !.role = IF account.admin THEN clock ELSE Never]
  /\ IF account.admin THEN UNCHANGED request ELSE Regained("role")
  /\ UNCHANGED <<uses, clock, token, market, record, resting, written>>

SetStanding ==
  /\ account' = [account EXCEPT !.suspended = ~@]
  /\ lost' = [lost EXCEPT !.standing = IF account.suspended THEN Never ELSE clock]
  /\ IF account.suspended THEN Regained("standing") ELSE UNCHANGED request
  /\ UNCHANGED <<uses, clock, token, market, record, resting, written>>

\* Meanwhile: other administrators, the close sweep, and the account's own
\* other requests.
MoveMarket ==
  /\ \E does \in {"publish", "close", "approve", "send_back"} :
       \E move \in Moves(does) : market = move[1] /\ market' = move[2]
  /\ UNCHANGED <<uses, clock, account, lost, token, record, resting, written, request>>

RecordEnding ==
  /\ record = "none" /\ market \in {"stopped", "approved"} /\ written.book # Unwritten
  /\ \E route \in uses : route.does \in Endings \cup Keyed \cup {"cancel"}
  /\ record' \in Endings
  /\ UNCHANGED <<uses, clock, account, lost, token, market, resting, written, request>>

TouchElsewhere ==
  /\ \/ /\ Meets("open") /\ IsPublished /\ written.book = Unwritten
        /\ written' = [written EXCEPT !.book = Own]
     \/ /\ Meets("mint") /\ written.grant = Unwritten
        /\ \E amount \in {Own, Another} : written' = [written EXCEPT !.grant = amount]
  /\ UNCHANGED <<uses, clock, account, lost, token, market, record, resting, request>>

WriteElsewhere ==
  /\ record = "none" /\ Touched = FirstTouches
  /\ \E route \in uses, body \in {Own, Another} :
       /\ route.does \in Keyed /\ written[route.does] = Unwritten
       /\ written' = [written EXCEPT ![route.does] = body]
  /\ UNCHANGED <<uses, clock, account, lost, token, market, record, resting, request>>

EndOrder ==
  /\ resting = "open" /\ record = "none"
  /\ resting' \in {"filled", "cancelled"}
  /\ UNCHANGED <<uses, clock, account, lost, token, market, record, written, request>>

Tick ==
  /\ clock < LastClock
  /\ clock' = clock + 1
  /\ UNCHANGED <<uses, account, lost, token, market, record, resting, written, request>>

AccessNext ==
  \/ \E route \in uses : Begin(route)
  \/ GetClaims \/ RequireAdmin \/ GetCurrentUser \/ RequireLiveAdmin \/ Validate
  \/ ReplayIfPresent \/ RefuseIfSuspended \/ EnsureTrading \/ AskTerms \/ ReadBook
  \/ FindBook \/ FindGrant \/ OpenBook \/ MintGrant
  \/ PostTrade \/ Cancel \/ FindResult \/ PayOut \/ Confirm
  \/ AmendMarket \/ AmendAccount \/ AnswerRead \/ Receive
  \/ Refresh \/ SetRole \/ SetStanding \/ MoveMarket \/ RecordEnding \/ TouchElsewhere \/ WriteElsewhere
  \/ EndOrder \/ Tick

AccessSpec == InitAccess /\ [][AccessNext]_accessVars

----------------------------------------------------------------------------
(* Nothing is done on authority lost a token's life ago: a request begun    *)
(* that long after the role or the standing was lost neither reads nor      *)
(* writes, and makes no first touch.  A trade or an order of an account      *)
(* suspended before it began writes nothing, neither a book nor a grant      *)
(* (ADR 0022), and auth's own routes serve nobody who was suspended, or no   *)
(* administrator, from beginning to end.                                    *)
AuthorityIsFresh ==
  LET r == request IN
    r.wrote # {} \/ r.answer = Done =>
      /\ "standing" \notin r.overdue
      /\ r.admin => "role" \notin r.overdue
      /\ r.does \in Keyed /\ r.wrote # {} => "standing" \notin r.lacked
      /\ r.does = "account" => r.lacked = {}

\* A refusal is never given to a request whose own write was committed (a first
\* touch on its way is another matter: it stays, whatever becomes of the
\* request).  A request begun after its write was committed is answered with it,
\* or refused for who is asking or for a service that did not answer; never by
\* the market, the price or the balance of now.
UnconfirmedEnding == {"settlement_unconfirmed", "void_unconfirmed"}
MayFollowAWrite(r) ==
  InvalidToken \cup InvalidRequest \cup
  CASE r.does \in Keyed -> Done \cup IdempotencyKeyReused
    [] r.does \in Endings -> Done \cup NotAnAdministrator \cup MarketTermsUnavailable \cup MarketNotFound \cup UnconfirmedEnding
    [] OTHER -> NotAnAdministrator \cup {"order_already_cancelled"}
RepeatIsAnswered ==
  LET r == request IN
    /\ "asked" \in r.wrote => r.answer \subseteq Done \cup UnconfirmedEnding
    /\ r.again => "asked" \notin r.wrote /\ r.answer \subseteq MayFollowAWrite(r)
    /\ r.does \in Keyed /\ r.answer = Done => written[r.does] = Own

\* No ledger route answers a status it does not declare (controller/routes.py,
\* responses=): market_not_published is therefore out of the snapshot's reach.
AnswersAreDeclared ==
  \A code \in request.answer : StatusOf(code) \in request.declares \cup {200}

\* The one that is answered all the same: a first read that loses to another
\* process's grant of another amount (service/grants.py, ensure_granted).
RacedGrant == request.does = "read" /\ request.answer = IdempotencyKeyReused /\ "grant" \notin request.had

\* A repeat is answered, and no status is a surprise.
PromisesKept == RepeatIsAnswered /\ (AnswersAreDeclared \/ RacedGrant)

\* A first touch is made for good.  Whoever had the grant when the request began
\* reads their money whatever STARTING_CREDITS has become (ensure_granted), so a
\* refresh resolves a raced grant; and a market that had a book by then is priced
\* without market_service, and is not lost to it (ensure_open).
FirstTouchLasts ==
  LET r == request IN
    r.does = "read" =>
      /\ "grant" \in r.had => r.answer # IdempotencyKeyReused
      /\ "book" \in r.had => r.answer \cap (MarketTermsUnavailable \cup MarketNotFound \cup MarketNotPublished) = {}

\* An answer keeps what its route promises: a repeat is answered as above, no
\* ledger route answers a status it does not declare but the raced grant's, and
\* what was touched first, here or elsewhere, is what later requests find.
AnswersKept == PromisesKept /\ FirstTouchLasts

=============================================================================
