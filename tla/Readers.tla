------------------------------ MODULE Readers ------------------------------
(***************************************************************************)
(* One reader goes through one list from its first page to its last, while  *)
(* what is listed changes: an account's history, a market's trades, the     *)
(* audit log, the leaderboard, the markets' browse or their overview.       *)
(*                                                                          *)
(* Bounds: only the writers of the list that is read move, and until the    *)
(* walk is over; only the browse is narrowed to a status.                   *)
(***************************************************************************)
EXTENDS Feeds, Leaderboard, Browse

CONSTANTS
  Limits,   \* page sizes
  Me        \* the holder who reads the leaderboard

Feed == {"history", "trades", "actions"}
Lists == Feed \cup {"board", "browse", "overview"}
Filters == {"any", "open", "closed"}

ASSUME ReadersAssumption == Limits \subseteq Nat \ {0} /\ Me \in Holders

VARIABLES
  list,     \* the list, and the status filter
  filter,
  cursor,   \* the next page's
  shown,    \* every row the pages had, in turn
  walk,     \* "not begun", "walking", "whole" after a page with no cursor, or "refreshed"
  begun     \* auxiliary: what there was to show at the first page

reader == <<cursor, shown, walk, begun>>
vars == <<feeds, board, markets, list, filter, reader>>

Init ==
  /\ InitFeeds /\ InitBoard /\ InitMarkets
  /\ list \in Lists
  /\ filter \in Filters /\ (list # "browse" => filter = "any")
  /\ cursor = None /\ shown = <<>> /\ walk = "not begun" /\ begun = {}

IsOver == walk \in {"whole", "refreshed"}

MayRead(l) == list = l /\ ~IsOver

\* A page is shown; its request names the cursor the page before gave.
Show(page, there) ==
  /\ shown' = shown \o page.rows
  /\ cursor' = page.next
  /\ walk' = IF page.next = None THEN "whole" ELSE "walking"
  /\ begun' = IF walk = "not begun" THEN there ELSE begun
  /\ UNCHANGED <<feeds, board, markets, list, filter>>

\* history_for_admin, and history_for_user of who has had the starting grant
ReadHistory(limit) == MayRead("history") /\ Show(HistoryPage(cursor, limit), account)

\* list_market_trades
ReadTrades(limit) == MayRead("trades") /\ Show(TradePage(cursor, limit), MatchingTrades)

\* list_actions
ReadActions(limit) == MayRead("actions") /\ Show(ActionPage(cursor, limit), MatchingActions)

BoardPage(g, limit) ==
  LET page == Cut(RowsAfter(cursor, g), limit)
  IN  [page EXCEPT !.rows = [i \in DOMAIN @ |-> [row |-> @[i], me |-> RankIn(g, Me)]]]

\* list_page: an empty board, a page, or 409 leaderboard_refreshed.
ReadBoard(limit) ==
  /\ MayRead("board")
  /\ LET served == Served(cursor)
     IN  IF served # {} THEN \E g \in served : Show(BoardPage(g, limit), served)
         ELSE IF cursor = None THEN Show([rows |-> <<>>, next |-> None], {})
         ELSE /\ walk' = "refreshed"
              /\ UNCHANGED <<feeds, board, markets, list, filter, cursor, shown, begun>>

\* browse
ReadBrowse(limit) ==
  /\ MayRead("browse")
  /\ Show(Cut(Fetched(InOrder(Browsed(cursor, filter), BrowsePrecedes), limit), limit),
          {m \in Markets : IsVisible(m)})

\* overview
ReadOverview(limit) ==
  /\ MayRead("overview")
  /\ Show(Cut(Fetched(InOrder(Overviewed(cursor, filter), OverviewPrecedes), limit), limit),
          {OverviewPosition(m) : m \in {n \in Markets : IsVisible(n)}})

Read ==
  \E limit \in Limits :
    \/ ReadHistory(limit) \/ ReadTrades(limit) \/ ReadActions(limit)
    \/ ReadBoard(limit) \/ ReadBrowse(limit) \/ ReadOverview(limit)

WriteAccount ==
  /\ list \in {"history", "trades"}
  /\ \E b \in Batches, now \in Stamps : PostBatch(b, now)
  /\ UNCHANGED <<board, markets>>

WriteLog ==
  /\ list = "actions"
  /\ \E kind \in {"suspend", "close"}, at \in Stamps : Record(kind, at)
  /\ UNCHANGED <<board, markets>>

WriteBoard == list = "board" /\ BoardNext /\ UNCHANGED <<feeds, markets>>
WriteMarkets == list \in {"browse", "overview"} /\ MarketsNext /\ UNCHANGED <<feeds, board>>

Next ==
  \/ Read
  \/ /\ ~IsOver /\ (WriteAccount \/ WriteLog \/ WriteBoard \/ WriteMarkets)
     /\ UNCHANGED <<list, filter, reader>>

Spec == Init /\ [][Next]_vars

----------------------------------------------------------------------------
(* What a reader can rely on *)

Places == DOMAIN shown

\* Walking a feed shows every row that was there at the start once, and in
\* order, whatever is appended meanwhile and however rows tie; a history shows
\* nothing else, and beside each entry what the account held once it was
\* committed (_page_query: an entry appended mid-read "cannot move a figure
\* already on screen").
HistoryWhole ==
  list \in Feed /\ walk = "whole" =>
    /\ \A r \in begun : Cardinality({i \in Places : shown[i].row = r}) = 1
    /\ \A i, j \in Places : i < j => Newer(shown[i].row, shown[j].row)
    /\ list = "history" => \A i \in Places :
         shown[i].row \in begun /\ shown[i].balance = Held(shown[i].row.nth)

\* A leaderboard read to its end is one ranking, whole: ranks from 1 with no
\* gap, nobody left out, in the order of worths that were all read at one
\* moment no earlier than the time it carries, and the caller's own rank is
\* that ranking's on every page (#40: "Users never see partially calculated
\* rankings").
RankingWhole ==
  list = "board" /\ walk = "whole" =>
    \A g \in begun :
      /\ Len(shown) = Len(g.ranking)
      /\ \A i \in Places :
           /\ shown[i].row = RowsOf(g, 0)[i] /\ shown[i].me = RankIn(g, Me)
           /\ i > 1 => shown[i - 1].row.worth >= shown[i].row.worth
      /\ \E k \in g.since..Len(past) : g.worths = past[k]

\* Its stop was committed after the first page, with a time before it.
StoppedUnseen(p) ==
  market[p.id].closedAt \in 1..p.as_of /\ market[p.id].closedAt < p.sort_at

\* A walk of the browse that no filter narrows shows every market that was
\* public at its start, and no walk shows one twice, but a market closed early
\* whose close was stamped by the time the walk began and committed after
\* ("Pages read in turn do not repeat or skip a market"); an overview shows
\* once each public market that is not finished meanwhile.
BrowseWhole ==
  /\ list = "browse" =>
       /\ \A i, j \in Places :
            i < j /\ shown[i].id = shown[j].id => StoppedUnseen(shown[i])
       /\ walk = "whole" /\ filter = "any" => \A m \in begun : \E i \in Places : shown[i].id = m
  /\ list = "overview" /\ walk = "whole" /\ filter = "any" =>
       \A p \in begun : OverviewPosition(p.id) = p =>
         Cardinality({i \in Places : shown[i].id = p.id}) = 1
=============================================================================
