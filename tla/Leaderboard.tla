---------------------------- MODULE Leaderboard ----------------------------
(***************************************************************************)
(* The stored ranking (service/leaderboard.py, leaderboard_refresher.py,    *)
(* user_directory.py): refreshes of several replicas value every holder,    *)
(* ask auth for their names, and write a generation each, unless one at     *)
(* least as new is there; the newest Kept generations are kept.             *)
(*                                                                          *)
(* What a holder is worth is a number that trades move between holders      *)
(* (module Positions has the valuation).  A write takes the advisory lock,  *)
(* reads, inserts and prunes in one transaction, and is one action.         *)
(***************************************************************************)
EXTENDS Paging

CONSTANTS
  Holders,     \* with lower(username)'s order: integers
  Refreshers,  \* one per replica
  Times,       \* what their clocks may read
  Kept,        \* _GENERATIONS_KEPT
  FirstWorth   \* what each holder starts with

ASSUME LeaderboardAssumption ==
  /\ Holders \subseteq Nat /\ IsFiniteSet(Holders)
  /\ Times \subseteq Nat /\ Kept \in Nat \ {0} /\ FirstWorth \in [Holders -> Nat]

VARIABLES
  past,        \* auxiliary: every holder's worth, after each commit
  suspended,   \* auth's flag
  refresh,     \* what each refresher has read
  generations  \* the committed generations

board == <<past, suspended, refresh, generations>>

Worths == past[Len(past)]

Idle == [step |-> "idle", at |-> 0, since |-> 0, worths |-> FirstWorth, ranked |-> {}]

InitBoard ==
  /\ past = <<FirstWorth>> /\ suspended = {}
  /\ refresh = [r \in Refreshers |-> Idle]
  /\ generations = {}

\* _ranking_of: by worth, the greatest first, then by name.
RankingOf(worths, eligible) ==
  InOrder(eligible,
    LAMBDA u, v : IF worths[u] = worths[v] THEN u < v ELSE worths[u] > worths[v])

----------------------------------------------------------------------------
(* A refresh *)

\* computed_at is read before anything else.
Stamp(r, at) ==
  /\ refresh[r].step = "idle"
  /\ refresh' = [refresh EXCEPT ![r] = [Idle EXCEPT !.step = "stamped", !.at = at, !.since = Len(past)]]
  /\ UNCHANGED <<past, suspended, generations>>

\* _list_net_worths: every holder, in one statement.
ValueHolders(r) ==
  /\ refresh[r].step = "stamped"
  /\ refresh' = [refresh EXCEPT ![r].step = "valued", ![r].worths = Worths]
  /\ UNCHANGED <<past, suspended, generations>>

\* list_users: auth names the holders, and _ranking_of drops the suspended.
NameHolders(r) ==
  /\ refresh[r].step = "valued"
  /\ refresh' = [refresh EXCEPT ![r].step = "named", ![r].ranked = Holders \ suspended]
  /\ UNCHANGED <<past, suspended, generations>>

\* The lookup fails, or the process dies; the timer starts another.
FailRefresh(r) ==
  /\ refresh[r].step # "idle"
  /\ refresh' = [refresh EXCEPT ![r] = Idle]
  /\ UNCHANGED <<past, suspended, generations>>

HasGenerationAtLeastAsNew(at) == \E g \in generations : g.at >= at

GenerationOf(f) ==
  [at |-> f.at, since |-> f.since, worths |-> f.worths, ranking |-> RankingOf(f.worths, f.ranked)]

\* _prune_older_generations
Newest(gs) == {g \in gs : Cardinality({h \in gs : h.at > g.at}) < Kept}

WriteGeneration(r) ==
  /\ refresh[r].step = "named"
  /\ generations' =
       IF HasGenerationAtLeastAsNew(refresh[r].at) THEN generations
       ELSE Newest(generations \cup {GenerationOf(refresh[r])})
  /\ refresh' = [refresh EXCEPT ![r] = Idle]
  /\ UNCHANGED <<past, suspended>>

----------------------------------------------------------------------------
(* What goes on meanwhile *)

\* A commit that takes a credit from one holder to another.
Move(u, v) ==
  /\ u # v /\ Worths[u] > 0
  /\ past' = Append(past, [Worths EXCEPT ![u] = @ - 1, ![v] = @ + 1])
  /\ UNCHANGED <<suspended, refresh, generations>>

SetSuspension(u) ==
  /\ suspended' = IF u \in suspended THEN suspended \ {u} ELSE suspended \cup {u}
  /\ UNCHANGED <<past, refresh, generations>>

BoardNext ==
  \/ \E r \in Refreshers :
       \/ \E at \in Times : Stamp(r, at)
       \/ ValueHolders(r) \/ NameHolders(r) \/ FailRefresh(r) \/ WriteGeneration(r)
  \/ \E u, v \in Holders : Move(u, v)
  \/ \E u \in Holders : SetSuspension(u)

----------------------------------------------------------------------------
(* A page of it *)

NewestGeneration == {g \in generations : \A h \in generations : h.at <= g.at}

\* Mutation: a later page is served from the newest generation too.
ServedNewest(cursor) == NewestGeneration

\* The generation a page is of: the newest, or the one its cursor names,
\* if it is still stored.
Served(cursor) ==
  IF cursor = None THEN NewestGeneration ELSE {g \in generations : g.at = cursor[1].at}

RankIn(g, u) == SumSet({i \in DOMAIN g.ranking : g.ranking[i] = u})

RowsOf(g, last) ==
  [i \in 1..(Len(g.ranking) - last) |->
     [rank |-> last + i, user |-> g.ranking[last + i], worth |-> g.worths[g.ranking[last + i]], at |-> g.at]]

\* _page_query: the entries past the cursor's rank, and the caller's own.
RowsAfter(cursor, g) == RowsOf(g, IF cursor = None THEN 0 ELSE cursor[1].rank)
=============================================================================
