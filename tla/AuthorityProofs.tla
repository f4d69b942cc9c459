-------------------------- MODULE AuthorityProofs --------------------------
(***************************************************************************)
(* Who has authority, and what is done on it: accounts and sessions         *)
(* (AuthSessions), for every number of requests in flight, accounts, tokens *)
(* and orders of a scan, and what the routes do with a token (Access), for  *)
(* any lifetime of it.  The two share no state: a theorem is about the one  *)
(* whose specification it names.                                            *)
(*                                                                          *)
(* Sessions.  AuthInv is inductive.  It says what a request may rely on     *)
(* once it holds a row: no other commit changes that account, so what was   *)
(* decided from it still holds at the commit; and the administrators a      *)
(* demotion counted are locked, so they still count when it commits.  A     *)
(* commit changes a row it holds, or inserts one that no request can hold.  *)
(* LogInv adds what the log says.  The role an administrator's request read *)
(* is still the role when it commits, because the row is held; so its entry *)
(* starts where the account's last entry ended.                             *)
(*                                                                          *)
(* Routes.  AuthorityIsFresh speaks of requests that have written or        *)
(* answered.  What carries it there is that a request which should be       *)
(* refused still has in front of it the check that will refuse it, with     *)
(* nothing but harmless checks before that one (Ahead), and that its token  *)
(* is too old, or has no such claim, or the row says so (Owing).  WorldInv  *)
(* says what the token can claim of a role or a standing the account has    *)
(* lost.  PromisesKept is proved after it, from AnswerInv.                   *)
(***************************************************************************)
EXTENDS AuthSessions, Access, Sums, SequenceTheorems

----------------------------------------------------------------------------
(* Sessions *)

Decisions == Kinds \cup {"rotate", "replay", "none"}

Tables ==
  /\ role \in [Users -> Roles \cup {"none"}] /\ suspended \in [Users -> BOOLEAN]
  /\ owner \in [Tokens -> Users \cup {NoUser}] /\ badge \in [Tokens -> Roles \cup {"none"}]
  /\ revoked \subseteq Tokens
  /\ userLock \in [Users -> Sessions \cup {Nobody}]
  /\ tokenLock \in [Tokens -> Sessions \cup {Nobody}]
  /\ pc \in [Sessions -> {"idle", "insert", "user", "token", "set", "admins", "commit"}]
  /\ req \in [Sessions -> Requests \cup {NoRequest}]
  /\ got \in [Sessions -> SUBSET Users] /\ plan \in [Sessions -> Decisions]
  /\ was \in [Sessions -> Roles \cup {"none"}] /\ seen \in [Sessions -> SUBSET Tokens]

RowsHold ==
  /\ AdministratorRemains
  /\ \A u \in Users : suspended[u] => role[u] # "none" /\ Unrevoked(u) = {}
  /\ \A t \in Tokens : IsIssued(t) => role[owner[t]] # "none"

\* The account and the token a request in flight names are there.
Carries(s) ==
  pc[s] # "idle" =>
    /\ req[s] \in Requests
    /\ req[s].kind \in {"refresh", "logout"} => IsIssued(req[s].token)
    /\ req[s].kind = "login" => role[req[s].user] # "none"

AtStatement(s) ==
  /\ pc[s] = "insert" => req[s].kind = "register"
  /\ pc[s] = "user" => req[s].kind \in {"login", "refresh"}
  /\ pc[s] = "token" => req[s].kind \in {"logout", "refresh"}
  /\ pc[s] = "token" /\ req[s].kind = "refresh" => userLock[owner[req[s].token]] = s
  /\ pc[s] \in {"set", "admins"} => req[s].kind \in AdminKinds
  /\ plan[s] # "none" => pc[s] = "commit"

\* Those a demotion counted cannot be taken away before it commits.
Counted(s) == \A u \in got[s] : userLock[u] = s /\ CanAct(u)

----------------------------------------------------------------------------
(* What still holds of the rows when a decision comes to its commit *)

WillRegister(s) ==
  /\ plan[s] = "register" /\ req[s].kind = "register"
  /\ role[req[s].user] = "none" /\ was[s] = "trader"

WillLogin(s) ==
  /\ plan[s] = "login" /\ req[s].kind = "login" /\ userLock[req[s].user] = s
  /\ ~suspended[req[s].user] /\ was[s] = role[req[s].user]

WillRotate(s) ==
  LET t == req[s].token  u == owner[t] IN
  /\ plan[s] = "rotate" /\ req[s].kind = "refresh"
  /\ userLock[u] = s /\ ~suspended[u] /\ was[s] = role[u]
  /\ tokenLock[t] = s /\ t \notin revoked

WillReplay(s) ==
  LET u == owner[req[s].token] IN
  /\ plan[s] = "replay" /\ req[s].kind = "refresh"
  /\ userLock[u] = s /\ Unrevoked(u) \subseteq seen[s]

WillLogout(s) ==
  plan[s] = "logout" /\ req[s].kind = "logout" /\ tokenLock[req[s].token] = s

\* A role change or a suspension that takes away an administrator.
Weakens(r) ==
  /\ role[r.user] = "admin"
  /\ r.kind = "suspend" \/ (r.kind = "role" /\ r.role # "admin")

WillChange(s) ==
  LET r == req[s] IN
  /\ plan[s] = r.kind /\ r.kind \in AdminKinds
  /\ userLock[r.user] = s /\ role[r.user] # "none"
  /\ Weakens(r) => got[s] \ {r.user} # {}
  /\ r.kind = "suspend" => Unrevoked(r.user) \subseteq seen[s]

Decided(s) ==
  pc[s] = "commit" =>
    \/ WillRegister(s) \/ WillLogin(s) \/ WillRotate(s)
    \/ WillReplay(s) \/ WillLogout(s) \/ WillChange(s)

\* The unique indexes admit one uncommitted insert of an account.
OneInsert ==
  \A s, o \in Sessions :
    plan[s] = "register" /\ plan[o] = "register" /\ req[s].user = req[o].user => s = o

SessionInv(s) == Carries(s) /\ AtStatement(s) /\ Counted(s) /\ Decided(s)

AuthInv == Tables /\ RowsHold /\ OneInsert /\ \A s \in Sessions : SessionInv(s)

\* What the rows of an account s holds, and a token s holds, keep through a
\* step of another session.
Undisturbed(s) ==
  /\ \A u \in Users : userLock[u] = s => userLock'[u] = s
  /\ \A t \in Tokens : tokenLock[t] = s => tokenLock'[t] = s
  /\ \A t \in Tokens : IsIssued(t) => owner'[t] = owner[t]
  /\ \A u \in Users : role[u] # "none" => role'[u] # "none"
  /\ \A u \in Users : userLock[u] = s /\ role[u] # "none" =>
       role'[u] = role[u] /\ suspended'[u] = suspended[u] /\ Unrevoked(u)' \subseteq Unrevoked(u)
  /\ \A t \in Tokens : tokenLock[t] = s /\ t \notin revoked => t \notin revoked'

SameRequest(s) ==
  /\ pc'[s] = pc[s] /\ req'[s] = req[s] /\ got'[s] = got[s]
  /\ plan'[s] = plan[s] /\ was'[s] = was[s] /\ seen'[s] = seen[s]

----------------------------------------------------------------------------
(* Requests *)

\* A request names accounts and tokens that are values.
LEMMA RequestNames ==
  ASSUME Tables, NEW r \in Requests
  PROVE  /\ r \in Request
         /\ r.kind \in {"refresh", "logout"} => r.token \in Tokens
         /\ r.kind \notin {"refresh", "logout"} => r.user \in Users
         /\ r.kind \in AdminKinds => r.by \in Users
         /\ r.kind = "refresh" /\ IsIssued(r.token) => owner[r.token] \in Users
BY AuthAssumption DEF Tables, IsIssued

\* What a session does not hold of, nor changes the rows of, another keeps.
LEMMA OthersKeep ==
  ASSUME AuthInv, NEW s \in Sessions, SameRequest(s), Undisturbed(s),
         plan[s] = "register" => role'[req[s].user] = "none"
  PROVE  SessionInv(s)'
<1>1. SessionInv(s) /\ Tables /\ RowsHold
  BY DEF AuthInv
<1>2. Carries(s)'
  <2>1. CASE pc[s] = "idle"
    BY <2>1 DEF Carries, SameRequest
  <2>2. CASE pc[s] # "idle"
    <3>1. req[s] \in Requests
      BY <1>1, <2>2 DEF SessionInv, Carries
    <3>2. req[s].kind \in {"refresh", "logout"} => req[s].token \in Tokens /\ IsIssued(req[s].token)'
      BY <1>1, <2>2, <3>1, RequestNames DEF SessionInv, Carries, Undisturbed, IsIssued, SameRequest
    <3>3. req[s].kind = "login" => role'[req[s].user] # "none"
      BY <1>1, <2>2, <3>1, RequestNames DEF SessionInv, Carries, Undisturbed
    <3> QED BY <3>1, <3>2, <3>3 DEF Carries, SameRequest, IsIssued
  <2> QED BY <2>1, <2>2
<1>3. AtStatement(s)'
  <2>1. ASSUME pc[s] = "token", req[s].kind = "refresh"
        PROVE  userLock'[owner'[req[s].token]] = s
    <3>1. req[s] \in Requests /\ IsIssued(req[s].token) /\ userLock[owner[req[s].token]] = s
      BY <1>1, <2>1 DEF SessionInv, Carries, AtStatement
    <3>2. req[s].token \in Tokens /\ owner[req[s].token] \in Users
      BY <1>1, <2>1, <3>1, RequestNames
    <3> QED BY <3>1, <3>2 DEF Undisturbed
  <2> QED BY <1>1, <2>1 DEF SessionInv, AtStatement, SameRequest
<1>4. Counted(s)'
  <2>1. \A u \in got[s] : u \in Users /\ userLock[u] = s /\ CanAct(u)
    BY <1>1 DEF SessionInv, Counted, Tables
  <2> QED BY <2>1 DEF Counted, CanAct, Undisturbed, SameRequest
<1>5. Decided(s)'
  <2>1. SUFFICES ASSUME pc[s] = "commit"
                 PROVE  \/ WillRegister(s)' \/ WillLogin(s)' \/ WillRotate(s)'
                        \/ WillReplay(s)' \/ WillLogout(s)' \/ WillChange(s)'
    BY DEF Decided, SameRequest
  <2>2. req[s] \in Requests /\ Carries(s)
    BY <1>1, <2>1 DEF SessionInv, Carries
  <2>3. CASE WillRegister(s)
    BY <2>3 DEF WillRegister, SameRequest
  <2>4. CASE WillLogin(s)
    <3>1. req[s].user \in Users /\ role[req[s].user] # "none"
      BY <1>1, <2>1, <2>2, <2>4, RequestNames DEF WillLogin, Carries
    <3> QED BY <2>4, <3>1 DEF WillLogin, SameRequest, Undisturbed
  <2>5. ASSUME req[s].kind = "refresh"
        PROVE  /\ req[s].token \in Tokens /\ owner[req[s].token] \in Users
               /\ IsIssued(req[s].token) /\ role[owner[req[s].token]] # "none"
               /\ owner'[req[s].token] = owner[req[s].token]
    BY <1>1, <2>1, <2>2, <2>5, RequestNames DEF Carries, RowsHold, Undisturbed
  <2>6. CASE WillRotate(s)
    BY <2>5, <2>6 DEF WillRotate, SameRequest, Undisturbed
  <2>7. CASE WillReplay(s)
    <3> DEFINE t == req[s].token  u == owner[t]
    <3>1. /\ u \in Users /\ owner'[t] = u /\ userLock'[u] = s
          /\ \A v \in Tokens : owner'[v] = u /\ v \notin revoked' => owner[v] = u /\ v \notin revoked
      BY <2>5, <2>7 DEF WillReplay, Undisturbed, Unrevoked, TokensOf
    <3>2. \A v \in Tokens : owner[v] = u /\ v \notin revoked => v \in seen[s]
      BY <2>7 DEF WillReplay, Unrevoked, TokensOf
    <3> QED BY <2>7, <3>1, <3>2 DEF WillReplay, SameRequest, Unrevoked, TokensOf
  <2>8. CASE WillLogout(s)
    BY <1>1, <2>2, <2>8, RequestNames DEF WillLogout, SameRequest, Undisturbed
  <2>9. CASE WillChange(s)
    <3>1. req[s].user \in Users /\ role[req[s].user] # "none" /\ userLock[req[s].user] = s
      BY <1>1, <2>2, <2>9, RequestNames DEF WillChange, AdminKinds
    <3> QED BY <2>9, <3>1 DEF WillChange, Weakens, SameRequest, Undisturbed, Unrevoked, TokensOf
  <2> QED BY <1>1, <2>1, <2>3, <2>4, <2>6, <2>7, <2>8, <2>9 DEF SessionInv, Decided
<1> QED BY <1>2, <1>3, <1>4, <1>5 DEF SessionInv

----------------------------------------------------------------------------
(* The steps before a commit *)

\* Every row s does not hold stays locked by the one who holds it.
LeavesLocks(s) ==
  \A o \in Sessions \ {s} :
    /\ SameRequest(o)
    /\ \A u \in Users : userLock[u] = o => userLock'[u] = o
    /\ \A t \in Tokens : tokenLock[t] = o => tokenLock'[t] = o

\* A step that writes no row, and leaves its own request as it should be.
LEMMA QuietStep ==
  ASSUME AuthInv, NEW s \in Sessions, UNCHANGED rows, LeavesLocks(s), Tables', SessionInv(s)',
         plan'[s] = "register" =>
           \A o \in Sessions \ {s} : ~(plan[o] = "register" /\ req[o].user = req'[s].user)
  PROVE  AuthInv'
<1>1. RowsHold'
  BY DEF AuthInv, RowsHold, rows, AdministratorRemains, Unrevoked, TokensOf, IsIssued
<1>2. ASSUME NEW o \in Sessions, o # s
      PROVE  SessionInv(o)'
  <2>1. SameRequest(o) /\ Undisturbed(o)
    BY <1>2 DEF LeavesLocks, Undisturbed, rows, Unrevoked, TokensOf
  <2>2. plan[o] = "register" => role'[req[o].user] = "none"
    BY DEF AuthInv, SessionInv, AtStatement, Decided, WillRegister, WillLogin, WillRotate,
           WillReplay, WillLogout, WillChange, AdminKinds, rows
  <2> QED BY <2>1, <2>2, OthersKeep
<1>3. OneInsert'
  BY DEF AuthInv, OneInsert, LeavesLocks, SameRequest
<1> QED BY <1>1, <1>2, <1>3 DEF AuthInv

\* A request that is over holds nothing and has decided nothing.
LEMMA EndOfRequest ==
  ASSUME AuthInv, NEW s \in Sessions, End(s)
  PROVE  /\ LeavesLocks(s) /\ plan'[s] = "none" /\ pc'[s] = "idle"
         /\ userLock' \in [Users -> Sessions \cup {Nobody}]
         /\ tokenLock' \in [Tokens -> Sessions \cup {Nobody}]
         /\ pc' \in [Sessions -> {"idle", "insert", "user", "token", "set", "admins", "commit"}]
         /\ req' \in [Sessions -> Requests \cup {NoRequest}]
         /\ got' \in [Sessions -> SUBSET Users] /\ plan' \in [Sessions -> Decisions]
         /\ was' \in [Sessions -> Roles \cup {"none"}] /\ seen' \in [Sessions -> SUBSET Tokens]
         /\ SessionInv(s)'
<1>1. Tables
  BY DEF AuthInv
<1>2. /\ userLock' \in [Users -> Sessions \cup {Nobody}]
      /\ tokenLock' \in [Tokens -> Sessions \cup {Nobody}]
      /\ \A o \in Sessions \ {s} :
           /\ \A u \in Users : userLock[u] = o => userLock'[u] = o
           /\ \A t \in Tokens : tokenLock[t] = o => tokenLock'[t] = o
  BY <1>1 DEF End, Released, Tables
<1>3. /\ pc' \in [Sessions -> {"idle", "insert", "user", "token", "set", "admins", "commit"}]
      /\ req' \in [Sessions -> Requests \cup {NoRequest}]
      /\ got' \in [Sessions -> SUBSET Users] /\ plan' \in [Sessions -> Decisions]
      /\ was' \in [Sessions -> Roles \cup {"none"}] /\ seen' \in [Sessions -> SUBSET Tokens]
      /\ pc'[s] = "idle" /\ got'[s] = {} /\ plan'[s] = "none"
      /\ \A o \in Sessions \ {s} : SameRequest(o)
  BY <1>1 DEF End, Tables, Decisions, SameRequest
<1>4. SessionInv(s)'
  BY <1>3 DEF SessionInv, Carries, AtStatement, Counted, Decided
<1> QED BY <1>2, <1>3, <1>4 DEF LeavesLocks

LEMMA RefuseStep ==
  ASSUME AuthInv, NEW s \in Sessions, Refuse(s)
  PROVE  AuthInv'
<1>1. End(s) /\ UNCHANGED rows
  BY DEF Refuse
<1>2. Tables'
  BY <1>1, EndOfRequest DEF AuthInv, Tables, rows
<1> QED BY <1>1, <1>2, EndOfRequest, QuietStep

LEMMA AskStep ==
  ASSUME AuthInv, NEW s \in Sessions, NEW r \in Requests, Ask(s, r)
  PROVE  AuthInv'
<1>1. Tables /\ SessionInv(s) /\ r \in Request
  BY AuthAssumption DEF AuthInv
<1>2. /\ r.kind = "register" => First(r) = "insert"
      /\ r.kind \in {"login", "refresh"} => First(r) = "user"
      /\ r.kind = "logout" => First(r) = "token"
      /\ r.kind \in AdminKinds => First(r) = "set"
  BY DEF First, AdminKinds
<1>3. r.kind \in {"register", "login", "refresh", "logout"} \cup AdminKinds
  BY <1>1 DEF Request, Kinds, AdminKinds
<1>4. First(r) \in {"insert", "user", "token", "set"}
  BY <1>2, <1>3
<1>5. Tables'
  BY <1>1, <1>4 DEF Ask, Tables, rows, locks
<1>6. pc'[s] = First(r) /\ req'[s] = r /\ plan'[s] = "none" /\ got'[s] = got[s]
  BY <1>1 DEF Ask, Tables, SessionInv, AtStatement
<1>7. SessionInv(s)'
  <2>1. Carries(s)'
    BY <1>6 DEF Ask, Admits, Carries, AdminKinds, rows, IsIssued
  <2>2. AtStatement(s)'
    BY <1>2, <1>3, <1>6 DEF AtStatement, AdminKinds
  <2>3. Counted(s)'
    BY <1>1, <1>6 DEF Ask, SessionInv, Counted, CanAct, rows, locks
  <2>4. Decided(s)'
    BY <1>4, <1>6 DEF Decided
  <2> QED BY <2>1, <2>2, <2>3, <2>4 DEF SessionInv
<1>8. LeavesLocks(s) /\ UNCHANGED rows
  BY <1>1 DEF Ask, Tables, LeavesLocks, SameRequest, locks
<1> QED BY <1>5, <1>6, <1>7, <1>8, QuietStep

\* A lock taken from nobody, or again, takes it from no other.
LEMMA LockTaken ==
  ASSUME Tables, NEW s \in Sessions
  PROVE  /\ \A u \in Users : UserFree(u, s) /\ LocksUser(s, u) =>
              /\ userLock' \in [Users -> Sessions \cup {Nobody}]
              /\ tokenLock' = tokenLock /\ userLock'[u] = s
              /\ \A v \in Users : userLock[v] \in Sessions => userLock'[v] = userLock[v]
         /\ \A t \in Tokens : TokenFree(t, s) /\ LocksToken(s, t) =>
              /\ tokenLock' \in [Tokens -> Sessions \cup {Nobody}]
              /\ userLock' = userLock /\ tokenLock'[t] = s
              /\ \A v \in Tokens : tokenLock[v] \in Sessions => tokenLock'[v] = tokenLock[v]
BY AuthAssumption DEF Tables, UserFree, TokenFree, LocksUser, LocksToken

\* A decision taken, its locks with it.
LEMMA PlanStep ==
  ASSUME AuthInv, NEW s \in Sessions, NEW what \in Decisions \ {"none"},
         NEW read \in Roles \cup {"none"}, NEW tokens \in SUBSET Tokens,
         Plans(s, what, read, tokens), pc[s] # "idle",
         userLock' \in [Users -> Sessions \cup {Nobody}],
         tokenLock' \in [Tokens -> Sessions \cup {Nobody}],
         \A u \in Users : userLock[u] \in Sessions => userLock'[u] = userLock[u],
         \A t \in Tokens : tokenLock[t] \in Sessions => tokenLock'[t] = tokenLock[t],
         Decided(s)',
         what = "register" =>
           \A o \in Sessions \ {s} : ~(plan[o] = "register" /\ req[o].user = req[s].user)
  PROVE  AuthInv'
<1>1. Tables /\ SessionInv(s)
  BY DEF AuthInv
<1>2. Tables'
  BY <1>1 DEF Plans, Tables, rows
<1>3. pc'[s] = "commit" /\ req'[s] = req[s] /\ plan'[s] = what /\ got'[s] = got[s]
  BY <1>1 DEF Plans, Tables
<1>4. SessionInv(s)'
  <2>1. Carries(s)'
    BY <1>1, <1>3 DEF SessionInv, Carries, Plans, rows, IsIssued
  <2>2. AtStatement(s)'
    BY <1>3 DEF AtStatement
  <2>3. Counted(s)'
    BY <1>1, <1>3 DEF SessionInv, Counted, CanAct, Plans, rows, Tables
  <2> QED BY <2>1, <2>2, <2>3 DEF SessionInv
<1>5. LeavesLocks(s) /\ UNCHANGED rows
  BY <1>1 DEF Plans, Tables, LeavesLocks, SameRequest
<1> QED BY <1>2, <1>3, <1>4, <1>5, QuietStep

LEMMA InsertUserStep ==
  ASSUME AuthInv, NEW s \in Sessions, InsertUser(s)
  PROVE  AuthInv'
<1>1. CASE Refuse(s)
  BY <1>1, RefuseStep
<1>2. CASE role[req[s].user] = "none" /\ Plans(s, "register", "trader", {}) /\ UNCHANGED locks
  <2>1. Tables /\ SessionInv(s) /\ pc[s] = "insert" /\ req[s].kind = "register"
    BY DEF InsertUser, AuthInv, SessionInv, AtStatement
  <2>2. Decided(s)'
    BY <1>2, <2>1 DEF Plans, Tables, Decided, WillRegister, rows
  <2>3. "register" \in Decisions \ {"none"} /\ "trader" \in Roles \cup {"none"}
    BY DEF Decisions, Kinds, Roles
  <2>4. \A o \in Sessions \ {s} : ~(plan[o] = "register" /\ req[o].user = req[s].user)
    BY DEF InsertUser
  <2> QED BY <1>2, <2>1, <2>2, <2>3, <2>4, PlanStep DEF Tables, locks
<1> QED BY <1>1, <1>2 DEF InsertUser

LEMMA LockUserStep ==
  ASSUME AuthInv, NEW s \in Sessions, LockUser(s)
  PROVE  AuthInv'
<1> DEFINE u == Subject(req[s])
<1>1. /\ Tables /\ RowsHold /\ SessionInv(s) /\ pc[s] = "user" /\ req[s] \in Requests
      /\ req[s].kind \in {"login", "refresh"}
  BY DEF LockUser, AuthInv, SessionInv, AtStatement, Carries
<1>2. u \in Users /\ role[u] # "none" /\ UserFree(u, s)
  BY <1>1, RequestNames DEF SessionInv, Carries, Subject, LockUser, RowsHold
<1>3. CASE req[s].kind = "refresh"
  <2>1. LocksUser(s, u) /\ pc' = [pc EXCEPT ![s] = "token"]
        /\ UNCHANGED <<rows, req, todo, scan, got, plan, was, seen>>
    BY <1>3 DEF LockUser
  <2>2. /\ userLock' \in [Users -> Sessions \cup {Nobody}] /\ tokenLock' = tokenLock
        /\ userLock'[u] = s
        /\ \A v \in Users : userLock[v] \in Sessions => userLock'[v] = userLock[v]
    BY <1>1, <1>2, <2>1, LockTaken
  <2>3. Tables' /\ LeavesLocks(s) /\ pc'[s] = "token"
    BY <1>1, <2>1, <2>2 DEF Tables, rows, LeavesLocks, SameRequest
  <2>4. SessionInv(s)'
    <3>1. Carries(s)'
      BY <1>1, <2>1 DEF SessionInv, Carries, rows, IsIssued
    <3>2. AtStatement(s)'
      BY <1>1, <1>3, <2>1, <2>2, <2>3 DEF SessionInv, AtStatement, Subject, rows
    <3>3. Counted(s)'
      BY <1>1, <2>1, <2>2 DEF SessionInv, Counted, CanAct, rows, Tables
    <3> QED BY <2>3, <3>1, <3>2, <3>3 DEF SessionInv, Decided
  <2>5. plan'[s] # "register"
    BY <1>1, <2>1 DEF SessionInv, AtStatement
  <2> QED BY <2>1, <2>3, <2>4, <2>5, QuietStep
<1>4. CASE Refuse(s)
  BY <1>4, RefuseStep
<1>5. CASE /\ req[s].kind = "login" /\ ~suspended[u]
           /\ LocksUser(s, u) /\ Plans(s, "login", role[u], {})
  <2>1. /\ userLock' \in [Users -> Sessions \cup {Nobody}] /\ tokenLock' = tokenLock
        /\ userLock'[u] = s
        /\ \A v \in Users : userLock[v] \in Sessions => userLock'[v] = userLock[v]
    BY <1>1, <1>2, <1>5, LockTaken
  <2>2. Decided(s)'
    BY <1>1, <1>5, <2>1 DEF Plans, Tables, Decided, WillLogin, rows, Subject
  <2>3. "login" \in Decisions \ {"none"} /\ role[u] \in Roles \cup {"none"}
    BY <1>1, <1>2 DEF Decisions, Kinds, Tables
  <2>4. tokenLock' \in [Tokens -> Sessions \cup {Nobody}] /\ {} \in SUBSET Tokens
    BY <1>1, <2>1 DEF Tables
  <2> QED BY <1>1, <1>5, <2>1, <2>2, <2>3, <2>4, PlanStep
<1> QED BY <1>1, <1>3, <1>4, <1>5 DEF LockUser

LEMMA LockTokenStep ==
  ASSUME AuthInv, NEW s \in Sessions, LockToken(s)
  PROVE  AuthInv'
<1> DEFINE t == req[s].token  u == Subject(req[s])
<1>1. /\ Tables /\ RowsHold /\ SessionInv(s) /\ pc[s] = "token" /\ req[s] \in Requests
      /\ TokenFree(t, s)
  BY DEF LockToken, AuthInv, SessionInv, AtStatement, Carries
<1>2. t \in Tokens
  BY <1>1, RequestNames DEF SessionInv, AtStatement
<1>3. req[s].kind = "refresh" => u = owner[t] /\ u \in Users /\ userLock[u] = s
  BY <1>1, RequestNames DEF SessionInv, AtStatement, Carries, Subject
<1>4. ASSUME LocksToken(s, t)
      PROVE  /\ tokenLock' \in [Tokens -> Sessions \cup {Nobody}] /\ userLock' = userLock
             /\ tokenLock'[t] = s
             /\ \A v \in Tokens : tokenLock[v] \in Sessions => tokenLock'[v] = tokenLock[v]
             /\ userLock' \in [Users -> Sessions \cup {Nobody}]
  BY <1>1, <1>2, <1>4, LockTaken DEF Tables
<1>5. /\ \A what \in {"logout", "replay", "rotate"} : what \in Decisions \ {"none"} /\ what # "register"
      /\ Unrevoked(u) \in SUBSET Tokens /\ {} \in SUBSET Tokens
      /\ "none" \in Roles \cup {"none"}
  BY DEF Decisions, Kinds, Unrevoked, TokensOf
<1>6. CASE req[s].kind = "logout" /\ LocksToken(s, t) /\ Plans(s, "logout", "none", {})
  <2>1. Decided(s)'
    BY <1>1, <1>4, <1>6 DEF Plans, Tables, Decided, WillLogout
  <2> QED BY <1>1, <1>4, <1>5, <1>6, <2>1, PlanStep
<1>7. CASE req[s].kind = "refresh" /\ LocksToken(s, t) /\ Plans(s, "replay", "none", Unrevoked(u))
  <2>1. Decided(s)'
    BY <1>1, <1>3, <1>4, <1>7 DEF Plans, Tables, Decided, WillReplay, rows, Unrevoked, TokensOf
  <2> QED BY <1>1, <1>4, <1>5, <1>7, <2>1, PlanStep
<1>8. CASE /\ req[s].kind = "refresh" /\ IsActive(t) /\ ~suspended[u]
           /\ LocksToken(s, t) /\ Plans(s, "rotate", role[u], {})
  <2>1. Decided(s)'
    BY <1>1, <1>3, <1>4, <1>8 DEF Plans, Tables, Decided, WillRotate, rows, IsActive
  <2>2. role[u] \in Roles \cup {"none"}
    BY <1>1, <1>3, <1>8 DEF Tables
  <2> QED BY <1>1, <1>4, <1>5, <1>8, <2>1, <2>2, PlanStep
<1>9. CASE Refuse(s)
  BY <1>9, RefuseStep
<1> QED BY <1>6, <1>7, <1>8, <1>9 DEF LockToken

LEMMA ScanSetStep ==
  ASSUME AuthInv, NEW s \in Sessions, NEW order \in ScanOrders, ScanSet(s, order)
  PROVE  AuthInv'
<1>1. Tables /\ SessionInv(s)
  BY DEF AuthInv
<1>2. /\ Tables' /\ LeavesLocks(s) /\ pc'[s] = "admins" /\ plan'[s] = "none" /\ UNCHANGED rows
  BY <1>1 DEF ScanSet, Tables, SessionInv, AtStatement, LeavesLocks, SameRequest, rows, locks
<1>3. SessionInv(s)'
  BY <1>1, <1>2 DEF ScanSet, SessionInv, Carries, AtStatement, Counted, CanAct, Decided, rows, locks, IsIssued
<1> QED BY <1>2, <1>3, QuietStep

LEMMA LockAdminStep ==
  ASSUME AuthInv, NEW s \in Sessions, NEW u \in Users, LockAdmin(s, u)
  PROVE  AuthInv'
<1>1. Tables /\ SessionInv(s) /\ pc[s] = "admins"
  BY DEF AuthInv, LockAdmin
<1>2. /\ userLock' \in [Users -> Sessions \cup {Nobody}] /\ tokenLock' = tokenLock
      /\ userLock'[u] = s
      /\ \A v \in Users : userLock[v] \in Sessions => userLock'[v] = userLock[v]
  BY <1>1, LockTaken DEF LockAdmin
<1>3. /\ Tables' /\ LeavesLocks(s) /\ pc'[s] = "admins" /\ plan'[s] = "none" /\ UNCHANGED rows
      /\ req'[s] = req[s] /\ got'[s] = IF CanAct(u) THEN got[s] \cup {u} ELSE got[s]
  BY <1>1, <1>2 DEF LockAdmin, Tables, SessionInv, AtStatement, LeavesLocks, SameRequest, rows
<1>4. Counted(s)'
  BY <1>1, <1>2, <1>3 DEF SessionInv, Counted, CanAct, rows, Tables
<1>5. SessionInv(s)'
  BY <1>1, <1>3, <1>4 DEF SessionInv, Carries, AtStatement, Decided, rows, IsIssued
<1> QED BY <1>3, <1>5, QuietStep

LEMMA LockTargetStep ==
  ASSUME AuthInv, NEW s \in Sessions, LockTarget(s)
  PROVE  AuthInv'
<1> DEFINE r == req[s]  tokens == IF r.kind = "suspend" THEN Unrevoked(r.user) ELSE {}
<1>1. /\ Tables /\ SessionInv(s) /\ pc[s] = "admins" /\ r \in Requests /\ r.kind \in AdminKinds
      /\ UserFree(r.user, s)
  BY DEF LockTarget, AuthInv, SessionInv, AtStatement, Carries
<1>2. r.user \in Users
  BY <1>1, RequestNames DEF AdminKinds
<1>3. CASE Refuse(s)
  BY <1>3, RefuseStep
<1>4. CASE /\ role[r.user] # "none" /\ ~LeavesNone(s)
           /\ LocksUser(s, r.user) /\ Plans(s, r.kind, role[r.user], tokens)
  <2>1. /\ userLock' \in [Users -> Sessions \cup {Nobody}] /\ tokenLock' = tokenLock
        /\ userLock'[r.user] = s
        /\ \A v \in Users : userLock[v] \in Sessions => userLock'[v] = userLock[v]
    BY <1>1, <1>2, <1>4, LockTaken
  <2>2. WillChange(s)'
    <3>1. plan'[s] = r.kind /\ req'[s] = r /\ got'[s] = got[s] /\ seen'[s] = tokens /\ UNCHANGED rows
      BY <1>1, <1>4 DEF Plans, Tables
    <3>2. Weakens(r) => got[s] \ {r.user} # {}
      BY <1>4 DEF Weakens, LeavesNone
    <3> QED BY <1>1, <1>4, <2>1, <3>1, <3>2 DEF WillChange, Weakens, rows, Unrevoked, TokensOf
  <2>3. /\ r.kind \in Decisions \ {"none"} /\ r.kind # "register" /\ role[r.user] \in Roles \cup {"none"}
        /\ tokens \in SUBSET Tokens /\ tokenLock' \in [Tokens -> Sessions \cup {Nobody}]
    BY <1>1, <1>2, <2>1 DEF Decisions, Kinds, AdminKinds, Tables, Unrevoked, TokensOf
  <2>4. Decided(s)'
    BY <2>2 DEF Decided
  <2> QED BY <1>1, <1>4, <2>1, <2>3, <2>4, PlanStep
<1> QED BY <1>3, <1>4 DEF LockTarget

----------------------------------------------------------------------------
(* Commits *)

\* What a commit of s does to the rows, whatever it had decided: it writes the
\* accounts it holds, or inserts one, and revokes no token another holds.
WritesItsOwn(s) ==
  /\ role' \in [Users -> Roles \cup {"none"}] /\ suspended' \in [Users -> BOOLEAN]
  /\ owner' \in [Tokens -> Users \cup {NoUser}] /\ badge' \in [Tokens -> Roles \cup {"none"}]
  /\ \A u \in Users :
       \/ /\ role'[u] = role[u] /\ suspended'[u] = suspended[u]
          /\ \A t \in Tokens : owner'[t] = u => owner[t] = u
       \/ userLock[u] = s
       \/ plan[s] = "register" /\ role[u] = "none" /\ u = req[s].user
  /\ \A t \in Tokens : IsIssued(t) => owner'[t] = owner[t]
  /\ \A t \in Tokens : owner'[t] # owner[t] => badge'[t] = role'[owner'[t]]
  /\ \A u \in Users : role[u] # "none" => role'[u] # "none"

RevokesItsOwn(s) ==
  /\ revoked' \subseteq Tokens /\ revoked \subseteq revoked' /\ seen[s] \subseteq revoked'
  /\ \A t \in revoked' \ revoked : tokenLock[t] \in {Nobody, s}

LEMMA CommitRevokes ==
  ASSUME AuthInv, NEW s \in Sessions, Commit(s)
  PROVE  RevokesItsOwn(s)
<1>1. Tables /\ Carries(s) /\ Decided(s) /\ pc[s] = "commit" /\ req[s] \in Requests
  BY DEF AuthInv, SessionInv, Carries, Commit
<1>2. \A t \in seen[s] : t \in Tokens /\ tokenLock[t] \in {Nobody, s}
  BY <1>1 DEF Commit, TokenFree, Tables
<1>3. plan[s] \in {"rotate", "logout"} => req[s].token \in Tokens /\ tokenLock[req[s].token] = s
  BY <1>1, RequestNames DEF Decided, WillRegister, WillLogin, WillRotate, WillReplay, WillLogout,
     WillChange, AdminKinds
<1>4. revoked' = revoked \cup Revokes(s) /\ revoked \subseteq Tokens
  BY <1>1 DEF Commit, Tables
<1> QED BY <1>2, <1>3, <1>4 DEF Revokes, RevokesItsOwn

\* A session opened for an account that is there, in the role it has.
LEMMA IssueRows ==
  ASSUME Tables, RowsHold, NEW s \in Sessions, NEW u \in Users, NEW t \in Tokens, ~IsIssued(t),
         Issues(t, u, role[u]), userLock[u] = s, role[u] # "none", ~suspended[u],
         role' = role, suspended' = suspended, revoked \subseteq revoked'
  PROVE  WritesItsOwn(s) /\ RowsHold'
<1>1. /\ owner' \in [Tokens -> Users \cup {NoUser}] /\ badge' \in [Tokens -> Roles \cup {"none"}]
      /\ owner'[t] = u /\ badge'[t] = role[u] /\ owner[t] = NoUser
      /\ \A v \in Tokens \ {t} : owner'[v] = owner[v]
  BY DEF Tables, Issues, IsIssued
<1>2. WritesItsOwn(s)
  BY <1>1 DEF Tables, WritesItsOwn, IsIssued
<1>3. RowsHold'
  BY <1>1 DEF RowsHold, AdministratorRemains, Unrevoked, TokensOf, IsIssued
<1> QED BY <1>2, <1>3

LEMMA CommitWrites ==
  ASSUME AuthInv, NEW s \in Sessions, Commit(s)
  PROVE  WritesItsOwn(s) /\ RowsHold'
<1> DEFINE r == req[s]  u == Subject(r)
<1>1. /\ Tables /\ RowsHold /\ Carries(s) /\ Counted(s) /\ Decided(s) /\ pc[s] = "commit"
      /\ r \in Requests /\ revoked \subseteq revoked' /\ seen[s] \subseteq revoked'
  BY CommitRevokes DEF AuthInv, SessionInv, Carries, Commit, RevokesItsOwn
<1>2. /\ plan[s] \in {"register", "login", "rotate"} =>
           \E t \in Tokens : ~IsIssued(t) /\ Issues(t, u, was[s])
      /\ plan[s] \notin {"register", "login", "rotate"} => UNCHANGED <<owner, badge>>
      /\ plan[s] = "register" => role' = [role EXCEPT ![u] = "trader"]
      /\ plan[s] = "role" => role' = [role EXCEPT ![u] = r.role]
      /\ plan[s] \notin {"register", "role"} => role' = role
      /\ plan[s] \in {"suspend", "unsuspend"} =>
           suspended' = [suspended EXCEPT ![u] = (plan[s] = "suspend")]
      /\ plan[s] \notin {"suspend", "unsuspend"} => suspended' = suspended
  BY DEF Commit, NoIssue
<1>3. CASE WillLogin(s) \/ WillRotate(s)
  <2>1. /\ plan[s] \in {"login", "rotate"} /\ userLock[u] = s /\ ~suspended[u] /\ was[s] = role[u]
    BY <1>3 DEF WillLogin, WillRotate, Subject
  <2>2. u \in Users /\ role[u] # "none"
    BY <1>1, <1>3, RequestNames DEF WillLogin, WillRotate, Subject, Carries, RowsHold
  <2>3. PICK t \in Tokens : ~IsIssued(t) /\ Issues(t, u, role[u])
    BY <1>2, <2>1
  <2> QED BY <1>1, <1>2, <2>1, <2>2, <2>3, IssueRows
<1>4. CASE WillReplay(s) \/ WillLogout(s)
  <2>1. UNCHANGED <<owner, badge, role, suspended>>
    BY <1>2, <1>4 DEF WillReplay, WillLogout
  <2>2. WritesItsOwn(s)
    BY <1>1, <2>1 DEF Tables, WritesItsOwn, IsIssued
  <2>3. RowsHold'
    BY <1>1, <2>1 DEF RowsHold, AdministratorRemains, Unrevoked, TokensOf, IsIssued
  <2> QED BY <2>2, <2>3
<1>5. CASE WillRegister(s)
  <2>1. /\ u = r.user /\ u \in Users /\ role[u] = "none" /\ was[s] = "trader" /\ plan[s] = "register"
    BY <1>1, <1>5, RequestNames DEF WillRegister, Subject
  <2>2. PICK t \in Tokens : ~IsIssued(t) /\ Issues(t, u, "trader")
    BY <1>2, <2>1
  <2>3. /\ owner' \in [Tokens -> Users \cup {NoUser}] /\ badge' \in [Tokens -> Roles \cup {"none"}]
        /\ owner'[t] = u /\ badge'[t] = "trader" /\ owner[t] = NoUser
        /\ \A v \in Tokens \ {t} : owner'[v] = owner[v]
    BY <1>1, <2>1, <2>2 DEF Tables, Issues, IsIssued, Roles
  <2>4. /\ role' \in [Users -> Roles \cup {"none"}] /\ role'[u] = "trader"
        /\ \A v \in Users \ {u} : role'[v] = role[v]
        /\ suspended' = suspended
    BY <1>1, <1>2, <2>1 DEF Tables, Roles
  <2>5. WritesItsOwn(s)
    BY <1>1, <2>1, <2>3, <2>4 DEF Tables, WritesItsOwn, IsIssued
  <2>6. ~suspended[u]
    BY <1>1, <2>1 DEF RowsHold
  <2>7. RowsHold'
    <3>1. AdministratorRemains'
      BY <1>1, <2>1, <2>4 DEF RowsHold, AdministratorRemains
    <3>2. \A v \in Users : suspended'[v] => role'[v] # "none" /\ Unrevoked(v)' = {}
      BY <1>1, <2>1, <2>3, <2>4, <2>6 DEF RowsHold, Unrevoked, TokensOf
    <3>3. \A v \in Tokens : IsIssued(v)' => role'[owner'[v]] # "none"
      BY <1>1, <2>1, <2>3, <2>4 DEF RowsHold, IsIssued, Tables
    <3> QED BY <3>1, <3>2, <3>3 DEF RowsHold
  <2> QED BY <2>5, <2>7
<1>6. CASE WillChange(s)
  <2>1. /\ plan[s] = r.kind /\ r.kind \in AdminKinds /\ u = r.user /\ u \in Users
        /\ userLock[u] = s /\ role[u] # "none" /\ r \in Request
    BY <1>1, <1>6, RequestNames DEF WillChange, Subject, AdminKinds
  <2>2. UNCHANGED <<owner, badge>>
    BY <1>2, <2>1 DEF AdminKinds
  <2>3. /\ role' \in [Users -> Roles \cup {"none"}] /\ suspended' \in [Users -> BOOLEAN]
        /\ \A v \in Users \ {u} : role'[v] = role[v] /\ suspended'[v] = suspended[v]
        /\ role'[u] = IF r.kind = "role" THEN r.role ELSE role[u]
        /\ suspended'[u] = IF r.kind = "role" THEN suspended[u] ELSE r.kind = "suspend"
        /\ r.role \in Roles
    <3>1. r.role \in Roles
      BY <2>1 DEF Request
    <3>2. CASE r.kind = "role"
      BY <1>1, <1>2, <2>1, <3>1, <3>2 DEF Tables
    <3>3. CASE r.kind \in {"suspend", "unsuspend"}
      <4>1. role' = role /\ suspended' = [suspended EXCEPT ![u] = (r.kind = "suspend")]
        BY <1>2, <2>1, <3>3
      <4>2. (r.kind = "suspend") \in BOOLEAN
        OBVIOUS
      <4> QED BY <1>1, <2>1, <3>1, <3>3, <4>1, <4>2 DEF Tables
    <3> QED BY <2>1, <3>2, <3>3 DEF AdminKinds
  <2>4. role'[u] # "none"
    BY <2>1, <2>3 DEF Roles
  <2>5. WritesItsOwn(s)
    BY <1>1, <2>1, <2>2, <2>3, <2>4 DEF Tables, WritesItsOwn
  <2>6. AdministratorRemains'
    <3>1. CASE Weakens(r)
      <4>1. PICK a \in got[s] \ {u} : TRUE
        BY <1>6, <2>1, <3>1 DEF WillChange
      <4>2. a \in Users /\ a # u /\ CanAct(a)
        BY <1>1, <4>1 DEF Counted, Tables
      <4> QED BY <2>3, <4>2 DEF AdministratorRemains, CanAct
    <3>2. CASE ~Weakens(r)
      <4>1. PICK a \in Users : role[a] = "admin" /\ ~suspended[a]
        BY <1>1 DEF RowsHold, AdministratorRemains
      <4>2. role'[a] = "admin" /\ ~suspended'[a]
        BY <2>1, <2>3, <3>2, <4>1 DEF Weakens, AdminKinds
      <4> QED BY <4>2 DEF AdministratorRemains
    <3> QED BY <3>1, <3>2
  <2>7. \A v \in Users : suspended'[v] => role'[v] # "none" /\ Unrevoked(v)' = {}
    <3>1. ASSUME NEW v \in Users, v # u, suspended'[v]
          PROVE  role'[v] # "none" /\ Unrevoked(v)' = {}
      BY <1>1, <2>2, <2>3, <3>1 DEF RowsHold, Unrevoked, TokensOf
    <3>2. ASSUME NEW v \in Users, v = u, suspended'[v]
          PROVE  Unrevoked(v)' = {}
      <4>1. CASE r.kind = "suspend"
        <5>1. v = r.user /\ Unrevoked(v) \subseteq seen[s]
          BY <1>6, <2>1, <3>2, <4>1 DEF WillChange
        <5> QED BY <1>1, <2>2, <5>1 DEF Unrevoked, TokensOf
      <4>2. CASE r.kind # "suspend"
        BY <1>1, <2>1, <2>2, <2>3, <3>2, <4>2 DEF RowsHold, Unrevoked, TokensOf
      <4> QED BY <4>1, <4>2
    <3> QED BY <2>4, <3>1, <3>2
  <2>8. \A t \in Tokens : IsIssued(t)' => role'[owner'[t]] # "none"
    BY <1>1, <2>2, <2>5 DEF RowsHold, IsIssued, WritesItsOwn, Tables
  <2> QED BY <2>5, <2>6, <2>7, <2>8 DEF RowsHold
<1> QED BY <1>1, <1>3, <1>4, <1>5, <1>6 DEF Decided

LEMMA CommitStep ==
  ASSUME AuthInv, NEW s \in Sessions, Commit(s)
  PROVE  AuthInv'
<1>1. End(s) /\ Tables /\ RowsHold /\ OneInsert /\ SessionInv(s) /\ pc[s] = "commit"
  BY DEF Commit, AuthInv
<1>2. WritesItsOwn(s) /\ RevokesItsOwn(s) /\ RowsHold'
  BY CommitRevokes, CommitWrites
<1>3. LeavesLocks(s) /\ SessionInv(s)' /\ plan'[s] = "none"
  BY <1>1, EndOfRequest
<1>4. Tables'
  BY <1>1, <1>2, EndOfRequest DEF Tables, WritesItsOwn, RevokesItsOwn
<1>5. ASSUME NEW o \in Sessions, o # s
      PROVE  SessionInv(o)'
  <2>1. SameRequest(o)
    BY <1>3, <1>5 DEF LeavesLocks
  <2>2. ASSUME NEW u \in Users, userLock[u] = o, role[u] # "none"
        PROVE  role'[u] = role[u] /\ suspended'[u] = suspended[u] /\ Unrevoked(u)' \subseteq Unrevoked(u)
    BY <1>2, <1>5, <2>2 DEF WritesItsOwn, RevokesItsOwn, Unrevoked, TokensOf
  <2>3. \A t \in Tokens : tokenLock[t] = o /\ t \notin revoked => t \notin revoked'
    BY <1>2, <1>5, AuthAssumption DEF RevokesItsOwn
  <2>4. Undisturbed(o)
    BY <1>2, <1>3, <1>5, <2>2, <2>3 DEF Undisturbed, LeavesLocks, WritesItsOwn
  <2>5. ASSUME plan[o] = "register"
        PROVE  role'[req[o].user] = "none"
    <3>1. WillRegister(o) /\ req[o] \in Requests
      BY <2>5 DEF AuthInv, SessionInv, AtStatement, Decided, Carries, WillRegister, WillLogin,
                  WillRotate, WillReplay, WillLogout, WillChange, AdminKinds
    <3>2. req[o].user \in Users /\ role[req[o].user] = "none"
      BY <1>1, <3>1, RequestNames DEF WillRegister
    <3>3. ~(plan[s] = "register" /\ req[s].user = req[o].user)
      BY <1>1, <1>5, <2>5 DEF OneInsert
    <3>4. role'[req[o].user] # role[req[o].user] => plan[s] = "register" /\ req[s].user = req[o].user
      BY <1>1, <3>2 DEF Commit, SessionInv, Decided, WillRegister, WillLogin, WillRotate,
                        WillReplay, WillLogout, WillChange, AdminKinds, Subject, Tables
    <3> QED BY <3>2, <3>3, <3>4
  <2> QED BY <2>1, <2>4, <2>5, OthersKeep
<1>6. OneInsert'
  BY <1>1, <1>3 DEF OneInsert, LeavesLocks, SameRequest
<1> QED BY <1>2, <1>3, <1>4, <1>5, <1>6 DEF AuthInv

----------------------------------------------------------------------------
(* The invariant *)

LEMMA InitHolds == Init => AuthInv
<1> SUFFICES ASSUME Init PROVE AuthInv
  OBVIOUS
<1>1. Tables
  BY AuthAssumption DEF Init, Tables, Roles, Decisions
<1>2. RowsHold
  BY AuthAssumption DEF Init, RowsHold, AdministratorRemains, IsIssued
<1>3. OneInsert
  BY DEF Init, OneInsert
<1>4. \A s \in Sessions : SessionInv(s)
  BY DEF Init, SessionInv, Carries, AtStatement, Counted, Decided
<1> QED BY <1>1, <1>2, <1>3, <1>4 DEF AuthInv

\* Expiry changes no row the invariant reads, and neither does a stutter.
LEMMA UnseenStep ==
  ASSUME AuthInv,
         UNCHANGED <<role, suspended, owner, badge, revoked, locks, inflight>>
  PROVE  AuthInv'
<1>1. Tables' /\ RowsHold' /\ OneInsert'
  BY DEF AuthInv, Tables, RowsHold, OneInsert, AdministratorRemains, Unrevoked, TokensOf, IsIssued,
         locks, inflight
<1>2. ASSUME NEW s \in Sessions
      PROVE  SessionInv(s)'
  <2>1. SessionInv(s) /\ SameRequest(s) /\ Undisturbed(s)
    BY DEF AuthInv, SameRequest, Undisturbed, Unrevoked, TokensOf, locks, inflight
  <2>2. plan[s] = "register" => role'[req[s].user] = "none"
    BY <2>1 DEF SessionInv, AtStatement, Decided, WillRegister, WillLogin, WillRotate,
                WillReplay, WillLogout, WillChange, AdminKinds
  <2> QED BY <2>1, <2>2, OthersKeep
<1> QED BY <1>1, <1>2 DEF AuthInv

LEMMA NextKeeps == AuthInv /\ [Next]_vars => AuthInv'
<1> SUFFICES ASSUME AuthInv, [Next]_vars PROVE AuthInv'
  OBVIOUS
<1>1. ASSUME NEW s \in Sessions, NEW r \in Requests, Ask(s, r) PROVE AuthInv'
  BY <1>1, AskStep
<1>2. ASSUME NEW s \in Sessions, InsertUser(s) PROVE AuthInv'
  BY <1>2, InsertUserStep
<1>3. ASSUME NEW s \in Sessions, LockUser(s) PROVE AuthInv'
  BY <1>3, LockUserStep
<1>4. ASSUME NEW s \in Sessions, LockToken(s) PROVE AuthInv'
  BY <1>4, LockTokenStep
<1>5. ASSUME NEW s \in Sessions, NEW order \in ScanOrders, ScanSet(s, order) PROVE AuthInv'
  BY <1>5, ScanSetStep
<1>6. ASSUME NEW s \in Sessions, NEW u \in Users, LockAdmin(s, u) PROVE AuthInv'
  BY <1>6, LockAdminStep
<1>7. ASSUME NEW s \in Sessions, LockTarget(s) PROVE AuthInv'
  BY <1>7, LockTargetStep
<1>8. ASSUME NEW s \in Sessions, Commit(s) PROVE AuthInv'
  BY <1>8, CommitStep
<1>9. ASSUME NEW s \in Sessions, Abort(s) PROVE AuthInv'
  BY <1>9, RefuseStep DEF Abort
<1>10. ASSUME NEW t \in Tokens, Expire(t) PROVE AuthInv'
  BY <1>10, UnseenStep DEF Expire
<1>11. CASE UNCHANGED vars
  BY <1>11, UnseenStep DEF vars, rows
<1> QED BY <1>1, <1>2, <1>3, <1>4, <1>5, <1>6, <1>7, <1>8, <1>9, <1>10, <1>11 DEF Next

LEMMA AuthInvariant == Spec => []AuthInv
<1>1. Init => AuthInv
  BY InitHolds
<1>2. AuthInv /\ [Next]_vars => AuthInv'
  BY NextKeeps
<1> QED BY <1>1, <1>2, PTL DEF Spec

----------------------------------------------------------------------------
(* What accounts and sessions promise *)

\* No race of demotions, suspensions and promotions, in whatever orders their
\* scans return the rows, leaves no administrator who can act (user_admin.py,
\* _lock_administrators).
THEOREM SomebodyCanAct == Spec => []AdministratorRemains
<1>1. AuthInv => AdministratorRemains
  BY DEF AuthInv, RowsHold
<1> QED BY <1>1, AuthInvariant, PTL

\* A suspended account holds no refresh token that is not revoked, whatever
\* logins and rotations were in flight (auth_service.py, authenticate).
THEOREM SuspensionHolds == Spec => []SuspendedHoldsNothing
<1>1. AuthInv => SuspendedHoldsNothing
  BY DEF AuthInv, RowsHold, SuspendedHoldsNothing
<1> QED BY <1>1, AuthInvariant, PTL

\* A rotation commits only from a token nothing has revoked, so a token is
\* exchanged once and never after its logout (auth_service.py,
\* rotate_refresh_token).
THEOREM ExchangedOnce == Spec => ExchangedWhileLive
<1> DEFINE Step(s) == plan[s] = "rotate" /\ owner' # owner /\ pc'[s] # pc[s] =>
                        req[s].token \notin revoked
<1>1. ASSUME AuthInv, NEW s \in Sessions PROVE Step(s)
  BY <1>1 DEF AuthInv, SessionInv, AtStatement, Decided, WillRegister, WillLogin, WillRotate,
              WillReplay, WillLogout, WillChange, AdminKinds
<1>2. AuthInv => [\A s \in Sessions : Step(s)]_vars
  BY <1>1
<1> QED BY <1>2, AuthInvariant, PTL DEF ExchangedWhileLive

\* A session is only ever opened in the role its account has at that commit
\* (auth_service.py, issue_tokens).
THEOREM OpenedInItsRole == Spec => BadgeIsCurrent
<1> DEFINE Fits == \A t \in Tokens : owner'[t] # owner[t] => badge'[t] = role'[owner'[t]]
<1>1. ASSUME AuthInv, NEW s \in Sessions, Commit(s) PROVE Fits
  BY <1>1, CommitWrites DEF WritesItsOwn
<1>2. ASSUME Next, \A s \in Sessions : ~Commit(s) PROVE owner' = owner
  BY <1>2 DEF Next, Ask, InsertUser, LockUser, LockToken, ScanSet, LockAdmin, LockTarget, Abort,
              Expire, Refuse, Plans, rows
<1>3. AuthInv /\ [Next]_vars => [Fits]_vars
  BY <1>1, <1>2
<1> QED BY <1>3, AuthInvariant, PTL DEF BadgeIsCurrent, Spec

\* When a replay's request commits, its owner holds no live token at all: one
\* being inserted by a rotation was committed before it looked, or waits
\* (auth_service.py, revoke_all_for_user).
THEOREM ReplayEndsAll == Spec => ReplayClosesAll
<1> DEFINE Step(s) == plan[s] = "replay" /\ rows' # rows /\ pc'[s] # pc[s] =>
                        TokensOf(Subject(req[s])) \subseteq revoked'
<1>1. ASSUME AuthInv, NEW s \in Sessions, Commit(s) PROVE Step(s)
  <2>1. Decided(s) /\ seen[s] \subseteq revoked' /\ revoked \subseteq revoked' /\ pc[s] = "commit"
    BY <1>1, CommitRevokes DEF RevokesItsOwn, AuthInv, SessionInv, Commit
  <2>2. plan[s] = "replay" => WillReplay(s)
    BY <2>1 DEF Decided, WillRegister, WillLogin, WillRotate, WillLogout, WillChange, AdminKinds
  <2> QED BY <2>1, <2>2 DEF WillReplay, Subject, Unrevoked
<1>2. ASSUME AuthInv, Next, NEW s \in Sessions, ~Commit(s) PROVE pc'[s] # pc[s] /\ plan[s] = "replay" => rows' = rows
  <2>1. SUFFICES ASSUME pc'[s] # pc[s], plan[s] = "replay" PROVE rows' = rows
    OBVIOUS
  <2>2. pc[s] = "commit" /\ pc \in [Sessions -> {"idle", "insert", "user", "token", "set", "admins", "commit"}]
    BY <1>2, <2>1 DEF AuthInv, SessionInv, AtStatement, Tables
  <2>3. ASSUME NEW o \in Sessions, o # s, Commit(o) PROVE FALSE
    BY <2>1, <2>2, <2>3 DEF Commit, End
  <2>4. ASSUME NEW o \in Sessions, ~Commit(o),
               (\E r \in Requests : Ask(o, r)) \/ InsertUser(o) \/ LockUser(o) \/ LockToken(o)
               \/ (\E order \in ScanOrders : ScanSet(o, order)) \/ (\E u \in Users : LockAdmin(o, u))
               \/ LockTarget(o) \/ Abort(o)
        PROVE  rows' = rows
    BY <2>4 DEF Ask, InsertUser, LockUser, LockToken, ScanSet, LockAdmin, LockTarget, Abort, Refuse,
                Plans, rows
  <2>5. ASSUME NEW t \in Tokens, Expire(t) PROVE FALSE
    BY <2>1, <2>5 DEF Expire, inflight
  <2> QED BY <1>2, <2>3, <2>4, <2>5 DEF Next
<1>3. AuthInv /\ [Next]_vars => [\A s \in Sessions : Step(s)]_vars
  BY <1>1, <1>2
<1> QED BY <1>3, AuthInvariant, PTL DEF ReplayClosesAll, Spec


----------------------------------------------------------------------------
(* The rest of the type invariant *)

\* A lock is held by a request in flight, and what is revoked, expired or about
\* to be was issued.
Tidy ==
  /\ expired \subseteq Tokens /\ \A t \in revoked \cup expired : IsIssued(t)
  /\ todo \in [Sessions -> SUBSET Users] /\ scan \in [Sessions -> ScanOrders]
  /\ \A u \in Users : userLock[u] \in Sessions => pc[userLock[u]] # "idle"
  /\ \A t \in Tokens : tokenLock[t] \in Sessions => pc[tokenLock[t]] # "idle"
  /\ \A s \in Sessions : \A t \in seen[s] : IsIssued(t)

\* What s does to the locks: it is in flight with those it takes, or it ends.
Holds(s) ==
  /\ \A o \in Sessions \ {s} : pc'[o] = pc[o]
  /\ \A u \in Users : userLock'[u] \in Sessions \ {s} => userLock'[u] = userLock[u]
  /\ \A t \in Tokens : tokenLock'[t] \in Sessions \ {s} => tokenLock'[t] = tokenLock[t]
  /\ pc'[s] = "idle" =>
       /\ \A u \in Users : userLock'[u] # s
       /\ \A t \in Tokens : tokenLock'[t] # s

LEMMA TidyKept ==
  ASSUME Tables, Tidy, NEW s \in Sessions, Holds(s), revoked' \subseteq Tokens,
         todo' \in [Sessions -> SUBSET Users], scan' \in [Sessions -> ScanOrders],
         UNCHANGED expired, \A t \in Tokens : IsIssued(t) => owner'[t] = owner[t],
         \A t \in revoked' \ revoked : IsIssued(t),
         \A o \in Sessions : seen'[o] # seen[o] => \A t \in seen'[o] : t \in Tokens /\ IsIssued(t)
  PROVE  Tidy'
<1>1. \A u \in Users : userLock'[u] \in Sessions => pc'[userLock'[u]] # "idle"
  BY DEF Tidy, Holds
<1>2. \A t \in Tokens : tokenLock'[t] \in Sessions => pc'[tokenLock'[t]] # "idle"
  BY DEF Tidy, Holds
<1>3. \A o \in Sessions : \A t \in seen'[o] : IsIssued(t)'
  BY DEF Tidy, IsIssued, Tables
<1>4. \A t \in revoked' \cup expired' : IsIssued(t)'
  BY DEF Tidy, IsIssued, Tables
<1> QED BY <1>1, <1>2, <1>3, <1>4 DEF Tidy

\* The end of a request lets go of its locks and of no other's.
LEMMA EndTidies ==
  ASSUME Tables, Tidy, NEW s \in Sessions, End(s)
  PROVE  /\ Holds(s) /\ todo' \in [Sessions -> SUBSET Users] /\ scan' \in [Sessions -> ScanOrders]
         /\ \A o \in Sessions : seen'[o] # seen[o] => seen'[o] = {}
<1>1. AnyOrder \in ScanOrders
  BY AuthAssumption DEF AnyOrder
<1>2. Holds(s)
  BY AuthAssumption DEF End, Released, Tables, Holds
<1>3. todo' \in [Sessions -> SUBSET Users] /\ scan' \in [Sessions -> ScanOrders]
  BY <1>1 DEF End, Tidy
<1>4. \A o \in Sessions : seen'[o] # seen[o] => seen'[o] = {}
  BY DEF End, Tables
<1> QED BY <1>2, <1>3, <1>4

\* A row taken by a request that goes on.
LEMMA TakenHolds ==
  ASSUME Tables, NEW s \in Sessions, pc'[s] # "idle",
         \A o \in Sessions \ {s} : pc'[o] = pc[o],
         \/ UNCHANGED locks
         \/ \E u \in Users : LocksUser(s, u)
         \/ \E t \in Tokens : LocksToken(s, t)
  PROVE  Holds(s)
BY DEF Holds, locks, LocksUser, LocksToken, Tables

\* Steps that decide, or lock, and write no row.
LEMMA TidyStep ==
  ASSUME AuthInv, Tidy, NEW s \in Sessions,
         \/ \E r \in Requests : Ask(s, r)
         \/ InsertUser(s) \/ LockUser(s) \/ LockToken(s)
         \/ \E order \in ScanOrders : ScanSet(s, order)
         \/ \E u \in Users : LockAdmin(s, u)
         \/ LockTarget(s) \/ Abort(s)
  PROVE  Tidy' /\ UNCHANGED rows
<1>1. Tables /\ SessionInv(s) /\ RowsHold
  BY DEF AuthInv
<1>2. ASSUME Refuse(s) PROVE Tidy' /\ UNCHANGED rows
  BY <1>1, <1>2, EndTidies, TidyKept DEF Refuse, rows, Tables
<1>3. ASSUME NEW what, NEW read, NEW tokens, Plans(s, what, read, tokens),
             tokens = {} \/ \E u \in Users : tokens = Unrevoked(u),
             \/ UNCHANGED locks
             \/ \E u \in Users : LocksUser(s, u)
             \/ \E t \in Tokens : LocksToken(s, t)
      PROVE  Tidy' /\ UNCHANGED rows
  <2>1. /\ pc'[s] # "idle"
        /\ \A o \in Sessions \ {s} : pc'[o] = pc[o] /\ seen'[o] = seen[o]
        /\ seen'[s] = tokens /\ UNCHANGED rows /\ UNCHANGED <<todo, scan>>
    BY <1>1, <1>3 DEF Plans, Tables
  <2>2. Holds(s)
    BY <1>1, <1>3, <2>1, TakenHolds
  <2>3. \A t \in tokens : t \in Tokens /\ IsIssued(t)
    BY <1>3, AuthAssumption DEF Unrevoked, TokensOf, IsIssued
  <2> QED BY <1>1, <2>1, <2>2, <2>3, TidyKept DEF rows, Tidy, Tables
<1>4. ASSUME NEW r \in Requests, Ask(s, r) PROVE Tidy' /\ UNCHANGED rows
  <2>1. First(r) \in {"insert", "user", "token", "set"}
    BY AuthAssumption DEF First, AdminKinds, Request, Kinds
  <2>2. /\ pc'[s] # "idle"
        /\ \A o \in Sessions \ {s} : pc'[o] = pc[o]
    BY <1>1, <1>4, <2>1 DEF Ask, Tables
  <2>3. Holds(s)
    BY <1>1, <1>4, <2>2, TakenHolds DEF Ask
  <2> QED BY <1>1, <1>4, <2>3, TidyKept DEF Ask, rows, Tidy, Tables
<1>5. ASSUME InsertUser(s) PROVE Tidy' /\ UNCHANGED rows
  BY <1>2, <1>3, <1>5 DEF InsertUser
<1>6. ASSUME pc[s] # "idle"
      PROVE  Subject(req[s]) \in Users \/ req[s].kind = "logout"
  BY <1>1, <1>6, RequestNames DEF SessionInv, Carries, Subject
<1>7. ASSUME LockUser(s) PROVE Tidy' /\ UNCHANGED rows
  <2>1. Subject(req[s]) \in Users
    BY <1>1, <1>6, <1>7 DEF LockUser, SessionInv, AtStatement
  <2>2. CASE /\ LocksUser(s, Subject(req[s])) /\ pc' = [pc EXCEPT ![s] = "token"]
             /\ UNCHANGED <<rows, req, todo, scan, got, plan, was, seen>>
    <3>1. /\ pc'[s] # "idle"
          /\ \A o \in Sessions \ {s} : pc'[o] = pc[o]
      BY <1>1, <2>2 DEF Tables
    <3>2. Holds(s)
      BY <1>1, <2>1, <2>2, <3>1, TakenHolds
    <3> QED BY <1>1, <2>2, <3>2, TidyKept DEF rows, Tidy, Tables
  <2> QED BY <1>2, <1>3, <1>7, <2>1, <2>2 DEF LockUser
<1>8. ASSUME LockToken(s) PROVE Tidy' /\ UNCHANGED rows
  <2>1. req[s].token \in Tokens /\ (req[s].kind = "refresh" => Subject(req[s]) \in Users)
    BY <1>1, <1>6, <1>8, RequestNames DEF LockToken, SessionInv, AtStatement, Carries
  <2> QED BY <1>2, <1>3, <1>8, <2>1 DEF LockToken
<1>9. ASSUME NEW order \in ScanOrders, ScanSet(s, order) PROVE Tidy' /\ UNCHANGED rows
  <2>1. /\ pc'[s] # "idle"
        /\ \A o \in Sessions \ {s} : pc'[o] = pc[o]
    BY <1>1, <1>9 DEF ScanSet, Tables
  <2>2. todo' \in [Sessions -> SUBSET Users] /\ scan' \in [Sessions -> ScanOrders]
    BY <1>9 DEF ScanSet, Tidy
  <2>3. Holds(s)
    BY <1>1, <1>9, <2>1, TakenHolds DEF ScanSet
  <2> QED BY <1>1, <1>9, <2>2, <2>3, TidyKept DEF ScanSet, rows, Tables
<1>10. ASSUME NEW u \in Users, LockAdmin(s, u) PROVE Tidy' /\ UNCHANGED rows
  <2>1. /\ pc'[s] # "idle"
        /\ \A o \in Sessions \ {s} : pc'[o] = pc[o]
    BY <1>1, <1>10 DEF LockAdmin, Tables
  <2>2. todo' \in [Sessions -> SUBSET Users] /\ scan' \in [Sessions -> ScanOrders]
    BY <1>10 DEF LockAdmin, Tidy
  <2>3. Holds(s)
    BY <1>1, <1>10, <2>1, TakenHolds DEF LockAdmin
  <2> QED BY <1>1, <1>10, <2>2, <2>3, TidyKept DEF LockAdmin, rows, Tables
<1>11. ASSUME LockTarget(s) PROVE Tidy' /\ UNCHANGED rows
  <2>1. req[s].user \in Users
    BY <1>1, <1>11, RequestNames DEF LockTarget, SessionInv, AtStatement, Carries, AdminKinds
  <2> QED BY <1>2, <1>3, <1>11, <2>1 DEF LockTarget
<1> QED BY <1>2, <1>4, <1>5, <1>7, <1>8, <1>9, <1>10, <1>11 DEF Abort

LEMMA TidyCommit ==
  ASSUME AuthInv, Tidy, NEW s \in Sessions, Commit(s)
  PROVE  Tidy'
<1>1. /\ Tables /\ End(s) /\ Carries(s) /\ Decided(s) /\ pc[s] = "commit" /\ UNCHANGED expired
      /\ revoked' = revoked \cup Revokes(s)
  BY DEF AuthInv, SessionInv, Commit
<1>2. RevokesItsOwn(s) /\ WritesItsOwn(s)
  BY CommitRevokes, CommitWrites
<1>3. plan[s] \in {"rotate", "logout"} => IsIssued(req[s].token)
  BY <1>1 DEF Decided, Carries, WillRegister, WillLogin, WillRotate, WillReplay, WillLogout,
              WillChange, AdminKinds
<1>4. \A t \in revoked' \ revoked : IsIssued(t)
  BY <1>1, <1>3 DEF Revokes, Tidy
<1> QED BY <1>1, <1>2, <1>4, EndTidies, TidyKept DEF RevokesItsOwn, WritesItsOwn

----------------------------------------------------------------------------
(* The audit log *)

Sorts == {"role", "suspension"}

LogEntry == [target : Users, kind : Sorts, from : Roles \cup {"none", "active", "suspended"},
             to : Roles \cup {"active", "suspended"}]

\* What the log says of one account, its entries and the row it is now.
TellsOf(u) ==
  /\ \A kind \in Sorts : \A i \in About(u, kind, Len(log)) :
       log[i].from = ToldAt(u, kind, i - 1) /\ log[i].from # log[i].to
  /\ IF role[u] = "none" THEN About(u, "role", Len(log)) = {}
                         ELSE role[u] = ToldAt(u, "role", Len(log))
  /\ ToldAt(u, "suspension", Len(log)) = IF suspended[u] THEN "suspended" ELSE "active"

\* What an administrator's request read of the row it holds is what it still is,
\* and is not what is asked for.
WasRead(s) ==
  plan[s] \in AdminKinds => was[s] = role[req[s].user] /\ ~IsHeld(req[s])

LogInv ==
  /\ log \in Seq(LogEntry) /\ Len(log) <= MaxEntries
  /\ \A u \in FirstAdmins : role[u] # "none"
  /\ \A s \in Sessions : WasRead(s)
  /\ \A u \in Users : TellsOf(u)

\* One entry more leaves what the log said of the entries before it, and is the
\* last thing said of the account it names.
LEMMA OneMore ==
  ASSUME log \in Seq(LogEntry), NEW e \in LogEntry, log' = Append(log, e),
         NEW u \in Users, NEW kind \in Sorts
  PROVE  /\ \A m \in 0 .. Len(log) : ToldAt(u, kind, m)' = ToldAt(u, kind, m)
         /\ About(u, kind, Len(log))' =
              About(u, kind, Len(log)) \cup
              (IF e.target = u /\ e.kind = kind THEN {Len(log) + 1} ELSE {})
         /\ ToldAt(u, kind, Len(log))' =
              IF e.target = u /\ e.kind = kind THEN e.to ELSE ToldAt(u, kind, Len(log))
<1>1. PICK k \in Nat : k = Len(log)
  OBVIOUS
<1>2. Len(log') = k + 1 /\ log'[k + 1] = e /\ \A i \in 1 .. k : log'[i] = log[i]
  BY <1>1
<1>3. ASSUME NEW m \in 0 .. k
      PROVE  About(u, kind, m)' = About(u, kind, m) /\ ToldAt(u, kind, m)' = ToldAt(u, kind, m)
  <2> DEFINE A == About(u, kind, m)
  <2>1. {i \in 1 .. m : log'[i].target = u /\ log'[i].kind = kind} =
          {i \in 1 .. m : log[i].target = u /\ log[i].kind = kind}
    BY <1>2
  <2>2. About(u, kind, m)' = A /\ A \in SUBSET (1 .. k)
    BY <2>1, <1>2 DEF About
  <2> HIDE DEF A
  <2>3. CASE A = {}
    BY <2>2, <2>3 DEF ToldAt, StartedAs, A
  <2>4. CASE A # {}
    <3>1. \E i \in A : \A j \in A : j <= i
      <4>1. A \in SUBSET (0 .. k)
        BY <2>2
      <4> QED BY <2>4, <4>1, Greatest
    <3>2. PICK c : c = CHOOSE i \in A : \A j \in A : j <= i
      OBVIOUS
    <3>3. c \in A
      BY <3>1, <3>2
    <3>4. log'[c] = log[c]
      BY <1>2, <2>2, <3>3
    <3>5. ToldAt(u, kind, m) = log[c].to
      BY <2>4, <3>2 DEF ToldAt, A
    <3>6. ToldAt(u, kind, m)' = log'[c].to
      BY <2>2, <2>4, <3>2 DEF ToldAt
    <3> QED BY <2>2, <3>4, <3>5, <3>6 DEF A
  <2> QED BY <2>2, <2>3, <2>4 DEF A
<1> DEFINE Names == e.target = u /\ e.kind = kind
           new == {i \in 1 .. k + 1 : log'[i].target = u /\ log'[i].kind = kind}
<1>4. new = {i \in 1 .. k : log[i].target = u /\ log[i].kind = kind} \cup (IF Names THEN {k + 1} ELSE {})
  BY <1>2
<1>5. About(u, kind, Len(log))' = About(u, kind, k) \cup (IF Names THEN {k + 1} ELSE {})
  BY <1>2, <1>4 DEF About
<1>6. CASE ~ Names
  <2>1. About(u, kind, Len(log))' = About(u, kind, k)'
    BY <1>3, <1>5, <1>6
  <2>2. ToldAt(u, kind, Len(log))' = ToldAt(u, kind, k)'
    BY <2>1 DEF ToldAt
  <2> QED BY <1>1, <1>3, <1>5, <1>6, <2>2
<1>7. CASE Names
  <2>1. PICK A : A = About(u, kind, Len(log))'
    OBVIOUS
  <2>2. A # {} /\ k + 1 \in A /\ \A j \in A : j \in Nat /\ j <= k + 1
    BY <1>5, <1>7, <2>1 DEF About
  <2>3. PICK c : c = CHOOSE i \in A : \A j \in A : j <= i
    OBVIOUS
  <2>4. c \in A /\ \A j \in A : j <= c
    BY <2>2, <2>3
  <2>5. c = k + 1
    BY <2>2, <2>4
  <2>6. ToldAt(u, kind, Len(log))' = log'[c].to
    BY <2>1, <2>2, <2>3 DEF ToldAt
  <2> QED BY <1>1, <1>2, <1>3, <1>5, <1>7, <2>5, <2>6
<1> QED BY <1>6, <1>7

\* A log that stays tells the same.
LEMMA SameTold ==
  ASSUME log' = log, NEW u, NEW kind
  PROVE  /\ \A m : About(u, kind, m)' = About(u, kind, m) /\ ToldAt(u, kind, m)' = ToldAt(u, kind, m)
         /\ About(u, kind, Len(log))' = About(u, kind, Len(log))
         /\ ToldAt(u, kind, Len(log))' = ToldAt(u, kind, Len(log))
<1>1. PICK n : n = Len(log) /\ n = Len(log)'
  OBVIOUS
<1>2. ASSUME NEW m PROVE About(u, kind, m)' = About(u, kind, m)
  BY DEF About
<1>3. ASSUME NEW m PROVE ToldAt(u, kind, m)' = ToldAt(u, kind, m)
  <2>1. PICK A : A = About(u, kind, m)
    OBVIOUS
  <2>2. A = About(u, kind, m)'
    BY <1>2, <2>1
  <2>3. PICK c : c = CHOOSE i \in A : \A j \in A : j <= i
    OBVIOUS
  <2> QED BY <2>1, <2>2, <2>3 DEF ToldAt, StartedAs
<1>4. About(u, kind, Len(log))' = About(u, kind, n)' /\ ToldAt(u, kind, Len(log))' = ToldAt(u, kind, n)'
  BY <1>1 DEF About, ToldAt
<1> QED BY <1>1, <1>2, <1>3, <1>4

LEMMA SameLog ==
  ASSUME NEW u \in Users, log' = log, role'[u] = role[u], suspended'[u] = suspended[u], TellsOf(u)
  PROVE  TellsOf(u)'
BY SameTold DEF TellsOf

\* An entry that starts where the account is, written with the row it tells of.
LEMMA EntryTells ==
  ASSUME log \in Seq(LogEntry), NEW e \in LogEntry, log' = Append(log, e),
         NEW u \in Users, TellsOf(u), e.from # e.to,
         role'[u] = "none" <=> role[u] = "none", e.target = u => role[u] # "none",
         e.target # u => role'[u] = role[u] /\ suspended'[u] = suspended[u],
         e.target = u /\ e.kind = "role" =>
           e.from = role[u] /\ e.to = role'[u] /\ suspended'[u] = suspended[u],
         e.target = u /\ e.kind = "suspension" =>
           /\ e.from = (IF suspended[u] THEN "suspended" ELSE "active")
           /\ e.to = (IF suspended'[u] THEN "suspended" ELSE "active")
           /\ role'[u] = role[u]
  PROVE  TellsOf(u)'
<1>1. PICK k \in Nat : k = Len(log)
  OBVIOUS
<1>2. log'[k + 1] = e /\ \A i \in 1 .. k : log'[i] = log[i]
  BY <1>1
<1>3. ASSUME NEW kind \in Sorts
      PROVE  /\ \A m \in 0 .. k : ToldAt(u, kind, m)' = ToldAt(u, kind, m)
             /\ About(u, kind, Len(log))' =
                  About(u, kind, k) \cup (IF e.target = u /\ e.kind = kind THEN {k + 1} ELSE {})
             /\ ToldAt(u, kind, Len(log))' =
                  IF e.target = u /\ e.kind = kind THEN e.to ELSE ToldAt(u, kind, k)
  BY <1>1, OneMore
<1>4. ASSUME NEW kind \in Sorts, e.target = u, e.kind = kind
      PROVE  e.from = ToldAt(u, kind, k)
  BY <1>1, <1>4 DEF TellsOf, Sorts
<1>5. ASSUME NEW kind \in Sorts, NEW i \in About(u, kind, Len(log))'
      PROVE  log'[i].from = ToldAt(u, kind, i - 1)' /\ log'[i].from # log'[i].to
  <2>1. CASE i \in About(u, kind, k)
    <3>1. i \in 1 .. k /\ i - 1 \in 0 .. k
      BY <2>1 DEF About
    <3>2. log[i].from = ToldAt(u, kind, i - 1) /\ log[i].from # log[i].to
      BY <1>1, <2>1 DEF TellsOf
    <3> QED BY <1>2, <1>3, <3>1, <3>2
  <2>2. CASE e.target = u /\ e.kind = kind /\ i = k + 1
    <3>1. i - 1 = k /\ k \in 0 .. k
      BY <2>2
    <3>2. ToldAt(u, kind, i - 1)' = ToldAt(u, kind, k)
      BY <1>3, <3>1
    <3>3. e.from = ToldAt(u, kind, k) /\ log'[i] = e
      BY <1>2, <1>4, <2>2
    <3> QED BY <3>2, <3>3
  <2> QED BY <1>3, <1>5, <2>1, <2>2
<1>6. IF role'[u] = "none" THEN About(u, "role", Len(log))' = {}
                             ELSE ToldAt(u, "role", Len(log))' = role'[u]
  BY <1>1, <1>3 DEF TellsOf, Sorts, LogEntry
<1>7. ToldAt(u, "suspension", Len(log))' = IF suspended'[u] THEN "suspended" ELSE "active"
  BY <1>1, <1>3 DEF TellsOf, Sorts, LogEntry
<1> QED BY <1>5, <1>6, <1>7 DEF TellsOf

----------------------------------------------------------------------------
(* Steps *)

\* A request that is over has written nothing it did not read.
LEMMA KeptRead ==
  ASSUME AuthInv, LogInv, NEW s \in Sessions, LeavesLocks(s), WasRead(s)', UNCHANGED rows
  PROVE  LogInv'
<1>1. ASSUME NEW o \in Sessions, o # s PROVE WasRead(o)'
  BY <1>1 DEF LogInv, LeavesLocks, SameRequest, WasRead, IsHeld, rows
<1>2. ASSUME NEW u \in Users PROVE TellsOf(u)'
  BY SameLog DEF LogInv, rows
<1> QED BY <1>1, <1>2 DEF LogInv, rows

LEMMA LogQuiet ==
  ASSUME AuthInv, LogInv, NEW s \in Sessions,
         \/ \E r \in Requests : Ask(s, r)
         \/ InsertUser(s) \/ LockUser(s) \/ LockToken(s)
         \/ \E order \in ScanOrders : ScanSet(s, order)
         \/ \E u \in Users : LockAdmin(s, u)
         \/ LockTarget(s) \/ Abort(s)
  PROVE  LogInv'
<1>1. Tables /\ SessionInv(s)
  BY DEF AuthInv
<1>2. ASSUME Refuse(s) PROVE LogInv'
  BY <1>2, EndOfRequest, KeptRead DEF Refuse, WasRead, AdminKinds
<1>3. ASSUME UNCHANGED rows, plan' = plan, plan[s] = "none",
             \A o \in Sessions \ {s} : req'[o] = req[o], UNCHANGED was
      PROVE  LogInv'
  <2>1. ASSUME NEW o \in Sessions PROVE WasRead(o)'
    BY <1>3 DEF LogInv, WasRead, IsHeld, rows, AdminKinds
  <2>2. ASSUME NEW u \in Users PROVE TellsOf(u)'
    BY <1>3, SameLog DEF LogInv, rows
  <2> QED BY <1>3, <2>1, <2>2 DEF LogInv, rows
<1>4. ASSUME NEW what, NEW read, NEW tokens, Plans(s, what, read, tokens),
             what \in AdminKinds => read = role[req[s].user] /\ ~IsHeld(req[s])
      PROVE  LogInv'
  <2>1. plan'[s] = what /\ was'[s] = read /\ UNCHANGED <<rows, req>>
    BY <1>1, <1>4 DEF Plans, Tables
  <2>2. \A o \in Sessions \ {s} : plan'[o] = plan[o] /\ was'[o] = was[o]
    BY <1>1, <1>4 DEF Plans, Tables
  <2>3. ASSUME NEW o \in Sessions PROVE WasRead(o)'
    <3>1. WasRead(o)
      BY DEF LogInv
    <3>2. CASE o = s
      BY <1>4, <2>1, <3>2 DEF WasRead, IsHeld, rows
    <3>3. CASE o # s
      BY <2>1, <2>2, <3>1, <3>3 DEF WasRead, IsHeld, rows
    <3> QED BY <3>2, <3>3
  <2>4. ASSUME NEW u \in Users PROVE TellsOf(u)'
    BY <2>1, SameLog DEF LogInv, rows
  <2> QED BY <2>1, <2>3, <2>4 DEF LogInv, rows
<1>5. pc[s] # "commit" => plan[s] = "none"
  BY <1>1 DEF SessionInv, AtStatement
<1>6. ASSUME NEW r \in Requests, Ask(s, r) PROVE LogInv'
  BY <1>1, <1>3, <1>5, <1>6 DEF Ask, Tables
<1>7. ASSUME InsertUser(s) PROVE LogInv'
  BY <1>2, <1>4, <1>7 DEF InsertUser, AdminKinds
<1>8. ASSUME LockUser(s) PROVE LogInv'
  BY <1>2, <1>3, <1>4, <1>5, <1>8 DEF LockUser, AdminKinds
<1>9. ASSUME LockToken(s) PROVE LogInv'
  BY <1>2, <1>4, <1>9 DEF LockToken, AdminKinds
<1>10. ASSUME NEW order \in ScanOrders, ScanSet(s, order) PROVE LogInv'
  BY <1>3, <1>5, <1>10 DEF ScanSet
<1>11. ASSUME NEW u \in Users, LockAdmin(s, u) PROVE LogInv'
  BY <1>3, <1>5, <1>11 DEF LockAdmin
<1>12. ASSUME LockTarget(s) PROVE LogInv'
  BY <1>2, <1>4, <1>12 DEF LockTarget
<1> QED BY <1>2, <1>6, <1>7, <1>8, <1>9, <1>10, <1>11, <1>12 DEF Abort

\* The commit of an administrator's request writes the entry with the row.
LEMMA LogCommit ==
  ASSUME AuthInv, LogInv, NEW s \in Sessions, Commit(s)
  PROVE  LogInv'
<1> DEFINE r == req[s]  u == Subject(r)
<1>1. /\ Tables /\ RowsHold /\ Carries(s) /\ Decided(s) /\ WasRead(s) /\ r \in Requests
      /\ pc[s] = "commit" /\ End(s)
  BY DEF AuthInv, SessionInv, Carries, Commit, LogInv
<1>2. /\ plan[s] = "register" => role' = [role EXCEPT ![u] = "trader"]
      /\ plan[s] = "role" => role' = [role EXCEPT ![u] = r.role]
      /\ plan[s] \notin {"register", "role"} => role' = role
      /\ plan[s] \in {"suspend", "unsuspend"} =>
           suspended' = [suspended EXCEPT ![u] = (plan[s] = "suspend")]
      /\ plan[s] \notin {"suspend", "unsuspend"} => suspended' = suspended
      /\ plan[s] \in AdminKinds => Len(log) < MaxEntries /\ log' = Append(log, Entry(s))
      /\ plan[s] \notin AdminKinds => log' = log
  BY DEF Commit
<1>3. WritesItsOwn(s)
  BY CommitWrites
<1>4. \A v \in FirstAdmins : role'[v] # "none"
  BY <1>3, AuthAssumption DEF WritesItsOwn, LogInv
<1>5. ASSUME NEW o \in Sessions PROVE WasRead(o)'
  <2>1. LeavesLocks(s) /\ plan'[s] = "none"
    BY <1>1, EndOfRequest
  <2>2. CASE o = s
    BY <2>1, <2>2 DEF WasRead, AdminKinds
  <2>3. CASE o # s /\ plan[o] \in AdminKinds
    <3>1. SameRequest(o) /\ WasRead(o) /\ SessionInv(o)
      BY <2>1, <2>3 DEF LeavesLocks, LogInv, AuthInv
    <3>2. WillChange(o) /\ req[o] \in Requests
      BY <2>3, <3>1 DEF SessionInv, AtStatement, Decided, Carries, AdminKinds, WillRegister,
                        WillLogin, WillRotate, WillReplay, WillLogout
    <3>3. req[o].user \in Users /\ userLock[req[o].user] = o /\ role[req[o].user] # "none"
      BY <1>1, <3>2, RequestNames DEF WillChange, AdminKinds
    <3>4. role'[req[o].user] = role[req[o].user] /\ suspended'[req[o].user] = suspended[req[o].user]
      BY <1>3, <2>3, <3>3 DEF WritesItsOwn
    <3> QED BY <2>3, <3>1, <3>4 DEF WasRead, SameRequest, IsHeld
  <2>4. CASE o # s /\ plan[o] \notin AdminKinds
    BY <2>1, <2>4 DEF LeavesLocks, SameRequest, WasRead
  <2> QED BY <2>2, <2>3, <2>4
<1>6. CASE plan[s] \notin AdminKinds
  <2>1. log' = log /\ suspended' = suspended
    BY <1>2, <1>6 DEF AdminKinds
  <2>2. ASSUME NEW v \in Users, role'[v] # role[v]
        PROVE  role[v] = "none" /\ role'[v] = "trader" /\ v \notin FirstAdmins
    <3>1. plan[s] = "register" /\ v = u /\ role'[v] = "trader"
      BY <1>1, <1>2, <1>6, <2>2 DEF AdminKinds, Tables
    <3>2. WillRegister(s)
      BY <1>1, <3>1 DEF Decided, WillLogin, WillRotate, WillReplay, WillLogout, WillChange, AdminKinds
    <3>3. role[v] = "none"
      BY <3>1, <3>2 DEF WillRegister, Subject
    <3> QED BY <3>1, <3>3 DEF LogInv
  <2>3. ASSUME NEW v \in Users PROVE TellsOf(v)'
    <3>1. CASE role'[v] = role[v]
      BY <2>1, <3>1, SameLog DEF LogInv
    <3>2. CASE role'[v] # role[v]
      <4>1. role[v] = "none" /\ role'[v] = "trader" /\ v \notin FirstAdmins /\ TellsOf(v)
        BY <2>2, <3>2 DEF LogInv
      <4>2. About(v, "role", Len(log)) = {} /\ StartedAs(v, "role") = "trader"
        BY <4>1 DEF TellsOf, StartedAs
      <4>3. ToldAt(v, "role", Len(log)) = "trader"
        BY <4>2 DEF ToldAt
      <4> QED BY <2>1, <4>1, <4>3, SameTold DEF TellsOf
    <3> QED BY <3>1, <3>2
  <2> QED BY <1>4, <1>5, <2>1, <2>3 DEF LogInv
<1>7. CASE plan[s] \in AdminKinds
  <2>1. WillChange(s)
    BY <1>1, <1>7 DEF Decided, WillRegister, WillLogin, WillRotate, WillReplay, WillLogout, AdminKinds
  <2>2. /\ plan[s] = r.kind /\ r.kind \in AdminKinds /\ u = r.user /\ u \in Users
        /\ role[u] # "none" /\ r \in Request /\ was[s] = role[u] /\ ~IsHeld(r)
    BY <1>1, <1>7, <2>1, RequestNames DEF WillChange, Subject, AdminKinds, WasRead
  <2> DEFINE e == Entry(s)
  <2>3. r.role \in Roles
    BY <2>2 DEF Request
  <2>4. /\ e \in LogEntry /\ e.target = u /\ e.from # e.to
        /\ e.kind = "role" <=> r.kind = "role"
    BY <1>1, <2>2, <2>3 DEF Entry, LogEntry, Sorts, AdminKinds, IsHeld, Tables
  <2>5. Len(log) < MaxEntries /\ log' = Append(log, e)
    BY <1>2, <1>7
  <2>6. log' \in Seq(LogEntry) /\ Len(log') <= MaxEntries
    BY <2>4, <2>5, AuthAssumption DEF LogInv
  <2>7. \A v \in Users \ {u} : role'[v] = role[v] /\ suspended'[v] = suspended[v]
    BY <1>1, <1>2, <2>2 DEF Tables
  <2>8. /\ r.kind = "role" =>
             e.from = role[u] /\ e.to = role'[u] /\ suspended'[u] = suspended[u] /\ role'[u] # "none"
        /\ r.kind # "role" =>
             /\ e.from = (IF suspended[u] THEN "suspended" ELSE "active")
             /\ e.to = (IF suspended'[u] THEN "suspended" ELSE "active")
             /\ role'[u] = role[u]
    <3>1. CASE r.kind = "role"
      BY <1>1, <1>2, <2>2, <2>3, <3>1 DEF Entry, Tables, Roles
    <3>2. CASE r.kind = "suspend"
      BY <1>1, <1>2, <2>2, <3>2 DEF Entry, Tables, IsHeld
    <3>3. CASE r.kind = "unsuspend"
      BY <1>1, <1>2, <2>2, <3>3 DEF Entry, Tables, IsHeld
    <3> QED BY <2>2, <3>1, <3>2, <3>3 DEF AdminKinds
  <2>9. ASSUME NEW v \in Users PROVE TellsOf(v)'
    <3>1. log \in Seq(LogEntry) /\ TellsOf(v)
      BY DEF LogInv
    <3> HIDE DEF e
    <3>2. CASE v = u
      <4>1. role[v] # "none" /\ role'[v] # "none"
        BY <2>2, <2>8, <3>2
      <4> QED BY <2>4, <2>5, <2>8, <3>1, <3>2, <4>1, EntryTells DEF LogEntry, Sorts
    <3>3. CASE v # u
      BY <2>4, <2>5, <2>7, <3>1, <3>3, EntryTells
    <3> QED BY <3>2, <3>3
  <2> QED BY <1>4, <1>5, <2>6, <2>9 DEF LogInv
<1> QED BY <1>6, <1>7

----------------------------------------------------------------------------
(* What the audit log tells *)

AuditInv == AuthInv /\ Tidy /\ LogInv

LEMMA AuditInvariant == Spec => []AuditInv
<1>1. Init => Tidy /\ LogInv
  <2> SUFFICES ASSUME Init PROVE Tidy /\ LogInv
    OBVIOUS
  <2>1. AnyOrder \in ScanOrders
    BY AuthAssumption DEF AnyOrder
  <2>2. Tidy
    BY <2>1, AuthAssumption DEF Init, Tidy
  <2>3. \A u \in FirstAdmins : role[u] # "none"
    BY AuthAssumption DEF Init
  <2>4. log = <<>> /\ Len(log) = 0
    BY DEF Init
  <2>5. ASSUME NEW u \in Users PROVE TellsOf(u)
    <3>1. \A kind : About(u, kind, Len(log)) = {}
      BY <2>4 DEF About
    <3>2. \A kind : ToldAt(u, kind, Len(log)) = StartedAs(u, kind)
      BY <3>1 DEF ToldAt
    <3>3. role[u] = (IF u \in FirstAdmins THEN "admin" ELSE "none") /\ ~ suspended[u]
      BY DEF Init
    <3> QED BY <3>1, <3>2, <3>3 DEF TellsOf, StartedAs
  <2>6. log \in Seq(LogEntry) /\ Len(log) <= MaxEntries
    BY <2>4, AuthAssumption
  <2>7. \A s \in Sessions : WasRead(s)
    BY DEF Init, WasRead, AdminKinds
  <2> QED BY <2>2, <2>3, <2>5, <2>6, <2>7 DEF LogInv
<1>2. AuditInv /\ [Next]_vars => AuditInv'
  <2> SUFFICES ASSUME AuditInv, [Next]_vars PROVE AuditInv'
    OBVIOUS
  <2>1. AuthInv /\ Tidy /\ LogInv /\ AuthInv' /\ Tables
    BY NextKeeps DEF AuditInv, AuthInv
  <2>2. ASSUME NEW s \in Sessions, Commit(s) PROVE Tidy' /\ LogInv'
    BY <2>1, <2>2, TidyCommit, LogCommit
  <2>3. ASSUME NEW s \in Sessions, ~ Commit(s),
               \/ \E r \in Requests : Ask(s, r)
               \/ InsertUser(s) \/ LockUser(s) \/ LockToken(s)
               \/ \E order \in ScanOrders : ScanSet(s, order)
               \/ \E u \in Users : LockAdmin(s, u)
               \/ LockTarget(s) \/ Abort(s)
        PROVE  Tidy' /\ LogInv'
    BY <2>1, <2>3, TidyStep, LogQuiet
  <2>4. ASSUME role' = role, suspended' = suspended, log' = log, plan' = plan, was' = was, req' = req
        PROVE  LogInv'
    <3>1. \A u \in Users : TellsOf(u)'
      BY <2>1, <2>4, SameLog DEF LogInv
    <3>2. \A s \in Sessions : WasRead(s)'
      BY <2>1, <2>4 DEF LogInv, WasRead, IsHeld
    <3> QED BY <2>1, <2>4, <3>1, <3>2 DEF LogInv
  <2>5. ASSUME NEW t \in Tokens, Expire(t) PROVE Tidy' /\ LogInv'
    BY <2>1, <2>4, <2>5 DEF Expire, Tidy, IsIssued, inflight, locks
  <2>6. ASSUME UNCHANGED vars PROVE Tidy' /\ LogInv'
    BY <2>1, <2>4, <2>6 DEF vars, rows, Tidy, IsIssued, inflight, locks
  <2> QED BY <2>1, <2>2, <2>3, <2>5, <2>6 DEF Next, AuditInv
<1>3. Init => AuditInv
  BY <1>1, InitHolds DEF AuditInv
<1> QED BY <1>2, <1>3, PTL DEF Spec

\* Every entry of the audit log starts where the account's last one ended and
\* changes something, and the last one says what the account is; so of two
\* administrators who ask for the same change one writes it and the other
\* nothing (user_admin.py, change_role and set_suspension).
THEOREM LogTellsAll == Spec => []AuditTells
<1>1. AuditInv => AuditTells
  <2> SUFFICES ASSUME AuditInv PROVE AuditTells
    OBVIOUS
  <2>1. /\ userLock \in [Users -> {Nobody} \cup {s \in Sessions : pc[s] # "idle"}]
        /\ tokenLock \in [Tokens -> {Nobody} \cup {s \in Sessions : pc[s] # "idle"}]
    BY DEF AuditInv, AuthInv, Tables, Tidy
  <2>2. TypeOK
    BY <2>1 DEF AuditInv, AuthInv, Tables, Tidy, RowsHold, LogInv, TypeOK, Decisions
  <2> QED BY <2>2 DEF AuditInv, LogInv, TellsOf, AuditTells, Sorts
<1> QED BY <1>1, AuditInvariant, PTL

----------------------------------------------------------------------------
(* Routes *)

Gates == {"token", "role", "row", "row_role", "shape", "cursor", "replay", "account", "market", "book", "terms",
          "record", "pay", "tell", "cancel", "found", "book_read", "price", "history", "generation",
          "find_book", "open", "find_grant", "mint"}

\* The check g is still to be made, and none but those of before precede it.
Ahead(g, before, s) ==
  \E n \in 1..Len(s) : s[n] = g /\ \A i \in 1..n - 1 : s[i] \in before

Token(s) == Ahead("token", {}, s)
Role(s) == Ahead("role", {"token"}, s)
Account(s) == Ahead("account", {"token", "shape", "replay"}, s)
Row(s) == Ahead("row", {"token"}, s)
RowRole(s) == Ahead("row_role", {"token", "row"}, s)

\* What the token can claim of what the account has lost.
WorldInv ==
  /\ uses \in Uses
  /\ clock \in Nat /\ clock <= LastClock
  /\ account = [admin |-> account.admin, suspended |-> account.suspended]
  /\ account.admin \in BOOLEAN /\ account.suspended \in BOOLEAN
  /\ lost = [role |-> lost.role, standing |-> lost.standing]
  /\ lost.role \in Int /\ lost.standing \in Int
  /\ account.admin <=> lost.role = Never
  /\ ~account.suspended <=> lost.standing = Never
  /\ token.until \in Int /\ token.until <= clock + Lifetime
  /\ token.admin /\ ~account.admin => token.until <= lost.role + Lifetime
  /\ account.suspended => token.until <= lost.standing + Lifetime

Shaped ==
  /\ request = [does |-> request.does, left |-> request.left, declares |-> request.declares,
                admin |-> request.admin, token |-> request.token,
                lacked |-> request.lacked, overdue |-> request.overdue, again |-> request.again,
                had |-> request.had, missed |-> request.missed,
                terms |-> request.terms, wrote |-> request.wrote, answer |-> request.answer]
  /\ request.left \in Seq(Gates)
  /\ request.token.until \in Int

\* A request under way that should be refused has the refusal in front of it.
Owing ==
  LET r == request IN
    /\ "standing" \in r.overdue => Token(r.left) /\ r.token.until <= clock
    /\ r.admin /\ "role" \in r.overdue =>
         Role(r.left) /\ (~r.token.admin \/ (Token(r.left) /\ r.token.until <= clock))
    /\ r.does \in Keyed /\ "standing" \in r.lacked => Account(r.left)
    /\ r.does = "account" /\ "standing" \in r.lacked => Row(r.left)
    /\ r.does = "account" /\ "role" \in r.lacked => RowRole(r.left)
    /\ r.lacked \subseteq {"role", "standing"}
    /\ "standing" \in r.lacked => account.suspended
    /\ "role" \in r.lacked => ~account.admin

AccessInv ==
  /\ WorldInv
  /\ Shaped
  /\ UnderWay => Owing
  /\ AuthorityIsFresh

----------------------------------------------------------------------------
(* Sequences of checks *)

LEMMA ConcatLen ==
  ASSUME NEW S, NEW a \in Seq(S), NEW b \in Seq(S)
  PROVE  /\ a \o b \in Seq(S) /\ Len(a \o b) = Len(a) + Len(b)
         /\ Len(a) \in Nat /\ Len(b) \in Nat /\ DOMAIN (a \o b) = 1..Len(a \o b)
<1>1. a \o b \in Seq(S) /\ Len(a \o b) = Len(a) + Len(b)
  BY ConcatProperties
<1> QED BY <1>1, LenProperties

LEMMA ConcatParts ==
  ASSUME NEW S, NEW a \in Seq(S), NEW b \in Seq(S)
  PROVE  /\ \A i \in 1..Len(a) : (a \o b)[i] = a[i]
         /\ \A i \in 1..Len(b) : (a \o b)[Len(a) + i] = b[i]
<1> Len(a) \in Nat /\ Len(b) \in Nat
  BY LenProperties
<1>1. ASSUME NEW i \in 1..Len(a) PROVE (a \o b)[i] = a[i]
  <2>1. i \in 1..Len(a) + Len(b) /\ i <= Len(a)
    OBVIOUS
  <2> QED BY <2>1, ConcatProperties
<1>2. ASSUME NEW i \in 1..Len(b) PROVE (a \o b)[Len(a) + i] = b[i]
  <2>1. Len(a) + i \in 1..Len(a) + Len(b) /\ ~(Len(a) + i <= Len(a)) /\ (Len(a) + i) - Len(a) = i
    OBVIOUS
  <2> QED BY <2>1, ConcatProperties
<1> QED BY <1>1, <1>2

LEMMA FirstOf ==
  ASSUME NEW s \in Seq(Gates), s # <<>>
  PROVE  /\ Len(s) \in Nat /\ Len(s) >= 1 /\ Head(s) = s[1]
         /\ Tail(s) \in Seq(Gates) /\ Len(Tail(s)) = Len(s) - 1
         /\ \A i \in 1..Len(s) - 1 : Tail(s)[i] = s[i + 1]
<1>1. Tail(s) \in Seq(Gates) /\ Len(Tail(s)) = Len(s) - 1 /\ \A i \in 1..Len(Tail(s)) : Tail(s)[i] = s[i + 1]
  BY HeadTailProperties
<1>2. Len(s) \in Nat /\ Len(s) # 0
  BY LenProperties, EmptySeq
<1> QED BY <1>1, <1>2

\* Whoever has a check ahead of it is at that check, or before it.
LEMMA AheadFirst ==
  ASSUME NEW s \in Seq(Gates), NEW g, NEW B, Ahead(g, B, s)
  PROVE  s # <<>> /\ Head(s) \in B \cup {g}
<1>1. PICK n \in 1..Len(s) : s[n] = g /\ \A i \in 1..n - 1 : s[i] \in B
  BY DEF Ahead
<1>2. Len(s) \in Nat /\ s # <<>>
  BY <1>1, LenProperties, EmptySeq
<1>3. Head(s) = s[1]
  BY <1>2, FirstOf
<1>4. n = 1 \/ 1 \in 1..n - 1
  BY <1>1, <1>2
<1> QED BY <1>1, <1>2, <1>3, <1>4

\* ... and still has it ahead once it has made another.
LEMMA AheadRest ==
  ASSUME NEW s \in Seq(Gates), NEW g, NEW B, Ahead(g, B, s), Head(s) # g
  PROVE  Ahead(g, B, Tail(s))
<1>1. PICK n \in 1..Len(s) : s[n] = g /\ \A i \in 1..n - 1 : s[i] \in B
  BY DEF Ahead
<1>2. s # <<>>
  BY AheadFirst
<1>3. /\ Len(s) \in Nat /\ Head(s) = s[1] /\ Len(Tail(s)) = Len(s) - 1
      /\ \A i \in 1..Len(s) - 1 : Tail(s)[i] = s[i + 1]
  BY <1>2, FirstOf
<1>4. n \in Int /\ n # 1 /\ n >= 2 /\ n <= Len(s)
  BY <1>1, <1>3
<1>5. n - 1 \in 1..Len(Tail(s)) /\ n - 1 \in 1..Len(s) - 1 /\ (n - 1) + 1 = n
  BY <1>3, <1>4
<1>6. Tail(s)[n - 1] = g
  BY <1>1, <1>3, <1>5
<1>7. ASSUME NEW i \in 1..(n - 1) - 1 PROVE Tail(s)[i] \in B
  <2>1. i \in 1..Len(s) - 1 /\ i + 1 \in 1..n - 1
    BY <1>3, <1>4
  <2> QED BY <1>1, <1>3, <2>1
<1> QED BY <1>5, <1>6, <1>7 DEF Ahead

LEMMA UserGates ==
  ASSUME NEW t \in Seq(Gates \ {"role"})
  PROVE  LET g == CurrentUser \o t
         IN  g \in Seq(Gates) /\ Token(g) /\ \A i \in DOMAIN g : g[i] # "role"
<1> DEFINE a == CurrentUser
           R == Gates \ {"role"}
<1>1. a \in Seq(R) /\ Len(a) = 1 /\ a[1] = "token"
  BY DEF CurrentUser, Gates
<1> HIDE DEF a
<1>2. a \o t \in Seq(R) /\ Len(a \o t) = Len(a) + Len(t) /\ Len(t) \in Nat /\ DOMAIN (a \o t) = 1..Len(a \o t)
  BY <1>1, ConcatLen
<1>3. 1 \in 1..Len(a) /\ 1 \in 1..Len(a \o t) /\ \A i \in 1..1 - 1 : FALSE
  BY <1>1, <1>2
<1>4. (a \o t)[1] = a[1]
  <2>1. \A i \in 1..Len(a) : (a \o t)[i] = a[i]
    BY <1>1, ConcatParts
  <2> QED BY <1>3, <2>1
<1>5. \A i \in DOMAIN (a \o t) : (a \o t)[i] # "role"
  BY <1>2, ElementOfSeq
<1>6. a \o t \in Seq(Gates)
  BY <1>2, SeqMonotonic
<1> QED BY <1>1, <1>3, <1>4, <1>5, <1>6 DEF a, Token, Ahead

LEMMA AdminGates ==
  ASSUME NEW t \in Seq(Gates)
  PROVE  LET g == CurrentAdmin \o t
         IN  g \in Seq(Gates) /\ Token(g) /\ Role(g)
<1> DEFINE a == CurrentAdmin
<1>1. a \in Seq(Gates) /\ Len(a) = 2 /\ a[1] = "token" /\ a[2] = "role"
  BY DEF CurrentAdmin, Gates
<1> HIDE DEF a
<1>2. a \o t \in Seq(Gates) /\ Len(a \o t) = Len(a) + Len(t) /\ Len(t) \in Nat
  BY <1>1, ConcatLen
<1>3. /\ 1 \in 1..Len(a) /\ 2 \in 1..Len(a) /\ 1 \in 1..Len(a \o t) /\ 2 \in 1..Len(a \o t)
      /\ \A i \in 1..1 - 1 : FALSE
      /\ \A i \in 1..2 - 1 : i = 1
  BY <1>1, <1>2
<1>4. (a \o t)[1] = a[1] /\ (a \o t)[2] = a[2]
  BY <1>1, <1>3, ConcatParts
<1> QED BY <1>1, <1>2, <1>3, <1>4 DEF a, Token, Role, Ahead

LEMMA LiveGates ==
  ASSUME NEW t \in Seq(Gates \ {"role"})
  PROVE  LET g == LiveAdmin \o t
         IN  g \in Seq(Gates) /\ Token(g) /\ Row(g) /\ RowRole(g) /\ \A i \in DOMAIN g : g[i] # "role"
<1> DEFINE a == LiveAdmin
           R == Gates \ {"role"}
<1>1. a \in Seq(R) /\ Len(a) = 3 /\ a[1] = "token" /\ a[2] = "row" /\ a[3] = "row_role"
  BY DEF LiveAdmin, Gates
<1> HIDE DEF a
<1>2. a \o t \in Seq(R) /\ Len(a \o t) = Len(a) + Len(t) /\ Len(t) \in Nat /\ DOMAIN (a \o t) = 1..Len(a \o t)
  BY <1>1, ConcatLen
<1>3. /\ 1 \in 1..Len(a) /\ 2 \in 1..Len(a) /\ 3 \in 1..Len(a)
      /\ 1 \in 1..Len(a \o t) /\ 2 \in 1..Len(a \o t) /\ 3 \in 1..Len(a \o t)
      /\ \A i \in 1..1 - 1 : FALSE
      /\ \A i \in 1..2 - 1 : i = 1
      /\ \A i \in 1..3 - 1 : i = 1 \/ i = 2
  BY <1>1, <1>2
<1>4. (a \o t)[1] = a[1] /\ (a \o t)[2] = a[2] /\ (a \o t)[3] = a[3]
  <2>1. a \in Seq(R)
    BY <1>1
  <2>2. \A i \in 1..Len(a) : (a \o t)[i] = a[i]
    BY <2>1, ConcatParts
  <2> QED BY <1>3, <2>2
<1>5. \A i \in DOMAIN (a \o t) : (a \o t)[i] # "role"
  BY <1>2, ElementOfSeq
<1>6. a \o t \in Seq(Gates)
  BY <1>2, SeqMonotonic
<1>7. Token(a \o t) /\ Row(a \o t) /\ RowRole(a \o t)
  BY <1>1, <1>3, <1>4 DEF Token, Row, RowRole, Ahead
<1> QED BY <1>5, <1>6, <1>7 DEF a

LEMMA KeyedGates ==
  LET g == CurrentUser \o <<"shape">> \o PreGate
  IN  g \in Seq(Gates) /\ Token(g) /\ Account(g) /\ \A i \in DOMAIN g : g[i] # "role"
<1> DEFINE a == CurrentUser
           b == <<"shape">>
           c == PreGate
           R == Gates \ {"role"}
           g == (a \o b) \o c
<1>1. a \in Seq(R) /\ b \in Seq(R) /\ c \in Seq(R)
  BY DEF CurrentUser, PreGate, ReplayFirst, Gates
<1>2. Len(a) = 1 /\ Len(b) = 1 /\ Len(c) = 8
  BY DEF CurrentUser, PreGate, ReplayFirst
<1>3. a[1] = "token" /\ b[1] = "shape" /\ c[1] = "replay" /\ c[2] = "account"
  BY DEF CurrentUser, PreGate, ReplayFirst
<1> HIDE DEF a, b, c
<1>4. a \o b \in Seq(R) /\ Len(a \o b) = Len(a) + Len(b)
  BY <1>1, ConcatLen
<1>5. g \in Seq(R) /\ Len(g) = Len(a \o b) + Len(c) /\ DOMAIN g = 1..Len(g)
  BY <1>1, <1>4, ConcatLen
<1>6. /\ 1 \in 1..Len(a) /\ 1 \in 1..Len(b) /\ 1 \in 1..Len(a \o b) /\ 2 \in 1..Len(a \o b)
      /\ 1 \in 1..Len(c) /\ 2 \in 1..Len(c) /\ Len(a) + 1 = 2 /\ Len(a \o b) + 1 = 3 /\ Len(a \o b) + 2 = 4
  BY <1>2, <1>4
<1>7. (a \o b)[1] = a[1]
  BY <1>1, <1>6, ConcatParts
<1>8. (a \o b)[Len(a) + 1] = b[1]
  BY <1>1, <1>6, ConcatParts
<1>9. g[1] = (a \o b)[1] /\ g[2] = (a \o b)[2]
  BY <1>1, <1>4, <1>6, ConcatParts
<1>10. g[Len(a \o b) + 1] = c[1] /\ g[Len(a \o b) + 2] = c[2]
  BY <1>1, <1>4, <1>6, ConcatParts
<1>11. g[1] = "token" /\ g[2] = "shape" /\ g[3] = "replay" /\ g[4] = "account"
  BY <1>3, <1>6, <1>7, <1>8, <1>9, <1>10
<1>12. Len(g) = 10
  BY <1>2, <1>4, <1>5
<1>13. \A i \in DOMAIN g : g[i] # "role"
  BY <1>5, ElementOfSeq
<1>14. g \in Seq(Gates)
  BY <1>5, SeqMonotonic
<1> HIDE DEF g
<1>15. /\ 1 \in 1..Len(g) /\ 4 \in 1..Len(g)
       /\ \A i \in 1..1 - 1 : FALSE
       /\ \A i \in 1..4 - 1 : i = 1 \/ i = 2 \/ i = 3
  BY <1>12
<1>16. Token(g) /\ Account(g)
  BY <1>11, <1>15 DEF Token, Account, Ahead
<1> QED BY <1>13, <1>14, <1>16 DEF a, b, c, g

----------------------------------------------------------------------------
(* What every route checks before it does anything *)

Guarded(route) ==
  LET g == route.gates IN
    /\ g \in Seq(Gates) /\ Token(g)
    /\ (\E i \in DOMAIN g : g[i] = "role") => Role(g)
    /\ route.does \in Keyed => Account(g)
    /\ route.does = "account" => Row(g) /\ RowRole(g)

LEMMA BareGates ==
  /\ CurrentUser \in Seq(Gates) /\ Token(CurrentUser) /\ \A i \in DOMAIN CurrentUser : CurrentUser[i] # "role"
  /\ CurrentAdmin \in Seq(Gates) /\ Token(CurrentAdmin) /\ Role(CurrentAdmin)
  /\ LiveUser \in Seq(Gates) /\ Token(LiveUser) /\ \A i \in DOMAIN LiveUser : LiveUser[i] # "role"
<1>1. CurrentUser \in Seq(Gates) /\ CurrentAdmin \in Seq(Gates) /\ LiveUser \in Seq(Gates)
  BY DEF CurrentUser, CurrentAdmin, LiveUser, Gates
<1>2. \A i \in DOMAIN CurrentUser : CurrentUser[i] # "role"
  BY DEF CurrentUser
<1>3. \A i \in DOMAIN LiveUser : LiveUser[i] # "role"
  BY DEF LiveUser
<1>4. /\ 1 \in 1..Len(CurrentUser) /\ 1 \in 1..Len(CurrentAdmin) /\ 2 \in 1..Len(CurrentAdmin) /\ 1 \in 1..Len(LiveUser)
      /\ CurrentUser[1] = "token" /\ CurrentAdmin[1] = "token" /\ CurrentAdmin[2] = "role" /\ LiveUser[1] = "token"
  BY DEF CurrentUser, CurrentAdmin, LiveUser
<1>5. /\ \A i \in 1..1 - 1 : FALSE
      /\ \A i \in 1..2 - 1 : i = 1
  OBVIOUS
<1> QED BY <1>1, <1>2, <1>3, <1>4, <1>5 DEF Token, Role, Ahead

LEMMA Tails ==
  /\ <<"shape">> \in Seq(Gates \ {"role"}) /\ <<"shape", "cursor">> \in Seq(Gates \ {"role"})
  /\ <<"find_grant", "mint">> \in Seq(Gates \ {"role"}) /\ <<"find_grant", "mint", "book_read">> \in Seq(Gates \ {"role"})
  /\ <<"shape", "find_grant", "mint", "cursor">> \in Seq(Gates \ {"role"})
  /\ <<"shape", "find_book", "open", "book_read", "price">> \in Seq(Gates \ {"role"})
  /\ <<"shape", "find_book", "open", "book_read">> \in Seq(Gates \ {"role"})
  /\ <<"shape", "cursor", "generation">> \in Seq(Gates \ {"role"})
  /\ <<"shape", "history">> \in Seq(Gates \ {"role"}) /\ <<"shape", "cancel">> \in Seq(Gates \ {"role"})
  /\ <<"shape", "found">> \in Seq(Gates \ {"role"})
  /\ <<"shape">> \in Seq(Gates) /\ <<"shape", "cursor">> \in Seq(Gates)
  /\ <<"shape", "found">> \in Seq(Gates) /\ <<"shape", "cancel">> \in Seq(Gates)
  /\ <<"shape", "terms", "record", "find_book", "open", "pay", "tell">> \in Seq(Gates)
  BY DEF Gates

LEMMA LedgerGuarded == \A route \in LedgerRoutes : Guarded(route)
<1>1. Guarded(MyOrders)
  BY BareGates DEF Guarded, MyOrders, Reads, Route, Keyed
<1>2. /\ Guarded(MyBalance) /\ Guarded(MyEntries) /\ Guarded(MyPortfolio)
      /\ Guarded(PreviewTrade) /\ Guarded(MarketSnapshot)
  <2>1. Guarded(MyBalance) /\ Guarded(MyEntries) /\ Guarded(MyPortfolio)
    BY UserGates, Tails DEF Guarded, MyBalance, MyEntries, MyPortfolio, Reads, Route, Keyed
  <2>2. Guarded(PreviewTrade) /\ Guarded(MarketSnapshot)
    BY UserGates, Tails DEF Guarded, PreviewTrade, MarketSnapshot, Reads, Route, Keyed
  <2> QED BY <2>1, <2>2
<1>3. /\ Guarded(MarketSnapshots) /\ Guarded(TheLeaderboard) /\ Guarded(MarketPriceHistory) /\ Guarded(CancelOrder)
  BY UserGates, Tails DEF Guarded, MarketSnapshots, TheLeaderboard, MarketPriceHistory, CancelOrder, Reads, Route, Keyed
<1>4. Guarded(ExecuteTrade) /\ Guarded(PlaceOrder)
  BY KeyedGates DEF Guarded, ExecuteTrade, PlaceOrder, Route, Keyed
<1>5. Guarded(UserBalance) /\ Guarded(UserEntries) /\ Guarded(MarketTrades) /\ Guarded(MarketExposure)
  BY AdminGates, Tails DEF Guarded, UserBalance, UserEntries, MarketTrades, MarketExposure, Reads, Route, Keyed
<1>6. Guarded(CancelAnyOrder) /\ Guarded(SettleMarket) /\ Guarded(VoidFlawedMarket)
  BY AdminGates, Tails DEF Guarded, CancelAnyOrder, SettleMarket, VoidFlawedMarket, Route, Keyed
<1> QED BY <1>1, <1>2, <1>3, <1>4, <1>5, <1>6 DEF LedgerRoutes

LEMMA OthersGuarded == \A route \in OtherRoutes : Guarded(route)
<1>1. ASSUME NEW does, does \notin Keyed \cup {"account"} PROVE Guarded(MarketWrite(does))
  BY <1>1, AdminGates, Tails DEF Guarded, MarketWrite, Route
<1>2. /\ Guarded(SaveMarket) /\ Guarded(PublishMarket) /\ Guarded(CloseMarketEarly) /\ Guarded(ProposeMarketOutcome)
      /\ Guarded(ApproveMarketOutcome) /\ Guarded(RejectMarketOutcome) /\ Guarded(SendBackMarketOutcome)
      /\ Guarded(MarkMarketSettled) /\ Guarded(MarkMarketVoided)
  BY <1>1 DEF SaveMarket, PublishMarket, CloseMarketEarly, ProposeMarketOutcome, ApproveMarketOutcome,
              RejectMarketOutcome, SendBackMarketOutcome, MarkMarketSettled, MarkMarketVoided, Keyed
<1>3. Guarded(ListMarkets) /\ Guarded(Me)
  BY BareGates DEF Guarded, ListMarkets, Me, Reads, Route, Keyed
<1>4. Guarded(MarketOverview) /\ Guarded(GetMarket) /\ Guarded(ListActions)
  BY AdminGates, Tails DEF Guarded, MarketOverview, GetMarket, ListActions, Reads, Route, Keyed
<1>5. Guarded(BrowseMarkets) /\ Guarded(GetPublicMarket)
  BY UserGates, Tails DEF Guarded, BrowseMarkets, GetPublicMarket, Reads, Route, Keyed
<1>6. Guarded(ListUsers) /\ Guarded(LookupUsers) /\ Guarded(ChangeRole) /\ Guarded(SetSuspension)
  BY LiveGates, Tails DEF Guarded, ListUsers, LookupUsers, ChangeRole, SetSuspension, Reads, Route, Keyed
<1> QED BY <1>2, <1>3, <1>4, <1>5, <1>6 DEF OtherRoutes

LEMMA UsesAreRoutes ==
  ASSUME NEW us \in Uses
  PROVE  us \subseteq Routes
<1>1. /\ {ExecuteTrade} \subseteq LedgerRoutes /\ {PlaceOrder} \subseteq LedgerRoutes
      /\ {CancelOrder, CancelAnyOrder} \subseteq LedgerRoutes /\ {SettleMarket, VoidFlawedMarket} \subseteq LedgerRoutes
      /\ FirstReads \subseteq LedgerRoutes /\ FirstPrices \subseteq LedgerRoutes
  BY DEF LedgerRoutes, FirstReads, FirstPrices
<1>2. AuthRoutes \subseteq OtherRoutes
  BY DEF OtherRoutes, AuthRoutes
<1> QED BY <1>1, <1>2 DEF Uses, Routes

LEMMA RoutesGuarded ==
  ASSUME NEW us \in Uses, NEW route \in us
  PROVE  Guarded(route)
<1>1. route \in Routes
  BY UsesAreRoutes
<1> QED BY <1>1, LedgerGuarded, OthersGuarded DEF Routes

----------------------------------------------------------------------------
(* What a step makes of the request *)

kept == <<uses, clock, account, lost, token>>

\* Which parts of a request a check leaves alone.
Same ==
  /\ request'.does = request.does /\ request'.admin = request.admin
  /\ request'.lacked = request.lacked /\ request'.overdue = request.overdue

LEMMA Passing ==
  ASSUME Shaped, request.left # <<>>, Passes
  PROVE  /\ Shaped' /\ Same /\ request'.left = Tail(request.left) /\ request'.token = request.token
         /\ request'.wrote = request.wrote /\ request'.answer = request.answer
<1>1. Tail(request.left) \in Seq(Gates)
  BY FirstOf DEF Shaped
<1> QED BY <1>1 DEF Shaped, Passes, Same

LEMMA Answering ==
  ASSUME Shaped, NEW codes, Answers(codes)
  PROVE  /\ Shaped' /\ Same /\ request'.left = <<>>
         /\ request'.wrote = request.wrote /\ request'.answer = codes
<1>1. <<>> \in Seq(Gates) /\ Idle.token.until \in Int
  BY EmptySeq DEF Idle
<1> QED BY <1>1 DEF Shaped, Answers, Same

LEMMA Committing ==
  ASSUME Shaped, request.left # <<>>, Commits
  PROVE  /\ Shaped' /\ Same /\ request'.token = request.token
         /\ request'.wrote = request.wrote \cup {"asked"} /\ request'.answer = request.answer
<1>1. Tail(request.left) \in Seq(Gates)
  BY FirstOf DEF Shaped
<1> QED BY <1>1 DEF Shaped, Commits, Same

LEMMA Serving ==
  ASSUME Shaped, Serves
  PROVE  /\ Shaped' /\ Same /\ request'.left = <<>> /\ request'.answer = Done
         /\ request'.wrote = request.wrote \cup {"asked"}
<1>1. <<>> \in Seq(Gates) /\ Idle.token.until \in Int
  BY EmptySeq DEF Idle
<1> QED BY <1>1 DEF Shaped, Serves, Same

LEMMA WorldStays ==
  ASSUME WorldInv, UNCHANGED kept
  PROVE  WorldInv'
BY DEF WorldInv, kept

\* Nothing is owed by a request past the checks that could refuse it.
Clear ==
  /\ "standing" \notin request.overdue
  /\ request.admin => "role" \notin request.overdue
  /\ request.does = "account" => request.lacked = {}

Unsuspended == request.does \in Keyed => "standing" \notin request.lacked

AtHead(words) == request.left # <<>> /\ Head(request.left) \in words

LEMMA PastChecks ==
  ASSUME Shaped, Owing, ~AtHead({"token", "role", "row", "row_role"})
  PROVE  Clear
<1> request.left \in Seq(Gates)
  BY DEF Shaped
<1>1. ~Token(request.left) /\ ~Role(request.left) /\ ~Row(request.left) /\ ~RowRole(request.left)
  BY AheadFirst DEF Token, Role, Row, RowRole, AtHead
<1> QED BY <1>1 DEF Owing, Clear

LEMMA PastAccount ==
  ASSUME Shaped, Owing, ~AtHead({"token", "shape", "replay", "account"})
  PROVE  Unsuspended
<1> request.left \in Seq(Gates)
  BY DEF Shaped
<1>1. ~Account(request.left)
  BY AheadFirst DEF Account, AtHead
<1> QED BY <1>1 DEF Owing, Unsuspended

\* A request that has been answered.
LEMMA Answered ==
  ASSUME AccessInv, UnderWay, UNCHANGED kept, Shaped', Same, request'.answer # {},
         request'.answer = Done => Clear,
         request'.wrote = request.wrote \/ (Clear /\ Unsuspended)
  PROVE  AccessInv'
<1>1. WorldInv' /\ ~UnderWay'
  BY WorldStays DEF AccessInv, UnderWay
<1>2. AuthorityIsFresh'
  BY DEF AccessInv, AuthorityIsFresh, Same, Clear, Unsuspended
<1> QED BY <1>1, <1>2 DEF AccessInv

\* A request that goes on with nothing to fear.
LEMMA GoesOn ==
  ASSUME AccessInv, UnderWay, UNCHANGED kept, Shaped', Same, Clear, Unsuspended,
         request'.answer = {}
  PROVE  AccessInv'
<1>1. WorldInv' /\ Owing
  BY WorldStays DEF AccessInv
<1>2. Owing'
  BY <1>1 DEF Owing, Same, Clear, Unsuspended, kept
<1>3. AuthorityIsFresh'
  BY DEF AuthorityIsFresh, Same, Clear, Unsuspended
<1> QED BY <1>1, <1>2, <1>3 DEF AccessInv

\* A check that lets a request pass has looked at what it is named for.
LEMMA Passed ==
  ASSUME AccessInv, UnderWay, UNCHANGED kept, request.left # <<>>, Passes,
         Head(request.left) = "token" => IsValid,
         Head(request.left) = "role" => request.token.admin,
         Head(request.left) \in {"row", "account"} => ~account.suspended,
         Head(request.left) = "row_role" => account.admin
  PROVE  AccessInv'
<1> DEFINE s == request.left
<1>1. Shaped /\ Owing /\ WorldInv' /\ s \in Seq(Gates) /\ clock \in Nat
  BY WorldStays DEF AccessInv, Shaped, WorldInv
<1>2. /\ Shaped' /\ Same /\ request'.left = Tail(s) /\ request'.token = request.token
      /\ request'.wrote = request.wrote /\ request'.answer = request.answer
  BY <1>1, Passing
<1>3. ASSUME Token(s), request.token.until <= clock PROVE FALSE
  <2>1. Head(s) = "token"
    BY <1>1, <1>3, AheadFirst DEF Token
  <2> QED BY <1>1, <1>3, <2>1 DEF IsValid, Shaped
<1>4. ASSUME Role(s), ~request.token.admin PROVE Role(Tail(s))
  BY <1>1, <1>4, AheadRest DEF Role
<1>5. ASSUME Account(s), account.suspended PROVE Account(Tail(s))
  BY <1>1, <1>5, AheadRest DEF Account
<1>6. ASSUME Row(s), account.suspended PROVE Row(Tail(s))
  BY <1>1, <1>6, AheadRest DEF Row
<1>7. ASSUME RowRole(s), ~account.admin PROVE RowRole(Tail(s))
  BY <1>1, <1>7, AheadRest DEF RowRole
<1>8. Owing'
  BY <1>1, <1>2, <1>3, <1>4, <1>5, <1>6, <1>7 DEF Owing, Same, kept
<1>9. AuthorityIsFresh'
  BY <1>2 DEF AccessInv, AuthorityIsFresh, Same
<1> QED BY <1>1, <1>2, <1>8, <1>9 DEF AccessInv

----------------------------------------------------------------------------
(* The requests' steps *)

\* A refusal at any check.
LEMMA Refused ==
  ASSUME AccessInv, UnderWay, UNCHANGED kept, NEW codes, Answers(codes), codes # {}, codes # Done
  PROVE  AccessInv'
<1>1. Shaped' /\ Same /\ request'.wrote = request.wrote /\ request'.answer = codes
  BY Answering DEF AccessInv
<1> QED BY <1>1, Answered

\* An answer of a request past the checks of who is asking.
LEMMA Answered2 ==
  ASSUME AccessInv, UnderWay, UNCHANGED kept, NEW codes, Answers(codes), codes # {},
         ~AtHead({"token", "role", "row", "row_role"})
  PROVE  AccessInv'
<1>1. Shaped' /\ Same /\ request'.wrote = request.wrote /\ request'.answer = codes
  BY Answering DEF AccessInv
<1>2. Clear
  BY PastChecks DEF AccessInv
<1> QED BY <1>1, <1>2, Answered

\* A write by a request past all checks.
LEMMA Served ==
  ASSUME AccessInv, UnderWay, UNCHANGED kept, Serves,
         ~AtHead({"token", "role", "row", "row_role", "shape", "replay", "account"})
  PROVE  AccessInv'
<1>1. Shaped' /\ Same /\ request'.answer = Done
  BY Serving DEF AccessInv
<1>2. Clear /\ Unsuspended
  BY PastChecks, PastAccount DEF AccessInv, AtHead
<1> QED BY <1>1, <1>2, Answered DEF Done

LEMMA CheckSteps ==
  ASSUME AccessInv,
         GetClaims \/ RequireAdmin \/ GetCurrentUser \/ RequireLiveAdmin \/ Validate \/ ReplayIfPresent
           \/ RefuseIfSuspended \/ EnsureTrading \/ ReadBook
  PROVE  AccessInv'
<1>1. UnderWay /\ request.left # <<>> /\ UNCHANGED world /\ UNCHANGED kept
  BY DEF GetClaims, RequireAdmin, GetCurrentUser, RequireLiveAdmin, Validate, ReplayIfPresent,
         RefuseIfSuspended, EnsureTrading, ReadBook, At, world, kept
<1>2. /\ InvalidToken # {} /\ InvalidToken # Done /\ NotAnAdministrator # {} /\ NotAnAdministrator # Done
      /\ AccountSuspended # {} /\ AccountSuspended # Done /\ AuthUnavailable # {} /\ AuthUnavailable # Done
      /\ InvalidRequest # {} /\ InvalidRequest # Done /\ MalformedCursor # {} /\ MalformedCursor # Done
      /\ AnsweredFor # {}
      /\ MarketTermsUnavailable # {} /\ MarketNotFound # {} /\ MarketClosed # {} /\ PricingRefusals # {}
      /\ LeaderboardRefreshed # {}
  BY DEF InvalidToken, NotAnAdministrator, AccountSuspended, AuthUnavailable, InvalidRequest, MalformedCursor,
         AnsweredFor, IdempotencyKeyReused, MarketTermsUnavailable, MarketNotFound, MarketClosed,
         PricingRefusals, LeaderboardRefreshed, Done
<1>3. CASE GetClaims
  BY <1>1, <1>2, <1>3, Passed, Refused DEF GetClaims, At
<1>4. CASE RequireAdmin
  BY <1>1, <1>2, <1>4, Passed, Refused DEF RequireAdmin, At
<1>5. CASE GetCurrentUser
  BY <1>1, <1>2, <1>5, Passed, Refused DEF GetCurrentUser, At
<1>6. CASE RequireLiveAdmin
  BY <1>1, <1>2, <1>6, Passed, Refused DEF RequireLiveAdmin, At
<1>7. CASE Validate
  BY <1>1, <1>2, <1>7, Passed, Refused DEF Validate, At
<1>8. CASE ReplayIfPresent
  <2>1. ~AtHead({"token", "role", "row", "row_role"}) /\ Head(request.left) = "replay"
    BY <1>8 DEF ReplayIfPresent, At, AtHead
  <2> QED BY <1>1, <1>2, <1>8, <2>1, Passed, Answered2 DEF ReplayIfPresent
<1>9. CASE RefuseIfSuspended
  BY <1>1, <1>2, <1>9, Passed, Refused DEF RefuseIfSuspended, At
<1>10. CASE EnsureTrading
  <2>1. ~AtHead({"token", "role", "row", "row_role"}) /\ Head(request.left) = "market"
    BY <1>10 DEF EnsureTrading, At, AtHead
  <2> QED BY <1>1, <1>2, <1>10, <2>1, Passed, Answered2 DEF EnsureTrading, TermsRefused
<1>11. CASE ReadBook
  <2>1. /\ ~AtHead({"token", "role", "row", "row_role"})
        /\ Head(request.left) \in {"book_read", "price", "history", "generation", "found"}
    BY <1>11 DEF ReadBook, At, AtHead
  <2> QED BY <1>1, <1>2, <1>11, <2>1, Passed, Answered2 DEF ReadBook
<1> QED BY <1>3, <1>4, <1>5, <1>6, <1>7, <1>8, <1>9, <1>10, <1>11

LEMMA AskSteps ==
  ASSUME AccessInv, AskTerms
  PROVE  AccessInv'
<1>1. UnderWay /\ request.left # <<>> /\ UNCHANGED kept /\ Head(request.left) = "terms"
  BY DEF AskTerms, At, world, kept
<1>2. ~AtHead({"token", "role", "row", "row_role"}) /\ ~AtHead({"token", "shape", "replay", "account"})
  BY <1>1 DEF AtHead
<1>3. InvalidToken # {} /\ MarketTermsUnavailable # {} /\ MarketNotFound # {}
  BY DEF InvalidToken, MarketTermsUnavailable, MarketNotFound
<1>4. \/ Answers(InvalidToken) \/ Answers(MarketTermsUnavailable) \/ Answers(MarketNotFound)
      \/ request' = [request EXCEPT !.left = Tail(@), !.terms = market]
  BY DEF AskTerms, TermsRefused
<1>5. CASE request' = [request EXCEPT !.left = Tail(@), !.terms = market]
  <2>1. Tail(request.left) \in Seq(Gates) /\ Shaped
    BY <1>1, FirstOf DEF AccessInv, Shaped
  <2>2. Shaped' /\ Same /\ request'.answer = request.answer /\ request'.wrote = request.wrote
    BY <1>5, <2>1 DEF Shaped, Same
  <2>3. Clear /\ Unsuspended
    BY <1>1, <1>2, PastChecks, PastAccount DEF AccessInv
  <2> QED BY <1>1, <2>2, <2>3, GoesOn DEF UnderWay
<1> QED BY <1>1, <1>2, <1>3, <1>4, <1>5, Answered2

\* A first touch is looked for, and made, past every check of who is asking.
LEMMA TouchSteps ==
  ASSUME AccessInv, FindBook \/ FindGrant \/ OpenBook \/ MintGrant
  PROVE  AccessInv'
<1>1. /\ UnderWay /\ request.left # <<>> /\ UNCHANGED kept
      /\ Head(request.left) \in {"find_book", "open", "find_grant", "mint"}
  BY DEF FindBook, FindGrant, OpenBook, MintGrant, LooksFor, At, world, kept
<1>2. ~AtHead({"token", "role", "row", "row_role"}) /\ ~AtHead({"token", "shape", "replay", "account"})
  BY <1>1 DEF AtHead
<1>3. Clear /\ Unsuspended /\ Shaped /\ request.answer = {} /\ Tail(request.left) \in Seq(Gates)
  BY <1>1, <1>2, PastChecks, PastAccount, FirstOf DEF AccessInv, UnderWay, Shaped
<1>4. /\ InvalidToken # {} /\ MarketTermsUnavailable # {} /\ MarketNotFound # {} /\ MarketNotPublished # {}
      /\ IdempotencyKeyReused # {}
  BY DEF InvalidToken, MarketTermsUnavailable, MarketNotFound, MarketNotPublished, IdempotencyKeyReused
<1>5. \/ \E m : request' = [request EXCEPT !.left = Tail(@), !.missed = m]
      \/ \E w : request' = [request EXCEPT !.left = Tail(@), !.wrote = w]
      \/ Passes
      \/ \E codes : codes # {} /\ Answers(codes)
  <2>1. FindBook \/ FindGrant => \E m : request' = [request EXCEPT !.left = Tail(@), !.missed = m]
    BY <1>3 DEF FindBook, FindGrant, LooksFor, Shaped
  <2>2. ASSUME NEW first, Touches(first) PROVE \E w : request' = [request EXCEPT !.left = Tail(@), !.wrote = w]
    BY <1>3, <2>2 DEF Touches, Shaped
  <2>3. OpenBook => Passes \/ Touches("book") \/ \E codes : codes # {} /\ Answers(codes)
    BY <1>4 DEF OpenBook, TermsRefused
  <2>4. MintGrant => Passes \/ Touches("grant") \/ \E codes : codes # {} /\ Answers(codes)
    BY <1>4 DEF MintGrant
  <2> QED BY <2>1, <2>2, <2>3, <2>4
<1>6. ASSUME NEW m, request' = [request EXCEPT !.left = Tail(@), !.missed = m] PROVE AccessInv'
  <2>1. Shaped' /\ Same /\ request'.answer = request.answer
    BY <1>3, <1>6 DEF Shaped, Same
  <2> QED BY <1>1, <1>3, <2>1, GoesOn
<1>7. ASSUME NEW w, request' = [request EXCEPT !.left = Tail(@), !.wrote = w] PROVE AccessInv'
  <2>1. Shaped' /\ Same /\ request'.answer = request.answer
    BY <1>3, <1>7 DEF Shaped, Same
  <2> QED BY <1>1, <1>3, <2>1, GoesOn
<1>8. CASE Passes
  BY <1>1, <1>3, <1>8, Passing, GoesOn
<1> QED BY <1>1, <1>2, <1>5, <1>6, <1>7, <1>8, Answered2

LEMMA WriteSteps ==
  ASSUME AccessInv, PostTrade \/ Cancel \/ AmendMarket \/ AmendAccount \/ AnswerRead
  PROVE  AccessInv'
<1>1. UnderWay /\ UNCHANGED kept /\ (request.left = <<>> \/ Head(request.left) \in {"book", "cancel"})
  BY DEF PostTrade, Cancel, AmendMarket, AmendAccount, AnswerRead, Finished, At, world, kept
<1>2. /\ ~AtHead({"token", "role", "row", "row_role"})
      /\ ~AtHead({"token", "role", "row", "row_role", "shape", "replay", "account"})
  BY <1>1 DEF AtHead
<1>3. Serves \/ \E codes : codes # {} /\ Answers(codes)
  <2>1. CASE PostTrade
    <3>1. /\ AnsweredFor # {} /\ MarketClosed # {}
          /\ ServerFaults \cup (IF request.does = "trade" THEN TradeRefusals ELSE OrderRefusals) # {}
      BY DEF AnsweredFor, Done, IdempotencyKeyReused, MarketClosed, ServerFaults
    <3> QED BY <2>1, <3>1 DEF PostTrade
  <2>2. CASE Cancel
    <3>1. (CASE resting = "none" -> {"order_not_found"}
             [] resting = "filled" -> {"order_already_filled"}
             [] resting = "cancelled" -> {"order_already_cancelled"}
             [] OTHER -> {"order_released"}) # {}
      OBVIOUS
    <3> QED BY <2>2, <3>1 DEF Cancel
  <2>3. CASE AmendMarket \/ AmendAccount \/ AnswerRead
    BY <2>3 DEF AmendMarket, AmendAccount, AnswerRead, MarketRefusals, AccountRefusals, Done
  <2> QED BY <2>1, <2>2, <2>3
<1> QED BY <1>1, <1>2, <1>3, Served, Answered2

LEMMA EndSteps ==
  ASSUME AccessInv, FindResult \/ PayOut \/ Confirm
  PROVE  AccessInv'
<1>1. UnderWay /\ UNCHANGED kept /\ request.left # <<>> /\ Head(request.left) \in {"record", "pay", "tell"}
  BY DEF FindResult, PayOut, Confirm, At, world, kept
<1>2. ~AtHead({"token", "role", "row", "row_role"}) /\ ~AtHead({"token", "shape", "replay", "account"})
  BY <1>1 DEF AtHead
<1>3. Clear /\ Unsuspended /\ Shaped /\ request.answer = {}
  BY <1>1, <1>2, PastChecks, PastAccount DEF AccessInv, UnderWay
<1>4. \/ request' = [request EXCEPT !.left = <<"tell">>]
      \/ Passes \/ Commits
      \/ \E codes : codes # {} /\ Answers(codes)
  BY DEF FindResult, PayOut, Confirm, OtherEnding, EndingRefusals, AdminHasAStake, MarketTermsUnavailable, Done
<1>5. CASE request' = [request EXCEPT !.left = <<"tell">>]
  <2>1. <<"tell">> \in Seq(Gates)
    BY DEF Gates
  <2>2. Shaped' /\ Same /\ request'.answer = request.answer
    BY <1>3, <1>5, <2>1 DEF Shaped, Same
  <2> QED BY <1>1, <1>3, <2>2, GoesOn
<1>6. CASE Passes \/ Commits
  BY <1>1, <1>3, <1>6, Passing, Committing, GoesOn
<1> QED BY <1>1, <1>2, <1>4, <1>5, <1>6, Answered2

----------------------------------------------------------------------------
(* Where a request begins and ends, and the world around it *)

LEMMA Begins ==
  ASSUME AccessInv, NEW route \in uses, Begin(route)
  PROVE  AccessInv'
<1>1. Guarded(route)
  BY RoutesGuarded DEF AccessInv, WorldInv
<1>2. /\ UNCHANGED kept /\ WorldInv' /\ WorldInv
      /\ request'.does = route.does /\ request'.left = route.gates
      /\ request'.admin = (\E i \in DOMAIN route.gates : route.gates[i] = "role")
      /\ request'.token = token /\ request'.lacked = Lacking /\ request'.overdue = Overdue
      /\ request'.wrote = {} /\ request'.answer = {}
  BY WorldStays DEF Begin, Idle, world, kept, AccessInv
<1>3. Shaped'
  BY <1>1, <1>2 DEF Begin, Idle, Shaped, Guarded, WorldInv
<1>4. /\ "standing" \in Lacking => account.suspended
      /\ "role" \in Lacking => ~account.admin
      /\ Lacking \subseteq {"role", "standing"}
  BY <1>2 DEF Lacking, WorldInv
<1>5. "standing" \in Overdue => token.until <= clock
  <2>1. SUFFICES ASSUME "standing" \in Overdue PROVE token.until <= clock
    OBVIOUS
  <2>2. lost.standing + Lifetime <= clock /\ account.suspended
    BY <1>4, <2>1 DEF Overdue
  <2> QED BY <1>2, <2>2, AccessAssumption DEF WorldInv
<1>6. "role" \in Overdue => ~token.admin \/ token.until <= clock
  <2>1. SUFFICES ASSUME "role" \in Overdue, token.admin PROVE token.until <= clock
    OBVIOUS
  <2>2. lost.role + Lifetime <= clock /\ ~account.admin
    BY <1>4, <2>1 DEF Overdue
  <2> QED BY <1>2, <2>1, <2>2, AccessAssumption DEF WorldInv
<1>7. Owing'
  BY <1>1, <1>2, <1>4, <1>5, <1>6 DEF Owing, Guarded, kept
<1>8. AuthorityIsFresh'
  BY <1>2 DEF AuthorityIsFresh, Done
<1> QED BY <1>2, <1>3, <1>7, <1>8 DEF AccessInv

LEMMA Receives ==
  ASSUME AccessInv, Receive
  PROVE  AccessInv'
<1>1. WorldInv'
  BY WorldStays DEF AccessInv, Receive, world, kept
<1>2. Shaped'
  BY EmptySeq DEF Receive, Shaped, Idle
<1>3. ~UnderWay' /\ AuthorityIsFresh'
  BY DEF Receive, Idle, UnderWay, AuthorityIsFresh, Done
<1> QED BY <1>1, <1>2, <1>3 DEF AccessInv

\* The world moves, and the account keeps what it has.
LEMMA Elsewhere ==
  ASSUME AccessInv, UNCHANGED <<uses, account, lost>>, UNCHANGED request, WorldInv', clock' \in Nat, clock <= clock'
  PROVE  AccessInv'
<1>1. Shaped' /\ AuthorityIsFresh' /\ UnderWay' = UnderWay
  BY DEF AccessInv, Shaped, AuthorityIsFresh, UnderWay
<1>2. ASSUME UnderWay PROVE Owing'
  <2>1. Owing /\ request.token.until \in Int /\ clock \in Nat
    BY <1>2 DEF AccessInv, Shaped, WorldInv
  <2>2. request.token.until <= clock => request.token.until <= clock'
    BY <2>1
  <2> QED BY <2>1, <2>2 DEF Owing
<1> QED BY <1>1, <1>2 DEF AccessInv

LEMMA OthersAct ==
  ASSUME AccessInv,
         Refresh \/ MoveMarket \/ RecordEnding \/ TouchElsewhere \/ WriteElsewhere \/ EndOrder \/ Tick
           \/ UNCHANGED accessVars
  PROVE  AccessInv'
<1>1. WorldInv /\ clock \in Nat /\ Lifetime \in Nat
  BY AccessAssumption DEF AccessInv, WorldInv
<1>2. CASE Refresh
  <2>1. /\ UNCHANGED <<uses, clock, account, lost, request>> /\ ~account.suspended
        /\ token'.admin = account.admin /\ token'.until = clock + Lifetime
    BY <1>2 DEF Refresh
  <2>2. token'.until \in Int
    BY <1>1, <2>1
  <2>3. WorldInv'
    BY <1>1, <2>1, <2>2 DEF WorldInv
  <2> QED BY <1>1, <2>1, <2>3, Elsewhere
<1>3. CASE Tick
  <2>1. clock' = clock + 1 /\ clock < LastClock /\ UNCHANGED <<uses, account, lost, token, request>>
    BY <1>3 DEF Tick
  <2>2. WorldInv'
    <3>1. clock' \in Nat /\ clock' <= LastClock
      BY <1>1, <2>1, AccessAssumption
    <3>2. token.until <= clock' + Lifetime
      BY <1>1, <2>1 DEF WorldInv
    <3> QED BY <1>1, <2>1, <3>1, <3>2 DEF WorldInv
  <2> QED BY <1>1, <2>1, <2>2, Elsewhere
<1>4. CASE MoveMarket \/ RecordEnding \/ TouchElsewhere \/ WriteElsewhere \/ EndOrder \/ UNCHANGED accessVars
  <2>1. UNCHANGED kept /\ UNCHANGED request
    BY <1>4 DEF MoveMarket, RecordEnding, TouchElsewhere, WriteElsewhere, EndOrder, accessVars, kept
  <2>2. WorldInv'
    BY <1>1, <2>1, WorldStays
  <2> QED BY <1>1, <2>1, <2>2, Elsewhere DEF kept
<1> QED BY <1>2, <1>3, <1>4

\* The request under way no longer lacks what the account has again.
LEMMA Regaining ==
  ASSUME Shaped, NEW a, Regained(a)
  PROVE  /\ Shaped' /\ (UnderWay' <=> UnderWay)
         /\ request'.does = request.does /\ request'.admin = request.admin /\ request'.left = request.left
         /\ request'.token = request.token /\ request'.overdue = request.overdue
         /\ request'.wrote = request.wrote /\ request'.answer = request.answer
         /\ UnderWay => request'.lacked = request.lacked \ {a}
         /\ request'.lacked \subseteq request.lacked
<1>1. CASE UnderWay
  BY <1>1 DEF Regained, Shaped, UnderWay
<1>2. CASE ~UnderWay
  BY <1>2 DEF Regained, Shaped, UnderWay
<1> QED BY <1>1, <1>2

LEMMA RoleSteps ==
  ASSUME AccessInv, SetRole
  PROVE  AccessInv'
<1>1. /\ WorldInv /\ Shaped /\ UNCHANGED <<uses, clock, token>>
      /\ Never \in Int /\ clock # Never
  BY AccessAssumption DEF AccessInv, WorldInv, SetRole, Never
<1>2. /\ account'.admin = ~account.admin /\ account'.suspended = account.suspended
      /\ account' = [admin |-> account'.admin, suspended |-> account'.suspended]
      /\ lost'.role = (IF account.admin THEN clock ELSE Never) /\ lost'.standing = lost.standing
      /\ lost' = [role |-> lost'.role, standing |-> lost'.standing]
  BY <1>1 DEF SetRole, WorldInv
<1>3. WorldInv'
  <2>1. lost'.role \in Int /\ lost'.standing \in Int /\ (account'.admin <=> lost'.role = Never)
    <3>1. clock \in Int /\ lost.role \in Int /\ lost.standing \in Int
      BY <1>1 DEF WorldInv
    <3>2. CASE account.admin
      BY <1>1, <1>2, <3>1, <3>2
    <3>3. CASE ~account.admin
      BY <1>1, <1>2, <3>1, <3>3
    <3> QED BY <3>2, <3>3
  <2>2. token.admin /\ ~account'.admin => token.until <= lost'.role + Lifetime
    BY <1>1, <1>2 DEF WorldInv
  <2>3. account'.suspended => token.until <= lost'.standing + Lifetime
    BY <1>1, <1>2 DEF WorldInv
  <2>4. account'.admin \in BOOLEAN /\ account'.suspended \in BOOLEAN /\ (~account'.suspended <=> lost'.standing = Never)
    BY <1>1, <1>2 DEF WorldInv
  <2> QED BY <1>1, <1>2, <2>1, <2>2, <2>3, <2>4 DEF WorldInv, Never
<1>4. CASE account.admin
  <2>1. UNCHANGED request
    BY <1>4 DEF SetRole
  <2>2. UnderWay => Owing'
    BY <1>1, <1>2, <1>4, <2>1 DEF AccessInv, Owing
  <2> QED BY <1>3, <2>1, <2>2 DEF AccessInv, Shaped, AuthorityIsFresh, UnderWay
<1>5. CASE ~account.admin
  <2>1. Regained("role")
    BY <1>5 DEF SetRole
  <2>2. /\ Shaped' /\ (UnderWay' <=> UnderWay)
        /\ request'.does = request.does /\ request'.admin = request.admin /\ request'.left = request.left
        /\ request'.token = request.token /\ request'.overdue = request.overdue
        /\ request'.wrote = request.wrote /\ request'.answer = request.answer
        /\ UnderWay => request'.lacked = request.lacked \ {"role"}
        /\ request'.lacked \subseteq request.lacked
    BY <1>1, <2>1, Regaining
  <2>3. UnderWay => Owing'
    BY <1>1, <1>2, <2>2 DEF AccessInv, Owing
  <2>4. AuthorityIsFresh'
    BY <2>2 DEF AccessInv, AuthorityIsFresh
  <2> QED BY <1>3, <2>2, <2>3, <2>4 DEF AccessInv
<1> QED BY <1>4, <1>5

LEMMA StandingSteps ==
  ASSUME AccessInv, SetStanding
  PROVE  AccessInv'
<1>1. /\ WorldInv /\ Shaped /\ UNCHANGED <<uses, clock, token>>
      /\ Never \in Int /\ clock # Never
  BY AccessAssumption DEF AccessInv, WorldInv, SetStanding, Never
<1>2. /\ account'.suspended = ~account.suspended /\ account'.admin = account.admin
      /\ account' = [admin |-> account'.admin, suspended |-> account'.suspended]
      /\ lost'.standing = (IF account.suspended THEN Never ELSE clock) /\ lost'.role = lost.role
      /\ lost' = [role |-> lost'.role, standing |-> lost'.standing]
  BY <1>1 DEF SetStanding, WorldInv
<1>3. WorldInv'
  <2>1. lost'.role \in Int /\ lost'.standing \in Int /\ (~account'.suspended <=> lost'.standing = Never)
    <3>1. clock \in Int /\ lost.role \in Int /\ lost.standing \in Int
      BY <1>1 DEF WorldInv
    <3>2. CASE account.suspended
      BY <1>1, <1>2, <3>1, <3>2
    <3>3. CASE ~account.suspended
      BY <1>1, <1>2, <3>1, <3>3
    <3> QED BY <3>2, <3>3
  <2>2. token.admin /\ ~account'.admin => token.until <= lost'.role + Lifetime
    BY <1>1, <1>2 DEF WorldInv
  <2>3. account'.suspended => token.until <= lost'.standing + Lifetime
    BY <1>1, <1>2 DEF WorldInv
  <2>4. account'.admin \in BOOLEAN /\ account'.suspended \in BOOLEAN /\ (account'.admin <=> lost'.role = Never)
    BY <1>1, <1>2 DEF WorldInv
  <2> QED BY <1>1, <1>2, <2>1, <2>2, <2>3, <2>4 DEF WorldInv, Never
<1>4. CASE ~account.suspended
  <2>1. UNCHANGED request
    BY <1>4 DEF SetStanding
  <2>2. UnderWay => Owing'
    BY <1>1, <1>2, <1>4, <2>1 DEF AccessInv, Owing
  <2> QED BY <1>3, <2>1, <2>2 DEF AccessInv, Shaped, AuthorityIsFresh, UnderWay
<1>5. CASE account.suspended
  <2>1. Regained("standing")
    BY <1>5 DEF SetStanding
  <2>2. /\ Shaped' /\ (UnderWay' <=> UnderWay)
        /\ request'.does = request.does /\ request'.admin = request.admin /\ request'.left = request.left
        /\ request'.token = request.token /\ request'.overdue = request.overdue
        /\ request'.wrote = request.wrote /\ request'.answer = request.answer
        /\ UnderWay => request'.lacked = request.lacked \ {"standing"}
        /\ request'.lacked \subseteq request.lacked
    BY <1>1, <2>1, Regaining
  <2>3. UnderWay => Owing'
    BY <1>1, <1>2, <2>2 DEF AccessInv, Owing
  <2>4. AuthorityIsFresh'
    BY <2>2 DEF AccessInv, AuthorityIsFresh
  <2> QED BY <1>3, <2>2, <2>3, <2>4 DEF AccessInv
<1> QED BY <1>4, <1>5

LEMMA InitFresh == InitAccess => AccessInv
<1>1. SUFFICES ASSUME InitAccess PROVE AccessInv
  OBVIOUS
<1>2. WorldInv
  BY <1>1, AccessAssumption DEF InitAccess, WorldInv, Never
<1>3. Shaped
  BY <1>1, EmptySeq DEF InitAccess, Shaped, Idle
<1>4. ~UnderWay /\ AuthorityIsFresh
  BY <1>1 DEF InitAccess, Idle, UnderWay, AuthorityIsFresh, Done
<1> QED BY <1>2, <1>3, <1>4 DEF AccessInv

LEMMA NextFresh == AccessInv /\ [AccessNext]_accessVars => AccessInv'
  BY CheckSteps, AskSteps, TouchSteps, WriteSteps, EndSteps, Begins, Receives, OthersAct, RoleSteps, StandingSteps DEF AccessNext

\* For every lifetime of the access tokens, a request that was begun that long
\* after its account lost the role or the standing does nothing and learns
\* nothing, and no trade is written for an account already suspended.
THEOREM AuthorityStaysFresh == AccessSpec => []AuthorityIsFresh
<1>1. AccessInv => AuthorityIsFresh
  BY DEF AccessInv
<1> QED BY <1>1, InitFresh, NextFresh, PTL DEF AccessSpec

----------------------------------------------------------------------------
(* What a request may be answered.  AnswerInv adds to AccessInv what a      *)
(* repeat of a trade still has in front of it (the replay of its key), that *)
(* nothing but telling market_service follows a payout, that every check a  *)
(* route has in front of it answers only what the route declares, that a    *)
(* draft has no book, and that what a request had it does not miss.         *)

\* What a check may answer.
Answerable(gate, does) ==
  CASE gate = "token" -> InvalidToken
    [] gate \in {"role", "row_role"} -> NotAnAdministrator
    [] gate = "row" -> AccountSuspended
    [] gate = "shape" -> InvalidRequest
    [] gate = "cursor" -> MalformedCursor
    [] gate = "replay" -> Done \cup IdempotencyKeyReused
    [] gate = "account" -> InvalidToken \cup AccountSuspended \cup AuthUnavailable
    [] gate = "market" -> InvalidToken \cup MarketTermsUnavailable \cup MarketNotFound \cup MarketClosed
    [] gate = "terms" -> InvalidToken \cup MarketTermsUnavailable \cup MarketNotFound
    [] gate = "open" -> InvalidToken \cup MarketTermsUnavailable \cup MarketNotFound
    [] gate = "mint" -> IF does \in Keyed THEN IdempotencyKeyReused ELSE {}
    [] gate = "book" -> Done \cup IdempotencyKeyReused \cup MarketClosed \cup ServerFaults \cup TradeRefusals \cup OrderRefusals
    [] gate = "record" -> {"market_already_voided", "market_already_settled"} \cup EndingRefusals
    [] gate = "pay" -> {"market_already_voided", "market_already_settled"}
                         \cup (IF does = "void" THEN AdminHasAStake \cup {"void_replay_mismatch"} ELSE MarketTermsUnavailable)
    [] gate = "tell" -> Done \cup UnconfirmedEnding
    [] gate = "cancel" -> CancelRefusals
    [] gate = "found" -> MarketNotFound
    [] gate = "book_read" -> {"market_book_incomplete"}
    [] gate = "price" -> PricingRefusals
    [] gate = "history" -> {"price_history_inconsistent"}
    [] gate = "generation" -> LeaderboardRefreshed
    [] OTHER -> {}

\* The checks a request of a kind may meet.
Part(does) ==
  CASE does \in Keyed ->
         {"token", "shape", "replay", "account", "market", "find_book", "open", "find_grant", "mint", "book"}
    [] does \in Endings -> {"token", "role", "shape", "terms", "record", "find_book", "open", "pay", "tell"}
    [] does = "cancel" -> {"token", "role", "shape", "cancel"}
    [] OTHER -> Gates \ {"replay", "account", "market", "book", "terms", "record", "pay", "tell", "cancel"}

\* Those of them whose answers the route declares.
Steps(does, declares) ==
  {g \in Part(does) : \A code \in Answerable(g, does) : StatusOf(code) \in declares \cup {200}}

\* Nothing but those of rest comes after the check g.
After(g, rest, s) ==
  \A i \in 1..Len(s), j \in 1..Len(s) : s[i] = g /\ i < j => s[j] \in rest

BeforeReplay == {"token", "shape"}

Deeds == {"read", "cancel", "account"} \cup Keyed \cup Endings \cup MarketWrites

\* What is on record, and of which market.
RecordInv ==
  /\ written = [trade |-> written.trade, order |-> written.order, grant |-> written.grant, book |-> written.book]
  /\ record \in {"none"} \cup Endings
  /\ written.book # Unwritten => market # "draft"

\* What a request under way still has in front of it.
Asked ==
  LET r == request IN
    /\ r.does \in Deeds
    /\ r.left \in Seq(Steps(r.does, r.declares))
    /\ r.does \in MarketWrites \cup {"account"} => r.declares = Statuses
    /\ r.does \in Keyed /\ r.again => Ahead("replay", BeforeReplay, r.left)
    /\ r.does \in Endings => "tell" \in Steps(r.does, r.declares) /\ After("pay", {"tell"}, r.left)
    /\ "asked" \in r.wrote => r.does \in Endings /\ r.left \in Seq({"tell"})

\* What was there when the request began is there, and is not missed.
Remembered == request.had \subseteq Touched /\ request.missed \cap request.had = {}

AnswerInv ==
  /\ RecordInv
  /\ UnderWay => Asked
  /\ Remembered
  /\ request.again => HasHappened(request.does)
  /\ PromisesKept

----------------------------------------------------------------------------
(* The statuses of the answers, check by check *)

LEMMA StatusOfAnswers ==
  /\ \A c \in InvalidToken : StatusOf(c) = 401
  /\ \A c \in NotAnAdministrator \cup AccountSuspended \cup AdminHasAStake : StatusOf(c) = 403
  /\ \A c \in InvalidRequest : StatusOf(c) = 422
  /\ \A c \in MalformedCursor : StatusOf(c) = 400
  /\ \A c \in Done : StatusOf(c) = 200
  /\ \A c \in IdempotencyKeyReused \cup MarketClosed \cup EndingRefusals \cup LeaderboardRefreshed : StatusOf(c) = 409
  /\ \A c \in AuthUnavailable \cup MarketTermsUnavailable \cup UnconfirmedEnding : StatusOf(c) = 503
  /\ \A c \in MarketNotFound : StatusOf(c) = 404
  /\ \A c \in ServerFaults : StatusOf(c) = 500
  /\ \A c \in PricingRefusals : StatusOf(c) \in {409, 422}
  /\ \A c \in CancelRefusals : StatusOf(c) \in {404, 409}
  /\ \A c \in {"market_already_voided", "market_already_settled"} : StatusOf(c) = 409
  /\ \A c \in MarketRefusals \cup AccountRefusals : StatusOf(c) = 409
BY DEF StatusOf, InvalidToken, NotAnAdministrator, AccountSuspended, AdminHasAStake, InvalidRequest, MalformedCursor,
       Done, IdempotencyKeyReused, MarketClosed, EndingRefusals, LeaderboardRefreshed, AuthUnavailable,
       MarketTermsUnavailable, UnconfirmedEnding, MarketNotFound, ServerFaults, PricingRefusals, CancelRefusals,
       MarketRefusals, AccountRefusals

LEMMA StatusOfTrades ==
  \A c \in TradeRefusals \cup OrderRefusals : StatusOf(c) \in {409, 422}
<1>1. \A c \in {"insufficient_shares_held", "quote_stale", "order_crosses_book", "market_not_binary"} \cup InsufficientFunds :
         StatusOf(c) = 409
  BY DEF StatusOf, InvalidToken, NotAnAdministrator, AccountSuspended, AdminHasAStake, InvalidRequest, MalformedCursor,
         AuthUnavailable, MarketTermsUnavailable, MarketNotFound, ServerFaults, PricingRefusals, InsufficientFunds
<1> QED BY <1>1, StatusOfAnswers DEF TradeRefusals, OrderRefusals

LEMMA StatusIsOne == \A c : StatusOf(c) \in Statuses
BY DEF StatusOf, Statuses

LEMMA AnyStep ==
  ASSUME NEW does
  PROVE  Steps(does, Statuses) = Part(does)
BY StatusIsOne DEF Steps

LEMMA PlainSteps ==
  ASSUME NEW does \in {"read"}, NEW D
  PROVE  LET G == Steps(does, D) IN
         /\ 401 \in D => "token" \in G
         /\ 403 \in D => "role" \in G
         /\ 422 \in D => "shape" \in G
         /\ 400 \in D => "cursor" \in G
         /\ {"find_grant", "mint", "find_book"} \subseteq G
         /\ {401, 404, 503} \subseteq D => "open" \in G
         /\ 500 \in D => "book_read" \in G /\ "history" \in G
         /\ {409, 422} \subseteq D => "price" \in G
         /\ 409 \in D => "generation" \in G
<1>1. {"token", "role", "shape", "cursor", "find_grant", "mint", "find_book", "open", "book_read", "history", "price",
       "generation"} \subseteq Part(does)
  BY DEF Part, Gates, Keyed, Endings
<1>2. \A c \in {"market_book_incomplete", "price_history_inconsistent"} : StatusOf(c) = 500
  BY StatusOfAnswers DEF ServerFaults
<1>3. /\ Answerable("token", does) = InvalidToken /\ Answerable("role", does) = NotAnAdministrator
      /\ Answerable("shape", does) = InvalidRequest /\ Answerable("cursor", does) = MalformedCursor
      /\ Answerable("find_grant", does) = {} /\ Answerable("mint", does) = {} /\ Answerable("find_book", does) = {}
      /\ Answerable("open", does) = InvalidToken \cup MarketTermsUnavailable \cup MarketNotFound
      /\ Answerable("book_read", does) = {"market_book_incomplete"}
      /\ Answerable("history", does) = {"price_history_inconsistent"}
      /\ Answerable("price", does) = PricingRefusals /\ Answerable("generation", does) = LeaderboardRefreshed
  BY DEF Answerable, Keyed
<1> QED BY <1>1, <1>2, <1>3, StatusOfAnswers DEF Steps

LEMMA KeyedSteps ==
  ASSUME NEW does \in Keyed
  PROVE  Part(does) \subseteq Steps(does, {401, 403, 404, 409, 422, 500, 503})
<1>1. Part(does) = {"token", "shape", "replay", "account", "market", "find_book", "open", "find_grant", "mint", "book"}
  BY DEF Part, Keyed, Endings
<1>2. /\ Answerable("token", does) = InvalidToken /\ Answerable("shape", does) = InvalidRequest
      /\ Answerable("replay", does) = Done \cup IdempotencyKeyReused
      /\ Answerable("account", does) = InvalidToken \cup AccountSuspended \cup AuthUnavailable
      /\ Answerable("market", does) = InvalidToken \cup MarketTermsUnavailable \cup MarketNotFound \cup MarketClosed
      /\ Answerable("find_book", does) = {} /\ Answerable("find_grant", does) = {}
      /\ Answerable("open", does) = InvalidToken \cup MarketTermsUnavailable \cup MarketNotFound
      /\ Answerable("mint", does) = IdempotencyKeyReused
      /\ Answerable("book", does) = Done \cup IdempotencyKeyReused \cup MarketClosed \cup ServerFaults \cup TradeRefusals \cup OrderRefusals
  BY DEF Answerable
<1> QED BY <1>1, <1>2, StatusOfAnswers, StatusOfTrades DEF Steps

LEMMA EndingSteps ==
  /\ Part("settle") \subseteq Steps("settle", {401, 403, 404, 409, 422, 503})
  /\ Part("void") \subseteq Steps("void", {401, 403, 404, 409, 422, 500, 503})
<1>1. ASSUME NEW does \in Endings
      PROVE  /\ Part(does) = {"token", "role", "shape", "terms", "record", "find_book", "open", "pay", "tell"}
             /\ Answerable("token", does) = InvalidToken /\ Answerable("role", does) = NotAnAdministrator
             /\ Answerable("shape", does) = InvalidRequest
             /\ Answerable("terms", does) = InvalidToken \cup MarketTermsUnavailable \cup MarketNotFound
             /\ Answerable("record", does) = {"market_already_voided", "market_already_settled"} \cup EndingRefusals
             /\ Answerable("find_book", does) = {}
             /\ Answerable("open", does) = InvalidToken \cup MarketTermsUnavailable \cup MarketNotFound
             /\ Answerable("tell", does) = Done \cup UnconfirmedEnding
  BY DEF Part, Answerable, Endings, Keyed
<1>2. Answerable("pay", "settle") = {"market_already_voided", "market_already_settled"} \cup MarketTermsUnavailable
  BY DEF Answerable
<1>3. Answerable("pay", "void")
        = {"market_already_voided", "market_already_settled"} \cup (AdminHasAStake \cup {"void_replay_mismatch"})
  BY DEF Answerable
<1>4. StatusOf("void_replay_mismatch") = 500
  BY StatusOfAnswers DEF ServerFaults
<1> QED BY <1>1, <1>2, <1>3, <1>4, StatusOfAnswers DEF Steps, Endings

LEMMA CancelSteps ==
  /\ {"token", "shape", "cancel"} \subseteq Steps("cancel", {401, 404, 409, 422})
  /\ {"token", "role", "shape", "cancel"} \subseteq Steps("cancel", {401, 403, 404, 409, 422})
<1>1. /\ Part("cancel") = {"token", "role", "shape", "cancel"}
      /\ Answerable("token", "cancel") = InvalidToken /\ Answerable("role", "cancel") = NotAnAdministrator
      /\ Answerable("shape", "cancel") = InvalidRequest /\ Answerable("cancel", "cancel") = CancelRefusals
  BY DEF Part, Answerable, Endings, Keyed
<1> QED BY <1>1, StatusOfAnswers DEF Steps

----------------------------------------------------------------------------
(* What every route promises *)

Fitting(route) ==
  LET g == route.gates IN
    /\ route.does \in Deeds
    /\ g \in Seq(Steps(route.does, route.declares))
    /\ route.does \in MarketWrites \cup {"account"} => route.declares = Statuses
    /\ route.does \in Keyed => Ahead("replay", BeforeReplay, g)
    /\ route.does \in Endings => "tell" \in Steps(route.does, route.declares)
    /\ route.does \in Endings => After("pay", {"tell"}, g)

LEMMA BareFitting == Fitting(MyOrders)
<1> DEFINE route == MyOrders
           G == Steps(route.does, route.declares)
<1>1. route.does \in {"read"} /\ route.declares = {401} /\ route.gates = <<"token">>
  BY DEF MyOrders, Reads, Route, CurrentUser
<1>2. "token" \in G
  BY <1>1, PlainSteps
<1> HIDE DEF G
<1>3. route.gates \in Seq(G)
  BY <1>1, <1>2
<1> QED BY <1>1, <1>3 DEF Fitting, G, Deeds, MarketWrites, Keyed, Endings

LEMMA UserFitting ==
  ASSUME NEW does \in {"read"}, NEW D, 401 \in D, NEW t \in Seq(Steps(does, D))
  PROVE  Fitting(Route(does, CurrentUser \o t, D))
<1> DEFINE G == Steps(does, D)
           route == Route(does, CurrentUser \o t, D)
<1>1. "token" \in G
  BY PlainSteps
<1> HIDE DEF G
<1>2. CurrentUser \in Seq(G)
  BY <1>1 DEF CurrentUser
<1>3. route.does = does /\ route.declares = D /\ route.gates = CurrentUser \o t
  BY DEF Route
<1> HIDE DEF route
<1>4. CurrentUser \o t \in Seq(G)
  BY <1>2, ConcatLen DEF G
<1>5. Fitting(route)
  BY <1>3, <1>4 DEF Fitting, Deeds, MarketWrites, Keyed, Endings, G
<1> QED BY <1>5 DEF route

LEMMA AdminFitting ==
  ASSUME NEW does \in {"read"}, NEW D, {401, 403} \subseteq D, NEW t \in Seq(Steps(does, D))
  PROVE  Fitting(Route(does, CurrentAdmin \o t, D))
<1> DEFINE G == Steps(does, D)
           route == Route(does, CurrentAdmin \o t, D)
<1>1. "token" \in G /\ "role" \in G
  BY PlainSteps
<1> HIDE DEF G
<1>2. CurrentAdmin \in Seq(G)
  BY <1>1 DEF CurrentAdmin
<1>3. route.does = does /\ route.declares = D /\ route.gates = CurrentAdmin \o t
  BY DEF Route
<1> HIDE DEF route
<1>4. CurrentAdmin \o t \in Seq(G)
  BY <1>2, ConcatLen DEF G
<1>5. Fitting(route)
  BY <1>3, <1>4 DEF Fitting, Deeds, MarketWrites, Keyed, Endings, G
<1> QED BY <1>5 DEF route

LEMMA LedgerReadsFitting ==
  /\ Fitting(MyBalance) /\ Fitting(MyEntries) /\ Fitting(MyPortfolio) /\ Fitting(UserBalance) /\ Fitting(UserEntries) /\ Fitting(MarketTrades)
  /\ Fitting(MarketExposure) /\ Fitting(PreviewTrade) /\ Fitting(MarketSnapshot)
  /\ Fitting(MarketSnapshots) /\ Fitting(TheLeaderboard) /\ Fitting(MarketPriceHistory)
<1>0. Fitting(MyBalance)
  <2> DEFINE D == {401}
             G == Steps("read", D)
             t == <<"find_grant", "mint">>
  <2>1. "find_grant" \in G /\ "mint" \in G /\ 401 \in D
    BY PlainSteps
  <2> HIDE DEF G
  <2>2. t \in Seq(G)
    BY <2>1
  <2> HIDE DEF t, D
  <2>3. Fitting(Route("read", CurrentUser \o t, D))
    BY <2>1, <2>2, UserFitting DEF G
  <2> QED BY <2>3 DEF t, D, MyBalance, Reads
<1>1. Fitting(MyEntries)
  <2> DEFINE D == {400, 401, 422}
             G == Steps("read", D)
             t == <<"shape", "find_grant", "mint", "cursor">>
  <2>1. "shape" \in G /\ "find_grant" \in G /\ "mint" \in G /\ "cursor" \in G /\ 401 \in D
    BY PlainSteps
  <2> HIDE DEF G
  <2>2. t \in Seq(G)
    BY <2>1
  <2> HIDE DEF t, D
  <2>3. Fitting(Route("read", CurrentUser \o t, D))
    BY <2>1, <2>2, UserFitting DEF G
  <2> QED BY <2>3 DEF t, D, MyEntries, Reads
<1>2. Fitting(MyPortfolio)
  <2> DEFINE D == {401, 500}
             G == Steps("read", D)
             t == <<"find_grant", "mint", "book_read">>
  <2>1. "find_grant" \in G /\ "mint" \in G /\ "book_read" \in G /\ 401 \in D
    BY PlainSteps
  <2> HIDE DEF G
  <2>2. t \in Seq(G)
    BY <2>1
  <2> HIDE DEF t, D
  <2>3. Fitting(Route("read", CurrentUser \o t, D))
    BY <2>1, <2>2, UserFitting DEF G
  <2> QED BY <2>3 DEF t, D, MyPortfolio, Reads
<1>3. Fitting(UserBalance)
  <2> DEFINE D == {401, 403, 422}
             G == Steps("read", D)
             t == <<"shape">>
  <2>1. "shape" \in G /\ {401, 403} \subseteq D
    BY PlainSteps
  <2> HIDE DEF G
  <2>2. t \in Seq(G)
    BY <2>1
  <2> HIDE DEF t, D
  <2>3. Fitting(Route("read", CurrentAdmin \o t, D))
    BY <2>1, <2>2, AdminFitting DEF G
  <2> QED BY <2>3 DEF t, D, UserBalance, Reads
<1>4. Fitting(UserEntries)
  <2> DEFINE D == {400, 401, 403, 422}
             G == Steps("read", D)
             t == <<"shape", "cursor">>
  <2>1. "shape" \in G /\ "cursor" \in G /\ {401, 403} \subseteq D
    BY PlainSteps
  <2> HIDE DEF G
  <2>2. t \in Seq(G)
    BY <2>1
  <2> HIDE DEF t, D
  <2>3. Fitting(Route("read", CurrentAdmin \o t, D))
    BY <2>1, <2>2, AdminFitting DEF G
  <2> QED BY <2>3 DEF t, D, UserEntries, Reads
<1>5. Fitting(MarketTrades)
  <2> DEFINE D == {400, 401, 403, 422}
             G == Steps("read", D)
             t == <<"shape", "cursor">>
  <2>1. "shape" \in G /\ "cursor" \in G /\ {401, 403} \subseteq D
    BY PlainSteps
  <2> HIDE DEF G
  <2>2. t \in Seq(G)
    BY <2>1
  <2> HIDE DEF t, D
  <2>3. Fitting(Route("read", CurrentAdmin \o t, D))
    BY <2>1, <2>2, AdminFitting DEF G
  <2> QED BY <2>3 DEF t, D, MarketTrades, Reads
<1>6. Fitting(MarketExposure)
  <2> DEFINE D == {401, 403, 422}
             G == Steps("read", D)
             t == <<"shape">>
  <2>1. "shape" \in G /\ {401, 403} \subseteq D
    BY PlainSteps
  <2> HIDE DEF G
  <2>2. t \in Seq(G)
    BY <2>1
  <2> HIDE DEF t, D
  <2>3. Fitting(Route("read", CurrentAdmin \o t, D))
    BY <2>1, <2>2, AdminFitting DEF G
  <2> QED BY <2>3 DEF t, D, MarketExposure, Reads
<1>7. Fitting(PreviewTrade)
  <2> DEFINE D == {401, 404, 409, 422, 500, 503}
             G == Steps("read", D)
             t == <<"shape", "find_book", "open", "book_read", "price">>
  <2>1. "shape" \in G /\ "find_book" \in G /\ "open" \in G /\ "book_read" \in G /\ "price" \in G /\ 401 \in D
    BY PlainSteps
  <2> HIDE DEF G
  <2>2. t \in Seq(G)
    BY <2>1
  <2> HIDE DEF t, D
  <2>3. Fitting(Route("read", CurrentUser \o t, D))
    BY <2>1, <2>2, UserFitting DEF G
  <2> QED BY <2>3 DEF t, D, PreviewTrade, Reads
<1>8. Fitting(MarketSnapshot)
  <2> DEFINE D == {401, 404, 422, 500, 503}
             G == Steps("read", D)
             t == <<"shape", "find_book", "open", "book_read">>
  <2>1. "shape" \in G /\ "find_book" \in G /\ "open" \in G /\ "book_read" \in G /\ 401 \in D
    BY PlainSteps
  <2> HIDE DEF G
  <2>2. t \in Seq(G)
    BY <2>1
  <2> HIDE DEF t, D
  <2>3. Fitting(Route("read", CurrentUser \o t, D))
    BY <2>1, <2>2, UserFitting DEF G
  <2> QED BY <2>3 DEF t, D, MarketSnapshot, Reads
<1>9. Fitting(MarketSnapshots)
  <2> DEFINE D == {401, 422}
             G == Steps("read", D)
             t == <<"shape">>
  <2>1. "shape" \in G /\ 401 \in D
    BY PlainSteps
  <2> HIDE DEF G
  <2>2. t \in Seq(G)
    BY <2>1
  <2> HIDE DEF t, D
  <2>3. Fitting(Route("read", CurrentUser \o t, D))
    BY <2>1, <2>2, UserFitting DEF G
  <2> QED BY <2>3 DEF t, D, MarketSnapshots, Reads
<1>10. Fitting(TheLeaderboard)
  <2> DEFINE D == {400, 401, 409, 422}
             G == Steps("read", D)
             t == <<"shape", "cursor", "generation">>
  <2>1. "shape" \in G /\ "cursor" \in G /\ "generation" \in G /\ 401 \in D
    BY PlainSteps
  <2> HIDE DEF G
  <2>2. t \in Seq(G)
    BY <2>1
  <2> HIDE DEF t, D
  <2>3. Fitting(Route("read", CurrentUser \o t, D))
    BY <2>1, <2>2, UserFitting DEF G
  <2> QED BY <2>3 DEF t, D, TheLeaderboard, Reads
<1>11. Fitting(MarketPriceHistory)
  <2> DEFINE D == {401, 422, 500}
             G == Steps("read", D)
             t == <<"shape", "history">>
  <2>1. "shape" \in G /\ "history" \in G /\ 401 \in D
    BY PlainSteps
  <2> HIDE DEF G
  <2>2. t \in Seq(G)
    BY <2>1
  <2> HIDE DEF t, D
  <2>3. Fitting(Route("read", CurrentUser \o t, D))
    BY <2>1, <2>2, UserFitting DEF G
  <2> QED BY <2>3 DEF t, D, MarketPriceHistory, Reads
<1> QED BY <1>0, <1>1, <1>2, <1>3, <1>4, <1>5, <1>6, <1>7, <1>8, <1>9, <1>10, <1>11

LEMMA KeyedFitting == Fitting(ExecuteTrade) /\ Fitting(PlaceOrder)
<1> DEFINE a == CurrentUser
           b == <<"shape">>
           c == PreGate
           g == (a \o b) \o c
           D == {401, 403, 404, 409, 422, 500, 503}
           R == {"token", "shape", "replay", "account", "market", "find_book", "open", "find_grant", "mint", "book"}
<1>1. a \in Seq(R) /\ b \in Seq(R) /\ c \in Seq(R)
  BY DEF CurrentUser, PreGate, ReplayFirst
<1>2. Len(a) = 1 /\ Len(b) = 1 /\ Len(c) = 8
  BY DEF CurrentUser, PreGate, ReplayFirst
<1>3. a[1] = "token" /\ b[1] = "shape" /\ c[1] = "replay"
  BY DEF CurrentUser, PreGate, ReplayFirst
<1>4. /\ ExecuteTrade.gates = g /\ ExecuteTrade.does = "trade" /\ ExecuteTrade.declares = D
      /\ PlaceOrder.gates = g /\ PlaceOrder.does = "order" /\ PlaceOrder.declares = D
  BY DEF ExecuteTrade, PlaceOrder, Route
<1>5. R = Part("trade") /\ R = Part("order")
  BY DEF Part, Keyed, Endings
<1> HIDE DEF a, b, c, D, R
<1>6. a \o b \in Seq(R) /\ Len(a \o b) = Len(a) + Len(b)
  BY <1>1, ConcatLen
<1>7. g \in Seq(R) /\ Len(g) = Len(a \o b) + Len(c)
  BY <1>1, <1>6, ConcatLen
<1>8. /\ 1 \in 1..Len(a) /\ 1 \in 1..Len(b) /\ 1 \in 1..Len(a \o b) /\ 2 \in 1..Len(a \o b)
      /\ 1 \in 1..Len(c) /\ Len(a) + 1 = 2 /\ Len(a \o b) + 1 = 3
  BY <1>2, <1>6
<1>9. (a \o b)[1] = a[1] /\ (a \o b)[Len(a) + 1] = b[1]
  BY <1>1, <1>8, ConcatParts
<1>10. g[1] = (a \o b)[1] /\ g[2] = (a \o b)[2] /\ g[Len(a \o b) + 1] = c[1]
  BY <1>1, <1>6, <1>8, ConcatParts
<1>11. g[1] = "token" /\ g[2] = "shape" /\ g[3] = "replay" /\ Len(g) = 10
  BY <1>2, <1>3, <1>6, <1>7, <1>8, <1>9, <1>10
<1> HIDE DEF g
<1>12. 3 \in 1..Len(g) /\ \A i \in 1..3 - 1 : i = 1 \/ i = 2
  BY <1>11
<1>13. Ahead("replay", BeforeReplay, g)
  BY <1>11, <1>12 DEF Ahead, BeforeReplay
<1>14. g \in Seq(Steps("trade", D)) /\ g \in Seq(Steps("order", D))
  <2>1. R \subseteq Steps("trade", D) /\ R \subseteq Steps("order", D)
    BY <1>5, KeyedSteps DEF Keyed, D
  <2> QED BY <1>7, <2>1, SeqMonotonic
<1> QED BY <1>4, <1>13, <1>14 DEF Fitting, Deeds, MarketWrites, Keyed, Endings

LEMMA EndingFitting == Fitting(SettleMarket) /\ Fitting(VoidFlawedMarket)
<1> DEFINE a == CurrentAdmin
           b == <<"shape", "terms", "record", "find_book", "open", "pay", "tell">>
           g == a \o b
           D == {401, 403, 404, 409, 422, 503}
           E == {401, 403, 404, 409, 422, 500, 503}
           R == {"token", "role", "shape", "terms", "record", "find_book", "open", "pay", "tell"}
<1>1. a \in Seq(R) /\ b \in Seq(R)
  BY DEF CurrentAdmin
<1>2. Len(a) = 2 /\ Len(b) = 7
  BY DEF CurrentAdmin
<1>3. /\ a[1] = "token" /\ a[2] = "role"
      /\ b[1] = "shape" /\ b[2] = "terms" /\ b[3] = "record" /\ b[4] = "find_book" /\ b[5] = "open"
      /\ b[6] = "pay" /\ b[7] = "tell"
  BY DEF CurrentAdmin
<1>4. /\ SettleMarket.gates = g /\ SettleMarket.does = "settle" /\ SettleMarket.declares = D
      /\ VoidFlawedMarket.gates = g /\ VoidFlawedMarket.does = "void" /\ VoidFlawedMarket.declares = E
  BY DEF SettleMarket, VoidFlawedMarket, Route
<1>5. R = Part("settle") /\ R = Part("void")
  BY DEF Part, Keyed, Endings
<1> HIDE DEF a, b, D, E, R
<1>6. g \in Seq(R) /\ Len(g) = Len(a) + Len(b)
  BY <1>1, ConcatLen
<1>7. /\ 1 \in 1..Len(a) /\ 2 \in 1..Len(a) /\ \A i \in 1..7 : i \in 1..Len(b)
      /\ Len(a) + 1 = 3 /\ Len(a) + 2 = 4 /\ Len(a) + 3 = 5 /\ Len(a) + 4 = 6 /\ Len(a) + 5 = 7
      /\ Len(a) + 6 = 8 /\ Len(a) + 7 = 9
  BY <1>2
<1>8. \A i \in 1..Len(a) : g[i] = a[i]
  BY <1>1, ConcatParts
<1>9. \A i \in 1..Len(b) : g[Len(a) + i] = b[i]
  BY <1>1, ConcatParts
<1> HIDE DEF g
<1>10. g[1] # "pay" /\ g[2] # "pay" /\ g[3] # "pay" /\ g[4] # "pay"
  BY <1>3, <1>7, <1>8, <1>9
<1>11. g[5] # "pay" /\ g[6] # "pay" /\ g[7] # "pay" /\ g[8] = "pay" /\ g[9] = "tell" /\ Len(g) = 9
  BY <1>2, <1>3, <1>6, <1>7, <1>9
<1>14. After("pay", {"tell"}, g)
  <2>1. \A i \in 1..Len(g) : i = 1 \/ i = 2 \/ i = 3 \/ i = 4 \/ i = 5 \/ i = 6 \/ i = 7 \/ i = 8 \/ i = 9
    BY <1>11
  <2>2. \A i \in 1..Len(g) : g[i] = "pay" => i = 8
    BY <1>10, <1>11, <2>1
  <2>3. \A j \in 1..Len(g) : 8 < j => j = 9
    BY <1>11
  <2> QED BY <1>11, <2>2, <2>3 DEF After
<1>15. g \in Seq(Steps("settle", D)) /\ g \in Seq(Steps("void", E))
  <2>1. R \subseteq Steps("settle", D) /\ R \subseteq Steps("void", E)
    BY <1>5, EndingSteps DEF D, E
  <2> QED BY <1>6, <2>1, SeqMonotonic
<1>16. "tell" \in Steps("settle", D) /\ "tell" \in Steps("void", E)
  BY <1>5, EndingSteps DEF D, E, R
<1> QED BY <1>4, <1>14, <1>15, <1>16 DEF Fitting, Deeds, MarketWrites, Keyed, Endings

LEMMA CancelFitting == Fitting(CancelOrder) /\ Fitting(CancelAnyOrder)
<1>1. ASSUME NEW D, NEW a, NEW F, a \in Seq(F), F = Steps("cancel", D), "shape" \in F, "cancel" \in F
      PROVE  Fitting(Route("cancel", a \o <<"shape", "cancel">>, D))
  <2> DEFINE b == <<"shape", "cancel">>
             route == Route("cancel", a \o b, D)
  <2>1. b \in Seq(F)
    BY <1>1
  <2>2. route.does = "cancel" /\ route.declares = D /\ route.gates = a \o b
    BY DEF Route
  <2> HIDE DEF b, route
  <2>3. a \o b \in Seq(F)
    BY <1>1, <2>1, ConcatLen
  <2>4. Fitting(route)
    BY <1>1, <2>2, <2>3 DEF Fitting, Deeds, MarketWrites, Keyed, Endings
  <2> QED BY <2>4 DEF route, b
<1>2. Fitting(CancelOrder)
  <2> DEFINE F == Steps("cancel", {401, 404, 409, 422})
  <2>1. "token" \in F /\ "shape" \in F /\ "cancel" \in F
    BY CancelSteps
  <2> HIDE DEF F
  <2>2. CurrentUser \in Seq(F)
    BY <2>1 DEF CurrentUser
  <2> QED BY <1>1, <2>1, <2>2 DEF F, CancelOrder
<1>3. Fitting(CancelAnyOrder)
  <2> DEFINE F == Steps("cancel", {401, 403, 404, 409, 422})
  <2>1. "token" \in F /\ "role" \in F /\ "shape" \in F /\ "cancel" \in F
    BY CancelSteps
  <2> HIDE DEF F
  <2>2. CurrentAdmin \in Seq(F)
    BY <2>1 DEF CurrentAdmin
  <2> QED BY <1>1, <2>1, <2>2 DEF F, CancelAnyOrder
<1> QED BY <1>2, <1>3

Light == {"token", "role", "row", "row_role", "shape", "cursor", "found"}

LEMMA OpenFitting ==
  ASSUME NEW does \in MarketWrites \cup {"read", "account"}, NEW a \in Seq(Light)
  PROVE  Fitting(Route(does, a, Statuses))
<1> DEFINE route == Route(does, a, Statuses)
<1>1. Light \subseteq Part(does) /\ does \notin Keyed /\ does \notin Endings
  BY DEF Light, Part, Gates, MarketWrites, Keyed, Endings
<1>2. a \in Seq(Steps(does, Statuses))
  <2>1. Light \subseteq Steps(does, Statuses)
    BY <1>1, AnyStep
  <2> QED BY <2>1, SeqMonotonic
<1>3. route.does = does /\ route.declares = Statuses /\ route.gates = a
  BY DEF Route
<1> HIDE DEF route
<1>4. Fitting(route)
  BY <1>1, <1>2, <1>3 DEF Fitting, Deeds
<1> QED BY <1>4 DEF route

LEMMA OthersFitting == \A route \in OtherRoutes : Fitting(route)
<1>1. /\ CurrentUser \in Seq(Light) /\ CurrentAdmin \in Seq(Light) /\ LiveUser \in Seq(Light) /\ LiveAdmin \in Seq(Light)
      /\ <<"shape">> \in Seq(Light) /\ <<"shape", "cursor">> \in Seq(Light) /\ <<"shape", "found">> \in Seq(Light)
  BY DEF CurrentUser, CurrentAdmin, LiveUser, LiveAdmin, Light
<1>2. /\ CurrentUser \o <<"shape", "cursor">> \in Seq(Light) /\ CurrentUser \o <<"shape", "found">> \in Seq(Light)
      /\ CurrentAdmin \o <<"shape">> \in Seq(Light) /\ CurrentAdmin \o <<"shape", "cursor">> \in Seq(Light)
      /\ CurrentAdmin \o <<"shape", "found">> \in Seq(Light)
      /\ LiveAdmin \o <<"shape">> \in Seq(Light) /\ LiveAdmin \o <<"shape", "cursor">> \in Seq(Light)
  BY <1>1, ConcatLen
<1>3. ASSUME NEW does \in MarketWrites PROVE Fitting(MarketWrite(does))
  BY <1>2, OpenFitting DEF MarketWrite
<1>4. /\ Fitting(SaveMarket) /\ Fitting(PublishMarket) /\ Fitting(CloseMarketEarly) /\ Fitting(ProposeMarketOutcome)
      /\ Fitting(ApproveMarketOutcome) /\ Fitting(RejectMarketOutcome) /\ Fitting(SendBackMarketOutcome)
      /\ Fitting(MarkMarketSettled) /\ Fitting(MarkMarketVoided)
  BY <1>3 DEF MarketWrites, SaveMarket, PublishMarket, CloseMarketEarly, ProposeMarketOutcome, ApproveMarketOutcome,
              RejectMarketOutcome, SendBackMarketOutcome, MarkMarketSettled, MarkMarketVoided
<1>5. /\ Fitting(ListMarkets) /\ Fitting(Me) /\ Fitting(MarketOverview) /\ Fitting(GetMarket) /\ Fitting(ListActions)
      /\ Fitting(BrowseMarkets) /\ Fitting(GetPublicMarket) /\ Fitting(ListUsers) /\ Fitting(LookupUsers)
  BY <1>1, <1>2, OpenFitting DEF ListMarkets, Me, MarketOverview, GetMarket, ListActions, BrowseMarkets, GetPublicMarket,
                                 ListUsers, LookupUsers, Reads
<1>6. Fitting(ChangeRole) /\ Fitting(SetSuspension)
  BY <1>2, OpenFitting DEF ChangeRole, SetSuspension
<1> QED BY <1>4, <1>5, <1>6 DEF OtherRoutes

LEMMA RoutesFitting ==
  ASSUME NEW us \in Uses, NEW route \in us
  PROVE  Fitting(route)
<1>1. route \in Routes
  BY UsesAreRoutes
<1>2. route \in LedgerRoutes => Fitting(route)
  BY BareFitting, LedgerReadsFitting, KeyedFitting, EndingFitting, CancelFitting DEF LedgerRoutes
<1> QED BY <1>1, <1>2, OthersFitting DEF Routes

----------------------------------------------------------------------------
(* What of the world lasts *)

Lasting ==
  /\ RecordInv'
  /\ record # "none" => record' = record
  /\ resting = "cancelled" => resting' = "cancelled"
  /\ \A does \in Keyed : written[does] # Unwritten => written'[does] = written[does]
  /\ \A first \in FirstTouches : written[first] # Unwritten => written'[first] # Unwritten

LEMMA HappenedLasts ==
  ASSUME Lasting, HasHappened(request.does), request'.does = request.does
  PROVE  HasHappened(request.does)'
BY DEF Lasting, HasHappened, Endings

LEMMA AfterRest ==
  ASSUME NEW s \in Seq(Gates), s # <<>>, NEW g, NEW rest, After(g, rest, s)
  PROVE  After(g, rest, Tail(s)) /\ (Head(s) = g => Tail(s) \in Seq(rest))
<1>1. /\ Len(s) \in Nat /\ Len(s) >= 1 /\ Head(s) = s[1]
      /\ Tail(s) \in Seq(Gates) /\ Len(Tail(s)) = Len(s) - 1
      /\ \A i \in 1..Len(s) - 1 : Tail(s)[i] = s[i + 1]
  BY FirstOf
<1>2. ASSUME NEW i \in 1..Len(Tail(s)), NEW j \in 1..Len(Tail(s)), Tail(s)[i] = g, i < j
      PROVE  Tail(s)[j] \in rest
  <2>1. i + 1 \in 1..Len(s) /\ j + 1 \in 1..Len(s) /\ i + 1 < j + 1
        /\ i \in 1..Len(s) - 1 /\ j \in 1..Len(s) - 1
    BY <1>1, <1>2
  <2> QED BY <1>1, <1>2, <2>1 DEF After
<1>3. ASSUME Head(s) = g, NEW j \in 1..Len(Tail(s)) PROVE Tail(s)[j] \in rest
  <2>1. j + 1 \in 1..Len(s) /\ 1 \in 1..Len(s) /\ 1 < j + 1 /\ j \in 1..Len(s) - 1
    BY <1>1, <1>3
  <2> QED BY <1>1, <1>3, <2>1 DEF After
<1>4. ASSUME Head(s) = g PROVE Tail(s) \in Seq(rest)
  <2>1. Tail(s) = [j \in 1..Len(Tail(s)) |-> Tail(s)[j]] /\ Len(Tail(s)) \in Nat
    BY <1>1, LenProperties, SeqDef
  <2>2. [j \in 1..Len(Tail(s)) |-> Tail(s)[j]] \in [1..Len(Tail(s)) -> rest]
    BY <1>3, <1>4
  <2>3. \E n \in Nat : Tail(s) \in [1..n -> rest]
    BY <2>1, <2>2
  <2>4. Tail(s) \in UNION {[1..n -> rest] : n \in Nat}
    BY <2>3
  <2> QED BY <2>4, SeqDef
<1> QED BY <1>2, <1>4 DEF After

----------------------------------------------------------------------------
(* A request that goes on, and one that is answered *)

\* A check behind it, and nothing else but what it has missed or touched.
Forward ==
  /\ request'.left = Tail(request.left) /\ request'.does = request.does /\ request'.declares = request.declares
  /\ request'.again = request.again /\ request'.answer = request.answer /\ request'.had = request.had
  /\ "asked" \in request'.wrote => "asked" \in request.wrote
  /\ request'.missed \cap request.had = {}

LEMMA Forwards ==
  ASSUME AccessInv, AnswerInv, Passes \/ request' = [request EXCEPT !.left = Tail(@), !.terms = market]
  PROVE  Forward
<1>1. /\ request'.left = Tail(request.left) /\ request'.does = request.does /\ request'.declares = request.declares
      /\ request'.again = request.again /\ request'.answer = request.answer /\ request'.had = request.had
      /\ request'.wrote = request.wrote /\ request'.missed = request.missed
  BY DEF Passes, Shaped, AccessInv
<1> QED BY <1>1 DEF Forward, AnswerInv, Remembered

\* What was there stays there.
LEMMA HadLasts ==
  ASSUME AnswerInv, Lasting
  PROVE  request.had \subseteq Touched'
BY DEF AnswerInv, Remembered, Lasting, Touched

LEMMA Onward ==
  ASSUME AccessInv, AnswerInv, UnderWay, Lasting, request.left # <<>>, Forward,
         request.does \in Keyed /\ request.again => Head(request.left) # "replay"
  PROVE  AnswerInv'
<1> DEFINE s == request.left
<1>1. Shaped /\ s \in Seq(Gates) /\ Asked
  BY DEF AccessInv, AnswerInv, Shaped
<1>2. /\ request'.left = Tail(s) /\ request'.does = request.does /\ request'.declares = request.declares
      /\ request'.again = request.again /\ request'.answer = request.answer /\ request'.had = request.had
      /\ "asked" \in request'.wrote => "asked" \in request.wrote
      /\ request'.missed \cap request.had = {}
  BY DEF Forward
<1>3. Tail(s) \in Seq(Steps(request.does, request.declares))
  BY <1>1, HeadTailProperties DEF Asked
<1>4. "asked" \in request.wrote => Tail(s) \in Seq({"tell"})
  BY <1>1, HeadTailProperties DEF Asked
<1>5. request.does \in Keyed /\ request.again => Ahead("replay", BeforeReplay, Tail(s))
  BY <1>1, AheadRest DEF Asked
<1>6. request.does \in Endings => After("pay", {"tell"}, Tail(s))
  BY <1>1, AfterRest DEF Asked
<1>7. Asked'
  BY <1>1, <1>2, <1>3, <1>4, <1>5, <1>6 DEF Asked
<1>8. HasHappened(request.does) => HasHappened(request.does)'
  BY <1>2, HappenedLasts
<1>9. RepeatIsAnswered' /\ AnswersAreDeclared'
  BY <1>2 DEF AnswerInv, PromisesKept, RepeatIsAnswered, AnswersAreDeclared, UnderWay, Done, Keyed
<1>10. Remembered'
  BY <1>2, HadLasts DEF Remembered
<1> QED BY <1>2, <1>7, <1>8, <1>9, <1>10 DEF AnswerInv, PromisesKept, Lasting

\* The answer the request may be given, whatever it has been through.
Declared(codes) == \A code \in codes : StatusOf(code) \in request.declares \cup {200}
Raced(codes) == request.does = "read" /\ codes = IdempotencyKeyReused /\ "grant" \notin request.had

Fair(codes) ==
  /\ Declared(codes) \/ Raced(codes)
  /\ "asked" \in request.wrote => codes \subseteq Done \cup UnconfirmedEnding
  /\ request.again => "asked" \notin request.wrote /\ codes \subseteq MayFollowAWrite(request)
  /\ request.does \in Keyed /\ codes = Done => written'[request.does] = Own

LEMMA Replied ==
  ASSUME AccessInv, AnswerInv, UnderWay, Lasting, NEW codes, Answers(codes), codes # {}, Fair(codes)
  PROVE  AnswerInv'
<1>1. /\ request'.does = request.does /\ request'.declares = request.declares
      /\ request'.again = request.again /\ request'.wrote = request.wrote /\ request'.answer = codes
      /\ request'.had = request.had /\ request'.missed = {}
  BY DEF Answers, Shaped, AccessInv
<1>2. HasHappened(request.does) => HasHappened(request.does)'
  BY <1>1, HappenedLasts
<1>3. MayFollowAWrite(request') = MayFollowAWrite(request)
  BY <1>1 DEF MayFollowAWrite
<1>4. RepeatIsAnswered'
  BY <1>1, <1>3 DEF RepeatIsAnswered, Fair
<1>5. Declared(codes) => AnswersAreDeclared'
  BY <1>1 DEF AnswersAreDeclared, Declared
<1>6. Raced(codes) => RacedGrant'
  BY <1>1 DEF RacedGrant, Raced
<1>7. PromisesKept'
  BY <1>4, <1>5, <1>6 DEF PromisesKept, Fair
<1>8. Remembered'
  BY <1>1, HadLasts DEF Remembered
<1> QED BY <1>1, <1>2, <1>7, <1>8 DEF AnswerInv, Lasting, UnderWay

LEMMA Written ==
  ASSUME AccessInv, AnswerInv, UnderWay, Lasting, Serves, ~request.again,
         request.does \in Keyed => written'[request.does] = Own
  PROVE  AnswerInv'
<1>1. /\ request'.does = request.does /\ request'.again = request.again /\ request'.answer = Done
      /\ request'.had = request.had /\ request'.missed = {}
  BY DEF Serves, Shaped, AccessInv
<1>2. RepeatIsAnswered'
  BY <1>1 DEF RepeatIsAnswered
<1>3. AnswersAreDeclared'
  BY <1>1, StatusOfAnswers DEF AnswersAreDeclared
<1>4. Remembered'
  BY <1>1, HadLasts DEF Remembered
<1> QED BY <1>1, <1>2, <1>3, <1>4 DEF AnswerInv, PromisesKept, Lasting, UnderWay, Done

\* What of a request its answer depends on.
Alike ==
  /\ request'.does = request.does /\ request'.left = request.left /\ request'.declares = request.declares
  /\ request'.again = request.again /\ request'.wrote = request.wrote /\ request'.answer = request.answer
  /\ request'.had = request.had /\ request'.missed = request.missed

\* The world moves, and the request only by what it lacks.
LEMMA Besides ==
  ASSUME AccessInv, UNCHANGED request \/ \E a \in {"role", "standing"} : Regained(a)
  PROVE  Alike
<1>1. ASSUME UNCHANGED request PROVE Alike
  BY <1>1 DEF Alike
<1>2. ASSUME NEW a, Regained(a) PROVE Alike
  BY <1>2 DEF Alike, Regained, Shaped, AccessInv
<1> QED BY <1>1, <1>2

LEMMA Beside ==
  ASSUME AccessInv, AnswerInv, Lasting, UNCHANGED request \/ \E a \in {"role", "standing"} : Regained(a)
  PROVE  AnswerInv'
<1>1. Alike
  BY Besides
<1>2. HasHappened(request.does) => HasHappened(request.does)'
  BY <1>1, HappenedLasts DEF Alike
<1>3. Asked => Asked'
  BY <1>1 DEF Alike, Asked
<1>4. MayFollowAWrite(request') = MayFollowAWrite(request)
  BY <1>1 DEF Alike, MayFollowAWrite
<1>5. RepeatIsAnswered'
  <2>1. RepeatIsAnswered
    BY DEF AnswerInv, PromisesKept
  <2>2. request.does \in Keyed /\ written[request.does] = Own => written'[request.does] = Own
    BY DEF Lasting, Own, Unwritten
  <2> QED BY <1>1, <1>4, <2>1, <2>2 DEF Alike, RepeatIsAnswered
<1>6. /\ AnswersAreDeclared => AnswersAreDeclared'
      /\ RacedGrant => RacedGrant'
  BY <1>1 DEF Alike, AnswersAreDeclared, RacedGrant
<1>7. Remembered'
  BY <1>1, HadLasts DEF Alike, Remembered, AnswerInv
<1>8. PromisesKept'
  BY <1>5, <1>6 DEF AnswerInv, PromisesKept
<1>9. UnderWay' => Asked'
  BY <1>1, <1>3 DEF Alike, AnswerInv, UnderWay
<1> QED BY <1>1, <1>2, <1>7, <1>8, <1>9 DEF Alike, AnswerInv, Lasting

----------------------------------------------------------------------------
(* The requests' steps *)

LEMMA NothingMoves ==
  ASSUME AnswerInv, UNCHANGED <<market, record, resting, written>>
  PROVE  Lasting
BY DEF AnswerInv, Lasting, RecordInv

\* Where a request stands, and where a repeat can.
LEMMA Standing ==
  ASSUME AccessInv, AnswerInv, UnderWay, request.left # <<>>
  PROVE  LET g == Head(request.left)
             does == request.does
         IN  /\ g \in Part(does)
             /\ \A code \in Answerable(g, does) : StatusOf(code) \in request.declares \cup {200}
             /\ "asked" \in request.wrote => g = "tell"
<1>1. Asked /\ request.left \in Seq(Gates)
  BY DEF AccessInv, Shaped, AnswerInv
<1>2. Head(request.left) \in Steps(request.does, request.declares)
  BY <1>1, HeadTailProperties DEF Asked
<1>3. "asked" \in request.wrote => Head(request.left) \in {"tell"}
  BY <1>1, HeadTailProperties DEF Asked
<1> QED BY <1>2, <1>3 DEF Steps

LEMMA Repeating ==
  ASSUME AccessInv, AnswerInv, UnderWay, request.left # <<>>, request.again
  PROVE  \/ request.does \in Keyed /\ Head(request.left) \in {"token", "shape", "replay"}
         \/ /\ request.does \in Endings /\ request.does \notin Keyed /\ record = request.does
            /\ Head(request.left) \in {"token", "role", "shape", "terms", "record", "find_book", "open", "pay", "tell"}
         \/ /\ request.does = "cancel" /\ request.does \notin Endings \cup Keyed /\ resting = "cancelled"
            /\ Head(request.left) \in {"token", "role", "shape", "cancel"}
<1>1. Head(request.left) \in Part(request.does) /\ HasHappened(request.does) /\ request.left \in Seq(Gates) /\ Asked
  BY Standing DEF AccessInv, Shaped, AnswerInv
<1>2. ASSUME request.does \in Keyed PROVE Head(request.left) \in {"token", "shape", "replay"}
  BY <1>1, <1>2, AheadFirst DEF Asked, BeforeReplay
<1>3. ASSUME request.does \in Endings
      PROVE  /\ request.does \notin Keyed /\ record = request.does
             /\ Head(request.left) \in {"token", "role", "shape", "terms", "record", "find_book", "open", "pay", "tell"}
  BY <1>1, <1>3 DEF Part, HasHappened, Endings, Keyed
<1>4. ASSUME request.does \notin Endings, request.does \notin Keyed
      PROVE  /\ request.does = "cancel" /\ resting = "cancelled"
             /\ Head(request.left) \in {"token", "role", "shape", "cancel"}
  BY <1>1, <1>4 DEF Part, HasHappened
<1> QED BY <1>2, <1>3, <1>4

LEMMA Refusing ==
  ASSUME AccessInv, AnswerInv, UnderWay, request.left # <<>>, Lasting, NEW codes, Answers(codes),
         codes \subseteq Answerable(Head(request.left), request.does), codes # {}, codes # Done,
         Head(request.left) # "tell", request.again => codes \subseteq MayFollowAWrite(request)
  PROVE  AnswerInv'
<1>1. Fair(codes)
  BY Standing DEF Fair, Declared
<1> QED BY <1>1, Replied

LEMMA Followed ==
  /\ InvalidToken \subseteq MayFollowAWrite(request) /\ InvalidRequest \subseteq MayFollowAWrite(request)
  /\ request.does \notin Keyed => NotAnAdministrator \subseteq MayFollowAWrite(request)
  /\ request.does \in Endings =>
       MarketTermsUnavailable \cup MarketNotFound \cup Done \cup UnconfirmedEnding \subseteq MayFollowAWrite(request)
  /\ request.does \in Keyed => Done \cup IdempotencyKeyReused \subseteq MayFollowAWrite(request)
  /\ request.does \notin Endings \cup Keyed => {"order_already_cancelled"} \subseteq MayFollowAWrite(request)
BY DEF MayFollowAWrite, Endings, Keyed

LEMMA Distinct ==
  /\ InvalidToken # {} /\ InvalidToken # Done /\ NotAnAdministrator # {} /\ NotAnAdministrator # Done
  /\ AccountSuspended # {} /\ AccountSuspended # Done /\ AuthUnavailable # {} /\ AuthUnavailable # Done
  /\ InvalidRequest # {} /\ InvalidRequest # Done /\ MalformedCursor # {} /\ MalformedCursor # Done
  /\ IdempotencyKeyReused # {} /\ IdempotencyKeyReused # Done
  /\ MarketTermsUnavailable # {} /\ MarketTermsUnavailable # Done /\ MarketNotFound # {} /\ MarketNotFound # Done
  /\ MarketClosed # {} /\ MarketClosed # Done /\ PricingRefusals # {} /\ PricingRefusals # Done
  /\ LeaderboardRefreshed # {} /\ LeaderboardRefreshed # Done
BY DEF InvalidToken, NotAnAdministrator, AccountSuspended, AuthUnavailable, InvalidRequest, MalformedCursor,
       IdempotencyKeyReused, MarketTermsUnavailable, MarketNotFound, MarketClosed, PricingRefusals, LeaderboardRefreshed, Done

\* The one answer of a check a repeat may meet.
Refusal(g) ==
  CASE g = "token" -> InvalidToken [] g = "role" -> NotAnAdministrator [] OTHER -> InvalidRequest

LEMMA CheckAnswers ==
  ASSUME AccessInv, AnswerInv,
         GetClaims \/ RequireAdmin \/ GetCurrentUser \/ RequireLiveAdmin \/ Validate
           \/ RefuseIfSuspended \/ EnsureTrading \/ ReadBook
  PROVE  AnswerInv'
<1> DEFINE g == Head(request.left)
<1>1. UnderWay /\ request.left # <<>> /\ UNCHANGED <<market, record, resting, written>>
  BY DEF GetClaims, RequireAdmin, GetCurrentUser, RequireLiveAdmin, Validate,
         RefuseIfSuspended, EnsureTrading, ReadBook, At, world
<1>2. Lasting
  BY <1>1, NothingMoves
<1>3. /\ g # "tell" /\ g # "terms" /\ g # "replay"
      /\ \/ Passes
         \/ \E codes : /\ Answers(codes) /\ codes \subseteq Answerable(g, request.does) /\ codes # {} /\ codes # Done
                       /\ g \in {"token", "role", "shape"} => codes = Refusal(g)
  <2>1. CASE GetClaims
    <3>1. g = "token" /\ Answerable(g, request.does) = InvalidToken /\ Refusal(g) = InvalidToken
      BY <2>1 DEF GetClaims, At, Answerable, Refusal
    <3>2. Passes \/ Answers(InvalidToken)
      BY <2>1 DEF GetClaims
    <3> QED BY <3>1, <3>2, Distinct
  <2>7. CASE RequireAdmin
    <3>1. g = "role" /\ Answerable(g, request.does) = NotAnAdministrator /\ Refusal(g) = NotAnAdministrator
      BY <2>7 DEF RequireAdmin, At, Answerable, Refusal
    <3>2. Passes \/ Answers(NotAnAdministrator)
      BY <2>7 DEF RequireAdmin
    <3> QED BY <3>1, <3>2, Distinct
  <2>2. CASE GetCurrentUser \/ RequireLiveAdmin
    BY <2>2, Distinct DEF GetCurrentUser, RequireLiveAdmin, At, Answerable
  <2>3. CASE Validate
    BY <2>3, Distinct DEF Validate, At, Answerable, Refusal
  <2>4. CASE RefuseIfSuspended
    BY <2>4, Distinct DEF RefuseIfSuspended, At, Answerable
  <2>5. CASE EnsureTrading
    BY <2>5, Distinct DEF EnsureTrading, TermsRefused, At, Answerable
  <2>6. CASE ReadBook
    <3>1. {"market_book_incomplete"} # {} /\ {"market_book_incomplete"} # Done
          /\ {"price_history_inconsistent"} # {} /\ {"price_history_inconsistent"} # Done
      BY DEF Done
    <3> QED BY <2>6, <3>1, Distinct DEF ReadBook, At, Answerable
  <2> QED BY <2>1, <2>2, <2>3, <2>4, <2>5, <2>6, <2>7
<1> HIDE DEF g
<1>4. CASE Passes
  BY <1>1, <1>2, <1>3, <1>4, Forwards, Onward DEF g
<1>5. CASE ~Passes
  <2>1. PICK codes : /\ Answers(codes) /\ codes \subseteq Answerable(g, request.does) /\ codes # {} /\ codes # Done
                     /\ g \in {"token", "role", "shape"} => codes = Refusal(g)
    BY <1>3, <1>5
  <2>2. ASSUME request.again PROVE codes \subseteq MayFollowAWrite(request)
    <3>1. g \in {"token", "role", "shape"}
      <4>1. g \in {"token", "role", "shape", "record", "find_book", "open", "pay", "cancel"}
        BY <1>1, <1>3, <2>2, Repeating DEF g
      <4>2. g \notin {"record", "find_book", "open", "pay", "cancel"}
        BY DEF g, GetClaims, RequireAdmin, GetCurrentUser, RequireLiveAdmin, Validate,
               RefuseIfSuspended, EnsureTrading, ReadBook, At
      <4> QED BY <4>1, <4>2
    <3>2. g = "role" => request.does \notin Keyed
      BY <1>1, <2>2, Repeating DEF g
    <3> QED BY <2>1, <3>1, <3>2, Followed DEF Refusal
  <2> QED BY <1>1, <1>2, <1>3, <2>1, <2>2, Refusing DEF g
<1> QED BY <1>4, <1>5

LEMMA ReplayAnswers ==
  ASSUME AccessInv, AnswerInv, ReplayIfPresent
  PROVE  AnswerInv'
<1>1. /\ UnderWay /\ request.left # <<>> /\ UNCHANGED <<market, record, resting, written>>
      /\ Head(request.left) = "replay"
  BY DEF ReplayIfPresent, At, world
<1>2. Lasting /\ request.does \in Keyed
  <2>1. "replay" \in Part(request.does)
    BY <1>1, Standing
  <2> QED BY <1>1, <2>1, NothingMoves DEF Part, Endings
<1>3. CASE written[request.does] = Unwritten
  <2>1. Passes /\ ~request.again
    BY <1>1, <1>2, <1>3 DEF ReplayIfPresent, AnswerInv, HasHappened, Endings, Keyed
  <2> QED BY <1>1, <1>2, <2>1, Forwards, Onward
<1>4. CASE written[request.does] # Unwritten
  <2>1. Answers(AnsweredFor) /\ AnsweredFor \subseteq Done \cup IdempotencyKeyReused /\ AnsweredFor # {}
        /\ (AnsweredFor = Done => written[request.does] = Own)
    BY <1>4, Distinct DEF ReplayIfPresent, AnsweredFor, Done
  <2>2. Fair(AnsweredFor)
    <3>1. "asked" \notin request.wrote
      BY <1>1, Standing
    <3>2. Declared(AnsweredFor)
      BY <1>1, <2>1, Standing DEF Answerable, Declared
    <3> QED BY <1>1, <1>2, <2>1, <3>1, <3>2, Followed DEF Fair
  <2> QED BY <1>1, <1>2, <2>1, <2>2, Replied
<1> QED BY <1>3, <1>4

LEMMA TermsAnswers ==
  ASSUME AccessInv, AnswerInv, AskTerms
  PROVE  AnswerInv'
<1>1. /\ UnderWay /\ request.left # <<>> /\ UNCHANGED <<market, record, resting, written>>
      /\ Head(request.left) = "terms"
  BY DEF AskTerms, At, world
<1>2. /\ Lasting /\ request.does \in Endings
      /\ Answerable("terms", request.does) = InvalidToken \cup MarketTermsUnavailable \cup MarketNotFound
  BY <1>1, NothingMoves, Standing DEF Answerable, Part, Keyed, Endings
<1>3. ASSUME NEW codes \in {InvalidToken, MarketTermsUnavailable, MarketNotFound}, Answers(codes) PROVE AnswerInv'
  BY <1>1, <1>2, <1>3, Refusing, Distinct, Followed
<1>4. CASE request' = [request EXCEPT !.left = Tail(@), !.terms = market]
  BY <1>1, <1>2, <1>4, Forwards, Onward DEF Endings, Keyed
<1> QED BY <1>3, <1>4 DEF AskTerms, TermsRefused

\* A first touch on its way: the request goes on, or is refused for good reason.
LEMMA FindSteps ==
  ASSUME AccessInv, AnswerInv, FindBook \/ FindGrant
  PROVE  AnswerInv'
<1>1. /\ UnderWay /\ request.left # <<>> /\ UNCHANGED <<market, record, resting, written>>
      /\ Head(request.left) \in {"find_book", "find_grant"}
  BY DEF FindBook, FindGrant, LooksFor, At, world
<1>2. PICK first \in FirstTouches : LooksFor(first)
  BY DEF FindBook, FindGrant, FirstTouches
<1>3. Forward
  <2>1. /\ request'.left = Tail(request.left) /\ request'.does = request.does /\ request'.declares = request.declares
        /\ request'.again = request.again /\ request'.answer = request.answer /\ request'.had = request.had
        /\ request'.wrote = request.wrote
        /\ request'.missed = IF written[first] = Unwritten THEN request.missed \cup {first} ELSE request.missed
    BY <1>2 DEF LooksFor, Shaped, AccessInv
  <2>2. written[first] = Unwritten => first \notin request.had
    BY DEF AnswerInv, Remembered, Touched
  <2>3. request'.missed \cap request.had = {}
    BY <2>1, <2>2 DEF AnswerInv, Remembered
  <2> QED BY <2>1, <2>3 DEF Forward
<1>4. Lasting
  BY <1>1, NothingMoves
<1> QED BY <1>1, <1>3, <1>4, Onward

LEMMA Touching ==
  ASSUME AccessInv, AnswerInv, UnderWay, request.left # <<>>, NEW first \in FirstTouches, Touches(first),
         UNCHANGED <<market, record, resting>>, first = "book" => market # "draft",
         Head(request.left) # "replay"
  PROVE  AnswerInv'
<1>1. Forward
  BY DEF Forward, Touches, Shaped, AccessInv, AnswerInv, Remembered, FirstTouches
<1>2. Lasting
  <2>1. RecordInv'
    BY DEF AnswerInv, RecordInv, Touches, FirstTouches, Own, Unwritten
  <2>2. \A does \in Keyed : written'[does] = written[does]
    BY DEF AnswerInv, RecordInv, Touches, FirstTouches, Keyed
  <2>3. \A f \in FirstTouches : written[f] # Unwritten => written'[f] # Unwritten
    BY DEF AnswerInv, RecordInv, Touches, FirstTouches, Own, Unwritten
  <2> QED BY <2>1, <2>2, <2>3 DEF Lasting
<1> QED BY <1>1, <1>2, Onward

LEMMA OpenAnswers ==
  ASSUME AccessInv, AnswerInv, OpenBook
  PROVE  AnswerInv'
<1>1. /\ UnderWay /\ request.left # <<>> /\ UNCHANGED <<market, record, resting>>
      /\ Head(request.left) = "open"
  BY DEF OpenBook, At
<1>2. /\ Answerable("open", request.does) = InvalidToken \cup MarketTermsUnavailable \cup MarketNotFound
      /\ request.again => request.does \in Endings
  BY <1>1, Repeating DEF Answerable
<1>3. UNCHANGED written => Lasting
  BY <1>1, NothingMoves
<1>4. CASE Passes /\ UNCHANGED written
  BY <1>1, <1>3, <1>4, Forwards, Onward
<1>5. ASSUME NEW codes \in {InvalidToken, MarketTermsUnavailable, MarketNotFound}, Answers(codes), UNCHANGED written
      PROVE  AnswerInv'
  BY <1>1, <1>2, <1>3, <1>5, Refusing, Distinct, Followed
<1>6. CASE Touches("book") /\ market # "draft"
  BY <1>1, <1>6, Touching DEF FirstTouches
<1> QED BY <1>4, <1>5, <1>6 DEF OpenBook, TermsRefused, TermsRead, IsPublic, IsPublished

LEMMA MintAnswers ==
  ASSUME AccessInv, AnswerInv, MintGrant
  PROVE  AnswerInv'
<1>1. /\ UnderWay /\ request.left # <<>> /\ UNCHANGED <<market, record, resting>>
      /\ Head(request.left) = "mint"
  BY DEF MintGrant, At
<1>2. ~request.again /\ "asked" \notin request.wrote /\ request.does \notin Endings \cup {"cancel"} /\ Asked
  BY <1>1, Standing, Repeating DEF Part, Keyed, Endings, AnswerInv
<1>3. UNCHANGED written => Lasting
  BY <1>1, NothingMoves
<1>4. CASE Passes /\ UNCHANGED written
  BY <1>1, <1>3, <1>4, Forwards, Onward
<1>5. CASE Touches("grant")
  BY <1>1, <1>5, Touching DEF FirstTouches
<1>6. CASE Answers(IdempotencyKeyReused) /\ UNCHANGED written /\ "grant" \in request.missed
  <2>1. Declared(IdempotencyKeyReused) \/ Raced(IdempotencyKeyReused)
    <3>1. CASE request.does \in Keyed
      BY <1>1, <3>1, Standing DEF Answerable, Declared
    <3>2. CASE request.does \in MarketWrites \cup {"account"}
      BY <1>2, <3>2, StatusIsOne DEF Asked, Declared
    <3>3. CASE request.does = "read"
      BY <1>6, <3>3 DEF AnswerInv, Remembered, Raced
    <3> QED BY <1>2, <3>1, <3>2, <3>3 DEF Asked, Deeds
  <2>2. Fair(IdempotencyKeyReused)
    BY <1>2, <2>1, Distinct DEF Fair
  <2> QED BY <1>1, <1>3, <1>6, <2>2, Distinct, Replied
<1> QED BY <1>4, <1>5, <1>6 DEF MintGrant

LEMMA WriteAnswers ==
  ASSUME AccessInv, AnswerInv, AmendMarket \/ AmendAccount \/ AnswerRead
  PROVE  AnswerInv'
<1>1. UnderWay /\ request.left = <<>> /\ UNCHANGED <<record, resting>>
      /\ request.does \in MarketWrites \cup {"account", "read"}
      /\ request.does \notin Keyed \cup Endings \cup {"cancel"}
  BY DEF AmendMarket, AmendAccount, AnswerRead, Finished, world, MarketWrites, Keyed, Endings
<1>2. Lasting
  <2>1. CASE AmendMarket
    <3>1. (market # "draft" => market' # "draft") /\ UNCHANGED written
      BY <2>1 DEF AmendMarket, Moves
    <3> QED BY <2>1, <3>1 DEF AmendMarket, Lasting, AnswerInv, RecordInv
  <2>2. CASE AmendAccount \/ AnswerRead
    BY <2>2, NothingMoves DEF AmendAccount, AnswerRead, world
  <2> QED BY <2>1, <2>2
<1>3. /\ ~request.again /\ "asked" \notin request.wrote
      /\ request.does \in MarketWrites \cup {"account"} => request.declares = Statuses
  BY <1>1 DEF AnswerInv, Asked, HasHappened
<1>4. \/ Serves
      \/ Answers(MarketRefusals) /\ request.does \in MarketWrites
      \/ Answers(AccountRefusals) /\ request.does = "account"
      \/ Answers(Done)
  BY DEF AmendMarket, AmendAccount, AnswerRead
<1>5. CASE Serves
  BY <1>1, <1>2, <1>3, <1>5, Written
<1>6. CASE Answers(MarketRefusals) /\ request.does \in MarketWrites
  <2>1. Fair(MarketRefusals) /\ MarketRefusals # {}
    BY <1>1, <1>3, <1>6, StatusIsOne DEF Fair, Declared, MarketRefusals
  <2> QED BY <1>1, <1>2, <1>6, <2>1, Replied
<1>7. CASE Answers(AccountRefusals) /\ request.does = "account"
  <2>1. Fair(AccountRefusals) /\ AccountRefusals # {}
    BY <1>1, <1>3, <1>7, StatusIsOne DEF Fair, Declared, AccountRefusals
  <2> QED BY <1>1, <1>2, <1>7, <2>1, Replied
<1>8. CASE Answers(Done)
  <2>1. Fair(Done) /\ Done # {}
    BY <1>1, <1>3, StatusOfAnswers DEF Fair, Declared, Done
  <2> QED BY <1>1, <1>2, <1>8, <2>1, Replied
<1> QED BY <1>4, <1>5, <1>6, <1>7, <1>8

LEMMA TradeAnswers ==
  ASSUME AccessInv, AnswerInv, PostTrade
  PROVE  AnswerInv'
<1> DEFINE does == request.does
           refusals == ServerFaults \cup (IF does = "trade" THEN TradeRefusals ELSE OrderRefusals)
<1>1. /\ UnderWay /\ request.left # <<>> /\ UNCHANGED <<market, record, resting>>
      /\ Head(request.left) = "book"
  BY DEF PostTrade, At
<1>2. does \in Keyed /\ "asked" \notin request.wrote /\ ~request.again
      /\ \A code \in Answerable("book", does) : StatusOf(code) \in request.declares \cup {200}
  <2>1. does \in Keyed
    BY <1>1, Standing DEF Part, Endings
  <2> QED BY <1>1, <2>1, Standing, Repeating DEF AnswerInv, Keyed, Endings
<1>3. Lasting
  <2>1. CASE written' = [written EXCEPT ![does] = Own] /\ written[does] = Unwritten
    BY <1>1, <1>2, <2>1 DEF Lasting, AnswerInv, RecordInv, Keyed, FirstTouches
  <2>2. CASE UNCHANGED written
    BY <1>1, <2>2, NothingMoves
  <2> QED BY <2>1, <2>2 DEF PostTrade
<1>4. Answerable("book", does)
        = Done \cup IdempotencyKeyReused \cup MarketClosed \cup ServerFaults \cup TradeRefusals \cup OrderRefusals
  BY DEF Answerable
<1>5. ASSUME NEW codes, Answers(codes), codes \subseteq Answerable("book", does), codes # {},
             codes = Done => written'[does] = Own
      PROVE  AnswerInv'
  <2>1. Fair(codes)
    BY <1>2, <1>5 DEF Fair, Declared
  <2> QED BY <1>1, <1>3, <1>5, <2>1, Replied
<1>6. CASE written[does] # Unwritten /\ Answers(AnsweredFor) /\ UNCHANGED written
  <2>1. AnsweredFor \subseteq Done \cup IdempotencyKeyReused /\ AnsweredFor # {}
        /\ (AnsweredFor = Done => written'[does] = Own)
    BY <1>6, Distinct DEF AnsweredFor, Done
  <2> QED BY <1>4, <1>5, <1>6, <2>1
<1>7. CASE Answers(MarketClosed)
  BY <1>4, <1>5, <1>7, Distinct
<1>8. CASE Answers(refusals)
  <2>1. refusals # {} /\ refusals # Done
    BY DEF ServerFaults, Done
  <2>2. refusals \subseteq Answerable("book", does)
    BY <1>4
  <2> QED BY <1>5, <1>8, <2>1, <2>2
<1>9. CASE Serves /\ written' = [written EXCEPT ![does] = Own]
  <2>1. written'[does] = Own
    BY <1>2, <1>9 DEF AnswerInv, RecordInv, Keyed
  <2> QED BY <1>1, <1>2, <1>3, <1>9, <2>1, Written
<1> QED BY <1>6, <1>7, <1>8, <1>9 DEF PostTrade

LEMMA CancelAnswers ==
  ASSUME AccessInv, AnswerInv, Cancel
  PROVE  AnswerInv'
<1>1. /\ UnderWay /\ request.left # <<>> /\ UNCHANGED <<market, record, written>>
      /\ Head(request.left) = "cancel"
  BY DEF Cancel, At
<1>2. /\ request.does \notin Keyed /\ "asked" \notin request.wrote
      /\ request.again => request.does \notin Endings \cup Keyed /\ resting = "cancelled"
      /\ Answerable("cancel", request.does) = CancelRefusals
  <2>1. request.does \notin Keyed /\ "asked" \notin request.wrote
    BY <1>1, Standing DEF Part, Endings, Keyed
  <2>2. Answerable("cancel", request.does) = CancelRefusals
    BY DEF Answerable
  <2> QED BY <1>1, <2>1, <2>2, Repeating
<1>3. CASE Serves /\ resting = "open" /\ resting' = "cancelled"
  <2>1. Lasting
    BY <1>1, <1>3 DEF Lasting, AnswerInv, RecordInv
  <2> QED BY <1>1, <1>2, <1>3, <2>1, Written
<1>4. ASSUME UNCHANGED resting, NEW code \in CancelRefusals, Answers({code}),
             resting = "cancelled" => code = "order_already_cancelled"
      PROVE  AnswerInv'
  <2>1. Lasting
    BY <1>1, <1>4, NothingMoves
  <2>2. {code} # {} /\ {code} # Done
    BY <1>4 DEF CancelRefusals, Done
  <2>3. request.again => {code} \subseteq MayFollowAWrite(request)
    BY <1>2, <1>4, Followed
  <2> QED BY <1>1, <1>2, <1>4, <2>1, <2>2, <2>3, Refusing
<1>5. {"order_not_found", "order_already_filled", "order_already_cancelled", "order_released"} \subseteq CancelRefusals
  BY DEF CancelRefusals
<1>6. CASE ~(resting = "open" /\ record = "none")
  <2>1. UNCHANGED resting
    BY <1>6 DEF Cancel
  <2>2. CASE resting = "none"
    BY <1>4, <1>5, <1>6, <2>1, <2>2 DEF Cancel
  <2>3. CASE resting = "filled"
    BY <1>4, <1>5, <1>6, <2>1, <2>3 DEF Cancel
  <2>4. CASE resting = "cancelled"
    BY <1>4, <1>5, <1>6, <2>1, <2>4 DEF Cancel
  <2>5. CASE resting \notin {"none", "filled", "cancelled"}
    BY <1>4, <1>5, <1>6, <2>1, <2>5 DEF Cancel
  <2> QED BY <2>2, <2>3, <2>4, <2>5
<1> QED BY <1>3, <1>6 DEF Cancel

\* A request of an ending past the reading of the terms.
LEMMA Ended ==
  ASSUME AccessInv, AnswerInv, UnderWay, request.left # <<>>, Head(request.left) \in {"record", "pay", "tell"}
  PROVE  /\ request.does \in Endings /\ request.does \notin Keyed
         /\ request.again => record = request.does
<1>1. request.does \in Endings /\ request.does \notin Keyed
  BY Standing DEF Part, Keyed, Endings
<1> QED BY <1>1, Repeating

LEMMA OtherEndings ==
  /\ OtherEnding \subseteq {"market_already_voided", "market_already_settled"}
  /\ OtherEnding # {} /\ OtherEnding # Done
BY DEF OtherEnding, Done

LEMMA FindAnswers ==
  ASSUME AccessInv, AnswerInv, FindResult
  PROVE  AnswerInv'
<1>1. /\ UnderWay /\ request.left # <<>> /\ UNCHANGED <<market, record, resting, written>>
      /\ Head(request.left) = "record"
  BY DEF FindResult, At, world
<1>2. Lasting /\ "asked" \notin request.wrote /\ request.does \in Endings /\ request.does \notin Keyed
      /\ (request.again => record = request.does) /\ Asked
  BY <1>1, Standing, Ended, NothingMoves DEF AnswerInv
<1>3. request.does # "none"
  BY <1>2 DEF Endings
<1>4. Answerable("record", request.does) = {"market_already_voided", "market_already_settled"} \cup EndingRefusals
  BY DEF Answerable
<1>5. CASE Answers(OtherEnding) /\ record # request.does
  BY <1>1, <1>2, <1>4, <1>5, OtherEndings, Refusing
<1>6. CASE Answers(EndingRefusals) /\ record = "none"
  <2>1. EndingRefusals # {} /\ EndingRefusals # Done
    BY DEF EndingRefusals, Done
  <2> QED BY <1>1, <1>2, <1>3, <1>4, <1>6, <2>1, Refusing
<1>7. CASE Passes
  BY <1>1, <1>2, <1>7, Forwards, Onward
<1>8. CASE request' = [request EXCEPT !.left = <<"tell">>]
  <2>1. /\ request'.left = <<"tell">> /\ request'.does = request.does /\ request'.declares = request.declares
        /\ request'.again = request.again /\ request'.wrote = request.wrote /\ request'.answer = request.answer
        /\ request'.had = request.had /\ request'.missed = request.missed
    BY <1>8 DEF AccessInv, Shaped
  <2>2. <<"tell">> \in Seq(Steps(request.does, request.declares))
    <3>1. "tell" \in Steps(request.does, request.declares)
      BY <1>2 DEF Asked
    <3> QED BY <3>1
  <2>3. After("pay", {"tell"}, <<"tell">>)
    BY DEF After
  <2>4. Asked'
    BY <1>1, <1>2, <2>1, <2>2, <2>3 DEF Asked, MarketWrites, Endings
  <2>5. HasHappened(request.does) => HasHappened(request.does)'
    BY <1>2, <2>1, HappenedLasts
  <2>6. PromisesKept'
    BY <1>1, <1>2, <2>1 DEF AnswerInv, PromisesKept, RepeatIsAnswered, AnswersAreDeclared, UnderWay, Done, Keyed
  <2>7. Remembered'
    BY <1>2, <2>1, HadLasts DEF AnswerInv, Remembered
  <2> QED BY <2>1, <2>4, <2>5, <2>6, <2>7, <1>2 DEF AnswerInv, Lasting
<1> QED BY <1>3, <1>5, <1>6, <1>7, <1>8 DEF FindResult

LEMMA PayAnswers ==
  ASSUME AccessInv, AnswerInv, PayOut
  PROVE  AnswerInv'
<1> DEFINE refusals == IF request.does = "void" THEN AdminHasAStake \cup {"void_replay_mismatch"} ELSE MarketTermsUnavailable
<1>1. /\ UnderWay /\ request.left # <<>> /\ UNCHANGED <<market, resting, written>>
      /\ Head(request.left) = "pay"
  BY DEF PayOut, At
<1>2. /\ "asked" \notin request.wrote /\ request.does \in Endings /\ request.does \notin Keyed
      /\ request.again => record = request.does
      /\ Asked
  BY <1>1, Standing, Ended DEF AnswerInv
<1>3. request.does # "none" /\ request.left \in Seq(Gates)
  BY <1>2 DEF Endings, AccessInv, Shaped
<1>4. Answerable("pay", request.does) = {"market_already_voided", "market_already_settled"} \cup refusals
  BY DEF Answerable
<1>5. CASE UNCHANGED record
  <2>1. Lasting
    BY <1>1, <1>5, NothingMoves
  <2>2. CASE Passes
    BY <1>1, <1>2, <2>1, <2>2, Forwards, Onward
  <2>3. CASE Answers(OtherEnding) /\ record # request.does
    BY <1>1, <1>2, <1>4, <2>1, <2>3, OtherEndings, Refusing
  <2>4. CASE Answers(refusals) /\ record = "none"
    <3>1. refusals # {} /\ refusals # Done
      BY DEF AdminHasAStake, MarketTermsUnavailable, Done
    <3>2. refusals \subseteq Answerable("pay", request.does) /\ ~request.again
      BY <1>2, <1>3, <1>4, <2>4
    <3> HIDE DEF refusals
    <3> QED BY <1>1, <2>1, <2>4, <3>1, <3>2, Refusing
  <2>5. CASE Commits /\ record = "none" /\ record' = request.does
    BY <1>3, <1>5, <2>5
  <2> QED BY <1>3, <2>2, <2>3, <2>4, <2>5 DEF PayOut
<1>6. CASE Commits /\ record = "none" /\ record' = request.does
  <2>1. Lasting
    BY <1>1, <1>2, <1>6 DEF Lasting, AnswerInv, RecordInv, FirstTouches
  <2>2. ~request.again
    BY <1>2, <1>3, <1>6
  <2>3. /\ request'.left = Tail(request.left) /\ request'.does = request.does /\ request'.declares = request.declares
        /\ request'.again = request.again /\ "asked" \in request'.wrote /\ request'.answer = request.answer
        /\ request'.had = request.had /\ request'.missed = request.missed
    BY <1>6 DEF Commits, AccessInv, Shaped
  <2>4. Tail(request.left) \in Seq({"tell"}) /\ After("pay", {"tell"}, Tail(request.left))
    BY <1>1, <1>2, <1>3, AfterRest DEF Asked
  <2>5. Tail(request.left) \in Seq(Steps(request.does, request.declares))
    BY <1>1, <1>2, HeadTailProperties DEF Asked
  <2>6. Asked'
    BY <1>1, <1>2, <2>2, <2>3, <2>4, <2>5 DEF Asked, MarketWrites, Endings
  <2>7. PromisesKept'
    BY <1>1, <1>2, <2>2, <2>3 DEF AnswerInv, PromisesKept, RepeatIsAnswered, AnswersAreDeclared, UnderWay, Done, Keyed
  <2>8. Remembered'
    BY <2>1, <2>3, HadLasts DEF AnswerInv, Remembered
  <2> QED BY <1>2, <2>1, <2>2, <2>3, <2>6, <2>7, <2>8 DEF AnswerInv, Lasting
<1> QED BY <1>5, <1>6 DEF PayOut

LEMMA TellAnswers ==
  ASSUME AccessInv, AnswerInv, Confirm
  PROVE  AnswerInv'
<1>1. /\ UnderWay /\ request.left # <<>> /\ UNCHANGED <<record, resting, written>>
      /\ Head(request.left) = "tell" /\ (market' = market \/ market' = "ended")
  BY DEF Confirm, At
<1>2. /\ request.does \in Endings /\ request.does \notin Keyed
      /\ \A code \in Answerable("tell", request.does) : StatusOf(code) \in request.declares \cup {200}
      /\ Answerable("tell", request.does) = Done \cup UnconfirmedEnding
  <2>1. Answerable("tell", request.does) = Done \cup UnconfirmedEnding
    BY DEF Answerable
  <2> QED BY <1>1, <2>1, Standing, Ended
<1>3. Lasting
  BY <1>1 DEF Lasting, AnswerInv, RecordInv
<1>4. \E codes : codes # {} /\ Answers(codes) /\ codes \subseteq Done \cup UnconfirmedEnding
  <2>1. CASE Answers(Done)
    BY <2>1 DEF Done
  <2>2. CASE Answers({IF request.does = "settle" THEN "settlement_unconfirmed" ELSE "void_unconfirmed"})
    BY <2>2 DEF UnconfirmedEnding
  <2> QED BY <2>1, <2>2 DEF Confirm
<1>5. PICK codes : codes # {} /\ Answers(codes) /\ codes \subseteq Done \cup UnconfirmedEnding
  BY <1>4
<1>6. Fair(codes)
  <2>1. request.again => "asked" \notin request.wrote
    BY DEF AnswerInv, PromisesKept, RepeatIsAnswered
  <2> QED BY <1>2, <1>5, <2>1, Followed DEF Fair, Declared
<1> QED BY <1>1, <1>3, <1>5, <1>6, Replied

----------------------------------------------------------------------------
(* Where a request begins and ends, and the world around it *)

LEMMA BeginAnswers ==
  ASSUME AccessInv, AnswerInv, NEW route \in uses, Begin(route)
  PROVE  AnswerInv'
<1>1. Fitting(route)
  BY RoutesFitting DEF AccessInv, WorldInv
<1>2. /\ request'.does = route.does /\ request'.left = route.gates /\ request'.declares = route.declares
      /\ request'.again = HasHappened(route.does) /\ request'.wrote = {} /\ request'.answer = {}
      /\ request'.had = Touched /\ request'.missed = {} /\ UNCHANGED <<market, record, resting, written>>
  BY DEF Begin, Idle, world
<1>3. Asked'
  BY <1>1, <1>2 DEF Asked, Fitting
<1>4. HasHappened(route.does) => HasHappened(request.does)'
  BY <1>2 DEF HasHappened
<1>5. PromisesKept'
  BY <1>2 DEF PromisesKept, RepeatIsAnswered, AnswersAreDeclared, Done
<1>6. Remembered' /\ RecordInv'
  BY <1>2 DEF Remembered, Touched, AnswerInv, RecordInv
<1> QED BY <1>2, <1>3, <1>4, <1>5, <1>6 DEF AnswerInv

LEMMA ReceiveAnswers ==
  ASSUME AnswerInv, Receive
  PROVE  AnswerInv'
<1>1. /\ request' = Idle /\ UNCHANGED <<market, record, resting, written>>
  BY DEF Receive, world
<1>2. PromisesKept' /\ Remembered' /\ ~UnderWay' /\ ~request'.again
  BY <1>1 DEF Idle, UnderWay, PromisesKept, RepeatIsAnswered, AnswersAreDeclared, Remembered, Keyed, Done
<1> QED BY <1>1, <1>2 DEF AnswerInv, RecordInv

LEMMA OthersAnswer ==
  ASSUME AccessInv, AnswerInv,
         Refresh \/ SetRole \/ SetStanding \/ MoveMarket \/ RecordEnding \/ TouchElsewhere \/ WriteElsewhere \/ EndOrder
           \/ Tick \/ UNCHANGED accessVars
  PROVE  AnswerInv'
<1>1. CASE Refresh \/ SetRole \/ SetStanding \/ Tick \/ UNCHANGED accessVars
  <2>1. Lasting
    BY <1>1, NothingMoves DEF Refresh, SetRole, SetStanding, Tick, accessVars
  <2>2. UNCHANGED request \/ Regained("role") \/ Regained("standing")
    BY <1>1 DEF Refresh, SetRole, SetStanding, Tick, accessVars
  <2> QED BY <2>1, <2>2, Beside
<1>2. CASE MoveMarket
  <2>1. market' # "draft"
    BY <1>2 DEF MoveMarket, Moves
  <2>2. Lasting /\ UNCHANGED request
    BY <1>2, <2>1 DEF MoveMarket, Lasting, AnswerInv, RecordInv
  <2> QED BY <2>2, Beside
<1>3. CASE RecordEnding
  <2>1. Lasting /\ UNCHANGED request
    BY <1>3 DEF RecordEnding, Lasting, AnswerInv, RecordInv
  <2> QED BY <2>1, Beside
<1>4. CASE WriteElsewhere
  <2>1. PICK route \in uses, body \in {Own, Another} :
          /\ route.does \in Keyed /\ written[route.does] = Unwritten
          /\ written' = [written EXCEPT ![route.does] = body]
    BY <1>4 DEF WriteElsewhere
  <2>2. UNCHANGED <<market, record, resting, request>>
    BY <1>4 DEF WriteElsewhere
  <2>3. Lasting
    BY <2>1, <2>2 DEF Lasting, AnswerInv, RecordInv, Keyed, FirstTouches
  <2> QED BY <2>2, <2>3, Beside
<1>5. CASE EndOrder
  <2>1. Lasting /\ UNCHANGED request
    BY <1>5 DEF EndOrder, Lasting, AnswerInv, RecordInv
  <2> QED BY <2>1, Beside
<1>6. CASE TouchElsewhere
  <2>1. UNCHANGED <<market, record, resting, request>>
    BY <1>6 DEF TouchElsewhere
  <2>2. PICK first \in FirstTouches, amount \in {Own, Another} :
          /\ first = "book" => market # "draft"
          /\ written[first] = Unwritten /\ written' = [written EXCEPT ![first] = amount]
    BY <1>6 DEF TouchElsewhere, FirstTouches, IsPublished
  <2>3. Lasting
    BY <2>1, <2>2 DEF Lasting, AnswerInv, RecordInv, Keyed, FirstTouches
  <2> QED BY <2>1, <2>3, Beside
<1> QED BY <1>1, <1>2, <1>3, <1>4, <1>5, <1>6

LEMMA InitAnswers == InitAccess => AnswerInv
<1>1. SUFFICES ASSUME InitAccess PROVE AnswerInv
  OBVIOUS
<1>2. request = Idle /\ RecordInv
  BY <1>1 DEF InitAccess, RecordInv, Unwritten, Own
<1>3. PromisesKept /\ Remembered /\ ~UnderWay /\ ~request.again
  BY <1>2 DEF Idle, UnderWay, PromisesKept, RepeatIsAnswered, AnswersAreDeclared, Remembered, Keyed, Done
<1> QED BY <1>2, <1>3 DEF AnswerInv

LEMMA NextAnswers == AccessInv /\ AnswerInv /\ [AccessNext]_accessVars => AnswerInv'
  BY CheckAnswers, ReplayAnswers, TermsAnswers, FindSteps, OpenAnswers, MintAnswers, WriteAnswers, TradeAnswers,
     CancelAnswers, FindAnswers, PayAnswers, TellAnswers, BeginAnswers, ReceiveAnswers, OthersAnswer DEF AccessNext

LEMMA InitPromises == InitAccess => AccessInv /\ AnswerInv
  BY InitFresh, InitAnswers

LEMMA NextPromises == AccessInv /\ AnswerInv /\ [AccessNext]_accessVars => AccessInv' /\ AnswerInv'
  BY NextFresh, NextAnswers

----------------------------------------------------------------------------
(* What a first touch is good for *)

\* A read is never refused by a check it does not meet.
LEMMA NoRead ==
  ASSUME AccessInv, AnswerInv,
         ReplayIfPresent \/ RefuseIfSuspended \/ EnsureTrading \/ AskTerms \/ PostTrade \/ Cancel \/ FindResult
           \/ PayOut \/ Confirm
  PROVE  request.does # "read"
<1>1. /\ UnderWay /\ request.left # <<>>
      /\ Head(request.left) \in {"replay", "account", "market", "terms", "book", "cancel", "record", "pay", "tell"}
  BY DEF ReplayIfPresent, RefuseIfSuspended, EnsureTrading, AskTerms, PostTrade, Cancel, FindResult, PayOut, Confirm, At
<1>2. Head(request.left) \in Part(request.does)
  BY <1>1, Standing
<1> QED BY <1>1, <1>2 DEF Part, Keyed, Endings

\* A refusal that has nothing to do with a first touch.
Apart(codes) ==
  /\ codes # IdempotencyKeyReused
  /\ codes \cap (MarketTermsUnavailable \cup MarketNotFound \cup MarketNotPublished) = {}

\* Which answers a step of a read can give.
LEMMA ReadAnswers ==
  ASSUME AccessInv, AnswerInv,
         GetClaims \/ RequireAdmin \/ GetCurrentUser \/ RequireLiveAdmin \/ Validate \/ ReadBook
           \/ FindBook \/ FindGrant \/ OpenBook \/ MintGrant \/ AnswerRead
  PROVE  \/ request'.answer = {}
         \/ request'.had = request.had /\ Apart(request'.answer)
         \/ request'.had = request.had /\ request'.answer = IdempotencyKeyReused /\ "grant" \notin request.had
         \/ /\ request'.had = request.had /\ request'.answer # IdempotencyKeyReused
            /\ "book" \notin request.had
<1> DEFINE Given(codes) == request'.had = request.had /\ request'.answer = codes
<1>1. request.answer = {} /\ (Passes => request'.answer = {})
  BY DEF GetClaims, RequireAdmin, GetCurrentUser, RequireLiveAdmin, Validate, ReadBook, FindBook, FindGrant, OpenBook,
         MintGrant, AnswerRead, At, Finished, UnderWay, Passes, AccessInv, Shaped
<1>2. \A codes : Answers(codes) => Given(codes)
  BY DEF Answers, AccessInv, Shaped
<1>3. CASE FindBook \/ FindGrant
  BY <1>1, <1>3 DEF FindBook, FindGrant, LooksFor, AccessInv, Shaped
<1>4. CASE \E codes : Answers(codes) /\ Apart(codes)
  BY <1>2, <1>4
<1>5. /\ Apart(InvalidToken) /\ Apart(NotAnAdministrator) /\ Apart(AccountSuspended) /\ Apart(InvalidRequest)
      /\ Apart(MalformedCursor) /\ Apart({"market_book_incomplete"}) /\ Apart({"price_history_inconsistent"})
      /\ Apart(PricingRefusals) /\ Apart(LeaderboardRefreshed) /\ Apart(Done)
  BY DEF Apart, InvalidToken, NotAnAdministrator, AccountSuspended, InvalidRequest, MalformedCursor, PricingRefusals,
         LeaderboardRefreshed, Done, IdempotencyKeyReused, MarketTermsUnavailable, MarketNotFound, MarketNotPublished
<1>6. CASE GetClaims \/ RequireAdmin \/ GetCurrentUser \/ RequireLiveAdmin \/ Validate \/ AnswerRead
  BY <1>1, <1>4, <1>5, <1>6 DEF GetClaims, RequireAdmin, GetCurrentUser, RequireLiveAdmin, Validate, AnswerRead
<1>7. /\ MarketNotFound # IdempotencyKeyReused /\ MarketTermsUnavailable # IdempotencyKeyReused
      /\ MarketNotPublished # IdempotencyKeyReused /\ InvalidToken # IdempotencyKeyReused
  BY DEF MarketNotFound, MarketTermsUnavailable, MarketNotPublished, InvalidToken, IdempotencyKeyReused
<1>8. \A first \in FirstTouches : first \in request.missed => first \notin request.had
  BY DEF AnswerInv, Remembered
<1>9. CASE ReadBook
  <2>1. market = "draft" => "book" \notin request.had
    BY DEF AnswerInv, RecordInv, Remembered, Touched
  <2>2. CASE Answers(MarketNotFound) /\ market = "draft"
    BY <1>2, <1>7, <2>1, <2>2
  <2>3. CASE Passes
    BY <1>1, <2>3
  <2> QED BY <1>4, <1>5, <1>9, <2>2, <2>3 DEF ReadBook
<1>10. ASSUME NEW first, Touches(first) PROVE request'.answer = {}
  BY <1>1, <1>10 DEF Touches, AccessInv, Shaped
<1>11. CASE OpenBook
  <2>1. \/ Passes \/ Touches("book")
        \/ /\ "book" \in request.missed
           /\ \E codes \in {InvalidToken, MarketTermsUnavailable, MarketNotFound, MarketNotPublished} : Answers(codes)
    BY <1>11 DEF OpenBook, TermsRefused
  <2> QED BY <1>1, <1>2, <1>7, <1>8, <1>10, <2>1 DEF FirstTouches
<1>12. CASE MintGrant
  <2>1. Passes \/ Touches("grant") \/ ("grant" \in request.missed /\ Answers(IdempotencyKeyReused))
    BY <1>12 DEF MintGrant
  <2> QED BY <1>1, <1>2, <1>8, <1>10, <2>1 DEF FirstTouches
<1> QED BY <1>3, <1>6, <1>9, <1>11, <1>12

LEMMA NextTouches == AccessInv /\ AnswerInv /\ FirstTouchLasts /\ [AccessNext]_accessVars => FirstTouchLasts'
<1>1. SUFFICES ASSUME AccessInv, AnswerInv, FirstTouchLasts, [AccessNext]_accessVars, request'.does = "read"
               PROVE  FirstTouchLasts'
  BY DEF FirstTouchLasts
<1>2. CASE request'.answer = {}
  BY <1>2 DEF FirstTouchLasts, IdempotencyKeyReused
<1>3. CASE Alike
  BY <1>1, <1>3 DEF Alike, FirstTouchLasts
<1>4. CASE \E route \in uses : Begin(route)
  BY <1>2, <1>4 DEF Begin, Idle
<1>5. CASE Receive
  BY <1>2, <1>5 DEF Receive, Idle
<1>6. CASE \/ Refresh \/ SetRole \/ SetStanding \/ MoveMarket \/ RecordEnding \/ TouchElsewhere \/ WriteElsewhere
           \/ EndOrder \/ Tick \/ UNCHANGED accessVars
  <2>1. UNCHANGED request \/ Regained("role") \/ Regained("standing")
    BY <1>6 DEF Refresh, SetRole, SetStanding, MoveMarket, RecordEnding, TouchElsewhere, WriteElsewhere, EndOrder, Tick,
                accessVars
  <2> QED BY <1>1, <1>3, <2>1, Besides
<1>7. CASE \/ ReplayIfPresent \/ RefuseIfSuspended \/ EnsureTrading \/ AskTerms \/ PostTrade \/ Cancel \/ FindResult
           \/ PayOut \/ Confirm \/ AmendMarket \/ AmendAccount
  <2>1. request.does # "read"
    BY <1>1, <1>7, NoRead DEF AmendMarket, AmendAccount, MarketWrites
  <2>2. request'.does = request.does
    <3>1. /\ \A codes : Answers(codes) => request'.does = request.does
          /\ (Passes \/ Commits \/ Serves => request'.does = request.does)
          /\ (request' = [request EXCEPT !.left = <<"tell">>] => request'.does = request.does)
          /\ (request' = [request EXCEPT !.left = Tail(@), !.terms = market] => request'.does = request.does)
      BY <1>1 DEF Answers, Passes, Commits, Serves, AccessInv, Shaped
    <3> QED BY <1>7, <3>1 DEF ReplayIfPresent, RefuseIfSuspended, EnsureTrading, AskTerms, TermsRefused, PostTrade, Cancel,
                              FindResult, PayOut, Confirm, AmendMarket, AmendAccount
  <2> QED BY <1>1, <2>1, <2>2
<1>8. CASE \/ GetClaims \/ RequireAdmin \/ GetCurrentUser \/ RequireLiveAdmin \/ Validate \/ ReadBook
           \/ FindBook \/ FindGrant \/ OpenBook \/ MintGrant \/ AnswerRead
  <2>1. \/ request'.answer = {}
        \/ request'.had = request.had /\ Apart(request'.answer)
        \/ request'.had = request.had /\ request'.answer = IdempotencyKeyReused /\ "grant" \notin request.had
        \/ /\ request'.had = request.had /\ request'.answer # IdempotencyKeyReused
           /\ "book" \notin request.had
    BY <1>1, <1>8, ReadAnswers
  <2>2. IdempotencyKeyReused \cap (MarketTermsUnavailable \cup MarketNotFound \cup MarketNotPublished) = {}
    BY DEF IdempotencyKeyReused, MarketTermsUnavailable, MarketNotFound, MarketNotPublished
  <2> QED BY <1>2, <2>1, <2>2 DEF FirstTouchLasts, Apart
<1> QED BY <1>1, <1>4, <1>5, <1>6, <1>7, <1>8 DEF AccessNext

\* For every lifetime of the access tokens: whoever has the grant is not kept from
\* reading their money by another amount, and a market with a book is priced
\* whatever market_service answers, however first touches race.
THEOREM FirstTouchesStay == AccessSpec => []FirstTouchLasts
<1>1. InitAccess => FirstTouchLasts
  BY DEF InitAccess, FirstTouchLasts, Idle
<1> QED BY <1>1, InitPromises, NextPromises, NextTouches, PTL DEF AccessSpec

\* An answer keeps what its route promises, however the checks, the writes, the
\* first touches, the failures of the services and the repeats of a request
\* fall: a repeat is answered with what was written, no status is undeclared but
\* that of a first read that lost to another process's grant, and no request is
\* refused for want of what was there when it began.
THEOREM AnswersStayKept == AccessSpec => []AnswersKept
<1>1. AccessInv /\ AnswerInv => PromisesKept
  BY DEF AnswerInv
<1>2. PromisesKept /\ FirstTouchLasts => AnswersKept
  BY DEF AnswersKept
<1> QED BY <1>1, <1>2, FirstTouchesStay, InitPromises, NextPromises, PTL DEF AccessSpec

=============================================================================
