---------------------------- MODULE AuthSessions ----------------------------
(***************************************************************************)
(* Accounts and their sessions in auth_service: registration, login, the     *)
(* single-use refresh token, logout, and one administrator changing another  *)
(* account's role or suspending it (service/auth_service.py,                 *)
(* service/user_admin.py).                                                   *)
(*                                                                          *)
(* A request's transaction reads committed rows, locks rows one by one,      *)
(* decides, and commits everything at once; a lock lasts to the end.  One    *)
(* action is one locking statement and what is decided from it.  Passwords,  *)
(* attempt limits and the wording of refusals are left out: a refusal writes *)
(* nothing.                                                                  *)
(***************************************************************************)
EXTENDS Naturals, Sequences, FiniteSets

CONSTANTS
  Sessions,     \* database sessions, one per request in flight
  Users, FirstAdmins,
  Tokens,       \* the refresh tokens ever minted: a bound
  Requests,
  ScanOrders,   \* the orders in which a scan may return the users' rows
  MaxEntries,   \* bound on the audit log
  NoUser, NoToken, NoRequest, Nobody

Roles == {"trader", "admin"}

Kinds == {"register", "login", "refresh", "logout", "role", "suspend", "unsuspend"}

\* user is the account it names, by the administrator, role the role asked for.
Request == [kind: Kinds, by: Users \cup {NoUser}, user: Users \cup {NoUser},
            token: Tokens \cup {NoToken}, role: Roles]

AdminKinds == {"role", "suspend", "unsuspend"}

ASSUME AuthAssumption ==
  /\ Requests \subseteq Request /\ NoRequest \notin Request
  /\ \A r \in Requests :
       /\ r.kind \in {"refresh", "logout"} => r.token \in Tokens
       /\ r.kind \notin {"refresh", "logout"} => r.user \in Users
       /\ r.kind \in AdminKinds => r.by \in Users
  /\ FirstAdmins \subseteq Users /\ FirstAdmins # {}
  /\ NoUser \notin Users /\ NoToken \notin Tokens /\ Nobody \notin Sessions
  /\ ScanOrders # {} /\ ScanOrders \subseteq [Users -> Nat] /\ MaxEntries \in Nat
  /\ \A order \in ScanOrders, u, v \in Users : order[u] = order[v] => u = v

VARIABLES
  role,       \* the committed users rows: "none" before the registration
  suspended,
  owner,      \* refresh token -> whom it was issued to
  badge,      \* the role in the access token issued with it
  revoked,    \* tokens with a revoked_at
  expired,    \* tokens past their expires_at
  log,        \* the audit entries
  userLock, tokenLock,
  pc, req,    \* each session's next statement and request
  todo,       \* administrators' rows its scan has still to lock
  scan,       \* the order of its scan
  got,        \* those it locked and found still able to act
  plan,       \* what it has decided to write
  was,        \* the role it read under the lock
  seen        \* the unrevoked tokens its revoke-all found

rows     == <<role, suspended, owner, badge, revoked, expired, log>>
locks    == <<userLock, tokenLock>>
inflight == <<pc, req, todo, scan, got, plan, was, seen>>
vars     == <<rows, locks, inflight>>

----------------------------------------------------------------------------
(* What the rows say *)

IsIssued(t) == owner[t] # NoUser

TokensOf(u) == {t \in Tokens : owner[t] = u}

\* revoke_all_for_user's SELECT
Unrevoked(u) == TokensOf(u) \ revoked

IsActive(t) == t \notin revoked \cup expired

\* Mutation: a suspended administrator counts as one.
IsAdmin(u) == role[u] = "admin"

\* _lock_administrators' predicate, and what get_current_user and require_admin ask.
CanAct(u) == role[u] = "admin" /\ ~suspended[u]

\* Whose account a request is about.
Subject(r) == IF r.kind = "refresh" THEN owner[r.token] ELSE r.user

\* Mutation: a row is read without its lock.
Unlocked(x, s) == TRUE

UserFree(u, s) == userLock[u] \in {Nobody, s}

TokenFree(t, s) == tokenLock[t] \in {Nobody, s}

Released(lock, s) == [x \in DOMAIN lock |-> IF lock[x] = s THEN Nobody ELSE lock[x]]

\* The row a scan comes to next.
ComesNext(s, u) == u \in todo[s] /\ \A v \in todo[s] : scan[s][u] <= scan[s][v]

----------------------------------------------------------------------------
(* Requests *)

AnyOrder == CHOOSE order \in ScanOrders : TRUE

Init ==
  /\ role = [u \in Users |-> IF u \in FirstAdmins THEN "admin" ELSE "none"]
  /\ suspended = [u \in Users |-> FALSE]
  /\ owner = [t \in Tokens |-> NoUser]
  /\ badge = [t \in Tokens |-> "none"]
  /\ revoked = {} /\ expired = {} /\ log = <<>>
  /\ userLock = [u \in Users |-> Nobody] /\ tokenLock = [t \in Tokens |-> Nobody]
  /\ pc = [s \in Sessions |-> "idle"]
  /\ req = [s \in Sessions |-> NoRequest]
  /\ todo = [s \in Sessions |-> {}] /\ scan = [s \in Sessions |-> AnyOrder]
  /\ got = [s \in Sessions |-> {}]
  /\ plan = [s \in Sessions |-> "none"] /\ was = [s \in Sessions |-> "none"]
  /\ seen = [s \in Sessions |-> {}]

\* The transaction is over and every lock it held is released.
End(s) ==
  /\ pc' = [pc EXCEPT ![s] = "idle"]
  /\ req' = [req EXCEPT ![s] = NoRequest]
  /\ todo' = [todo EXCEPT ![s] = {}] /\ got' = [got EXCEPT ![s] = {}]
  /\ plan' = [plan EXCEPT ![s] = "none"] /\ was' = [was EXCEPT ![s] = "none"]
  /\ seen' = [seen EXCEPT ![s] = {}]
  /\ userLock' = Released(userLock, s) /\ tokenLock' = Released(tokenLock, s)
  /\ scan' = [scan EXCEPT ![s] = AnyOrder]

\* What a request reads before it locks anything, and the statement it comes to.
First(r) ==
  CASE r.kind = "register" -> "insert"
    [] r.kind \in {"login", "refresh"} -> "user"
    [] r.kind = "logout" -> "token"
    [] r.kind \in AdminKinds -> "set"

Admits(r) ==
  \/ r.kind = "register" /\ role[r.user] = "none"
  \/ r.kind = "login" /\ role[r.user] # "none"
  \/ r.kind \in {"refresh", "logout"} /\ IsIssued(r.token)
  \/ r.kind \in AdminKinds /\ CanAct(r.by) /\ r.by # r.user

Ask(s, r) ==
  /\ pc[s] = "idle" /\ Admits(r)
  /\ pc' = [pc EXCEPT ![s] = First(r)]
  /\ req' = [req EXCEPT ![s] = r]
  /\ UNCHANGED <<rows, locks, todo, scan, got, plan, was, seen>>

\* The request has decided: its writes are pending until Commit.
Plans(s, what, read, tokens) ==
  /\ pc' = [pc EXCEPT ![s] = "commit"]
  /\ plan' = [plan EXCEPT ![s] = what]
  /\ was' = [was EXCEPT ![s] = read]
  /\ seen' = [seen EXCEPT ![s] = tokens]
  /\ UNCHANGED <<rows, req, todo, scan, got>>

Refuse(s) == End(s) /\ UNCHANGED rows

LocksUser(s, u) == userLock' = [userLock EXCEPT ![u] = s] /\ UNCHANGED tokenLock

LocksToken(s, t) == tokenLock' = [tokenLock EXCEPT ![t] = s] /\ UNCHANGED userLock

\* register's flush: the unique indexes hold a second insert of the name back
\* until the first commits or dies.
InsertUser(s) ==
  /\ pc[s] = "insert"
  /\ \A o \in Sessions \ {s} : ~(plan[o] = "register" /\ req[o].user = req[s].user)
  /\ IF role[req[s].user] # "none"
     THEN Refuse(s)
     ELSE Plans(s, "register", "trader", {}) /\ UNCHANGED locks

\* lock_user on the token paths, and login's decision from the locked row.
LockUser(s) ==
  LET u == Subject(req[s]) IN
  /\ pc[s] = "user" /\ UserFree(u, s)
  /\ IF req[s].kind = "refresh"
     THEN /\ LocksUser(s, u)
          /\ pc' = [pc EXCEPT ![s] = "token"]
          /\ UNCHANGED <<rows, req, todo, scan, got, plan, was, seen>>
     ELSE IF suspended[u] THEN Refuse(s)
     ELSE LocksUser(s, u) /\ Plans(s, "login", role[u], {})

\* A revoked token presented again.
IsReplay(t) == t \in revoked

\* _lock_refresh_token, and what a logout and a rotation decide from the row.
LockToken(s) ==
  LET t == req[s].token  u == Subject(req[s]) IN
  /\ pc[s] = "token" /\ TokenFree(t, s)
  /\ \/ /\ req[s].kind = "logout"
        /\ LocksToken(s, t) /\ Plans(s, "logout", "none", {})
     \/ /\ req[s].kind = "refresh" /\ IsReplay(t)
        /\ LocksToken(s, t) /\ Plans(s, "replay", "none", Unrevoked(u))
     \/ /\ req[s].kind = "refresh" /\ IsActive(t) /\ ~suspended[u]
        /\ LocksToken(s, t) /\ Plans(s, "rotate", role[u], {})
     \/ /\ req[s].kind = "refresh" /\ ~IsReplay(t) /\ (~IsActive(t) \/ suspended[u])
        /\ Refuse(s)

\* _lock_administrators: the statement finds its rows ...
ScanSet(s, order) ==
  /\ pc[s] = "set"
  /\ pc' = [pc EXCEPT ![s] = "admins"]
  /\ todo' = [todo EXCEPT ![s] = {u \in Users : CanAct(u)}]
  /\ scan' = [scan EXCEPT ![s] = order]
  /\ UNCHANGED <<rows, locks, req, got, plan, was, seen>>

\* ... and locks them one by one, keeping those that still match.
LockAdmin(s, u) ==
  /\ pc[s] = "admins" /\ ComesNext(s, u) /\ UserFree(u, s)
  /\ todo' = [todo EXCEPT ![s] = @ \ {u}]
  /\ got' = [got EXCEPT ![s] = IF CanAct(u) THEN @ \cup {u} ELSE @]
  /\ LocksUser(s, u)
  /\ UNCHANGED <<rows, pc, req, scan, plan, was, seen>>

\* Mutation: the role asked for is written again.
NeverHeld(r) == FALSE

\* The role, or the suspension, asked for is held already.
IsHeld(r) ==
  \/ r.kind = "role" /\ role[r.user] = r.role
  \/ r.kind = "suspend" /\ suspended[r.user]
  \/ r.kind = "unsuspend" /\ ~suspended[r.user]

\* A demotion or a suspension of the last administrator who could act.
LeavesNone(s) ==
  LET r == req[s] IN
  /\ role[r.user] = "admin"
  /\ r.kind = "suspend" \/ (r.kind = "role" /\ r.role # "admin")
  /\ got[s] \ {r.user} = {}

LockTarget(s) ==
  LET r == req[s] IN
  /\ pc[s] = "admins" /\ todo[s] = {} /\ UserFree(r.user, s)
  /\ IF role[r.user] = "none" \/ LeavesNone(s) \/ IsHeld(r)
     THEN Refuse(s)
     ELSE /\ LocksUser(s, r.user)
          /\ Plans(s, r.kind, role[r.user],
               IF r.kind = "suspend" THEN Unrevoked(r.user) ELSE {})

----------------------------------------------------------------------------
(* Commits *)

\* issue_tokens
Issues(t, u, as) ==
  /\ owner' = [owner EXCEPT ![t] = u]
  /\ badge' = [badge EXCEPT ![t] = as]

NoIssue == UNCHANGED <<owner, badge>>

Entry(s) ==
  LET r == req[s] IN
  [target |-> r.user, kind |-> IF r.kind = "role" THEN "role" ELSE "suspension",
   from |-> IF r.kind = "role" THEN was[s] ELSE IF r.kind = "suspend" THEN "active" ELSE "suspended",
   to |-> IF r.kind = "role" THEN r.role ELSE IF r.kind = "suspend" THEN "suspended" ELSE "active"]

\* The revocations it writes to rows that exist.
Revokes(s) ==
  seen[s] \cup (IF plan[s] \in {"rotate", "logout"} THEN {req[s].token} ELSE {})

Commit(s) ==
  LET r == req[s]  u == Subject(r) IN
  /\ pc[s] = "commit"
  /\ \A t \in seen[s] : TokenFree(t, s)
  /\ IF plan[s] \in {"register", "login", "rotate"}
     THEN \E t \in Tokens : ~IsIssued(t) /\ Issues(t, u, was[s])
     ELSE NoIssue
  /\ revoked' = revoked \cup Revokes(s)
  /\ role' = IF plan[s] = "register" THEN [role EXCEPT ![u] = "trader"]
             ELSE IF plan[s] = "role" THEN [role EXCEPT ![u] = r.role] ELSE role
  /\ suspended' = IF plan[s] \in {"suspend", "unsuspend"}
                  THEN [suspended EXCEPT ![u] = (plan[s] = "suspend")] ELSE suspended
  /\ IF plan[s] \in AdminKinds
     THEN Len(log) < MaxEntries /\ log' = Append(log, Entry(s))
     ELSE UNCHANGED log
  /\ End(s)
  /\ UNCHANGED expired

\* The request dies, or Postgres aborts it.
Abort(s) == pc[s] # "idle" /\ Refuse(s)

Expire(t) ==
  /\ IsIssued(t) /\ t \notin expired
  /\ expired' = expired \cup {t}
  /\ UNCHANGED <<role, suspended, owner, badge, revoked, log, locks, inflight>>

Next ==
  \/ \E s \in Sessions :
       \/ \E r \in Requests : Ask(s, r)
       \/ InsertUser(s) \/ LockUser(s) \/ LockToken(s)
       \/ \E order \in ScanOrders : ScanSet(s, order)
       \/ \E u \in Users : LockAdmin(s, u)
       \/ LockTarget(s) \/ Commit(s) \/ Abort(s)
  \/ \E t \in Tokens : Expire(t)

Spec == Init /\ [][Next]_vars

----------------------------------------------------------------------------
(* What accounts and sessions must keep true *)

\* Every variable stays within its type, a lock is held only by a request in
\* flight, and a token is owned by an account that exists.
TypeOK ==
  /\ role \in [Users -> Roles \cup {"none"}] /\ suspended \in [Users -> BOOLEAN]
  /\ owner \in [Tokens -> Users \cup {NoUser}] /\ badge \in [Tokens -> Roles \cup {"none"}]
  /\ revoked \subseteq Tokens /\ expired \subseteq Tokens /\ Len(log) <= MaxEntries
  /\ userLock \in [Users -> {Nobody} \cup {s \in Sessions : pc[s] # "idle"}]
  /\ tokenLock \in [Tokens -> {Nobody} \cup {s \in Sessions : pc[s] # "idle"}]
  /\ pc \in [Sessions -> {"idle", "insert", "user", "token", "set", "admins", "commit"}]
  /\ req \in [Sessions -> Requests \cup {NoRequest}]
  /\ todo \in [Sessions -> SUBSET Users] /\ got \in [Sessions -> SUBSET Users]
  /\ scan \in [Sessions -> ScanOrders]
  /\ plan \in [Sessions -> Kinds \cup {"rotate", "replay", "none"}]
  /\ was \in [Sessions -> Roles \cup {"none"}] /\ seen \in [Sessions -> SUBSET Tokens]
  /\ \A t \in revoked \cup expired : IsIssued(t)
  /\ \A t \in Tokens : IsIssued(t) => role[owner[t]] # "none"

\* Somebody can always administer: no race of demotions and suspensions leaves
\* no administrator who can log in (ADR 0007).
AdministratorRemains == \E u \in Users : role[u] = "admin" /\ ~suspended[u]

\* A suspended account holds no session that an unsuspension would bring back,
\* not one opened by a login or a rotation that had read it unsuspended
\* (DECISIONS.md, "Login decides suspension under the user's row lock").
SuspendedHoldsNothing == \A u \in Users : suspended[u] => Unrevoked(u) = {}

\* A refresh token is exchanged once, and only while no logout, replay or
\* suspension has revoked it: whatever opens a session without proving a
\* password does it from a token that was live until that very commit.
ExchangedWhileLive ==
  [][\A s \in Sessions :
       plan[s] = "rotate" /\ owner' # owner /\ pc'[s] # pc[s] => req[s].token \notin revoked]_vars

\* A replayed token closes every session its owner has, one that a rotation
\* was inserting while it looked included (ADR 0002, ADR 0015).
ReplayClosesAll ==
  [][\A s \in Sessions :
       plan[s] = "replay" /\ rows' # rows /\ pc'[s] # pc[s] =>
         TokensOf(Subject(req[s])) \subseteq revoked']_vars

\* An access token carries the role its account has when the session opens,
\* whatever role change was on its way.
BadgeIsCurrent ==
  [][\A t \in Tokens : owner'[t] # owner[t] => badge'[t] = role'[owner'[t]]]_vars

\* The entries about an account among the first n, and what it was after them:
\* what the last of them says, or what it started as.
About(u, kind, n) == {i \in 1..n : log[i].target = u /\ log[i].kind = kind}

StartedAs(u, kind) ==
  IF kind = "suspension" THEN "active" ELSE IF u \in FirstAdmins THEN "admin" ELSE "trader"

ToldAt(u, kind, n) ==
  LET told == About(u, kind, n) IN
  IF told = {} THEN StartedAs(u, kind) ELSE log[CHOOSE i \in told : \A j \in told : j <= i].to

\* The audit log tells how an account came to be what it is: each entry starts
\* where the one before it ended and changes something, so two administrators
\* who press the same button write one entry (ADR 0015); and what the last one
\* says is what the account is.
AuditTells ==
  TypeOK /\ \A u \in Users :
    /\ \A kind \in {"role", "suspension"} : \A i \in About(u, kind, Len(log)) :
         log[i].from = ToldAt(u, kind, i - 1) /\ log[i].from # log[i].to
    /\ IF role[u] = "none" THEN About(u, "role", Len(log)) = {}
                           ELSE role[u] = ToldAt(u, "role", Len(log))
    /\ ToldAt(u, "suspension", Len(log)) = IF suspended[u] THEN "suspended" ELSE "active"

\* The row a session is waiting for, if it waits.
WaitsFor(s, o) ==
  /\ o # s
  /\ \/ pc[s] = "user" /\ userLock[Subject(req[s])] = o
     \/ pc[s] = "token" /\ tokenLock[req[s].token] = o
     \/ pc[s] = "commit" /\ \E t \in seen[s] : tokenLock[t] = o
     \/ pc[s] = "admins" /\ \E u \in Users : ComesNext(s, u) /\ userLock[u] = o
     \/ pc[s] = "admins" /\ todo[s] = {} /\ userLock[req[s].user] = o

\* "Two requests can then only ever wait on each other in one direction" (ADR
\* 0015).  They do not: one that found the set before its target was promoted
\* waits for the target, and one that finds it there waits for the rest of the
\* set while it holds it.
NeverWaitOnEachOther ==
  \A s, o \in Sessions : ~(WaitsFor(s, o) /\ WaitsFor(o, s))

=============================================================================
