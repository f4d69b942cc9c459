--------------------------- MODULE PostingProofs ---------------------------
(***************************************************************************)
(* Theorems about the write path, for any sessions, accounts, orders,       *)
(* requests and clock readings.                                             *)
(*                                                                          *)
(* FundsCoverReservations is not inductive: what makes a commit safe is     *)
(* what the session read before it, and that no other session can have      *)
(* made it stale.  IInv says so, per session: the locks it holds, that its  *)
(* caller's plan still holds under the book lock, what it has walked so     *)
(* far, which keys it has claimed and how far back its timestamp reaches.   *)
(*                                                                          *)
(* LockInv says the converse of what IInv says of locks: who holds one is   *)
(* past the statement that takes it, and still wants only accounts that     *)
(* come later.  RetryInv says that between the lookup of its keys and the   *)
(* end of the walk, no movement of the batch is in the ledger, because      *)
(* whoever posts it holds the batch's accounts.                             *)
(*                                                                          *)
(* PostInv is what the refinement of AtomicLedger needs: a user's           *)
(* reservation is the sum over their orders, and the walk has summed the    *)
(* movements so far and checked every one of them.                          *)
(***************************************************************************)
EXTENDS Posting, Sums

Asking(s) == req[s] # NoRequest

Locked == {"lookup", "floors", "walk", "stamp", "insert", "commit"}

\* A request that only cancels: no account lock, no floors, no keys.
Cancels(s) == req[s].cancels # NoOrder /\ pc[s] = "commit"

HoldsAccounts(s) ==
  /\ pc[s] = "locks" => \A a \in AccountsOf(req[s]) \ todo[s] : rowLock[a] = s
  /\ pc[s] \in Locked /\ ~Cancels(s) => \A a \in AccountsOf(req[s]) : rowLock[a] = s

HoldsBook(s) ==
  /\ pc[s] = "book" => req[s].market # NoMarket
  /\ Asking(s) /\ pc[s] # "book" /\ req[s].market # NoMarket => bookLock[req[s].market] = s
  /\ pc[s] = "plan" => req[s].market # NoMarket

PlanStands(s) ==
  Asking(s) /\ pc[s] \notin {"book", "plan"} /\ req[s].market # NoMarket => PlanHolds(req[s])

WellFormed(s) ==
  /\ pc[s] \in {"locks"} \cup Locked /\ ~Cancels(s) /\ req[s].moves # <<>> => ~MalformedBatch(req[s])
  /\ pc[s] \in {"walk", "stamp", "insert"} => req[s].moves # <<>>
  /\ pc[s] \in {"walk", "stamp", "insert"} => at[s] \in 1..Len(req[s].moves) + 1
  /\ pc[s] = "walk" => at[s] \in 1..Len(req[s].moves)
  /\ pc[s] \in ({"batch", "locks"} \cup Locked) \ {"commit"} => req[s].cancels = NoOrder

\* What the movements walked so far may have touched.
Within(s) ==
  /\ \A a \in Accounts : delta[s][a] # 0 => pc[s] \in Locked /\ a \in AccountsOf(req[s])
  /\ \A u \in Users : dropped[s][u] # 0 => pc[s] \in Locked /\ u \in AccountsOf(req[s])

\* What the walk has checked: a debited user's balance is what it read, its
\* reservation no more, and the balance so far covers the reservation so far.
Floored(s) ==
  pc[s] \in {"walk", "stamp", "insert", "commit"} /\ ~Cancels(s) =>
    /\ \A u \in GuardedUsers(req[s]) :
         /\ floor[s].balance[u] = balance[u]
         /\ reserved[u] + Opening(req[s], u) <= floor[s].reserved[u]
         /\ floor[s].balance[u] + delta[s][u] >= floor[s].reserved[u] - dropped[s][u]
    /\ \A u \in Users \ GuardedUsers(req[s]) : delta[s][u] >= 0 /\ dropped[s][u] = 0

NotWalked(s) ==
  pc[s] \notin {"walk", "stamp", "insert", "commit"} =>
    /\ at[s] = 1
    /\ \A a \in Accounts : delta[s][a] = 0
    /\ \A u \in Users : dropped[s][u] = 0

Posts(s) == pc[s] = "commit" /\ req[s].cancels = NoOrder

Claimed(s) ==
  Posts(s) =>
    /\ \A t \in ledger : t.key \notin KeysOf(req[s])
    /\ \A other \in Sessions \ {s} : Posts(other) => KeysOf(req[other]) \cap KeysOf(req[s]) = {}

Stamped(s) ==
  (pc[s] = "insert" \/ Posts(s)) /\ req[s].moves # <<>> =>
    \A t \in ledger : (\E a \in AccountsOf(req[s]) : t.legs[a] # 0) => t.stamp < stamp[s]

SessionInv(s) ==
  /\ HoldsAccounts(s) /\ HoldsBook(s) /\ PlanStands(s) /\ WellFormed(s) /\ Within(s)
  /\ Floored(s) /\ NotWalked(s) /\ Claimed(s) /\ Stamped(s)

IInv ==
  /\ TypeOK
  /\ FundsCoverReservations
  /\ OneTransactionPerKey
  /\ \A s \in Sessions : SessionInv(s)

----------------------------------------------------------------------------
(* The requests *)

\* A request's parts have the types the callers give them.
LEMMA RequestTyped ==
  ASSUME NEW r \in Requests
  PROVE  /\ r.market \in Markets \cup {NoMarket}
         /\ r.moves \in Seq(Movement)
         /\ r.opens \in Orders \cup {NoOrder}
         /\ r.cancels \in Orders \cup {NoOrder}
         /\ r.budget \in Nat
         /\ Len(r.moves) \in Nat
         /\ DOMAIN r.moves = 1..Len(r.moves)
         /\ \A i \in DOMAIN r.moves :
              /\ r.moves[i] \in Movement
              /\ r.moves[i].key \in Keys
              /\ r.moves[i].legs \in [Accounts -> Int]
              /\ r.moves[i].order \in Orders \cup {NoOrder}
              /\ r.moves[i].drop \in Int
<1>1. r \in Request
  BY RequestsAssumption
<1>2. /\ r.moves \in Seq(Movement)
      /\ Len(r.moves) \in Nat
      /\ DOMAIN r.moves = 1..Len(r.moves)
      /\ \A i \in DOMAIN r.moves : r.moves[i] \in Movement
  BY <1>1 DEF Request
<1> QED BY <1>1, <1>2 DEF Request, Movement

\* A request locks the row of every user whose floor it reads.
LEMMA GuardedAreLocked ==
  ASSUME NEW r \in Requests
  PROVE  /\ GuardedUsers(r) \subseteq Users
         /\ GuardedUsers(r) \subseteq AccountsOf(r)
         /\ AccountsOf(r) \subseteq Accounts
<1>1. /\ Users \subseteq Accounts
      /\ OwnerOf \in [Orders -> Users]
  BY AccountsAssumption, OrdersAssumption
<1>2. \A i \in DOMAIN r.moves : Touched(r.moves[i]) \subseteq Accounts
  BY DEF Touched
<1>3. DebitedUsers(r) \subseteq UNION {Touched(r.moves[i]) : i \in DOMAIN r.moves}
  <2>1. SUFFICES ASSUME NEW u \in DebitedUsers(r)
                 PROVE  \E i \in DOMAIN r.moves : u \in Touched(r.moves[i])
    OBVIOUS
  <2>2. PICK i \in DOMAIN r.moves : r.moves[i].legs[u] < 0
    BY DEF DebitedUsers
  <2>3. u \in Accounts /\ r.moves[i].legs[u] # 0
    BY <1>1, <2>2, RequestTyped DEF DebitedUsers
  <2> QED BY <2>2, <2>3 DEF Touched
<1> QED BY <1>1, <1>2, <1>3 DEF GuardedUsers, AccountsOf, DebitedUsers

\* A batch that opens an order reserves for it only on an account it locks.
LEMMA OpeningIsGuarded ==
  ASSUME NEW r \in Requests, NEW u \in Users,
         r.market # NoMarket => PlanHolds(r), Opening(r, u) # 0
  PROVE  u \in GuardedUsers(r)
<1>1. /\ r.opens \in Orders
      /\ OwnerOf[r.opens] = u
      /\ r.budget > 0
      /\ PlanHolds(r)
  BY RequestTyped, RequestsAssumption DEF Opening
<1>2. CASE r.moves = <<>>
  BY <1>1, <1>2 DEF GuardedUsers
<1>3. CASE r.moves # <<>>
  BY <1>1, <1>3, OrdersAssumption DEF PlanHolds, GuardedUsers, DebitedUsers
<1> QED BY <1>2, <1>3

----------------------------------------------------------------------------
(* Sessions that do not act *)

Still(x) ==
  /\ pc'[x] = pc[x] /\ req'[x] = req[x] /\ todo'[x] = todo[x] /\ floor'[x] = floor[x]
  /\ at'[x] = at[x] /\ delta'[x] = delta[x] /\ dropped'[x] = dropped[x]
  /\ stamp'[x] = stamp[x]
  /\ \A a \in Accounts : rowLock[a] = x => rowLock'[a] = x
  /\ \A m \in Markets : bookLock[m] = x => bookLock'[m] = x

\* What a session knows by holding its locks and its place in its own code.
LEMMA StillOwn ==
  ASSUME IInv, NEW x \in Sessions, Still(x)
  PROVE  /\ HoldsAccounts(x)' /\ HoldsBook(x)' /\ WellFormed(x)' /\ Within(x)'
         /\ NotWalked(x)'
<1>1. SessionInv(x) /\ TypeOK
  BY DEF IInv
<1>2. Asking(x) => AccountsOf(req[x]) \subseteq Accounts /\ req[x].market \in Markets \cup {NoMarket}
  BY <1>1, GuardedAreLocked, RequestTyped DEF Asking, TypeOK
<1>3. pc[x] # "idle" => Asking(x)
  BY <1>1 DEF TypeOK, Asking
<1>4. HoldsAccounts(x)'
  BY <1>1, <1>2, <1>3 DEF SessionInv, HoldsAccounts, Still, Cancels, Locked, AccountsOf
<1>5. HoldsBook(x)'
  BY <1>1, <1>2, <1>3 DEF SessionInv, HoldsBook, Still, Asking
<1>6. WellFormed(x)'
  BY <1>1 DEF SessionInv, WellFormed, Still, Cancels, Locked
<1>7. Within(x)' /\ NotWalked(x)'
  BY <1>1 DEF SessionInv, Within, NotWalked, Still, Locked, AccountsOf
<1> QED BY <1>4, <1>5, <1>6, <1>7

\* Nothing committed: what a session read before is still so.
LEMMA StillSee ==
  ASSUME IInv, NEW x \in Sessions, Still(x), UNCHANGED tables
  PROVE  PlanStands(x)' /\ Floored(x)' /\ Stamped(x)'
<1>1. SessionInv(x) /\ TypeOK
  BY DEF IInv
<1>2. PlanHolds(req[x])' <=> PlanHolds(req[x])
  <2>1. req'[x] = req[x] /\ hold' = hold /\ opened' = opened
    BY DEF Still, tables
  <2> QED BY <2>1, Zenon DEF PlanHolds
<1>3. PlanStands(x)'
  BY <1>1, <1>2 DEF SessionInv, PlanStands, Still, Asking
<1>4. Floored(x)'
  BY <1>1 DEF SessionInv, Floored, Still, Cancels, tables, GuardedUsers, DebitedUsers, Opening
<1>5. Stamped(x)'
  BY <1>1 DEF SessionInv, Stamped, Still, Posts, tables, AccountsOf
<1> QED BY <1>3, <1>4, <1>5

\* The other sessions' claims on keys outlast a step of s that claims none of
\* theirs and posts none of theirs.
LEMMA StillClaim ==
  ASSUME IInv, NEW s \in Sessions, NEW x \in Sessions \ {s},
         \A y \in Sessions \ {s} : Still(y),
         Posts(s)' /\ Posts(x) => KeysOf(req'[s]) \cap KeysOf(req[x]) = {},
         Posts(x) => \A t \in ledger' : t \in ledger \/ t.key \notin KeysOf(req[x])
  PROVE  Claimed(x)'
<1>1. SUFFICES ASSUME Posts(x)
               PROVE  /\ \A t \in ledger' : t.key \notin KeysOf(req[x])
                      /\ \A y \in Sessions \ {x} :
                           Posts(y)' => KeysOf(req'[y]) \cap KeysOf(req[x]) = {}
  BY DEF Claimed, Posts, Still
<1>2. Claimed(x)
  BY DEF IInv, SessionInv
<1>3. ASSUME NEW y \in Sessions \ {x, s}, Posts(y)'
      PROVE  Posts(y) /\ req'[y] = req[y]
  BY <1>3 DEF Posts, Still
<1> QED BY <1>1, <1>2, <1>3 DEF Claimed

\* A step of s that commits nothing leaves what the other sessions know.
LEMMA OthersStand ==
  ASSUME IInv, NEW s \in Sessions, UNCHANGED tables,
         \A x \in Sessions \ {s} : Still(x),
         \A x \in Sessions \ {s} :
           Posts(s)' /\ Posts(x) => KeysOf(req'[s]) \cap KeysOf(req[x]) = {}
  PROVE  /\ FundsCoverReservations' /\ OneTransactionPerKey'
         /\ \A x \in Sessions \ {s} : SessionInv(x)'
<1>1. FundsCoverReservations' /\ OneTransactionPerKey'
  BY DEF IInv, FundsCoverReservations, OneTransactionPerKey, tables
<1>2. ASSUME NEW x \in Sessions \ {s}
      PROVE  SessionInv(x)'
  <2>1. Claimed(x)'
    BY StillClaim DEF tables
  <2> QED BY <2>1, StillOwn, StillSee DEF SessionInv
<1> QED BY <1>1, <1>2

----------------------------------------------------------------------------
(* Types, split between the tables and the sessions *)

TablesTyped ==
  /\ balance \in [Accounts -> Int]
  /\ reserved \in [Users -> Int]
  /\ hold \in [Orders -> Nat]
  /\ opened \subseteq Orders
  /\ ledger \subseteq [key: Keys, legs: [Accounts -> Int], stamp: Nat]

ControlTyped ==
  /\ rowLock \in [Accounts -> Sessions \cup {Nobody}]
  /\ bookLock \in [Markets -> Sessions \cup {Nobody}]
  /\ pc \in [Sessions -> {"idle", "book", "plan", "batch", "locks", "lookup", "floors",
                          "walk", "stamp", "insert", "commit"}]
  /\ req \in [Sessions -> Requests \cup {NoRequest}]
  /\ \A s \in Sessions : (pc[s] = "idle") <=> (req[s] = NoRequest)
  /\ todo \in [Sessions -> SUBSET Accounts]
  /\ floor \in [Sessions -> [balance: [Users -> Int], reserved: [Users -> Int]]]
  /\ at \in [Sessions -> Nat \ {0}]
  /\ delta \in [Sessions -> [Accounts -> Int]]
  /\ dropped \in [Sessions -> [Users -> Int]]
  /\ stamp \in [Sessions -> Nat]

LEMMA TypesSplit ==
  /\ TypeOK <=> TablesTyped /\ ControlTyped
  /\ TypeOK' <=> TablesTyped' /\ ControlTyped'
  BY DEF TypeOK, TablesTyped, ControlTyped

\* The end of a transaction leaves its session with nothing.
LEMMA Finished ==
  ASSUME IInv, NEW s \in Sessions, NEW result, Finish(s, result)
  PROVE  /\ ControlTyped' /\ SessionInv(s)' /\ ~Posts(s)'
         /\ \A x \in Sessions \ {s} : Still(x)
<1>1. ControlTyped
  BY TypesSplit DEF IInv
<1>2. ControlTyped'
  BY <1>1, AccountsAssumption DEF Finish, ControlTyped, NoFloor
<1>3. /\ pc'[s] = "idle" /\ req'[s] = NoRequest /\ at'[s] = 1
      /\ delta'[s] = [a \in Accounts |-> 0] /\ dropped'[s] = [u \in Users |-> 0]
  BY <1>1 DEF Finish, ControlTyped
<1>4. /\ HoldsAccounts(s)' /\ HoldsBook(s)' /\ PlanStands(s)' /\ WellFormed(s)' /\ Floored(s)'
      /\ Claimed(s)' /\ Stamped(s)' /\ ~Posts(s)'
  BY <1>3 DEF HoldsAccounts, HoldsBook, PlanStands, WellFormed, Floored, Claimed, Stamped, Posts,
              Asking, Locked
<1>5. Within(s)' /\ NotWalked(s)'
  BY <1>3 DEF Within, NotWalked
<1>6. \A x \in Sessions \ {s} : Still(x)
  BY <1>1, NobodyAssumption DEF Finish, Still, ControlTyped
<1> QED BY <1>2, <1>4, <1>5, <1>6 DEF SessionInv

\* A rollback keeps the invariant.
LEMMA RefuseKeeps ==
  ASSUME IInv, NEW s \in Sessions, NEW result, Refuse(s, result)
  PROVE  IInv'
<1>1. UNCHANGED tables /\ Finish(s, result)
  BY DEF Refuse
<1>2. TablesTyped'
  BY <1>1, TypesSplit DEF IInv, TablesTyped, tables
<1> QED BY <1>1, <1>2, Finished, OthersStand, TypesSplit DEF IInv

\* A step of s that commits nothing, frees nothing and claims no key keeps
\* everything but what s itself now knows.
LEMMA StepKeeps ==
  ASSUME IInv, NEW s \in Sessions, UNCHANGED tables, ControlTyped', SessionInv(s)',
         \A x \in Sessions \ {s} : Still(x),
         \A x \in Sessions \ {s} :
           Posts(s)' /\ Posts(x) => KeysOf(req'[s]) \cap KeysOf(req[x]) = {}
  PROVE  IInv'
<1>1. TablesTyped'
  BY TypesSplit DEF IInv, TablesTyped, tables
<1> QED BY <1>1, OthersStand, TypesSplit DEF IInv

LEMMA InitKeeps == Init => IInv
<1>1. SUFFICES ASSUME Init PROVE IInv
  OBVIOUS
<1>2. TypeOK
  BY <1>1, AccountsAssumption DEF Init, TypeOK, NoFloor
<1>3. FundsCoverReservations /\ OneTransactionPerKey
  BY <1>1, AccountsAssumption DEF Init, FundsCoverReservations, OneTransactionPerKey
<1>4. ASSUME NEW s \in Sessions
      PROVE  SessionInv(s)
  BY <1>1 DEF Init, SessionInv, Asking, Locked, Cancels, HoldsAccounts, HoldsBook, PlanStands,
              WellFormed, Within, Floored, NotWalked, Posts, Claimed, Stamped
<1> QED BY <1>2, <1>3, <1>4 DEF IInv

LEMMA BeginKeeps ==
  ASSUME IInv, NEW s \in Sessions, NEW r \in Requests, Begin(s, r)
  PROVE  IInv'
<1>1. /\ ControlTyped /\ SessionInv(s)
      /\ r.market \in Markets \cup {NoMarket} /\ r # NoRequest
      /\ r.market = NoMarket => r.cancels = NoOrder
  BY TypesSplit, RequestTyped, RequestsAssumption DEF IInv
<1>2. UNCHANGED tables /\ ControlTyped' /\ \A x \in Sessions \ {s} : Still(x)
  BY <1>1 DEF Begin, GoTo, ControlTyped, Still, tables, locks, walk
<1>3. /\ pc[s] = "idle" /\ req'[s] = r
      /\ pc'[s] = IF r.market = NoMarket THEN "batch" ELSE "book"
      /\ delta' = delta /\ dropped' = dropped /\ at' = at
  BY <1>1 DEF Begin, GoTo, ControlTyped, walk
<1>4. SessionInv(s)' /\ ~Posts(s)'
  BY <1>1, <1>3 DEF SessionInv, HoldsAccounts, HoldsBook, PlanStands, WellFormed, Within, Floored,
       NotWalked, Claimed, Stamped, Posts, Cancels, Asking, Locked
<1> QED BY <1>2, <1>4, StepKeeps

LEMMA LockBookKeeps ==
  ASSUME IInv, NEW s \in Sessions, LockBook(s)
  PROVE  IInv'
<1>1. ControlTyped /\ SessionInv(s)
  BY TypesSplit DEF IInv
<1>2. req[s] \in Requests /\ req[s].market \in Markets
  BY <1>1, RequestTyped DEF LockBook, ControlTyped, SessionInv, HoldsBook
<1>3. UNCHANGED tables /\ ControlTyped' /\ \A x \in Sessions \ {s} : Still(x)
  BY <1>1, <1>2, NobodyAssumption DEF LockBook, GoTo, ControlTyped, Still, tables, walk
<1>4. /\ pc[s] = "book" /\ req' = req /\ pc'[s] = "plan"
      /\ delta' = delta /\ dropped' = dropped /\ at' = at
      /\ bookLock'[req[s].market] = s
  BY <1>1, <1>2 DEF LockBook, GoTo, ControlTyped, walk
<1>5. SessionInv(s)' /\ ~Posts(s)'
  BY <1>1, <1>4 DEF SessionInv, HoldsAccounts, HoldsBook, PlanStands, WellFormed, Within, Floored,
       NotWalked, Claimed, Stamped, Posts, Cancels, Asking, Locked
<1> QED BY <1>3, <1>5, StepKeeps

LEMMA PlanKeeps ==
  ASSUME IInv, NEW s \in Sessions, Plan(s)
  PROVE  IInv'
<1>1. ControlTyped /\ SessionInv(s) /\ pc[s] = "plan"
  BY TypesSplit DEF IInv, Plan
<1>2. CASE \E result : Refuse(s, result)
  BY <1>2, RefuseKeeps
<1>3. CASE ~ \E result : Refuse(s, result)
  <2>1. /\ PlanHolds(req[s])
        /\ GoTo(s, IF req[s].cancels # NoOrder THEN "commit"
                   ELSE IF req[s].moves = <<>> THEN "locks" ELSE "batch")
        /\ todo' = [todo EXCEPT ![s] = IF req[s].cancels = NoOrder /\ req[s].moves = <<>>
                                       THEN AccountsOf(req[s]) ELSE {}]
        /\ UNCHANGED <<tables, locks, req, walk, outcome>>
    BY <1>3, Zenon DEF Plan
  <2>2. req[s] \in Requests
    BY <1>1 DEF ControlTyped
  <2>3. AccountsOf(req[s]) \subseteq Accounts
    BY <2>2, GuardedAreLocked
  <2>4. UNCHANGED tables /\ ControlTyped' /\ \A x \in Sessions \ {s} : Still(x)
    BY <1>1, <2>1, <2>2, <2>3 DEF GoTo, ControlTyped, Still, tables, locks, walk
  <2>5. PlanHolds(req[s])' <=> PlanHolds(req[s])
    <3>1. req'[s] = req[s] /\ hold' = hold /\ opened' = opened
      BY <2>1 DEF tables
    <3> QED BY <3>1, Zenon DEF PlanHolds
  <2>6. /\ req' = req /\ delta' = delta /\ dropped' = dropped /\ at' = at /\ bookLock' = bookLock
        /\ pc'[s] = IF req[s].cancels # NoOrder THEN "commit"
                   ELSE IF req[s].moves = <<>> THEN "locks" ELSE "batch"
        /\ pc'[s] = "locks" => todo'[s] = AccountsOf(req[s])
    BY <1>1, <2>1 DEF GoTo, ControlTyped, locks, walk
  <2>7. HoldsAccounts(s)' /\ HoldsBook(s)' /\ PlanStands(s)' /\ WellFormed(s)'
    BY <1>1, <2>1, <2>5, <2>6 DEF SessionInv, HoldsAccounts, HoldsBook, PlanStands, WellFormed,
         Cancels, Asking, Locked
  <2>8. Within(s)' /\ Floored(s)' /\ NotWalked(s)' /\ Claimed(s)' /\ Stamped(s)' /\ ~Posts(s)'
    BY <1>1, <2>6 DEF SessionInv, Within, Floored, NotWalked, Claimed, Stamped, Posts, Cancels
  <2> QED BY <2>4, <2>7, <2>8, StepKeeps DEF SessionInv
<1> QED BY <1>2, <1>3

LEMMA CheckBatchKeeps ==
  ASSUME IInv, NEW s \in Sessions, CheckBatch(s)
  PROVE  IInv'
<1>1. ControlTyped /\ SessionInv(s) /\ pc[s] = "batch"
  BY TypesSplit DEF IInv, CheckBatch
<1>2. CASE \E result : Refuse(s, result)
  BY <1>2, RefuseKeeps
<1>3. CASE ~ \E result : Refuse(s, result)
  <2>1. /\ ~MalformedBatch(req[s])
        /\ GoTo(s, "locks")
        /\ todo' = [todo EXCEPT ![s] = AccountsOf(req[s])]
        /\ UNCHANGED <<tables, locks, req, walk, outcome>>
    BY <1>3, Zenon DEF CheckBatch
  <2>2. req[s] \in Requests
    BY <1>1 DEF ControlTyped
  <2>3. AccountsOf(req[s]) \subseteq Accounts
    BY <2>2, GuardedAreLocked
  <2>4. UNCHANGED tables /\ ControlTyped' /\ \A x \in Sessions \ {s} : Still(x)
    BY <1>1, <2>1, <2>2, <2>3 DEF GoTo, ControlTyped, Still, tables, locks, walk
  <2>5. PlanHolds(req[s])' <=> PlanHolds(req[s])
    <3>1. req'[s] = req[s] /\ hold' = hold /\ opened' = opened
      BY <2>1 DEF tables
    <3> QED BY <3>1, Zenon DEF PlanHolds
  <2>6. /\ req' = req /\ delta' = delta /\ dropped' = dropped /\ at' = at /\ bookLock' = bookLock
        /\ pc'[s] = "locks" /\ todo'[s] = AccountsOf(req[s])
    BY <1>1, <2>1 DEF GoTo, ControlTyped, locks, walk
  <2>7. HoldsAccounts(s)' /\ HoldsBook(s)' /\ PlanStands(s)' /\ WellFormed(s)'
    BY <1>1, <2>1, <2>5, <2>6 DEF SessionInv, HoldsAccounts, HoldsBook, PlanStands, WellFormed,
         Cancels, Asking, Locked
  <2>8. Within(s)' /\ Floored(s)' /\ NotWalked(s)' /\ Claimed(s)' /\ Stamped(s)' /\ ~Posts(s)'
    BY <1>1, <2>6 DEF SessionInv, Within, Floored, NotWalked, Claimed, Stamped, Posts, Cancels
  <2> QED BY <2>4, <2>7, <2>8, StepKeeps DEF SessionInv
<1> QED BY <1>2, <1>3

LEMMA LockAccountKeeps ==
  ASSUME IInv, NEW s \in Sessions, LockAccount(s)
  PROVE  IInv'
<1>1. ControlTyped /\ SessionInv(s) /\ pc[s] = "locks"
  BY TypesSplit DEF IInv, LockAccount
<1>2. PICK a \in todo[s] :
        /\ rowLock[a] = Nobody
        /\ rowLock' = [rowLock EXCEPT ![a] = s]
        /\ todo' = [todo EXCEPT ![s] = @ \ {a}]
        /\ GoTo(s, IF todo[s] = {a} THEN "lookup" ELSE "locks")
  BY DEF LockAccount
<1>3. UNCHANGED <<tables, bookLock, req, walk, outcome>>
  BY DEF LockAccount
<1>4. a \in Accounts /\ req[s] \in Requests /\ AccountsOf(req[s]) \subseteq Accounts
  BY <1>1, <1>2, GuardedAreLocked DEF ControlTyped
<1>5. UNCHANGED tables /\ ControlTyped' /\ \A x \in Sessions \ {s} : Still(x)
  BY <1>1, <1>2, <1>3, <1>4, NobodyAssumption DEF GoTo, ControlTyped, Still, tables, walk
<1>6. PlanHolds(req[s])' <=> PlanHolds(req[s])
  <2>1. req'[s] = req[s] /\ hold' = hold /\ opened' = opened
    BY <1>3 DEF tables
  <2> QED BY <2>1, Zenon DEF PlanHolds
<1>7. /\ req' = req /\ delta' = delta /\ dropped' = dropped /\ at' = at /\ bookLock' = bookLock
      /\ pc'[s] = IF todo[s] = {a} THEN "lookup" ELSE "locks"
      /\ todo'[s] = todo[s] \ {a}
      /\ rowLock'[a] = s /\ \A b \in Accounts : rowLock[b] = s => rowLock'[b] = s
  BY <1>1, <1>2, <1>3, <1>4 DEF GoTo, ControlTyped, walk
<1>8. HoldsAccounts(s)'
  BY <1>1, <1>4, <1>7 DEF SessionInv, HoldsAccounts, Cancels, Locked
<1>9. HoldsBook(s)' /\ PlanStands(s)' /\ WellFormed(s)'
  BY <1>1, <1>6, <1>7 DEF SessionInv, HoldsBook, PlanStands, WellFormed, Cancels, Asking, Locked
<1>10. Within(s)' /\ Floored(s)' /\ NotWalked(s)' /\ Claimed(s)' /\ Stamped(s)' /\ ~Posts(s)'
  BY <1>1, <1>7 DEF SessionInv, Within, Floored, NotWalked, Claimed, Stamped, Posts, Cancels
<1> QED BY <1>5, <1>8, <1>9, <1>10, StepKeeps DEF SessionInv

LEMMA LookUpKeeps ==
  ASSUME IInv, NEW s \in Sessions, LookUp(s)
  PROVE  IInv'
<1>1. ControlTyped /\ SessionInv(s) /\ pc[s] = "lookup"
  BY TypesSplit DEF IInv, LookUp
<1>2. CASE \E result : Refuse(s, result)
  BY <1>2, RefuseKeeps
<1>3. CASE ~ \E result : Refuse(s, result)
  <2>1. GoTo(s, "floors") /\ UNCHANGED <<tables, locks, req, todo, walk, outcome>>
    BY <1>3, Zenon DEF LookUp, ReplayBatch
  <2>2. UNCHANGED tables /\ ControlTyped' /\ \A x \in Sessions \ {s} : Still(x)
    BY <1>1, <2>1 DEF GoTo, ControlTyped, Still, tables, locks, walk
  <2>3. PlanHolds(req[s])' <=> PlanHolds(req[s])
    <3>1. req'[s] = req[s] /\ hold' = hold /\ opened' = opened
      BY <2>1 DEF tables
    <3> QED BY <3>1, Zenon DEF PlanHolds
  <2>4. /\ req' = req /\ delta' = delta /\ dropped' = dropped /\ at' = at
        /\ bookLock' = bookLock /\ rowLock' = rowLock
        /\ pc'[s] = "floors"
    BY <1>1, <2>1 DEF GoTo, ControlTyped, locks, walk
  <2>5. HoldsAccounts(s)' /\ HoldsBook(s)' /\ PlanStands(s)' /\ WellFormed(s)'
    BY <1>1, <2>3, <2>4 DEF SessionInv, HoldsAccounts, HoldsBook, PlanStands, WellFormed,
         Cancels, Asking, Locked
  <2>6. Within(s)' /\ Floored(s)' /\ NotWalked(s)' /\ Claimed(s)' /\ Stamped(s)' /\ ~Posts(s)'
    BY <1>1, <2>4 DEF SessionInv, Within, Floored, NotWalked, Claimed, Stamped, Posts, Cancels, Locked
  <2> QED BY <2>2, <2>5, <2>6, StepKeeps DEF SessionInv
<1> QED BY <1>2, <1>3

\* The floors read cover the reservations they are compared with.
LEMMA ReadFloorsKeeps ==
  ASSUME IInv, NEW s \in Sessions, ReadFloors(s)
  PROVE  IInv'
<1>1. ControlTyped /\ TablesTyped /\ SessionInv(s) /\ pc[s] = "floors"
  BY TypesSplit DEF IInv, ReadFloors
<1> DEFINE reservedNow == [u \in Users |-> reserved[u] + Opening(req[s], u)]
<1>2. CASE \E result : Refuse(s, result)
  BY <1>2, RefuseKeeps
<1>3. CASE ~ \E result : Refuse(s, result)
  <2>1. /\ ~ \E u \in GuardedUsers(req[s]) : balance[u] < reservedNow[u]
        /\ floor' = [floor EXCEPT ![s] = [balance |-> [u \in Users |-> balance[u]],
                                         reserved |-> reservedNow]]
        /\ GoTo(s, IF req[s].moves = <<>> THEN "commit" ELSE "walk")
        /\ UNCHANGED <<tables, locks, req, todo, at, delta, dropped, stamp, outcome>>
    BY <1>3, Zenon DEF ReadFloors
  <2>2. /\ req[s] \in Requests /\ Users \subseteq Accounts
        /\ req[s].moves # <<>> => 1 \in 1..Len(req[s].moves) /\ 1 \in 1..Len(req[s].moves) + 1
        /\ req[s].moves = <<>> => KeysOf(req[s]) = {}
    BY <1>1, RequestTyped, AccountsAssumption DEF ControlTyped, KeysOf
  <2>3. \A u \in Users : Opening(req[s], u) \in Nat
    BY <2>2, RequestTyped DEF Opening
  <2>4. /\ UNCHANGED tables /\ ControlTyped' /\ \A x \in Sessions \ {s} : Still(x)
        /\ req' = req /\ delta' = delta /\ dropped' = dropped /\ at' = at
        /\ bookLock' = bookLock /\ rowLock' = rowLock
        /\ pc'[s] = IF req[s].moves = <<>> THEN "commit" ELSE "walk"
        /\ floor'[s].balance = [u \in Users |-> balance[u]]
        /\ floor'[s].reserved = reservedNow
    BY <1>1, <2>1, <2>2, <2>3 DEF GoTo, ControlTyped, TablesTyped, Still, tables, locks
  <2>5. PlanHolds(req[s])' <=> PlanHolds(req[s])
    <3>1. req'[s] = req[s] /\ hold' = hold /\ opened' = opened
      BY <2>4 DEF tables
    <3> QED BY <3>1, Zenon DEF PlanHolds
  <2>6. HoldsAccounts(s)' /\ HoldsBook(s)' /\ PlanStands(s)' /\ WellFormed(s)'
    BY <1>1, <2>2, <2>4, <2>5 DEF SessionInv, HoldsAccounts, HoldsBook, PlanStands, WellFormed,
         NotWalked, Cancels, Asking, Locked
  <2>7. Within(s)' /\ NotWalked(s)'
    BY <1>1, <2>4 DEF SessionInv, Within, NotWalked
  <2>8. Floored(s)'
    <3>1. /\ \A u \in Users : u \in Accounts /\ delta[s][u] = 0 /\ dropped[s][u] = 0
          /\ GuardedUsers(req[s]) \subseteq Users
      BY <1>1, <2>2, GuardedAreLocked DEF SessionInv, NotWalked
    <3>2. \A u \in Users : balance[u] \in Int /\ reserved[u] \in Int
      BY <1>1, <2>2 DEF TablesTyped
    <3> QED BY <2>1, <2>3, <2>4, <3>1, <3>2 DEF Floored, tables
  <2>9. Claimed(s)' /\ Stamped(s)'
    BY <2>2, <2>4 DEF Claimed, Stamped, Posts, KeysOf
  <2>10. Posts(s)' => KeysOf(req'[s]) = {}
    BY <2>2, <2>4 DEF Posts
  <2> QED BY <2>4, <2>6, <2>7, <2>8, <2>9, <2>10, StepKeeps DEF SessionInv
<1> QED BY <1>2, <1>3

\* A movement that lowers a user's reservation debits that user.
LEMMA DropIsDebit ==
  ASSUME NEW m \in Movement, ~HasMalformedDrop(m), NEW u \in Users, m.legs[u] >= 0
  PROVE  DropFrom(m, u) = 0
<1>1. CASE u \in Touched(m)
  BY <1>1 DEF HasMalformedDrop, DropFrom
<1>2. CASE u \notin Touched(m)
  BY <1>2 DEF DropFrom
<1> QED BY <1>1, <1>2

\* Each movement walked leaves its debited users covered, and gives the
\* others no less than they had.
LEMMA WalkKeeps ==
  ASSUME IInv, NEW s \in Sessions, Walk(s)
  PROVE  IInv'
<1>1. ControlTyped /\ TablesTyped /\ SessionInv(s) /\ pc[s] = "walk"
  BY TypesSplit DEF IInv, Walk
<1> DEFINE m == req[s].moves[at[s]]
<1>2. CASE \E result : Refuse(s, result)
  BY <1>2, RefuseKeeps
<1>3. CASE ~ \E result : Refuse(s, result)
  <2>1. /\ ~Overdrawn(s, m)
        /\ delta' = [delta EXCEPT ![s] = [a \in Accounts |-> delta[s][a] + m.legs[a]]]
        /\ dropped' = [dropped EXCEPT ![s] = [u \in Users |-> dropped[s][u] + DropFrom(m, u)]]
        /\ at' = [at EXCEPT ![s] = @ + 1]
        /\ GoTo(s, IF at[s] = Len(req[s].moves) THEN "stamp" ELSE "walk")
        /\ UNCHANGED <<tables, locks, req, todo, floor, stamp, outcome>>
    BY <1>3, Zenon DEF Walk
  <2>2. /\ req[s] \in Requests /\ Users \subseteq Accounts
        /\ at[s] \in 1..Len(req[s].moves) /\ at[s] \in DOMAIN req[s].moves
        /\ Len(req[s].moves) \in Nat
    BY <1>1, RequestTyped, AccountsAssumption DEF ControlTyped, SessionInv, WellFormed
  <2>3. /\ m \in Movement /\ m.legs \in [Accounts -> Int] /\ m.drop \in Int
        /\ \A u \in Users : DropFrom(m, u) \in Int
    BY <2>2, RequestTyped DEF DropFrom
  <2>4. ~HasMalformedDrop(m)
    BY <1>1, <2>2 DEF SessionInv, WellFormed, Cancels, Locked, MalformedBatch
  <2>5. Touched(m) \subseteq AccountsOf(req[s])
    BY <2>2 DEF AccountsOf
  <2>6. /\ UNCHANGED tables /\ ControlTyped' /\ \A x \in Sessions \ {s} : Still(x)
        /\ req' = req /\ floor' = floor /\ bookLock' = bookLock /\ rowLock' = rowLock
        /\ at'[s] = at[s] + 1
        /\ \A a \in Accounts : delta'[s][a] = delta[s][a] + m.legs[a]
        /\ \A u \in Users : dropped'[s][u] = dropped[s][u] + DropFrom(m, u)
        /\ pc'[s] = IF at[s] = Len(req[s].moves) THEN "stamp" ELSE "walk"
    BY <1>1, <2>1, <2>2, <2>3 DEF GoTo, ControlTyped, Still, tables, locks
  <2>7. PlanHolds(req[s])' <=> PlanHolds(req[s])
    <3>1. req'[s] = req[s] /\ hold' = hold /\ opened' = opened
      BY <2>6 DEF tables
    <3> QED BY <3>1, Zenon DEF PlanHolds
  <2>8. /\ req'[s] = req[s] /\ todo'[s] = todo[s] /\ pc[s] = "walk"
        /\ \/ pc'[s] = "walk" /\ at[s] # Len(req[s].moves)
           \/ pc'[s] = "stamp"
        /\ rowLock' = rowLock /\ bookLock' = bookLock
    <3>1. todo' = todo
      BY <2>1
    <3> QED BY <1>1, <2>6, <3>1
  <2>9. HoldsAccounts(s)' /\ HoldsBook(s)' /\ PlanStands(s)' /\ WellFormed(s)'
    <3>1. HoldsAccounts(s) /\ HoldsBook(s) /\ PlanStands(s) /\ WellFormed(s)
      BY <1>1 DEF SessionInv
    <3>2. ~Cancels(s) /\ ~Cancels(s)' /\ pc[s] \in Locked /\ pc'[s] \in Locked
      BY <2>8 DEF Cancels, Locked
    <3>3. HoldsAccounts(s)'
      <4>1. \A a \in AccountsOf(req[s]) : rowLock[a] = s
        BY <3>1, <3>2 DEF HoldsAccounts
      <4>2. AccountsOf(req[s])' = AccountsOf(req[s])
        BY <2>8, Zenon DEF AccountsOf
      <4> QED BY <2>8, <4>1, <4>2, Zenon DEF HoldsAccounts
    <3>4. HoldsBook(s)'
      BY <2>8, <3>1 DEF HoldsBook, Asking
    <3>5. PlanStands(s)'
      BY <2>7, <2>8, <3>1, Zenon DEF PlanStands, Asking
    <3>6. WellFormed(s)'
      <4>1. /\ req[s].moves # <<>> => ~MalformedBatch(req[s])
            /\ req[s].moves # <<>> /\ req[s].cancels = NoOrder
        BY <2>8, <3>1, <3>2 DEF WellFormed, Locked
      <4>2. MalformedBatch(req[s])' <=> MalformedBatch(req[s])
        BY <2>8, Zenon DEF MalformedBatch
      <4>3. at'[s] \in 1..Len(req[s].moves) + 1
        BY <2>2, <2>6
      <4>4. pc'[s] = "walk" => at'[s] \in 1..Len(req[s].moves)
        BY <2>2, <2>6, <2>8
      <4> QED BY <2>8, <4>1, <4>2, <4>3, <4>4 DEF WellFormed, Locked
    <3> QED BY <3>3, <3>4, <3>5, <3>6
  <2>10. Within(s)'
    <3>1. \A a \in Accounts : m.legs[a] # 0 => a \in AccountsOf(req[s])
      BY <2>5 DEF Touched
    <3>2. \A u \in Users : DropFrom(m, u) # 0 => u \in AccountsOf(req[s])
      BY <2>5 DEF DropFrom
    <3>3. /\ \A a \in Accounts : delta[s][a] \in Int
          /\ \A u \in Users : dropped[s][u] \in Int
      BY <1>1 DEF ControlTyped
    <3>4. pc'[s] \in Locked /\ req'[s] = req[s]
      BY <2>6 DEF Locked
    <3>5. AccountsOf(req[s])' = AccountsOf(req[s])
      BY <3>4
    <3>6. /\ \A a \in Accounts : delta[s][a] # 0 => a \in AccountsOf(req[s])
          /\ \A u \in Users : dropped[s][u] # 0 => u \in AccountsOf(req[s])
      BY <1>1 DEF SessionInv, Within
    <3> HIDE DEF m
    <3>7. ASSUME NEW a \in Accounts, a \notin AccountsOf(req[s])
          PROVE  delta'[s][a] = 0
      <4>1. delta[s][a] = 0 /\ m.legs[a] = 0
        BY <3>1, <3>6, <3>7
      <4> QED BY <2>6, <4>1
    <3>8. ASSUME NEW u \in Users, u \notin AccountsOf(req[s])
          PROVE  dropped'[s][u] = 0
      <4>1. dropped[s][u] = 0 /\ DropFrom(m, u) = 0
        BY <3>2, <3>6, <3>8
      <4> QED BY <2>6, <4>1
    <3> QED BY <3>4, <3>5, <3>7, <3>8 DEF Within
  <2>11. Floored(s)'
    <3>1. /\ \A u \in GuardedUsers(req[s]) :
               /\ floor[s].balance[u] = balance[u]
               /\ reserved[u] + Opening(req[s], u) <= floor[s].reserved[u]
               /\ floor[s].balance[u] + delta[s][u] >= floor[s].reserved[u] - dropped[s][u]
          /\ \A u \in Users \ GuardedUsers(req[s]) : delta[s][u] >= 0 /\ dropped[s][u] = 0
      BY <1>1 DEF SessionInv, Floored, Cancels
    <3>2. \A u \in Users : m.legs[u] >= 0 => DropFrom(m, u) = 0
      BY <2>3, <2>4, DropIsDebit
    <3>3. \A u \in Users \ GuardedUsers(req[s]) : m.legs[u] >= 0
      BY <2>2, <2>3 DEF GuardedUsers, DebitedUsers
    <3>4. \A u \in Users : /\ floor[s].balance[u] \in Int /\ floor[s].reserved[u] \in Int
                          /\ delta[s][u] \in Int /\ dropped[s][u] \in Int
                          /\ m.legs[u] \in Int /\ DropFrom(m, u) \in Int /\ u \in Accounts
      BY <1>1, <2>2, <2>3 DEF ControlTyped
    <3>5. \A u \in GuardedUsers(req[s]) :
            floor[s].balance[u] + delta'[s][u] >= floor[s].reserved[u] - dropped'[s][u]
      <4> HIDE DEF m
      <4>1. TAKE u \in GuardedUsers(req[s])
      <4>2. u \in Users
        BY <2>2, GuardedAreLocked
      <4>3. CASE m.legs[u] < 0
        <5>1. floor[s].balance[u] + delta[s][u] + m.legs[u]
                >= floor[s].reserved[u] - dropped[s][u] - DropFrom(m, u)
          BY <2>1, <3>4, <4>2, <4>3 DEF Overdrawn
        <5> QED BY <2>6, <3>4, <4>2, <5>1
      <4>4. CASE m.legs[u] >= 0
        <5>1. /\ floor[s].balance[u] + delta[s][u] >= floor[s].reserved[u] - dropped[s][u]
              /\ DropFrom(m, u) = 0
          BY <3>1, <3>2, <4>1, <4>2, <4>4
        <5> QED BY <2>6, <3>4, <4>2, <4>4, <5>1
      <4> QED BY <3>4, <4>2, <4>3, <4>4
    <3>6. \A u \in Users \ GuardedUsers(req[s]) : delta'[s][u] >= 0 /\ dropped'[s][u] = 0
      BY <2>6, <3>1, <3>2, <3>3, <3>4
    <3>7. /\ GuardedUsers(req[s])' = GuardedUsers(req[s])
          /\ \A u \in Users : Opening(req[s], u)' = Opening(req[s], u)
      BY <2>6
    <3>8. GuardedUsers(req[s]) \subseteq Users
      BY <2>2, GuardedAreLocked
    <3> QED BY <2>6, <3>1, <3>5, <3>6, <3>7, <3>8 DEF Floored, tables
  <2>12. NotWalked(s)' /\ Claimed(s)' /\ Stamped(s)' /\ ~Posts(s)'
    BY <2>6 DEF NotWalked, Claimed, Stamped, Posts
  <2> QED BY <2>6, <2>8, <2>9, <2>10, <2>11, <2>12, StepKeeps DEF SessionInv
<1> QED BY <1>2, <1>3

LEMMA StampKeeps ==
  ASSUME IInv, NEW s \in Sessions, Stamp(s)
  PROVE  IInv'
<1>1. ControlTyped /\ SessionInv(s) /\ pc[s] = "stamp"
  BY TypesSplit DEF IInv, Stamp
<1>2. PICK now \in Clock, st \in Stamps :
        StampAfterNewest(req[s], now, st) /\ stamp' = [stamp EXCEPT ![s] = st]
  BY DEF Stamp
<1>3. /\ GoTo(s, "insert")
      /\ UNCHANGED <<tables, locks, req, todo, floor, at, delta, dropped, outcome>>
  BY DEF Stamp
<1>4. st \in Nat
  BY ClockAssumption
<1>5. /\ UNCHANGED tables /\ ControlTyped' /\ \A x \in Sessions \ {s} : Still(x)
      /\ req' = req /\ floor' = floor /\ bookLock' = bookLock /\ rowLock' = rowLock
      /\ at' = at /\ delta' = delta /\ dropped' = dropped
      /\ pc'[s] = "insert" /\ stamp'[s] = st
  BY <1>1, <1>2, <1>3, <1>4 DEF GoTo, ControlTyped, Still, tables, locks
<1>6. PlanHolds(req[s])' <=> PlanHolds(req[s])
  <2>1. req'[s] = req[s] /\ hold' = hold /\ opened' = opened
    BY <1>5 DEF tables
  <2> QED BY <2>1, Zenon DEF PlanHolds
<1>7. HoldsAccounts(s)' /\ HoldsBook(s)' /\ PlanStands(s)' /\ WellFormed(s)'
  BY <1>1, <1>5, <1>6 DEF SessionInv, HoldsAccounts, HoldsBook, PlanStands, WellFormed,
       Cancels, Asking, Locked
<1>8. Within(s)' /\ NotWalked(s)' /\ Claimed(s)' /\ ~Posts(s)'
  BY <1>1, <1>5 DEF SessionInv, Within, NotWalked, Claimed, Posts, Locked
<1>9. Floored(s)'
  BY <1>1, <1>5 DEF SessionInv, Floored, Cancels, tables
<1>10. Stamped(s)'
  BY <1>2, <1>5 DEF Stamped, StampAfterNewest, tables
<1> QED BY <1>5, <1>7, <1>8, <1>9, <1>10, StepKeeps DEF SessionInv

\* An insert that gets past the unique index has its keys to itself.
LEMMA InsertKeeps ==
  ASSUME IInv, NEW s \in Sessions, Insert(s)
  PROVE  IInv'
<1>1. ControlTyped /\ SessionInv(s) /\ pc[s] = "insert"
  BY TypesSplit DEF IInv, Insert
<1>2. CASE \E result : Refuse(s, result)
  BY <1>2, RefuseKeeps
<1>3. CASE ~ \E result : Refuse(s, result)
  <2>1. /\ GoTo(s, "commit") /\ UNCHANGED <<tables, locks, req, todo, walk, outcome>>
        /\ Found(KeysOf(req[s])) = {}
        /\ ~ClaimedElsewhere(s, KeysOf(req[s]))
    BY <1>3, Zenon DEF Insert, ReplayBatch
  <2>2. /\ UNCHANGED tables /\ ControlTyped' /\ \A x \in Sessions \ {s} : Still(x)
        /\ req' = req /\ floor' = floor /\ bookLock' = bookLock /\ rowLock' = rowLock
        /\ at' = at /\ delta' = delta /\ dropped' = dropped /\ stamp' = stamp
        /\ pc'[s] = "commit"
    BY <1>1, <2>1 DEF GoTo, ControlTyped, Still, tables, locks, walk
  <2>3. PlanHolds(req[s])' <=> PlanHolds(req[s])
    <3>1. req'[s] = req[s] /\ hold' = hold /\ opened' = opened
      BY <2>2 DEF tables
    <3> QED BY <3>1, Zenon DEF PlanHolds
  <2>4. req[s].cancels = NoOrder
    BY <1>1 DEF SessionInv, WellFormed, Locked
  <2>5. HoldsAccounts(s)' /\ HoldsBook(s)' /\ PlanStands(s)' /\ WellFormed(s)'
    BY <1>1, <2>2, <2>3, <2>4 DEF SessionInv, HoldsAccounts, HoldsBook, PlanStands, WellFormed,
         Cancels, Asking, Locked
  <2>6. Within(s)' /\ NotWalked(s)'
    BY <1>1, <2>2 DEF SessionInv, Within, NotWalked, Locked
  <2>7. Floored(s)'
    BY <1>1, <2>2 DEF SessionInv, Floored, Cancels, tables
  <2>8. Stamped(s)'
    BY <1>1, <2>2 DEF SessionInv, Stamped, tables
  <2>9. \A t \in ledger : t.key \notin KeysOf(req[s])
    BY <2>1 DEF Found
  <2>10. \A x \in Sessions \ {s} : Posts(x) => KeysOf(req[x]) \cap KeysOf(req[s]) = {}
    <3>1. TAKE x \in Sessions \ {s}
    <3>2. SUFFICES ASSUME Posts(x), KeysOf(req[x]) \cap KeysOf(req[s]) # {}
                   PROVE  FALSE
      OBVIOUS
    <3>3. req[x] \in Requests /\ pc[x] = "commit"
      BY <1>1, <3>2 DEF ControlTyped, Posts
    <3>4. req[x].moves # <<>>
      BY <3>2, <3>3, RequestTyped DEF KeysOf
    <3> QED BY <2>1, <3>2, <3>3, <3>4 DEF ClaimedElsewhere
  <2>11. \A x \in Sessions \ {s} : Posts(x)' => Posts(x) /\ req'[x] = req[x]
    BY <2>2 DEF Posts, Still
  <2>12. Claimed(s)'
    BY <2>2, <2>9, <2>10, <2>11 DEF Claimed, tables
  <2>13. \A x \in Sessions \ {s} :
           Posts(s)' /\ Posts(x) => KeysOf(req'[s]) \cap KeysOf(req[x]) = {}
    BY <2>2, <2>10
  <2> QED BY <2>2, <2>5, <2>6, <2>7, <2>8, <2>12, <2>13, StepKeeps DEF SessionInv
<1> QED BY <1>2, <1>3

----------------------------------------------------------------------------
(* The two commits *)

\* The plan of a session that has gone past it, whatever its request.
LEMMA PlannedHolds ==
  ASSUME IInv, NEW s \in Sessions, pc[s] = "commit"
  PROVE  /\ req[s] \in Requests
         /\ req[s].market # NoMarket => PlanHolds(req[s]) /\ bookLock[req[s].market] = s
         /\ req[s].market = NoMarket =>
              req[s].opens = NoOrder /\ req[s].cancels = NoOrder /\ FilledOrders(req[s]) = {}
<1>1. ControlTyped /\ SessionInv(s)
  BY TypesSplit DEF IInv
<1>2. req[s] \in Requests /\ Asking(s)
  BY <1>1, RequestsAssumption DEF ControlTyped, Asking
<1>3. req[s].market # NoMarket => PlanHolds(req[s]) /\ bookLock[req[s].market] = s
  BY <1>1, <1>2 DEF SessionInv, PlanStands, HoldsBook
<1>4. req[s].market = NoMarket =>
        req[s].opens = NoOrder /\ req[s].cancels = NoOrder /\ FilledOrders(req[s]) = {}
  BY <1>2, RequestsAssumption, OrdersAssumption DEF FilledOrders
<1> QED BY <1>2, <1>3, <1>4

\* Orders change only under their own book's row, so no other session's plan
\* is disturbed.
LEMMA PlansStand ==
  ASSUME IInv, NEW s \in Sessions, NEW x \in Sessions \ {s}, pc[s] = "commit", Still(x),
         \A o \in Orders : (hold'[o] # hold[o] \/ (o \in opened' /\ o \notin opened)) =>
           /\ req[s].market # NoMarket
           /\ MarketOf[o] = req[s].market
  PROVE  PlanStands(x)'
<1>1. ControlTyped /\ SessionInv(x)
  BY TypesSplit DEF IInv
<1>2. SUFFICES ASSUME Asking(x), pc[x] \notin {"book", "plan"}, req[x].market # NoMarket
               PROVE  PlanHolds(req[x])'
  BY DEF PlanStands, Still, Asking
<1>3. PlanHolds(req[x]) /\ req[x] \in Requests /\ req'[x] = req[x] /\ bookLock[req[x].market] = x
  BY <1>1, <1>2 DEF SessionInv, PlanStands, HoldsBook, ControlTyped, Asking, Still
<1>4. req[x].market # req[s].market
  BY <1>2, <1>3, PlannedHolds
<1>5. \A o \in FilledOrders(req[x]) \cup ({req[x].opens, req[x].cancels} \ {NoOrder}) :
        o \in Orders /\ MarketOf[o] = req[x].market
  BY <1>3, RequestTyped DEF PlanHolds, FilledOrders
<1>6. \A o \in FilledOrders(req[x]) \cup ({req[x].opens, req[x].cancels} \ {NoOrder}) :
        hold'[o] = hold[o] /\ (o \in opened' => o \in opened)
  BY <1>4, <1>5
<1>7. \A i \in DOMAIN req[x].moves :
        req[x].moves[i].order # NoOrder => req[x].moves[i].order \in FilledOrders(req[x])
  BY <1>3, RequestTyped DEF FilledOrders
<1>8. /\ req[x].opens # NoOrder => req[x].opens \notin opened'
      /\ req[x].cancels # NoOrder => hold'[req[x].cancels] > 0
      /\ \A i \in DOMAIN req[x].moves : req[x].moves[i].order # NoOrder =>
           hold'[req[x].moves[i].order] = hold[req[x].moves[i].order]
  BY <1>3, <1>6, <1>7 DEF PlanHolds
<1>9. ASSUME NEW i \in DOMAIN req[x].moves, req[x].moves[i].order # NoOrder
      PROVE  /\ req[x].moves[i].drop
                  <= hold'[req[x].moves[i].order] + OpeningOn(req[x], req[x].moves[i].order)
             /\ req[x].moves[i].legs[OwnerOf[req[x].moves[i].order]] < 0
  BY <1>3, <1>8, <1>9 DEF PlanHolds
<1>10. /\ req[x].opens # NoOrder /\ req[x].moves # <<>> /\ req[x].budget > 0 =>
             \E i \in DOMAIN req[x].moves : req[x].moves[i].legs[OwnerOf[req[x].opens]] < 0
       /\ \A o \in FilledOrders(req[x]) \cup ({req[x].opens, req[x].cancels} \ {NoOrder}) :
            MarketOf[o] = req[x].market
       /\ \A i \in DOMAIN req[x].moves : req[x].moves[i].order = NoOrder => req[x].moves[i].drop = 0
  BY <1>3 DEF PlanHolds
<1>11. /\ FilledOrders(req[x])' = FilledOrders(req[x])
       /\ \A i \in DOMAIN req[x].moves :
            OpeningOn(req[x], req[x].moves[i].order)' = OpeningOn(req[x], req[x].moves[i].order)
  BY <1>3
<1> QED BY <1>3, <1>8, <1>9, <1>10, <1>11 DEF PlanHolds, OpeningOn, FilledOrders

\* The new entries carry their batch's keys, touch only accounts it locked,
\* and are dated from its stamp on.
LEMMA PostedFacts ==
  ASSUME IInv, NEW s \in Sessions, Posts(s), NEW n \in TransactionsOf(s)
  PROVE  /\ n.key \in KeysOf(req[s]) /\ n.stamp >= stamp[s] /\ req[s].moves # <<>>
         /\ n \in [key: Keys, legs: [Accounts -> Int], stamp: Nat]
         /\ \A a \in Accounts : n.legs[a] # 0 => a \in AccountsOf(req[s])
         /\ \A k \in TransactionsOf(s) : k.key = n.key => k = n
<1>1. ControlTyped /\ SessionInv(s) /\ req[s] \in Requests /\ stamp[s] \in Nat
  BY TypesSplit, PlannedHolds DEF IInv, ControlTyped, Posts
<1>2. PICK i \in DOMAIN req[s].moves :
        n = [key |-> req[s].moves[i].key, legs |-> req[s].moves[i].legs, stamp |-> stamp[s] + i - 1]
  BY DEF TransactionsOf
<1>3. i \in Nat /\ i >= 1 /\ req[s].moves # <<>>
  BY <1>1, <1>2, RequestTyped
<1>4. /\ n.key = req[s].moves[i].key /\ n.legs = req[s].moves[i].legs
      /\ n.stamp = stamp[s] + i - 1
  BY <1>2
<1>5. /\ n.key \in KeysOf(req[s]) /\ n.stamp >= stamp[s]
      /\ n \in [key: Keys, legs: [Accounts -> Int], stamp: Nat]
  BY <1>1, <1>2, <1>3, <1>4, RequestTyped DEF KeysOf
<1>6. \A a \in Accounts : n.legs[a] # 0 => a \in AccountsOf(req[s])
  BY <1>4 DEF AccountsOf, Touched
<1>7. \A j \in DOMAIN req[s].moves : req[s].moves[j].key = n.key => j = i
  BY <1>1, <1>3, <1>4 DEF SessionInv, WellFormed, MalformedBatch, Posts, Cancels, Locked
<1>8. \A k \in TransactionsOf(s) : k.key = n.key => k = n
  BY <1>2, <1>4, <1>7 DEF TransactionsOf
<1> QED BY <1>3, <1>5, <1>6, <1>8

\* Nothing a session has locked is in a batch another session commits.
LEMMA LocksAreApart ==
  ASSUME IInv, NEW s \in Sessions, NEW x \in Sessions \ {s}, Posts(s),
         pc[x] \in Locked, ~Cancels(x), NEW a \in Accounts, a \in AccountsOf(req[x])
  PROVE  a \notin AccountsOf(req[s])
  BY DEF IInv, SessionInv, HoldsAccounts, Posts, Cancels, Locked

\* A batch commits: what its session read is still so, because it holds the
\* rows it read.
LEMMA CommitKeeps ==
  ASSUME IInv, NEW s \in Sessions, Commit(s)
  PROVE  IInv'
<1>1. /\ ControlTyped /\ TablesTyped /\ SessionInv(s) /\ Posts(s) /\ Finish(s, "posted")
      /\ pc[s] = "commit" /\ req[s] \in Requests /\ ~Cancels(s) /\ Users \subseteq Accounts
  BY TypesSplit, PlannedHolds, AccountsAssumption DEF IInv, Commit, Posts, Cancels
<1>2. /\ ControlTyped' /\ SessionInv(s)' /\ ~Posts(s)' /\ \A x \in Sessions \ {s} : Still(x)
  BY <1>1, Finished
<1>3. ASSUME NEW u \in Users
      PROVE  /\ Opening(req[s], u) \in Nat
             /\ u \notin GuardedUsers(req[s]) => Opening(req[s], u) = 0
  BY <1>1, RequestTyped, OpeningIsGuarded, PlannedHolds DEF Opening
<1>4. ASSUME NEW u \in Users, u \notin AccountsOf(req[s])
      PROVE  delta[s][u] = 0 /\ dropped[s][u] = 0 /\ Opening(req[s], u) = 0
  BY <1>1, <1>3, <1>4, GuardedAreLocked DEF SessionInv, Within
<1>5. /\ balance' = [a \in Accounts |-> balance[a] + delta[s][a]]
      /\ ledger' = ledger \cup TransactionsOf(s)
      /\ reserved' = [u \in Users |-> reserved[u] + Opening(req[s], u) - dropped[s][u]]
      /\ hold' = [o \in Orders |-> hold[o] + OpeningOn(req[s], o)
                     - (IF o \in FilledOrders(req[s]) THEN DropOn(req[s], o) ELSE 0)]
      /\ opened' = opened \cup ({req[s].opens} \ {NoOrder})
  BY DEF Commit
<1>6. TablesTyped'
  <2>1. balance' \in [Accounts -> Int] /\ reserved' \in [Users -> Int]
    BY <1>1, <1>3, <1>5 DEF TablesTyped, ControlTyped
  <2>2. opened' \subseteq Orders
    BY <1>1, <1>5, RequestTyped DEF TablesTyped
  <2>3. ledger' \subseteq [key: Keys, legs: [Accounts -> Int], stamp: Nat]
    BY <1>1, <1>5, PostedFacts DEF TablesTyped
  <2>4. ASSUME NEW o \in Orders
        PROVE  hold[o] + OpeningOn(req[s], o)
                 - (IF o \in FilledOrders(req[s]) THEN DropOn(req[s], o) ELSE 0) \in Nat
    <3>1. hold[o] \in Nat /\ OpeningOn(req[s], o) \in Nat
      BY <1>1, RequestTyped DEF TablesTyped, OpeningOn
    <3>2. CASE o \notin FilledOrders(req[s])
      BY <3>1, <3>2
    <3>3. CASE o \in FilledOrders(req[s])
      <4>1. PICK i \in DOMAIN req[s].moves :
              req[s].moves[i].order = o /\ DropOn(req[s], o) = req[s].moves[i].drop
        BY <3>3 DEF FilledOrders, DropOn
      <4>2. PlanHolds(req[s]) /\ o # NoOrder
        BY <1>1, <3>3, PlannedHolds, OrdersAssumption
      <4>3. DropOn(req[s], o) <= hold[o] + OpeningOn(req[s], o) /\ DropOn(req[s], o) \in Int
        BY <1>1, <4>1, <4>2, RequestTyped DEF PlanHolds
      <4> QED BY <3>1, <3>3, <4>3
    <3> QED BY <3>2, <3>3
  <2>5. hold' \in [Orders -> Nat]
    BY <1>5, <2>4
  <2> QED BY <2>1, <2>2, <2>3, <2>5 DEF TablesTyped
<1>7. FundsCoverReservations'
  <2>1. SUFFICES ASSUME NEW u \in Users
                 PROVE  balance[u] + delta[s][u] >= reserved[u] + Opening(req[s], u) - dropped[s][u]
    BY <1>1, <1>5 DEF FundsCoverReservations
  <2>2. /\ balance[u] \in Int /\ reserved[u] \in Int /\ delta[s][u] \in Int
        /\ dropped[s][u] \in Int /\ floor[s].balance[u] \in Int /\ floor[s].reserved[u] \in Int
        /\ balance[u] >= reserved[u]
    BY <1>1 DEF TablesTyped, ControlTyped, IInv, FundsCoverReservations
  <2>3. CASE u \in GuardedUsers(req[s])
    <3>1. /\ floor[s].balance[u] = balance[u]
          /\ reserved[u] + Opening(req[s], u) <= floor[s].reserved[u]
          /\ floor[s].balance[u] + delta[s][u] >= floor[s].reserved[u] - dropped[s][u]
      BY <1>1, <2>3 DEF SessionInv, Floored
    <3> QED BY <1>3, <2>2, <3>1
  <2>4. CASE u \notin GuardedUsers(req[s])
    <3>1. delta[s][u] >= 0 /\ dropped[s][u] = 0
      BY <1>1, <2>4 DEF SessionInv, Floored
    <3> QED BY <1>3, <2>2, <2>4, <3>1
  <2> QED BY <2>3, <2>4
<1>8. OneTransactionPerKey'
  <2>1. \A t \in ledger : t.key \notin KeysOf(req[s])
    BY <1>1 DEF SessionInv, Claimed
  <2>2. \A n \in TransactionsOf(s) : /\ n.key \in KeysOf(req[s])
                                    /\ \A k \in TransactionsOf(s) : k.key = n.key => k = n
    BY <1>1, PostedFacts
  <2> QED BY <1>5, <2>1, <2>2 DEF IInv, OneTransactionPerKey
<1>9. ASSUME NEW x \in Sessions \ {s}
      PROVE  SessionInv(x)'
  <2>1. SessionInv(x) /\ Still(x)
    BY <1>2 DEF IInv
  <2>2. PlanStands(x)'
    <3>1. ASSUME NEW o \in Orders, hold'[o] # hold[o] \/ (o \in opened' /\ o \notin opened)
          PROVE  req[s].market # NoMarket /\ MarketOf[o] = req[s].market
      <4>1. o = req[s].opens \/ o \in FilledOrders(req[s])
        BY <1>1, <1>5, <3>1 DEF OpeningOn, TablesTyped
      <4> QED BY <1>1, <4>1, PlannedHolds, OrdersAssumption DEF PlanHolds
    <3> QED BY <1>1, <2>1, <3>1, PlansStand
  <2>3. Floored(x)'
    <3>1. SUFFICES ASSUME pc[x] \in {"walk", "stamp", "insert", "commit"}, ~Cancels(x)
                   PROVE  Floored(x)'
      BY <2>1 DEF Floored, Still, Cancels
    <3>2. /\ req[x] \in Requests /\ GuardedUsers(req[x]) \subseteq Users
          /\ GuardedUsers(req[x]) \subseteq AccountsOf(req[x])
      BY <1>1, <3>1, GuardedAreLocked DEF ControlTyped
    <3>3. ASSUME NEW u \in GuardedUsers(req[x])
          PROVE  balance'[u] = balance[u] /\ reserved'[u] = reserved[u]
      <4>1. u \in Users /\ u \in Accounts /\ u \notin AccountsOf(req[s])
        BY <1>1, <3>1, <3>2, LocksAreApart DEF Locked
      <4>2. delta[s][u] = 0 /\ dropped[s][u] = 0 /\ Opening(req[s], u) = 0
        BY <1>4, <4>1
      <4> QED BY <1>1, <1>5, <4>1, <4>2 DEF TablesTyped
    <3>4. /\ req'[x] = req[x] /\ floor'[x] = floor[x] /\ delta'[x] = delta[x]
          /\ dropped'[x] = dropped[x]
      BY <2>1 DEF Still
    <3>5. /\ \A u \in GuardedUsers(req[x]) :
               /\ floor[x].balance[u] = balance[u]
               /\ reserved[u] + Opening(req[x], u) <= floor[x].reserved[u]
               /\ floor[x].balance[u] + delta[x][u] >= floor[x].reserved[u] - dropped[x][u]
          /\ \A u \in Users \ GuardedUsers(req[x]) : delta[x][u] >= 0 /\ dropped[x][u] = 0
      BY <2>1, <3>1 DEF SessionInv, Floored
    <3>6. /\ GuardedUsers(req[x])' = GuardedUsers(req[x])
          /\ \A u \in Users : Opening(req[x], u)' = Opening(req[x], u)
      BY <3>4
    <3> QED BY <3>2, <3>3, <3>4, <3>5, <3>6 DEF Floored
  <2>4. Claimed(x)'
    <3>1. ASSUME Posts(x)
          PROVE  \A t \in ledger' : t \in ledger \/ t.key \notin KeysOf(req[x])
      <4>1. KeysOf(req[s]) \cap KeysOf(req[x]) = {}
        BY <1>1, <2>1, <3>1 DEF SessionInv, Claimed
      <4> QED BY <1>1, <1>5, <4>1, PostedFacts
    <3> QED BY <1>2, <3>1, StillClaim
  <2>5. Stamped(x)'
    <3>1. SUFFICES ASSUME pc[x] = "insert" \/ Posts(x), req[x].moves # <<>>,
                          NEW t \in ledger', NEW a \in AccountsOf(req[x]), t.legs[a] # 0
                   PROVE  t.stamp < stamp[x]
      BY <2>1 DEF Stamped, Still, Posts
    <3>2. a \in Accounts /\ a \notin AccountsOf(req[s])
      <4>1. req[x] \in Requests /\ pc[x] \in Locked /\ ~Cancels(x)
        BY <1>1, <3>1 DEF ControlTyped, Posts, Cancels, Locked
      <4> QED BY <1>1, <3>1, <4>1, GuardedAreLocked, LocksAreApart
    <3>3. t \in ledger
      BY <1>1, <1>5, <3>1, <3>2, PostedFacts
    <3> QED BY <2>1, <3>1, <3>3 DEF SessionInv, Stamped
  <2> QED BY <2>1, <2>2, <2>3, <2>4, <2>5, StillOwn DEF SessionInv
<1> QED BY <1>2, <1>6, <1>7, <1>8, <1>9, TypesSplit DEF IInv

\* A cancellation only lowers what its owner reserves, so no floor read
\* before it is made unsafe by it.
LEMMA CancelKeeps ==
  ASSUME IInv, NEW s \in Sessions, CommitCancel(s)
  PROVE  IInv'
<1> DEFINE c == req[s].cancels
<1>1. /\ ControlTyped /\ TablesTyped /\ Finish(s, "posted") /\ pc[s] = "commit"
      /\ req[s] \in Requests /\ c \in Orders
  BY TypesSplit, PlannedHolds, RequestTyped DEF IInv, CommitCancel
<1>2. /\ ControlTyped' /\ SessionInv(s)' /\ ~Posts(s)' /\ \A x \in Sessions \ {s} : Still(x)
  BY <1>1, Finished
<1>3. /\ hold' = [hold EXCEPT ![c] = 0]
      /\ reserved' = [reserved EXCEPT ![OwnerOf[c]] = @ - hold[c]]
      /\ balance' = balance /\ opened' = opened /\ ledger' = ledger
  BY DEF CommitCancel
<1>4. OwnerOf[c] \in Users /\ hold[c] \in Nat
  BY <1>1, OrdersAssumption DEF TablesTyped
<1>5. TablesTyped'
  BY <1>1, <1>3, <1>4 DEF TablesTyped
<1>6. \A u \in Users : reserved'[u] <= reserved[u] /\ reserved'[u] \in Int /\ reserved[u] \in Int
  BY <1>1, <1>3, <1>4 DEF TablesTyped
<1>7. FundsCoverReservations' /\ OneTransactionPerKey'
  <2>1. \A u \in Users : balance[u] \in Int /\ balance[u] >= reserved[u]
    BY <1>1, AccountsAssumption DEF TablesTyped, IInv, FundsCoverReservations
  <2> QED BY <1>3, <1>6, <2>1 DEF IInv, FundsCoverReservations, OneTransactionPerKey
<1>8. ASSUME NEW x \in Sessions \ {s}
      PROVE  SessionInv(x)'
  <2>1. SessionInv(x) /\ Still(x)
    BY <1>2 DEF IInv
  <2>2. PlanStands(x)'
    <3>1. ASSUME NEW o \in Orders, hold'[o] # hold[o] \/ (o \in opened' /\ o \notin opened)
          PROVE  req[s].market # NoMarket /\ MarketOf[o] = req[s].market
      <4>1. o = c
        BY <1>1, <1>3, <3>1 DEF TablesTyped
      <4>2. c # NoOrder
        BY <1>1, OrdersAssumption
      <4> QED BY <1>1, <4>1, <4>2, PlannedHolds DEF PlanHolds
    <3> QED BY <1>1, <2>1, <3>1, PlansStand
  <2>3. Floored(x)'
    <3>1. SUFFICES ASSUME pc[x] \in {"walk", "stamp", "insert", "commit"}, ~Cancels(x)
                   PROVE  Floored(x)'
      BY <2>1 DEF Floored, Still, Cancels
    <3>2. req[x] \in Requests /\ GuardedUsers(req[x]) \subseteq Users
      BY <1>1, <3>1, GuardedAreLocked DEF ControlTyped
    <3>3. /\ req'[x] = req[x] /\ floor'[x] = floor[x] /\ delta'[x] = delta[x]
          /\ dropped'[x] = dropped[x]
          /\ GuardedUsers(req[x])' = GuardedUsers(req[x])
          /\ \A u \in Users : Opening(req[x], u)' = Opening(req[x], u)
      BY <2>1 DEF Still
    <3>4. /\ \A u \in GuardedUsers(req[x]) :
               /\ floor[x].balance[u] = balance[u]
               /\ reserved[u] + Opening(req[x], u) <= floor[x].reserved[u]
               /\ floor[x].balance[u] + delta[x][u] >= floor[x].reserved[u] - dropped[x][u]
          /\ \A u \in Users \ GuardedUsers(req[x]) : delta[x][u] >= 0 /\ dropped[x][u] = 0
      BY <2>1, <3>1 DEF SessionInv, Floored
    <3>5. \A u \in Users : Opening(req[x], u) \in Nat /\ floor[x].reserved[u] \in Int
      BY <1>1, <3>2, RequestTyped DEF Opening, ControlTyped
    <3>6. \A u \in GuardedUsers(req[x]) :
            reserved'[u] + Opening(req[x], u) <= floor[x].reserved[u]
      BY <1>6, <3>2, <3>4, <3>5
    <3> QED BY <1>3, <3>3, <3>4, <3>6 DEF Floored
  <2>4. Claimed(x)'
    BY <1>2, <1>3, StillClaim
  <2>5. Stamped(x)'
    BY <1>3, <2>1 DEF SessionInv, Stamped, Still, Posts
  <2> QED BY <2>1, <2>2, <2>3, <2>4, <2>5, StillOwn DEF SessionInv
<1> QED BY <1>2, <1>5, <1>7, <1>8, TypesSplit DEF IInv

----------------------------------------------------------------------------
(* The theorems *)

\* Every step of every session keeps the invariant, and so does no step.
LEMMA NextKeeps == IInv /\ [Next]_vars => IInv'
<1>1. SUFFICES ASSUME IInv, [Next]_vars PROVE IInv'
  OBVIOUS
<1>2. ASSUME NEW s \in Sessions, Step(s) \/ Abort(s) \/ \E r \in Requests : Begin(s, r)
      PROVE  IInv'
  <2>1. CASE \E r \in Requests : Begin(s, r)
    BY <1>1, <2>1, BeginKeeps
  <2>2. CASE Abort(s)
    BY <1>1, <2>2, RefuseKeeps DEF Abort
  <2>3. CASE Step(s)
    BY <1>1, <2>3, LockBookKeeps, PlanKeeps, CheckBatchKeeps, LockAccountKeeps, LookUpKeeps,
       ReadFloorsKeeps, WalkKeeps, StampKeeps, InsertKeeps, CommitKeeps, CancelKeeps DEF Step
  <2> QED BY <1>2, <2>1, <2>2, <2>3
<1>3. CASE UNCHANGED vars
  <2>1. IInv' = IInv
    BY <1>3 DEF vars, tables, locks, walk, IInv, TypeOK, FundsCoverReservations,
       OneTransactionPerKey, SessionInv, HoldsAccounts, HoldsBook, PlanStands, WellFormed, Within,
       Floored, NotWalked, Claimed, Stamped, Posts, Cancels, Asking, PlanHolds
  <2> QED BY <1>1, <2>1
<1> QED BY <1>1, <1>2, <1>3 DEF Next

LEMMA Inductive == Spec => []IInv
  BY InitKeeps, NextKeeps, PTL DEF Spec

\* For any sessions, accounts, orders and requests, every variable of the
\* write path keeps its type; above all no live order ever holds less than
\* nothing, however its fills and its cancellation interleave.
THEOREM TypeCorrect == Spec => []TypeOK
<1>1. IInv => TypeOK
  BY DEF IInv
<1> QED BY <1>1, Inductive, PTL

\* No interleaving of batches, resting orders, fills, cancellations, retries
\* and aborts leaves a user's balance below what their resting orders reserve.
THEOREM NeverOverdrawn == Spec => []FundsCoverReservations
<1>1. IInv => FundsCoverReservations
  BY DEF IInv
<1> QED BY <1>1, Inductive, PTL

\* A retry racing its original, or a key reused for another movement, never
\* makes a second transaction of one key.
THEOREM PostsOnce == Spec => []OneTransactionPerKey
<1>1. IInv => OneTransactionPerKey
  BY DEF IInv
<1> QED BY <1>1, Inductive, PTL

\* Each commit's entries are dated after every entry already on the accounts
\* they touch, however far apart the replicas' clocks are.
THEOREM HistoryInOrder == Spec => StampsFollowCommits
<1>1. IInv /\ [Next]_vars =>
        [\A t \in ledger, n \in ledger' \ ledger :
           (\E a \in Accounts : t.legs[a] # 0 /\ n.legs[a] # 0) => t.stamp < n.stamp]_vars
  <2>1. SUFFICES ASSUME IInv, Next, NEW t \in ledger, NEW n \in ledger' \ ledger,
                        NEW a \in Accounts, t.legs[a] # 0, n.legs[a] # 0
                 PROVE  t.stamp < n.stamp
    OBVIOUS
  <2>2. PICK s \in Sessions : Step(s) \/ Abort(s) \/ \E r \in Requests : Begin(s, r)
    BY <2>1 DEF Next
  <2>3. ledger' # ledger
    BY <2>1
  <2>4. Commit(s)
    BY <2>2, <2>3, Zenon DEF Step, Abort, Begin, LockBook, Plan, CheckBatch, LockAccount, LookUp, ReplayBatch,
         ReadFloors, Walk, Stamp, Insert, CommitCancel, Refuse, tables
  <2>5. n \in TransactionsOf(s) /\ Posts(s)
    BY <2>1, <2>4 DEF Commit, Posts
  <2>6. /\ n.stamp >= stamp[s] /\ req[s].moves # <<>> /\ a \in AccountsOf(req[s])
        /\ n.stamp \in Nat
    BY <2>1, <2>5, PostedFacts
  <2>7. t.stamp < stamp[s]
    BY <2>1, <2>5, <2>6 DEF IInv, SessionInv, Stamped
  <2>8. t.stamp \in Nat /\ stamp[s] \in Nat
    BY <2>1 DEF IInv, TypeOK
  <2> QED BY <2>6, <2>7, <2>8
<1> QED BY <1>1, Inductive, PTL DEF Spec, StampsFollowCommits


----------------------------------------------------------------------------
(* Waiting and retrying *)

LockInv ==
  /\ \A m \in Markets, s \in Sessions : bookLock[m] = s => pc[s] \notin {"idle", "book"}
  /\ \A a \in Accounts, s \in Sessions :
       rowLock[a] = s =>
         /\ pc[s] \in {"locks"} \cup Locked
         /\ pc[s] = "locks" => \A b \in todo[s] : a < b

\* What a request still asked for touches, once its batch was checked.
Touching(s) ==
  pc[s] \in {"locks"} \cup Locked /\ ~Cancels(s) =>
    \A i \in DOMAIN req[s].moves : Touched(req[s].moves[i]) # {}

IsPosted(m) == \E t \in ledger : t.key = m.key /\ t.legs = m.legs

Unposted(s) ==
  pc[s] \in {"floors", "walk"} => \A i \in DOMAIN req[s].moves : ~IsPosted(req[s].moves[i])

RetryInv ==
  /\ DOMAIN outcome = Sessions
  /\ \A s \in Sessions : pc[s] # "idle" => outcome[s] = "none"
  /\ \A s \in Sessions : Touching(s) /\ Unposted(s)

----------------------------------------------------------------------------
(* Who holds a lock *)

LEMMA LockInit == Init => LockInv
  BY NobodyAssumption DEF Init, LockInv

LEMMA FinishUnlocks ==
  ASSUME IInv, LockInv, NEW s \in Sessions, NEW result, Finish(s, result)
  PROVE  LockInv'
<1>1. ControlTyped
  BY TypesSplit DEF IInv
<1>2. \A x \in Sessions \ {s} : pc'[x] = pc[x] /\ todo'[x] = todo[x]
  BY <1>1 DEF Finish, ControlTyped
<1>3. /\ \A a \in Accounts : rowLock'[a] # s /\ rowLock'[a] \in {rowLock[a], Nobody}
      /\ \A m \in Markets : bookLock'[m] # s /\ bookLock'[m] \in {bookLock[m], Nobody}
  BY NobodyAssumption DEF Finish
<1> QED BY <1>2, <1>3, NobodyAssumption DEF LockInv

\* A step within the session's own code, which takes no lock.
LEMMA MoveUnlocks ==
  ASSUME IInv, LockInv, NEW s \in Sessions, NEW label, GoTo(s, label), UNCHANGED locks,
         \A x \in Sessions \ {s} : todo'[x] = todo[x],
         \/ pc[s] \in {"idle", "plan", "batch"} /\ label # "idle" /\ (label = "book" => pc[s] = "idle")
         \/ pc[s] \in Locked /\ label \in Locked
  PROVE  LockInv'
<1>1. ControlTyped
  BY TypesSplit DEF IInv
<1>2. pc'[s] = label /\ (\A x \in Sessions \ {s} : pc'[x] = pc[x])
  BY <1>1 DEF GoTo, ControlTyped
<1>3. UNCHANGED <<rowLock, bookLock>>
  BY DEF locks
<1> QED BY <1>2, <1>3 DEF LockInv, Locked

LEMMA LockBookOrders ==
  ASSUME IInv, LockInv, NEW s \in Sessions, LockBook(s)
  PROVE  LockInv'
<1>1. ControlTyped /\ SessionInv(s)
  BY TypesSplit DEF IInv
<1>2. /\ pc[s] = "book" /\ pc'[s] = "plan" /\ (\A x \in Sessions \ {s} : pc'[x] = pc[x])
      /\ UNCHANGED <<rowLock, todo>>
      /\ \A m \in Markets : bookLock'[m] \in {bookLock[m], s}
  BY <1>1 DEF LockBook, GoTo, ControlTyped
<1> QED BY <1>2 DEF LockInv, Locked

LEMMA LockAccountOrders ==
  ASSUME IInv, LockInv, NEW s \in Sessions, LockAccount(s)
  PROVE  LockInv'
<1>1. ControlTyped
  BY TypesSplit DEF IInv
<1>2. PICK a \in todo[s] :
        /\ \A b \in todo[s] : a <= b
        /\ rowLock' = [rowLock EXCEPT ![a] = s]
        /\ todo' = [todo EXCEPT ![s] = @ \ {a}]
        /\ GoTo(s, IF todo[s] = {a} THEN "lookup" ELSE "locks")
  BY DEF LockAccount
<1>3. /\ pc[s] = "locks" /\ pc'[s] \in {"locks", "lookup"} /\ bookLock' = bookLock
      /\ \A x \in Sessions \ {s} : pc'[x] = pc[x] /\ todo'[x] = todo[x]
      /\ todo'[s] = todo[s] \ {a}
      /\ rowLock'[a] = s /\ (\A b \in Accounts \ {a} : rowLock'[b] = rowLock[b])
  BY <1>1, <1>2 DEF LockAccount, GoTo, ControlTyped
<1>4. \A b \in todo[s] \ {a} : a < b
  <2>1. todo[s] \subseteq Nat
    BY <1>1, AccountsAssumption DEF ControlTyped
  <2> QED BY <1>2, <2>1
<1>5. ASSUME NEW b \in Accounts, NEW x \in Sessions, rowLock'[b] = x
      PROVE  pc'[x] \in {"locks"} \cup Locked /\ (pc'[x] = "locks" => \A c \in todo'[x] : b < c)
  <2>1. CASE x # s
    BY <1>3, <1>5, <2>1 DEF LockInv
  <2>2. CASE x = s
    BY <1>3, <1>4, <1>5, <2>2 DEF LockInv, Locked
  <2> QED BY <2>1, <2>2
<1>6. \A m \in Markets, x \in Sessions : bookLock'[m] = x => pc'[x] \notin {"idle", "book"}
  BY <1>3 DEF LockInv
<1> QED BY <1>5, <1>6 DEF LockInv

LEMMA LockNext == IInv /\ LockInv /\ [Next]_vars => LockInv'
<1>1. SUFFICES ASSUME IInv, LockInv, [Next]_vars PROVE LockInv'
  OBVIOUS
<1>2. CASE UNCHANGED vars
  BY <1>1, <1>2 DEF vars, locks, LockInv
<1>3. ASSUME NEW s \in Sessions, NEW r \in Requests, Begin(s, r)
      PROVE  LockInv'
  BY <1>1, <1>3, MoveUnlocks DEF Begin
<1>4. ASSUME NEW s \in Sessions, NEW result, Refuse(s, result)
      PROVE  LockInv'
  BY <1>1, <1>4, FinishUnlocks DEF Refuse
<1>5. ASSUME NEW s \in Sessions, Step(s)
      PROVE  LockInv'
  <2>1. CASE \E result : Refuse(s, result)
    BY <1>4, <2>1
  <2>2. CASE LockBook(s)
    BY <1>1, <2>2, LockBookOrders
  <2>3. CASE LockAccount(s)
    BY <1>1, <2>3, LockAccountOrders
  <2>4. CASE Commit(s) \/ CommitCancel(s)
    BY <1>1, <2>4, FinishUnlocks DEF Commit, CommitCancel
  <2>5. ASSUME ~ \E result : Refuse(s, result), Plan(s) \/ CheckBatch(s)
        PROVE  LockInv'
    <3>1. TypeOK
      BY <1>1 DEF IInv
    <3>2. PICK label \in {"commit", "locks", "batch"} : GoTo(s, label)
      BY <2>5 DEF Plan, CheckBatch
    <3>3. pc[s] \in {"plan", "batch"} /\ UNCHANGED locks
      BY <2>5, Zenon DEF Plan, CheckBatch
    <3>4. \A x \in Sessions \ {s} : todo'[x] = todo[x]
      BY <2>5, <3>1 DEF Plan, CheckBatch, TypeOK
    <3> QED BY <1>1, <3>2, <3>3, <3>4, MoveUnlocks
  <2>6. ASSUME ~ \E result : Refuse(s, result),
               LookUp(s) \/ ReadFloors(s) \/ Walk(s) \/ Stamp(s) \/ Insert(s)
        PROVE  LockInv'
    <3>1. PICK label \in Locked : GoTo(s, label)
      BY <2>6, Zenon DEF LookUp, ReadFloors, Walk, Stamp, Insert, ReplayBatch, Locked
    <3>2. pc[s] \in Locked /\ UNCHANGED <<locks, todo>>
      BY <2>6, Zenon DEF LookUp, ReadFloors, Walk, Stamp, Insert, ReplayBatch, Locked
    <3> QED BY <1>1, <3>1, <3>2, MoveUnlocks
  <2> QED BY <1>5, <2>1, <2>2, <2>3, <2>4, <2>5, <2>6 DEF Step
<1> QED BY <1>1, <1>2, <1>3, <1>4, <1>5 DEF Next, Abort

----------------------------------------------------------------------------
(* Nobody waits in a circle *)

\* Of sessions that all wait, those for a book row wait for one that has its
\* row, and so is not among them.  Of those that wait for accounts, take the
\* one whose account is the greatest: who holds that account wants only
\* greater ones.  Who inserts waits for a commit, which waits for nobody.
LEMMA SomebodyGoesOn ==
  ASSUME IInv, LockInv, NEW Top \in Nat, \A a \in Accounts : a <= Top,
         NEW S \in (SUBSET Sessions) \ {{}}
  PROVE  \E s \in S : \A t \in S : ~WaitsFor(s, t)
<1>1. ControlTyped
  BY TypesSplit DEF IInv
<1>2. CASE \E s \in S : pc[s] \notin {"book", "locks", "insert"}
  BY <1>2 DEF WaitsFor
<1>3. CASE /\ \A s \in S : pc[s] \in {"book", "locks", "insert"}
           /\ \E s \in S : pc[s] = "insert"
  BY <1>3 DEF WaitsFor
<1>4. CASE \A s \in S : pc[s] = "book"
  <2>1. PICK s \in S : TRUE
    OBVIOUS
  <2>2. req[s] \in Requests /\ req[s].market \in Markets
    BY <1>1, <1>4, RequestTyped DEF ControlTyped, IInv, SessionInv, HoldsBook
  <2> QED BY <1>4, <2>1, <2>2 DEF WaitsFor, LockInv
<1>5. CASE /\ \A s \in S : pc[s] \in {"book", "locks"}
           /\ \E s \in S : pc[s] = "locks"
  <2> DEFINE Wants(s, a) == pc[s] = "locks" /\ a \in todo[s] /\ \A b \in todo[s] : a <= b
  <2> DEFINE Wanted == {a \in Accounts : \E s \in S : Wants(s, a)}
  <2>1. CASE Wanted = {}
    <3>1. PICK s \in S : pc[s] = "locks"
      BY <1>5
    <3>2. todo[s] \subseteq Accounts
      BY <1>1 DEF ControlTyped
    <3>3. ~ \E a \in todo[s] : \A b \in todo[s] : a <= b
      BY <2>1, <3>1, <3>2
    <3> QED BY <3>1, <3>3 DEF WaitsFor
  <2>2. CASE Wanted # {}
    <3>1. Wanted \in SUBSET (0..Top)
      <4>1. Accounts \subseteq 0..Top
        <5> HIDE DEF Wanted
        <5> QED BY AccountsAssumption
      <4>2. Wanted \subseteq Accounts
        OBVIOUS
      <4> QED BY <4>1, <4>2, Zenon
    <3>2. PICK a \in Wanted : \A b \in Wanted : b <= a
      <4> HIDE DEF Wanted
      <4> QED BY <2>2, <3>1, Greatest
    <3>3. PICK s \in S : Wants(s, a)
      OBVIOUS
    <3>4. CASE \A t \in S : rowLock[a] # t
      <4>1. ASSUME NEW t \in S, WaitsFor(s, t) PROVE FALSE
        <5>1. PICK b \in todo[s] : (\A c \in todo[s] : b <= c) /\ rowLock[b] = t
          BY <3>3, <4>1 DEF WaitsFor
        <5>2. todo[s] \subseteq Nat
          BY <1>1, AccountsAssumption DEF ControlTyped
        <5>3. a = b
          BY <3>3, <5>1, <5>2
        <5> QED BY <3>4, <5>1, <5>3
      <4> QED BY <4>1
    <3>5. ASSUME NEW t \in S, rowLock[a] = t
          PROVE  \E x \in S : \A y \in S : ~WaitsFor(x, y)
      <4>1. pc[t] = "locks" /\ (\A b \in todo[t] : a < b)
        BY <1>5, <3>5 DEF LockInv, Locked
      <4>2. ASSUME NEW b \in todo[t], \A c \in todo[t] : b <= c PROVE FALSE
        <5>1. b \in Wanted /\ a \in Nat /\ b \in Nat
          BY <1>1, <3>1, <4>1, <4>2, AccountsAssumption DEF ControlTyped
        <5> QED BY <3>2, <4>1, <4>2, <5>1
      <4> QED BY <4>1, <4>2 DEF WaitsFor
    <3> QED BY <3>4, <3>5
  <2> QED BY <2>1, <2>2
<1> QED BY <1>2, <1>3, <1>4, <1>5

\* However many requests of whatever shape are in flight, some session of any
\* group goes on (NoLockCycle).
THEOREM NeverDeadlocked == Spec => []NoLockCycle
<1>1. IInv /\ LockInv => NoLockCycle
  <2>1. PICK Top \in Nat : \A a \in Accounts : a <= Top
    BY Bounded, AccountsAssumption
  <2> QED BY <2>1, SomebodyGoesOn DEF NoLockCycle
<1>2. Spec => []LockInv
  BY LockInit, LockNext, Inductive, PTL DEF Spec
<1> QED BY <1>1, <1>2, Inductive, PTL

----------------------------------------------------------------------------
(* A retry is told what it did *)

LEMMA RetryInit == Init => RetryInv
  BY DEF Init, RetryInv, Touching, Unposted, Locked

\* What a session knows of its own batch outlasts a step of another that
\* leaves the ledger.
LEMMA OthersUnposted ==
  ASSUME IInv, RetryInv, NEW s \in Sessions, UNCHANGED ledger,
         NEW x \in Sessions \ {s}, Still(x)
  PROVE  Touching(x)' /\ Unposted(x)'
  BY DEF RetryInv, Touching, Unposted, Still, Cancels, IsPosted, Touched

\* A transaction that ends, with nothing new in the ledger.
LEMMA FinishQuiet ==
  ASSUME IInv, RetryInv, NEW s \in Sessions, NEW result, Finish(s, result), UNCHANGED ledger
  PROVE  RetryInv'
<1>1. /\ pc'[s] = "idle" /\ \A x \in Sessions \ {s} : Still(x) /\ pc'[x] = pc[x]
  <2>1. ControlTyped
    BY TypesSplit DEF IInv
  <2> QED BY <2>1, Finished DEF Finish, ControlTyped
<1>2. DOMAIN outcome' = Sessions /\ \A x \in Sessions \ {s} : outcome'[x] = outcome[x]
  BY DEF Finish, RetryInv
<1>3. Touching(s)' /\ Unposted(s)'
  BY <1>1 DEF Touching, Unposted, Locked
<1>4. \A x \in Sessions \ {s} : Touching(x)' /\ Unposted(x)'
  BY <1>1, OthersUnposted
<1>5. \A x \in Sessions : pc'[x] # "idle" => outcome'[x] = "none"
  BY <1>1, <1>2 DEF RetryInv
<1> QED BY <1>2, <1>3, <1>4, <1>5 DEF RetryInv

\* A step that ends nothing and posts nothing, given what s knows after it.
LEMMA StepQuiet ==
  ASSUME IInv, RetryInv, NEW s \in Sessions, UNCHANGED ledger,
         \A x \in Sessions \ {s} : Still(x),
         DOMAIN outcome' = Sessions,
         \A x \in Sessions \ {s} : outcome'[x] = outcome[x],
         outcome'[s] = "none",
         Touching(s)', Unposted(s)'
  PROVE  RetryInv'
<1>1. \A x \in Sessions \ {s} : Touching(x)' /\ Unposted(x)' /\ pc'[x] = pc[x]
  BY OthersUnposted DEF Still
<1> QED BY <1>1 DEF RetryInv

\* CheckBatch passes no movement without an account.
LEMMA CheckedTouches ==
  ASSUME NEW r \in Requests, \A i \in DOMAIN r.moves : ~Unbalanced(r.moves[i])
  PROVE  \A i \in DOMAIN r.moves : Touched(r.moves[i]) # {}
  BY FS_EmptySet DEF Unbalanced

\* A commit posts nothing that a session past its lookup asked for: they would
\* hold the same account.
LEMMA CommitQuiet ==
  ASSUME IInv, RetryInv, NEW s \in Sessions, Commit(s)
  PROVE  RetryInv'
<1>1. /\ ControlTyped /\ pc'[s] = "idle" /\ ledger' = ledger \cup TransactionsOf(s) /\ Posts(s)
      /\ \A x \in Sessions \ {s} : Still(x) /\ pc'[x] = pc[x]
      /\ ~Cancels(s)
  <2>1. ControlTyped
    BY TypesSplit DEF IInv
  <2>2. Finish(s, "posted")
    BY DEF Commit
  <2> QED BY <2>1, <2>2, Finished DEF Commit, Finish, ControlTyped, Posts, Cancels
<1>2. DOMAIN outcome' = Sessions /\ \A x \in Sessions \ {s} : outcome'[x] = outcome[x]
  BY DEF Commit, Finish, RetryInv
<1>3. Touching(s)' /\ Unposted(s)'
  BY <1>1 DEF Touching, Unposted, Locked
<1>4. ASSUME NEW x \in Sessions \ {s}
      PROVE  Touching(x)'
  BY <1>1 DEF RetryInv, Touching, Still, Cancels, Touched
<1>5. ASSUME NEW x \in Sessions \ {s}, pc[x] \in {"floors", "walk"},
             NEW i \in DOMAIN req[x].moves, NEW n \in TransactionsOf(s),
             n.legs = req[x].moves[i].legs
      PROVE  FALSE
  <2>1. pc[x] \in Locked /\ ~Cancels(x)
    BY <1>5 DEF Locked, Cancels
  <2>2. PICK a \in Touched(req[x].moves[i]) : TRUE
    BY <1>5, <2>1 DEF RetryInv, Touching
  <2>3. a \in Accounts /\ a \in AccountsOf(req[x])
    BY <1>5, <2>2 DEF Touched, AccountsOf
  <2>4. n.legs[a] # 0
    BY <1>5, <2>2 DEF Touched
  <2>5. a \in AccountsOf(req[s])
    BY <1>1, <1>5, <2>3, <2>4, PostedFacts
  <2> QED BY <1>1, <2>1, <2>3, <2>5, LocksAreApart
<1>6. ASSUME NEW x \in Sessions \ {s}
      PROVE  Unposted(x)'
  <2>1. SUFFICES ASSUME pc[x] \in {"floors", "walk"}, NEW i \in DOMAIN req[x].moves, NEW t \in ledger',
                        t.key = req[x].moves[i].key, t.legs = req[x].moves[i].legs
                 PROVE  FALSE
    BY <1>1, <1>6 DEF Unposted, IsPosted, Still
  <2>2. CASE t \in ledger
    BY <1>6, <2>1, <2>2 DEF RetryInv, Unposted, IsPosted
  <2>3. CASE t \in TransactionsOf(s)
    BY <1>5, <1>6, <2>1, <2>3
  <2> QED BY <1>1, <2>1, <2>2, <2>3
<1>7. \A x \in Sessions : pc'[x] # "idle" => outcome'[x] = "none"
  BY <1>1, <1>2 DEF RetryInv
<1> QED BY <1>2, <1>3, <1>4, <1>6, <1>7 DEF RetryInv

\* The lookup that finds none of the keys, and what follows it in the walk.
LEMMA LookUpQuiet ==
  ASSUME IInv, NEW s \in Sessions, Found(KeysOf(req[s])) = {}
  PROVE  \A i \in DOMAIN req[s].moves : ~IsPosted(req[s].moves[i])
  BY DEF Found, KeysOf, IsPosted

LEMMA RetryNext == IInv /\ RetryInv /\ [Next]_vars => RetryInv'
<1>1. SUFFICES ASSUME IInv, RetryInv, [Next]_vars PROVE RetryInv'
  OBVIOUS
<1>2. CASE UNCHANGED vars
  BY <1>1, <1>2 DEF vars, tables, RetryInv, Touching, Unposted, Cancels, IsPosted, Touched
<1>3. ASSUME NEW s \in Sessions, NEW r \in Requests, Begin(s, r)
      PROVE  RetryInv'
  <2>1. ControlTyped
    BY <1>1, TypesSplit DEF IInv
  <2>2. /\ UNCHANGED ledger /\ (\A x \in Sessions \ {s} : Still(x))
        /\ pc'[s] \in {"batch", "book"}
    BY <1>3, <2>1 DEF Begin, GoTo, ControlTyped, Still, tables, locks, walk
  <2>3. /\ DOMAIN outcome' = Sessions /\ outcome'[s] = "none"
        /\ \A x \in Sessions \ {s} : outcome'[x] = outcome[x]
    BY <1>1, <1>3 DEF Begin, RetryInv
  <2>4. Touching(s)' /\ Unposted(s)'
    BY <2>2 DEF Touching, Unposted, Locked
  <2> QED BY <1>1, <2>2, <2>3, <2>4, StepQuiet
<1>4. ASSUME NEW s \in Sessions, NEW result, Refuse(s, result)
      PROVE  RetryInv'
  BY <1>1, <1>4, FinishQuiet DEF Refuse, tables
<1>5. ASSUME NEW s \in Sessions, Step(s)
      PROVE  RetryInv'
  <2>1. CASE \E result : Refuse(s, result)
    BY <1>4, <2>1
  <2>2. CASE Commit(s)
    BY <1>1, <2>2, CommitQuiet
  <2>3. CASE CommitCancel(s)
    BY <1>1, <2>3, FinishQuiet DEF CommitCancel
  <2> DEFINE Goes == ~ (\E result : Refuse(s, result)) /\ Step(s) /\ ~Commit(s) /\ ~CommitCancel(s)
  <2>4. ASSUME Goes PROVE RetryInv'
    <3>1. ControlTyped /\ SessionInv(s) /\ RetryInv
      BY <1>1, TypesSplit DEF IInv
    <3>2. /\ UNCHANGED <<ledger, req, outcome>> /\ (\A x \in Sessions \ {s} : Still(x))
          /\ pc[s] # "idle"
      <4>1. CASE LockBook(s)
        BY <3>1, <4>1, NobodyAssumption DEF LockBook, GoTo, Still, ControlTyped, tables, walk
      <4>2. CASE LockAccount(s)
        BY <3>1, <4>2, NobodyAssumption DEF LockAccount, GoTo, Still, ControlTyped, tables, walk
      <4>3. CASE Plan(s) \/ CheckBatch(s)
        BY <2>4, <3>1, <4>3 DEF Plan, CheckBatch, GoTo, Still, ControlTyped, tables, locks, walk
      <4>4. CASE LookUp(s) \/ Insert(s)
        BY <2>4, <3>1, <4>4 DEF LookUp, Insert, ReplayBatch, GoTo, Still, ControlTyped, tables, locks, walk
      <4>5. CASE ReadFloors(s)
        BY <2>4, <3>1, <4>5 DEF ReadFloors, GoTo, Still, ControlTyped, tables, locks
      <4>6. CASE Walk(s)
        BY <2>4, <3>1, <4>6 DEF Walk, GoTo, Still, ControlTyped, tables, locks
      <4>7. CASE Stamp(s)
        BY <3>1, <4>7 DEF Stamp, GoTo, Still, ControlTyped, tables, locks
      <4> QED BY <2>4, <4>1, <4>2, <4>3, <4>4, <4>5, <4>6, <4>7 DEF Step
    <3>3. Touching(s)' /\ Unposted(s)'
      <4>1. CASE LockBook(s)
        BY <3>1, <4>1 DEF LockBook, GoTo, ControlTyped, Touching, Unposted, Locked
      <4>2. CASE Plan(s)
        <5>1. \/ pc'[s] = "commit" /\ req[s].cancels # NoOrder
              \/ pc'[s] = "locks" /\ req[s].moves = <<>>
              \/ pc'[s] = "batch"
          BY <2>4, <3>1, <4>2 DEF Plan, GoTo, ControlTyped
        <5> QED BY <3>2, <5>1 DEF Touching, Unposted, Locked, Cancels
      <4>3. CASE CheckBatch(s)
        <5>1. /\ pc'[s] = "locks" /\ \A i \in DOMAIN req[s].moves : ~Unbalanced(req[s].moves[i])
              /\ req[s] \in Requests
          BY <2>4, <3>1, <3>2, <4>3 DEF CheckBatch, GoTo, ControlTyped
        <5>2. \A i \in DOMAIN req[s].moves : Touched(req[s].moves[i]) # {}
          BY <5>1, CheckedTouches
        <5> QED BY <3>2, <5>1, <5>2 DEF Touching, Unposted, Touched
      <4>4. CASE LockAccount(s)
        <5>1. pc[s] = "locks" /\ pc'[s] \in {"locks", "lookup"}
          BY <3>1, <4>4 DEF LockAccount, GoTo, ControlTyped
        <5> QED BY <3>1, <3>2, <5>1 DEF RetryInv, Touching, Unposted, Touched, Cancels
      <4>5. CASE LookUp(s)
        <5>1. pc[s] = "lookup" /\ pc'[s] = "floors" /\ Found(KeysOf(req[s])) = {}
          BY <2>4, <3>1, <4>5 DEF LookUp, ReplayBatch, GoTo, ControlTyped
        <5>2. \A i \in DOMAIN req[s].moves : ~IsPosted(req[s].moves[i])
          BY <1>1, <5>1, LookUpQuiet
        <5> QED BY <3>1, <3>2, <5>1, <5>2
              DEF RetryInv, Touching, Unposted, Touched, Cancels, Locked, IsPosted
      <4>6. CASE ReadFloors(s) \/ Walk(s) \/ Stamp(s) \/ Insert(s)
        <5>1. /\ pc[s] \in Locked /\ pc[s] # "commit"
              /\ pc'[s] = "walk" => pc[s] \in {"floors", "walk"}
              /\ pc'[s] # "floors"
          BY <2>4, <3>1, <4>6 DEF ReadFloors, Walk, Stamp, Insert, ReplayBatch, GoTo, ControlTyped, Locked
        <5> QED BY <3>1, <3>2, <5>1 DEF RetryInv, Touching, Unposted, Touched, Cancels, Locked, IsPosted
      <4> QED BY <2>4, <4>1, <4>2, <4>3, <4>4, <4>5, <4>6 DEF Step
    <3> QED BY <1>1, <3>1, <3>2, <3>3, StepQuiet DEF RetryInv
  <2> QED BY <1>5, <2>1, <2>2, <2>3, <2>4
<1> QED BY <1>1, <1>2, <1>3, <1>4, <1>5 DEF Next, Abort

\* The two statements that answer InsufficientFunds come after the lookup, so
\* nobody hears it of a movement that is already theirs (RetryNeverOverdrawn).
THEOREM RetriesAreReplays == Spec => RetryNeverOverdrawn
<1> DEFINE Told(s) ==
      req[s] # NoRequest /\ outcome'[s] = "InsufficientFunds" =>
        \A t \in ledger, i \in DOMAIN req[s].moves :
          t.key # req[s].moves[i].key \/ t.legs # req[s].moves[i].legs
<1>1. IInv /\ RetryInv /\ [Next]_vars => [\A s \in Sessions : Told(s)]_vars
  <2>1. SUFFICES ASSUME IInv, RetryInv, Next, NEW s \in Sessions, req[s] # NoRequest,
                        outcome'[s] = "InsufficientFunds"
                 PROVE  \A i \in DOMAIN req[s].moves : ~IsPosted(req[s].moves[i])
    BY DEF IsPosted
  <2>2. ControlTyped /\ pc[s] # "idle" /\ outcome[s] = "none"
    BY <2>1, TypesSplit DEF IInv, ControlTyped, RetryInv
  <2>3. PICK x \in Sessions : Step(x) \/ Abort(x) \/ \E r \in Requests : Begin(x, r)
    BY <2>1 DEF Next
  <2>4. ASSUME NEW y \in Sessions, NEW result, Finish(y, result)
        PROVE  y = s /\ result = "InsufficientFunds"
    BY <2>1, <2>2, <2>4 DEF Finish, RetryInv
  <2>5. pc[s] \in {"floors", "walk"}
    <3>1. CASE \E r \in Requests : Begin(x, r)
      BY <2>1, <2>2, <3>1 DEF Begin, RetryInv
    <3>2. CASE Abort(x)
      BY <2>4, <3>2 DEF Abort, Refuse
    <3>3. CASE Step(x)
      <4>1. CASE outcome' = outcome
        BY <2>1, <2>2, <4>1
      <4>2. ASSUME outcome' # outcome
            PROVE  pc[s] \in {"floors", "walk"}
        <5>1. /\ ~Commit(x) /\ ~CommitCancel(x)
          BY <2>4 DEF Commit, CommitCancel
        <5>2. ~LockBook(x) /\ ~LockAccount(x) /\ ~Stamp(x)
          BY <4>2 DEF LockBook, LockAccount, Stamp
        <5>3. ~Plan(x) /\ ~CheckBatch(x)
          <6>1. ASSUME Plan(x) \/ CheckBatch(x)
                PROVE  \E result \in {"replayed", "IdempotencyKeyReused", "refused by the caller",
                                     "MalformedBatch", "UnbalancedTransaction"} : Finish(x, result)
            BY <4>2, <6>1, Zenon DEF Plan, CheckBatch, Refuse
          <6> QED BY <2>4, <6>1
        <5>4. ~LookUp(x) /\ ~Insert(x)
          BY <2>4, <4>2 DEF LookUp, Insert, ReplayBatch, Refuse
        <5>5. ReadFloors(x) \/ Walk(x)
          BY <3>3, <5>1, <5>2, <5>3, <5>4 DEF Step
        <5>6. x = s
          BY <2>4, <4>2, <5>5 DEF ReadFloors, Walk, Refuse
        <5> QED BY <5>5, <5>6 DEF ReadFloors, Walk
      <4> QED BY <4>1, <4>2
    <3> QED BY <2>3, <3>1, <3>2, <3>3
  <2> QED BY <2>1, <2>5 DEF RetryInv, Unposted
<1>2. Spec => []RetryInv
  BY RetryInit, RetryNext, Inductive, PTL DEF Spec
<1> QED BY <1>1, <1>2, Inductive, PTL DEF Spec, RetryNeverOverdrawn

----------------------------------------------------------------------------
(* A batch at one instant *)

\* How far the first n movements of a batch lower a user's reservation.
Dropped(r, u, n) ==
  SumFunctionOnSet([i \in 1..Len(r.moves) |-> DropFrom(r.moves[i], u)], 1..n)

\* A request whose plan holds and whose movements post_all takes.
Sound(r) ==
  /\ r \in Requests
  /\ r.market # NoMarket => PlanHolds(r)
  /\ r.moves # <<>> => ~MalformedBatch(r)

\* What the walk has checked, movement by movement.
Walked(s) ==
  pc[s] \in {"walk", "stamp", "insert", "commit"} /\ ~Cancels(s) =>
    /\ at[s] \in 1..Len(req[s].moves) + 1
    /\ pc[s] # "walk" => at[s] = Len(req[s].moves) + 1
    /\ \A a \in Accounts : delta[s][a] = Atomic!Given(req[s], a, at[s] - 1)
    /\ \A u \in Users : dropped[s][u] = Dropped(req[s], u, at[s] - 1)
    /\ \A i \in 0..at[s] - 1, u \in GuardedUsers(req[s]) :
         floor[s].balance[u] + Atomic!Given(req[s], u, i)
           >= floor[s].reserved[u] - Dropped(req[s], u, i)

Backed == \A u \in Users : reserved[u] = Atomic!ReservedBy(hold, u)

PostInv == Backed /\ \A s \in Sessions : Walked(s)

\* The sum is the same function in both modules.
LEMMA SameSum ==
  ASSUME NEW F, NEW S
  PROVE  Atomic!SumFunctionOnSet(F, S) = SumFunctionOnSet(F, S)
BY DEF Atomic!SumFunctionOnSet, SumFunctionOnSet, Atomic!FoldFunctionOnSet, FoldFunctionOnSet,
       Atomic!MapThenFoldSet, MapThenFoldSet

\* A well-formed movement lowers only the reservation of the user whose order
\* it fills.
LEMMA DropsOfOwner ==
  ASSUME NEW r, Sound(r), NEW i \in DOMAIN r.moves, NEW u \in Users
  PROVE  DropFrom(r.moves[i], u) =
           IF r.moves[i].order # NoOrder /\ OwnerOf[r.moves[i].order] = u
           THEN r.moves[i].drop ELSE 0
<1> DEFINE m == r.moves[i]
<1>1. /\ r \in Requests /\ m.legs \in [Accounts -> Int] /\ m.order \in Orders \cup {NoOrder}
      /\ m.drop \in Int
  BY RequestTyped DEF Sound
<1>2. CASE m.drop = 0
  BY <1>2 DEF DropFrom
<1>3. CASE m.drop # 0
  <2>1. Cardinality(Touched(m) \cap Users) = 1 /\ \A x \in Touched(m) \cap Users : m.legs[x] < 0
    <3>1. ~HasMalformedDrop(m) /\ Touched(m) \subseteq Accounts
      BY DEF Sound, MalformedBatch, Touched
    <3>2. \A x \in Touched(m) \cap Users : m.legs[x] \in Int
      BY <1>1, <3>1
    <3> QED BY <1>3, <3>1, <3>2 DEF HasMalformedDrop
  <2>2. PICK x : Touched(m) \cap Users = {x}
    <3>1. IsFiniteSet(Touched(m) \cap Users)
      BY AccountsAssumption, FS_Subset DEF Touched
    <3> QED BY <2>1, <3>1, FS_Singleton
  <2>3. r.market # NoMarket
    BY <1>1, <1>3, <2>1, <2>2, RequestsAssumption
  <2>4. m.order # NoOrder /\ m.legs[OwnerOf[m.order]] < 0
    BY <1>1, <1>3, <2>3 DEF Sound, PlanHolds
  <2>5. OwnerOf[m.order] \in Users /\ OwnerOf[m.order] \in Touched(m)
    BY <1>1, <2>4, OrdersAssumption, AccountsAssumption DEF Touched
  <2>6. x = OwnerOf[m.order]
    BY <2>2, <2>5
  <2> QED BY <2>2, <2>4, <2>6 DEF DropFrom
<1> QED BY <1>2, <1>3

\* The sums over the first movements of a batch, whichever prefix they list.
LEMMA PrefixSum ==
  ASSUME NEW N \in Nat, NEW F, NEW n \in 0..N
  PROVE  Atomic!SumFunctionOnSet([i \in 1..n |-> F[i]], 1..n) = SumFunctionOnSet(F, 1..n)
<1> DEFINE P == [i \in 1..n |-> F[i]]
<1>1. IsFiniteSet(1..n) /\ \A i \in 1..n : P[i] = F[i]
  BY FS_Interval
<1> HIDE DEF P
<1>2. SumFunctionOnSet(P, 1..n) = SumFunctionOnSet(F, 1..n)
  BY <1>1, SumSame
<1> QED BY <1>2, SameSum DEF P

LEMMA GivenUnrolls ==
  ASSUME NEW r \in Requests, NEW a \in Accounts, NEW n \in 0..Len(r.moves)
  PROVE  /\ Atomic!Given(r, a, 0) = 0 /\ Atomic!Given(r, a, n) \in Int
         /\ n < Len(r.moves) =>
              Atomic!Given(r, a, n + 1) = Atomic!Given(r, a, n) + r.moves[n + 1].legs[a]
<1> DEFINE N == Len(r.moves)
           G == [i \in 1..N |-> r.moves[i].legs[a]]
<1>1. N \in Nat /\ n \in Nat /\ \A i \in 1..N : G[i] \in Int
  BY RequestTyped
<1>2. ASSUME NEW k \in 0..N PROVE Atomic!Given(r, a, k) = SumFunctionOnSet(G, 1..k)
  <2>1. [i \in 1..k |-> r.moves[i].legs[a]] = [i \in 1..k |-> G[i]]
    BY <1>1
  <2> HIDE DEF G, N
  <2>2. Atomic!SumFunctionOnSet([i \in 1..k |-> G[i]], 1..k) = SumFunctionOnSet(G, 1..k)
    BY <1>1, PrefixSum
  <2> QED BY <2>1, <2>2 DEF Atomic!Given
<1>3. n < N => n + 1 \in 0..N /\ G[n + 1] = r.moves[n + 1].legs[a]
  BY <1>1
<1> HIDE DEF G, N
<1>4. 0 \in 0..N /\ n \in 0..N
  BY <1>1 DEF N
<1>5. /\ SumFunctionOnSet(G, 1..0) = 0 /\ SumFunctionOnSet(G, 1..n) \in Int
      /\ n < N => SumFunctionOnSet(G, 1..n + 1) = SumFunctionOnSet(G, 1..n) + G[n + 1]
  BY <1>1, <1>4, SumsUnroll
<1> QED BY <1>2, <1>3, <1>4, <1>5 DEF N

LEMMA DroppedUnrolls ==
  ASSUME NEW r \in Requests, NEW u \in Users, NEW n \in 0..Len(r.moves)
  PROVE  /\ Dropped(r, u, 0) = 0 /\ Dropped(r, u, n) \in Int
         /\ n < Len(r.moves) => Dropped(r, u, n + 1) = Dropped(r, u, n) + DropFrom(r.moves[n + 1], u)
<1> DEFINE N == Len(r.moves)
           D == [i \in 1..N |-> DropFrom(r.moves[i], u)]
<1>1. N \in Nat /\ n \in Nat /\ \A i \in 1..N : D[i] \in Int
  BY RequestTyped DEF DropFrom
<1>2. \A k : Dropped(r, u, k) = SumFunctionOnSet(D, 1..k)
  BY DEF Dropped
<1>3. n < N => D[n + 1] = DropFrom(r.moves[n + 1], u)
  BY <1>1
<1> HIDE DEF D, N
<1>4. 0 \in 0..N /\ n \in 0..N
  BY <1>1 DEF N
<1>5. /\ SumFunctionOnSet(D, 1..0) = 0 /\ SumFunctionOnSet(D, 1..n) \in Int
      /\ n < N => SumFunctionOnSet(D, 1..n + 1) = SumFunctionOnSet(D, 1..n) + D[n + 1]
  BY <1>1, <1>4, SumsUnroll
<1> QED BY <1>2, <1>3, <1>4, <1>5 DEF N

LEMMA TakenUnrolls ==
  ASSUME NEW r \in Requests, NEW o \in Orders, NEW n \in 0..Len(r.moves)
  PROVE  /\ Atomic!Taken(r, o, 0) = 0 /\ Atomic!Taken(r, o, n) \in Int
         /\ n < Len(r.moves) =>
              Atomic!Taken(r, o, n + 1)
                = Atomic!Taken(r, o, n)
                    + (IF r.moves[n + 1].order = o THEN r.moves[n + 1].drop ELSE 0)
<1> DEFINE N == Len(r.moves)
           K == [i \in 1..N |-> IF r.moves[i].order = o THEN r.moves[i].drop ELSE 0]
<1>1. N \in Nat /\ n \in Nat /\ \A i \in 1..N : K[i] \in Int
  BY RequestTyped
<1>2. ASSUME NEW k \in 0..N PROVE Atomic!Taken(r, o, k) = SumFunctionOnSet(K, 1..k)
  <2>1. [i \in 1..k |-> IF r.moves[i].order = o THEN r.moves[i].drop ELSE 0] = [i \in 1..k |-> K[i]]
    BY <1>1
  <2> HIDE DEF K, N
  <2>2. Atomic!SumFunctionOnSet([i \in 1..k |-> K[i]], 1..k) = SumFunctionOnSet(K, 1..k)
    BY <1>1, PrefixSum
  <2> QED BY <2>1, <2>2 DEF Atomic!Taken
<1>3. n < N => /\ n + 1 \in 0..N
               /\ K[n + 1] = IF r.moves[n + 1].order = o THEN r.moves[n + 1].drop ELSE 0
  BY <1>1
<1> HIDE DEF K, N
<1>4. 0 \in 0..N /\ n \in 0..N
  BY <1>1 DEF N
<1>5. /\ SumFunctionOnSet(K, 1..0) = 0 /\ SumFunctionOnSet(K, 1..n) \in Int
      /\ n < N => SumFunctionOnSet(K, 1..n + 1) = SumFunctionOnSet(K, 1..n) + K[n + 1]
  BY <1>1, <1>4, SumsUnroll
<1> QED BY <1>2, <1>3, <1>4, <1>5 DEF N

\* What the whole batch takes off an order is the drop of its one fill.
LEMMA TakenOnce ==
  ASSUME NEW r \in Requests, NEW o \in Orders
  PROVE  Atomic!Taken(r, o, Len(r.moves)) = IF o \in FilledOrders(r) THEN DropOn(r, o) ELSE 0
<1> DEFINE N == Len(r.moves)
           K == [i \in 1..N |-> IF r.moves[i].order = o THEN r.moves[i].drop ELSE 0]
<1>1. /\ N \in Nat /\ DOMAIN r.moves = 1..N /\ IsFiniteSet(1..N) /\ o # NoOrder
      /\ \A i \in 1..N : r.moves[i].drop \in Int
  <2>1. N \in Nat /\ DOMAIN r.moves = 1..N /\ o # NoOrder /\ \A i \in 1..N : r.moves[i].drop \in Int
    BY RequestTyped, OrdersAssumption
  <2> HIDE DEF N
  <2>2. IsFiniteSet(1..N)
    BY <2>1, FS_Interval
  <2> QED BY <2>1, <2>2
<1>2. Atomic!Taken(r, o, N) = SumFunctionOnSet(K, 1..N)
  BY SameSum DEF Atomic!Taken
<1>3. CASE o \notin FilledOrders(r)
  <2>1. \A i \in 1..N : K[i] = 0
    BY <1>1, <1>3 DEF FilledOrders
  <2> HIDE DEF K
  <2>2. SumFunctionOnSet(K, 1..N) = 0
    BY <1>1, <2>1, SumZero
  <2> QED BY <1>2, <1>3, <2>2
<1>4. CASE o \in FilledOrders(r)
  <2>1. PICK i \in 1..N : r.moves[i].order = o /\ DropOn(r, o) = r.moves[i].drop
    BY <1>1, <1>4 DEF FilledOrders, DropOn
  <2>2. \A j \in 1..N : j # i => r.moves[j].order # o
    BY <1>1, <2>1, RequestsAssumption
  <2>3. /\ K[i] = DropOn(r, o) /\ K[i] \in Int
        /\ \A j \in (1..N) \ {i} : K[j] = 0
    BY <1>1, <2>1, <2>2
  <2> HIDE DEF K
  <2>4. SumFunctionOnSet(K, 1..N) = K[i]
    BY <1>1, <2>3, SumOne
  <2> QED BY <1>2, <1>4, <2>3, <2>4
<1> QED BY <1>3, <1>4

\* What a user's orders reserve after the first n movements.
LEMMA LeftReserves ==
  ASSUME NEW r, Sound(r), hold \in [Orders -> Nat], NEW u \in Users, NEW top \in 0..Len(r.moves)
  PROVE  Atomic!ReservedBy(Atomic!LeftAfter(r, top), u)
           = Atomic!ReservedBy(hold, u) + Opening(r, u) - Dropped(r, u, top)
<1> DEFINE O == {o \in Orders : OwnerOf[o] = u}
           L(n) == Atomic!LeftAfter(r, n)
           Is(n) == SumFunctionOnSet(L(n), O)
                      = SumFunctionOnSet(hold, O) + Opening(r, u) - Dropped(r, u, n)
<1>1. /\ r \in Requests /\ Len(r.moves) \in Nat /\ DOMAIN r.moves = 1..Len(r.moves)
      /\ IsFiniteSet(O) /\ r.budget \in Nat /\ r.opens \in Orders \cup {NoOrder}
      /\ Opening(r, u) \in Nat /\ u \in Accounts
  BY RequestTyped, OrdersAssumption, AccountsAssumption, FS_Subset DEF Sound, Opening
<1>2. \A left : Atomic!ReservedBy(left, u) = SumFunctionOnSet(left, O)
  BY SameSum DEF Atomic!ReservedBy
<1>3. ASSUME NEW n \in 0..Len(r.moves)
      PROVE  /\ \A o \in Orders : /\ Atomic!Taken(r, o, n) \in Int
                                 /\ L(n)[o] = hold[o] + OpeningOn(r, o) - Atomic!Taken(r, o, n)
                                 /\ L(n)[o] \in Int /\ hold[o] \in Int
             /\ Dropped(r, u, n) \in Int
  <2>1. \A o \in Orders : Atomic!Taken(r, o, n) \in Int
    BY <1>1, DroppedUnrolls, TakenUnrolls, GivenUnrolls
  <2>2. Dropped(r, u, n) \in Int
    BY <1>1, DroppedUnrolls, TakenUnrolls, GivenUnrolls
  <2>3. \A o \in Orders : L(n)[o] = hold[o] + OpeningOn(r, o) - Atomic!Taken(r, o, n)
    BY DEF Atomic!LeftAfter, OpeningOn
  <2> HIDE DEF L
  <2>4. \A o \in Orders : hold[o] \in Int /\ OpeningOn(r, o) \in Int
    BY <1>1 DEF OpeningOn
  <2> QED BY <2>1, <2>2, <2>3, <2>4
<1>4. SumFunctionOnSet(hold, O) \in Int
  <2>1. \A o \in O : hold[o] \in Int
    OBVIOUS
  <2> HIDE DEF O
  <2> QED BY <1>1, <2>1, SumInt
<1>5. Is(0)
  <2>1. Dropped(r, u, 0) = 0 /\ 0 \in 0..Len(r.moves)
    BY <1>1, DroppedUnrolls, TakenUnrolls, GivenUnrolls
  <2>2. \A o \in Orders : L(0)[o] = hold[o] + OpeningOn(r, o) /\ hold[o] \in Int /\ L(0)[o] \in Int
    <3>1. \A o \in Orders : Atomic!Taken(r, o, 0) = 0
      BY <1>1, <2>1, DroppedUnrolls, TakenUnrolls, GivenUnrolls
    <3>2. \A o \in Orders : OpeningOn(r, o) \in Int
      BY <1>1 DEF OpeningOn
    <3> HIDE DEF L
    <3> QED BY <1>3, <2>1, <3>1, <3>2
  <2>3. CASE r.opens \in O
    <3>1. /\ OpeningOn(r, r.opens) = Opening(r, u) /\ r.opens \in Orders
          /\ \A o \in Orders : o # r.opens => OpeningOn(r, o) = 0
      BY <2>3, OrdersAssumption DEF Opening, OpeningOn
    <3>2. /\ \A o \in O \ {r.opens} : hold[o] = L(0)[o]
          /\ \A o \in O : hold[o] \in Int /\ L(0)[o] \in Int
      <4> HIDE DEF L
      <4> QED BY <2>2, <3>1
    <3> DEFINE G == L(0)  c == r.opens
    <3>4. /\ c \in O /\ IsFiniteSet(O)
          /\ \A o \in O \ {c} : hold[o] = G[o]
          /\ \A o \in O : hold[o] \in Int /\ G[o] \in Int
      BY <1>1, <2>3, <3>2
    <3>3. SumFunctionOnSet(G, O) = SumFunctionOnSet(hold, O) - hold[c] + G[c]
      <4> HIDE DEF O, G, c
      <4>1. PICK f, g, d : f = hold /\ g = G /\ d = c
        OBVIOUS
      <4>2. /\ d \in O /\ IsFiniteSet(O)
            /\ \A o \in O \ {d} : f[o] = g[o]
            /\ \A o \in O : f[o] \in Int /\ g[o] \in Int
        BY <3>4, <4>1
      <4>3. SumFunctionOnSet(g, O) = SumFunctionOnSet(f, O) - f[d] + g[d]
        BY <4>2, SumChanged
      <4> QED BY <4>1, <4>3
    <3> HIDE DEF O, L
    <3> QED BY <1>1, <1>4, <2>1, <2>2, <3>1, <3>3
  <2>4. CASE r.opens \notin O
    <3>1. Opening(r, u) = 0 /\ \A o \in O : OpeningOn(r, o) = 0
      BY <1>1, <2>4, OrdersAssumption DEF Opening, OpeningOn
    <3>2. \A o \in O : L(0)[o] = hold[o]
      <4> HIDE DEF L
      <4> QED BY <2>2, <3>1
    <3> HIDE DEF O, L
    <3>3. SumFunctionOnSet(L(0), O) = SumFunctionOnSet(hold, O)
      BY <1>1, <3>2, SumSame
    <3> QED BY <1>4, <2>1, <3>1, <3>3
  <2> QED BY <2>3, <2>4
<1>6. ASSUME NEW n \in Nat, n < Len(r.moves), Is(n)
      PROVE  Is(n + 1)
  <2> DEFINE m == r.moves[n + 1]
  <2>1. /\ n \in 0..Len(r.moves) /\ n + 1 \in 0..Len(r.moves) /\ n + 1 \in DOMAIN r.moves
        /\ m.order \in Orders \cup {NoOrder} /\ m.drop \in Int
    BY <1>1, <1>6, RequestTyped
  <2>2. /\ Dropped(r, u, n + 1) = Dropped(r, u, n) + DropFrom(m, u)
        /\ \A o \in Orders : Atomic!Taken(r, o, n + 1)
                    = Atomic!Taken(r, o, n) + (IF m.order = o THEN m.drop ELSE 0)
    BY <1>1, <1>6, <2>1, DroppedUnrolls, TakenUnrolls, GivenUnrolls
  <2>3. DropFrom(m, u) = IF m.order # NoOrder /\ OwnerOf[m.order] = u THEN m.drop ELSE 0
    BY <2>1, DropsOfOwner
  <2>4. \A o \in Orders : /\ L(n + 1)[o] = L(n)[o] - (IF m.order = o THEN m.drop ELSE 0)
                         /\ L(n)[o] \in Int /\ L(n + 1)[o] \in Int
    <3>1. \A o \in Orders : OpeningOn(r, o) \in Int
      BY <1>1 DEF OpeningOn
    <3>2. \A o \in Orders : /\ L(n)[o] = hold[o] + OpeningOn(r, o) - Atomic!Taken(r, o, n)
                           /\ L(n + 1)[o] = hold[o] + OpeningOn(r, o) - Atomic!Taken(r, o, n + 1)
                           /\ Atomic!Taken(r, o, n) \in Int /\ hold[o] \in Int
                           /\ L(n)[o] \in Int /\ L(n + 1)[o] \in Int
      BY <1>3, <2>1
    <3> HIDE DEF L, m
    <3> TAKE o \in Orders
    <3>3. /\ L(n)[o] = hold[o] + OpeningOn(r, o) - Atomic!Taken(r, o, n)
          /\ L(n + 1)[o] = hold[o] + OpeningOn(r, o) - Atomic!Taken(r, o, n + 1)
          /\ Atomic!Taken(r, o, n) \in Int /\ hold[o] \in Int
          /\ L(n)[o] \in Int /\ L(n + 1)[o] \in Int /\ OpeningOn(r, o) \in Int
          /\ Atomic!Taken(r, o, n + 1)
               = Atomic!Taken(r, o, n) + (IF m.order = o THEN m.drop ELSE 0)
      BY <2>2, <3>1, <3>2
    <3> QED BY <2>1, <3>3
  <2>5. Dropped(r, u, n) \in Int
    BY <1>3, <2>1
  <2>6. CASE m.order \in O
    <3>1. DropFrom(m, u) = m.drop /\ m.order \in Orders
      BY <2>3, <2>6, OrdersAssumption
    <3> DEFINE c == m.order
    <3>2. /\ \A o \in O \ {c} : L(n)[o] = L(n + 1)[o]
          /\ \A o \in O : L(n)[o] \in Int /\ L(n + 1)[o] \in Int
          /\ L(n + 1)[c] = L(n)[c] - m.drop /\ L(n)[c] \in Int
      <4> HIDE DEF L
      <4> QED BY <2>4, <3>1
    <3>3. PICK f, g : f = L(n) /\ g = L(n + 1)
      OBVIOUS
    <3>4. /\ IsFiniteSet(O) /\ c \in O /\ m.drop \in Int
          /\ \A o \in O \ {c} : f[o] = g[o]
          /\ \A o \in O : f[o] \in Int /\ g[o] \in Int
          /\ g[c] = f[c] - m.drop
      BY <1>1, <2>1, <2>6, <3>2, <3>3
    <3>5. SumFunctionOnSet(g, O) = SumFunctionOnSet(f, O) - m.drop /\ SumFunctionOnSet(f, O) \in Int
      <4> HIDE DEF O, L, m, c, Is
      <4> QED BY <3>4, SumLowered
    <3> HIDE DEF O, L, m
    <3> QED BY <1>1, <1>4, <1>6, <2>1, <2>2, <2>5, <3>1, <3>3, <3>5
  <2>7. CASE m.order \notin O
    <3>1. DropFrom(m, u) = 0
      BY <2>1, <2>3, <2>7
    <3>2. \A o \in O : L(n + 1)[o] = L(n)[o]
      <4> HIDE DEF L
      <4> QED BY <2>4, <2>7
    <3> HIDE DEF O, L, m
    <3>3. SumFunctionOnSet(L(n + 1), O) = SumFunctionOnSet(L(n), O)
      BY <1>1, <3>2, SumSame
    <3> QED BY <1>6, <2>2, <2>5, <3>1, <3>3
  <2> HIDE DEF Is
  <2> QED BY <2>6, <2>7
<1>7. Is(top)
  <2> DEFINE T == {n \in Nat : Is(n)}
  <2>1. 0 \in T /\ \A n \in T : n < Len(r.moves) => n + 1 \in T
    <3> HIDE DEF Is
    <3> QED BY <1>5, <1>6
  <2>2. \A n \in 0..Len(r.moves) : n \in T
    <3> HIDE DEF T
    <3> QED BY <1>1, <2>1, Climbs
  <2> QED BY <2>2
<1> QED BY <1>2, <1>7

\* A user the batch debits nowhere only gains, and keeps what they reserve.
LEMMA OnlyGains ==
  ASSUME NEW r, Sound(r), NEW u \in Users, u \notin DebitedUsers(r), NEW top \in 0..Len(r.moves)
  PROVE  Atomic!Given(r, u, top) >= 0 /\ Dropped(r, u, top) = 0
<1> DEFINE Is(n) == Atomic!Given(r, u, n) >= 0 /\ Dropped(r, u, n) = 0
<1>1. /\ r \in Requests /\ Len(r.moves) \in Nat /\ DOMAIN r.moves = 1..Len(r.moves)
      /\ u \in Accounts
  BY RequestTyped, AccountsAssumption DEF Sound
<1>2. \A n \in 0..Len(r.moves) : Atomic!Given(r, u, n) \in Int /\ Dropped(r, u, n) \in Int
  BY <1>1, DroppedUnrolls, TakenUnrolls, GivenUnrolls
<1>3. Is(0)
  BY <1>1, DroppedUnrolls, TakenUnrolls, GivenUnrolls
<1>4. ASSUME NEW n \in Nat, n < Len(r.moves), Is(n)
      PROVE  Is(n + 1)
  <2> DEFINE m == r.moves[n + 1]
  <2>1. n \in 0..Len(r.moves) /\ n + 1 \in DOMAIN r.moves
    BY <1>1, <1>4
  <2>2. m \in Movement /\ m.legs[u] \in Int /\ m.legs[u] >= 0
    BY <1>1, <2>1, RequestTyped DEF DebitedUsers
  <2>3. DropFrom(m, u) = 0
    <3>1. ~HasMalformedDrop(m)
      BY <1>1, <2>1 DEF Sound, MalformedBatch
    <3> QED BY <2>2, <3>1, DropIsDebit
  <2>4. /\ Atomic!Given(r, u, n + 1) = Atomic!Given(r, u, n) + m.legs[u]
        /\ Dropped(r, u, n + 1) = Dropped(r, u, n) + DropFrom(m, u)
    <3>1. u \in Users
      OBVIOUS
    <3> QED BY <1>1, <1>4, <2>1, <3>1, DroppedUnrolls, TakenUnrolls, GivenUnrolls
  <2> HIDE DEF m
  <2> QED BY <1>2, <1>4, <2>1, <2>2, <2>3, <2>4
<1>5. Is(top)
  <2> DEFINE T == {n \in Nat : Is(n)}
  <2>1. 0 \in T /\ \A n \in T : n < Len(r.moves) => n + 1 \in T
    <3> HIDE DEF Is
    <3> QED BY <1>3, <1>4
  <2>2. \A n \in 0..Len(r.moves) : n \in T
    <3> HIDE DEF T
    <3> QED BY <1>1, <2>1, Climbs
  <2> QED BY <2>2
<1> QED BY <1>5

\* What a session has walked outlasts another's step.
LEMMA StillWalked ==
  ASSUME NEW x \in Sessions, Walked(x), Still(x)
  PROVE  Walked(x)'
<1>1. /\ pc'[x] = pc[x] /\ req'[x] = req[x] /\ at'[x] = at[x] /\ delta'[x] = delta[x]
      /\ dropped'[x] = dropped[x] /\ floor'[x] = floor[x]
  BY DEF Still
<1>2. Cancels(x)' <=> Cancels(x)
  BY <1>1 DEF Cancels
<1>3. GuardedUsers(req[x])' = GuardedUsers(req[x])
  BY <1>1
<1> QED BY <1>1, <1>2, <1>3 DEF Walked

LEMMA PostInit == Init => PostInv
<1>1. SUFFICES ASSUME Init PROVE PostInv
  OBVIOUS
<1>2. \A s \in Sessions : Walked(s)
  BY <1>1 DEF Init, Walked
<1>3. ASSUME NEW u \in Users PROVE reserved[u] = Atomic!ReservedBy(hold, u)
  <2> DEFINE O == {o \in Orders : OwnerOf[o] = u}
  <2>1. IsFiniteSet(O) /\ \A o \in O : hold[o] = 0
    BY <1>1, OrdersAssumption, FS_Subset DEF Init
  <2>2. Atomic!ReservedBy(hold, u) = SumFunctionOnSet(hold, O)
    BY SameSum DEF Atomic!ReservedBy
  <2> HIDE DEF O
  <2>3. SumFunctionOnSet(hold, O) = 0
    BY <2>1, SumZero
  <2> QED BY <1>1, <2>2, <2>3 DEF Init
<1> QED BY <1>2, <1>3 DEF PostInv, Backed

\* The first floors read are the ones before any movement.
LEMMA ReadFloorsWalked ==
  ASSUME IInv, NEW s \in Sessions, ReadFloors(s), ~ \E result : Refuse(s, result)
  PROVE  Walked(s)'
<1> DEFINE reservedNow == [u \in Users |-> reserved[u] + Opening(req[s], u)]
<1>1. ControlTyped /\ TablesTyped /\ SessionInv(s) /\ pc[s] = "floors"
  BY TypesSplit DEF IInv, ReadFloors
<1>2. /\ ~ \E u \in GuardedUsers(req[s]) : balance[u] < reservedNow[u]
      /\ floor' = [floor EXCEPT ![s] = [balance |-> [u \in Users |-> balance[u]],
                                       reserved |-> reservedNow]]
      /\ GoTo(s, IF req[s].moves = <<>> THEN "commit" ELSE "walk")
      /\ UNCHANGED <<tables, locks, req, todo, at, delta, dropped, stamp, outcome>>
  BY Zenon DEF ReadFloors
<1>3. PICK r \in Requests : r = req[s]
  BY <1>1 DEF ControlTyped
<1>4. /\ req'[s] = r /\ at'[s] = 1
      /\ (\A a \in Accounts : delta'[s][a] = 0) /\ (\A u \in Users : dropped'[s][u] = 0)
      /\ pc'[s] = IF r.moves = <<>> THEN "commit" ELSE "walk"
      /\ floor'[s].balance = [u \in Users |-> balance[u]]
      /\ floor'[s].reserved = reservedNow
  BY <1>1, <1>2, <1>3 DEF SessionInv, NotWalked, GoTo, ControlTyped
<1>5. /\ Len(r.moves) \in Nat /\ GuardedUsers(r) \subseteq Users /\ Users \subseteq Accounts
      /\ \A u \in Users : balance[u] \in Int /\ reserved[u] \in Int /\ Opening(r, u) \in Int
      /\ r.moves = <<>> => Len(r.moves) = 0
  <2>1. /\ Len(r.moves) \in Nat /\ r.budget \in Nat /\ GuardedUsers(r) \subseteq Users
        /\ Users \subseteq Accounts
    BY RequestTyped, GuardedAreLocked, AccountsAssumption
  <2>2. \A u \in Users : balance[u] \in Int /\ reserved[u] \in Int
    BY <1>1, <2>1 DEF TablesTyped
  <2> QED BY <2>1, <2>2 DEF Opening
<1>6. /\ \A a \in Accounts : Atomic!Given(r, a, 0) = 0
      /\ \A u \in Users : Dropped(r, u, 0) = 0
  BY <1>5, GivenUnrolls, DroppedUnrolls
<1>7. \A u \in GuardedUsers(r) : balance[u] >= reserved[u] + Opening(r, u)
  <2>1. \A u \in GuardedUsers(r) : ~ (balance[u] < reservedNow[u])
    BY <1>2, <1>3
  <2> TAKE u \in GuardedUsers(r)
  <2>2. reservedNow[u] = reserved[u] + Opening(r, u)
    BY <1>3, <1>5
  <2>3. u \in Users /\ balance[u] \in Int /\ reserved[u] + Opening(r, u) \in Int
    BY <1>5
  <2> HIDE DEF reservedNow
  <2> QED BY <2>1, <2>2, <2>3
<1>8. at'[s] - 1 = 0 /\ at'[s] \in 1..Len(r.moves) + 1
  BY <1>4, <1>5
<1>9. pc'[s] # "walk" => at'[s] = Len(r.moves) + 1
  BY <1>4, <1>5
<1>10. ASSUME NEW i \in 0..at'[s] - 1, NEW u \in GuardedUsers(r)
       PROVE  floor'[s].balance[u] + Atomic!Given(r, u, i)
                >= floor'[s].reserved[u] - Dropped(r, u, i)
  <2>1. i = 0 /\ u \in Users /\ u \in Accounts
    BY <1>5, <1>8
  <2>2. floor'[s].balance[u] = balance[u] /\ floor'[s].reserved[u] = reserved[u] + Opening(r, u)
    BY <1>3, <1>4, <2>1
  <2>3. balance[u] \in Int /\ reserved[u] + Opening(r, u) \in Int
    BY <1>5, <2>1
  <2> QED BY <1>6, <1>7, <2>1, <2>2, <2>3
<1>11. GuardedUsers(req[s])' = GuardedUsers(r)
  BY <1>4
<1> QED BY <1>4, <1>6, <1>8, <1>9, <1>10, <1>11 DEF Walked

\* One movement more.
LEMMA WalkWalked ==
  ASSUME IInv, NEW s \in Sessions, Walked(s), Walk(s), ~ \E result : Refuse(s, result)
  PROVE  Walked(s)'
<1>1. ControlTyped /\ SessionInv(s) /\ pc[s] = "walk" /\ SessionInv(s)'
  BY WalkKeeps, TypesSplit DEF IInv, Walk
<1>2. PICK r \in Requests : r = req[s]
  BY <1>1 DEF ControlTyped
<1>3. PICK k \in 1..Len(r.moves) : k = at[s]
  BY <1>1, <1>2 DEF SessionInv, WellFormed
<1>4. PICK m : m = r.moves[k]
  OBVIOUS
<1>5. /\ delta' = [delta EXCEPT ![s] = [a \in Accounts |-> delta[s][a] + m.legs[a]]]
      /\ dropped' = [dropped EXCEPT ![s] = [u \in Users |-> dropped[s][u] + DropFrom(m, u)]]
      /\ at' = [at EXCEPT ![s] = @ + 1]
      /\ GoTo(s, IF k = Len(r.moves) THEN "stamp" ELSE "walk")
      /\ UNCHANGED <<req, floor>>
  BY <1>2, <1>3, <1>4, Zenon DEF Walk
<1>6. /\ req'[s] = r /\ at'[s] = k + 1 /\ floor'[s] = floor[s]
      /\ \A a \in Accounts : delta'[s][a] = delta[s][a] + m.legs[a]
      /\ \A u \in Users : dropped'[s][u] = dropped[s][u] + DropFrom(m, u)
      /\ pc'[s] = IF k = Len(r.moves) THEN "stamp" ELSE "walk"
  BY <1>1, <1>2, <1>3, <1>5 DEF GoTo, ControlTyped
<1>7. /\ Len(r.moves) \in Nat /\ k - 1 \in 0..Len(r.moves) /\ k - 1 < Len(r.moves)
      /\ (k - 1) + 1 = k /\ k \in 0..Len(r.moves)
      /\ GuardedUsers(r) \subseteq Users /\ Users \subseteq Accounts
  BY RequestTyped, GuardedAreLocked, AccountsAssumption
<1>8. /\ \A a \in Accounts : delta[s][a] = Atomic!Given(r, a, k - 1)
      /\ \A u \in Users : dropped[s][u] = Dropped(r, u, k - 1)
      /\ \A i \in 0..k - 1, u \in GuardedUsers(r) :
           floor[s].balance[u] + Atomic!Given(r, u, i) >= floor[s].reserved[u] - Dropped(r, u, i)
  BY <1>1, <1>2, <1>3 DEF Walked, Cancels
<1>9. /\ \A a \in Accounts : delta'[s][a] = Atomic!Given(r, a, k)
      /\ \A u \in Users : dropped'[s][u] = Dropped(r, u, k)
  <2>1. \A a \in Accounts : Atomic!Given(r, a, k) = Atomic!Given(r, a, k - 1) + m.legs[a]
    BY <1>4, <1>7, GivenUnrolls
  <2>2. \A u \in Users : Dropped(r, u, k) = Dropped(r, u, k - 1) + DropFrom(m, u)
    BY <1>4, <1>7, DroppedUnrolls
  <2> QED BY <1>6, <1>8, <2>1, <2>2
<1>10. ASSUME NEW u \in GuardedUsers(r)
       PROVE  floor[s].balance[u] + Atomic!Given(r, u, k) >= floor[s].reserved[u] - Dropped(r, u, k)
  <2>1. Floored(s)' /\ pc'[s] \in {"walk", "stamp", "insert", "commit"} /\ ~Cancels(s)'
    BY <1>1, <1>6 DEF SessionInv, Cancels
  <2>2. GuardedUsers(req[s])' = GuardedUsers(r)
    BY <1>6
  <2>3. floor'[s].balance[u] + delta'[s][u] >= floor'[s].reserved[u] - dropped'[s][u]
    BY <2>1, <2>2 DEF Floored
  <2> QED BY <1>6, <1>7, <1>9, <2>3
<1>11. ASSUME NEW i \in 0..at'[s] - 1, NEW u \in GuardedUsers(r)
       PROVE  floor'[s].balance[u] + Atomic!Given(r, u, i)
                >= floor'[s].reserved[u] - Dropped(r, u, i)
  <2>1. i \in 0..k - 1 \/ i = k
    BY <1>6, <1>7
  <2> QED BY <1>6, <1>8, <1>10, <2>1
<1>12. /\ at'[s] \in 1..Len(r.moves) + 1 /\ at'[s] - 1 = k
       /\ pc'[s] # "walk" => at'[s] = Len(r.moves) + 1
  BY <1>6, <1>7
<1>13. GuardedUsers(req[s])' = GuardedUsers(r)
  BY <1>6
<1> QED BY <1>6, <1>9, <1>11, <1>12, <1>13 DEF Walked

\* A commit leaves what its movements add up to, and every one of them on the
\* way leaves every user covered.
LEMMA CommitAdds ==
  ASSUME IInv, PostInv, NEW s \in Sessions, Commit(s), NEW r, r = req[s], NEW N, N = Len(r.moves)
  PROVE  /\ Sound(r) /\ N \in Nat
         /\ balance' = Atomic!BalanceAfter(r, N)
         /\ hold' = Atomic!LeftAfter(r, N)
         /\ \A i \in 0..N : Atomic!Covered(Atomic!BalanceAfter(r, i), Atomic!LeftAfter(r, i))
         /\ \A u \in Users : reserved'[u] = Atomic!ReservedBy(Atomic!LeftAfter(r, N), u)
<1>1. /\ TablesTyped /\ ControlTyped /\ SessionInv(s) /\ pc[s] = "commit" /\ r.cancels = NoOrder
      /\ FundsCoverReservations /\ Backed /\ Walked(s)
  BY TypesSplit DEF IInv, PostInv, Commit
<1>2. ~Cancels(s)
  BY <1>1 DEF Cancels
<1>3. /\ r \in Requests /\ r.market # NoMarket => PlanHolds(r)
      /\ r.moves # <<>> => ~MalformedBatch(r)
  <2>1. r \in Requests /\ (r.market # NoMarket => PlanHolds(r))
    BY <1>1, PlannedHolds
  <2>2. r.moves # <<>> => ~MalformedBatch(r)
    BY <1>1, <1>2 DEF SessionInv, WellFormed, Locked
  <2> QED BY <2>1, <2>2
<1>4. /\ r \in Requests /\ Sound(r) /\ N \in Nat /\ Users \subseteq Accounts
      /\ GuardedUsers(r) \subseteq Users /\ N \in 0..N
  BY <1>1, <1>3, PlannedHolds, RequestTyped, AccountsAssumption, GuardedAreLocked DEF Sound
<1>5. /\ \A a \in Accounts : delta[s][a] = Atomic!Given(r, a, N)
      /\ \A u \in Users : dropped[s][u] = Dropped(r, u, N)
      /\ \A i \in 0..N, u \in GuardedUsers(r) :
           floor[s].balance[u] + Atomic!Given(r, u, i) >= floor[s].reserved[u] - Dropped(r, u, i)
  <2>1. at[s] - 1 = N
    BY <1>1, <1>2, <1>4 DEF Walked
  <2> QED BY <1>1, <1>2, <2>1 DEF Walked
<1>6. balance' = Atomic!BalanceAfter(r, N)
  <2>1. balance' = [a \in Accounts |-> balance[a] + delta[s][a]]
    BY DEF Commit
  <2> QED BY <1>5, <2>1 DEF Atomic!BalanceAfter
<1>7. hold' = Atomic!LeftAfter(r, N)
  <2>1. hold' = [o \in Orders |-> hold[o] + OpeningOn(r, o)
                   - (IF o \in FilledOrders(r) THEN DropOn(r, o) ELSE 0)]
    BY DEF Commit
  <2>2. \A o \in Orders : Atomic!Taken(r, o, N) = IF o \in FilledOrders(r) THEN DropOn(r, o) ELSE 0
    BY <1>4, TakenOnce
  <2> QED BY <2>1, <2>2 DEF Atomic!LeftAfter, OpeningOn
<1>8. ASSUME NEW u \in Users, NEW i \in 0..N
      PROVE  /\ Atomic!ReservedBy(Atomic!LeftAfter(r, i), u) = reserved[u] + Opening(r, u) - Dropped(r, u, i)
             /\ Dropped(r, u, i) \in Int /\ Atomic!Given(r, u, i) \in Int
             /\ Atomic!BalanceAfter(r, i)[u] = balance[u] + Atomic!Given(r, u, i)
             /\ reserved[u] \in Int /\ balance[u] \in Int /\ Opening(r, u) \in Nat
  <2>1. hold \in [Orders -> Nat]
    BY <1>1 DEF TablesTyped
  <2>2. Atomic!ReservedBy(Atomic!LeftAfter(r, i), u)
          = Atomic!ReservedBy(hold, u) + Opening(r, u) - Dropped(r, u, i)
    BY <1>4, <2>1, LeftReserves
  <2>3. Atomic!ReservedBy(hold, u) = reserved[u]
    BY <1>1 DEF Backed
  <2>4. Dropped(r, u, i) \in Int /\ Atomic!Given(r, u, i) \in Int
    BY <1>4, DroppedUnrolls, GivenUnrolls
  <2>5. reserved[u] \in Int /\ balance[u] \in Int
    BY <1>1, <1>4 DEF TablesTyped
  <2>6. Atomic!BalanceAfter(r, i)[u] = balance[u] + Atomic!Given(r, u, i)
    BY <1>4 DEF Atomic!BalanceAfter
  <2>7. Opening(r, u) \in Nat
    BY <1>4, RequestTyped DEF Opening
  <2> QED BY <2>2, <2>3, <2>4, <2>5, <2>6, <2>7
<1>9. ASSUME NEW u \in Users, NEW i \in 0..N
      PROVE  Atomic!BalanceAfter(r, i)[u] >= Atomic!ReservedBy(Atomic!LeftAfter(r, i), u)
  <2>1. CASE u \in GuardedUsers(r)
    <3>1. floor[s].balance[u] = balance[u] /\ reserved[u] + Opening(r, u) <= floor[s].reserved[u]
      BY <1>1, <1>2, <2>1 DEF SessionInv, Floored
    <3>2. floor[s].balance[u] + Atomic!Given(r, u, i) >= floor[s].reserved[u] - Dropped(r, u, i)
      BY <1>5, <2>1
    <3>3. floor[s].reserved[u] \in Int
      BY <1>1 DEF ControlTyped
    <3>4. balance[u] + Atomic!Given(r, u, i) >= reserved[u] + Opening(r, u) - Dropped(r, u, i)
      <4>1. PICK x \in Int, y \in Int : x = Atomic!Given(r, u, i) /\ y = Dropped(r, u, i)
        BY <1>8
      <4>2. reserved[u] \in Int /\ balance[u] \in Int /\ Opening(r, u) \in Int
        BY <1>8
      <4>3. balance[u] + x >= floor[s].reserved[u] - y
        BY <3>1, <3>2, <4>1
      <4>4. balance[u] + x >= reserved[u] + Opening(r, u) - y
        BY <3>1, <3>3, <4>1, <4>2, <4>3
      <4> QED BY <4>1, <4>4
    <3> QED BY <1>8, <3>4
  <2>2. CASE u \notin GuardedUsers(r)
    <3>1. Opening(r, u) = 0
      BY <1>3, <1>4, <2>2, OpeningIsGuarded
    <3>2. Atomic!Given(r, u, i) >= 0 /\ Dropped(r, u, i) = 0
      <4>1. u \notin DebitedUsers(r)
        BY <2>2 DEF GuardedUsers
      <4> QED BY <1>4, <4>1, OnlyGains
    <3>3. balance[u] >= reserved[u]
      BY <1>1 DEF FundsCoverReservations
    <3> QED BY <1>8, <3>1, <3>2, <3>3
  <2> QED BY <2>1, <2>2
<1>10. \A u \in Users : reserved'[u] = Atomic!ReservedBy(Atomic!LeftAfter(r, N), u)
  <2>1. reserved' = [u \in Users |-> reserved[u] + Opening(r, u) - dropped[s][u]]
    BY DEF Commit
  <2> QED BY <1>4, <1>5, <1>8, <2>1
<1> QED BY <1>4, <1>6, <1>7, <1>9, <1>10 DEF Atomic!Covered

\* A cancellation takes off its owner's reservation what the order held.
LEMMA CancelBacked ==
  ASSUME IInv, Backed, NEW s \in Sessions, CommitCancel(s)
  PROVE  Backed'
<1>1. TablesTyped /\ pc[s] = "commit"
  BY TypesSplit DEF IInv, CommitCancel
<1>2. PICK c \in Orders : c = req[s].cancels
  BY <1>1, PlannedHolds, RequestTyped DEF CommitCancel
<1>3. /\ hold' = [hold EXCEPT ![c] = 0]
      /\ reserved' = [reserved EXCEPT ![OwnerOf[c]] = @ - hold[c]]
  BY <1>2 DEF CommitCancel
<1>4. ASSUME NEW u \in Users PROVE reserved'[u] = Atomic!ReservedBy(hold', u)
  <2> DEFINE O == {o \in Orders : OwnerOf[o] = u}
  <2>1. IsFiniteSet(O)
    BY OrdersAssumption, FS_Subset
  <2>2. \A left : Atomic!ReservedBy(left, u) = SumFunctionOnSet(left, O)
    BY SameSum DEF Atomic!ReservedBy
  <2>3. PICK f, g : f = hold /\ g = hold'
    OBVIOUS
  <2>4. reserved[u] = SumFunctionOnSet(f, O)
    BY <2>2, <2>3 DEF Backed
  <2>5. \A o \in O : f[o] \in Int /\ g[o] \in Int
    BY <1>1, <1>3, <2>3 DEF TablesTyped
  <2>6. CASE u = OwnerOf[c]
    <3>1. c \in O /\ g[c] = f[c] - f[c] /\ f[c] \in Int /\ \A o \in O \ {c} : f[o] = g[o]
      BY <1>1, <1>3, <2>3, <2>6 DEF TablesTyped
    <3>2. SumFunctionOnSet(g, O) = SumFunctionOnSet(f, O) - f[c]
      <4> HIDE DEF O
      <4> QED BY <2>1, <2>5, <3>1, SumLowered
    <3>3. reserved'[u] = reserved[u] - f[c]
      BY <1>1, <1>3, <2>3, <2>6 DEF TablesTyped
    <3> QED BY <2>2, <2>3, <2>4, <3>2, <3>3
  <2>7. CASE u # OwnerOf[c]
    <3>1. \A o \in O : f[o] = g[o]
      BY <1>1, <1>3, <2>3, <2>7 DEF TablesTyped
    <3>2. SumFunctionOnSet(f, O) = SumFunctionOnSet(g, O)
      <4> HIDE DEF O
      <4> QED BY <2>1, <3>1, SumSame
    <3>3. reserved'[u] = reserved[u]
      BY <1>1, <1>3, <2>7 DEF TablesTyped
    <3> QED BY <2>2, <2>3, <2>4, <3>2, <3>3
  <2> QED BY <2>6, <2>7
<1> QED BY <1>4 DEF Backed

LEMMA PostNext == IInv /\ PostInv /\ [Next]_vars => PostInv'
<1>1. SUFFICES ASSUME IInv, PostInv, [Next]_vars PROVE PostInv'
  OBVIOUS
<1>2. CASE UNCHANGED vars
  <2>1. \A s \in Sessions : Still(s)
    BY <1>2 DEF vars, locks, walk, Still
  <2> QED BY <1>1, <1>2, <2>1, StillWalked DEF vars, tables, PostInv, Backed
<1>3. ASSUME NEW s \in Sessions, \A x \in Sessions \ {s} : Still(x), Walked(s)', Backed'
      PROVE  PostInv'
  BY <1>1, <1>3, StillWalked DEF PostInv
<1>4. ASSUME UNCHANGED tables PROVE Backed'
  BY <1>1, <1>4 DEF PostInv, Backed, tables
<1>5. ASSUME NEW s \in Sessions, NEW result, Finish(s, result)
      PROVE  (\A x \in Sessions \ {s} : Still(x)) /\ Walked(s)'
  <2>1. ControlTyped
    BY <1>1, TypesSplit DEF IInv
  <2>2. pc'[s] = "idle"
    BY <1>5, <2>1 DEF Finish, ControlTyped
  <2> QED BY <1>1, <1>5, <2>2, Finished DEF Walked
<1>6. ASSUME NEW s \in Sessions, NEW result, Refuse(s, result)
      PROVE  PostInv'
  BY <1>3, <1>4, <1>5, <1>6 DEF Refuse
<1>7. ASSUME NEW s \in Sessions, NEW r \in Requests, Begin(s, r)
      PROVE  PostInv'
  <2>1. ControlTyped
    BY <1>1, TypesSplit DEF IInv
  <2>2. /\ UNCHANGED tables /\ (\A x \in Sessions \ {s} : Still(x))
        /\ pc'[s] \in {"batch", "book"}
    BY <1>7, <2>1 DEF Begin, GoTo, ControlTyped, Still, tables, locks, walk
  <2>3. Walked(s)'
    BY <2>2 DEF Walked
  <2> QED BY <1>3, <1>4, <2>2, <2>3
<1>8. ASSUME NEW s \in Sessions, Step(s)
      PROVE  PostInv'
  <2>1. CASE \E result : Refuse(s, result)
    BY <1>6, <2>1
  <2>2. CASE Commit(s)
    <3>1. Finish(s, "posted")
      BY <2>2 DEF Commit
    <3>2. Backed'
      <4>1. PICK r, N : r = req[s] /\ N = Len(r.moves)
        OBVIOUS
      <4>2. /\ hold' = Atomic!LeftAfter(r, N)
            /\ \A u \in Users : reserved'[u] = Atomic!ReservedBy(Atomic!LeftAfter(r, N), u)
        BY <1>1, <2>2, <4>1, CommitAdds
      <4>3. \A u \in Users : reserved'[u] = Atomic!ReservedBy(hold', u)
        BY <4>2
      <4> QED BY <4>3 DEF Backed
    <3> QED BY <1>3, <1>5, <3>1, <3>2
  <2>3. CASE CommitCancel(s)
    <3>1. Finish(s, "posted")
      BY <2>3 DEF CommitCancel
    <3>2. Backed'
      BY <1>1, <2>3, CancelBacked DEF PostInv
    <3> QED BY <1>3, <1>5, <3>1, <3>2
  <2> DEFINE Goes == ~ (\E result : Refuse(s, result)) /\ Step(s) /\ ~Commit(s) /\ ~CommitCancel(s)
  <2>4. ASSUME Goes PROVE PostInv'
    <3>1. ControlTyped /\ SessionInv(s) /\ Walked(s)
      BY <1>1, TypesSplit DEF IInv, PostInv
    <3>2. UNCHANGED <<tables, req>> /\ \A x \in Sessions \ {s} : Still(x)
      <4>1. CASE LockBook(s)
        BY <3>1, <4>1, NobodyAssumption DEF LockBook, GoTo, Still, ControlTyped, walk
      <4>2. CASE LockAccount(s)
        BY <3>1, <4>2, NobodyAssumption DEF LockAccount, GoTo, Still, ControlTyped, walk
      <4>3. CASE Plan(s) \/ CheckBatch(s)
        BY <2>4, <3>1, <4>3 DEF Plan, CheckBatch, GoTo, Still, ControlTyped, locks, walk
      <4>4. CASE LookUp(s) \/ Insert(s)
        BY <2>4, <3>1, <4>4 DEF LookUp, Insert, ReplayBatch, GoTo, Still, ControlTyped, locks, walk
      <4>5. CASE ReadFloors(s)
        BY <2>4, <3>1, <4>5 DEF ReadFloors, GoTo, Still, ControlTyped, locks
      <4>6. CASE Walk(s)
        BY <2>4, <3>1, <4>6 DEF Walk, GoTo, Still, ControlTyped, locks
      <4>7. CASE Stamp(s)
        BY <3>1, <4>7 DEF Stamp, GoTo, Still, ControlTyped, locks
      <4> QED BY <2>4, <4>1, <4>2, <4>3, <4>4, <4>5, <4>6, <4>7 DEF Step
    <3>3. Walked(s)'
      <4>1. CASE LockBook(s) \/ CheckBatch(s) \/ LockAccount(s) \/ LookUp(s)
        <5>1. pc'[s] \in {"plan", "locks", "lookup", "floors"}
          BY <2>4, <3>1, <4>1 DEF LockBook, CheckBatch, LockAccount, LookUp, ReplayBatch, GoTo,
               ControlTyped
        <5> QED BY <5>1 DEF Walked
      <4>2. CASE Plan(s)
        <5>1. \/ pc'[s] = "commit" /\ req[s].cancels # NoOrder
              \/ pc'[s] \in {"locks", "batch"}
          BY <2>4, <3>1, <4>2 DEF Plan, GoTo, ControlTyped
        <5> QED BY <3>2, <5>1 DEF Walked, Cancels
      <4>3. CASE ReadFloors(s)
        BY <1>1, <2>4, <4>3, ReadFloorsWalked
      <4>4. CASE Walk(s)
        BY <1>1, <2>4, <3>1, <4>4, WalkWalked
      <4>5. CASE Stamp(s) \/ Insert(s)
        <5>1. /\ pc[s] \in {"stamp", "insert"} /\ pc'[s] \in {"insert", "commit"}
              /\ UNCHANGED <<req, at, delta, dropped, floor>>
          BY <2>4, <3>1, <4>5 DEF Stamp, Insert, ReplayBatch, GoTo, ControlTyped, walk
        <5>2. /\ ~Cancels(s)
              /\ GuardedUsers(req[s])' = GuardedUsers(req[s])
          BY <5>1 DEF Cancels
        <5> QED BY <3>1, <5>1, <5>2 DEF Walked
      <4> QED BY <2>4, <4>1, <4>2, <4>3, <4>4, <4>5 DEF Step
    <3> QED BY <1>3, <1>4, <3>2, <3>3
  <2> QED BY <1>8, <2>1, <2>2, <2>3, <2>4
<1> QED BY <1>1, <1>2, <1>6, <1>7, <1>8 DEF Next, Abort

\* A commit is its batch, all of it and for the first time; one that neither
\* moves nor opens anything is nothing.
LEMMA CommitPosts ==
  ASSUME IInv, PostInv, NEW s \in Sessions, Commit(s)
  PROVE  Atomic!Next \/ UNCHANGED Atomic!vars
<1>1. PICK r, N : r = req[s] /\ N = Len(r.moves)
  OBVIOUS
<1>2. /\ Sound(r) /\ N \in Nat
      /\ balance' = Atomic!BalanceAfter(r, N)
      /\ hold' = Atomic!LeftAfter(r, N)
      /\ \A i \in 0..N : Atomic!Covered(Atomic!BalanceAfter(r, i), Atomic!LeftAfter(r, i))
  BY <1>1, CommitAdds
<1>3. /\ TablesTyped /\ ControlTyped /\ SessionInv(s) /\ pc[s] = "commit" /\ r.cancels = NoOrder
      /\ r \in Requests
  BY <1>1, <1>2, TypesSplit DEF IInv, Commit, Sound
<1>4. /\ ledger' = ledger \cup TransactionsOf(s)
      /\ opened' = opened \cup ({r.opens} \ {NoOrder})
  BY <1>1 DEF Commit
<1>5. Posts(s)
  BY <1>1, <1>3 DEF Posts
<1>6. r.opens \notin opened
  <2>1. CASE r.market # NoMarket
    <3>1. PlanHolds(r)
      BY <1>2, <2>1 DEF Sound
    <3> QED BY <1>3, <3>1, OrdersAssumption DEF PlanHolds, TablesTyped
  <2>2. CASE r.market = NoMarket
    BY <1>3, <2>2, RequestsAssumption, OrdersAssumption DEF TablesTyped
  <2> QED BY <2>1, <2>2
<1>7. /\ DOMAIN r.moves = 1..N
      /\ \A i \in 1..N : r.moves[i].key \in KeysOf(r)
  BY <1>1, <1>3, RequestTyped DEF KeysOf
<1>8. \A t \in TransactionsOf(s) : \E j \in 1..N : t.key = r.moves[j].key /\ t.legs = r.moves[j].legs
  BY <1>1, <1>7 DEF TransactionsOf
<1>9. \A t \in ledger, n \in TransactionsOf(s) : t.key # n.key
  BY <1>1, <1>3, <1>5, <1>7, <1>8 DEF SessionInv, Claimed
<1>10. ledger' \ ledger = TransactionsOf(s)
  BY <1>4, <1>9
<1>11. ASSUME NEW i \in 1..N
       PROVE  \E t \in TransactionsOf(s) : t.key = r.moves[i].key
  <2> DEFINE t == [key |-> r.moves[i].key, legs |-> r.moves[i].legs, stamp |-> stamp[s] + i - 1]
  <2>1. t \in TransactionsOf(s)
    BY <1>1, <1>7 DEF TransactionsOf
  <2>2. t.key = r.moves[i].key
    OBVIOUS
  <2> QED BY <2>1, <2>2
<1>12. {t.key : t \in TransactionsOf(s)} = {r.moves[i].key : i \in 1..N}
  BY <1>8, <1>11
<1>13. ASSUME NEW t \in TransactionsOf(s), NEW i \in 1..N, r.moves[i].key = t.key
       PROVE  r.moves[i].legs = t.legs
  <2>1. PICK j \in 1..N : t.key = r.moves[j].key /\ t.legs = r.moves[j].legs
    BY <1>8
  <2>2. r.moves # <<>>
    BY <1>1, <1>2
  <2>3. i = j
    BY <1>2, <1>7, <1>13, <2>1, <2>2 DEF Sound, MalformedBatch
  <2> QED BY <2>1, <2>3
<1>14. CASE N = 0 /\ r.opens = NoOrder
  <2>1. TransactionsOf(s) = {}
    BY <1>8, <1>14
  <2>2. ledger' = ledger /\ opened' = opened
    BY <1>4, <1>14, <2>1
  <2>3. balance' = balance
    <3>1. \A a \in Accounts : balance[a] + Atomic!Given(r, a, 0) = balance[a]
      BY <1>1, <1>3, <1>14, GivenUnrolls DEF TablesTyped
    <3> QED BY <1>2, <1>3, <1>14, <3>1 DEF Atomic!BalanceAfter, TablesTyped
  <2>4. hold' = hold
    <3>1. \A o \in Orders : Atomic!Taken(r, o, 0) = 0 /\ r.opens # o
      BY <1>1, <1>3, <1>14, TakenUnrolls, OrdersAssumption
    <3>2. \A o \in Orders : hold[o] + (IF r.opens = o THEN r.budget ELSE 0) - Atomic!Taken(r, o, 0) = hold[o]
      BY <1>3, <3>1 DEF TablesTyped
    <3> QED BY <1>2, <1>3, <1>14, <3>2 DEF Atomic!LeftAfter, TablesTyped
  <2> QED BY <2>2, <2>3, <2>4 DEF Atomic!vars
<1>15. CASE N # 0 \/ r.opens # NoOrder
  <2>1. Atomic!Post(r)
    <3>1. ASSUME NEW old \in ledger
          PROVE  old \in ledger' /\ \A t \in ledger' \ ledger : old.key # t.key
      BY <1>4, <1>9, <1>10
    <3>2. {t.key : t \in ledger' \ ledger} = {r.moves[i].key : i \in 1..N}
      BY <1>10, <1>12
    <3>3. \A t \in ledger' \ ledger : \A i \in 1..N : r.moves[i].key = t.key => r.moves[i].legs = t.legs
      BY <1>10, <1>13
    <3> QED BY <1>1, <1>2, <1>3, <1>4, <1>6, <3>1, <3>2, <3>3 DEF Atomic!Post
  <2>2. <<opened, hold, ledger>>' # <<opened, hold, ledger>>
    <3>1. CASE N # 0
      <4>1. 1 \in 1..N
        BY <1>2, <3>1
      <4>2. ledger' # ledger
        BY <1>10, <1>11, <4>1
      <4> QED BY <4>2
    <3>2. CASE r.opens # NoOrder
      BY <1>4, <1>6, <3>2
    <3> QED BY <1>15, <3>1, <3>2
  <2> QED BY <1>3, <2>1, <2>2 DEF Atomic!Next
<1> QED BY <1>2, <1>14, <1>15

LEMMA StepMaps == IInv /\ PostInv /\ [Next]_vars => [Atomic!Next]_(Atomic!vars)
<1>1. SUFFICES ASSUME IInv, PostInv, [Next]_vars PROVE Atomic!Next \/ UNCHANGED Atomic!vars
  OBVIOUS
<1>2. ASSUME UNCHANGED tables PROVE UNCHANGED Atomic!vars
  BY <1>2 DEF tables, Atomic!vars
<1>3. CASE UNCHANGED vars
  BY <1>2, <1>3 DEF vars
<1>4. ASSUME NEW s \in Sessions, Commit(s)
      PROVE  Atomic!Next \/ UNCHANGED Atomic!vars
  BY <1>1, <1>4, CommitPosts
<1>5. ASSUME NEW s \in Sessions, CommitCancel(s)
      PROVE  Atomic!Next
  <2>1. TablesTyped /\ pc[s] = "commit" /\ req[s].cancels # NoOrder
    BY <1>1, <1>5, TypesSplit DEF IInv, CommitCancel
  <2>2. /\ req[s] \in Requests /\ req[s].cancels \in Orders /\ hold[req[s].cancels] > 0
    BY <1>1, <2>1, PlannedHolds, RequestTyped DEF PlanHolds
  <2>3. PICK c \in Orders : c = req[s].cancels
    BY <2>2
  <2>4. hold' = [hold EXCEPT ![c] = 0] /\ UNCHANGED <<balance, opened, ledger>>
    BY <1>5, <2>3 DEF CommitCancel
  <2>5. Atomic!Cancel(req[s])
    BY <2>1, <2>2, <2>3, <2>4 DEF Atomic!Cancel
  <2>6. hold'[c] = 0 /\ hold[c] # 0
    BY <2>1, <2>2, <2>3, <2>4 DEF TablesTyped
  <2>7. <<opened, hold, ledger>>' # <<opened, hold, ledger>>
    BY <2>6
  <2> QED BY <2>2, <2>5, <2>7 DEF Atomic!Next
<1>6. ASSUME NEW s \in Sessions, Step(s) \/ Abort(s) \/ (\E r \in Requests : Begin(s, r)),
             ~Commit(s), ~CommitCancel(s)
      PROVE  UNCHANGED tables
  BY <1>6, Zenon DEF Step, Abort, Begin, LockBook, Plan, CheckBatch, LockAccount, LookUp,
     ReplayBatch, ReadFloors, Walk, Stamp, Insert, Refuse
<1> QED BY <1>1, <1>2, <1>3, <1>4, <1>5, <1>6 DEF Next

\* The sessions' statements, locks, checks, retries and aborts implement a
\* ledger whose batches happen at one instant: each commit is one such batch,
\* covered at each of its movements, and nothing else touches the tables.
THEOREM PostingIsAtomic == Spec => PostsAtomically
<1>1. Init => Atomic!Init
  BY DEF Init, Atomic!Init
<1>2. Spec => []PostInv
  BY PostInit, PostNext, Inductive, PTL DEF Spec
<1> QED BY <1>1, <1>2, StepMaps, Inductive, PTL DEF Spec, PostsAtomically, Atomic!Spec
============================================================================
