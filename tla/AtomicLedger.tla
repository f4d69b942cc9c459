---------------------------- MODULE AtomicLedger ----------------------------
(***************************************************************************)
(* What the write path promises, with no session, lock or statement in it:  *)
(* a batch of movements happens at one instant or not at all, each of its   *)
(* keys for the first time, and every user stays able to pay for every      *)
(* order they have resting, at each movement of the batch in turn.          *)
(***************************************************************************)
EXTENDS Integers, Sequences, Functions

CONSTANTS Accounts, Users, Orders, OwnerOf, Requests, NoOrder

VARIABLES balance, hold, opened, ledger

vars == <<balance, hold, opened, ledger>>

\* A reservation is derived from the order rows, never stored.
ReservedBy(left, u) == SumFunctionOnSet(left, {o \in Orders : OwnerOf[o] = u})

Covered(funds, left) == \A u \in Users : funds[u] >= ReservedBy(left, u)

\* What the first n movements of a batch do to an account, and what they take
\* off what an order holds.
Given(r, a, n) == SumFunctionOnSet([i \in 1..n |-> r.moves[i].legs[a]], 1..n)

Taken(r, o, n) ==
  SumFunctionOnSet([i \in 1..n |-> IF r.moves[i].order = o THEN r.moves[i].drop ELSE 0], 1..n)

\* The balances and orders after the first n movements of a batch.
BalanceAfter(r, n) == [a \in Accounts |-> balance[a] + Given(r, a, n)]

LeftAfter(r, n) ==
  [o \in Orders |-> hold[o] + (IF r.opens = o THEN r.budget ELSE 0) - Taken(r, o, n)]

Init ==
  /\ balance = [a \in Accounts |-> 0]
  /\ hold = [o \in Orders |-> 0]
  /\ opened = {}
  /\ ledger = {}

\* A whole batch, or an order that only rests (a batch of no movements).
Post(r) ==
  LET n == Len(r.moves)
      posted == ledger' \ ledger
  IN  /\ r.cancels = NoOrder
      /\ r.opens \notin opened
      /\ opened' = opened \cup ({r.opens} \ {NoOrder})
      /\ {t.key : t \in posted} = {r.moves[i].key : i \in 1..n}
      /\ \A t \in posted : \A i \in 1..n : r.moves[i].key = t.key => r.moves[i].legs = t.legs
      /\ \A old \in ledger : old \in ledger' /\ \A t \in posted : old.key # t.key
      /\ balance' = BalanceAfter(r, n)
      /\ hold' = LeftAfter(r, n)
      /\ \A i \in 0..n : Covered(BalanceAfter(r, i), LeftAfter(r, i))

Cancel(r) ==
  /\ r.cancels # NoOrder
  /\ hold[r.cancels] > 0
  /\ hold' = [hold EXCEPT ![r.cancels] = 0]
  /\ UNCHANGED <<balance, opened, ledger>>

Next == <<opened, hold, ledger>>' # <<opened, hold, ledger>> /\ \E r \in Requests : Post(r) \/ Cancel(r)

Spec == Init /\ [][Next]_vars
=============================================================================
