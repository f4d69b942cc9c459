-------------------------------- MODULE Hub --------------------------------
(***************************************************************************)
(* realtime_service's subscriptions: who watches which market, and whose      *)
(* sockets are whose.  A hub is a record of four dictionaries; a dictionary   *)
(* is a function on the keys in use, and a set index never keeps an empty     *)
(* entry (_discard).                                                          *)
(***************************************************************************)
EXTENDS Naturals, FiniteSets

CONSTANT Ceiling   \* max_subscriptions_per_connection

ASSUME CeilingAssumption == Ceiling \in Nat \ {0}

Members(index, key) == IF key \in DOMAIN index THEN index[key] ELSE {}

\* index.setdefault(key, set()).add(value)
Put(index, key, value) ==
  [k \in DOMAIN index \cup {key} |->
     IF k = key THEN Members(index, key) \cup {value} ELSE index[k]]

\* Mutation: the last value goes and its emptied entry stays.
DiscardKeeping(index, key, value) ==
  [k \in DOMAIN index |-> IF k = key THEN index[k] \ {value} ELSE index[k]]

Discard(index, key, value) ==
  LET rest == Members(index, key) \ {value} IN
  [k \in IF rest = {} THEN DOMAIN index \ {key} ELSE DOMAIN index |->
     IF k = key THEN rest ELSE index[k]]

EmptyHub == [byMarket |-> <<>>, bySubscriber |-> <<>>, byUser |-> <<>>, userOf |-> <<>>]

IsSubscribed(hub, k, m) == m \in Members(hub.bySubscriber, k)

SubscriptionCount(hub, k) == Cardinality(Members(hub.bySubscriber, k))

\* A market already held is never refused; the ceiling counts markets.
TooManySubscriptions(hub, k, m) ==
  ~IsSubscribed(hub, k, m) /\ SubscriptionCount(hub, k) >= Ceiling

Subscribe(hub, k, m) ==
  [hub EXCEPT !.byMarket = Put(@, m, k), !.bySubscriber = Put(@, k, m)]

Unsubscribe(hub, k, m) ==
  [hub EXCEPT !.byMarket = Discard(@, m, k), !.bySubscriber = Discard(@, k, m)]

AttachUser(hub, k, u) ==
  [hub EXCEPT !.userOf = [x \in DOMAIN @ \cup {k} |-> IF x = k THEN u ELSE @[x]],
              !.byUser = Put(@, u, k)]

\* Unsubscribes from every market it watches, and detaches from its user.
Forget(hub, k) ==
  LET watched == Members(hub.bySubscriber, k) IN
  [byMarket |->
     [m \in {x \in DOMAIN hub.byMarket : x \in watched => hub.byMarket[x] # {k}} |->
        IF m \in watched THEN hub.byMarket[m] \ {k} ELSE hub.byMarket[m]],
   bySubscriber |-> [x \in DOMAIN hub.bySubscriber \ {k} |-> hub.bySubscriber[x]],
   byUser |-> IF k \in DOMAIN hub.userOf THEN Discard(hub.byUser, hub.userOf[k], k) ELSE hub.byUser,
   userOf |-> [x \in DOMAIN hub.userOf \ {k} |-> hub.userOf[x]]]

Watchers(hub, m) == Members(hub.byMarket, m)

SocketsOf(hub, u) == Members(hub.byUser, u)

=============================================================================
