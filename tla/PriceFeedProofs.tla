-------------------------- MODULE PriceFeedProofs --------------------------
(***************************************************************************)
(* Live prices, for any markets, pages, relays, sockets, queues and faults.  *)
(***************************************************************************)
EXTENDS PriceFeed, Sums

-----------------------------------------------------------------------------
(* Sequences a page builds *)

\* Unanswered's recursion, one step of it.
Left(ms, m, left, i) ==
  IF i = 0 THEN <<>> ELSE IF ms[i] = m THEN left[i - 1] ELSE Append(left[i - 1], ms[i])

Satisfies(ms, m, n, left) == left = [i \in 0..n |-> Left(ms, m, left, i)]

LEMMA LeftExists ==
  ASSUME NEW ms, NEW m, NEW n \in Nat
  PROVE  \E left : Satisfies(ms, m, n, left)
<1> DEFINE Bad == {i \in Nat : ~ \E left : Satisfies(ms, m, i, left)}
<1> SUFFICES ASSUME Bad # {} PROVE FALSE
  OBVIOUS
<1> HIDE DEF Bad
<1>0. Bad \in SUBSET Nat
  BY DEF Bad
<1>1. PICK i \in Bad : \A j \in Bad : i <= j
  BY <1>0, Least
<1>2. i \in Nat /\ ~ \E left : Satisfies(ms, m, i, left)
  BY <1>1 DEF Bad
<1>3. CASE i = 0
  <2> DEFINE f == [j \in 0..0 |-> <<>>]
  <2>1. Satisfies(ms, m, 0, f)
    BY DEF Satisfies, Left
  <2> QED BY <1>2, <1>3, <2>1
<1>4. CASE i # 0
  <2>1. i - 1 \in Nat /\ i - 1 \notin Bad
    BY <1>0, <1>1, <1>2, <1>4
  <2>2. PICK f : Satisfies(ms, m, i - 1, f)
    BY <2>1 DEF Bad
  <2> DEFINE g == [j \in 0..i |-> IF j = i THEN Left(ms, m, f, i) ELSE f[j]]
  <2>3. \A j \in 0..(i - 1) : f[j] = Left(ms, m, f, j)
    BY <2>2 DEF Satisfies
  <2>4. \A j \in 0..i : Left(ms, m, g, j) = Left(ms, m, f, j)
    <3> TAKE j \in 0..i
    <3>1. j # 0 => g[j - 1] = f[j - 1]
      BY <1>2
    <3> QED BY <3>1 DEF Left
  <2>5. Satisfies(ms, m, i, g)
    BY <2>3, <2>4, <1>2 DEF Satisfies
  <2> QED BY <1>2, <2>5
<1> QED BY <1>3, <1>4

LEMMA UnansweredType ==
  ASSUME NEW M, NEW ms \in Seq(M), NEW m
  PROVE  Unanswered(ms, m) \in Seq(M)
<1> DEFINE n == Len(ms)
           f == CHOOSE left : left = [i \in 0..n |-> Left(ms, m, left, i)]
<1> DEFINE Bad == {i \in 0..n : f[i] \notin Seq(M)}
<1>1. n \in Nat /\ Unanswered(ms, m) = f[n]
  BY DEF Unanswered, Left
<1>2. Satisfies(ms, m, n, f)
  BY <1>1, LeftExists DEF Satisfies
<1>3. \A i \in 0..n : f[i] = Left(ms, m, f, i)
  BY <1>2 DEF Satisfies
<1> HIDE DEF n, f
<1> SUFFICES ASSUME Bad # {} PROVE FALSE
  BY <1>1
<1>4. Bad \in SUBSET Nat
  BY <1>1
<1> HIDE DEF Bad
<1>5. PICK i \in Bad : \A j \in Bad : i <= j
  BY <1>4, Least
<1>6. i \in 0..n /\ f[i] \notin Seq(M)
  BY <1>5 DEF Bad
<1>7. f[i] = Left(ms, m, f, i)
  BY <1>3, <1>6
<1>8. i # 0
  <2>1. <<>> \in Seq(M)
    OBVIOUS
  <2> QED BY <1>6, <1>7, <2>1 DEF Left
<1>9. i - 1 \in 0..n /\ f[i - 1] \in Seq(M)
  BY <1>1, <1>5, <1>6, <1>8 DEF Bad
<1>10. ms[i] \in M
  BY <1>1, <1>6, <1>8 DEF n
<1>11. Append(f[i - 1], ms[i]) \in Seq(M)
  BY <1>9, <1>10
<1> QED BY <1>6, <1>7, <1>8, <1>9, <1>11 DEF Left

LEMMA ListedType ==
  ASSUME NEW S, IsFiniteSet(S)
  PROVE  SetToSeq(S) \in Seq(S) /\ Range(SetToSeq(S)) = S
<1> DEFINE n == Cardinality(S)  f == SetToSeq(S)
<1>1. n \in Nat /\ \E g : g \in [1..n -> S] /\ IsInjective(g)
  BY FS_CardinalityType DEF ExistsBijection, Bijection, Injection, IsInjective
<1>2. f \in [1..n -> S] /\ IsInjective(f)
  BY <1>1 DEF SetToSeq
<1> HIDE DEF f
<1>3. f \in Seq(S) /\ f \in Injection(1..n, S)
  BY <1>1, <1>2 DEF Injection, IsInjective
<1>4. IsFiniteSet(1..n) /\ Cardinality(1..n) = n
  BY <1>1, FS_Interval
<1>5. f \in Surjection(1..n, S)
  BY <1>3, <1>4, FS_Injection
<1>6. Range(f) = S
  BY <1>2, <1>5 DEF Range, Surjection
<1> QED BY <1>3, <1>6 DEF f

LEMMA OrdersFinite ==
  ASSUME NEW owners \in SUBSET Users, NEW m, NEW v
  PROVE  IsFiniteSet({Order(m, v, u) : u \in owners})
<1> DEFINE T == {Order(m, v, u) : u \in owners}  f == [u \in owners |-> Order(m, v, u)]
<1>1. IsFiniteSet(owners)
  BY FS_Subset, FeedAssumption
<1>2. f \in Surjection(owners, T)
  BY DEF Surjection
<1> QED BY <1>1, <1>2, FS_Surjection

LEMMA RangeAppend ==
  ASSUME NEW S, NEW s \in Seq(S), NEW e
  PROVE  Range(Append(s, e)) = Range(s) \cup {e}
<1>1. DOMAIN s = 1..Len(s) /\ Len(s) \in Nat /\ DOMAIN Append(s, e) = 1..(Len(s) + 1)
  OBVIOUS
<1>2. \A i \in 1..Len(s) : Append(s, e)[i] = s[i]
  BY <1>1
<1>3. Append(s, e)[Len(s) + 1] = e
  BY <1>1
<1> QED BY <1>1, <1>2, <1>3 DEF Range

LEMMA RangeHead ==
  ASSUME NEW S, NEW s \in Seq(S), s # <<>>
  PROVE  /\ Range(s) = Range(Tail(s)) \cup {Head(s)}
         /\ Len(s) = 1 => Range(Tail(s)) = {}
<1>1. DOMAIN s = 1..Len(s) /\ Len(s) \in Nat /\ Len(s) > 0 /\ DOMAIN Tail(s) = 1..(Len(s) - 1)
  OBVIOUS
<1>2. \A i \in 1..(Len(s) - 1) : Tail(s)[i] = s[i + 1]
  BY <1>1
<1>3. Head(s) = s[1]
  BY <1>1
<1>4. ASSUME NEW e \in Range(s) PROVE e \in Range(Tail(s)) \cup {Head(s)}
  <2>1. PICK i \in 1..Len(s) : e = s[i]
    BY <1>1 DEF Range
  <2>2. CASE i = 1
    BY <1>3, <2>1, <2>2
  <2>3. CASE i # 1
    <3>1. i - 1 \in 1..(Len(s) - 1) /\ Tail(s)[i - 1] = e
      BY <1>1, <1>2, <2>1, <2>3
    <3> QED BY <1>1, <3>1 DEF Range
  <2> QED BY <2>2, <2>3
<1>5. ASSUME NEW e \in Range(Tail(s)) PROVE e \in Range(s)
  <2>1. PICK i \in 1..(Len(s) - 1) : e = Tail(s)[i]
    BY <1>1 DEF Range
  <2>2. i + 1 \in DOMAIN s /\ s[i + 1] = e
    BY <1>1, <1>2, <2>1
  <2> QED BY <2>2 DEF Range
<1>6. Head(s) \in Range(s)
  BY <1>1, <1>3 DEF Range
<1>7. Len(s) = 1 => DOMAIN Tail(s) = {}
  BY <1>1
<1> QED BY <1>4, <1>5, <1>6, <1>7 DEF Range

LEMMA RangeConcat ==
  ASSUME NEW S, NEW s \in Seq(S), NEW t \in Seq(S)
  PROVE  Range(s \o t) = Range(s) \cup Range(t)
<1>1. /\ DOMAIN s = 1..Len(s) /\ DOMAIN t = 1..Len(t) /\ Len(s) \in Nat /\ Len(t) \in Nat
      /\ DOMAIN (s \o t) = 1..(Len(s) + Len(t))
  OBVIOUS
<1>2. \A i \in 1..(Len(s) + Len(t)) : (s \o t)[i] = IF i <= Len(s) THEN s[i] ELSE t[i - Len(s)]
  BY <1>1
<1>3. ASSUME NEW e \in Range(s \o t) PROVE e \in Range(s) \cup Range(t)
  <2>1. PICK i \in 1..(Len(s) + Len(t)) : e = (s \o t)[i]
    BY <1>1 DEF Range
  <2>2. CASE i <= Len(s)
    <3>1. i \in DOMAIN s /\ s[i] = e
      BY <1>1, <1>2, <2>1, <2>2
    <3> QED BY <3>1 DEF Range
  <2>3. CASE ~(i <= Len(s))
    <3>1. i - Len(s) \in DOMAIN t /\ t[i - Len(s)] = e
      BY <1>1, <1>2, <2>1, <2>3
    <3> QED BY <3>1 DEF Range
  <2> QED BY <2>2, <2>3
<1>4. ASSUME NEW i \in DOMAIN s PROVE s[i] \in Range(s \o t)
  <2>1. i \in DOMAIN (s \o t) /\ (s \o t)[i] = s[i]
    BY <1>1, <1>2
  <2> QED BY <2>1 DEF Range
<1>5. ASSUME NEW i \in DOMAIN t PROVE t[i] \in Range(s \o t)
  <2>1. i + Len(s) \in DOMAIN (s \o t) /\ (s \o t)[i + Len(s)] = t[i]
    BY <1>1, <1>2
  <2> QED BY <2>1 DEF Range
<1> QED BY <1>3, <1>4, <1>5 DEF Range

-----------------------------------------------------------------------------
(* The four indexes of a hub *)

\* A hub has its four indexes.
IsHub(h) == DOMAIN h = {"byMarket", "bySubscriber", "byUser", "userOf"}

\* What HubsAgree says of one hub and the sockets its relay serves.
IndexesAgree(h, mine) ==
  /\ DOMAIN h.userOf = mine /\ DOMAIN h.bySubscriber \subseteq mine
  /\ \A m \in DOMAIN h.byMarket : h.byMarket[m] # {}
  /\ \A k \in DOMAIN h.bySubscriber :
       /\ h.bySubscriber[k] # {} /\ IsFiniteSet(h.bySubscriber[k])
       /\ Cardinality(h.bySubscriber[k]) <= Ceiling
  /\ \A u \in DOMAIN h.byUser : h.byUser[u] # {}
  /\ \A k \in Sockets, m \in Markets : k \in Watchers(h, m) <=> IsSubscribed(h, k, m)
  /\ \A k \in Sockets, u \in Users :
       k \in SocketsOf(h, u) <=> k \in DOMAIN h.userOf /\ h.userOf[k] = u

LEMMA DiscardMembers ==
  ASSUME NEW index, NEW key, NEW value
  PROVE  /\ DOMAIN Discard(index, key, value) \subseteq DOMAIN index
         /\ Members(Discard(index, key, value), key) = Members(index, key) \ {value}
         /\ \A x : x # key => Members(Discard(index, key, value), x) = Members(index, x)
         /\ \A x \in DOMAIN Discard(index, key, value) :
              /\ Discard(index, key, value)[x] = Members(Discard(index, key, value), x)
              /\ x = key => Members(index, key) \ {value} # {}
BY DEF Discard, Members

LEMMA EmptyAgrees == IsHub(EmptyHub) /\ IndexesAgree(EmptyHub, {})
BY DEF EmptyHub, IsHub, IndexesAgree, Watchers, SocketsOf, IsSubscribed, Members

LEMMA SubscribeAgrees ==
  ASSUME NEW h, NEW mine, IsHub(h), IndexesAgree(h, mine), NEW k \in mine, NEW m \in Markets,
         ~TooManySubscriptions(h, k, m)
  PROVE  /\ IsHub(Subscribe(h, k, m)) /\ IndexesAgree(Subscribe(h, k, m), mine)
         /\ Subscribe(h, k, m).userOf = h.userOf
<1> DEFINE g == Subscribe(h, k, m)
<1>1. /\ IsHub(g) /\ g.userOf = h.userOf /\ g.byUser = h.byUser
      /\ g.byMarket = Put(h.byMarket, m, k) /\ g.bySubscriber = Put(h.bySubscriber, k, m)
  BY DEF IsHub, Subscribe
<1> HIDE DEF g
<1>9. /\ Members(g.byMarket, m) = Members(h.byMarket, m) \cup {k}
      /\ \A n : n # m => Members(g.byMarket, n) = Members(h.byMarket, n)
      /\ Members(g.bySubscriber, k) = Members(h.bySubscriber, k) \cup {m}
      /\ \A x : x # k => Members(g.bySubscriber, x) = Members(h.bySubscriber, x)
  BY <1>1 DEF Put, Members
<1>10. /\ \A n \in DOMAIN g.byMarket : g.byMarket[n] = Members(g.byMarket, n)
       /\ \A x \in DOMAIN g.bySubscriber : g.bySubscriber[x] = Members(g.bySubscriber, x)
  BY DEF Members
<1>2. IsFiniteSet(Members(h.bySubscriber, k)) /\ Cardinality(Members(h.bySubscriber, k)) <= Ceiling
  BY FS_EmptySet, CeilingAssumption DEF IndexesAgree, Members
<1>3. /\ IsFiniteSet(Members(h.bySubscriber, k) \cup {m})
      /\ Cardinality(Members(h.bySubscriber, k) \cup {m}) <= Ceiling
  <2>1. CASE IsSubscribed(h, k, m)
    <3>1. Members(h.bySubscriber, k) \cup {m} = Members(h.bySubscriber, k)
      BY <2>1 DEF IsSubscribed
    <3> QED BY <1>2, <3>1
  <2>2. CASE ~IsSubscribed(h, k, m)
    <3>1. ~(Cardinality(Members(h.bySubscriber, k)) >= Ceiling) /\ m \notin Members(h.bySubscriber, k)
      BY <2>2 DEF TooManySubscriptions, SubscriptionCount, IsSubscribed
    <3>2. Cardinality(Members(h.bySubscriber, k)) \in Nat
      BY <1>2, FS_CardinalityType
    <3>3. /\ IsFiniteSet(Members(h.bySubscriber, k) \cup {m})
          /\ Cardinality(Members(h.bySubscriber, k) \cup {m}) = Cardinality(Members(h.bySubscriber, k)) + 1
      BY <1>2, <3>1, FS_AddElement
    <3> QED BY <3>1, <3>2, <3>3, CeilingAssumption
  <2> QED BY <2>1, <2>2
<1>4. \A x \in Sockets, n \in Markets : x \in Watchers(g, n) <=> IsSubscribed(g, x, n)
  BY <1>9 DEF IndexesAgree, Watchers, IsSubscribed
<1>5. \A n \in DOMAIN g.byMarket : g.byMarket[n] # {}
  <2> TAKE n \in DOMAIN g.byMarket
  <2>1. n # m => n \in DOMAIN h.byMarket /\ g.byMarket[n] = h.byMarket[n]
    BY <1>1 DEF Put
  <2>2. n = m => g.byMarket[n] # {}
    BY <1>9, <1>10
  <2> QED BY <2>1, <2>2 DEF IndexesAgree
<1>6. \A x \in DOMAIN g.bySubscriber :
        /\ g.bySubscriber[x] # {} /\ IsFiniteSet(g.bySubscriber[x])
        /\ Cardinality(g.bySubscriber[x]) <= Ceiling
  <2> TAKE x \in DOMAIN g.bySubscriber
  <2>1. CASE x = k
    BY <1>3, <1>9, <1>10, <2>1
  <2>2. CASE x # k
    <3>1. x \in DOMAIN h.bySubscriber /\ g.bySubscriber[x] = h.bySubscriber[x]
      BY <1>1, <2>2 DEF Put
    <3> QED BY <3>1 DEF IndexesAgree
  <2> QED BY <2>1, <2>2
<1>7. DOMAIN g.userOf = mine /\ DOMAIN g.bySubscriber \subseteq mine
  <2>1. DOMAIN g.bySubscriber = DOMAIN h.bySubscriber \cup {k}
    BY <1>1 DEF Put
  <2> QED BY <1>1, <2>1 DEF IndexesAgree
<1>8. /\ \A u \in DOMAIN g.byUser : g.byUser[u] # {}
      /\ \A x \in Sockets, u \in Users :
           x \in SocketsOf(g, u) <=> x \in DOMAIN g.userOf /\ g.userOf[x] = u
  BY <1>1 DEF IndexesAgree, SocketsOf
<1> QED BY <1>1, <1>4, <1>5, <1>6, <1>7, <1>8 DEF IndexesAgree, g

LEMMA UnsubscribeAgrees ==
  ASSUME NEW h, NEW mine, IsHub(h), IndexesAgree(h, mine), NEW k \in mine, NEW m \in Markets
  PROVE  /\ IsHub(Unsubscribe(h, k, m)) /\ IndexesAgree(Unsubscribe(h, k, m), mine)
         /\ Unsubscribe(h, k, m).userOf = h.userOf
<1> DEFINE g == Unsubscribe(h, k, m)
<1>1. /\ IsHub(g) /\ g.userOf = h.userOf /\ g.byUser = h.byUser
      /\ g.byMarket = Discard(h.byMarket, m, k) /\ g.bySubscriber = Discard(h.bySubscriber, k, m)
  BY DEF IsHub, Unsubscribe
<1> HIDE DEF g
<1>9. /\ Members(g.byMarket, m) = Members(h.byMarket, m) \ {k}
      /\ \A n : n # m => Members(g.byMarket, n) = Members(h.byMarket, n)
      /\ Members(g.bySubscriber, k) = Members(h.bySubscriber, k) \ {m}
      /\ \A x : x # k => Members(g.bySubscriber, x) = Members(h.bySubscriber, x)
  BY <1>1, DiscardMembers
<1>10. /\ \A n \in DOMAIN g.byMarket : g.byMarket[n] = Members(g.byMarket, n)
       /\ \A x \in DOMAIN g.bySubscriber : g.bySubscriber[x] = Members(g.bySubscriber, x)
  BY DEF Members
<1>2. IsFiniteSet(Members(h.bySubscriber, k)) /\ Cardinality(Members(h.bySubscriber, k)) <= Ceiling
  BY FS_EmptySet, CeilingAssumption DEF IndexesAgree, Members
<1>3. /\ IsFiniteSet(Members(h.bySubscriber, k) \ {m})
      /\ Cardinality(Members(h.bySubscriber, k) \ {m}) <= Ceiling
  <2>1. Members(h.bySubscriber, k) \ {m} \subseteq Members(h.bySubscriber, k)
    OBVIOUS
  <2>2. /\ IsFiniteSet(Members(h.bySubscriber, k) \ {m})
        /\ Cardinality(Members(h.bySubscriber, k) \ {m}) <= Cardinality(Members(h.bySubscriber, k))
    BY <1>2, <2>1, FS_Subset
  <2>3. /\ Cardinality(Members(h.bySubscriber, k)) \in Nat
        /\ Cardinality(Members(h.bySubscriber, k) \ {m}) \in Nat
    BY <1>2, <2>2, FS_CardinalityType
  <2> QED BY <1>2, <2>2, <2>3, CeilingAssumption
<1>4. \A x \in Sockets, n \in Markets : x \in Watchers(g, n) <=> IsSubscribed(g, x, n)
  BY <1>9 DEF IndexesAgree, Watchers, IsSubscribed
<1>5. \A n \in DOMAIN g.byMarket : g.byMarket[n] # {}
  BY <1>1, DiscardMembers DEF IndexesAgree, Members
<1>6. \A x \in DOMAIN g.bySubscriber :
        /\ g.bySubscriber[x] # {} /\ IsFiniteSet(g.bySubscriber[x])
        /\ Cardinality(g.bySubscriber[x]) <= Ceiling
  <2> TAKE x \in DOMAIN g.bySubscriber
  <2>1. CASE x = k
    <3>1. g.bySubscriber[x] # {}
      BY <1>1, <2>1 DEF Discard
    <3> QED BY <1>3, <1>9, <1>10, <2>1, <3>1
  <2>2. CASE x # k
    BY <1>1, <2>2, DiscardMembers DEF IndexesAgree, Members
  <2> QED BY <2>1, <2>2
<1>7. DOMAIN g.userOf = mine /\ DOMAIN g.bySubscriber \subseteq mine
  BY <1>1, DiscardMembers DEF IndexesAgree
<1>8. /\ \A u \in DOMAIN g.byUser : g.byUser[u] # {}
      /\ \A x \in Sockets, u \in Users :
           x \in SocketsOf(g, u) <=> x \in DOMAIN g.userOf /\ g.userOf[x] = u
  BY <1>1 DEF IndexesAgree, SocketsOf
<1> QED BY <1>1, <1>4, <1>5, <1>6, <1>7, <1>8 DEF IndexesAgree, g

LEMMA AttachAgrees ==
  ASSUME NEW h, NEW mine, IsHub(h), IndexesAgree(h, mine), NEW k \in Sockets, k \notin mine, NEW u \in Users
  PROVE  /\ IsHub(AttachUser(h, k, u)) /\ IndexesAgree(AttachUser(h, k, u), mine \cup {k})
         /\ \A x \in mine : AttachUser(h, k, u).userOf[x] = h.userOf[x]
<1> DEFINE g == AttachUser(h, k, u)
<1>1. /\ IsHub(g) /\ g.byMarket = h.byMarket /\ g.bySubscriber = h.bySubscriber
      /\ g.byUser = Put(h.byUser, u, k)
      /\ g.userOf = [x \in DOMAIN h.userOf \cup {k} |-> IF x = k THEN u ELSE h.userOf[x]]
  BY DEF IsHub, AttachUser
<1> HIDE DEF g
<1>2. DOMAIN h.userOf = mine /\ k \notin DOMAIN h.userOf /\ k \notin DOMAIN h.bySubscriber
  BY DEF IndexesAgree
<1>3. DOMAIN g.userOf = mine \cup {k} /\ \A x \in mine : g.userOf[x] = h.userOf[x]
  BY <1>1, <1>2
<1>4. \A x \in Sockets, n \in Users :
         x \in SocketsOf(g, n) <=> x \in DOMAIN g.userOf /\ g.userOf[x] = n
  <2>1. /\ Members(g.byUser, u) = Members(h.byUser, u) \cup {k}
        /\ \A n : n # u => Members(g.byUser, n) = Members(h.byUser, n)
    BY <1>1 DEF Put, Members
  <2> QED BY <1>1, <1>2, <2>1 DEF IndexesAgree, SocketsOf
<1>5. \A n \in DOMAIN g.byUser : g.byUser[n] # {}
  <2> TAKE n \in DOMAIN g.byUser
  <2>1. n # u => n \in DOMAIN h.byUser /\ g.byUser[n] = h.byUser[n]
    BY <1>1 DEF Put
  <2>2. n = u => k \in g.byUser[n]
    BY <1>1 DEF Put
  <2> QED BY <2>1, <2>2 DEF IndexesAgree
<1>7. IndexesAgree(g, mine \cup {k})
  BY <1>1, <1>3, <1>4, <1>5 DEF IndexesAgree, Watchers, IsSubscribed
<1> QED BY <1>1, <1>3, <1>7 DEF g

LEMMA ForgetAgrees ==
  ASSUME NEW h, NEW mine, IsHub(h), IndexesAgree(h, mine), NEW k \in mine, mine \subseteq Sockets
  PROVE  /\ IsHub(Forget(h, k)) /\ IndexesAgree(Forget(h, k), mine \ {k})
         /\ \A x \in mine \ {k} : Forget(h, k).userOf[x] = h.userOf[x]
<1> DEFINE g == Forget(h, k)
           watched == Members(h.bySubscriber, k)
<1>1. /\ IsHub(g)
      /\ g.byMarket = [m \in {x \in DOMAIN h.byMarket : x \in watched => h.byMarket[x] # {k}} |->
                         IF m \in watched THEN h.byMarket[m] \ {k} ELSE h.byMarket[m]]
      /\ g.bySubscriber = [x \in DOMAIN h.bySubscriber \ {k} |-> h.bySubscriber[x]]
      /\ g.byUser = Discard(h.byUser, h.userOf[k], k)
      /\ g.userOf = [x \in DOMAIN h.userOf \ {k} |-> h.userOf[x]]
  BY DEF IsHub, Forget, IndexesAgree
<1> HIDE DEF g
<1>2. DOMAIN g.userOf = mine \ {k} /\ \A x \in mine \ {k} : g.userOf[x] = h.userOf[x]
  BY <1>1 DEF IndexesAgree
<1>3. DOMAIN g.bySubscriber \subseteq mine \ {k}
  BY <1>1 DEF IndexesAgree
<1>4. \A m \in DOMAIN g.byMarket : g.byMarket[m] # {}
  BY <1>1 DEF IndexesAgree
<1>5. \A x \in DOMAIN g.bySubscriber :
        /\ g.bySubscriber[x] # {} /\ IsFiniteSet(g.bySubscriber[x])
        /\ Cardinality(g.bySubscriber[x]) <= Ceiling
  BY <1>1 DEF IndexesAgree
<1>6. \A u \in DOMAIN g.byUser : g.byUser[u] # {}
  BY <1>1, DiscardMembers DEF IndexesAgree, Members
<1>7. ASSUME NEW x \in Sockets, NEW m \in Markets PROVE x \in Watchers(g, m) <=> IsSubscribed(g, x, m)
  <2>1. x \in Members(h.byMarket, m) <=> m \in Members(h.bySubscriber, x)
    BY DEF IndexesAgree, Watchers, IsSubscribed
  <2>2. x = k => m \notin Members(g.bySubscriber, x)
    BY <1>1 DEF Members
  <2>3. x # k => Members(g.bySubscriber, x) = Members(h.bySubscriber, x)
    BY <1>1 DEF Members
  <2>4. Members(g.byMarket, m) = Members(h.byMarket, m) \ (IF m \in watched THEN {k} ELSE {})
    BY <1>1 DEF Members
  <2>5. k \in Members(h.byMarket, m) <=> m \in watched
    BY DEF IndexesAgree, Watchers, IsSubscribed
  <2> QED BY <2>1, <2>2, <2>3, <2>4, <2>5 DEF Watchers, IsSubscribed
<1>8. ASSUME NEW x \in Sockets, NEW u \in Users
      PROVE  x \in SocketsOf(g, u) <=> x \in DOMAIN g.userOf /\ g.userOf[x] = u
  <2>1. x \in Members(h.byUser, u) <=> x \in mine /\ h.userOf[x] = u
    BY DEF IndexesAgree, SocketsOf
  <2>2. Members(g.byUser, u) = IF u = h.userOf[k] THEN Members(h.byUser, u) \ {k} ELSE Members(h.byUser, u)
    BY <1>1 DEF Discard, Members
  <2> QED BY <1>2, <2>1, <2>2 DEF SocketsOf
<1> QED BY <1>1, <1>2, <1>3, <1>4, <1>5, <1>6, <1>7, <1>8 DEF IndexesAgree, g

-----------------------------------------------------------------------------
(* What every part of the feed may rely on *)

Frames ==
  PriceEvent \cup OrderEvent \cup [kind : {"subscribed", "unsubscribed"}, market : Markets] \cup {ErrorFrame}

LedgerTyped ==
  /\ version \in [Markets -> Nat] /\ faults \in 0..MaxFaults
  /\ outbox \subseteq Seq(PriceEvent \cup OrderEvent) /\ <<>> \notin outbox

RelaysTyped ==
  /\ inbox \in [Relays -> Seq(PriceEvent \cup OrderEvent)] /\ listening \in [Relays -> BOOLEAN]
  /\ gate \in [Relays -> [Markets -> Nat]] /\ dropped \in [Relays -> [Markets -> BOOLEAN]]

SocketsTyped ==
  /\ at \in [Sockets -> Relays \cup {NoRelay}] /\ queue \in [Sockets -> Seq(Frames)]
  /\ commands \in [Sockets -> Seq(ClientCommand)]
  /\ done \in [Sockets -> SUBSET {"expired", "slow", "left", "internal"}]

PagesTyped ==
  /\ socket \in [Clients -> Sockets \cup {NoSocket}]
  /\ phase \in [Clients -> {"closed", "open", "refreshing", "stopped"}]
  /\ fresh \in [Clients -> BOOLEAN] /\ page \in Turns
  /\ believed \in [Clients -> SUBSET Markets] /\ acked \in [Clients -> SUBSET Markets]
  /\ pending \in [Clients -> Seq(Markets)]

ReadsTyped ==
  /\ asked \in [Clients -> SUBSET Markets] /\ answers \in [Clients -> SUBSET PriceEvent]
  /\ unread \in [Clients -> SUBSET Markets]
  /\ shown \in [Clients -> [Markets -> Nat \cup {-1}]]

Served(r) == {k \in Sockets : at[k] = r}

HubsSound ==
  /\ hub = [r \in Relays |-> hub[r]]
  /\ \A r \in Relays : IsHub(hub[r]) /\ IndexesAgree(hub[r], Served(r))

\* No order's frame waits for anybody but its owner.
Addressed ==
  \A k \in Sockets : Open(k) =>
    \A i \in DOMAIN queue[k] : queue[k][i].kind = "order" => queue[k][i].user = hub[at[k]].userOf[k]

Emptied == \A k \in Sockets : ~Open(k) => queue[k] = <<>> /\ commands[k] = <<>> /\ done[k] = {}

\* An open page has a socket to itself, which some relay serves.
Tied ==
  /\ \A c \in Clients : phase[c] = "open" <=> socket[c] # NoSocket
  /\ \A c \in Clients : socket[c] # NoSocket => Open(socket[c])
  /\ \A c, d \in Clients : socket[c] = socket[d] /\ socket[c] # NoSocket => c = d

FeedInv ==
  /\ LedgerTyped /\ RelaysTyped /\ SocketsTyped /\ PagesTyped /\ ReadsTyped
  /\ HubsSound /\ Addressed /\ Emptied /\ Tied

LEMMA HubsAgreeFollows == FeedInv => HubsAgree
<1> SUFFICES ASSUME FeedInv PROVE HubsAgree
  OBVIOUS
<1>1. TypeOK
  BY DEF FeedInv, LedgerTyped, RelaysTyped, SocketsTyped, PagesTyped, ReadsTyped, TypeOK
<1>2. ASSUME NEW r \in Relays, NEW k \in Served(r), NEW i \in DOMAIN queue[k], queue[k][i].kind = "order"
      PROVE  queue[k][i].user = hub[r].userOf[k]
  BY <1>2, FeedAssumption DEF FeedInv, Addressed, Served, Open
<1>3. \A r \in Relays : IndexesAgree(hub[r], Served(r))
  BY DEF FeedInv, HubsSound
<1>4. Emptied
  BY DEF FeedInv
<1> QED BY <1>1, <1>2, <1>3, <1>4 DEF HubsAgree, IndexesAgree, Served, Emptied

LEMMA ListedMarkets ==
  ASSUME NEW ms \in SUBSET Markets
  PROVE  Listed(ms) \in Seq(Markets) /\ Range(Listed(ms)) = ms
<1>1. IsFiniteSet(ms)
  BY FS_Subset, FeedAssumption
<1> QED BY <1>1, ListedType DEF Listed

LEMMA SentCommands ==
  ASSUME NEW ms \in Seq(Markets), NEW action \in {"subscribe", "unsubscribe"}
  PROVE  Sent(action, ms) \in Seq(ClientCommand)
<1>1. DOMAIN ms = 1..Len(ms) /\ Len(ms) \in Nat /\ \A i \in 1..Len(ms) : ms[i] \in Markets
  OBVIOUS
<1>2. \A i \in 1..Len(ms) : [action |-> action, market |-> ms[i]] \in ClientCommand
  BY <1>1 DEF ClientCommand
<1>3. Sent(action, ms) \in [1..Len(ms) -> ClientCommand]
  BY <1>1, <1>2 DEF Sent
<1> QED BY <1>1, <1>3

LEMMA ReconciledCommands ==
  ASSUME NEW held \in SUBSET Markets, NEW wanted \in SUBSET Markets
  PROVE  Reconciled(held, wanted) \in Seq(ClientCommand)
<1>1. Listed(held \ wanted) \in Seq(Markets) /\ Listed(wanted \ held) \in Seq(Markets)
  BY ListedMarkets
<1> QED BY <1>1, SentCommands DEF Reconciled

LEMMA WantedMarkets ==
  ASSUME PagesTyped, NEW c \in Clients
  PROVE  /\ Wanted(c) \in SUBSET Markets /\ Wanted(c) # {}
         /\ page[c] \in DOMAIN Follows[c] /\ page \in [Clients -> Nat]
<1>1. page \in Turns /\ Follows[c] \in Seq((SUBSET Markets) \ {{}})
  BY FeedAssumption DEF PagesTyped
<1>2. page[c] \in DOMAIN Follows[c] /\ page \in [Clients -> UNION {DOMAIN Follows[d] : d \in Clients}]
  BY <1>1 DEF Turns
<1>3. UNION {DOMAIN Follows[d] : d \in Clients} \subseteq Nat
  BY FeedAssumption
<1> QED BY <1>1, <1>2, <1>3 DEF Wanted

LEMMA FeedInit == Init => FeedInv
<1> SUFFICES ASSUME Init PROVE FeedInv
  OBVIOUS
<1>1. LedgerTyped /\ RelaysTyped
  BY FeedAssumption DEF Init, LedgerTyped, RelaysTyped
<1>2. SocketsTyped
  BY DEF Init, SocketsTyped
<1>3. PagesTyped
  BY DEF Init, PagesTyped
<1>4. ReadsTyped
  BY <1>3, WantedMarkets DEF Init, ReadsTyped
<1>5. \A r \in Relays : Served(r) = {}
  BY FeedAssumption DEF Init, Served
<1>6. HubsSound
  BY <1>5, EmptyAgrees DEF Init, HubsSound
<1>7. Addressed /\ Emptied /\ Tied
  BY DEF Init, Addressed, Emptied, Tied, Open
<1> QED BY <1>1, <1>2, <1>3, <1>4, <1>6, <1>7 DEF FeedInv

-----------------------------------------------------------------------------
(* Every step keeps FeedInv *)

LEMMA HubsStay == ASSUME HubsSound, UNCHANGED <<hub, at>> PROVE HubsSound'
BY DEF HubsSound, Served

LEMMA LostType == \A r, events : Lost(r, events) \in [Markets -> BOOLEAN]
BY DEF Lost

LEMMA FramesLeft ==
  ASSUME NEW S, NEW frames \in Seq(S), frames # <<>>
  PROVE  /\ Head(frames) \in S /\ Tail(frames) \in Seq(S)
         /\ Len(frames) # 1 => Tail(frames) # <<>>
<1>1. Len(frames) \in Nat /\ Len(frames) # 0
  OBVIOUS
<1>2. Len(Tail(frames)) = Len(frames) - 1
  BY <1>1
<1> QED BY <1>1, <1>2

LEMMA TradeKeeps ==
  ASSUME FeedInv, NEW m \in Markets, Trade(m), faults' \in 0..MaxFaults
  PROVE  FeedInv'
<1>1. PICK by \in Jumps, owners \in SUBSET Users :
        LET v == version[m] + by IN
        /\ version' = [version EXCEPT ![m] = v]
        /\ outbox' = outbox \cup {<<Price(m, v)>> \o SetToSeq({Order(m, v, u) : u \in owners})}
        /\ dropped' = [r \in Relays |-> [dropped[r] EXCEPT ![m] = FALSE]]
        /\ UNCHANGED <<inbox, listening, gate, hub, sockets, client>>
  BY DEF Trade
<1> DEFINE v == version[m] + by
           orders == SetToSeq({Order(m, v, u) : u \in owners})
<1>2. v \in Nat /\ version \in [Markets -> Nat]
  BY FeedAssumption DEF FeedInv, LedgerTyped
<1>3. orders \in Seq({Order(m, v, u) : u \in owners})
  <2>1. IsFiniteSet({Order(m, v, u) : u \in owners})
    BY OrdersFinite
  <2> QED BY <2>1, ListedType
<1>4. {Order(m, v, u) : u \in owners} \subseteq OrderEvent
  BY <1>2 DEF Order, OrderEvent
<1>5. orders \in Seq(PriceEvent \cup OrderEvent) /\ Price(m, v) \in PriceEvent
  BY <1>2, <1>3, <1>4 DEF Price, PriceEvent
<1>6. <<Price(m, v)>> \o orders \in Seq(PriceEvent \cup OrderEvent) /\ <<Price(m, v)>> \o orders # <<>>
  <2> HIDE DEF orders
  <2> QED BY <1>5
<1> HIDE DEF orders
<1>7. LedgerTyped'
  BY <1>1, <1>2, <1>6 DEF FeedInv, LedgerTyped, orders
<1>8. RelaysTyped'
  BY <1>1 DEF FeedInv, RelaysTyped
<1>9. HubsSound' /\ UNCHANGED <<hub, sockets, client>>
  BY <1>1, HubsStay DEF FeedInv, sockets
<1> QED
  BY <1>7, <1>8, <1>9 DEF FeedInv, SocketsTyped, PagesTyped, ReadsTyped, Addressed, Emptied, Tied, Open, sockets, client

LEMMA SendKeeps ==
  ASSUME FeedInv, NEW frames \in outbox, Send(frames), faults' \in 0..MaxFaults,
         outbox' \in {Without(frames), outbox}
  PROVE  FeedInv'
<1>1. frames \in Seq(PriceEvent \cup OrderEvent) /\ frames # <<>>
  BY DEF FeedInv, LedgerTyped
<1>2. Head(frames) \in PriceEvent \cup OrderEvent /\ Tail(frames) \in Seq(PriceEvent \cup OrderEvent)
      /\ (Len(frames) # 1 => Tail(frames) # <<>>)
  BY <1>1, FramesLeft
<1>3. LedgerTyped'
  BY <1>2 DEF FeedInv, LedgerTyped, Without, Send
<1>4. inbox' \in [Relays -> Seq(PriceEvent \cup OrderEvent)]
  BY <1>2 DEF FeedInv, RelaysTyped, Send
<1>5. dropped' \in [Relays -> [Markets -> BOOLEAN]]
  BY LostType DEF FeedInv, RelaysTyped, Send
<1>6. RelaysTyped'
  BY <1>4, <1>5 DEF FeedInv, RelaysTyped, Send
<1>7. HubsSound' /\ UNCHANGED <<hub, sockets, client>>
  BY HubsStay DEF FeedInv, sockets, Send
<1> QED
  BY <1>3, <1>6, <1>7 DEF FeedInv, SocketsTyped, PagesTyped, ReadsTyped, Addressed, Emptied, Tied, Open, sockets, client

LEMMA PublishFailsKeeps ==
  ASSUME FeedInv, NEW frames \in outbox, PublishFails(frames), faults' \in 0..MaxFaults
  PROVE  FeedInv'
<1>1. frames \in Seq(PriceEvent \cup OrderEvent) /\ frames # <<>>
  BY DEF FeedInv, LedgerTyped
<1>2. Tail(frames) \in Seq(PriceEvent \cup OrderEvent) /\ (Len(frames) # 1 => Tail(frames) # <<>>)
  BY <1>1, FramesLeft
<1>3. LedgerTyped'
  BY <1>2 DEF FeedInv, LedgerTyped, Without, PublishFails
<1>4. dropped' \in [Relays -> [Markets -> BOOLEAN]]
  BY LostType DEF FeedInv, RelaysTyped, PublishFails
<1>5. RelaysTyped'
  BY <1>4 DEF FeedInv, RelaysTyped, PublishFails
<1>6. HubsSound' /\ UNCHANGED <<hub, sockets, client>>
  BY HubsStay DEF FeedInv, sockets, PublishFails
<1> QED
  BY <1>3, <1>5, <1>6 DEF FeedInv, SocketsTyped, PagesTyped, ReadsTyped, Addressed, Emptied, Tied, Open, sockets, client

LEMMA BusKeeps ==
  ASSUME FeedInv, NEW r \in Relays, Connect(r) \/ Disconnect(r), faults' \in 0..MaxFaults
  PROVE  FeedInv'
<1>1. LedgerTyped'
  BY DEF FeedInv, LedgerTyped, Connect, Disconnect, ledger
<1>2. ASSUME Connect(r) PROVE RelaysTyped'
  BY <1>2 DEF FeedInv, RelaysTyped, Connect
<1>3. ASSUME Disconnect(r) PROVE RelaysTyped'
  <2>1. dropped' \in [Relays -> [Markets -> BOOLEAN]]
    BY <1>3, LostType DEF FeedInv, RelaysTyped, Disconnect
  <2>2. inbox' \in [Relays -> Seq(PriceEvent \cup OrderEvent)] /\ listening' \in [Relays -> BOOLEAN] /\ gate' = gate
    BY <1>3 DEF FeedInv, RelaysTyped, Disconnect
  <2> QED BY <2>1, <2>2 DEF FeedInv, RelaysTyped
<1>4. HubsSound' /\ UNCHANGED <<hub, sockets, client>>
  BY HubsStay DEF FeedInv, sockets, Connect, Disconnect
<1> QED
  BY <1>1, <1>2, <1>3, <1>4 DEF FeedInv, SocketsTyped, PagesTyped, ReadsTyped, Addressed, Emptied, Tied, Open, sockets, client

\* What a fan-out does to the queues of the sockets it is for.
LEMMA FanOutKeeps ==
  ASSUME FeedInv, NEW watchers, NEW frame \in Frames, FanOut(watchers, frame), at' = at,
         \A k \in watchers \cap Sockets :
           Open(k) /\ (frame.kind = "order" => frame.user = hub[at[k]].userOf[k]),
         \A k \in Sockets : Open(k) => hub'[at[k]].userOf[k] = hub[at[k]].userOf[k]
  PROVE  /\ queue' \in [Sockets -> Seq(Frames)]
         /\ done' \in [Sockets -> SUBSET {"expired", "slow", "left", "internal"}]
         /\ Addressed'
         /\ \A k \in Sockets : ~Open(k) => queue'[k] = queue[k] /\ done'[k] = done[k]
<1>0. SocketsTyped /\ Addressed
  BY DEF FeedInv
<1>1. \A k \in Sockets : queue'[k] = queue[k] \/ (k \in watchers /\ queue'[k] = Append(queue[k], frame))
  BY DEF FanOut, Enqueue
<1>2. queue' \in [Sockets -> Seq(Frames)]
  <2>1. \A k \in Sockets : queue[k] \in Seq(Frames) /\ Append(queue[k], frame) \in Seq(Frames)
    BY <1>0 DEF SocketsTyped
  <2>2. DOMAIN queue' = Sockets /\ queue' = [k \in Sockets |-> queue'[k]]
    BY DEF FanOut
  <2> QED BY <1>1, <2>1, <2>2
<1>3. done' \in [Sockets -> SUBSET {"expired", "slow", "left", "internal"}]
  BY <1>0 DEF FanOut, SocketsTyped
<1>4. Addressed'
  <2> SUFFICES ASSUME NEW k \in Sockets, Open(k), NEW i \in DOMAIN queue'[k], queue'[k][i].kind = "order"
               PROVE  queue'[k][i].user = hub'[at[k]].userOf[k]
    BY DEF Addressed, Open
  <2>1. hub'[at[k]].userOf[k] = hub[at[k]].userOf[k]
    OBVIOUS
  <2>2. CASE queue'[k] = queue[k]
    BY <1>0, <2>1, <2>2 DEF Addressed
  <2>3. CASE k \in watchers /\ queue'[k] = Append(queue[k], frame)
    <3>1. queue[k] \in Seq(Frames)
      BY <1>0 DEF SocketsTyped
    <3>2. (i \in DOMAIN queue[k] /\ queue'[k][i] = queue[k][i]) \/ queue'[k][i] = frame
      BY <2>3, <3>1
    <3> QED BY <1>0, <2>1, <2>3, <3>2 DEF Addressed
  <2> QED BY <1>1, <2>2, <2>3
<1>5. \A k \in Sockets : ~Open(k) => queue'[k] = queue[k] /\ done'[k] = done[k]
  BY DEF FanOut
<1> QED BY <1>2, <1>3, <1>4, <1>5

LEMMA ConsumeKeeps ==
  ASSUME FeedInv, NEW r \in Relays, Consume(r), faults' \in 0..MaxFaults
  PROVE  FeedInv'
<1> DEFINE e == Head(inbox[r])
<1>1. inbox[r] \in Seq(PriceEvent \cup OrderEvent) /\ inbox[r] # <<>>
  BY DEF FeedInv, RelaysTyped, Consume
<1>2. e \in PriceEvent \cup OrderEvent /\ Tail(inbox[r]) \in Seq(PriceEvent \cup OrderEvent)
  BY <1>1
<1> HIDE DEF e
<1>3. inbox' = [inbox EXCEPT ![r] = Tail(inbox[r])] /\ UNCHANGED <<ledger, listening, hub, dropped, at, commands, client>>
      /\ (Dispatch(r, e) \/ DispatchOrder(r, e))
  BY DEF Consume, e
<1>4. IndexesAgree(hub[r], Served(r)) /\ SocketsTyped /\ RelaysTyped
  BY DEF FeedInv, HubsSound
<1>5. /\ gate' \in [Relays -> [Markets -> Nat]]
      /\ queue' \in [Sockets -> Seq(Frames)]
      /\ done' \in [Sockets -> SUBSET {"expired", "slow", "left", "internal"}]
      /\ Addressed'
      /\ \A k \in Sockets : ~Open(k) => queue'[k] = queue[k] /\ done'[k] = done[k]
  <2>0. e \in Frames
    BY <1>2 DEF Frames
  <2>1. CASE Dispatch(r, e) /\ Accept(r, e)
    <3>1. e.kind = "price" /\ FanOut(Watchers(hub[r], e.market), e)
          /\ gate' = [gate EXCEPT ![r][e.market] = e.version]
      BY <2>1 DEF Dispatch
    <3>2. e.market \in Markets /\ e.version \in Nat
      BY <1>2, <3>1 DEF PriceEvent, OrderEvent
    <3>3. \A k \in Watchers(hub[r], e.market) \cap Sockets : Open(k)
      <4> TAKE k \in Watchers(hub[r], e.market) \cap Sockets
      <4>1. k \in DOMAIN hub[r].bySubscriber
        BY <1>4, <3>2 DEF IndexesAgree, IsSubscribed, Members
      <4> QED BY <1>4, <4>1, FeedAssumption DEF IndexesAgree, Served, Open
    <3>4. gate' \in [Relays -> [Markets -> Nat]]
      BY <1>4, <3>1, <3>2 DEF RelaysTyped
    <3> QED BY <1>3, <2>0, <3>1, <3>3, <3>4, FanOutKeeps
  <2>2. CASE Dispatch(r, e) /\ ~Accept(r, e)
    <3>1. UNCHANGED <<gate, queue, done, at, hub>>
      BY <1>3, <2>2 DEF Dispatch
    <3> QED BY <1>4, <3>1 DEF FeedInv, RelaysTyped, SocketsTyped, Addressed, Open
  <2>3. CASE DispatchOrder(r, e)
    <3>1. e.kind = "order" /\ FanOut(SocketsOf(hub[r], e.user), e) /\ gate' = gate
      BY <2>3 DEF DispatchOrder
    <3>2. e.user \in Users
      BY <1>2, <3>1 DEF PriceEvent, OrderEvent
    <3>3. \A k \in SocketsOf(hub[r], e.user) \cap Sockets : Open(k) /\ e.user = hub[at[k]].userOf[k]
      <4> TAKE k \in SocketsOf(hub[r], e.user) \cap Sockets
      <4>1. k \in Served(r) /\ hub[r].userOf[k] = e.user
        BY <1>4, <3>2 DEF IndexesAgree
      <4> QED BY <4>1, FeedAssumption DEF Served, Open
    <3>4. gate' \in [Relays -> [Markets -> Nat]]
      BY <1>4, <3>1 DEF RelaysTyped
    <3> QED BY <1>3, <2>0, <3>1, <3>3, <3>4, FanOutKeeps
  <2> QED BY <1>3, <2>1, <2>2, <2>3
<1>6. RelaysTyped'
  BY <1>2, <1>3, <1>4, <1>5 DEF RelaysTyped
<1>7. SocketsTyped' /\ Emptied'
  BY <1>3, <1>4, <1>5 DEF FeedInv, SocketsTyped, Emptied, Open
<1>8. HubsSound' /\ LedgerTyped'
  BY <1>3, HubsStay DEF FeedInv, LedgerTyped, ledger
<1> QED
  BY <1>3, <1>5, <1>6, <1>7, <1>8 DEF FeedInv, PagesTyped, ReadsTyped, Tied, Open, client

\* The page's side of a connection.
LEMMA OnCloseKeeps ==
  ASSUME PagesTyped, ReadsTyped, NEW closed, NEW code, OnClose(closed, code)
  PROVE  PagesTyped' /\ ReadsTyped'
<1>1. PagesTyped'
  BY DEF PagesTyped, OnClose
<1>2. ReadsTyped'
  BY DEF ReadsTyped, OnClose
<1> QED BY <1>1, <1>2

LEMMA AskingMarkets ==
  ASSUME ReadsTyped, NEW c \in Clients, NEW ms \in SUBSET Markets
  PROVE  Asking(c, ms) \in SUBSET Markets
BY DEF ReadsTyped, Asking

LEMMA ReportAckedKeeps ==
  ASSUME PagesTyped, ReadsTyped, NEW c \in Clients, NEW left \in Seq(Markets), NEW got \in SUBSET Markets,
         ReportAcked(c, left, got), UNCHANGED <<socket, phase, fresh, page, answers, unread, shown>>,
         believed' \in [Clients -> SUBSET Markets]
  PROVE  PagesTyped' /\ ReadsTyped'
<1>1. PagesTyped'
  BY DEF PagesTyped, ReportAcked
<1>2. asked' \in [Clients -> SUBSET Markets]
  BY AskingMarkets DEF ReadsTyped, ReportAcked
<1>3. ReadsTyped'
  BY <1>2 DEF ReadsTyped
<1> QED BY <1>1, <1>3

LEMMA ApplyKeeps ==
  ASSUME ReadsTyped, NEW c \in Clients, NEW e \in PriceEvent
  PROVE  /\ Apply(c, e) \in [Clients -> [Markets -> Nat \cup {-1}]]
         /\ \A d \in Clients, m \in Markets : Apply(c, e)[d][m] >= shown[d][m]
BY DEF ReadsTyped, Apply, PriceEvent

LEMMA OnMessageKeeps ==
  ASSUME PagesTyped, ReadsTyped, NEW c \in Clients, NEW f \in Frames, OnMessage(c, f)
  PROVE  PagesTyped' /\ ReadsTyped'
<1>0. UNCHANGED <<socket, phase, fresh, page, answers, unread>>
  BY DEF OnMessage
<1>1. CASE f.kind = "subscribed"
  <2>1. f.market \in Markets
    BY <1>1 DEF Frames, PriceEvent, OrderEvent, ErrorFrame
  <2>2. Unanswered(pending[c], f.market) \in Seq(Markets) /\ acked[c] \cup {f.market} \in SUBSET Markets
    BY <2>1, UnansweredType DEF PagesTyped
  <2>3. ReportAcked(c, Unanswered(pending[c], f.market), acked[c] \cup {f.market}) /\ UNCHANGED <<believed, shown>>
    BY <1>1 DEF OnMessage
  <2>4. believed' \in [Clients -> SUBSET Markets]
    BY <2>3 DEF PagesTyped
  <2> QED BY <1>0, <2>2, <2>3, <2>4, ReportAckedKeeps
<1>2. CASE f.kind = "price"
  <2>1. f \in PriceEvent
    BY <1>2 DEF Frames, OrderEvent, ErrorFrame
  <2>2. shown' = Apply(c, f) /\ UNCHANGED <<believed, pending, acked, asked>>
    BY <1>2 DEF OnMessage
  <2> QED BY <1>0, <2>1, <2>2, ApplyKeeps DEF PagesTyped, ReadsTyped
<1>3. CASE f.kind = "too_many_subscriptions"
  <2>0. acked[c] \in SUBSET Markets /\ pending[c] \in Seq(Markets) /\ believed \in [Clients -> SUBSET Markets]
    BY DEF PagesTyped
  <2>1. CASE pending[c] = <<>>
    <3>1. ReportAcked(c, <<>>, acked[c]) /\ UNCHANGED <<believed, shown>>
      BY <1>3, <2>1 DEF OnMessage
    <3>2. <<>> \in Seq(Markets)
      OBVIOUS
    <3> QED BY <1>0, <2>0, <3>1, <3>2, ReportAckedKeeps
  <2>2. CASE pending[c] # <<>>
    <3>1. /\ ReportAcked(c, Tail(pending[c]), acked[c]) /\ UNCHANGED shown
          /\ believed' = [believed EXCEPT ![c] = @ \ {Head(pending[c])}]
      BY <1>3, <2>2 DEF OnMessage
    <3>2. Tail(pending[c]) \in Seq(Markets)
      BY <2>0, <2>2
    <3>3. believed' \in [Clients -> SUBSET Markets]
      BY <2>0, <3>1
    <3> QED BY <1>0, <2>0, <3>1, <3>2, <3>3, ReportAckedKeeps
  <2> QED BY <2>1, <2>2
<1>4. CASE f.kind \in {"unsubscribed", "order"}
  <2>1. UNCHANGED <<believed, pending, acked, asked, shown>>
    BY <1>4 DEF OnMessage
  <2> QED BY <1>0, <2>1 DEF PagesTyped, ReadsTyped
<1> QED BY <1>1, <1>2, <1>3, <1>4 DEF OnMessage

LEMMA OnOpenKeeps ==
  ASSUME PagesTyped, ReadsTyped, SocketsTyped, NEW c \in Clients, NEW k \in Sockets, OnOpen(c, k)
  PROVE  PagesTyped' /\ ReadsTyped' /\ commands' \in [Sockets -> Seq(ClientCommand)]
<1>1. Wanted(c) \in SUBSET Markets /\ {} \in SUBSET Markets
  BY WantedMarkets
<1>2. Listed(Wanted(c)) \in Seq(Markets) /\ Reconciled({}, Wanted(c)) \in Seq(ClientCommand)
  BY <1>1, ListedMarkets, ReconciledCommands
<1>3. PagesTyped'
  BY <1>1, <1>2 DEF PagesTyped, OnOpen
<1>4. ReadsTyped'
  BY DEF ReadsTyped, OnOpen
<1>5. commands' \in [Sockets -> Seq(ClientCommand)]
  BY <1>2 DEF SocketsTyped, OnOpen
<1> QED BY <1>3, <1>4, <1>5

LEMMA TurnKeeps ==
  ASSUME FeedInv, NEW c \in Clients, Turn(c), faults' \in 0..MaxFaults
  PROVE  FeedInv'
<1> DEFINE next == Follows[c][page[c] + 1]
           read == UNION {Follows[c][i] : i \in 1..page[c]}
<1>0. PagesTyped /\ ReadsTyped /\ SocketsTyped
  BY DEF FeedInv
<1>1. page[c] \in DOMAIN Follows[c] /\ page \in [Clients -> Nat] /\ page[c] < Len(Follows[c])
      /\ Follows[c] \in Seq((SUBSET Markets) \ {{}})
  BY <1>0, WantedMarkets, FeedAssumption DEF Turn
<1>2. page[c] + 1 \in DOMAIN Follows[c] /\ next \in SUBSET Markets /\ next # {}
  BY <1>1
<1>3. page' \in Turns
  <2>1. page \in Turns /\ page' = [page EXCEPT ![c] = page[c] + 1]
    BY <1>0 DEF PagesTyped, Turn
  <2> QED BY <1>2, <2>1 DEF Turns
<1> HIDE DEF next, read
<1>4. /\ asked' = [asked EXCEPT ![c] = Asking(c, next \ read)]
      /\ UNCHANGED <<ledger, relay, at, queue, done, socket, phase, fresh, acked, answers, unread, shown>>
  BY DEF Turn, next, read
<1>5. /\ phase[c] = "open" =>
           /\ commands' = [commands EXCEPT ![socket[c]] = @ \o Reconciled(believed[c], next)]
           /\ pending' = [pending EXCEPT ![c] = @ \o Listed(next \ believed[c])]
           /\ believed' = [believed EXCEPT ![c] = next]
      /\ phase[c] # "open" => UNCHANGED <<commands, pending, believed>>
  BY DEF Turn, next
<1>6. believed[c] \in SUBSET Markets /\ Reconciled(believed[c], next) \in Seq(ClientCommand)
      /\ Listed(next \ believed[c]) \in Seq(Markets)
  <2>1. believed[c] \in SUBSET Markets /\ next \ believed[c] \in SUBSET Markets
    BY <1>0, <1>2 DEF PagesTyped
  <2> QED BY <1>2, <2>1, ReconciledCommands, ListedMarkets
<1>7. ReadsTyped'
  <2>1. next \ read \in SUBSET Markets
    BY <1>2
  <2>2. Asking(c, next \ read) \in SUBSET Markets
    BY <1>0, <2>1, AskingMarkets
  <2> QED BY <1>0, <1>4, <2>2 DEF ReadsTyped
<1>8. PagesTyped'
  <2>1. pending' \in [Clients -> Seq(Markets)]
    <3>1. pending[c] \o Listed(next \ believed[c]) \in Seq(Markets)
      BY <1>0, <1>6 DEF PagesTyped
    <3> QED BY <1>0, <1>5, <3>1 DEF PagesTyped
  <2>2. believed' \in [Clients -> SUBSET Markets]
    BY <1>0, <1>2, <1>5 DEF PagesTyped
  <2> QED BY <1>0, <1>3, <1>4, <2>1, <2>2 DEF PagesTyped
<1>9. commands' \in [Sockets -> Seq(ClientCommand)]
      /\ \A k \in Sockets : ~Open(k) => commands'[k] = commands[k]
  <2>1. CASE phase[c] = "open"
    <3>1. socket[c] \in Sockets /\ Open(socket[c])
      BY <1>0, <2>1 DEF FeedInv, Tied, PagesTyped
    <3>2. commands[socket[c]] \o Reconciled(believed[c], next) \in Seq(ClientCommand)
      BY <1>0, <1>6, <3>1 DEF SocketsTyped
    <3> QED BY <1>0, <1>5, <2>1, <3>1, <3>2 DEF SocketsTyped
  <2>2. CASE phase[c] # "open"
    BY <1>0, <1>5, <2>2 DEF SocketsTyped
  <2> QED BY <2>1, <2>2
<1>10. SocketsTyped' /\ Emptied'
  BY <1>0, <1>4, <1>9 DEF FeedInv, SocketsTyped, Emptied, Open
<1>11. HubsSound' /\ UNCHANGED <<hub, relay, ledger>>
  BY <1>4, HubsStay DEF FeedInv, relay
<1> QED
  BY <1>4, <1>7, <1>8, <1>10, <1>11
  DEF FeedInv, LedgerTyped, RelaysTyped, Addressed, Tied, Open, relay, ledger

LEMMA ReadsKeep ==
  ASSUME FeedInv, NEW c \in Clients, faults' \in 0..MaxFaults,
         \/ \E m \in Markets : Snapshot(c, m) \/ ReadFails(c, m)
         \/ \E a \in answers[c] : Answer(c, a)
  PROVE  FeedInv'
<1>1. UNCHANGED <<ledger, relay, sockets, socket, phase, fresh, page, believed, pending, acked>>
  BY DEF Snapshot, ReadFails, Answer
<1>2. ReadsTyped'
  <2>1. ASSUME NEW m \in Markets, Snapshot(c, m) PROVE ReadsTyped'
    <3>1. Price(m, version[m]) \in PriceEvent
      BY DEF FeedInv, LedgerTyped, Price, PriceEvent
    <3> QED BY <2>1, <3>1 DEF FeedInv, ReadsTyped, Snapshot
  <2>2. ASSUME NEW m \in Markets, ReadFails(c, m) PROVE ReadsTyped'
    BY <2>2 DEF FeedInv, ReadsTyped, ReadFails
  <2>3. ASSUME NEW a \in answers[c], Answer(c, a) PROVE ReadsTyped'
    <3>1. a \in PriceEvent
      BY DEF FeedInv, ReadsTyped
    <3> QED BY <2>3, <3>1, ApplyKeeps DEF FeedInv, ReadsTyped, Answer
  <2> QED BY <2>1, <2>2, <2>3
<1>3. HubsSound'
  BY <1>1, HubsStay DEF FeedInv, relay, sockets
<1> QED
  BY <1>1, <1>2, <1>3
  DEF FeedInv, LedgerTyped, RelaysTyped, SocketsTyped, PagesTyped, Addressed, Emptied, Tied, Open, relay, ledger, sockets

LEMMA RefreshKeeps ==
  ASSUME FeedInv, NEW c \in Clients, Refresh(c), faults' \in 0..MaxFaults
  PROVE  FeedInv'
<1>0. PagesTyped /\ ReadsTyped
  BY DEF FeedInv
<1>1. UNCHANGED <<ledger, relay, sockets, socket, page, believed, pending, acked, answers, unread, shown>>
  BY DEF Refresh
<1>2. Listed(Wanted(c))[1] \in Markets
  <2>1. Wanted(c) \in SUBSET Markets /\ Wanted(c) # {}
    BY <1>0, WantedMarkets
  <2>2. Listed(Wanted(c)) \in Seq(Markets) /\ Range(Listed(Wanted(c))) # {}
    BY <2>1, ListedMarkets
  <2>3. DOMAIN Listed(Wanted(c)) # {}
    BY <2>2 DEF Range
  <2>4. 1 \in DOMAIN Listed(Wanted(c))
    BY <2>2, <2>3
  <2> QED BY <2>2, <2>4
<1>3. PagesTyped' /\ ReadsTyped'
  <2>1. PagesTyped'
    BY <1>0, <1>1 DEF PagesTyped, Refresh
  <2> DEFINE one == Listed(Wanted(c))[1]
  <2>2. asked' \in {asked, [asked EXCEPT ![c] = @ \cup {one}]}
    BY DEF Refresh
  <2>3. one \in Markets
    BY <1>2
  <2> HIDE DEF one
  <2>4. asked' \in [Clients -> SUBSET Markets]
    BY <1>0, <2>2, <2>3 DEF ReadsTyped
  <2> QED BY <1>0, <1>1, <2>1, <2>4 DEF ReadsTyped
<1>4. HubsSound'
  BY <1>1, HubsStay DEF FeedInv, relay, sockets
<1>5. Tied'
  BY <1>0, <1>1 DEF FeedInv, Tied, PagesTyped, Refresh, Open, sockets
<1> QED
  BY <1>1, <1>3, <1>4, <1>5
  DEF FeedInv, LedgerTyped, RelaysTyped, SocketsTyped, Addressed, Emptied, Open, relay, ledger, sockets

LEMMA HandshakeKeeps ==
  ASSUME FeedInv, NEW c \in Clients, NEW k \in Sockets, NEW r \in Relays, Handshake(c, k, r),
         faults' \in 0..MaxFaults
  PROVE  FeedInv'
<1>0. /\ PagesTyped /\ ReadsTyped /\ SocketsTyped /\ HubsSound /\ Addressed /\ Emptied /\ Tied
      /\ NoRelay \notin Relays
  BY FeedAssumption DEF FeedInv
<1>1. /\ phase[c] = "closed" /\ at[k] = NoRelay /\ \A d \in Clients : socket[d] # k
      /\ UNCHANGED <<ledger, inbox, listening, gate, dropped, queue, done>>
  BY DEF Handshake
<1>2. LedgerTyped' /\ RelaysTyped'
  BY <1>1 DEF FeedInv, LedgerTyped, RelaysTyped, ledger
<1>3. CASE fresh[c]
  <2>1. /\ at' = [at EXCEPT ![k] = r] /\ hub' = [hub EXCEPT ![r] = AttachUser(@, k, UserOf[c])]
        /\ OnOpen(c, k)
    BY <1>3 DEF Handshake
  <2>2. PagesTyped' /\ ReadsTyped' /\ commands' \in [Sockets -> Seq(ClientCommand)]
    BY <1>0, <2>1, OnOpenKeeps
  <2>3. SocketsTyped'
    BY <1>0, <1>1, <2>1, <2>2 DEF SocketsTyped
  <2>4. \A q \in Relays : Served(q)' = IF q = r THEN Served(q) \cup {k} ELSE Served(q)
    BY <1>0, <1>1, <2>1 DEF Served, SocketsTyped
  <2>5. IsHub(hub[r]) /\ IndexesAgree(hub[r], Served(r)) /\ k \notin Served(r) /\ UserOf[c] \in Users
    BY <1>0, <1>1, FeedAssumption DEF HubsSound, Served
  <2>6. /\ IsHub(AttachUser(hub[r], k, UserOf[c]))
        /\ IndexesAgree(AttachUser(hub[r], k, UserOf[c]), Served(r) \cup {k})
        /\ \A x \in Served(r) : AttachUser(hub[r], k, UserOf[c]).userOf[x] = hub[r].userOf[x]
    <3> DEFINE h == hub[r]  mine == Served(r)  u == UserOf[c]
    <3>1. IsHub(h) /\ IndexesAgree(h, mine) /\ k \notin mine /\ u \in Users
      BY <2>5
    <3> HIDE DEF h, mine, u
    <3>2. /\ IsHub(AttachUser(h, k, u)) /\ IndexesAgree(AttachUser(h, k, u), mine \cup {k})
          /\ \A x \in mine : AttachUser(h, k, u).userOf[x] = h.userOf[x]
      BY <3>1, AttachAgrees
    <3> QED BY <3>2 DEF h, mine, u
  <2>7. /\ hub'[r] = AttachUser(hub[r], k, UserOf[c]) /\ \A q \in Relays \ {r} : hub'[q] = hub[q]
        /\ hub' = [q \in Relays |-> hub'[q]]
    BY <1>0, <2>1 DEF HubsSound
  <2>8. HubsSound'
    BY <1>0, <2>4, <2>6, <2>7 DEF HubsSound
  <2>9. Addressed'
    <3> SUFFICES ASSUME NEW x \in Sockets, Open(x)', NEW i \in DOMAIN queue[x], queue[x][i].kind = "order"
                 PROVE  queue[x][i].user = hub'[at'[x]].userOf[x]
      BY <1>1 DEF Addressed
    <3>1. x # k
      <4>1. queue[k] = <<>>
        BY <1>0, <1>1 DEF Emptied, Open
      <4> QED BY <4>1
    <3>2. Open(x) /\ at'[x] = at[x] /\ at[x] \in Relays
      BY <1>0, <2>1, <3>1 DEF Open, SocketsTyped
    <3>3. x \in Served(at[x])
      BY DEF Served
    <3>4. hub'[at[x]].userOf[x] = hub[at[x]].userOf[x]
      BY <2>6, <2>7, <3>2, <3>3
    <3> QED BY <1>0, <3>2, <3>4 DEF Addressed
  <2>10. Emptied'
    BY <1>0, <1>1, <2>1 DEF Emptied, Open, SocketsTyped, OnOpen
  <2>11. Tied'
    <3>1. socket' = [socket EXCEPT ![c] = k] /\ phase' = [phase EXCEPT ![c] = "open"]
      BY <2>1 DEF OnOpen
    <3>2. k # NoSocket
      BY FeedAssumption
    <3> QED BY <1>0, <1>1, <2>1, <3>1, <3>2 DEF Tied, Open, PagesTyped, SocketsTyped
  <2> QED BY <1>2, <2>2, <2>3, <2>8, <2>9, <2>10, <2>11 DEF FeedInv
<1>4. CASE ~fresh[c]
  <2>1. OnClose({c}, "expired") /\ UNCHANGED <<at, hub, commands>>
    BY <1>4 DEF Handshake
  <2>2. PagesTyped' /\ ReadsTyped'
    BY <1>0, <2>1, OnCloseKeeps
  <2>3. Tied'
    BY <1>0, <2>1 DEF Tied, Open, PagesTyped, OnClose
  <2>4. HubsSound'
    BY <1>0, <2>1, HubsStay
  <2> QED BY <1>0, <1>1, <1>2, <2>1, <2>2, <2>3, <2>4 DEF FeedInv, SocketsTyped, Addressed, Emptied, Open
<1> QED BY <1>3, <1>4

LEMMA ReadCommandKeeps ==
  ASSUME FeedInv, NEW k \in Sockets, ReadCommand(k), faults' \in 0..MaxFaults
  PROVE  FeedInv'
<1> DEFINE r == at[k]
           m == Head(commands[k]).market
           wants == Head(commands[k]).action = "subscribe"
           full == wants /\ TooManySubscriptions(hub[r], k, m)
           frame == IF full THEN ErrorFrame ELSE IF wants THEN SubscribedFrame(m) ELSE UnsubscribedFrame(m)
           h == IF full THEN hub[r] ELSE IF wants THEN Subscribe(hub[r], k, m) ELSE Unsubscribe(hub[r], k, m)
<1>0. /\ PagesTyped /\ ReadsTyped /\ SocketsTyped /\ HubsSound /\ Addressed /\ Emptied /\ Tied
      /\ NoRelay \notin Relays
  BY FeedAssumption DEF FeedInv
<1>1. /\ Open(k) /\ commands[k] # <<>> /\ commands' = [commands EXCEPT ![k] = Tail(@)]
      /\ hub' = [hub EXCEPT ![r] = h] /\ FanOut({k}, frame)
      /\ UNCHANGED <<ledger, inbox, listening, gate, dropped, at, client>>
  BY DEF ReadCommand
<1>2. r \in Relays /\ m \in Markets /\ Tail(commands[k]) \in Seq(ClientCommand)
  <2>1. commands[k] \in Seq(ClientCommand) /\ at[k] \in Relays
    BY <1>0, <1>1 DEF SocketsTyped, Open
  <2>2. Head(commands[k]) \in ClientCommand /\ Tail(commands[k]) \in Seq(ClientCommand)
    BY <1>1, <2>1
  <2> QED BY <2>1, <2>2 DEF ClientCommand
<1>3. frame \in Frames /\ frame.kind # "order"
  BY <1>2 DEF Frames, SubscribedFrame, UnsubscribedFrame, ErrorFrame
<1>4. /\ IsHub(hub[r]) /\ IndexesAgree(hub[r], Served(r)) /\ k \in Served(r)
  BY <1>0, <1>2 DEF HubsSound, Served
<1> HIDE DEF r, m
<1>5. IsHub(h) /\ IndexesAgree(h, Served(r)) /\ h.userOf = hub[r].userOf
  <2>1. CASE full
    BY <1>4, <2>1
  <2>2. CASE ~full /\ wants
    BY <1>2, <1>4, <2>2, SubscribeAgrees
  <2>3. CASE ~full /\ ~wants
    BY <1>2, <1>4, <2>3, UnsubscribeAgrees
  <2> QED BY <2>1, <2>2, <2>3
<1> HIDE DEF h, frame
<1>6. /\ hub'[r] = h /\ \A q \in Relays \ {r} : hub'[q] = hub[q]
      /\ hub' = [q \in Relays |-> hub'[q]]
  BY <1>0, <1>1, <1>2 DEF HubsSound
<1>7. HubsSound'
  BY <1>0, <1>1, <1>5, <1>6 DEF HubsSound, Served
<1>8. \A x \in Sockets : Open(x) => hub'[at[x]].userOf[x] = hub[at[x]].userOf[x]
  BY <1>0, <1>5, <1>6 DEF SocketsTyped, Open
<1>9. /\ queue' \in [Sockets -> Seq(Frames)]
      /\ done' \in [Sockets -> SUBSET {"expired", "slow", "left", "internal"}]
      /\ Addressed'
      /\ \A x \in Sockets : ~Open(x) => queue'[x] = queue[x] /\ done'[x] = done[x]
  BY <1>1, <1>3, <1>8, FanOutKeeps
<1>10. SocketsTyped' /\ Emptied'
  BY <1>0, <1>1, <1>2, <1>9 DEF SocketsTyped, Emptied, Open
<1> QED
  BY <1>0, <1>1, <1>7, <1>9, <1>10
  DEF FeedInv, LedgerTyped, RelaysTyped, PagesTyped, ReadsTyped, Tied, Open, ledger, client

LEMMA PumpKeeps ==
  ASSUME FeedInv, NEW c \in Clients, NEW k \in Sockets, Pump(c, k), faults' \in 0..MaxFaults
  PROVE  FeedInv'
<1>0. PagesTyped /\ ReadsTyped /\ SocketsTyped /\ HubsSound /\ Addressed /\ Emptied /\ Tied
  BY DEF FeedInv
<1>1. /\ Open(k) /\ queue[k] # <<>> /\ queue' = [queue EXCEPT ![k] = Tail(@)]
      /\ OnMessage(c, Head(queue[k])) /\ UNCHANGED <<ledger, relay, at, commands, done>>
  BY DEF Pump
<1>2. queue[k] \in Seq(Frames) /\ Head(queue[k]) \in Frames /\ Tail(queue[k]) \in Seq(Frames)
  BY <1>0, <1>1, FramesLeft DEF SocketsTyped
<1>3. PagesTyped' /\ ReadsTyped' /\ UNCHANGED <<socket, phase>>
  BY <1>0, <1>1, <1>2, OnMessageKeeps DEF OnMessage
<1>4. SocketsTyped' /\ Emptied'
  BY <1>0, <1>1, <1>2 DEF SocketsTyped, Emptied, Open
<1>5. Addressed'
  <2> SUFFICES ASSUME NEW x \in Sockets, Open(x), NEW i \in DOMAIN queue'[x], queue'[x][i].kind = "order"
               PROVE  queue'[x][i].user = hub[at[x]].userOf[x]
    BY <1>1 DEF Addressed, Open, relay
  <2>1. CASE x = k
    <3>1. i + 1 \in DOMAIN queue[k] /\ queue'[x][i] = queue[k][i + 1]
      BY <1>0, <1>1, <1>2, <2>1 DEF SocketsTyped
    <3> QED BY <1>0, <2>1, <3>1 DEF Addressed
  <2>2. CASE x # k
    BY <1>0, <1>1, <2>2 DEF Addressed, SocketsTyped
  <2> QED BY <2>1, <2>2
<1>6. HubsSound'
  BY <1>0, <1>1, HubsStay DEF relay
<1> QED
  BY <1>0, <1>1, <1>3, <1>4, <1>5, <1>6
  DEF FeedInv, LedgerTyped, RelaysTyped, Tied, Open, ledger, relay

LEMMA ExpireKeeps ==
  ASSUME FeedInv, NEW c \in Clients, Expire(c), faults' \in 0..MaxFaults
  PROVE  FeedInv'
<1>0. PagesTyped /\ SocketsTyped /\ HubsSound /\ Emptied /\ Tied
  BY DEF FeedInv
<1>1. UNCHANGED <<ledger, relay, at, queue, commands, socket, phase, page, believed, pending, acked, asked, answers, unread, shown>>
  BY DEF Expire
<1>2. PagesTyped' /\ SocketsTyped'
  BY <1>0, <1>1 DEF PagesTyped, SocketsTyped, Expire
<1>3. Emptied'
  BY <1>0, <1>1, FeedAssumption DEF Emptied, Open, Tied, Expire, SocketsTyped
<1>4. HubsSound'
  BY <1>0, <1>1, HubsStay DEF relay
<1> QED
  BY <1>1, <1>2, <1>3, <1>4
  DEF FeedInv, LedgerTyped, RelaysTyped, ReadsTyped, Addressed, Tied, Open, ledger, relay

LEMMA NoticeKeeps ==
  ASSUME FeedInv, NEW k \in Sockets, Notice(k), faults' \in 0..MaxFaults
  PROVE  FeedInv'
<1>0. SocketsTyped /\ HubsSound /\ Emptied
  BY DEF FeedInv
<1>1. Open(k) /\ UNCHANGED <<ledger, relay, at, queue, commands, client>>
  BY DEF Notice
<1>2. PICK how \in {"left", "internal"} : done' = [done EXCEPT ![k] = @ \cup {how}]
  BY DEF Notice
<1>3. SocketsTyped' /\ Emptied'
  BY <1>0, <1>1, <1>2 DEF SocketsTyped, Emptied, Open
<1>4. HubsSound'
  BY <1>0, <1>1, HubsStay DEF relay
<1> QED
  BY <1>1, <1>3, <1>4
  DEF FeedInv, LedgerTyped, RelaysTyped, PagesTyped, ReadsTyped, Addressed, Tied, Open, ledger, relay, client

LEMMA DropKeeps ==
  ASSUME FeedInv, NEW c \in Clients, Drop(c), faults' \in 0..MaxFaults
  PROVE  FeedInv'
<1>0. PagesTyped /\ ReadsTyped /\ HubsSound /\ Tied
  BY DEF FeedInv
<1>1. OnClose({c}, "gone") /\ UNCHANGED <<ledger, relay, sockets>>
  BY DEF Drop
<1>2. PagesTyped' /\ ReadsTyped'
  BY <1>0, <1>1, OnCloseKeeps
<1>3. Tied'
  BY <1>0, <1>1 DEF Tied, Open, PagesTyped, OnClose, sockets
<1>4. HubsSound'
  BY <1>0, <1>1, HubsStay DEF relay, sockets
<1> QED
  BY <1>1, <1>2, <1>3, <1>4
  DEF FeedInv, LedgerTyped, RelaysTyped, SocketsTyped, Addressed, Emptied, Open, ledger, relay, sockets

LEMMA FinishKeeps ==
  ASSUME FeedInv, NEW k \in Sockets, Finish(k), faults' \in 0..MaxFaults
  PROVE  FeedInv'
<1> DEFINE r == at[k]
           closed == {c \in Clients : socket[c] = k}
<1>0. /\ PagesTyped /\ ReadsTyped /\ SocketsTyped /\ HubsSound /\ Addressed /\ Emptied /\ Tied
      /\ NoRelay \notin Relays /\ NoSocket \notin Sockets
  BY FeedAssumption DEF FeedInv
<1>1. /\ Open(k) /\ hub' = [hub EXCEPT ![r] = Forget(@, k)] /\ at' = [at EXCEPT ![k] = NoRelay]
      /\ done' = [done EXCEPT ![k] = {}] /\ queue' = [queue EXCEPT ![k] = <<>>]
      /\ commands' = [commands EXCEPT ![k] = <<>>]
      /\ UNCHANGED <<ledger, inbox, listening, gate, dropped>>
  BY DEF Finish
<1>2. PICK code : OnClose(closed, code)
  BY DEF Finish
<1>3. PagesTyped' /\ ReadsTyped'
  BY <1>0, <1>2, OnCloseKeeps
<1>4. r \in Relays
  BY <1>0, <1>1 DEF SocketsTyped, Open
<1> HIDE DEF r
<1>5. \A q \in Relays : Served(q)' = IF q = r THEN Served(q) \ {k} ELSE Served(q)
  BY <1>0, <1>1, <1>4 DEF Served, SocketsTyped, r
<1>6. IsHub(hub[r]) /\ IndexesAgree(hub[r], Served(r)) /\ k \in Served(r) /\ Served(r) \subseteq Sockets
  BY <1>0, <1>4 DEF HubsSound, Served, r
<1>7. /\ IsHub(Forget(hub[r], k)) /\ IndexesAgree(Forget(hub[r], k), Served(r) \ {k})
      /\ \A x \in Served(r) \ {k} : Forget(hub[r], k).userOf[x] = hub[r].userOf[x]
  BY <1>6, ForgetAgrees
<1>8. /\ hub'[r] = Forget(hub[r], k) /\ \A q \in Relays \ {r} : hub'[q] = hub[q]
      /\ hub' = [q \in Relays |-> hub'[q]]
  BY <1>0, <1>1, <1>4 DEF HubsSound
<1>9. HubsSound'
  BY <1>0, <1>5, <1>7, <1>8 DEF HubsSound
<1>10. SocketsTyped'
  <2>1. <<>> \in Seq(Frames) /\ <<>> \in Seq(ClientCommand)
    OBVIOUS
  <2> QED BY <1>0, <1>1, <2>1 DEF SocketsTyped
<1>11. Emptied'
  BY <1>0, <1>1 DEF Emptied, Open, SocketsTyped
<1>12. Addressed'
  <2> SUFFICES ASSUME NEW x \in Sockets, Open(x)', NEW i \in DOMAIN queue'[x], queue'[x][i].kind = "order"
               PROVE  queue'[x][i].user = hub'[at'[x]].userOf[x]
    BY DEF Addressed
  <2>1. x # k /\ at'[x] = at[x] /\ queue'[x] = queue[x] /\ at[x] \in Relays /\ Open(x)
    BY <1>0, <1>1 DEF Open, SocketsTyped
  <2>2. x \in Served(at[x]) \ {k}
    BY <2>1 DEF Served
  <2>3. hub'[at[x]].userOf[x] = hub[at[x]].userOf[x]
    BY <1>7, <1>8, <2>1, <2>2
  <2> QED BY <1>0, <2>1, <2>3 DEF Addressed
<1>13. Tied'
  BY <1>0, <1>1, <1>2 DEF Tied, Open, PagesTyped, SocketsTyped, OnClose
<1>14. LedgerTyped' /\ RelaysTyped'
  BY <1>1 DEF FeedInv, LedgerTyped, RelaysTyped, ledger
<1> QED BY <1>3, <1>9, <1>10, <1>11, <1>12, <1>13, <1>14 DEF FeedInv

LEMMA RestartKeeps ==
  ASSUME FeedInv, NEW r \in Relays, Restart(r), faults' \in 0..MaxFaults
  PROVE  FeedInv'
<1> DEFINE mine == {k \in Sockets : at[k] = r}
           closed == {c \in Clients : socket[c] \in mine}
<1>0. /\ PagesTyped /\ ReadsTyped /\ SocketsTyped /\ RelaysTyped /\ HubsSound /\ Addressed /\ Emptied /\ Tied
      /\ NoRelay \notin Relays /\ NoSocket \notin Sockets
  BY FeedAssumption DEF FeedInv
<1>1. /\ listening' = [listening EXCEPT ![r] = FALSE] /\ inbox' = [inbox EXCEPT ![r] = <<>>]
      /\ dropped' = [dropped EXCEPT ![r] = Lost(r, Range(inbox[r]))]
      /\ gate' = [gate EXCEPT ![r] = [m \in Markets |-> 0]] /\ hub' = [hub EXCEPT ![r] = EmptyHub]
      /\ OnClose(closed, "gone") /\ UNCHANGED ledger
  BY DEF Restart
<1>2. /\ at' = [k \in Sockets |-> IF k \in mine THEN NoRelay ELSE at[k]]
      /\ queue' = [k \in Sockets |-> IF k \in mine THEN <<>> ELSE queue[k]]
      /\ commands' = [k \in Sockets |-> IF k \in mine THEN <<>> ELSE commands[k]]
      /\ done' = [k \in Sockets |-> IF k \in mine THEN {} ELSE done[k]]
  BY DEF Restart
<1>3. PagesTyped' /\ ReadsTyped'
  BY <1>0, <1>1, OnCloseKeeps
<1>4. RelaysTyped'
  <2>1. Lost(r, Range(inbox[r])) \in [Markets -> BOOLEAN] /\ [m \in Markets |-> 0] \in [Markets -> Nat]
    BY LostType
  <2>2. <<>> \in Seq(PriceEvent \cup OrderEvent)
    OBVIOUS
  <2> QED BY <1>0, <1>1, <2>1, <2>2 DEF RelaysTyped
<1>5. SocketsTyped'
  <2>1. <<>> \in Seq(Frames) /\ <<>> \in Seq(ClientCommand)
    OBVIOUS
  <2> QED BY <1>0, <1>2, <2>1 DEF SocketsTyped
<1>6. Emptied'
  BY <1>0, <1>2 DEF Emptied, Open
<1>7. \A q \in Relays : Served(q)' = IF q = r THEN {} ELSE Served(q)
  BY <1>0, <1>2 DEF Served
<1>8. HubsSound'
  BY <1>0, <1>1, <1>7, EmptyAgrees DEF HubsSound
<1>9. Addressed'
  BY <1>0, <1>1, <1>2 DEF Addressed, Open, HubsSound, SocketsTyped
<1>10. Tied'
  BY <1>0, <1>1, <1>2 DEF Tied, Open, PagesTyped, SocketsTyped, OnClose
<1>11. LedgerTyped'
  BY <1>1 DEF FeedInv, LedgerTyped, ledger
<1> QED BY <1>3, <1>4, <1>5, <1>6, <1>8, <1>9, <1>10, <1>11 DEF FeedInv

LEMMA StillKeeps == ASSUME FeedInv, UNCHANGED vars PROVE FeedInv'
<1>1. HubsSound'
  BY HubsStay DEF FeedInv, vars, relay, sockets
<1> QED
  BY <1>1
  DEF FeedInv, LedgerTyped, RelaysTyped, SocketsTyped, PagesTyped, ReadsTyped, Addressed, Emptied, Tied, Open,
      vars, ledger, relay, sockets, client

LEMMA FeedNext == FeedInv /\ [Next]_vars => FeedInv'
<1> SUFFICES ASSUME FeedInv, [Next]_vars PROVE FeedInv'
  OBVIOUS
<1>1. CASE UNCHANGED vars
  BY <1>1, StillKeeps
<1> SUFFICES ASSUME Next PROVE FeedInv'
  BY <1>1
<1>2. faults' \in 0..MaxFaults
  BY FeedAssumption DEF FeedInv, LedgerTyped, Next, NoFault, Fault
<1>3. ASSUME NEW m \in Markets, Trade(m) PROVE FeedInv'
  BY <1>2, <1>3, TradeKeeps
<1>4. ASSUME NEW frames \in outbox, Publish(frames) \/ PublishAgain(frames) PROVE FeedInv'
  BY <1>2, <1>4, SendKeeps DEF Publish, PublishAgain
<1>5. ASSUME NEW frames \in outbox, PublishFails(frames) PROVE FeedInv'
  BY <1>2, <1>5, PublishFailsKeeps
<1>6. ASSUME NEW r \in Relays, Connect(r) \/ Disconnect(r) PROVE FeedInv'
  BY <1>2, <1>6, BusKeeps
<1>7. ASSUME NEW r \in Relays, Consume(r) PROVE FeedInv'
  BY <1>2, <1>7, ConsumeKeeps
<1>8. ASSUME NEW r \in Relays, Restart(r) PROVE FeedInv'
  BY <1>2, <1>8, RestartKeeps
<1>9. ASSUME NEW k \in Sockets, ReadCommand(k) PROVE FeedInv'
  BY <1>2, <1>9, ReadCommandKeeps
<1>10. ASSUME NEW k \in Sockets, Notice(k) PROVE FeedInv'
  BY <1>2, <1>10, NoticeKeeps
<1>11. ASSUME NEW k \in Sockets, Finish(k) PROVE FeedInv'
  BY <1>2, <1>11, FinishKeeps
<1>12. ASSUME NEW c \in Clients, Turn(c) PROVE FeedInv'
  BY <1>2, <1>12, TurnKeeps
<1>13. ASSUME NEW c \in Clients, Refresh(c) PROVE FeedInv'
  BY <1>2, <1>13, RefreshKeeps
<1>14. ASSUME NEW c \in Clients, Expire(c) PROVE FeedInv'
  BY <1>2, <1>14, ExpireKeeps
<1>15. ASSUME NEW c \in Clients, Drop(c) PROVE FeedInv'
  BY <1>2, <1>15, DropKeeps
<1>16. ASSUME NEW c \in Clients, NEW k \in Sockets, NEW r \in Relays, Handshake(c, k, r) PROVE FeedInv'
  BY <1>2, <1>16, HandshakeKeeps
<1>17. ASSUME NEW c \in Clients, NEW k \in Sockets, Pump(c, k) PROVE FeedInv'
  BY <1>2, <1>17, PumpKeeps
<1>18. ASSUME NEW c \in Clients, NEW m \in Markets, Snapshot(c, m) \/ ReadFails(c, m) PROVE FeedInv'
  BY <1>2, <1>18, ReadsKeep
<1>19. ASSUME NEW c \in Clients, NEW a \in answers[c], Answer(c, a) PROVE FeedInv'
  BY <1>2, <1>19, ReadsKeep
<1> QED
  BY <1>3, <1>4, <1>5, <1>6, <1>7, <1>8, <1>9, <1>10, <1>11, <1>12, <1>13, <1>14, <1>15, <1>16, <1>17,
     <1>18, <1>19 DEF Next

\* The relays' indexes agree with each other and with the sockets they serve,
\* and no order's frame waits for another user, whatever connects, subscribes,
\* lags, drops or restarts (subscriptions.py).
THEOREM HubsAlwaysAgree == Spec => []HubsAgree
BY FeedInit, FeedNext, HubsAgreeFollows, PTL DEF Spec

LEMMA ShownStays ==
  ASSUME ReadsTyped, shown' = shown
  PROVE  \A c \in Clients, m \in Markets : shown'[c][m] >= shown[c][m]
BY DEF ReadsTyped

LEMMA ShownGrows ==
  FeedInv /\ [Next]_vars => [\A c \in Clients, m \in Markets : shown'[c][m] >= shown[c][m]]_vars
<1> SUFFICES ASSUME FeedInv, Next PROVE \A c \in Clients, m \in Markets : shown'[c][m] >= shown[c][m]
  OBVIOUS
<1>0. ReadsTyped /\ SocketsTyped
  BY DEF FeedInv
<1>1. ASSUME NEW c \in Clients, NEW a \in answers[c], Answer(c, a)
      PROVE  \A d \in Clients, m \in Markets : shown'[d][m] >= shown[d][m]
  <2>1. a \in PriceEvent /\ shown' = Apply(c, a)
    BY <1>0, <1>1 DEF ReadsTyped, Answer
  <2> QED BY <1>0, <2>1, ApplyKeeps
<1>2. ASSUME NEW c \in Clients, NEW k \in Sockets, Pump(c, k)
      PROVE  \A d \in Clients, m \in Markets : shown'[d][m] >= shown[d][m]
  <2> DEFINE f == Head(queue[k])
  <2>1. f \in Frames /\ OnMessage(c, f)
    BY <1>0, <1>2, FramesLeft DEF SocketsTyped, Pump
  <2> HIDE DEF f
  <2>2. CASE f.kind = "price"
    <3>1. f \in PriceEvent /\ shown' = Apply(c, f)
      BY <2>1, <2>2 DEF OnMessage, Frames, OrderEvent, ErrorFrame
    <3> QED BY <1>0, <3>1, ApplyKeeps
  <2>3. CASE f.kind # "price"
    <3>1. shown' = shown
      BY <2>1, <2>3 DEF OnMessage, ReportAcked
    <3> QED BY <1>0, <3>1, ShownStays
  <2> QED BY <2>2, <2>3
<1>3. CASE shown' = shown
  BY <1>0, <1>3, ShownStays
<1>4. \/ \E c \in Clients : \E a \in answers[c] : Answer(c, a)
      \/ \E c \in Clients, k \in Sockets : Pump(c, k)
      \/ shown' = shown
  BY DEF Next, Trade, Publish, PublishAgain, Send, PublishFails, Connect, Disconnect, Consume, Restart, ReadCommand,
         Notice, Finish, Turn, Refresh, Expire, Drop, Handshake, Snapshot, ReadFails, OnOpen, OnClose, client
<1> QED BY <1>1, <1>2, <1>3, <1>4

\* No page's price of a market ever goes back, for any number of relays and
\* reconnects and any order of arrival (usePriceSocket's apply; ADR 0010).
THEOREM NoPriceGoesBack == Spec => PricesNeverGoBack
BY FeedInit, FeedNext, ShownGrows, PTL DEF Spec, PricesNeverGoBack

-----------------------------------------------------------------------------
(* Nothing in flight is newer than what was committed *)

Due(e) == e.kind = "price" => e.version <= version[e.market]

InOutbox(e) == \E frames \in outbox : e \in Range(frames)

PricesDue ==
  /\ \A m \in Markets : /\ \A r \in Relays : gate[r][m] <= version[m]
                        /\ \A c \in Clients : shown[c][m] <= version[m]
  /\ \A frames \in outbox : \A e \in Range(frames) : Due(e)
  /\ \A r \in Relays : \A e \in Range(inbox[r]) : Due(e)
  /\ \A k \in Sockets : \A e \in Range(queue[k]) : Due(e)
  /\ \A c \in Clients : \A e \in answers[c] : Due(e)

LEMMA RangeTyped ==
  ASSUME NEW S, NEW s \in Seq(S)
  PROVE  Range(s) \subseteq S
BY DEF Range

LEMMA FanOutRanges ==
  ASSUME SocketsTyped, NEW watchers, NEW frame, FanOut(watchers, frame)
  PROVE  \A k \in Sockets :
           /\ Range(queue[k]) \subseteq Range(queue'[k]) /\ Range(queue'[k]) \subseteq Range(queue[k]) \cup {frame}
           /\ done'[k] = {} => done[k] = {}
           /\ k \in watchers /\ done'[k] = {} => frame \in Range(queue'[k])
<1> TAKE k \in Sockets
<1>1. queue[k] \in Seq(Frames) /\ Len(queue[k]) \in Nat
  BY DEF SocketsTyped
<1>2. Range(Append(queue[k], frame)) = Range(queue[k]) \cup {frame}
  BY <1>1, RangeAppend
<1>3. queue'[k] = queue[k] \/ queue'[k] = Append(queue[k], frame)
  BY DEF FanOut, Enqueue
<1>4. done'[k] = {} => done[k] = {}
  BY DEF FanOut
<1>5. k \in watchers /\ done'[k] = {} => queue'[k] = Append(queue[k], frame)
  BY <1>1, <1>4 DEF FanOut, Enqueue, Failed
<1> QED BY <1>2, <1>3, <1>4, <1>5

LEMMA SendRanges ==
  ASSUME FeedInv, NEW frames \in outbox, Send(frames), outbox' \in {Without(frames), outbox}
  PROVE  /\ \A r \in Relays :
              /\ Range(inbox[r]) \subseteq Range(inbox'[r])
              /\ Range(inbox'[r]) \subseteq Range(inbox[r]) \cup {Head(frames)}
              /\ listening[r] => Head(frames) \in Range(inbox'[r]) /\ dropped'[r] = dropped[r]
              /\ ~listening[r] => dropped'[r] = Lost(r, {Head(frames)})
         /\ InOutbox(Head(frames))
         /\ \A e : InOutbox(e)' => InOutbox(e)
         /\ \A e : InOutbox(e) => InOutbox(e)' \/ e = Head(frames)
<1> DEFINE e0 == Head(frames)
<1>1. frames \in Seq(PriceEvent \cup OrderEvent) /\ frames # <<>> /\ RelaysTyped
  BY DEF FeedInv, LedgerTyped
<1>2. Range(frames) = Range(Tail(frames)) \cup {e0}
  BY <1>1, RangeHead
<1>3. Len(frames) = 1 => Range(Tail(frames)) = {}
  BY <1>1, RangeHead
<1> HIDE DEF e0
<1>4. ASSUME NEW r \in Relays
      PROVE  /\ Range(inbox[r]) \subseteq Range(inbox'[r]) /\ Range(inbox'[r]) \subseteq Range(inbox[r]) \cup {e0}
             /\ listening[r] => e0 \in Range(inbox'[r])
  <2>1. inbox'[r] = IF listening[r] THEN Append(inbox[r], e0) ELSE inbox[r]
    BY DEF Send, e0
  <2>2. Range(Append(inbox[r], e0)) = Range(inbox[r]) \cup {e0}
    BY <1>1, RangeAppend DEF RelaysTyped
  <2> QED BY <2>1, <2>2
<1>5. \A r \in Relays : dropped'[r] = IF listening[r] THEN dropped[r] ELSE Lost(r, {e0})
  BY DEF Send, e0
<1>6. InOutbox(e0)
  BY <1>2 DEF InOutbox
<1>7. ASSUME NEW e, InOutbox(e)' PROVE InOutbox(e)
  <2>1. PICK f \in outbox' : e \in Range(f)
    BY <1>7 DEF InOutbox
  <2>2. f \in outbox \/ f = Tail(frames)
    BY <2>1 DEF Without
  <2> QED BY <1>2, <2>1, <2>2 DEF InOutbox
<1>8. ASSUME NEW e, InOutbox(e), e # e0 PROVE InOutbox(e)'
  <2>1. PICK f \in outbox : e \in Range(f)
    BY <1>8 DEF InOutbox
  <2>2. CASE f # frames
    <3>1. f \in outbox'
      BY <2>2 DEF Without
    <3> QED BY <2>1, <3>1 DEF InOutbox
  <2>3. CASE f = frames
    <3>1. e \in Range(Tail(frames)) /\ Len(frames) # 1
      BY <1>2, <1>3, <1>8, <2>1, <2>3
    <3>2. f \in outbox' \/ Tail(frames) \in outbox'
      BY <2>3, <3>1 DEF Without
    <3> QED BY <2>1, <3>1, <3>2 DEF InOutbox
  <2> QED BY <2>2, <2>3
<1> QED BY <1>4, <1>5, <1>6, <1>7, <1>8 DEF e0

LEMMA FailRanges ==
  ASSUME FeedInv, NEW frames \in outbox, PublishFails(frames)
  PROVE  /\ \A e : InOutbox(e)' => InOutbox(e)
         /\ \E gone \in SUBSET Range(frames) :
              /\ \A e : InOutbox(e) => InOutbox(e)' \/ e \in gone
              /\ dropped' = [r \in Relays |-> Lost(r, gone)]
<1>1. frames \in Seq(PriceEvent \cup OrderEvent) /\ frames # <<>>
  BY DEF FeedInv, LedgerTyped
<1>2. Range(frames) = Range(Tail(frames)) \cup {Head(frames)}
  BY <1>1, RangeHead
<1>3. Len(frames) = 1 => Range(Tail(frames)) = {}
  BY <1>1, RangeHead
<1>4. CASE outbox' = Without(frames) /\ dropped' = [r \in Relays |-> Lost(r, {Head(frames)})]
  <2>1. ASSUME NEW e, InOutbox(e)' PROVE InOutbox(e)
    BY <1>2, <1>4, <2>1 DEF InOutbox, Without
  <2>2. ASSUME NEW e, InOutbox(e), e # Head(frames) PROVE InOutbox(e)'
    <3>1. PICK f \in outbox : e \in Range(f)
      BY <2>2 DEF InOutbox
    <3>2. CASE f # frames
      <4>1. f \in outbox'
        BY <1>4, <3>2 DEF Without
      <4> QED BY <3>1, <4>1 DEF InOutbox
    <3>3. CASE f = frames
      <4>1. e \in Range(Tail(frames)) /\ Len(frames) # 1
        BY <1>2, <1>3, <2>2, <3>1, <3>3
      <4>2. Tail(frames) \in outbox'
        BY <1>4, <4>1 DEF Without
      <4> QED BY <4>1, <4>2 DEF InOutbox
    <3> QED BY <3>2, <3>3
  <2>3. {Head(frames)} \in SUBSET Range(frames)
    BY <1>2
  <2> QED BY <1>4, <2>1, <2>2, <2>3
<1>5. CASE outbox' = outbox \ {frames} /\ dropped' = [r \in Relays |-> Lost(r, Range(frames))]
  <2>1. \A e : InOutbox(e)' => InOutbox(e)
    BY <1>5 DEF InOutbox
  <2>2. \A e : InOutbox(e) => InOutbox(e)' \/ e \in Range(frames)
    BY <1>5 DEF InOutbox
  <2>3. Range(frames) \in SUBSET Range(frames)
    OBVIOUS
  <2> QED BY <1>5, <2>1, <2>2, <2>3
<1> QED BY <1>4, <1>5 DEF PublishFails

LEMMA ConsumeRanges ==
  ASSUME FeedInv, NEW r \in Relays, Consume(r)
  PROVE  /\ Head(inbox[r]) \in PriceEvent \cup OrderEvent
         /\ Range(inbox[r]) = Range(inbox'[r]) \cup {Head(inbox[r])}
         /\ \A q \in Relays \ {r} : inbox'[q] = inbox[q]
         /\ \A k \in Sockets :
              /\ Range(queue[k]) \subseteq Range(queue'[k])
              /\ Range(queue'[k]) \subseteq Range(queue[k]) \cup {Head(inbox[r])}
              /\ done'[k] = {} => done[k] = {}
<1>1. RelaysTyped /\ SocketsTyped /\ inbox[r] \in Seq(PriceEvent \cup OrderEvent) /\ inbox[r] # <<>>
      /\ inbox' = [inbox EXCEPT ![r] = Tail(@)]
  BY DEF FeedInv, RelaysTyped, Consume
<1>2. Head(inbox[r]) \in PriceEvent \cup OrderEvent /\ Range(inbox[r]) = Range(Tail(inbox[r])) \cup {Head(inbox[r])}
  BY <1>1, RangeHead
<1>3. inbox'[r] = Tail(inbox[r]) /\ \A q \in Relays \ {r} : inbox'[q] = inbox[q]
  BY <1>1 DEF RelaysTyped
<1>4. \/ \E watchers : FanOut(watchers, Head(inbox[r]))
      \/ UNCHANGED <<queue, done>>
  BY DEF Consume, Dispatch, DispatchOrder
<1> QED BY <1>1, <1>2, <1>3, <1>4, FanOutRanges

LEMMA TradeRanges ==
  ASSUME FeedInv, NEW m \in Markets, Trade(m)
  PROVE  /\ version' \in [Markets -> Nat] /\ version'[m] > version[m]
         /\ \A n \in Markets \ {m} : version'[n] = version[n]
         /\ outbox \subseteq outbox'
         /\ \E f \in outbox' : Price(m, version'[m]) \in Range(f)
         /\ \A e : InOutbox(e)' => InOutbox(e) \/ e = Price(m, version'[m]) \/ e.kind = "order"
         /\ \A r \in Relays : \A n \in Markets \ {m} : dropped'[r][n] = dropped[r][n]
<1>1. PICK by \in Jumps, owners \in SUBSET Users :
        LET v == version[m] + by IN
        /\ version' = [version EXCEPT ![m] = v]
        /\ outbox' = outbox \cup {<<Price(m, v)>> \o SetToSeq({Order(m, v, u) : u \in owners})}
        /\ dropped' = [r \in Relays |-> [dropped[r] EXCEPT ![m] = FALSE]]
  BY DEF Trade
<1> DEFINE v == version[m] + by
           T == {Order(m, v, u) : u \in owners}
           orders == SetToSeq(T)
<1>2. /\ by \in Nat \ {0} /\ version \in [Markets -> Nat] /\ dropped \in [Relays -> [Markets -> BOOLEAN]]
  BY FeedAssumption DEF FeedInv, LedgerTyped, RelaysTyped
<1>3. /\ version' \in [Markets -> Nat] /\ version'[m] = v /\ v > version[m]
      /\ \A n \in Markets \ {m} : version'[n] = version[n]
  BY <1>1, <1>2
<1>4. orders \in Seq(T) /\ Range(orders) = T
  <2>1. IsFiniteSet(T)
    BY OrdersFinite
  <2> QED BY <2>1, ListedType
<1>5. \A e \in T : e.kind = "order"
  BY DEF Order
<1> HIDE DEF T, orders
<1>6. Range(<<Price(m, v)>> \o orders) = {Price(m, v)} \cup T
  <2> DEFINE p == Price(m, v)  S == T \cup {p}
  <2>1. <<p>> \in Seq(S) /\ orders \in Seq(S)
    BY <1>4
  <2>2. Range(<<p>>) = {p}
    BY DEF Range
  <2> DEFINE q == <<p>>
  <2> HIDE DEF S, q
  <2>3. Range(q \o orders) = Range(q) \cup Range(orders)
    BY <2>1, RangeConcat DEF q
  <2> QED BY <1>4, <2>2, <2>3 DEF q
<1> DEFINE new == <<Price(m, v)>> \o orders
<1>7. outbox' = outbox \cup {new} /\ Range(new) = {Price(m, v)} \cup T
  BY <1>1, <1>6 DEF orders, T
<1> HIDE DEF new
<1>8. \A r \in Relays : \A n \in Markets \ {m} : dropped'[r][n] = dropped[r][n]
  BY <1>1, <1>2
<1> HIDE DEF v
<1>9. \E f \in outbox' : Price(m, v) \in Range(f)
  BY <1>7
<1>10. \A e : InOutbox(e)' => InOutbox(e) \/ e = Price(m, v) \/ e.kind = "order"
  <2> TAKE e
  <2> SUFFICES ASSUME NEW f \in outbox', e \in Range(f)
               PROVE  InOutbox(e) \/ e = Price(m, v) \/ e.kind = "order"
    BY DEF InOutbox
  <2>1. f \in outbox \/ f = new
    BY <1>7
  <2> QED BY <1>5, <1>7, <2>1 DEF InOutbox
<1> QED BY <1>3, <1>7, <1>8, <1>9, <1>10

LEMMA DueSame == ASSUME version' = version PROVE \A e : Due(e)' <=> Due(e)
BY DEF Due

LEMMA OutboxDue == ASSUME PricesDue, NEW e, InOutbox(e) PROVE Due(e)
BY DEF PricesDue, InOutbox

LEMMA PriceIs ==
  /\ \A m, v : Price(m, v).kind = "price" /\ Price(m, v).market = m /\ Price(m, v).version = v
  /\ \A e \in Frames : e.kind = "price" => e \in PriceEvent /\ e = Price(e.market, e.version)
  /\ PriceEvent \cup OrderEvent \subseteq Frames
BY DEF Price, Frames, PriceEvent, OrderEvent, ErrorFrame

\* What is applied was due.
LEMMA AppliedDue ==
  ASSUME ReadsTyped, PricesDue, NEW c \in Clients, NEW e \in PriceEvent, Due(e), shown' = Apply(c, e)
  PROVE  /\ \A d \in Clients, m \in Markets : shown'[d][m] <= version[m] /\ shown'[d][m] >= shown[d][m]
         /\ shown'[c][e.market] >= e.version
<1>1. e.market \in Markets /\ e.version \in Nat /\ e.kind = "price"
  BY DEF PriceEvent
<1>2. shown \in [Clients -> [Markets -> Nat \cup {-1}]]
  BY DEF ReadsTyped
<1>3. e.version <= version[e.market]
  BY <1>1 DEF Due
<1> QED BY <1>1, <1>2, <1>3 DEF Apply, PricesDue

LEMMA PricesDueInit == Init => PricesDue
<1> SUFFICES ASSUME Init PROVE PricesDue
  OBVIOUS
<1>1. \A r \in Relays : Range(inbox[r]) = {}
  BY DEF Init, Range
<1>2. \A k \in Sockets : Range(queue[k]) = {}
  BY DEF Init, Range
<1> QED BY <1>1, <1>2 DEF Init, PricesDue

LEMMA PricesDueNext ==
  ASSUME FeedInv, PricesDue, [Next]_vars
  PROVE  PricesDue'
<1>0. /\ LedgerTyped /\ RelaysTyped /\ SocketsTyped /\ ReadsTyped
      /\ version \in [Markets -> Nat] /\ gate \in [Relays -> [Markets -> Nat]]
      /\ shown \in [Clients -> [Markets -> Nat \cup {-1}]]
  BY DEF FeedInv, LedgerTyped, RelaysTyped, ReadsTyped
<1>1. ASSUME NEW m \in Markets, Trade(m) PROVE PricesDue'
  <2>1. /\ version' \in [Markets -> Nat] /\ version'[m] > version[m]
        /\ \A n \in Markets \ {m} : version'[n] = version[n]
        /\ \A e : InOutbox(e)' => InOutbox(e) \/ e = Price(m, version'[m]) \/ e.kind = "order"
    BY <1>1, TradeRanges
  <2>2. UNCHANGED <<inbox, gate, queue, answers, shown>>
    BY <1>1 DEF Trade, sockets, client
  <2>3. \A e \in Frames : Due(e) => Due(e)'
    <3>1. \A n \in Markets : version[n] <= version'[n] /\ version'[n] \in Nat
      BY <1>0, <2>1
    <3>2. \A e \in Frames : e.kind = "price" => e.market \in Markets /\ e.version \in Nat
      BY PriceIs DEF PriceEvent
    <3> QED BY <1>0, <3>1, <3>2 DEF Due
  <2>4. ASSUME NEW e, InOutbox(e)' PROVE Due(e)'
    <3>1. CASE InOutbox(e)
      <4>1. e \in Frames
        BY <1>0, <3>1, RangeTyped, PriceIs DEF InOutbox, LedgerTyped
      <4> QED BY <2>3, <3>1, <4>1, OutboxDue
    <3>2. CASE e = Price(m, version'[m])
      BY <2>1, <3>2 DEF Due, Price
    <3>3. CASE e.kind = "order"
      BY <3>3 DEF Due
    <3> QED BY <2>1, <2>4, <3>1, <3>2, <3>3
  <2>5. \A r \in Relays : Range(inbox[r]) \subseteq Frames
    BY <1>0, RangeTyped, PriceIs DEF RelaysTyped
  <2>6. \A k \in Sockets : Range(queue[k]) \subseteq Frames
    BY <1>0, RangeTyped DEF SocketsTyped
  <2>7. \A c \in Clients : answers[c] \subseteq Frames
    BY <1>0, PriceIs DEF ReadsTyped
  <2>8. \A n \in Markets : /\ \A r \in Relays : gate[r][n] <= version'[n]
                           /\ \A c \in Clients : shown[c][n] <= version'[n]
    <3>1. \A n \in Markets : version[n] \in Nat /\ version[n] <= version'[n] /\ version'[n] \in Int
      BY <1>0, <2>1
    <3> QED BY <1>0, <3>1 DEF PricesDue
  <2>9. \A frames \in outbox' : \A e \in Range(frames) : Due(e)'
    BY <2>4 DEF InOutbox
  <2> QED BY <2>2, <2>3, <2>5, <2>6, <2>7, <2>8, <2>9 DEF PricesDue
<1>2. ASSUME version' = version, UNCHANGED <<gate, shown, queue, answers>>,
             \A e : InOutbox(e)' => InOutbox(e),
             \A r \in Relays : \A e \in Range(inbox'[r]) : e \in Range(inbox[r]) \/ InOutbox(e)
      PROVE  PricesDue'
  <2>1. \A e : Due(e)' <=> Due(e)
    BY <1>2, DueSame
  <2>2. \A frames \in outbox' : \A e \in Range(frames) : Due(e)
    BY <1>2, OutboxDue DEF InOutbox
  <2>3. \A r \in Relays : \A e \in Range(inbox'[r]) : Due(e)
    BY <1>2, OutboxDue DEF PricesDue
  <2> QED BY <1>2, <2>1, <2>2, <2>3 DEF PricesDue
<1>3. ASSUME NEW frames \in outbox, Publish(frames) \/ PublishAgain(frames) PROVE PricesDue'
  <2>1. Send(frames) /\ outbox' \in {Without(frames), outbox}
    BY <1>3 DEF Publish, PublishAgain
  <2>2. version' = version /\ UNCHANGED <<gate, shown, queue, answers>>
    BY <2>1 DEF Send, sockets, client
  <2> QED BY <1>2, <2>1, <2>2, SendRanges
<1>4. ASSUME NEW frames \in outbox, PublishFails(frames) PROVE PricesDue'
  <2>1. version' = version /\ UNCHANGED <<gate, shown, queue, answers, inbox>>
    BY <1>4 DEF PublishFails, sockets, client
  <2> QED BY <1>2, <1>4, <2>1, FailRanges
<1>5. ASSUME NEW r \in Relays, Disconnect(r) PROVE PricesDue'
  <2>1. version' = version /\ UNCHANGED <<gate, shown, queue, answers, outbox>>
    BY <1>5 DEF Disconnect, sockets, client, ledger
  <2>2. \A q \in Relays : Range(inbox'[q]) \subseteq Range(inbox[q])
    BY <1>0, <1>5 DEF Disconnect, Range, RelaysTyped
  <2> QED BY <1>2, <2>1, <2>2 DEF InOutbox
<1>6. ASSUME NEW r \in Relays, Consume(r) PROVE PricesDue'
  <2> DEFINE e0 == Head(inbox[r])
  <2>1. UNCHANGED <<version, outbox, shown, answers>>
    BY <1>6 DEF Consume, ledger, client
  <2>2. /\ e0 \in PriceEvent \cup OrderEvent /\ Range(inbox[r]) = Range(inbox'[r]) \cup {e0}
        /\ \A q \in Relays \ {r} : inbox'[q] = inbox[q]
        /\ \A k \in Sockets : Range(queue'[k]) \subseteq Range(queue[k]) \cup {e0}
    BY <1>6, ConsumeRanges
  <2>3. Due(e0) /\ \A e : Due(e)' <=> Due(e)
    BY <2>1, <2>2, DueSame DEF PricesDue
  <2>4. \/ e0.kind = "price" /\ gate' = [gate EXCEPT ![r][e0.market] = e0.version]
        \/ gate' = gate
    BY <1>6 DEF Consume, Dispatch, DispatchOrder
  <2> HIDE DEF e0
  <2>5. \A q \in Relays, m \in Markets : gate'[q][m] <= version[m]
    <3>1. e0.kind = "price" => e0.market \in Markets /\ e0.version \in Nat /\ e0.version <= version[e0.market]
      BY <2>2, <2>3 DEF Due, PriceEvent, OrderEvent
    <3> QED BY <1>0, <2>4, <3>1 DEF PricesDue
  <2>6. \A q \in Relays : Range(inbox'[q]) \subseteq Range(inbox[q])
    BY <2>2
  <2>7. \A k \in Sockets : \A e \in Range(queue'[k]) : Due(e)
    BY <2>2, <2>3 DEF PricesDue
  <2> QED BY <2>1, <2>3, <2>5, <2>6, <2>7 DEF PricesDue
<1>7. ASSUME UNCHANGED <<version, outbox, inbox, gate, answers, shown>>,
             \A k \in Sockets : \A e \in Range(queue'[k]) : e \in Range(queue[k]) \/ e.kind # "price"
      PROVE  PricesDue'
  <2>1. \A e : Due(e)' <=> Due(e)
    BY <1>7, DueSame
  <2>2. \A k \in Sockets : \A e \in Range(queue'[k]) : Due(e)
    BY <1>7 DEF PricesDue, Due
  <2> QED BY <1>7, <2>1, <2>2 DEF PricesDue
<1>8. ASSUME NEW k \in Sockets, ReadCommand(k) PROVE PricesDue'
  <2>1. UNCHANGED <<version, outbox, inbox, gate, answers, shown>>
    BY <1>8 DEF ReadCommand, ledger, client
  <2>2. PICK frame : FanOut({k}, frame) /\ frame.kind # "price"
    <3>1. \A m : ErrorFrame.kind # "price" /\ SubscribedFrame(m).kind # "price" /\ UnsubscribedFrame(m).kind # "price"
      BY DEF ErrorFrame, SubscribedFrame, UnsubscribedFrame
    <3> QED BY <1>8, <3>1 DEF ReadCommand
  <2>3. \A x \in Sockets : Range(queue'[x]) \subseteq Range(queue[x]) \cup {frame}
    BY <1>0, <2>2, FanOutRanges
  <2> QED BY <1>7, <2>1, <2>2, <2>3
<1>9. ASSUME NEW k \in Sockets, Finish(k) PROVE PricesDue'
  <2>1. UNCHANGED <<version, outbox, inbox, gate, answers, shown>>
    BY <1>9 DEF Finish, ledger, OnClose
  <2>2. \A x \in Sockets : Range(queue'[x]) \subseteq Range(queue[x])
    BY <1>0, <1>9 DEF Finish, SocketsTyped, Range
  <2> QED BY <1>7, <2>1, <2>2
<1>10. ASSUME NEW r \in Relays, Restart(r) PROVE PricesDue'
  <2>1. UNCHANGED <<version, outbox, answers, shown>>
    BY <1>10 DEF Restart, ledger, OnClose
  <2>2. \A x \in Sockets : Range(queue'[x]) \subseteq Range(queue[x])
    BY <1>0, <1>10 DEF Restart, SocketsTyped, Range
  <2>3. \A q \in Relays : Range(inbox'[q]) \subseteq Range(inbox[q])
    BY <1>0, <1>10 DEF Restart, RelaysTyped, Range
  <2>4. \A q \in Relays, m \in Markets : gate'[q][m] <= version[m]
    BY <1>0, <1>10 DEF Restart, PricesDue
  <2>5. \A e : Due(e)' <=> Due(e)
    BY <2>1, DueSame
  <2> QED BY <2>1, <2>2, <2>3, <2>4, <2>5 DEF PricesDue
<1>11. ASSUME NEW c \in Clients, NEW k \in Sockets, Pump(c, k) PROVE PricesDue'
  <2> DEFINE f == Head(queue[k])
  <2>1. UNCHANGED <<version, outbox, inbox, gate, answers>> /\ OnMessage(c, f)
    BY <1>11 DEF Pump, ledger, relay, OnMessage
  <2>2. /\ queue[k] \in Seq(Frames) /\ queue[k] # <<>> /\ queue' = [queue EXCEPT ![k] = Tail(@)]
    BY <1>0, <1>11 DEF Pump, SocketsTyped
  <2>3. f \in Frames /\ Range(queue[k]) = Range(Tail(queue[k])) \cup {f}
    BY <2>2, RangeHead, FramesLeft
  <2>4. \A x \in Sockets : Range(queue'[x]) \subseteq Range(queue[x])
    BY <1>0, <2>2, <2>3 DEF SocketsTyped
  <2>5. Due(f)
    BY <2>3 DEF PricesDue
  <2> HIDE DEF f
  <2>6. \A d \in Clients, m \in Markets : shown'[d][m] <= version[m]
    <3>1. CASE f.kind = "price"
      <4>1. shown' = Apply(c, f) /\ f \in PriceEvent
        BY <2>1, <2>3, <3>1, PriceIs DEF OnMessage
      <4> QED BY <1>0, <2>5, <4>1, AppliedDue
    <3>2. CASE f.kind # "price"
      BY <2>1, <3>2 DEF OnMessage, PricesDue
    <3> QED BY <3>1, <3>2
  <2>7. \A e : Due(e)' <=> Due(e)
    BY <2>1, DueSame
  <2> QED BY <2>1, <2>4, <2>6, <2>7 DEF PricesDue
<1>12. ASSUME NEW c \in Clients, NEW m \in Markets, Snapshot(c, m) PROVE PricesDue'
  <2>1. UNCHANGED <<version, outbox, inbox, gate, queue, shown>>
    BY <1>12 DEF Snapshot, ledger, relay, sockets
  <2>2. \A e : Due(e)' <=> Due(e)
    BY <2>1, DueSame
  <2>3. Due(Price(m, version[m]))
    BY <1>0 DEF Due, Price
  <2>4. \A d \in Clients : answers'[d] \subseteq answers[d] \cup {Price(m, version[m])}
    BY <1>0, <1>12 DEF Snapshot, ReadsTyped
  <2> QED BY <2>1, <2>2, <2>3, <2>4 DEF PricesDue
<1>13. ASSUME NEW c \in Clients, NEW a \in answers[c], Answer(c, a) PROVE PricesDue'
  <2>1. UNCHANGED <<version, outbox, inbox, gate, queue>> /\ shown' = Apply(c, a)
        /\ answers' = [answers EXCEPT ![c] = @ \ {a}]
    BY <1>13 DEF Answer, ledger, relay, sockets
  <2>2. a \in PriceEvent /\ Due(a)
    BY <1>0 DEF ReadsTyped, PricesDue
  <2>3. \A d \in Clients, m \in Markets : shown'[d][m] <= version[m]
    BY <1>0, <2>1, <2>2, AppliedDue
  <2>4. \A d \in Clients : answers'[d] \subseteq answers[d]
    BY <1>0, <2>1 DEF ReadsTyped
  <2>5. \A e : Due(e)' <=> Due(e)
    BY <2>1, DueSame
  <2> QED BY <2>1, <2>3, <2>4, <2>5 DEF PricesDue
<1>14. CASE UNCHANGED <<version, outbox, inbox, gate, queue, answers, shown>>
  BY <1>7, <1>14
<1>15. \/ UNCHANGED <<version, outbox, inbox, gate, queue, answers, shown>>
       \/ \E m \in Markets : Trade(m)
       \/ \E frames \in outbox : Publish(frames) \/ PublishAgain(frames) \/ PublishFails(frames)
       \/ \E r \in Relays : Disconnect(r) \/ Consume(r) \/ Restart(r)
       \/ \E k \in Sockets : ReadCommand(k) \/ Finish(k)
       \/ \E c \in Clients, k \in Sockets : Pump(c, k)
       \/ \E c \in Clients, m \in Markets : Snapshot(c, m)
       \/ \E c \in Clients : \E a \in answers[c] : Answer(c, a)
  <2>1. ASSUME UNCHANGED vars PROVE UNCHANGED <<version, outbox, inbox, gate, queue, answers, shown>>
    BY <2>1 DEF vars, ledger, relay, sockets, client
  <2>2. ASSUME NEW r \in Relays, Connect(r) PROVE UNCHANGED <<version, outbox, inbox, gate, queue, answers, shown>>
    BY <2>2 DEF Connect, ledger, sockets, client
  <2>3. ASSUME NEW k \in Sockets, Notice(k) PROVE UNCHANGED <<version, outbox, inbox, gate, queue, answers, shown>>
    BY <2>3 DEF Notice, ledger, relay, client
  <2>4. ASSUME NEW c \in Clients, Turn(c) \/ Refresh(c) \/ Expire(c) \/ Drop(c)
        PROVE  UNCHANGED <<version, outbox, inbox, gate, queue, answers, shown>>
    BY <2>4 DEF Turn, Refresh, Expire, Drop, OnClose, ledger, relay, sockets
  <2>5. ASSUME NEW c \in Clients, NEW k \in Sockets, NEW r \in Relays, Handshake(c, k, r)
        PROVE  UNCHANGED <<version, outbox, inbox, gate, queue, answers, shown>>
    BY <2>5 DEF Handshake, OnOpen, OnClose, ledger
  <2>6. ASSUME NEW c \in Clients, NEW m \in Markets, ReadFails(c, m)
        PROVE  UNCHANGED <<version, outbox, inbox, gate, queue, answers, shown>>
    BY <2>6 DEF ReadFails, ledger, relay, sockets
  <2> QED BY <2>1, <2>2, <2>3, <2>4, <2>5, <2>6 DEF Next
<1> QED BY <1>1, <1>3, <1>4, <1>5, <1>6, <1>8, <1>9, <1>10, <1>11, <1>12, <1>13, <1>14, <1>15

-----------------------------------------------------------------------------
(* No live page stays behind *)

Newest(m) == Price(m, version[m])

Fed(c, m) ==
  shown[c][m] = version[m] \/ Newest(m) \in answers[c] \/ Newest(m) \in Range(queue[socket[c]])

\* The gate of c's relay has yet to pass the newest price, which is on its way
\* there or lost.
Awaited(c, m) ==
  LET r == at[socket[c]] IN
  gate[r][m] < version[m] /\ (Newest(m) \in Range(inbox[r]) \/ InOutbox(Newest(m)) \/ dropped[r][m])

Told == \A c \in Clients, m \in Markets : Live(c, m) => Fed(c, m) \/ Awaited(c, m)

\* What a page believes it holds is what it shows, and nothing while it is closed.
Following ==
  \A c \in Clients : believed[c] \subseteq Wanted(c) /\ (phase[c] # "open" => believed[c] = {})

LEMMA ToldMeans == Told => NothingFrozen
BY DEF Told, NothingFrozen, Fed, Awaited, Coming, Newest, InOutbox

LEMMA LiveSocket ==
  ASSUME FeedInv, NEW c \in Clients, phase[c] = "open"
  PROVE  /\ socket[c] \in Sockets /\ at[socket[c]] \in Relays
         /\ \A d \in Clients \ {c} : socket[d] # socket[c]
BY DEF FeedInv, Tied, PagesTyped, SocketsTyped, Open

LEMMA AwaitedStill ==
  ASSUME NEW c, NEW m, UNCHANGED <<version, outbox>>, at'[socket'[c]] = at[socket[c]],
         inbox'[at[socket[c]]] = inbox[at[socket[c]]], gate'[at[socket[c]]] = gate[at[socket[c]]],
         dropped'[at[socket[c]]] = dropped[at[socket[c]]]
  PROVE  Awaited(c, m) => Awaited(c, m)'
BY DEF Awaited, Newest, InOutbox

\* A step of the ledger or of Redis moves only what is awaited.
LEMMA BehindPages ==
  ASSUME Told, UNCHANGED <<version, hub, sockets, client>>,
         \A c \in Clients, m \in Markets : Live(c, m) /\ Awaited(c, m) => Awaited(c, m)'
  PROVE  Told'
<1> SUFFICES ASSUME NEW c \in Clients, NEW m \in Markets, Live(c, m)'
             PROVE  Fed(c, m)' \/ Awaited(c, m)'
  BY DEF Told
<1>1. Live(c, m)
  BY DEF Live, Wanted, sockets, client
<1>2. Fed(c, m) => Fed(c, m)'
  BY DEF Fed, Newest, sockets, client
<1> QED BY <1>1, <1>2 DEF Told

LEMMA TradeTells ==
  ASSUME FeedInv, PricesDue, Told, NEW n \in Markets, Trade(n)
  PROVE  Told'
<1> SUFFICES ASSUME NEW c \in Clients, NEW m \in Markets, Live(c, m)'
             PROVE  Fed(c, m)' \/ Awaited(c, m)'
  BY DEF Told
<1>1. UNCHANGED <<inbox, gate, hub, at, queue, commands, done, client>>
  BY DEF Trade, sockets
<1>2. Live(c, m)
  BY <1>1 DEF Live, Wanted, client
<1>3. at[socket[c]] \in Relays
  BY <1>2, LiveSocket DEF Live
<1>4. CASE m = n
  <2>1. gate[at[socket[c]]][m] \in Nat /\ version[m] \in Nat /\ gate[at[socket[c]]][m] <= version[m]
    BY <1>3 DEF FeedInv, RelaysTyped, LedgerTyped, PricesDue
  <2>2. /\ version'[m] \in Nat /\ version'[m] > version[m]
        /\ \E f \in outbox' : Price(m, version'[m]) \in Range(f)
    BY <1>4, TradeRanges
  <2>3. UNCHANGED <<socket, at, gate>>
    BY <1>1 DEF client
  <2>4. gate'[at'[socket'[c]]][m] < version'[m]
    BY <2>1, <2>2, <2>3
  <2> QED BY <2>2, <2>4 DEF Awaited, InOutbox, Newest
<1>5. CASE m # n
  <2>1. version'[m] = version[m] /\ outbox \subseteq outbox' /\ \A r \in Relays : dropped'[r][m] = dropped[r][m]
    BY <1>5, TradeRanges
  <2>2. Fed(c, m) => Fed(c, m)'
    BY <1>1, <2>1 DEF Fed, Newest, client
  <2>3. Awaited(c, m) => Awaited(c, m)'
    BY <1>1, <1>3, <2>1 DEF Awaited, Newest, InOutbox, client
  <2> QED BY <1>2, <2>2, <2>3 DEF Told
<1> QED BY <1>4, <1>5

LEMMA SendTells ==
  ASSUME FeedInv, Told, NEW frames \in outbox, Send(frames), outbox' \in {Without(frames), outbox}
  PROVE  Told'
<1>1. UNCHANGED <<version, gate, hub, sockets, client>>
  BY DEF Send
<1>2. ASSUME NEW c \in Clients, NEW m \in Markets, Live(c, m), Awaited(c, m)
      PROVE  Awaited(c, m)'
  <2> DEFINE r == at[socket[c]]
  <2>1. r \in Relays /\ UNCHANGED <<socket, at>>
    BY <1>1, <1>2, LiveSocket DEF Live, sockets, client
  <2>2. /\ Range(inbox[r]) \subseteq Range(inbox'[r])
        /\ listening[r] => Head(frames) \in Range(inbox'[r]) /\ dropped'[r] = dropped[r]
        /\ ~listening[r] => dropped'[r] = Lost(r, {Head(frames)})
        /\ \A e : InOutbox(e) => InOutbox(e)' \/ e = Head(frames)
    BY <2>1, SendRanges
  <2>3. Newest(m)' = Newest(m)
    BY <1>1 DEF Newest
  <2>4. InOutbox(Newest(m)) => (\E f \in outbox' : Newest(m) \in Range(f)) \/ Newest(m) = Head(frames)
    BY <2>2 DEF InOutbox
  <2>5. ~listening[r] => /\ dropped[r][m] => dropped'[r][m]
                         /\ Newest(m) = Head(frames) => dropped'[r][m]
    BY <2>2 DEF Lost, Newest
  <2> HIDE DEF r
  <2>6. \/ Newest(m) \in Range(inbox'[r])
        \/ \E f \in outbox' : Newest(m) \in Range(f)
        \/ dropped'[r][m]
    BY <1>2, <2>2, <2>4, <2>5 DEF Awaited, r
  <2> QED BY <1>1, <1>2, <2>1, <2>3, <2>6 DEF Awaited, InOutbox, r
<1> QED BY <1>1, <1>2, BehindPages

LEMMA FailTells ==
  ASSUME FeedInv, Told, NEW frames \in outbox, PublishFails(frames)
  PROVE  Told'
<1>1. UNCHANGED <<version, inbox, gate, hub, sockets, client>>
  BY DEF PublishFails
<1>2. PICK gone \in SUBSET Range(frames) :
        /\ \A e : InOutbox(e) => InOutbox(e)' \/ e \in gone
        /\ dropped' = [r \in Relays |-> Lost(r, gone)]
  BY FailRanges
<1>3. ASSUME NEW c \in Clients, NEW m \in Markets, Live(c, m), Awaited(c, m)
      PROVE  Awaited(c, m)'
  <2> DEFINE r == at[socket[c]]
  <2>1. r \in Relays /\ UNCHANGED <<socket, at>>
    BY <1>1, <1>3, LiveSocket DEF Live, sockets, client
  <2>2. Newest(m)' = Newest(m)
    BY <1>1 DEF Newest
  <2>3. InOutbox(Newest(m)) => (\E f \in outbox' : Newest(m) \in Range(f)) \/ Newest(m) \in gone
    BY <1>2 DEF InOutbox
  <2>4. dropped'[r][m] <=> dropped[r][m] \/ Newest(m) \in gone
    BY <1>2, <2>1 DEF Lost, Newest
  <2> QED BY <1>1, <1>3, <2>1, <2>2, <2>3, <2>4 DEF Awaited, InOutbox
<1> QED BY <1>1, <1>3, BehindPages

LEMMA BusTells ==
  ASSUME FeedInv, Told, NEW q \in Relays, Connect(q) \/ Disconnect(q)
  PROVE  Told'
<1>1. UNCHANGED <<version, outbox, gate, hub, sockets, client>>
  BY DEF Connect, Disconnect, ledger
<1>2. ASSUME NEW c \in Clients, NEW m \in Markets, Live(c, m), Awaited(c, m)
      PROVE  Awaited(c, m)'
  <2> DEFINE r == at[socket[c]]
  <2>1. r \in Relays /\ UNCHANGED <<socket, at>>
    BY <1>1, <1>2, LiveSocket DEF Live, sockets, client
  <2>2. CASE inbox'[r] = inbox[r] /\ dropped'[r] = dropped[r]
    BY <1>1, <1>2, <2>1, <2>2, AwaitedStill
  <2>3. CASE r = q /\ Disconnect(q)
    <3>1. dropped'[r] = Lost(r, Range(inbox[r]))
      BY <2>1, <2>3 DEF Disconnect, FeedInv, RelaysTyped
    <3>2. dropped'[r][m] <=> dropped[r][m] \/ Newest(m) \in Range(inbox[r])
      BY <3>1 DEF Lost, Newest
    <3> QED BY <1>1, <1>2, <2>1, <3>2 DEF Awaited, InOutbox, Newest
  <2>4. (inbox'[r] = inbox[r] /\ dropped'[r] = dropped[r]) \/ (r = q /\ Disconnect(q))
    BY <2>1 DEF Connect, Disconnect, FeedInv, RelaysTyped
  <2> QED BY <2>2, <2>3, <2>4
<1> QED BY <1>1, <1>2, BehindPages

LEMMA ConsumeTells ==
  ASSUME FeedInv, PricesDue, Told, NEW q \in Relays, Consume(q)
  PROVE  Told'
<1> SUFFICES ASSUME NEW c \in Clients, NEW m \in Markets, Live(c, m)'
             PROVE  Fed(c, m)' \/ Awaited(c, m)'
  BY DEF Told
<1> DEFINE e == Head(inbox[q])  k == socket[c]  r == at[k]  new == Newest(m)
<1>0. RelaysTyped /\ LedgerTyped /\ SocketsTyped
  BY DEF FeedInv
<1>1. UNCHANGED <<version, outbox, hub, dropped, at, commands, client>>
  BY DEF Consume, ledger
<1>2. /\ e \in PriceEvent \cup OrderEvent /\ Range(inbox[q]) = Range(inbox'[q]) \cup {e}
      /\ \A x \in Relays \ {q} : inbox'[x] = inbox[x]
      /\ \A x \in Sockets : Range(queue[x]) \subseteq Range(queue'[x]) /\ (done'[x] = {} => done[x] = {})
  BY ConsumeRanges
<1>3. phase[c] = "open" /\ k \in Sockets /\ r \in Relays
  BY <1>1, LiveSocket DEF Live, client
<1>4. Live(c, m) /\ done'[k] = {} /\ IsSubscribed(hub[r], k, m)
  BY <1>1, <1>2, <1>3 DEF Live, Wanted, client
<1>5. Fed(c, m) => Fed(c, m)'
  BY <1>1, <1>2, <1>3 DEF Fed, Newest, client
<1>6. new' = new /\ UNCHANGED <<socket, k, r>>
  BY <1>1 DEF Newest, client
<1>7. Due(e)
  <2>1. inbox[q] # <<>>
    BY DEF Consume
  <2>2. e \in Range(inbox[q])
    BY <1>2
  <2> QED BY <2>2 DEF PricesDue
<1> HIDE DEF e
<1>8. CASE Awaited(c, m)
  <2>1. gate[r][m] < version[m] /\ (new \in Range(inbox[r]) \/ InOutbox(new) \/ dropped[r][m])
    BY <1>8 DEF Awaited
  <2>2. CASE e = new /\ r = q
    <3>1. e.kind = "price" /\ e.market = m /\ e.version = version[m]
      BY <2>2 DEF Newest, Price
    <3>2. FanOut(Watchers(hub[r], m), e)
      BY <2>1, <2>2, <3>1 DEF Consume, Dispatch, DispatchOrder, Accept, e
    <3>3. k \in Watchers(hub[r], m)
      BY <1>3, <1>4 DEF FeedInv, HubsSound, IndexesAgree
    <3>4. e \in Range(queue'[k])
      BY <1>0, <1>3, <1>4, <3>2, <3>3, FanOutRanges
    <3> QED BY <1>6, <2>2, <3>4 DEF Fed
  <2>3. CASE ~(e = new /\ r = q)
    <3>1. gate'[r][m] < version[m]
      <4>1. CASE gate'[r][m] = gate[r][m]
        BY <2>1, <4>1
      <4>2. CASE r = q /\ e.kind = "price" /\ e.market = m /\ gate'[r][m] = e.version
        <5>1. e.version <= version[m] /\ e = Price(m, e.version) /\ e.version \in Nat /\ version[m] \in Nat
          BY <1>0, <1>2, <1>7, <4>2 DEF Due, PriceEvent, OrderEvent, Price, LedgerTyped
        <5> QED BY <2>3, <4>2, <5>1 DEF Newest
      <4>3. \/ gate' = gate
            \/ e.kind = "price" /\ gate' = [gate EXCEPT ![q][e.market] = e.version]
        BY DEF Consume, Dispatch, DispatchOrder, e
      <4>4. e.kind = "price" => e.market \in Markets
        BY <1>2 DEF PriceEvent, OrderEvent
      <4>5. gate'[r][m] = gate[r][m] \/ (r = q /\ e.kind = "price" /\ e.market = m /\ gate'[r][m] = e.version)
        <5> HIDE DEF r, k
        <5> QED BY <1>0, <1>3, <4>3, <4>4 DEF RelaysTyped
      <4> QED BY <4>1, <4>2, <4>5
    <3>2. new \in Range(inbox[r]) => new \in Range(inbox'[r])
      BY <1>2, <1>3, <2>3
    <3>3. new \in Range(inbox'[r]) \/ (\E f \in outbox' : new \in Range(f)) \/ dropped'[r][m]
      BY <1>1, <2>1, <3>2 DEF InOutbox
    <3> QED BY <1>1, <1>6, <3>1, <3>3 DEF Awaited, InOutbox
  <2> QED BY <2>2, <2>3
<1> QED BY <1>4, <1>5, <1>8 DEF Told

\* A step of a page or of its connection: what keeps its relay's part as it
\* was need only account for the page.
LEMMA PageTells ==
  ASSUME Told, UNCHANGED <<version, outbox>>,
         \A c \in Clients, m \in Markets : Live(c, m)' =>
           \/ Fed(c, m)'
           \/ /\ Live(c, m) /\ (Fed(c, m) => Fed(c, m)') /\ at'[socket'[c]] = at[socket[c]]
              /\ inbox'[at[socket[c]]] = inbox[at[socket[c]]] /\ gate'[at[socket[c]]] = gate[at[socket[c]]]
              /\ dropped'[at[socket[c]]] = dropped[at[socket[c]]]
  PROVE  Told'
<1> SUFFICES ASSUME NEW c \in Clients, NEW m \in Markets, Live(c, m)'
             PROVE  Fed(c, m)' \/ Awaited(c, m)'
  BY DEF Told
<1> QED BY AwaitedStill DEF Told

LEMMA ReadsTell ==
  ASSUME FeedInv, PricesDue, Told, NEW c \in Clients, NEW n \in Markets, Snapshot(c, n) \/ ReadFails(c, n)
  PROVE  Told'
<1>1. UNCHANGED <<ledger, relay, sockets, socket, phase, page, believed, acked, shown>>
  BY DEF Snapshot, ReadFails
<1>2. /\ asked' = [asked EXCEPT ![c] = @ \ {n}] /\ ReadsTyped
      /\ \/ /\ answers' = [answers EXCEPT ![c] = @ \cup {Price(n, version[n])}]
            /\ unread' = [unread EXCEPT ![c] = @ \ {n}]
         \/ answers' = answers /\ unread' = [unread EXCEPT ![c] = @ \cup {n}]
  BY DEF Snapshot, ReadFails, FeedInv
<1> SUFFICES ASSUME NEW d \in Clients, NEW m \in Markets, Live(d, m)'
             PROVE  Fed(d, m)' \/ (Live(d, m) /\ (Fed(d, m) => Fed(d, m)'))
  BY <1>1, PageTells DEF ledger, relay, sockets
<1>3. Fed(d, m) => Fed(d, m)'
  BY <1>1, <1>2 DEF Fed, Newest, ledger, sockets, ReadsTyped
<1>4. m \notin asked'[d] \cup unread'[d]
  BY DEF Live
<1>5. CASE d = c /\ m = n
  <2>1. Price(m, version[m]) \in answers'[d]
    BY <1>2, <1>4, <1>5 DEF ReadsTyped
  <2> QED BY <1>1, <2>1 DEF Fed, Newest, ledger
<1>6. CASE d # c \/ m # n
  <2>1. m \notin asked[d] \cup unread[d]
    BY <1>2, <1>4, <1>6 DEF ReadsTyped
  <2> QED BY <1>1, <1>3, <2>1 DEF Live, Wanted, relay, sockets
<1> QED BY <1>5, <1>6

LEMMA AnswerTells ==
  ASSUME FeedInv, PricesDue, Told, NEW c \in Clients, NEW a \in answers[c], Answer(c, a)
  PROVE  Told'
<1>1. UNCHANGED <<ledger, relay, sockets, socket, phase, page, believed, acked, asked, unread>>
      /\ answers' = [answers EXCEPT ![c] = @ \ {a}] /\ shown' = Apply(c, a)
  BY DEF Answer
<1>2. ReadsTyped /\ LedgerTyped /\ a \in PriceEvent /\ Due(a)
  BY DEF FeedInv, ReadsTyped, PricesDue
<1>3. /\ \A d \in Clients, m \in Markets : shown'[d][m] <= version[m] /\ shown'[d][m] >= shown[d][m]
      /\ shown'[c][a.market] >= a.version
  BY <1>1, <1>2, AppliedDue
<1>4. shown' \in [Clients -> [Markets -> Nat \cup {-1}]]
  BY <1>1, <1>2, ApplyKeeps
<1> SUFFICES ASSUME NEW d \in Clients, NEW m \in Markets, Live(d, m)'
             PROVE  Live(d, m) /\ (Fed(d, m) => Fed(d, m)')
  BY <1>1, PageTells DEF ledger, relay, sockets
<1>5. Live(d, m)
  BY <1>1 DEF Live, Wanted, relay, sockets
<1>6. version[m] \in Nat /\ shown[d][m] \in Int /\ shown'[d][m] \in Int
  BY <1>2, <1>4 DEF LedgerTyped, ReadsTyped
<1>7. shown[d][m] = version[m] => shown'[d][m] = version[m]
  BY <1>3, <1>6
<1>8. d = c /\ a = Newest(m) => shown'[d][m] = version[m]
  BY <1>3, <1>6 DEF Newest, Price
<1>9. Newest(m) \in answers[d] => Newest(m) \in answers'[d] \/ (d = c /\ a = Newest(m))
  BY <1>1, <1>2 DEF ReadsTyped
<1> QED BY <1>1, <1>5, <1>7, <1>8, <1>9 DEF Fed, Newest, ledger, sockets

LEMMA EndsTell ==
  ASSUME FeedInv, Told,
         \/ \E c \in Clients : Expire(c) \/ Drop(c) \/ Refresh(c)
         \/ \E k \in Sockets : Notice(k)
  PROVE  Told'
<1>1. UNCHANGED <<version, outbox, inbox, gate, dropped, hub, at, queue, commands, page, answers, unread, shown>>
  BY DEF Expire, Drop, Refresh, Notice, OnClose, ledger, relay, sockets, client
<1> SUFFICES ASSUME NEW d \in Clients, NEW m \in Markets, Live(d, m)'
             PROVE  Live(d, m) /\ socket'[d] = socket[d]
  BY <1>1, PageTells DEF Fed, Newest
<1>2. phase'[d] = "open" /\ done'[socket'[d]] = {} /\ m \in believed'[d] /\ m \notin acked'[d] \cup asked'[d]
  BY DEF Live
<1>3. PagesTyped /\ ReadsTyped /\ SocketsTyped
  BY DEF FeedInv
<1> DEFINE Same == /\ phase[d] = "open" /\ socket'[d] = socket[d] /\ m \in believed[d]
                   /\ m \notin acked[d] /\ m \notin asked[d]
<1>4. Same
  <2>1. ASSUME NEW c \in Clients, Expire(c) PROVE Same
    BY <1>2, <2>1 DEF Expire
  <2>2. ASSUME NEW c \in Clients, Drop(c) PROVE Same
    BY <1>2, <1>3, <2>2 DEF Drop, OnClose
  <2>3. ASSUME NEW c \in Clients, Refresh(c) PROVE Same
    BY <1>2, <1>3, <2>3 DEF Refresh, PagesTyped, ReadsTyped
  <2>4. ASSUME NEW k \in Sockets, Notice(k) PROVE Same
    BY <1>2, <2>4 DEF Notice, client
  <2> QED BY <2>1, <2>2, <2>3, <2>4
<1>5. socket[d] \in Sockets
  BY <1>4, LiveSocket
<1>6. done[socket[d]] = {}
  <2>1. \A k \in Sockets : done'[k] = {} => done[k] = {}
    BY <1>3 DEF Expire, Drop, Refresh, Notice, sockets, SocketsTyped
  <2> QED BY <1>2, <1>4, <1>5, <2>1
<1> QED BY <1>1, <1>4, <1>6 DEF Live, Wanted

LEMMA TurnTells ==
  ASSUME FeedInv, Following, Told, NEW c \in Clients, Turn(c)
  PROVE  Told'
<1> DEFINE next == Follows[c][page[c] + 1]
           read == UNION {Follows[c][i] : i \in 1..page[c]}
<1>0. PagesTyped /\ ReadsTyped /\ SocketsTyped
  BY DEF FeedInv
<1>1. /\ UNCHANGED <<ledger, relay, at, queue, done, socket, phase, acked, answers, unread, shown>>
      /\ page' = [page EXCEPT ![c] = @ + 1] /\ page[c] < Len(Follows[c])
      /\ asked' = [asked EXCEPT ![c] = Asking(c, next \ read)]
  BY DEF Turn
<1>2. /\ phase[c] = "open" =>
           /\ commands' = [commands EXCEPT ![socket[c]] = @ \o Reconciled(believed[c], next)]
           /\ believed' = [believed EXCEPT ![c] = next]
      /\ phase[c] # "open" => UNCHANGED <<commands, believed>>
  BY DEF Turn
<1>3. page \in [Clients -> Nat] /\ page[c] + 1 \in DOMAIN Follows[c]
  BY <1>0, <1>1, WantedMarkets, FeedAssumption
<1>4. next \in SUBSET Markets
  BY <1>3, FeedAssumption
<1>5. Wanted(c)' = next /\ \A d \in Clients \ {c} : Wanted(d)' = Wanted(d)
  BY <1>1, <1>3 DEF Wanted
<1> SUFFICES ASSUME NEW d \in Clients, NEW m \in Markets, Live(d, m)'
             PROVE  Live(d, m)
  BY <1>1, PageTells DEF Fed, Newest, ledger, relay
<1> DEFINE k == socket[d]
<1>6. /\ phase[d] = "open" /\ done[k] = {} /\ IsSubscribed(hub[at[k]], k, m)
      /\ SubscribedFrame(m) \notin Range(queue[k])
      /\ m \in Wanted(d)' /\ m \in believed'[d] /\ m \notin acked[d] \cup unread[d] \cup asked'[d]
      /\ \A i \in DOMAIN commands'[k] : commands'[k][i].market # m
  BY <1>1 DEF Live, relay
<1>7. /\ k \in Sockets /\ \A x \in Clients \ {d} : socket[x] # k
  BY <1>6, LiveSocket
<1> HIDE DEF next, read, k
<1>8. CASE d # c
  <2>1. believed'[d] = believed[d] /\ asked'[d] = asked[d]
    BY <1>0, <1>1, <1>2, <1>8 DEF PagesTyped, ReadsTyped
  <2>2. commands'[k] = commands[k]
    BY <1>0, <1>2, <1>7, <1>8 DEF SocketsTyped
  <2> QED BY <1>5, <1>6, <1>8, <2>1, <2>2 DEF Live, k
<1>9. CASE d = c
  <2> DEFINE wanted == Listed(next \ believed[c])
             more == Reconciled(believed[c], next)
  <2>1. believed[c] \in SUBSET Markets /\ asked[c] \subseteq asked'[c]
    BY <1>0, <1>1 DEF PagesTyped, ReadsTyped, Asking
  <2>2. wanted \in Seq(Markets) /\ Range(wanted) = next \ believed[c] /\ more \in Seq(ClientCommand)
    BY <1>4, <2>1, ListedMarkets, ReconciledCommands
  <2>3. commands'[k] = commands[k] \o more /\ commands[k] \in Seq(ClientCommand)
    BY <1>0, <1>2, <1>6, <1>7, <1>9 DEF SocketsTyped, k
  <2> DEFINE first == Sent("unsubscribe", Listed(believed[c] \ next))
             rest == Sent("subscribe", wanted)
  <2>4. more = first \o rest
    BY DEF Reconciled
  <2>5. first \in Seq(ClientCommand) /\ rest \in Seq(ClientCommand)
    <3>1. Listed(believed[c] \ next) \in Seq(Markets)
      BY <2>1, ListedMarkets
    <3> QED BY <2>2, <3>1, SentCommands
  <2>6. \A i \in DOMAIN wanted : i \in DOMAIN rest /\ rest[i].market = wanted[i]
    BY DEF Sent
  <2> HIDE DEF wanted, more, first, rest
  <2>7. /\ \A i \in DOMAIN rest : Len(first) + i \in DOMAIN more /\ more[Len(first) + i] = rest[i]
    BY <2>4, <2>5
  <2>8. /\ \A i \in DOMAIN more : Len(commands[k]) + i \in DOMAIN commands'[k] /\ commands'[k][Len(commands[k]) + i] = more[i]
        /\ \A i \in DOMAIN commands[k] : i \in DOMAIN commands'[k] /\ commands'[k][i] = commands[k][i]
    BY <2>2, <2>3
  <2>9. m \notin Range(wanted)
    BY <1>6, <2>6, <2>7, <2>8 DEF Range
  <2>10. m \in believed[c] /\ m \in Wanted(c)
    BY <1>5, <1>6, <1>9, <2>2, <2>9 DEF Following
  <2>11. \A i \in DOMAIN commands[k] : commands[k][i].market # m
    BY <1>6, <2>8
  <2> QED BY <1>6, <1>9, <2>1, <2>10, <2>11 DEF Live, k
<1> QED BY <1>8, <1>9

LEMMA FinishTells ==
  ASSUME FeedInv, Told, NEW k \in Sockets, Finish(k)
  PROVE  Told'
<1> DEFINE closed == {c \in Clients : socket[c] = k}
<1>0. PagesTyped /\ SocketsTyped /\ HubsSound /\ Tied /\ NoSocket \notin Sockets
  BY FeedAssumption DEF FeedInv
<1>1. /\ Open(k) /\ hub' = [hub EXCEPT ![at[k]] = Forget(@, k)] /\ at' = [at EXCEPT ![k] = NoRelay]
      /\ done' = [done EXCEPT ![k] = {}] /\ queue' = [queue EXCEPT ![k] = <<>>]
      /\ commands' = [commands EXCEPT ![k] = <<>>]
      /\ UNCHANGED <<ledger, inbox, gate, dropped>>
  BY DEF Finish
<1>2. PICK code : OnClose(closed, code)
  BY DEF Finish
<1> SUFFICES ASSUME NEW d \in Clients, NEW m \in Markets, Live(d, m)'
             PROVE  /\ Live(d, m) /\ (Fed(d, m) => Fed(d, m)')
                    /\ socket'[d] = socket[d] /\ at'[socket[d]] = at[socket[d]]
  BY <1>1, PageTells DEF ledger
<1>3. phase'[d] = "open" /\ IsSubscribed(hub'[at'[socket'[d]]], socket'[d], m)
  BY DEF Live
<1>4. d \notin closed
  BY <1>2, <1>3 DEF OnClose
<1>5. /\ phase[d] = "open" /\ socket'[d] = socket[d] /\ believed'[d] = believed[d] /\ acked'[d] = acked[d]
      /\ UNCHANGED <<page, asked, answers, unread, shown>>
  BY <1>2, <1>3, <1>4 DEF OnClose
<1> DEFINE x == socket[d]
<1>6. x \in Sockets /\ x # k /\ at[x] \in Relays
  BY <1>4, <1>5, LiveSocket
<1> HIDE DEF x
<1>7. at'[x] = at[x] /\ done'[x] = done[x] /\ queue'[x] = queue[x] /\ commands'[x] = commands[x]
  BY <1>0, <1>1, <1>6 DEF SocketsTyped
<1>8. IsSubscribed(hub'[at[x]], x, m) => IsSubscribed(hub[at[x]], x, m)
  <2>1. hub'[at[x]] = hub[at[x]] \/ hub'[at[x]] = Forget(hub[at[x]], k)
    BY <1>0, <1>1, <1>6 DEF HubsSound
  <2>2. IsSubscribed(Forget(hub[at[x]], k), x, m) => IsSubscribed(hub[at[x]], x, m)
    BY DEF Forget, IsSubscribed, Members
  <2> QED BY <2>1, <2>2
<1>9. Live(d, m)
  BY <1>3, <1>5, <1>7, <1>8 DEF Live, Wanted, x
<1>10. Fed(d, m) => Fed(d, m)'
  BY <1>1, <1>5, <1>7 DEF Fed, Newest, ledger, x
<1> QED BY <1>5, <1>7, <1>9, <1>10 DEF x

LEMMA RestartTells ==
  ASSUME FeedInv, Told, NEW q \in Relays, Restart(q)
  PROVE  Told'
<1> DEFINE mine == {k \in Sockets : at[k] = q}
           closed == {c \in Clients : socket[c] \in mine}
<1>0. PagesTyped /\ SocketsTyped /\ RelaysTyped /\ HubsSound
  BY DEF FeedInv
<1>1. /\ inbox' = [inbox EXCEPT ![q] = <<>>] /\ dropped' = [dropped EXCEPT ![q] = Lost(q, Range(inbox[q]))]
      /\ gate' = [gate EXCEPT ![q] = [m \in Markets |-> 0]] /\ hub' = [hub EXCEPT ![q] = EmptyHub]
      /\ OnClose(closed, "gone") /\ UNCHANGED ledger
  BY DEF Restart
<1>2. /\ at' = [k \in Sockets |-> IF k \in mine THEN NoRelay ELSE at[k]]
      /\ queue' = [k \in Sockets |-> IF k \in mine THEN <<>> ELSE queue[k]]
      /\ commands' = [k \in Sockets |-> IF k \in mine THEN <<>> ELSE commands[k]]
      /\ done' = [k \in Sockets |-> IF k \in mine THEN {} ELSE done[k]]
  BY DEF Restart
<1> SUFFICES ASSUME NEW d \in Clients, NEW m \in Markets, Live(d, m)'
             PROVE  /\ Live(d, m) /\ (Fed(d, m) => Fed(d, m)')
                    /\ socket'[d] = socket[d] /\ at'[socket[d]] = at[socket[d]] /\ at[socket[d]] \in Relays \ {q}
  BY <1>0, <1>1, PageTells DEF ledger, RelaysTyped
<1>3. phase'[d] = "open" /\ IsSubscribed(hub'[at'[socket'[d]]], socket'[d], m)
  BY DEF Live
<1>4. d \notin closed
  BY <1>1, <1>3 DEF OnClose
<1>5. /\ phase[d] = "open" /\ socket'[d] = socket[d] /\ believed'[d] = believed[d] /\ acked'[d] = acked[d]
      /\ UNCHANGED <<page, asked, answers, unread, shown>>
  BY <1>1, <1>3, <1>4 DEF OnClose
<1> DEFINE x == socket[d]
<1>6. x \in Sockets /\ x \notin mine /\ at[x] \in Relays \ {q}
  BY <1>4, <1>5, LiveSocket
<1> HIDE DEF x
<1>7. at'[x] = at[x] /\ done'[x] = done[x] /\ queue'[x] = queue[x] /\ commands'[x] = commands[x]
  BY <1>2, <1>6
<1>8. hub'[at[x]] = hub[at[x]]
  BY <1>0, <1>1, <1>6 DEF HubsSound
<1>9. Live(d, m)
  BY <1>5, <1>7, <1>8 DEF Live, Wanted, x
<1>10. Fed(d, m) => Fed(d, m)'
  BY <1>1, <1>5, <1>7 DEF Fed, Newest, ledger, x
<1> QED BY <1>5, <1>6, <1>7, <1>9, <1>10 DEF x

LEMMA HandshakeTells ==
  ASSUME FeedInv, Told, NEW c \in Clients, NEW k \in Sockets, NEW r \in Relays, Handshake(c, k, r)
  PROVE  Told'
<1>0. PagesTyped /\ SocketsTyped /\ HubsSound /\ Tied /\ NoRelay \notin Relays
  BY FeedAssumption DEF FeedInv
<1>1. /\ at[k] = NoRelay /\ \A d \in Clients : socket[d] # k
      /\ UNCHANGED <<ledger, inbox, gate, dropped, queue, done>>
  BY DEF Handshake
<1>2. \/ /\ at' = [at EXCEPT ![k] = r] /\ hub' = [hub EXCEPT ![r] = AttachUser(@, k, UserOf[c])]
         /\ OnOpen(c, k)
      \/ OnClose({c}, "expired") /\ UNCHANGED <<at, hub, commands>>
  BY DEF Handshake
<1>3. UNCHANGED <<page, asked, answers, unread, shown>>
  BY <1>2 DEF OnOpen, OnClose
<1> SUFFICES ASSUME NEW d \in Clients, NEW m \in Markets, Live(d, m)'
             PROVE  /\ Live(d, m) /\ (Fed(d, m) => Fed(d, m)')
                    /\ socket'[d] = socket[d] /\ at'[socket[d]] = at[socket[d]]
  BY <1>1, PageTells DEF ledger
<1>4. phase'[d] = "open" /\ IsSubscribed(hub'[at'[socket'[d]]], socket'[d], m)
  BY DEF Live
<1>5. /\ DOMAIN hub = Relays
      /\ \A q \in Relays : \A x : IsSubscribed(hub'[q], x, m) <=> IsSubscribed(hub[q], x, m)
  <2>1. DOMAIN hub = Relays /\ \A q \in Relays : IsHub(hub[q])
    BY <1>0 DEF HubsSound
  <2>2. \A h, x : IsHub(h) => (IsSubscribed(AttachUser(h, k, UserOf[c]), x, m) <=> IsSubscribed(h, x, m))
    BY DEF AttachUser, IsSubscribed, IsHub
  <2> QED BY <1>2, <2>1, <2>2
<1>6. d # c
  <2> SUFFICES ASSUME d = c PROVE FALSE
    OBVIOUS
  <2>1. socket'[c] = k /\ at'[k] = r
    BY <1>0, <1>2, <1>4 DEF OnOpen, OnClose, PagesTyped, SocketsTyped
  <2>2. IsSubscribed(hub[r], k, m)
    BY <1>4, <1>5, <2>1
  <2>3. k \notin DOMAIN hub[r].bySubscriber
    BY <1>0, <1>1 DEF HubsSound, IndexesAgree, Served
  <2> QED BY <2>2, <2>3 DEF IsSubscribed, Members
<1>7. phase[d] = "open" /\ socket'[d] = socket[d] /\ believed'[d] = believed[d] /\ acked'[d] = acked[d]
  BY <1>0, <1>2, <1>4, <1>6 DEF OnOpen, OnClose, PagesTyped
<1> DEFINE x == socket[d]
<1>8. x \in Sockets /\ x # k /\ at[x] \in Relays
  BY <1>1, <1>7, LiveSocket
<1> HIDE DEF x
<1>9. at'[x] = at[x] /\ commands'[x] = commands[x]
  BY <1>0, <1>2, <1>8 DEF SocketsTyped, OnOpen
<1>10. IsSubscribed(hub'[at[x]], x, m) => IsSubscribed(hub[at[x]], x, m)
  BY <1>5, <1>8
<1>11. Live(d, m)
  BY <1>1, <1>3, <1>7, <1>9, <1>10 DEF Live, Wanted, x
<1>12. Fed(d, m) => Fed(d, m)'
  BY <1>1, <1>3, <1>7 DEF Fed, Newest, ledger
<1> QED BY <1>7, <1>9, <1>11, <1>12 DEF x

LEMMA ReadCommandTells ==
  ASSUME FeedInv, Told, NEW k \in Sockets, ReadCommand(k)
  PROVE  Told'
<1> DEFINE r == at[k]
           n == Head(commands[k]).market
           wants == Head(commands[k]).action = "subscribe"
           full == wants /\ TooManySubscriptions(hub[r], k, n)
           frame == IF full THEN ErrorFrame ELSE IF wants THEN SubscribedFrame(n) ELSE UnsubscribedFrame(n)
           h == IF full THEN hub[r] ELSE IF wants THEN Subscribe(hub[r], k, n) ELSE Unsubscribe(hub[r], k, n)
<1>0. SocketsTyped /\ HubsSound
  BY DEF FeedInv
<1>1. /\ Open(k) /\ commands[k] # <<>> /\ commands' = [commands EXCEPT ![k] = Tail(@)]
      /\ hub' = [hub EXCEPT ![r] = h] /\ FanOut({k}, frame)
      /\ UNCHANGED <<ledger, inbox, gate, dropped, at, client>>
  BY DEF ReadCommand
<1>2. r \in Relays /\ DOMAIN hub = Relays /\ IsHub(hub[r])
  BY <1>0, <1>1 DEF SocketsTyped, HubsSound, Open
<1>3. \A x \in Sockets : /\ Range(queue[x]) \subseteq Range(queue'[x]) /\ (done'[x] = {} => done[x] = {})
                         /\ x = k /\ done'[x] = {} => frame \in Range(queue'[x])
  BY <1>0, <1>1, FanOutRanges
<1> SUFFICES ASSUME NEW d \in Clients, NEW m \in Markets, Live(d, m)'
             PROVE  Live(d, m) /\ (Fed(d, m) => Fed(d, m)')
  BY <1>1, PageTells DEF ledger, client
<1> DEFINE x == socket[d]
<1>4. /\ phase[d] = "open" /\ done'[x] = {} /\ IsSubscribed(hub'[at[x]], x, m)
      /\ m \in Wanted(d) /\ m \in believed[d] /\ m \notin acked[d] \cup unread[d] \cup asked[d]
      /\ \A i \in DOMAIN commands'[x] : commands'[x][i].market # m
      /\ SubscribedFrame(m) \notin Range(queue'[x])
  BY <1>1 DEF Live, Wanted, client
<1>5. x \in Sockets /\ at[x] \in Relays
  BY <1>4, LiveSocket
<1> HIDE DEF x, r, n
<1>6. Fed(d, m) => Fed(d, m)'
  BY <1>1, <1>3, <1>5 DEF Fed, Newest, ledger, client, x
<1>7. done[x] = {} /\ SubscribedFrame(m) \notin Range(queue[x])
  BY <1>3, <1>4, <1>5
<1>8. CASE x = k
  <2>1. at[x] = r /\ hub'[r] = h
    BY <1>1, <1>2, <1>8 DEF r
  <2>2. m # n
    <3> SUFFICES ASSUME m = n PROVE FALSE
      OBVIOUS
    <3>1. CASE full
      BY <1>4, <1>8, <2>1, <3>1 DEF TooManySubscriptions
    <3>2. CASE ~full /\ wants
      BY <1>3, <1>4, <1>5, <1>8, <3>2
    <3>3. CASE ~full /\ ~wants
      <4>1. IsSubscribed(Unsubscribe(hub[r], k, n), k, n)
        BY <1>4, <1>8, <2>1, <3>3
      <4>2. Unsubscribe(hub[r], k, n).bySubscriber = Discard(hub[r].bySubscriber, k, n)
        BY <1>2 DEF Unsubscribe, IsHub
      <4> QED BY <4>1, <4>2, DiscardMembers DEF IsSubscribed
    <3> QED BY <3>1, <3>2, <3>3
  <2>3. IsSubscribed(hub[r], k, m)
    <3>1. IsSubscribed(h, k, m)
      BY <1>4, <1>8, <2>1
    <3>2. /\ Subscribe(hub[r], k, n).bySubscriber = Put(hub[r].bySubscriber, k, n)
          /\ Unsubscribe(hub[r], k, n).bySubscriber = Discard(hub[r].bySubscriber, k, n)
      BY <1>2 DEF Subscribe, Unsubscribe, IsHub
    <3>3. Members(Put(hub[r].bySubscriber, k, n), k) = Members(hub[r].bySubscriber, k) \cup {n}
      BY DEF Put, Members
    <3>4. Members(Discard(hub[r].bySubscriber, k, n), k) = Members(hub[r].bySubscriber, k) \ {n}
      BY DiscardMembers
    <3> QED BY <2>2, <3>1, <3>2, <3>3, <3>4 DEF IsSubscribed
  <2>4. \A i \in DOMAIN commands[k] : commands[k][i].market # m
    <3>1. commands'[k] = Tail(commands[k]) /\ commands[k] \in Seq(ClientCommand) /\ commands[k] # <<>>
      BY <1>0, <1>1 DEF SocketsTyped
    <3> SUFFICES ASSUME NEW i \in DOMAIN commands[k] PROVE commands[k][i].market # m
      OBVIOUS
    <3>2. CASE i = 1
      BY <2>2, <3>1, <3>2 DEF n
    <3>3. CASE i # 1
      <4>1. i - 1 \in DOMAIN Tail(commands[k]) /\ Tail(commands[k])[i - 1] = commands[k][i]
        BY <3>1, <3>3
      <4> QED BY <1>4, <1>8, <3>1, <4>1
    <3> QED BY <3>2, <3>3
  <2> QED BY <1>4, <1>6, <1>7, <1>8, <2>1, <2>3, <2>4 DEF Live, x
<1>9. CASE x # k
  <2>1. commands'[x] = commands[x]
    BY <1>0, <1>1, <1>5, <1>9 DEF SocketsTyped
  <2>2. IsSubscribed(hub[at[x]], x, m)
    <3>1. hub'[at[x]] = hub[at[x]] \/ (at[x] = r /\ hub'[at[x]] = h)
      BY <1>1, <1>2, <1>5
    <3>2. /\ Subscribe(hub[r], k, n).bySubscriber = Put(hub[r].bySubscriber, k, n)
          /\ Unsubscribe(hub[r], k, n).bySubscriber = Discard(hub[r].bySubscriber, k, n)
      BY <1>2 DEF Subscribe, Unsubscribe, IsHub
    <3>3. Members(Put(hub[r].bySubscriber, k, n), x) = Members(hub[r].bySubscriber, x)
      BY <1>9 DEF Put, Members
    <3>4. Members(Discard(hub[r].bySubscriber, k, n), x) = Members(hub[r].bySubscriber, x)
      BY <1>9, DiscardMembers
    <3> QED BY <1>4, <3>1, <3>2, <3>3, <3>4 DEF IsSubscribed
  <2> QED BY <1>4, <1>6, <1>7, <2>1, <2>2 DEF Live, x
<1> QED BY <1>8, <1>9

\* What a frame does to the page: nothing is asked for less, and what is acked
\* is read again (ReportAcked).
LEMMA MessageReads ==
  ASSUME ~SkipsInFlight, PagesTyped, ReadsTyped, NEW c \in Clients, NEW f \in Frames, OnMessage(c, f)
  PROVE  /\ UNCHANGED <<socket, phase, page, answers, unread>>
         /\ \A d \in Clients : /\ believed'[d] \subseteq believed[d]
                               /\ acked[d] \cup asked[d] \subseteq acked'[d] \cup asked'[d]
         /\ f.kind = "subscribed" => f.market \in acked'[c] \cup asked'[c]
         /\ f.kind = "price" => shown' = Apply(c, f)
         /\ f.kind # "price" => shown' = shown
<1>1. UNCHANGED <<socket, phase, page, answers, unread>>
  BY DEF OnMessage
<1>2. ASSUME NEW left, NEW got, acked[c] \subseteq got, ReportAcked(c, left, got)
      PROVE  /\ \A d \in Clients : acked[d] \cup asked[d] \subseteq acked'[d] \cup asked'[d]
             /\ got \subseteq acked'[c] \cup asked'[c]
  BY <1>2 DEF ReportAcked, Asking, PagesTyped, ReadsTyped
<1>3. CASE f.kind = "subscribed"
  <2>1. ReportAcked(c, Unanswered(pending[c], f.market), acked[c] \cup {f.market}) /\ UNCHANGED <<believed, shown>>
    BY <1>3 DEF OnMessage
  <2> QED BY <1>1, <1>2, <1>3, <2>1
<1>4. CASE f.kind = "price"
  BY <1>1, <1>4 DEF OnMessage
<1>5. CASE f.kind = "too_many_subscriptions"
  <2>1. \E left : ReportAcked(c, left, acked[c])
    BY <1>5 DEF OnMessage
  <2>2. shown' = shown /\ \A d \in Clients : believed'[d] \subseteq believed[d]
    BY <1>5 DEF OnMessage, PagesTyped
  <2> QED BY <1>1, <1>2, <1>5, <2>1, <2>2
<1>6. CASE f.kind \in {"unsubscribed", "order"}
  BY <1>1, <1>6 DEF OnMessage
<1> QED BY <1>3, <1>4, <1>5, <1>6 DEF OnMessage

LEMMA PumpTells ==
  ASSUME ~SkipsInFlight, FeedInv, PricesDue, Told, NEW c \in Clients, NEW k \in Sockets, Pump(c, k)
  PROVE  Told'
<1> DEFINE f == Head(queue[k])
<1>0. PagesTyped /\ ReadsTyped /\ SocketsTyped /\ LedgerTyped
  BY DEF FeedInv
<1>1. /\ socket[c] = k /\ queue[k] \in Seq(Frames) /\ queue[k] # <<>> /\ queue' = [queue EXCEPT ![k] = Tail(@)]
      /\ OnMessage(c, f) /\ UNCHANGED <<ledger, relay, at, commands, done>>
  BY <1>0 DEF Pump, SocketsTyped
<1>2. f \in Frames /\ Range(queue[k]) = Range(Tail(queue[k])) \cup {f}
  BY <1>1, RangeHead, FramesLeft
<1>3. Due(f)
  BY <1>2 DEF PricesDue
<1> HIDE DEF f
<1>4. /\ UNCHANGED <<socket, phase, page, answers, unread>>
      /\ \A d \in Clients : /\ believed'[d] \subseteq believed[d]
                            /\ acked[d] \cup asked[d] \subseteq acked'[d] \cup asked'[d]
      /\ f.kind = "subscribed" => f.market \in acked'[c] \cup asked'[c]
      /\ f.kind = "price" => shown' = Apply(c, f)
      /\ f.kind # "price" => shown' = shown
  BY <1>0, <1>1, <1>2, MessageReads
<1> SUFFICES ASSUME NEW d \in Clients, NEW m \in Markets, Live(d, m)'
             PROVE  Live(d, m) /\ (Fed(d, m) => Fed(d, m)')
  BY <1>1, <1>4, PageTells DEF ledger, relay
<1> DEFINE x == socket[d]
<1>5. /\ phase[d] = "open" /\ done[x] = {} /\ IsSubscribed(hub[at[x]], x, m) /\ m \in Wanted(d)
      /\ m \in believed'[d] /\ m \notin acked'[d] \cup unread[d] \cup asked'[d]
      /\ \A i \in DOMAIN commands[x] : commands[x][i].market # m
      /\ SubscribedFrame(m) \notin Range(queue'[x])
  BY <1>1, <1>4 DEF Live, Wanted, relay
<1>6. x \in Sockets /\ (d # c => x # k)
  BY <1>1, <1>5, LiveSocket
<1>7. IF d = c THEN x = k /\ Range(queue[x]) = Range(queue'[x]) \cup {f} ELSE queue'[x] = queue[x]
  BY <1>0, <1>1, <1>2, <1>6 DEF SocketsTyped
<1> HIDE DEF x
<1>8. SubscribedFrame(m) \notin Range(queue[x])
  <2>1. d = c => f # SubscribedFrame(m)
    BY <1>4, <1>5 DEF SubscribedFrame
  <2> QED BY <1>5, <1>7, <2>1
<1>9. Live(d, m)
  BY <1>4, <1>5, <1>8 DEF Live, x
<1>10. /\ shown[d][m] = version[m] => shown'[d][m] = version[m]
       /\ d = c /\ f = Newest(m) => shown'[d][m] = version[m]
  <2>1. CASE f.kind = "price"
    <3>1. f \in PriceEvent /\ shown' = Apply(c, f)
      BY <1>2, <1>4, <2>1, PriceIs
    <3>2. /\ \A y \in Clients, n \in Markets : shown'[y][n] <= version[n] /\ shown'[y][n] >= shown[y][n]
          /\ shown'[c][f.market] >= f.version
      BY <1>0, <1>3, <3>1, AppliedDue
    <3>3. version[m] \in Nat /\ shown[d][m] \in Int /\ shown'[d][m] \in Int
      <4>1. shown' \in [Clients -> [Markets -> Nat \cup {-1}]]
        BY <1>0, <3>1, ApplyKeeps
      <4> QED BY <1>0, <4>1 DEF LedgerTyped, ReadsTyped
    <3>4. d = c /\ f = Newest(m) => shown'[d][m] = version[m]
      BY <3>2, <3>3 DEF Newest, Price
    <3> QED BY <3>2, <3>3, <3>4
  <2>2. CASE f.kind # "price"
    BY <1>4, <2>2 DEF Newest, Price
  <2> QED BY <2>1, <2>2
<1>11. Fed(d, m) => Fed(d, m)'
  <2>1. Newest(m)' = Newest(m)
    BY <1>1 DEF Newest, ledger
  <2>2. Newest(m) \in Range(queue[x]) => Newest(m) \in Range(queue'[x]) \/ (d = c /\ f = Newest(m))
    BY <1>7
  <2> QED BY <1>1, <1>4, <1>10, <2>1, <2>2 DEF Fed, ledger, x
<1> QED BY <1>9, <1>11

LEMMA FollowingNext ==
  ASSUME ~SkipsInFlight, FeedInv, Following, [Next]_vars
  PROVE  Following'
<1>0. PagesTyped /\ ReadsTyped /\ SocketsTyped
  BY DEF FeedInv
<1>1. CASE UNCHANGED <<phase, page, believed>>
  BY <1>1 DEF Following, Wanted
<1>2. ASSUME NEW closed, NEW code, OnClose(closed, code) PROVE Following'
  BY <1>0, <1>2 DEF OnClose, Following, Wanted, PagesTyped
<1>3. ASSUME NEW c \in Clients, NEW k, OnOpen(c, k) PROVE Following'
  BY <1>0, <1>3 DEF OnOpen, Following, Wanted, PagesTyped
<1>4. ASSUME NEW c \in Clients, Refresh(c) PROVE Following'
  BY <1>0, <1>4 DEF Refresh, Following, Wanted, PagesTyped
<1>5. ASSUME NEW c \in Clients, Turn(c) PROVE Following'
  <2>1. page \in [Clients -> Nat]
    BY <1>0, <1>5, WantedMarkets
  <2>2. page' = [page EXCEPT ![c] = page[c] + 1] /\ phase' = phase
    BY <1>5 DEF Turn
  <2>3. IF phase[c] = "open" THEN believed' = [believed EXCEPT ![c] = Follows[c][page[c] + 1]] ELSE believed' = believed
    BY <1>5 DEF Turn
  <2> SUFFICES ASSUME NEW d \in Clients
               PROVE  believed'[d] \subseteq Wanted(d)' /\ (phase[d] # "open" => believed'[d] = {})
    BY <2>2 DEF Following
  <2>4. CASE d = c
    <3>1. Wanted(d)' = Follows[c][page[c] + 1]
      BY <2>1, <2>2, <2>4 DEF Wanted
    <3> QED BY <1>0, <2>3, <2>4, <3>1 DEF Following, PagesTyped
  <2>5. CASE d # c
    <3>1. Wanted(d)' = Wanted(d) /\ believed'[d] = believed[d]
      BY <1>0, <2>1, <2>2, <2>3, <2>5 DEF Wanted, PagesTyped
    <3> QED BY <3>1 DEF Following
  <2> QED BY <2>4, <2>5
<1>6. ASSUME NEW c \in Clients, NEW k \in Sockets, Pump(c, k) PROVE Following'
  <2> DEFINE f == Head(queue[k])
  <2>1. f \in Frames /\ OnMessage(c, f)
    BY <1>0, <1>6, FramesLeft DEF Pump, SocketsTyped
  <2> HIDE DEF f
  <2>2. UNCHANGED <<phase, page>> /\ \A d \in Clients : believed'[d] \subseteq believed[d]
    BY <1>0, <2>1, MessageReads
  <2> QED BY <2>2 DEF Following, Wanted
<1>7. \/ UNCHANGED <<phase, page, believed>>
      \/ \E closed, code : OnClose(closed, code)
      \/ \E c \in Clients, k \in Sockets : OnOpen(c, k) \/ Pump(c, k)
      \/ \E c \in Clients : Refresh(c) \/ Turn(c)
  BY DEF Next, vars, Trade, Publish, PublishAgain, Send, PublishFails, Connect, Disconnect, Consume, Restart, ReadCommand,
         Notice, Finish, Expire, Drop, Handshake, Snapshot, ReadFails, Answer, client
<1> QED BY <1>1, <1>2, <1>3, <1>4, <1>5, <1>6, <1>7

LEMMA ToldInit == Init => Following /\ Told
BY DEF Init, Following, Told, Live

LEMMA ToldNext ==
  ASSUME ~SkipsInFlight, FeedInv, PricesDue, Following, Told, [Next]_vars
  PROVE  Told'
<1>1. CASE UNCHANGED vars
  <2>1. UNCHANGED <<version, outbox, inbox, gate, dropped, hub, sockets, client>>
    BY <1>1 DEF vars, ledger, relay
  <2>2. \A c \in Clients, m \in Markets : Awaited(c, m) => Awaited(c, m)'
    BY <2>1, AwaitedStill DEF sockets, client
  <2> QED BY <2>1, <2>2, BehindPages
<1> SUFFICES ASSUME Next PROVE Told'
  BY <1>1
<1>2. ASSUME NEW m \in Markets, Trade(m) PROVE Told'
  BY <1>2, TradeTells
<1>3. ASSUME NEW frames \in outbox, Publish(frames) \/ PublishAgain(frames) PROVE Told'
  BY <1>3, SendTells DEF Publish, PublishAgain
<1>4. ASSUME NEW frames \in outbox, PublishFails(frames) PROVE Told'
  BY <1>4, FailTells
<1>5. ASSUME NEW r \in Relays, Connect(r) \/ Disconnect(r) PROVE Told'
  BY <1>5, BusTells
<1>6. ASSUME NEW r \in Relays, Consume(r) PROVE Told'
  BY <1>6, ConsumeTells
<1>7. ASSUME NEW r \in Relays, Restart(r) PROVE Told'
  BY <1>7, RestartTells
<1>8. ASSUME NEW k \in Sockets, ReadCommand(k) PROVE Told'
  BY <1>8, ReadCommandTells
<1>9. ASSUME NEW k \in Sockets, Notice(k) PROVE Told'
  BY <1>9, EndsTell
<1>10. ASSUME NEW k \in Sockets, Finish(k) PROVE Told'
  BY <1>10, FinishTells
<1>11. ASSUME NEW c \in Clients, Turn(c) PROVE Told'
  BY <1>11, TurnTells
<1>12. ASSUME NEW c \in Clients, Refresh(c) \/ Expire(c) \/ Drop(c) PROVE Told'
  BY <1>12, EndsTell
<1>13. ASSUME NEW c \in Clients, NEW k \in Sockets, NEW r \in Relays, Handshake(c, k, r) PROVE Told'
  BY <1>13, HandshakeTells
<1>14. ASSUME NEW c \in Clients, NEW k \in Sockets, Pump(c, k) PROVE Told'
  BY <1>14, PumpTells
<1>15. ASSUME NEW c \in Clients, NEW m \in Markets, Snapshot(c, m) \/ ReadFails(c, m) PROVE Told'
  BY <1>15, ReadsTell
<1>16. ASSUME NEW c \in Clients, NEW a \in answers[c], Answer(c, a) PROVE Told'
  BY <1>16, AnswerTells
<1> QED
  BY <1>2, <1>3, <1>4, <1>5, <1>6, <1>7, <1>8, <1>9, <1>10, <1>11, <1>12, <1>13, <1>14, <1>15, <1>16 DEF Next

\* Where a page reads again all that its relay acknowledges, a live page shows
\* the newest price or will be handed it, whatever fails in between; the board
\* that skips what it is already reading does not, and the `frozen` run shows
\* how (usePricesForMarkets.ts).
THEOREM NothingStaysFrozen == ASSUME ~SkipsInFlight PROVE Spec => []NothingFrozen
<1> DEFINE Inv == FeedInv /\ PricesDue /\ Following /\ Told
<1>1. Init => Inv
  BY FeedInit, PricesDueInit, ToldInit
<1>2. Inv /\ [Next]_vars => Inv'
  BY FeedNext, PricesDueNext, FollowingNext, ToldNext
<1>3. Inv => NothingFrozen
  BY ToldMeans
<1> QED BY <1>1, <1>2, <1>3, PTL DEF Spec

=============================================================================
