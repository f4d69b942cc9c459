---------------------------- MODULE ReadersProofs ----------------------------
(***************************************************************************)
(* Theorems about the walks of a list that is written while it is read, for *)
(* any finite sets of holders and markets, any rows, batches, clocks, page  *)
(* sizes and number of pages.                                               *)
(*                                                                          *)
(* Any finite set can be listed in an order that ties no two of its rows    *)
(* (PlacesFill, ListExists), so a page is the first of what its cursor      *)
(* leaves and whatever else is left comes after its last row (Pages,        *)
(* CutPages).  What was shown stays in order as pages are added, for the    *)
(* row a cursor names is one that was shown (Appended, GoesOn).             *)
(*                                                                          *)
(* Each list adds what keeps its rows in their places: a feed, that what is *)
(* appended to an account is later than all of it (AccountSound); the       *)
(* leaderboard, that the generation a walk is of is the only one of its     *)
(* time (Fixed); the browse and the overview, that a public market's place  *)
(* only goes later, but for a close stamped early (StoppedUnseen).          *)
(***************************************************************************)
EXTENDS Readers, Sums, SequenceTheorems

----------------------------------------------------------------------------
(* What is shown *)

\* A cursor that names a row is not a first page's.
LEMMA CursorNames ==
  ASSUME NEW c, NEW row, c = <<row>>
  PROVE  c # None /\ c[1] = row
BY DEF None

LEMMA ListOf ==
  ASSUME NEW T, NEW n \in Nat, NEW s \in [1..n -> T]
  PROVE  s \in Seq(T) /\ Len(s) = n
<1>1. s \in Seq(T)
  BY SeqDef
<1> QED BY <1>1

\* A page goes after what was shown, and leaves it as it is.
LEMMA Appended ==
  ASSUME NEW T, NEW s \in Seq(T), NEW r \in Seq(T)
  PROVE  /\ s \o r \in Seq(T) /\ Len(s \o r) = Len(s) + Len(r)
         /\ Len(s) \in Nat /\ Len(r) \in Nat
         /\ \A i \in 1..Len(s) : i \in 1..Len(s \o r) /\ (s \o r)[i] = s[i]
         /\ \A i \in 1..Len(r) : Len(s) + i \in 1..Len(s \o r) /\ (s \o r)[Len(s) + i] = r[i]
         /\ \A i \in 1..Len(s \o r) : i \in 1..Len(s) \/ (i - Len(s) \in 1..Len(r) /\ (s \o r)[i] = r[i - Len(s)])
<1>1. s \o r \in Seq(T) /\ Len(s \o r) = Len(s) + Len(r) /\ Len(s) \in Nat /\ Len(r) \in Nat
  BY ConcatProperties, LenProperties
<1>2. \A i \in 1..Len(s) + Len(r) : (s \o r)[i] = IF i <= Len(s) THEN s[i] ELSE r[i - Len(s)]
  BY ConcatProperties
<1>3. PICK n \in Nat, m \in Nat : n = Len(s) /\ m = Len(r)
  BY <1>1
<1>4. \A i \in 1..n : i \in 1..n + m /\ i <= n
  BY <1>3
<1>5. \A i \in 1..m : n + i \in 1..n + m /\ ~ (n + i <= n) /\ n + i - n = i
  BY <1>3
<1>6. \A i \in 1..n + m : i \in 1..n \/ (i - n \in 1..m /\ ~ (i <= n))
  BY <1>3
<1>7. \A i \in 1..n : (s \o r)[i] = s[i]
  BY <1>2, <1>3, <1>4
<1>8. \A i \in 1..m : (s \o r)[n + i] = r[i]
  BY <1>2, <1>3, <1>5
<1>9. \A i \in 1..n + m : i \in 1..n \/ (i - n \in 1..m /\ (s \o r)[i] = r[i - n])
  BY <1>2, <1>3, <1>6
<1> QED BY <1>1, <1>3, <1>4, <1>5, <1>7, <1>8, <1>9

\* R takes every row of s to every later one.
Goes(R, s) == \A i, j \in 1..Len(s) : i < j => <<s[i], s[j]>> \in R

\* Two stretches in order make one, if the second goes on from the first's end.
LEMMA GoesOn ==
  ASSUME NEW T, NEW R, NEW s \in Seq(T), NEW r \in Seq(T), Goes(R, s), Goes(R, r),
         \A x, y, z \in T : <<x, y>> \in R /\ <<y, z>> \in R => <<x, z>> \in R,
         \A i \in 1..Len(r) : Len(s) > 0 => <<s[Len(s)], r[i]>> \in R
  PROVE  /\ Goes(R, s \o r)
         /\ \A i \in 1..Len(s), j \in 1..Len(r) : <<s[i], r[j]>> \in R
<1>1. PICK n \in Nat, m \in Nat : n = Len(s) /\ m = Len(r)
  BY LenProperties
<1>2. /\ Len(s \o r) = n + m
      /\ \A i \in 1..n : (s \o r)[i] = s[i]
      /\ \A i \in 1..n + m : i \in 1..n \/ (i - n \in 1..m /\ (s \o r)[i] = r[i - n])
  BY <1>1, Appended
<1>3. \A i \in 1..n : s[i] \in T
  BY <1>1, ElementOfSeq
<1>4. \A i \in 1..m : r[i] \in T
  BY <1>1, ElementOfSeq
<1>5. ASSUME NEW i \in 1..n, NEW j \in 1..m PROVE <<s[i], r[j]>> \in R
  <2>1. n > 0 /\ n \in 1..n /\ <<s[n], r[j]>> \in R
    BY <1>1
  <2>2. CASE i = n
    BY <2>1, <2>2
  <2>3. CASE i # n
    <3>1. i < n
      BY <2>3
    <3>2. <<s[i], s[n]>> \in R
      BY <1>1, <2>1, <3>1 DEF Goes
    <3> QED BY <1>3, <1>4, <2>1, <3>2
  <2> QED BY <2>2, <2>3
<1>6. ASSUME NEW i \in 1..n + m, NEW j \in 1..n + m, i < j PROVE <<(s \o r)[i], (s \o r)[j]>> \in R
  <2>1. CASE i \in 1..n /\ j \in 1..n
    BY <1>1, <1>2, <1>6, <2>1 DEF Goes
  <2>2. CASE i \in 1..n /\ j \notin 1..n
    BY <1>2, <1>5, <2>2
  <2>3. CASE i \notin 1..n
    <3>1. i > n /\ j \notin 1..n /\ i - n < j - n
      BY <1>6, <2>3
    <3>2. i - n \in 1..m /\ j - n \in 1..m /\ (s \o r)[i] = r[i - n] /\ (s \o r)[j] = r[j - n]
      BY <1>2, <2>3, <3>1
    <3> QED BY <1>1, <3>1, <3>2 DEF Goes
  <2> QED BY <2>1, <2>2, <2>3
<1> QED BY <1>1, <1>2, <1>5, <1>6 DEF Goes

LEMMA ImageFinite ==
  ASSUME NEW S, IsFiniteSet(S), NEW f, DOMAIN f = S, f = [x \in S |-> f[x]]
  PROVE  IsFiniteSet({f[x] : x \in S})
<1> DEFINE T == {f[x] : x \in S}
<1>1. f \in Surjection(S, T)
  BY DEF Surjection
<1> HIDE DEF T
<1>2. IsFiniteSet(T)
  BY <1>1, FS_Surjection
<1> QED BY <1>2 DEF T

----------------------------------------------------------------------------
(* Pages *)

\* No row is before itself, and of any two one is before the other.
Orders(R, S) ==
  /\ \A x \in S : <<x, x>> \notin R
  /\ \A x, y, z \in S : <<x, y>> \in R /\ <<y, z>> \in R => <<x, z>> \in R
  /\ \A x, y \in S : x = y \/ <<x, y>> \in R \/ <<y, x>> \in R

\* s lists S, and goes by R.
ListsAll(s, S, R) ==
  /\ s \in Seq(S)
  /\ \A i, j \in 1..Len(s) : i < j => <<s[i], s[j]>> \in R
  /\ \A x \in S : \E i \in 1..Len(s) : s[i] = x

Before(R, S, x) == {y \in S : <<y, x>> \in R}

\* In a finite set, every place is some row's: as many rows are before it.
LEMMA PlacesFill ==
  ASSUME NEW S, IsFiniteSet(S), NEW R, Orders(R, S)
  PROVE  /\ Cardinality(S) \in Nat
         /\ \A x, y \in S : <<x, y>> \in R <=> Cardinality(Before(R, S, x)) < Cardinality(Before(R, S, y))
         /\ \A i \in 1..Cardinality(S) : \E x \in S : Cardinality(Before(R, S, x)) = i - 1
<1> DEFINE n == Cardinality(S)
           place == [x \in S |-> Cardinality(Before(R, S, x)) + 1]
<1>1. n \in Nat /\ IsFiniteSet(1..n) /\ Cardinality(1..n) = n
  BY FS_CardinalityType, FS_Interval
<1>2. \A x \in S : /\ Before(R, S, x) \in SUBSET S /\ IsFiniteSet(Before(R, S, x))
                   /\ Cardinality(Before(R, S, x)) \in Nat /\ Cardinality(Before(R, S, x)) < n
  <2> SUFFICES ASSUME NEW x \in S
               PROVE  /\ Before(R, S, x) \in SUBSET S /\ IsFiniteSet(Before(R, S, x))
                      /\ Cardinality(Before(R, S, x)) \in Nat /\ Cardinality(Before(R, S, x)) < n
    OBVIOUS
  <2>1. Before(R, S, x) \in SUBSET S /\ x \notin Before(R, S, x)
    BY DEF Before, Orders
  <2>2. /\ IsFiniteSet(Before(R, S, x)) /\ Cardinality(Before(R, S, x)) <= n
        /\ n = Cardinality(Before(R, S, x)) => S = Before(R, S, x)
    BY <2>1, FS_Subset
  <2>3. Cardinality(Before(R, S, x)) \in Nat
    BY <2>2, FS_CardinalityType
  <2> QED BY <1>1, <2>1, <2>2, <2>3
<1>3. ASSUME NEW x \in S, NEW y \in S, <<x, y>> \in R
      PROVE  Cardinality(Before(R, S, x)) < Cardinality(Before(R, S, y))
  <2>1. Before(R, S, x) \in SUBSET Before(R, S, y)
    BY <1>3 DEF Before, Orders
  <2>2. x \in Before(R, S, y) /\ x \notin Before(R, S, x)
    BY <1>3 DEF Before, Orders
  <2>3. /\ Cardinality(Before(R, S, x)) <= Cardinality(Before(R, S, y))
        /\ Cardinality(Before(R, S, y)) = Cardinality(Before(R, S, x)) => Before(R, S, y) = Before(R, S, x)
    BY <1>2, <2>1, FS_Subset
  <2> QED BY <1>2, <2>2, <2>3
<1>4. PICK c \in [S -> Nat] : \A x \in S : c[x] = Cardinality(Before(R, S, x))
  <2> DEFINE d == [x \in S |-> Cardinality(Before(R, S, x))]
  <2>1. d \in [S -> Nat] /\ \A x \in S : d[x] = Cardinality(Before(R, S, x))
    BY <1>2
  <2> HIDE DEF d
  <2> QED BY <2>1
<1>8. \A x \in S : c[x] < n
  BY <1>2, <1>4
<1>9. \A x, y \in S : <<x, y>> \in R => c[x] < c[y]
  BY <1>3, <1>4
<1>13. \A x, y \in S : x = y \/ <<x, y>> \in R \/ <<y, x>> \in R
  BY DEF Orders
<1>10. ASSUME NEW x \in S, NEW y \in S, c[x] = c[y] PROVE x = y
  <2>1. c[x] \in Nat /\ ~ (c[x] < c[y]) /\ ~ (c[y] < c[x])
    BY <1>4, <1>10
  <2> QED BY <1>9, <1>13, <2>1
<1>11. ASSUME NEW x \in S, NEW y \in S PROVE <<x, y>> \in R <=> c[x] < c[y]
  <2>1. c[x] \in Nat /\ c[y] \in Nat
    BY <1>4
  <2>2. c[x] < c[y] => x # y /\ ~ (c[y] < c[x])
    BY <2>1
  <2> QED BY <1>9, <1>13, <2>2
<1>12. \A x \in S : place[x] = c[x] + 1
  BY <1>4
<1> HIDE DEF n, place
<1>5. place \in Injection(S, 1..n)
  <2>1. \A x \in S : place[x] \in 1..n
    BY <1>1, <1>4, <1>8, <1>12
  <2>2. \A x, y \in S : place[x] = place[y] => x = y
    BY <1>4, <1>10, <1>12
  <2>3. place \in [S -> 1..n]
    BY <2>1 DEF place
  <2> QED BY <2>2, <2>3 DEF Injection, IsInjective
<1>6. place \in Surjection(S, 1..n)
  BY <1>1, <1>5, FS_Injection DEF n
<1>7. ASSUME NEW i \in 1..n PROVE \E x \in S : Cardinality(Before(R, S, x)) = i - 1
  <2>1. PICK x \in S : place[x] = i
    BY <1>6 DEF Surjection
  <2> QED BY <1>1, <1>4, <1>12, <2>1
<1> QED BY <1>1, <1>4, <1>7, <1>11 DEF n

\* A finite set can be listed in any order of its rows.
LEMMA ListExists ==
  ASSUME NEW S, IsFiniteSet(S), NEW R, Orders(R, S)
  PROVE  \E s \in SetToSeqs(S) : \A i, j \in DOMAIN s : i < j => <<s[i], s[j]>> \in R
<1> DEFINE n == Cardinality(S)
           s == [i \in 1..n |-> CHOOSE x \in S : Cardinality(Before(R, S, x)) = i - 1]
<1>1. n \in Nat
  BY PlacesFill
<1>2. \A i \in 1..n : s[i] \in S /\ Cardinality(Before(R, S, s[i])) = i - 1
  BY PlacesFill
<1> HIDE DEF s
<1>3. s \in [1..n -> S]
  BY <1>2 DEF s
<1>4. \A i, j \in 1..n : i # j => s[i] # s[j]
  BY <1>1, <1>2
<1>5. s \in SetToSeqs(S)
  BY <1>3, <1>4 DEF SetToSeqs
<1>6. ASSUME NEW i \in 1..n, NEW j \in 1..n, i < j PROVE <<s[i], s[j]>> \in R
  <2>1. s[i] \in S /\ s[j] \in S /\ Cardinality(Before(R, S, s[i])) < Cardinality(Before(R, S, s[j]))
    BY <1>1, <1>2, <1>6
  <2> QED BY <2>1, PlacesFill
<1> QED BY <1>3, <1>5, <1>6

\* A sequence of a finite set's rows, each once, has them all.
LEMMA ListHasAll ==
  ASSUME NEW S, IsFiniteSet(S), NEW R, NEW s \in SetToSeqs(S),
         \A i, j \in DOMAIN s : i < j => <<s[i], s[j]>> \in R
  PROVE  ListsAll(s, S, R)
<1> DEFINE n == Cardinality(S)
<1>1. n \in Nat /\ IsFiniteSet(1..n) /\ Cardinality(1..n) = n
  BY FS_CardinalityType, FS_Interval
<1>2. s \in [1..n -> S] /\ \A i, j \in 1..n : i # j => s[i] # s[j]
  BY DEF SetToSeqs
<1>3. s \in Seq(S) /\ Len(s) = n /\ DOMAIN s = 1..n
  BY <1>1, <1>2
<1>4. s \in Injection(1..n, S)
  BY <1>2 DEF Injection, IsInjective
<1>5. s \in Surjection(1..n, S)
  BY <1>1, <1>4, FS_Injection
<1>6. \A x \in S : \E i \in 1..n : s[i] = x
  BY <1>5 DEF Surjection
<1> QED BY <1>3, <1>6 DEF ListsAll

\* What a page is of the rows that could have been on it: the first of them, in
\* order; whatever is not on it comes after its last row, which the cursor names.
Pages(page, S, R) ==
  /\ page.rows \in Seq(S)
  /\ \A i, j \in 1..Len(page.rows) : i < j => <<page.rows[i], page.rows[j]>> \in R
  /\ page.next # None => Len(page.rows) > 0 /\ page.next = <<page.rows[Len(page.rows)]>>
  /\ \A x \in S : \/ \E i \in 1..Len(page.rows) : page.rows[i] = x
                  \/ page.next # None /\ <<page.rows[Len(page.rows)], x>> \in R

LEMMA LesserIs ==
  ASSUME NEW a \in Int, NEW b \in Int
  PROVE  Min({a, b}) = IF a <= b THEN a ELSE b
<1>1. \E x \in {a, b} : \A y \in {a, b} : x <= y
  OBVIOUS
<1>2. Min({a, b}) \in {a, b} /\ \A y \in {a, b} : Min({a, b}) <= y
  BY <1>1 DEF Min
<1> QED BY <1>2

\* A page cut of the rows fetched is a page of the rows that were listed.
LEMMA CutPages ==
  ASSUME NEW S, NEW R, NEW s, ListsAll(s, S, R), NEW limit \in Nat \ {0}
  PROVE  /\ Pages(Cut(Fetched(s, limit), limit), S, R)
         /\ Fetched(s, limit) \in Seq(S) /\ Len(Fetched(s, limit)) <= Len(s)
         /\ \A i \in 1..Len(Fetched(s, limit)) : Fetched(s, limit)[i] = s[i]
         /\ Len(Cut(Fetched(s, limit), limit).rows) <= Len(Fetched(s, limit))
         /\ \A i \in 1..Len(Cut(Fetched(s, limit), limit).rows) : Cut(Fetched(s, limit), limit).rows[i] = s[i]
<1> DEFINE f == Fetched(s, limit)
           page == Cut(f, limit)
<1>1. PICK n \in Nat : n = Len(s)
  BY DEF ListsAll
<1>13. s \in Seq(S) /\ \A i \in 1..n : s[i] \in S
  BY <1>1 DEF ListsAll
<1>14. limit \in Nat /\ limit > 0
  OBVIOUS
<1>15. PICK k \in Nat : k = IF limit + 1 <= n THEN limit + 1 ELSE n
  BY <1>14
<1>16. PICK m \in Nat : m = IF limit <= k THEN limit ELSE k
  BY <1>14
<1>3. f \in Seq(S) /\ Len(f) = k /\ \A i \in 1..k : f[i] = s[i]
  <2>1. Min({limit + 1, Len(s)}) = k
    BY <1>1, <1>14, <1>15, LesserIs
  <2>2. f = SubSeq(s, 1, k)
    BY <2>1 DEF Fetched
  <2>3. \A i \in 1..k : s[i] \in S
    BY <1>13, <1>14, <1>15
  <2>4. Len(f) = k /\ f \in Seq(S)
    BY <2>2, <2>3, SubSeqProperties
  <2>5. ASSUME NEW i \in 1..k PROVE f[i] = s[i]
    <3>1. k - 1 + 1 = k /\ 1 + i - 1 = i
      OBVIOUS
    <3>2. f[i] = s[1 + i - 1]
      BY <2>2, <2>3, <3>1, SubSeqProperties
    <3> QED BY <3>1, <3>2
  <2> QED BY <2>4, <2>5
<1> HIDE DEF f
<1>5. page.rows = SubSeq(f, 1, m) /\ page.next = IF k > limit THEN <<f[limit]>> ELSE None
  <2>1. Min({limit, Len(f)}) = m
    BY <1>3, <1>14, <1>16, LesserIs
  <2> QED BY <1>3, <2>1 DEF Cut
<1> HIDE DEF page
<1>6. page.rows \in Seq(S) /\ Len(page.rows) = m /\ \A i \in 1..m : page.rows[i] = f[i]
  <2>1. \A i \in 1..m : f[i] \in S
    BY <1>3, <1>13, <1>14, <1>15, <1>16
  <2>2. Len(page.rows) = m /\ page.rows \in Seq(S)
    BY <1>5, <2>1, SubSeqProperties
  <2>3. ASSUME NEW i \in 1..m PROVE page.rows[i] = f[i]
    <3>1. m - 1 + 1 = m /\ 1 + i - 1 = i
      OBVIOUS
    <3>2. page.rows[i] = f[1 + i - 1]
      BY <1>5, <2>1, <3>1, SubSeqProperties
    <3> QED BY <3>1, <3>2
  <2> QED BY <2>2, <2>3
<1>17. m <= k /\ k <= n
  BY <1>14, <1>15, <1>16
<1>7. \A i \in 1..m : page.rows[i] = s[i] /\ i \in 1..n
  BY <1>3, <1>6, <1>17
<1>18. k > limit => m = limit /\ m < n
  BY <1>14, <1>15, <1>16
<1>19. ~ (k > limit) => m = n
  BY <1>14, <1>15, <1>16
<1>20. page.next = None <=> ~ (k > limit)
  BY <1>5 DEF None
<1>8. page.next # None => m = limit /\ m > 0 /\ page.next = <<page.rows[m]>> /\ m < n
  <2>1. SUFFICES ASSUME k > limit PROVE m = limit /\ m > 0 /\ page.next = <<page.rows[m]>> /\ m < n
    BY <1>20
  <2>2. m = limit /\ m < n /\ m \in 1..m
    BY <1>14, <1>18, <2>1
  <2>3. page.next = <<f[limit]>> /\ page.rows[m] = f[m]
    BY <1>5, <1>6, <2>1, <2>2
  <2> QED BY <1>14, <2>2, <2>3
<1>9. page.next = None => m = n
  BY <1>19, <1>20
<1>10. \A i, j \in 1..m : i < j => <<page.rows[i], page.rows[j]>> \in R
  BY <1>1, <1>7 DEF ListsAll
<1>11. ASSUME NEW x \in S
       PROVE  (\E i \in 1..m : page.rows[i] = x) \/ (page.next # None /\ <<page.rows[m], x>> \in R)
  <2>1. PICK j \in 1..n : s[j] = x
    BY <1>1 DEF ListsAll
  <2>2. CASE j <= m
    BY <1>7, <2>1, <2>2
  <2>3. CASE ~ (j <= m)
    <3>1. page.next # None
      BY <1>9, <2>3
    <3>2. m \in 1..n /\ m < j /\ page.rows[m] = s[m]
      BY <1>7, <1>8, <2>3, <3>1
    <3>3. \A a, b \in 1..n : a < b => <<s[a], s[b]>> \in R
      BY <1>1 DEF ListsAll
    <3> QED BY <2>1, <3>1, <3>2, <3>3
  <2> QED BY <2>2, <2>3
<1>12. Pages(page, S, R)
  BY <1>6, <1>8, <1>10, <1>11 DEF Pages
<1>21. Len(f) <= Len(s) /\ Len(page.rows) <= Len(f) /\ \A i \in 1..Len(f) : f[i] = s[i]
  BY <1>1, <1>3, <1>6, <1>17
<1>22. \A i \in 1..Len(page.rows) : page.rows[i] = s[i]
  BY <1>6, <1>7
<1> QED BY <1>3, <1>12, <1>21, <1>22 DEF f, page

----------------------------------------------------------------------------
(* The orders of the lists *)

Kinds == STRING \cup {"suspend", "close"}

Row == [at: Nat, id: Nat, kind: Kinds, amount: Int, nth: Nat]

\* What a table's rows are: a row is told by its id.
Table(S) == IsFiniteSet(S) /\ S \in SUBSET Row /\ \A r, s \in S : r.id = s.id => r = s

NewerIn(S) == {p \in S \X S : Newer(p[1], p[2])}

\* A table has one order, newest first, and can be listed in it.
LEMMA NewestLists ==
  ASSUME NEW S, Table(S)
  PROVE  Orders(NewerIn(S), S) /\ ListsAll(NewestFirst(S), S, NewerIn(S))
<1>1. \A r, s \in S : <<r, s>> \in NewerIn(S) <=> Newer(r, s)
  BY DEF NewerIn
<1>2. \A r \in S : r.at \in Nat /\ r.id \in Nat
  BY DEF Table, Row
<1>3. \A r, s \in S : Newer(r, s) <=> s.at < r.at \/ (s.at = r.at /\ s.id < r.id)
  BY <1>2 DEF Newer, Older, Table
<1>4. \A r, s \in S : r = s \/ Newer(r, s) \/ Newer(s, r)
  BY <1>2, <1>3 DEF Table
<1>5. \A r, s, t \in S : Newer(r, s) /\ Newer(s, t) => Newer(r, t)
  BY <1>2, <1>3
<1>6. \A r \in S : ~ Newer(r, r)
  BY DEF Newer
<1>7. Orders(NewerIn(S), S)
  BY <1>1, <1>4, <1>5, <1>6 DEF Orders
<1>8. PICK s \in SetToSeqs(S) : \A i, j \in DOMAIN s : i < j => <<s[i], s[j]>> \in NewerIn(S)
  BY <1>7, ListExists DEF Table
<1>9. \A i, j \in DOMAIN s : i < j => Newer(s[i], s[j])
  BY <1>8 DEF NewerIn
<1>10. /\ NewestFirst(S) \in SetToSeqs(S)
       /\ \A i, j \in DOMAIN NewestFirst(S) : i < j => Newer(NewestFirst(S)[i], NewestFirst(S)[j])
  BY <1>9 DEF NewestFirst, InOrder
<1>11. \A i \in DOMAIN NewestFirst(S) : NewestFirst(S)[i] \in S
  BY <1>10 DEF SetToSeqs
<1>12. \A i, j \in DOMAIN NewestFirst(S) : i < j => <<NewestFirst(S)[i], NewestFirst(S)[j]>> \in NewerIn(S)
  BY <1>1, <1>10, <1>11
<1> QED BY <1>7, <1>10, <1>12, ListHasAll DEF Table

Position == [id: Nat, as_of: Nat, is_open: BOOLEAN, sort_at: Nat]

\* The browse's positions as of one moment.
Moment(S) == IsFiniteSet(S) /\ S \in SUBSET Position /\ \A p, r \in S : p.as_of = r.as_of

BrowsedIn(S) == {p \in S \X S : BrowsePrecedes(p[1], p[2])}

\* The browse's order can be followed across two moments; it tells all markets
\* apart only within one.
LEMMA BrowseGoesOn ==
  ASSUME NEW p \in Position, NEW r \in Position, NEW t \in Position,
         BrowsePrecedes(p, r), BrowsePrecedes(r, t)
  PROVE  BrowsePrecedes(p, t)
BY DEF BrowsePrecedes, Position

LEMMA BrowseApart ==
  ASSUME NEW p \in Position, NEW r \in Position
  PROVE  /\ ~ BrowsePrecedes(p, p)
         /\ p.as_of = r.as_of => p = r \/ BrowsePrecedes(p, r) \/ BrowsePrecedes(r, p)
BY DEF BrowsePrecedes, Position

LEMMA BrowseLists ==
  ASSUME NEW S, Moment(S)
  PROVE  Orders(BrowsedIn(S), S) /\ ListsAll(InOrder(S, BrowsePrecedes), S, BrowsedIn(S))
<1>1. \A p, r \in S : <<p, r>> \in BrowsedIn(S) <=> BrowsePrecedes(p, r)
  BY DEF BrowsedIn
<1>2. \A p \in S : p \in Position
  BY DEF Moment
<1>3. Orders(BrowsedIn(S), S)
  BY <1>1, <1>2, BrowseGoesOn, BrowseApart DEF Orders, Moment
<1>4. PICK s \in SetToSeqs(S) : \A i, j \in DOMAIN s : i < j => <<s[i], s[j]>> \in BrowsedIn(S)
  BY <1>3, ListExists DEF Moment
<1>5. \A i, j \in DOMAIN s : i < j => BrowsePrecedes(s[i], s[j])
  BY <1>4 DEF BrowsedIn
<1> DEFINE l == InOrder(S, BrowsePrecedes)
<1>6. l \in SetToSeqs(S) /\ \A i, j \in DOMAIN l : i < j => BrowsePrecedes(l[i], l[j])
  BY <1>5 DEF InOrder
<1> HIDE DEF l
<1>7. \A i \in DOMAIN l : l[i] \in S
  BY <1>6 DEF SetToSeqs
<1>8. \A i, j \in DOMAIN l : i < j => <<l[i], l[j]>> \in BrowsedIn(S)
  BY <1>1, <1>6, <1>7
<1>9. ListsAll(l, S, BrowsedIn(S))
  BY <1>6, <1>8, ListHasAll DEF Moment
<1> QED BY <1>3, <1>9 DEF l

Filed == [id: Nat, finished: BOOLEAN, close: Nat]

OverviewedIn(S) == {p \in S \X S : OverviewPrecedes(p[1], p[2])}

LEMMA OverviewGoesOn ==
  ASSUME NEW p \in Filed, NEW r \in Filed, NEW t \in Filed,
         OverviewPrecedes(p, r), OverviewPrecedes(r, t)
  PROVE  OverviewPrecedes(p, t)
BY DEF OverviewPrecedes, Filed, Never

LEMMA OverviewApart ==
  ASSUME NEW p \in Filed, NEW r \in Filed
  PROVE  ~ OverviewPrecedes(p, p) /\ (p = r \/ OverviewPrecedes(p, r) \/ OverviewPrecedes(r, p))
BY DEF OverviewPrecedes, Filed, Never

LEMMA OverviewLists ==
  ASSUME NEW S \in SUBSET Filed, IsFiniteSet(S)
  PROVE  Orders(OverviewedIn(S), S) /\ ListsAll(InOrder(S, OverviewPrecedes), S, OverviewedIn(S))
<1>1. \A p, r \in S : <<p, r>> \in OverviewedIn(S) <=> OverviewPrecedes(p, r)
  BY DEF OverviewedIn
<1>2. \A p \in S : p \in Filed
  OBVIOUS
<1>3. Orders(OverviewedIn(S), S)
  BY <1>1, <1>2, OverviewGoesOn, OverviewApart DEF Orders
<1>4. PICK s \in SetToSeqs(S) : \A i, j \in DOMAIN s : i < j => <<s[i], s[j]>> \in OverviewedIn(S)
  BY <1>3, ListExists
<1>5. \A i, j \in DOMAIN s : i < j => OverviewPrecedes(s[i], s[j])
  BY <1>4 DEF OverviewedIn
<1> DEFINE l == InOrder(S, OverviewPrecedes)
<1>6. l \in SetToSeqs(S) /\ \A i, j \in DOMAIN l : i < j => OverviewPrecedes(l[i], l[j])
  BY <1>5 DEF InOrder
<1> HIDE DEF l
<1>7. \A i \in DOMAIN l : l[i] \in S
  BY <1>6 DEF SetToSeqs
<1>8. \A i, j \in DOMAIN l : i < j => <<l[i], l[j]>> \in OverviewedIn(S)
  BY <1>1, <1>6, <1>7
<1>9. ListsAll(l, S, OverviewedIn(S))
  BY <1>6, <1>8, ListHasAll
<1> QED BY <1>3, <1>9 DEF l

\* Worth more, or as much with the name first.
Outranks(w, u, v) == IF w[u] = w[v] THEN u < v ELSE w[u] > w[v]

OutranksIn(w, S) == {p \in S \X S : Outranks(w, p[1], p[2])}

\* A ranking lists its holders by what they are worth.
LEMMA RankingLists ==
  ASSUME NEW S \in SUBSET Holders, NEW w \in [Holders -> Nat]
  PROVE  ListsAll(RankingOf(w, S), S, OutranksIn(w, S))
<1>1. \A u, v \in S : <<u, v>> \in OutranksIn(w, S) <=> Outranks(w, u, v)
  BY DEF OutranksIn
<1>2. \A u \in S : u \in Nat /\ w[u] \in Nat
  BY LeaderboardAssumption
<1>3. IsFiniteSet(S)
  BY LeaderboardAssumption, FS_Subset
<1>4. \A u, v, x \in S : Outranks(w, u, v) /\ Outranks(w, v, x) => Outranks(w, u, x)
  BY <1>2 DEF Outranks
<1>5. \A u, v \in S : ~ Outranks(w, u, u) /\ (u = v \/ Outranks(w, u, v) \/ Outranks(w, v, u))
  BY <1>2 DEF Outranks
<1>6. Orders(OutranksIn(w, S), S)
  BY <1>1, <1>4, <1>5 DEF Orders
<1>7. PICK s \in SetToSeqs(S) : \A i, j \in DOMAIN s : i < j => <<s[i], s[j]>> \in OutranksIn(w, S)
  BY <1>3, <1>6, ListExists
<1>8. \A i, j \in DOMAIN s : i < j => IF w[s[i]] = w[s[j]] THEN s[i] < s[j] ELSE w[s[i]] > w[s[j]]
  <2>1. \A i, j \in DOMAIN s : <<s[i], s[j]>> \in OutranksIn(w, S) => Outranks(w, s[i], s[j])
    BY DEF OutranksIn
  <2>2. \A i, j \in DOMAIN s : i < j => Outranks(w, s[i], s[j])
    BY <1>7, <2>1
  <2> QED BY <2>2 DEF Outranks
<1> DEFINE l == RankingOf(w, S)
<1>9. l \in SetToSeqs(S) /\ \A i, j \in DOMAIN l : i < j => Outranks(w, l[i], l[j])
  <2> DEFINE Good(t) == \A i, j \in DOMAIN t : i < j =>
                          IF w[t[i]] = w[t[j]] THEN t[i] < t[j] ELSE w[t[i]] > w[t[j]]
  <2>1. l = CHOOSE t \in SetToSeqs(S) : Good(t)
    BY DEF RankingOf, InOrder
  <2>2. \E t \in SetToSeqs(S) : Good(t)
    BY <1>8
  <2> HIDE DEF Good
  <2>3. l \in SetToSeqs(S) /\ Good(l)
    BY <2>1, <2>2
  <2> QED BY <2>3 DEF Good, Outranks
<1> HIDE DEF l
<1>10. \A i \in DOMAIN l : l[i] \in S
  BY <1>9 DEF SetToSeqs
<1>11. \A i, j \in DOMAIN l : i < j => <<l[i], l[j]>> \in OutranksIn(w, S)
  BY <1>1, <1>9, <1>10
<1>12. ListsAll(l, S, OutranksIn(w, S))
  BY <1>3, <1>9, <1>11, ListHasAll
<1> QED BY <1>12 DEF l

----------------------------------------------------------------------------
(* The walk *)

\* A walk that has not begun has shown nothing.
WalkInv ==
  /\ list \in Lists /\ filter \in Filters /\ (list # "browse" => filter = "any")
  /\ walk \in {"not begun", "walking", "whole", "refreshed"}
  /\ walk = "not begun" => shown = <<>> /\ cursor = None /\ begun = {}

\* A step keeps the walk's list and filter, and what it began with.
LEMMA WalkMoves ==
  ASSUME WalkInv, [Next]_vars
  PROVE  /\ WalkInv' /\ list' = list /\ filter' = filter
         /\ begun' = begun \/ walk = "not begun"
<1>1. CASE UNCHANGED vars
  BY <1>1 DEF vars, reader, WalkInv
<1>2. CASE UNCHANGED <<list, filter, reader>>
  BY <1>2 DEF reader, WalkInv
<1>3. ASSUME NEW page, NEW there, Show(page, there), ~IsOver
      PROVE  WalkInv' /\ list' = list /\ filter' = filter /\ (begun' = begun \/ walk = "not begun")
  BY <1>3 DEF Show, WalkInv, IsOver
<1>4. CASE Read
  <2>1. PICK limit \in Limits : \/ ReadHistory(limit) \/ ReadTrades(limit) \/ ReadActions(limit)
                                \/ ReadBoard(limit) \/ ReadBrowse(limit) \/ ReadOverview(limit)
    BY <1>4 DEF Read
  <2>2. CASE ReadHistory(limit)
    BY <1>3, <2>2 DEF ReadHistory, MayRead
  <2>3. CASE ReadTrades(limit)
    BY <1>3, <2>3 DEF ReadTrades, MayRead
  <2>4. CASE ReadActions(limit)
    BY <1>3, <2>4 DEF ReadActions, MayRead
  <2>5. CASE ReadBoard(limit)
    <3>1. CASE \E page, there : Show(page, there)
      BY <1>3, <2>5, <3>1 DEF ReadBoard, MayRead
    <3>2. CASE walk' = "refreshed" /\ UNCHANGED <<list, filter, cursor, shown, begun>>
      BY <3>2 DEF WalkInv
    <3> QED BY <2>5, <3>1, <3>2 DEF ReadBoard
  <2>6. CASE ReadBrowse(limit)
    BY <1>3, <2>6 DEF ReadBrowse, MayRead
  <2>7. CASE ReadOverview(limit)
    BY <1>3, <2>7 DEF ReadOverview, MayRead
  <2> QED BY <2>1, <2>2, <2>3, <2>4, <2>5, <2>6, <2>7
<1> QED BY <1>1, <1>2, <1>4 DEF Next

\* A page of the rows S goes after what was shown.
Lengthens(page, S) ==
    /\ Len(shown') \in Nat /\ Len(shown') = Len(shown) + Len(page.rows)
    /\ Len(shown) \in Nat /\ Len(page.rows) \in Nat
    /\ \A i \in 1..Len(shown) : i \in 1..Len(shown') /\ shown'[i] = shown[i]
    /\ \A i \in 1..Len(page.rows) : Len(shown) + i \in 1..Len(shown') /\ shown'[Len(shown) + i] = page.rows[i]
    /\ \A i \in 1..Len(shown') :
         \/ i \in 1..Len(shown)
         \/ /\ i - Len(shown) \in 1..Len(page.rows) /\ shown'[i] = page.rows[i - Len(shown)]
            /\ shown'[i] \in S
    /\ page.next # None => Len(page.rows) > 0 /\ shown'[Len(shown')] = page.rows[Len(page.rows)]
    /\ walk' = "walking" => page.next # None /\ Len(shown') > 0 /\ cursor' = <<shown'[Len(shown')]>>
    /\ walk' \in {"walking", "whole"} /\ (walk' = "walking" <=> page.next # None)

\* What a step that shows a page does to what was shown.
LEMMA PageShown ==
  ASSUME NEW T, NEW R, NEW S, NEW page, Pages(page, S, R), S \in SUBSET T, shown \in Seq(T),
         NEW there, Show(page, there)
  PROVE  shown' \in Seq(T) /\ page.rows \in Seq(T) /\ shown' = shown \o page.rows /\ Lengthens(page, S)
<1> PICK rows : rows = page.rows
  OBVIOUS
<1>1. rows \in Seq(S) /\ rows \in Seq(T) /\ shown' = shown \o rows
  <2>1. rows \in Seq(S) /\ shown' = shown \o rows
    BY DEF Pages, Show
  <2>2. \A i \in 1..Len(rows) : rows[i] \in T
    BY <2>1, ElementOfSeq
  <2>3. rows = [i \in 1..Len(rows) |-> rows[i]] /\ Len(rows) \in Nat
    BY <2>1
  <2>4. rows \in [1..Len(rows) -> T]
    BY <2>2, <2>3
  <2> QED BY <2>1, <2>3, <2>4, SeqDef
<1>2. /\ shown' \in Seq(T) /\ Len(shown') = Len(shown) + Len(rows)
      /\ Len(shown) \in Nat /\ Len(rows) \in Nat
      /\ \A i \in 1..Len(shown) : i \in 1..Len(shown') /\ shown'[i] = shown[i]
      /\ \A i \in 1..Len(rows) : Len(shown) + i \in 1..Len(shown') /\ shown'[Len(shown) + i] = rows[i]
      /\ \A i \in 1..Len(shown') : i \in 1..Len(shown) \/ (i - Len(shown) \in 1..Len(rows) /\ shown'[i] = rows[i - Len(shown)])
  BY <1>1, Appended
<1>3. \A i \in 1..Len(rows) : rows[i] \in S
  BY <1>1, ElementOfSeq
<1>4. page.next # None => Len(rows) > 0 /\ page.next = <<rows[Len(rows)]>>
  BY DEF Pages
<1>5. page.next # None => shown'[Len(shown')] = rows[Len(rows)] /\ Len(shown') > 0
  <2>1. SUFFICES ASSUME page.next # None PROVE shown'[Len(shown')] = rows[Len(rows)] /\ Len(shown') > 0
    OBVIOUS
  <2>2. Len(rows) \in 1..Len(rows)
    BY <1>2, <1>4, <2>1
  <2> QED BY <1>2, <2>2
<1>6. cursor' = page.next /\ walk' = IF page.next = None THEN "whole" ELSE "walking"
  BY DEF Show
<1> QED BY <1>1, <1>2, <1>3, <1>4, <1>5, <1>6 DEF Lengthens

----------------------------------------------------------------------------
(* The leaderboard *)

\* worths were read at one moment, not before since.
ReadSince(worths, since) == \E k \in since..Len(past) : worths = past[k]

\* A generation ranks its holders by worths that were all read at one moment.
GenerationSound(g) ==
  /\ g.at \in Nat /\ g.since \in 1..Len(past)
  /\ g.worths \in [Holders -> Nat] /\ ReadSince(g.worths, g.since)
  /\ g.ranking \in Seq(Holders)
  /\ \A i, j \in 1..Len(g.ranking) : i < j => g.worths[g.ranking[i]] >= g.worths[g.ranking[j]]

Refresh == [step: {"idle", "stamped", "valued", "named"}, at: Nat, since: Nat,
            worths: [Holders -> Nat], ranked: SUBSET Holders]

\* A refresh under way has read its worths after it was begun.
RefreshSound(f) ==
  /\ f.step # "idle" => f.since \in 1..Len(past)
  /\ f.step \in {"valued", "named"} => ReadSince(f.worths, f.since)

\* What is kept of the board, and what is under way to it; no two generations
\* have one time.
BoardSound ==
  /\ past \in Seq([Holders -> Nat]) /\ Len(past) > 0
  /\ refresh \in [Refreshers -> Refresh] /\ \A r \in Refreshers : RefreshSound(refresh[r])
  /\ \A g \in generations : GenerationSound(g)
  /\ \A g, h \in generations : g.at = h.at => g = h

\* What a page says at place i of g's ranking.
Told(g, i) == [row |-> RowsOf(g, 0)[i], me |-> RankIn(g, Me)]

\* Whatever a walk is of, no other generation has its time, nor will.
Fixed(g) ==
  /\ GenerationSound(g)
  /\ \A h \in generations : h.at = g.at => h = g
  /\ \E h \in generations : h.at >= g.at

\* A walk of the board is of one generation at most, and has shown the start of it.
BoardInv ==
  list = "board" =>
    /\ \A g \in begun :
         /\ Fixed(g)
         /\ Len(shown) <= Len(g.ranking)
         /\ shown \in Seq({Told(g, i) : i \in 1..Len(g.ranking)})
         /\ \A i \in 1..Len(shown) : shown[i] = Told(g, i)
         /\ walk = "walking" => Len(shown) > 0 /\ cursor = <<RowsOf(g, 0)[Len(shown)]>>
         /\ walk = "whole" => Len(shown) = Len(g.ranking)
    /\ begun = {} => shown = <<>>
    /\ walk = "walking" => begun # {}

LEMMA BoardStart ==
  ASSUME InitBoard
  PROVE  BoardSound
<1>1. FirstWorth \in [Holders -> Nat]
  BY LeaderboardAssumption
<1>2. past \in Seq([Holders -> Nat]) /\ Len(past) = 1
  BY <1>1 DEF InitBoard
<1>3. Idle \in Refresh /\ Idle.step = "idle"
  BY <1>1 DEF Idle, Refresh
<1>4. refresh \in [Refreshers -> Refresh] /\ \A r \in Refreshers : RefreshSound(refresh[r])
  BY <1>3 DEF InitBoard, RefreshSound
<1>5. generations = {}
  BY DEF InitBoard
<1> QED BY <1>2, <1>4, <1>5 DEF BoardSound

LEMMA WorthsAre ==
  ASSUME BoardSound
  PROVE  Worths \in [Holders -> Nat] /\ Len(past) \in Nat /\ Len(past) \in 1..Len(past)
<1>1. Len(past) \in Nat /\ Len(past) \in 1..Len(past)
  BY DEF BoardSound
<1> QED BY <1>1, ElementOfSeq DEF BoardSound, Worths

\* What was read stays read.
LEMMA PastStays ==
  ASSUME BoardSound, UNCHANGED past \/ \E w \in [Holders -> Nat] : past' = Append(past, w)
  PROVE  /\ past' \in Seq([Holders -> Nat]) /\ Len(past') > 0
         /\ \A since \in 1..Len(past) : \A w : ReadSince(w, since) => ReadSince(w, since)'
         /\ \A g : GenerationSound(g) => GenerationSound(g)'
         /\ \A f : RefreshSound(f) => RefreshSound(f)'
<1>1. PICK n \in Nat, k \in Nat : n = Len(past) /\ k = Len(past') /\ n <= k /\ \A i \in 1..n : past'[i] = past[i]
  <2>1. past \in Seq([Holders -> Nat]) /\ Len(past) \in Nat
    BY DEF BoardSound
  <2>2. CASE UNCHANGED past
    BY <2>1, <2>2
  <2>3. ASSUME NEW w \in [Holders -> Nat], past' = Append(past, w)
        PROVE  Len(past') = Len(past) + 1 /\ \A i \in 1..Len(past) : past'[i] = past[i]
    BY <2>1, <2>3, AppendProperties
  <2> QED BY <2>1, <2>2, <2>3
<1>6. past' \in Seq([Holders -> Nat]) /\ Len(past') > 0
  <2>1. past \in Seq([Holders -> Nat]) /\ Len(past) > 0
    BY DEF BoardSound
  <2>2. past' \in Seq([Holders -> Nat])
    <3>1. CASE UNCHANGED past
      BY <2>1, <3>1
    <3>2. ASSUME NEW w \in [Holders -> Nat], past' = Append(past, w) PROVE past' \in Seq([Holders -> Nat])
      BY <2>1, <3>2, AppendProperties
    <3> QED BY <3>1, <3>2
  <2> QED BY <1>1, <2>1, <2>2
<1>2. ASSUME NEW since \in 1..Len(past), NEW w, ReadSince(w, since) PROVE ReadSince(w, since)'
  <2>1. PICK i \in since..n : w = past[i]
    BY <1>1, <1>2 DEF ReadSince
  <2>2. i \in 1..n /\ i \in since..k
    BY <1>1
  <2> QED BY <1>1, <2>1, <2>2 DEF ReadSince
<1>3. \A since \in 1..Len(past) : since \in 1..Len(past')
  BY <1>1
<1>4. ASSUME NEW g, GenerationSound(g) PROVE GenerationSound(g)'
  BY <1>2, <1>3, <1>4 DEF GenerationSound
<1>5. ASSUME NEW f, RefreshSound(f) PROVE RefreshSound(f)'
  <2>1. f.step # "idle" => f.since \in 1..Len(past) /\ f.since \in 1..Len(past')
    BY <1>3, <1>5 DEF RefreshSound
  <2>2. f.step \in {"valued", "named"} => ReadSince(f.worths, f.since)'
    BY <1>2, <1>5, <2>1 DEF RefreshSound
  <2> QED BY <2>1, <2>2 DEF RefreshSound
<1> QED BY <1>2, <1>4, <1>5, <1>6

\* One refresher's step, up to its write.
LEMMA RefreshMoves ==
  ASSUME BoardSound, NEW r \in Refreshers, NEW f \in Refresh, RefreshSound(f),
         refresh' = [refresh EXCEPT ![r] = f], UNCHANGED <<past, generations>>
  PROVE  BoardSound'
<1>1. refresh' \in [Refreshers -> Refresh]
  BY DEF BoardSound
<1>2. \A q \in Refreshers : RefreshSound(refresh'[q])
  BY DEF BoardSound
<1>3. \A q \in Refreshers : RefreshSound(refresh[q])'
  BY <1>2 DEF RefreshSound, ReadSince
<1>4. \A g \in generations : GenerationSound(g)'
  BY DEF BoardSound, GenerationSound, ReadSince
<1> QED BY <1>1, <1>3, <1>4 DEF BoardSound

LEMMA GenerationIsSound ==
  ASSUME BoardSound, NEW f \in Refresh, RefreshSound(f), f.step = "named"
  PROVE  GenerationSound(GenerationOf(f)) /\ GenerationOf(f).at = f.at
<1> DEFINE s == RankingOf(f.worths, f.ranked)
<1>1. f.worths \in [Holders -> Nat] /\ f.ranked \in SUBSET Holders /\ f.at \in Nat
  BY DEF Refresh
<1>2. ListsAll(s, f.ranked, OutranksIn(f.worths, f.ranked))
  BY <1>1, RankingLists
<1> HIDE DEF s
<1>3. s \in Seq(f.ranked) /\ Len(s) \in Nat /\ \A i \in 1..Len(s) : s[i] \in f.ranked
  BY <1>2, ElementOfSeq, LenProperties DEF ListsAll
<1>4. s \in Seq(Holders)
  <2>1. s = [i \in 1..Len(s) |-> s[i]]
    BY <1>3
  <2>2. s \in [1..Len(s) -> Holders]
    BY <1>1, <1>3, <2>1
  <2> QED BY <1>3, <2>2, SeqDef
<1>5. ASSUME NEW i \in 1..Len(s), NEW j \in 1..Len(s), i < j PROVE f.worths[s[i]] >= f.worths[s[j]]
  <2>1. Outranks(f.worths, s[i], s[j])
    BY <1>2, <1>5 DEF ListsAll, OutranksIn
  <2>2. f.worths[s[i]] \in Nat /\ f.worths[s[j]] \in Nat
    BY <1>1, <1>3
  <2> QED BY <2>1, <2>2 DEF Outranks
<1>6. f.since \in 1..Len(past) /\ ReadSince(f.worths, f.since)
  BY DEF RefreshSound
<1>7. GenerationOf(f) = [at |-> f.at, since |-> f.since, worths |-> f.worths, ranking |-> s]
  BY DEF GenerationOf, s
<1> QED BY <1>1, <1>4, <1>5, <1>6, <1>7 DEF GenerationSound

\* A write adds one generation newer than all, and keeps it.
LEMMA GenerationsMove ==
  ASSUME BoardSound, NEW r \in Refreshers, WriteGeneration(r)
  PROVE  /\ BoardSound'
         /\ \A g : Fixed(g) => Fixed(g)'
<1> DEFINE f == refresh[r]
           n == GenerationOf(f)
<1>1. f \in Refresh /\ RefreshSound(f) /\ f.step = "named" /\ f.at \in Nat /\ UNCHANGED past
  BY DEF BoardSound, WriteGeneration, Refresh
<1>2. GenerationSound(n) /\ n.at = f.at
  BY <1>1, GenerationIsSound
<1> HIDE DEF f, n
<1>3. \A g : GenerationSound(g) => GenerationSound(g)'
  BY <1>1 DEF GenerationSound, ReadSince
<1>4. /\ \A g \in generations' : g \in generations \/ g = n
      /\ \/ generations' = generations
         \/ n \in generations' /\ \A g \in generations : g.at < n.at
  <2>1. CASE HasGenerationAtLeastAsNew(f.at)
    BY <2>1 DEF WriteGeneration, f
  <2>2. CASE ~ HasGenerationAtLeastAsNew(f.at)
    <3>1. generations' = Newest(generations \cup {n})
      BY <2>2 DEF WriteGeneration, f, n
    <3>2. \A g \in generations : g.at \in Nat /\ g.at < n.at
      BY <1>1, <1>2, <2>2 DEF HasGenerationAtLeastAsNew, BoardSound, GenerationSound
    <3>3. {h \in generations \cup {n} : h.at > n.at} = {}
      BY <1>1, <1>2, <3>2
    <3>4. Cardinality({h \in generations \cup {n} : h.at > n.at}) < Kept
      <4>1. Cardinality({}) = 0 /\ Kept \in Nat /\ Kept # 0
        BY FS_EmptySet, LeaderboardAssumption
      <4>2. 0 < Kept
        BY <4>1
      <4> QED BY <3>3, <4>1, <4>2
    <3>5. n \in generations'
      BY <3>1, <3>4 DEF Newest
    <3>6. \A g \in generations' : g \in generations \cup {n}
      BY <3>1 DEF Newest
    <3> QED BY <3>2, <3>5, <3>6
  <2> QED BY <2>1, <2>2
<1>5. refresh' = [refresh EXCEPT ![r] = Idle] /\ Idle \in Refresh /\ Idle.step = "idle"
  BY LeaderboardAssumption DEF WriteGeneration, Idle, Refresh
<1>6. refresh' \in [Refreshers -> Refresh] /\ \A q \in Refreshers : RefreshSound(refresh'[q])
  BY <1>5 DEF BoardSound, RefreshSound
<1>7. \A q \in Refreshers : RefreshSound(refresh[q])'
  BY <1>1, <1>6 DEF RefreshSound, ReadSince
<1>8. \A g \in generations' : GenerationSound(g)'
  BY <1>2, <1>3, <1>4 DEF BoardSound
<1>9. \A g \in generations : g.at \in Nat /\ \A h \in generations : g.at = h.at => g = h
  BY DEF BoardSound, GenerationSound
<1>10. \A g, h \in generations' : g.at = h.at => g = h
  <2> SUFFICES ASSUME NEW g \in generations', NEW h \in generations', g.at = h.at PROVE g = h
    OBVIOUS
  <2>1. CASE g \in generations /\ h \in generations
    BY <1>9, <2>1
  <2>2. CASE generations' = generations
    BY <1>9, <2>2
  <2>3. CASE \A k \in generations : k.at < n.at
    <3>1. \A k \in generations : k.at # n.at
      BY <1>1, <1>2, <1>9, <2>3
    <3> QED BY <1>4, <2>1, <3>1
  <2> QED BY <1>4, <2>2, <2>3
<1>11. BoardSound'
  BY <1>1, <1>6, <1>7, <1>8, <1>10 DEF BoardSound
<1>12. ASSUME NEW g, Fixed(g) PROVE Fixed(g)'
  <2>1. PICK k \in generations : k.at >= g.at
    BY <1>12 DEF Fixed
  <2>2. GenerationSound(g)' /\ g.at \in Nat /\ k.at \in Nat /\ n.at \in Nat
    BY <1>1, <1>2, <1>3, <1>9, <1>12 DEF Fixed, GenerationSound
  <2>3. (\A h \in generations' : h.at = g.at => h = g) /\ \E h \in generations' : h.at >= g.at
    <3>1. CASE generations' = generations
      BY <1>12, <3>1 DEF Fixed
    <3>2. CASE n \in generations' /\ \A h \in generations : h.at < n.at
      <4>1. n.at > g.at
        BY <2>1, <2>2, <3>2
      <4>2. n.at # g.at /\ n.at >= g.at
        BY <2>2, <4>1
      <4> QED BY <1>4, <1>12, <3>2, <4>2 DEF Fixed
    <3> QED BY <1>4, <3>1, <3>2
  <2> QED BY <2>2, <2>3 DEF Fixed
<1> QED BY <1>11, <1>12

\* A refresh leaves every generation a walk may be of as it was.
LEMMA BoardMoves ==
  ASSUME BoardSound, BoardNext
  PROVE  /\ BoardSound'
         /\ \A g : Fixed(g) => Fixed(g)'
<1>1. ASSUME UNCHANGED <<past, generations>>, NEW g, Fixed(g) PROVE Fixed(g)'
  BY <1>1 DEF Fixed, GenerationSound, ReadSince
<1>2. Worths \in [Holders -> Nat] /\ Len(past) \in Nat /\ Len(past) \in 1..Len(past)
  BY WorthsAre
<1>3. ASSUME NEW r \in Refreshers,
             (\E at \in Times : Stamp(r, at)) \/ ValueHolders(r) \/ NameHolders(r) \/ FailRefresh(r)
      PROVE  BoardSound' /\ UNCHANGED <<past, generations>>
  <2>1. UNCHANGED <<past, generations>>
    BY <1>3 DEF Stamp, ValueHolders, NameHolders, FailRefresh
  <2>2. refresh[r] \in Refresh /\ RefreshSound(refresh[r]) /\ refresh \in [Refreshers -> Refresh]
    BY DEF BoardSound
  <2>3. Idle \in Refresh /\ Idle.step = "idle"
    BY LeaderboardAssumption DEF Idle, Refresh
  <2>4. CASE \E at \in Times : Stamp(r, at)
    <3>1. PICK at \in Times : Stamp(r, at)
      BY <2>4
    <3>2. PICK f : f = [Idle EXCEPT !.step = "stamped", !.at = at, !.since = Len(past)]
      OBVIOUS
    <3>3. at \in Nat
      BY LeaderboardAssumption
    <3>4. f \in Refresh /\ f.step = "stamped" /\ f.since = Len(past)
      BY <1>2, <2>3, <3>2, <3>3 DEF Refresh
    <3>5. RefreshSound(f)
      BY <1>2, <3>4 DEF RefreshSound
    <3>6. refresh' = [refresh EXCEPT ![r] = f]
      BY <3>1, <3>2 DEF Stamp
    <3> QED BY <2>1, <3>4, <3>5, <3>6, RefreshMoves
  <2>5. CASE ValueHolders(r)
    <3>2. PICK f : f = [refresh[r] EXCEPT !.step = "valued", !.worths = Worths]
      OBVIOUS
    <3>4. f \in Refresh /\ f.step = "valued" /\ f.since = refresh[r].since /\ f.worths = Worths
      BY <1>2, <2>2, <3>2 DEF Refresh
    <3>5. refresh[r].since \in 1..Len(past)
      BY <2>2, <2>5 DEF ValueHolders, RefreshSound
    <3>6. RefreshSound(f)
      <4>1. Len(past) \in f.since..Len(past)
        BY <1>2, <3>4, <3>5
      <4> QED BY <3>4, <3>5, <4>1 DEF RefreshSound, ReadSince, Worths
    <3>7. refresh' = [refresh EXCEPT ![r] = f]
      BY <2>2, <2>5, <3>2 DEF ValueHolders
    <3> QED BY <2>1, <3>4, <3>6, <3>7, RefreshMoves
  <2>6. CASE NameHolders(r)
    <3>2. PICK f : f = [refresh[r] EXCEPT !.step = "named", !.ranked = Holders \ suspended]
      OBVIOUS
    <3>4. f \in Refresh /\ f.step = "named" /\ f.since = refresh[r].since /\ f.worths = refresh[r].worths
      BY <2>2, <3>2 DEF Refresh
    <3>6. RefreshSound(f)
      BY <2>2, <2>6, <3>4 DEF RefreshSound, NameHolders
    <3>7. refresh' = [refresh EXCEPT ![r] = f]
      BY <2>2, <2>6, <3>2 DEF NameHolders
    <3> QED BY <2>1, <3>4, <3>6, <3>7, RefreshMoves
  <2>7. CASE FailRefresh(r)
    <3>1. RefreshSound(Idle)
      BY <2>3 DEF RefreshSound
    <3> QED BY <2>1, <2>3, <2>7, <3>1, RefreshMoves DEF FailRefresh
  <2> QED BY <1>3, <2>1, <2>4, <2>5, <2>6, <2>7
<1>4. ASSUME NEW u \in Holders, NEW v \in Holders, Move(u, v)
      PROVE  BoardSound' /\ \A g : Fixed(g) => Fixed(g)'
  <2>1. PICK w : w = [Worths EXCEPT ![u] = @ - 1, ![v] = @ + 1]
    OBVIOUS
  <2>2. w \in [Holders -> Nat]
    <3>1. Worths[u] \in Nat /\ Worths[v] \in Nat /\ Worths[u] > 0 /\ u # v
      BY <1>2, <1>4 DEF Move
    <3>2. Worths[u] - 1 \in Nat /\ Worths[v] + 1 \in Nat
      BY <3>1
    <3> QED BY <1>2, <2>1, <3>1, <3>2
  <2>3. past' = Append(past, w) /\ UNCHANGED <<refresh, generations>>
    BY <1>4, <2>1 DEF Move
  <2>4. /\ past' \in Seq([Holders -> Nat]) /\ Len(past') > 0
        /\ \A g : GenerationSound(g) => GenerationSound(g)'
        /\ \A f : RefreshSound(f) => RefreshSound(f)'
    BY <2>2, <2>3, PastStays
  <2>5. \A r \in Refreshers : RefreshSound(refresh[r])'
    <3> SUFFICES ASSUME NEW r \in Refreshers PROVE RefreshSound(refresh[r])'
      OBVIOUS
    <3>1. PICK f : f = refresh[r]
      OBVIOUS
    <3>2. RefreshSound(f)'
      BY <2>4, <3>1 DEF BoardSound
    <3> QED BY <2>3, <3>1, <3>2 DEF RefreshSound, ReadSince
  <2>6. BoardSound'
    BY <2>3, <2>4, <2>5 DEF BoardSound
  <2>7. ASSUME NEW g, Fixed(g) PROVE Fixed(g)'
    BY <2>3, <2>4, <2>7 DEF Fixed
  <2> QED BY <2>6, <2>7
<1>5. ASSUME NEW u \in Holders, SetSuspension(u)
      PROVE  BoardSound' /\ UNCHANGED <<past, generations>>
  BY <1>5 DEF SetSuspension, BoardSound, RefreshSound, GenerationSound, ReadSince
<1>6. ASSUME NEW r \in Refreshers, WriteGeneration(r)
      PROVE  BoardSound' /\ \A g : Fixed(g) => Fixed(g)'
  BY <1>6, GenerationsMove
<1>7. CASE BoardSound' /\ UNCHANGED <<past, generations>>
  BY <1>1, <1>7
<1> QED BY <1>3, <1>4, <1>5, <1>6, <1>7 DEF BoardNext

\* What a cut keeps of the rows fetched, and where it goes on.
LEMMA CutIs ==
  ASSUME NEW T, NEW f \in Seq(T), NEW limit \in Nat \ {0}
  PROVE  \E m \in 0..Len(f) :
           /\ Cut(f, limit).rows \in Seq(T) /\ Len(Cut(f, limit).rows) = m
           /\ \A i \in 1..m : Cut(f, limit).rows[i] = f[i]
           /\ \/ Cut(f, limit).next = None /\ m = Len(f)
              \/ Cut(f, limit).next = <<f[m]>> /\ m > 0
<1> DEFINE page == Cut(f, limit)
<1>1. PICK n \in Nat : n = Len(f) /\ \A i \in 1..n : f[i] \in T
  BY LenProperties, ElementOfSeq
<1>2. limit \in Nat /\ limit > 0
  OBVIOUS
<1>3. PICK m \in 0..n : m = IF limit <= n THEN limit ELSE n
  BY <1>2
<1>4. page.rows = SubSeq(f, 1, m) /\ page.next = IF n > limit THEN <<f[limit]>> ELSE None
  BY <1>1, <1>2, <1>3, LesserIs DEF Cut
<1> HIDE DEF page
<1>5. page.rows \in Seq(T) /\ Len(page.rows) = m
  <2>1. \A i \in 1..m : f[i] \in T
    BY <1>1, <1>3
  <2> QED BY <1>3, <1>4, <2>1, SubSeqProperties
<1>6. ASSUME NEW i \in 1..m PROVE page.rows[i] = f[i]
  <2>1. \A j \in 1..m : f[j] \in T
    BY <1>1, <1>3
  <2>2. m - 1 + 1 = m /\ 1 + i - 1 = i
    BY <1>3
  <2>3. page.rows[i] = f[1 + i - 1]
    BY <1>3, <1>4, <2>1, <2>2, SubSeqProperties
  <2> QED BY <2>2, <2>3
<1>7. \/ page.next = None /\ m = n
      \/ page.next = <<f[m]>> /\ m > 0
  BY <1>2, <1>3, <1>4
<1> QED BY <1>1, <1>5, <1>6, <1>7 DEF page

\* A page of a generation goes on from the rank it is given.
LEMMA BoardPages ==
  ASSUME NEW g, g.ranking \in Seq(Holders), NEW last \in 0..Len(g.ranking), NEW limit \in Limits,
         RowsAfter(cursor, g) = RowsOf(g, last)
  PROVE  \E m \in 0..Len(g.ranking) - last :
           /\ BoardPage(g, limit).rows \in Seq({Told(g, i) : i \in 1..Len(g.ranking)})
           /\ Len(BoardPage(g, limit).rows) = m
           /\ \A i \in 1..m : BoardPage(g, limit).rows[i] = Told(g, last + i)
           /\ \/ BoardPage(g, limit).next = None /\ last + m = Len(g.ranking)
              \/ BoardPage(g, limit).next = <<RowsOf(g, 0)[last + m]>> /\ m > 0
<1> DEFINE f == RowsOf(g, last)
           T == {RowsOf(g, 0)[i] : i \in 1..Len(g.ranking)}
           U == {Told(g, i) : i \in 1..Len(g.ranking)}
           cut == Cut(f, limit)
<1>1. PICK n \in Nat, left \in Nat : n = Len(g.ranking) /\ left = n - last
  BY LenProperties
<1>2. \A i \in 1..left : last + i \in 1..n /\ 0 + (last + i) = last + i
  BY <1>1
<1>3. n - 0 = n
  BY <1>1
<1>4. f = [i \in 1..left |-> [rank |-> last + i, user |-> g.ranking[last + i], worth |-> g.worths[g.ranking[last + i]], at |-> g.at]]
  BY <1>1 DEF RowsOf
<1>5. RowsOf(g, 0) = [i \in 1..n |-> [rank |-> 0 + i, user |-> g.ranking[0 + i], worth |-> g.worths[g.ranking[0 + i]], at |-> g.at]]
  BY <1>1, <1>3 DEF RowsOf
<1>6. ASSUME NEW i \in 1..left PROVE f[i] = RowsOf(g, 0)[last + i] /\ f[i] \in T
  <2>1. RowsOf(g, 0)[last + i] = [rank |-> last + i, user |-> g.ranking[last + i], worth |-> g.worths[g.ranking[last + i]], at |-> g.at]
    BY <1>2, <1>5
  <2> QED BY <1>1, <1>2, <1>4, <2>1
<1>7. f \in Seq(T) /\ Len(f) = left
  <2>1. f = [i \in 1..left |-> f[i]]
    BY <1>4
  <2> HIDE DEF f, T
  <2>2. f \in [1..left -> T]
    BY <1>6, <2>1
  <2> QED BY <1>1, <2>2, ListOf
<1> HIDE DEF f, T
<1>8. PICK m \in 0..left : /\ cut.rows \in Seq(T) /\ Len(cut.rows) = m
                           /\ \A i \in 1..m : cut.rows[i] = f[i]
                           /\ \/ cut.next = None /\ m = left
                              \/ cut.next = <<f[m]>> /\ m > 0
  <2>1. limit \in Nat \ {0}
    BY ReadersAssumption
  <2>2. \E m \in 0..Len(f) : /\ Cut(f, limit).rows \in Seq(T) /\ Len(Cut(f, limit).rows) = m
                             /\ \A i \in 1..m : Cut(f, limit).rows[i] = f[i]
                             /\ \/ Cut(f, limit).next = None /\ m = Len(f)
                                \/ Cut(f, limit).next = <<f[m]>> /\ m > 0
    <3>1. f \in Seq(T)
      BY <1>7
    <3> QED BY <2>1, <3>1, CutIs
  <2> QED BY <1>7, <2>2
<1> DEFINE page == BoardPage(g, limit)
<1>9. /\ page.rows = [i \in DOMAIN cut.rows |-> [row |-> cut.rows[i], me |-> RankIn(g, Me)]]
      /\ page.next = cut.next
  <2>1. cut = [rows |-> cut.rows, next |-> cut.next]
    BY DEF Cut
  <2>2. page = [cut EXCEPT !.rows = [i \in DOMAIN @ |-> [row |-> @[i], me |-> RankIn(g, Me)]]]
    BY DEF BoardPage, f
  <2> HIDE DEF cut, page
  <2> QED BY <2>1, <2>2
<1> HIDE DEF cut, page
<1>10. DOMAIN cut.rows = 1..m /\ m \in Nat
  BY <1>8
<1>11. ASSUME NEW i \in 1..m PROVE page.rows[i] = Told(g, last + i) /\ page.rows[i] \in U
  <2>1. i \in 1..left
    BY <1>8
  <2>2. page.rows[i] = Told(g, last + i)
    BY <1>6, <1>8, <1>9, <1>10, <2>1 DEF Told
  <2> QED BY <1>1, <1>2, <2>1, <2>2
<1> HIDE DEF U
<1>12. page.rows \in Seq(U) /\ Len(page.rows) = m
  <2>1. page.rows = [i \in 1..m |-> page.rows[i]]
    BY <1>9, <1>10
  <2>2. page.rows \in [1..m -> U]
    BY <1>11, <2>1
  <2> QED BY <1>10, <2>2, SeqDef
<1>13. \/ page.next = None /\ last + m = n
       \/ page.next = <<RowsOf(g, 0)[last + m]>> /\ m > 0
  <2>1. CASE cut.next = None /\ m = left
    BY <1>1, <1>9, <2>1
  <2>2. CASE cut.next = <<f[m]>> /\ m > 0
    <3>1. m \in 1..left
      BY <1>8, <2>2
    <3> QED BY <1>6, <1>9, <2>2, <3>1
  <2> QED BY <1>8, <2>1, <2>2
<1>14. m \in 0..Len(g.ranking) - last
  BY <1>1, <1>8
<1> QED BY <1>1, <1>11, <1>12, <1>13, <1>14 DEF page, U

\* A walk of g that has shown s, and goes on at c.
Ranked(g, s, w, c) ==
  /\ Len(s) <= Len(g.ranking)
  /\ s \in Seq({Told(g, i) : i \in 1..Len(g.ranking)})
  /\ \A i \in 1..Len(s) : s[i] = Told(g, i)
  /\ w = "walking" => Len(s) > 0 /\ c = <<RowsOf(g, 0)[Len(s)]>>
  /\ w = "whole" => Len(s) = Len(g.ranking)

LEMMA BoardPageShown ==
  ASSUME NEW g, g.ranking \in Seq(Holders), NEW limit \in Limits,
         Ranked(g, shown, walk, cursor),
         RowsAfter(cursor, g) = RowsOf(g, Len(shown)), NEW there, Show(BoardPage(g, limit), there)
  PROVE  Ranked(g, shown', walk', cursor')
<1> DEFINE T == {Told(g, i) : i \in 1..Len(g.ranking)}
<1>1. PICK n \in Nat, last \in Nat : n = Len(g.ranking) /\ last = Len(shown) /\ last <= n
  BY LenProperties DEF Ranked
<1>2. PICK page : page = BoardPage(g, limit)
  OBVIOUS
<1>3. PICK m \in 0..n - last :
           /\ page.rows \in Seq(T) /\ Len(page.rows) = m
           /\ \A i \in 1..m : page.rows[i] = Told(g, last + i)
           /\ \/ page.next = None /\ last + m = n
              \/ page.next = <<RowsOf(g, 0)[last + m]>> /\ m > 0
  <2>1. last \in 0..n /\ RowsAfter(cursor, g) = RowsOf(g, last)
    BY <1>1
  <2>2. \E m \in 0..Len(g.ranking) - last :
           /\ BoardPage(g, limit).rows \in Seq(T) /\ Len(BoardPage(g, limit).rows) = m
           /\ \A i \in 1..m : BoardPage(g, limit).rows[i] = Told(g, last + i)
           /\ \/ BoardPage(g, limit).next = None /\ last + m = Len(g.ranking)
              \/ BoardPage(g, limit).next = <<RowsOf(g, 0)[last + m]>> /\ m > 0
    <3>1. last \in 0..Len(g.ranking)
      BY <1>1
    <3> QED BY <2>1, <3>1, BoardPages
  <2> HIDE DEF T
  <2> QED BY <1>1, <1>2, <2>2
<1>4. shown' = shown \o page.rows /\ cursor' = page.next /\ walk' = IF page.next = None THEN "whole" ELSE "walking"
  BY <1>2 DEF Show
<1>5. shown \in Seq(T) /\ \A i \in 1..last : shown[i] = Told(g, i)
  BY <1>1 DEF Ranked
<1> HIDE DEF T
<1>6. /\ shown' \in Seq(T) /\ Len(shown') = last + m
      /\ \A i \in 1..last : shown'[i] = shown[i]
      /\ \A i \in 1..last + m : i \in 1..last \/ (i - last \in 1..m /\ shown'[i] = page.rows[i - last])
  <2>1. /\ shown \o page.rows \in Seq(T) /\ Len(shown \o page.rows) = Len(shown) + Len(page.rows)
        /\ \A i \in 1..Len(shown) : (shown \o page.rows)[i] = shown[i]
        /\ \A i \in 1..Len(shown \o page.rows) :
             i \in 1..Len(shown) \/ (i - Len(shown) \in 1..Len(page.rows) /\ (shown \o page.rows)[i] = page.rows[i - Len(shown)])
    <3>1. page.rows \in Seq(T) /\ shown \in Seq(T)
      BY <1>3, <1>5
    <3>2. PICK r : r = page.rows
      OBVIOUS
    <3>3. r \in Seq(T)
      BY <3>1, <3>2
    <3>4. /\ shown \o r \in Seq(T) /\ Len(shown \o r) = Len(shown) + Len(r)
          /\ \A i \in 1..Len(shown) : (shown \o r)[i] = shown[i]
          /\ \A i \in 1..Len(shown \o r) :
               i \in 1..Len(shown) \/ (i - Len(shown) \in 1..Len(r) /\ (shown \o r)[i] = r[i - Len(shown)])
      BY <3>1, <3>3, Appended
    <3> QED BY <3>2, <3>4
  <2>2. Len(shown) = last /\ Len(page.rows) = m
    BY <1>1, <1>3
  <2> QED BY <1>4, <2>1, <2>2
<1>7. ASSUME NEW i \in 1..last + m PROVE shown'[i] = Told(g, i)
  <2>1. CASE i \in 1..last
    BY <1>5, <1>6, <2>1
  <2>2. CASE i - last \in 1..m /\ shown'[i] = page.rows[i - last]
    <3>1. last + (i - last) = i
      BY <1>1, <1>3
    <3>2. page.rows[i - last] = Told(g, last + (i - last))
      BY <1>3, <2>2
    <3> QED BY <2>2, <3>1, <3>2
  <2> QED BY <1>6, <2>1, <2>2
<1>8. last + m <= n
  BY <1>1, <1>3
<1>9. walk' = "walking" => last + m > 0 /\ cursor' = <<RowsOf(g, 0)[last + m]>>
  BY <1>1, <1>3, <1>4
<1>10. walk' = "whole" => last + m = n
  <2>1. <<RowsOf(g, 0)[last + m]>> # None
    BY DEF None
  <2> QED BY <1>3, <1>4, <2>1
<1> QED BY <1>1, <1>6, <1>7, <1>8, <1>9, <1>10 DEF Ranked, T

\* A page of the board is of the generation its walk began with, or the walk ends.
LEMMA BoardRead ==
  ASSUME WalkInv, BoardSound, BoardInv, NEW limit \in Limits, ReadBoard(limit)
  PROVE  BoardInv'
<1>1. list = "board" /\ ~IsOver /\ walk \in {"not begun", "walking"} /\ list' = list
  BY DEF ReadBoard, MayRead, IsOver, WalkInv, Show
<1>2. UNCHANGED <<past, generations>>
  BY DEF ReadBoard, Show, board
<1>3. /\ \A g \in begun : Fixed(g) /\ Ranked(g, shown, walk, cursor)
      /\ begun = {} => shown = <<>>
      /\ walk = "walking" => begun # {}
  BY <1>1 DEF BoardInv, Ranked
<1>4. \A g : Fixed(g) => Fixed(g)' /\ GenerationSound(g)
  BY <1>2 DEF Fixed, GenerationSound, ReadSince
<1>5. SUFFICES /\ \A g \in begun' : Fixed(g) /\ Ranked(g, shown', walk', cursor')
               /\ begun' = {} => shown' = <<>>
               /\ walk' = "walking" => begun' # {}
  BY <1>4 DEF BoardInv, Ranked, Told, RowsOf, RankIn
<1>6. walk = "not begun" => shown = <<>> /\ Len(shown) = 0 /\ cursor = None /\ begun = {}
  BY EmptySeq DEF WalkInv
<1>7. CASE walk = "not begun"
  <2>1. Served(cursor) = NewestGeneration
    BY <1>6, <1>7 DEF Served
  <2>2. \A g \in NewestGeneration : g \in generations /\ Fixed(g) /\ \A h \in NewestGeneration : h = g
    <3>1. \A g \in generations : g.at \in Nat /\ GenerationSound(g) /\ \A h \in generations : g.at = h.at => g = h
      BY DEF BoardSound, GenerationSound
    <3>2. \A g, h \in NewestGeneration : g \in generations /\ h \in generations /\ g.at <= h.at /\ h.at <= g.at
      BY DEF NewestGeneration
    <3>3. \A g, h \in NewestGeneration : g = h
      BY <3>1, <3>2
    <3>4. \A g \in generations : g.at >= g.at
      BY <3>1
    <3>5. \A g \in NewestGeneration : Fixed(g)
      <4> SUFFICES ASSUME NEW g \in NewestGeneration PROVE Fixed(g)
        OBVIOUS
      <4>1. g \in generations
        BY <3>2
      <4> QED BY <3>1, <3>4, <4>1 DEF Fixed
    <3> QED BY <3>2, <3>3, <3>5
  <2>3. CASE Served(cursor) # {}
    <3>1. PICK g \in NewestGeneration : Show(BoardPage(g, limit), NewestGeneration)
      BY <2>1, <2>3 DEF ReadBoard
    <3>2. begun' = NewestGeneration
      BY <1>7, <3>1 DEF Show
    <3>3. Fixed(g) /\ g.ranking \in Seq(Holders)
      BY <2>2 DEF Fixed, GenerationSound
    <3>4. Ranked(g, shown, walk, cursor)
      <4>1. Len(g.ranking) \in Nat
        BY <3>3, LenProperties
      <4>2. \A i \in 1..0 : FALSE
        OBVIOUS
      <4>3. Len(shown) = 0 /\ shown = <<>> /\ walk # "walking" /\ walk # "whole"
        BY <1>6, <1>7
      <4>4. shown \in Seq({Told(g, i) : i \in 1..Len(g.ranking)})
        BY <4>3, EmptySeq
      <4> QED BY <4>1, <4>2, <4>3, <4>4 DEF Ranked
    <3>5. RowsAfter(cursor, g) = RowsOf(g, Len(shown))
      BY <1>6, <1>7 DEF RowsAfter
    <3>6. Ranked(g, shown', walk', cursor')
      BY <3>1, <3>3, <3>4, <3>5, BoardPageShown
    <3> QED BY <2>2, <3>2, <3>3, <3>6
  <2>4. CASE Served(cursor) = {}
    <3>1. Show([rows |-> <<>>, next |-> None], {})
      BY <1>6, <1>7, <2>4 DEF ReadBoard
    <3>2. begun' = {} /\ walk' = "whole" /\ shown' = <<>> \o <<>>
      BY <1>6, <1>7, <3>1 DEF Show
    <3>3. shown' = <<>>
      BY <3>2, EmptySeq, ConcatEmptySeq
    <3> QED BY <3>2, <3>3
  <2> QED BY <2>3, <2>4
<1>8. CASE walk = "walking"
  <2>1. PICK g \in begun : TRUE
    BY <1>3, <1>8
  <2>2. Fixed(g) /\ Ranked(g, shown, walk, cursor) /\ GenerationSound(g)
    BY <1>3, <1>4
  <2>3. PICK last \in Nat, n \in Nat : last = Len(shown) /\ n = Len(g.ranking) /\ last <= n /\ last > 0
    BY <1>8, <2>2, LenProperties DEF Ranked, GenerationSound
  <2>4. cursor # None /\ cursor[1] = RowsOf(g, 0)[last]
    <3>1. cursor = <<RowsOf(g, 0)[last]>>
      BY <1>8, <2>2, <2>3 DEF Ranked
    <3> QED BY <3>1, CursorNames
  <2>5. cursor[1].at = g.at /\ cursor[1].rank = last
    <3>1. last \in 1..n - 0 /\ 0 + last = last
      BY <2>3
    <3>2. RowsOf(g, 0)[last] = [rank |-> 0 + last, user |-> g.ranking[0 + last], worth |-> g.worths[g.ranking[0 + last]], at |-> g.at]
      BY <2>3, <3>1 DEF RowsOf
    <3> QED BY <2>4, <3>1, <3>2
  <2>6. \A h \in Served(cursor) : h = g
    BY <2>2, <2>4, <2>5 DEF Served, Fixed
  <2>7. CASE Served(cursor) # {}
    <3>1. Show(BoardPage(g, limit), Served(cursor))
      BY <2>6, <2>7 DEF ReadBoard
    <3>2. begun' = begun
      BY <1>8, <3>1 DEF Show
    <3>3. \A h \in begun : h.ranking \in Seq(Holders) /\ Ranked(h, shown, walk, cursor) /\ Fixed(h)
      BY <1>3, <1>4 DEF GenerationSound
    <3>4. \A h \in begun : h = g
      <4> SUFFICES ASSUME NEW h \in begun PROVE h = g
        OBVIOUS
      <4>1. cursor = <<RowsOf(h, 0)[last]>> /\ last <= Len(h.ranking) /\ Len(h.ranking) \in Nat
        BY <1>8, <2>3, <3>3, LenProperties DEF Ranked
      <4>2. last \in 1..Len(h.ranking) - 0
        BY <2>3, <4>1
      <4>3. RowsOf(h, 0)[last].at = h.at
        BY <4>2 DEF RowsOf
      <4>4. h.at = g.at
        BY <2>5, <4>1, <4>3
      <4>5. PICK k : k \in Served(cursor)
        BY <2>7
      <4>6. k \in generations /\ k.at = h.at /\ k.at = g.at
        BY <2>4, <2>5, <4>4, <4>5 DEF Served
      <4> QED BY <2>2, <3>3, <4>6 DEF Fixed
    <3>5. RowsAfter(cursor, g) = RowsOf(g, Len(shown))
      BY <2>3, <2>4, <2>5 DEF RowsAfter
    <3>6. Ranked(g, shown', walk', cursor')
      BY <2>2, <3>1, <3>3, <3>5, BoardPageShown
    <3> QED BY <2>1, <2>2, <3>2, <3>4, <3>6
  <2>8. CASE Served(cursor) = {}
    <3>1. walk' = "refreshed" /\ UNCHANGED <<cursor, shown, begun>>
      BY <2>4, <2>8 DEF ReadBoard
    <3> QED BY <1>3, <3>1 DEF Ranked
  <2> QED BY <2>7, <2>8
<1> QED BY <1>1, <1>7, <1>8

LEMMA BoardStep ==
  ASSUME WalkInv, BoardSound, BoardInv, [Next]_vars
  PROVE  BoardSound' /\ BoardInv'
<1>1. list' = list
  BY WalkMoves
<1>2. list # "board" => BoardInv'
  BY <1>1 DEF BoardInv
<1>3. UNCHANGED board => BoardSound'
  BY DEF board, BoardSound, RefreshSound, GenerationSound, ReadSince
<1>4. ASSUME UNCHANGED <<list, filter, reader>>, \A g : Fixed(g) => Fixed(g)' PROVE BoardInv'
  <2>1. UNCHANGED <<list, cursor, shown, walk, begun>>
    BY <1>4 DEF reader
  <2> QED BY <1>4, <2>1 DEF BoardInv
<1>5. UNCHANGED board => \A g : Fixed(g) => Fixed(g)'
  BY DEF board, Fixed, GenerationSound, ReadSince
<1>6. CASE UNCHANGED vars
  <2>1. UNCHANGED <<list, filter, reader>> /\ UNCHANGED board
    BY <1>6 DEF vars
  <2> QED BY <1>3, <1>4, <1>5, <2>1
<1>7. CASE Read
  <2>1. UNCHANGED board
    BY <1>7 DEF Read, ReadHistory, ReadTrades, ReadActions, ReadBoard, ReadBrowse, ReadOverview, Show
  <2>2. list = "board" => BoardInv'
    BY <1>7, BoardRead DEF Read, ReadHistory, ReadTrades, ReadActions, ReadBrowse, ReadOverview, MayRead
  <2> QED BY <1>2, <1>3, <2>1, <2>2
<1>8. CASE WriteBoard /\ UNCHANGED <<list, filter, reader>>
  BY <1>4, <1>8, BoardMoves DEF WriteBoard
<1>9. CASE WriteAccount \/ WriteLog \/ WriteMarkets
  BY <1>2, <1>3, <1>9 DEF WriteAccount, WriteLog, WriteMarkets
<1> QED BY <1>6, <1>7, <1>8, <1>9 DEF Next

\* A board walked to its end told its ranking.
LEMMA BoardTold ==
  ASSUME WalkInv, BoardSound, BoardInv
  PROVE  RankingWhole
<1> SUFFICES ASSUME list = "board", walk = "whole", NEW g \in begun
             PROVE  /\ Len(shown) = Len(g.ranking)
                    /\ \A i \in Places :
                         /\ shown[i].row = RowsOf(g, 0)[i] /\ shown[i].me = RankIn(g, Me)
                         /\ i > 1 => shown[i - 1].row.worth >= shown[i].row.worth
                    /\ \E k \in g.since..Len(past) : g.worths = past[k]
  BY DEF RankingWhole
<1>1. /\ Len(shown) = Len(g.ranking) /\ GenerationSound(g)
      /\ shown \in Seq({Told(g, i) : i \in 1..Len(g.ranking)})
      /\ \A i \in 1..Len(shown) : shown[i] = Told(g, i)
  BY DEF BoardInv, Fixed
<1>2. PICK n \in Nat : n = Len(shown) /\ n = Len(g.ranking) /\ Places = 1..n
  BY <1>1, LenProperties DEF Places
<1>3. ASSUME NEW i \in 1..n
      PROVE  /\ shown[i].row = RowsOf(g, 0)[i] /\ shown[i].me = RankIn(g, Me)
             /\ shown[i].row.worth = g.worths[g.ranking[i]]
  <2>1. shown[i] = [row |-> RowsOf(g, 0)[i], me |-> RankIn(g, Me)]
    BY <1>1, <1>2 DEF Told
  <2>2. i \in 1..n - 0 /\ 0 + i = i
    BY <1>2
  <2>3. RowsOf(g, 0)[i].worth = g.worths[g.ranking[0 + i]]
    BY <1>2, <2>2 DEF RowsOf
  <2> QED BY <2>1, <2>2, <2>3
<1>4. ASSUME NEW i \in 1..n, i > 1 PROVE shown[i - 1].row.worth >= shown[i].row.worth
  <2>1. i - 1 \in 1..n /\ i - 1 < i
    BY <1>2, <1>4
  <2>2. g.worths[g.ranking[i - 1]] >= g.worths[g.ranking[i]]
    BY <1>1, <1>2, <2>1 DEF GenerationSound
  <2> QED BY <1>3, <2>1, <2>2
<1> QED BY <1>1, <1>2, <1>3, <1>4 DEF GenerationSound, ReadSince

----------------------------------------------------------------------------
(* The feeds *)

\* What stands in an account's history: entries are numbered as they were
\* committed, and their times go up with their numbers.
AccountSound ==
  /\ Table(account)
  /\ \A r \in account : r.nth \in 1..Cardinality(account)
  /\ \A r, s \in account : (r.nth < s.nth => r.at < s.at) /\ (r.nth = s.nth => r = s)

FeedsInv == AccountSound /\ Table(log)

Seen == [row: Row] \cup [row: Row, balance: Int]

\* Of the rows S, a walk w has shown s; it began with b to show, and goes on at c.
Walked(S, s, w, b, c) ==
  /\ s \in Seq(Seen)
  /\ \A i \in 1..Len(s) : s[i].row \in S
  /\ \A i, j \in 1..Len(s) : i < j => Newer(s[i].row, s[j].row)
  /\ b \in SUBSET S
  /\ w # "not begun" => \A r \in b : \/ \E i \in 1..Len(s) : s[i].row = r
                                     \/ w = "walking" /\ Newer(s[Len(s)].row, r)
  /\ w = "walking" => Len(s) > 0 /\ c = <<s[Len(s)].row>>

Matching ==
  CASE list = "history" -> account
    [] list = "trades" -> MatchingTrades
    [] OTHER -> MatchingActions

\* A history is of what was there when it began, and tells its balances.
HistoryTold ==
  /\ \A i \in 1..Len(shown) :
       shown[i].row \in begun /\ shown[i].balance = Held(shown[i].row.nth)
  /\ walk # "not begun" => \A r \in account \ begun, s \in begun : s.nth < r.nth

FeedInv ==
  list \in Feed =>
    /\ walk # "refreshed"
    /\ Walked(Matching, shown, walk, begun, cursor)
    /\ list = "history" => HistoryTold

\* The sum over two sets with nothing in common.
LEMMA SumApart ==
  ASSUME NEW S, NEW T, IsFiniteSet(S), IsFiniteSet(T), S \cap T = {}, NEW F, \A x \in S \cup T : F[x] \in Int
  PROVE  /\ SumFunctionOnSet(F, S \cup T) = SumFunctionOnSet(F, S) + SumFunctionOnSet(F, T)
         /\ SumFunctionOnSet(F, S) \in Int /\ SumFunctionOnSet(F, T) \in Int
<1> DEFINE Adds2(t) == SumFunctionOnSet(F, S \cup t) = SumFunctionOnSet(F, S) + SumFunctionOnSet(F, t)
           Bad == {t \in SUBSET T : ~ Adds2(t)}
<1>1. /\ SumFunctionOnSet(F, S) \in Int
      /\ \A t \in SUBSET T : IsFiniteSet(t) /\ SumFunctionOnSet(F, t) \in Int
  BY SumInt, FS_Subset
<1>2. ASSUME Bad # {} PROVE FALSE
  <2>1. PICK t \in Bad : \A u \in SUBSET t : u # t => u \notin Bad
    <3>1. Bad \in SUBSET (SUBSET T)
      OBVIOUS
    <3> HIDE DEF Bad
    <3> QED BY <1>2, <3>1, Smallest
  <2>2. t \in SUBSET T /\ ~ Adds2(t)
    OBVIOUS
  <2>3. t # {}
    <3>1. S \cup {} = S
      OBVIOUS
    <3>2. SumFunctionOnSet(F, {}) = 0
      BY SumEmpty
    <3>3. Adds2({})
      BY <1>1, <3>1, <3>2
    <3> HIDE DEF Adds2
    <3> QED BY <2>2, <3>3
  <2>4. PICK a \in t : TRUE
    BY <2>3
  <2>5. PICK u : u = t \ {a}
    OBVIOUS
  <2>6. u \in SUBSET T /\ a \notin u /\ a \notin S \cup u /\ u \cup {a} = t /\ (S \cup u) \cup {a} = S \cup t /\ u # t /\ a \in T
    BY <2>2, <2>4, <2>5
  <2>7. Adds2(u)
    <3> HIDE DEF Adds2
    <3> QED BY <2>1, <2>5, <2>6
  <2>8. IsFiniteSet(u) /\ IsFiniteSet(S \cup u)
    BY <1>1, <2>6, FS_Union
  <2>9. SumFunctionOnSet(F, t) = SumFunctionOnSet(F, u) + F[a]
    <3>1. IsFiniteSet(u) /\ a \notin u /\ u \cup {a} = t /\ \A x \in u \cup {a} : F[x] \in Int
      BY <2>2, <2>6, <2>8
    <3>2. SumFunctionOnSet(F, u \cup {a}) = SumFunctionOnSet(F, u) + F[a]
      BY <3>1, SumExtends
    <3> QED BY <3>1, <3>2
  <2>10. SumFunctionOnSet(F, S \cup t) = SumFunctionOnSet(F, S \cup u) + F[a]
    <3>1. PICK v : v = S \cup u
      OBVIOUS
    <3>2. IsFiniteSet(v) /\ a \notin v /\ v \cup {a} = S \cup t
      BY <2>6, <2>8, <3>1
    <3>3. \A x \in v \cup {a} : F[x] \in Int
      BY <2>2, <3>2
    <3>4. SumFunctionOnSet(F, v \cup {a}) = SumFunctionOnSet(F, v) + F[a]
      BY <3>2, <3>3, SumExtends
    <3> QED BY <3>1, <3>2, <3>4
  <2>11. F[a] \in Int /\ SumFunctionOnSet(F, u) \in Int
    BY <1>1, <2>6
  <2>12. SumFunctionOnSet(F, S \cup u) = SumFunctionOnSet(F, S) + SumFunctionOnSet(F, u)
    BY <2>7
  <2>13. SumFunctionOnSet(F, S \cup t) = SumFunctionOnSet(F, S) + SumFunctionOnSet(F, t)
    BY <1>1, <2>9, <2>10, <2>11, <2>12
  <2> QED BY <2>2, <2>13
<1>3. Adds2(T)
  <2>1. T \in SUBSET T
    OBVIOUS
  <2> HIDE DEF Adds2
  <2> QED BY <1>2, <2>1
<1> QED BY <1>1, <1>3

LEMMA AmountsApart ==
  ASSUME NEW S, NEW T, IsFiniteSet(S), IsFiniteSet(T), S \cap T = {}, \A r \in S \cup T : r.amount \in Int
  PROVE  SumOf(S \cup T) = SumOf(S) + SumOf(T) /\ SumOf(S) \in Int /\ SumOf(T) \in Int
<1> DEFINE F(s) == [r \in s |-> r.amount]
<1>1. \A s : SumOf(s) = SumFunctionOnSet(F(s), s)
  BY DEF SumOf, SumFunction
<1>2. (\A r \in S : F(S \cup T)[r] = F(S)[r]) /\ (\A r \in T : F(S \cup T)[r] = F(T)[r])
  OBVIOUS
<1>3. \A r \in S \cup T : F(S \cup T)[r] \in Int
  OBVIOUS
<1> PICK f, g, h : f = F(S \cup T) /\ g = F(S) /\ h = F(T)
  OBVIOUS
<1>4. /\ SumFunctionOnSet(f, S \cup T) = SumFunctionOnSet(f, S) + SumFunctionOnSet(f, T)
      /\ SumFunctionOnSet(f, S) \in Int /\ SumFunctionOnSet(f, T) \in Int
  <2> HIDE DEF F
  <2> QED BY <1>3, SumApart
<1>5. SumFunctionOnSet(f, S) = SumFunctionOnSet(g, S) /\ SumFunctionOnSet(f, T) = SumFunctionOnSet(h, T)
  <2> HIDE DEF F
  <2> QED BY <1>2, SumSame
<1> HIDE DEF F
<1> QED BY <1>1, <1>4, <1>5

\* A commit's stamp is after every entry of the account (_stamp_after_newest).
LEMMA StampIsAfter ==
  ASSUME FeedsInv, NEW now \in Stamps
  PROVE  StampAfterNewest(now) \in Nat /\ \A r \in account : r.at < StampAfterNewest(now)
<1> DEFINE f == [r \in account |-> r.at + 1]
           T == {now} \cup {r.at + 1 : r \in account}
<1>1. \A r \in account : r.at \in Nat
  BY DEF FeedsInv, AccountSound, Table, Row
<1>2. now \in Nat
  BY FeedsAssumption
<1>3. IsFiniteSet(account)
  BY DEF FeedsInv, AccountSound, Table
<1>4. IsFiniteSet({f[r] : r \in account})
  BY <1>3, ImageFinite
<1>5. {f[r] : r \in account} = {r.at + 1 : r \in account}
  OBVIOUS
<1>6. IsFiniteSet(T) /\ T \in SUBSET Nat /\ now \in T
  <2>1. IsFiniteSet({now})
    BY FS_Singleton
  <2>2. IsFiniteSet(T)
    BY <1>4, <1>5, <2>1, FS_Union
  <2> QED BY <1>1, <1>2, <2>2
<1>7. \E x \in T : \A y \in T : x >= y
  <2> HIDE DEF T
  <2>1. PICK top \in Nat : \A x \in T : x <= top
    BY <1>6, Bounded
  <2>2. T \in SUBSET (0..top)
    BY <1>6, <2>1
  <2>3. PICK x \in T : \A y \in T : y <= x
    BY <1>6, <2>2, Greatest
  <2> QED BY <1>6, <2>3
<1>8. Max(T) \in T /\ \A y \in T : Max(T) >= y
  <2> HIDE DEF T
  <2> QED BY <1>7 DEF Max
<1>9. StampAfterNewest(now) = Max(T)
  BY DEF StampAfterNewest
<1>10. \A r \in account : r.at + 1 \in T
  OBVIOUS
<1> HIDE DEF T
<1>11. Max(T) \in Nat
  BY <1>6, <1>8
<1> QED BY <1>1, <1>8, <1>9, <1>10, <1>11

LEMMA CountsUp ==
  ASSUME NEW k \in Nat
  PROVE  IsFiniteSet(1..k) /\ Cardinality(1..k) = k
BY FS_Interval

\* Rows with new ids go into a table.
LEMMA TableGrows ==
  ASSUME NEW S, Table(S), NEW k \in Nat, NEW row, row = [i \in 1..k |-> row[i]],
         \A i \in 1..k : row[i] \in Row /\ row[i].id \notin {r.id : r \in S},
         \A i, j \in 1..k : row[i].id = row[j].id => i = j
  PROVE  /\ Table(S \cup {row[i] : i \in 1..k})
         /\ Cardinality(S) \in Nat /\ Cardinality(S \cup {row[i] : i \in 1..k}) = Cardinality(S) + k
<1> DEFINE N == {row[i] : i \in 1..k}
<1>1. IsFiniteSet(1..k) /\ Cardinality(1..k) = k
  BY CountsUp
<1>2. row \in Surjection(1..k, N) /\ row \in Injection(1..k, N)
  BY DEF Surjection, Injection, IsInjective
<1>3. IsFiniteSet(N) /\ Cardinality(N) = k
  <2> HIDE DEF N
  <2>1. IsFiniteSet(N) /\ Cardinality(N) = Cardinality(1..k)
    BY <1>1, <1>2, FS_Surjection
  <2> QED BY <1>1, <2>1
<1>4. S \cap N = {}
  OBVIOUS
<1>5. IsFiniteSet(S) /\ Cardinality(S) \in Nat
  BY FS_CardinalityType DEF Table
<1>6. IsFiniteSet(S \cup N) /\ Cardinality(S \cup N) = Cardinality(S) + k
  <2> HIDE DEF N
  <2>1. IsFiniteSet(S \cup N) /\ Cardinality(S \cup N) = Cardinality(S) + Cardinality(N) - Cardinality(S \cap N)
    BY <1>3, <1>5, FS_Union
  <2>2. Cardinality(S \cap N) = 0
    BY <1>4, FS_EmptySet
  <2> QED BY <1>3, <1>5, <2>1, <2>2
<1>7. S \cup N \in SUBSET Row
  BY DEF Table
<1>8. \A r, s \in S \cup N : r.id = s.id => r = s
  BY DEF Table
<1> QED BY <1>5, <1>6, <1>7, <1>8 DEF Table

\* What a commit adds to an account comes after all that was there.
LEMMA AccountGrows ==
  ASSUME FeedsInv, NEW batch \in Batches, NEW now \in Stamps, PostBatch(batch, now)
  PROVE  /\ FeedsInv' /\ log' = log /\ account \in SUBSET account'
         /\ \A r \in account' \ account, s \in account : s.nth < r.nth
         /\ \A s \in account : Held(s.nth)' = Held(s.nth)
<1> DEFINE first == StampAfterNewest(now)
           count == Cardinality(account)
<1>1. batch \in Seq([kind : STRING, amount : Int])
  BY FeedsAssumption
<1>2. PICK k \in Nat : k = Len(batch) /\ DOMAIN batch = 1..k /\ \A i \in 1..k : batch[i].kind \in STRING /\ batch[i].amount \in Int
  <2>1. \A i \in 1..Len(batch) : batch[i] \in [kind : STRING, amount : Int]
    BY <1>1, ElementOfSeq
  <2> QED BY <1>1, <2>1, LenProperties
<1>3. PICK ids \in [1..k -> Ids \ Used] :
        /\ \A i, j \in 1..k : ids[i] = ids[j] => i = j
        /\ account' = account \cup
             {[at |-> first + i, id |-> ids[i], kind |-> batch[i].kind, amount |-> batch[i].amount,
               nth |-> count + i] : i \in 1..k}
        /\ log' = log
  BY <1>2 DEF PostBatch
<1>4. first \in Nat /\ \A r \in account : r.at < first
  BY StampIsAfter
<1>5. PICK row : row = [i \in 1..k |->
                  [at |-> first + i, id |-> ids[i], kind |-> batch[i].kind, amount |-> batch[i].amount, nth |-> count + i]]
  OBVIOUS
<1>6. account' = account \cup {row[i] : i \in 1..k}
  BY <1>3, <1>5
<1>7. Table(account) /\ count \in Nat
  BY FS_CardinalityType DEF FeedsInv, AccountSound, Table
<1> HIDE DEF first, count
<1>8. ASSUME NEW i \in 1..k
      PROVE  /\ row[i].at = first + i /\ row[i].nth = count + i /\ row[i].id = ids[i]
             /\ row[i] \in Row /\ row[i].id \notin {r.id : r \in account}
  <2>1. ids[i] \in Nat /\ ids[i] \notin {r.id : r \in account}
    <3>1. ids[i] \in Ids /\ ids[i] \notin Used
      BY <1>3
    <3>2. \A r \in account : r.id \in Used
      BY DEF Used
    <3> QED BY <3>1, <3>2, FeedsAssumption
  <2>2. row[i] = [at |-> first + i, id |-> ids[i], kind |-> batch[i].kind, amount |-> batch[i].amount, nth |-> count + i]
    BY <1>5
  <2>3. first + i \in Nat /\ count + i \in Nat
    BY <1>4, <1>7
  <2> QED BY <1>2, <2>1, <2>2, <2>3 DEF Row, Kinds
<1>9. \A i, j \in 1..k : row[i].id = row[j].id => i = j
  BY <1>3, <1>8
<1>10. Table(account') /\ Cardinality(account') = count + k
  <2>1. row = [i \in 1..k |-> row[i]]
    BY <1>5
  <2>2. \A i \in 1..k : row[i] \in Row /\ row[i].id \notin {r.id : r \in account}
    BY <1>8
  <2>3. /\ Table(account \cup {row[i] : i \in 1..k})
        /\ Cardinality(account \cup {row[i] : i \in 1..k}) = Cardinality(account) + k
    BY <1>7, <1>9, <2>1, <2>2, TableGrows
  <2> QED BY <1>6, <2>3 DEF count
<1>11. \A r \in account : r.nth \in 1..count /\ r.at \in Nat /\ r.nth \in Nat
  BY <1>7 DEF FeedsInv, AccountSound, Table, Row, count
<1>12. \A r \in account' : r \in account \/ \E i \in 1..k : r = row[i]
  BY <1>6
<1>13. \A r \in account' : r.nth \in 1..count + k
  <2>1. \A i \in 1..k : row[i].nth \in 1..count + k
    BY <1>7, <1>8
  <2>2. \A r \in account : r.nth \in 1..count + k
    BY <1>7, <1>11
  <2> QED BY <1>12, <2>1, <2>2
<1>14. \A r \in account, i \in 1..k : r.nth < row[i].nth /\ r.at < row[i].at
  <2> SUFFICES ASSUME NEW r \in account, NEW i \in 1..k PROVE r.nth < row[i].nth /\ r.at < row[i].at
    OBVIOUS
  <2>1. r.nth < count + i /\ r.at < first + i
    BY <1>4, <1>7, <1>11
  <2> QED BY <1>8, <2>1
<1>15. \A i, j \in 1..k : (row[i].nth < row[j].nth => row[i].at < row[j].at) /\ (row[i].nth = row[j].nth => i = j)
  <2> SUFFICES ASSUME NEW i \in 1..k, NEW j \in 1..k
               PROVE  (row[i].nth < row[j].nth => row[i].at < row[j].at) /\ (row[i].nth = row[j].nth => i = j)
    OBVIOUS
  <2>1. /\ (count + i < count + j => first + i < first + j) /\ (count + i = count + j => i = j)
    BY <1>4, <1>7
  <2> QED BY <1>8, <2>1
<1>16. \A r, s \in account : (r.nth < s.nth => r.at < s.at) /\ (r.nth = s.nth => r = s)
  BY DEF FeedsInv, AccountSound
<1>17. ASSUME NEW r \in account', NEW s \in account'
       PROVE  (r.nth < s.nth => r.at < s.at) /\ (r.nth = s.nth => r = s)
  <2>1. CASE r \in account /\ s \in account
    BY <1>16, <2>1
  <2>2. ASSUME r \in account, NEW i \in 1..k, s = row[i] PROVE (r.nth < s.nth => r.at < s.at) /\ (r.nth = s.nth => r = s)
    <3>1. r.nth < s.nth /\ r.at < s.at
      BY <1>14, <2>2
    <3>2. r.nth # s.nth
      BY <1>11, <1>13, <2>2, <3>1
    <3> QED BY <3>1, <3>2
  <2>3. ASSUME s \in account, NEW i \in 1..k, r = row[i] PROVE (r.nth < s.nth => r.at < s.at) /\ (r.nth = s.nth => r = s)
    <3>1. s.nth < r.nth
      BY <1>14, <2>3
    <3>2. r.nth # s.nth /\ ~ (r.nth < s.nth)
      BY <1>13, <3>1
    <3> QED BY <3>2
  <2>4. ASSUME NEW i \in 1..k, NEW j \in 1..k, r = row[i], s = row[j] PROVE (r.nth < s.nth => r.at < s.at) /\ (r.nth = s.nth => r = s)
    BY <1>15, <2>4
  <2> QED BY <1>12, <2>1, <2>2, <2>3, <2>4
<1>18. FeedsInv'
  BY <1>3, <1>10, <1>13, <1>17 DEF FeedsInv, AccountSound
<1>19. \A r \in account' \ account, s \in account : s.nth < r.nth
  BY <1>12, <1>14
<1>20. ASSUME NEW s \in account PROVE Held(s.nth)' = Held(s.nth)
  <2>1. \A r \in account' : r.nth <= s.nth => r \in account
    <3>1. \A r \in account' \ account : ~ (r.nth <= s.nth)
      BY <1>11, <1>13, <1>19
    <3> QED BY <3>1
  <2>2. {r \in account' : r.nth <= s.nth} = {r \in account : r.nth <= s.nth}
    BY <1>6, <2>1
  <2> QED BY <2>2 DEF Held
<1> QED BY <1>3, <1>6, <1>18, <1>19, <1>20

\* An audit entry goes into the log as a row of its own, at any time.
LEMMA LogGrows ==
  ASSUME FeedsInv, NEW kind \in {"suspend", "close"}, NEW at \in Stamps, Record(kind, at)
  PROVE  FeedsInv' /\ account' = account /\ log \in SUBSET log'
<1>1. PICK id \in Ids \ Used :
        /\ log' = log \cup {[at |-> at, id |-> id, kind |-> kind, amount |-> 0, nth |-> Cardinality(log) + 1]}
        /\ account' = account
  BY DEF Record
<1>2. Table(log) /\ Cardinality(log) \in Nat
  BY FS_CardinalityType DEF FeedsInv, Table
<1>3. PICK e : e = [at |-> at, id |-> id, kind |-> kind, amount |-> 0, nth |-> Cardinality(log) + 1]
  OBVIOUS
<1>4. e \in Row /\ e.id \notin {r.id : r \in log} /\ log' = log \cup {e}
  <2>1. id \in Nat /\ at \in Nat /\ kind \in Kinds /\ Cardinality(log) + 1 \in Nat
    <3>1. id \in Nat /\ at \in Nat
      BY FeedsAssumption
    <3>2. Cardinality(log) + 1 \in Nat
      BY <1>2
    <3>3. kind \in Kinds
      BY DEF Kinds
    <3> QED BY <3>1, <3>2, <3>3
  <2>2. e \in Row /\ e.id = id
    BY <1>3, <2>1 DEF Row
  <2>3. id \notin Used /\ \A r \in log : r.id \in Used
    BY DEF Used
  <2> QED BY <1>1, <1>3, <2>2, <2>3
<1>5. IsFiniteSet(log')
  BY <1>2, <1>4, FS_AddElement DEF Table
<1>6. Table(log')
  BY <1>2, <1>4, <1>5 DEF Table
<1> QED BY <1>1, <1>4, <1>6 DEF FeedsInv, AccountSound

\* What is appended while a feed is walked disturbs nothing that was shown.
LEMMA FeedKept ==
  ASSUME WalkInv, FeedsInv, FeedInv, WriteAccount \/ WriteLog, UNCHANGED <<list, filter, reader>>
  PROVE  FeedsInv' /\ FeedInv'
<1>1. list' = list /\ cursor' = cursor /\ shown' = shown /\ walk' = walk /\ begun' = begun
  BY DEF reader
<1>2. /\ FeedsInv' /\ account \in SUBSET account' /\ log \in SUBSET log'
      /\ \A r \in account' \ account, s \in account : s.nth < r.nth
      /\ \A s \in account : Held(s.nth)' = Held(s.nth)
  <2>1. CASE WriteAccount
    BY <2>1, AccountGrows DEF WriteAccount
  <2>2. CASE WriteLog
    <3>1. FeedsInv' /\ account' = account /\ log \in SUBSET log'
      BY <2>2, LogGrows DEF WriteLog
    <3> QED BY <3>1 DEF Held
  <2> QED BY <2>1, <2>2
<1>3. Matching \in SUBSET Matching'
  BY <1>1, <1>2 DEF Matching, MatchingTrades, MatchingActions
<1> SUFFICES ASSUME list \in Feed PROVE FeedInv'
  BY <1>1, <1>2 DEF FeedInv
<1>4. Walked(Matching, shown, walk, begun, cursor) /\ walk # "refreshed"
  BY DEF FeedInv
<1>5. Walked(Matching', shown, walk, begun, cursor)
  BY <1>3, <1>4 DEF Walked
<1>6. ASSUME list = "history" PROVE HistoryTold'
  <2>1. HistoryTold /\ begun \in SUBSET account
    BY <1>4, <1>6 DEF FeedInv, Matching, Walked
  <2>2. ASSUME NEW i \in 1..Len(shown)
        PROVE  shown[i].row \in begun /\ shown[i].balance = Held(shown[i].row.nth)'
    <3>1. PICK s \in account : s = shown[i].row /\ s \in begun /\ shown[i].balance = Held(s.nth)
      BY <2>1 DEF HistoryTold
    <3>2. Held(s.nth)' = Held(s.nth)
      BY <1>2
    <3>3. Held(shown[i].row.nth)' = Held(s.nth)'
      BY <1>1, <3>1 DEF Held
    <3> QED BY <3>1, <3>2, <3>3
  <2>3. walk # "not begun" => \A r \in account' \ begun, s \in begun : s.nth < r.nth
    BY <1>2, <2>1 DEF HistoryTold
  <2> QED BY <1>1, <2>2, <2>3 DEF HistoryTold
<1> QED BY <1>1, <1>4, <1>5, <1>6 DEF FeedInv

\* On one table, older is what newer is the other way round.
LEMMA OlderIs ==
  ASSUME NEW S, Table(S), NEW r \in S, NEW s \in S
  PROVE  Older(r, s) <=> Newer(s, r)
<1>1. r \in Row /\ s \in Row /\ (r.id = s.id => r = s)
  BY DEF Table
<1> QED BY <1>1 DEF Older, Newer, Row

LEMMA NewerGoesOn ==
  ASSUME NEW S, Table(S), NEW r \in S, NEW s \in S, NEW t \in S, Newer(r, s), Newer(s, t)
  PROVE  Newer(r, t)
<1>1. /\ r \in Row /\ s \in Row /\ t \in Row
      /\ (r.id = s.id => r = s) /\ (s.id = t.id => s = t) /\ (r.id = t.id => r = t)
  BY DEF Table
<1> QED BY <1>1 DEF Older, Newer, Row

\* What a cursor leaves is what is older than the row it names.
LEMMA RestIs ==
  ASSUME NEW S, Table(S), NEW c, c = None \/ (c = <<c[1]>> /\ c[1] \in S)
  PROVE  /\ Table(Rest(S, c)) /\ Rest(S, c) \in SUBSET S
         /\ c # None => \A r \in S : r \in Rest(S, c) <=> Newer(c[1], r)
         /\ c = None => Rest(S, c) = S
<1>1. Rest(S, c) \in SUBSET S
  BY DEF Rest
<1>2. Table(Rest(S, c))
  BY <1>1, FS_Subset DEF Table
<1>3. c # None => \A r \in S : r \in Rest(S, c) <=> Newer(c[1], r)
  BY OlderIs DEF Rest
<1> QED BY <1>1, <1>2, <1>3 DEF Rest

\* The walk shows rows, which say what the page of the rest has.
FeedRead(S, page, rows) ==
  /\ Table(S) /\ Walked(S, shown, walk, begun, cursor) /\ walk \in {"not begun", "walking"}
  /\ walk = "not begun" => shown = <<>> /\ cursor = None
  /\ Pages(page, Rest(S, cursor), NewerIn(Rest(S, cursor)))
  /\ rows \in Seq(Seen) /\ Len(rows) = Len(page.rows) /\ \A i \in 1..Len(rows) : rows[i].row = page.rows[i]
  /\ Show([rows |-> rows, next |-> page.next], S)

\* The walk with a page more is a walk.
LEMMA FeedShown ==
  ASSUME NEW S, NEW page, NEW rows, FeedRead(S, page, rows)
  PROVE  /\ Walked(S, shown', walk', begun', cursor') /\ walk' \in {"walking", "whole"}
         /\ \A i \in 1..Len(shown') :
              \/ i \in 1..Len(shown) /\ shown'[i] = shown[i]
              \/ i - Len(shown) \in 1..Len(rows) /\ shown'[i] = rows[i - Len(shown)]
         /\ begun' = IF walk = "not begun" THEN S ELSE begun
<1> DEFINE R == {p \in Seen \X Seen : p[1].row \in S /\ p[2].row \in S /\ Newer(p[1].row, p[2].row)}
           T == {x \in Seen : x.row \in S}
           Q == Rest(S, cursor)
<1>1. /\ shown' = shown \o rows /\ cursor' = page.next
      /\ walk' = IF page.next = None THEN "whole" ELSE "walking"
      /\ begun' = IF walk = "not begun" THEN S ELSE begun
  BY DEF FeedRead, Show
<1>34. /\ Table(S) /\ Walked(S, shown, walk, begun, cursor) /\ walk \in {"not begun", "walking"}
       /\ walk = "not begun" => shown = <<>> /\ cursor = None
       /\ Pages(page, Rest(S, cursor), NewerIn(Rest(S, cursor)))
       /\ rows \in Seq(Seen) /\ Len(rows) = Len(page.rows) /\ \A i \in 1..Len(rows) : rows[i].row = page.rows[i]
  BY DEF FeedRead
<1>2. shown \in Seq(Seen) /\ Len(shown) \in Nat
  BY <1>34, LenProperties DEF Walked
<1>24. \A i \in 1..Len(shown) : shown[i] \in Seen /\ shown[i].row \in S
  BY <1>2, <1>34, ElementOfSeq DEF Walked
<1>25. \A i, j \in 1..Len(shown) : i < j => Newer(shown[i].row, shown[j].row)
  BY <1>34 DEF Walked
<1>26. begun \in SUBSET S
  BY <1>34 DEF Walked
<1>27. walk = "walking" => Len(shown) > 0 /\ cursor = <<shown[Len(shown)].row>>
  BY <1>34 DEF Walked
<1>28. walk = "walking" => \A r \in begun : \/ \E i \in 1..Len(shown) : shown[i].row = r
                                          \/ Newer(shown[Len(shown)].row, r)
  BY <1>34 DEF Walked
<1>3. /\ walk = "not begun" => cursor = None /\ Len(shown) = 0
      /\ walk = "walking" => /\ cursor # None /\ cursor[1] = shown[Len(shown)].row /\ cursor = <<cursor[1]>>
                             /\ Len(shown) \in 1..Len(shown) /\ cursor[1] \in S
  <2>1. walk = "not begun" => cursor = None /\ Len(shown) = 0
    BY <1>34, EmptySeq
  <2>2. Len(shown) > 0 => Len(shown) \in 1..Len(shown)
    BY <1>2
  <2>3. walk = "walking" => cursor # None /\ cursor[1] = shown[Len(shown)].row /\ cursor = <<cursor[1]>>
    BY <1>27 DEF None
  <2> QED BY <1>24, <1>27, <2>1, <2>2, <2>3
<1>4. /\ Table(Q) /\ Q \in SUBSET S
      /\ walk = "walking" => \A r \in S : r \in Q <=> Newer(shown[Len(shown)].row, r)
      /\ walk = "not begun" => Q = S
  <2>1. cursor = None \/ (cursor = <<cursor[1]>> /\ cursor[1] \in S)
    BY <1>3, <1>34
  <2> QED BY <1>3, <1>34, <2>1, RestIs
<1> HIDE DEF Q
<1>5. page.rows \in Seq(Q) /\ \A i \in 1..Len(page.rows) : page.rows[i] \in Q
  <2>1. page.rows \in Seq(Q)
    BY <1>34 DEF Pages, Q
  <2> QED BY <2>1, ElementOfSeq
<1>29. PICK m \in Nat : m = Len(page.rows) /\ m = Len(rows)
  BY <1>5, <1>34, LenProperties
<1>30. \A i \in 1..m : rows[i] \in Seen /\ rows[i].row = page.rows[i] /\ page.rows[i] \in Q
  BY <1>5, <1>29, <1>34, ElementOfSeq
<1>31. \A i, j \in 1..m : i < j => Newer(page.rows[i], page.rows[j])
  BY <1>29, <1>34 DEF Pages, NewerIn, Q
<1>32. page.next # None => m > 0 /\ page.next = <<page.rows[m]>>
  BY <1>29, <1>34 DEF Pages
<1>33. \A x \in Q : (\E i \in 1..m : page.rows[i] = x) \/ (page.next # None /\ Newer(page.rows[m], x))
  BY <1>29, <1>34 DEF Pages, NewerIn, Q
<1>6. shown \in Seq(T) /\ rows \in Seq(T)
  <2>1. shown = [i \in 1..Len(shown) |-> shown[i]]
    BY <1>2
  <2>2. shown \in [1..Len(shown) -> T]
    BY <1>24, <2>1
  <2>3. rows = [i \in 1..m |-> rows[i]]
    <3>1. rows \in Seq(Seen) /\ Len(rows) = m
      BY <1>29, <1>34
    <3> QED BY <3>1
  <2>4. rows \in [1..m -> T]
    BY <1>4, <1>30, <2>3
  <2> QED BY <1>2, <1>29, <2>2, <2>4, SeqDef
<1>7. \A x, y \in T : <<x, y>> \in R <=> Newer(x.row, y.row)
  OBVIOUS
<1>8. \A x \in T : x.row \in S
  OBVIOUS
<1> HIDE DEF R, T
<1>9. \A x, y, z \in T : <<x, y>> \in R /\ <<y, z>> \in R => <<x, z>> \in R
  BY <1>7, <1>8, <1>34, NewerGoesOn
<1>10. (\A i \in 1..Len(shown) : shown[i] \in T) /\ \A i \in 1..m : rows[i] \in T
  BY <1>6, <1>29, ElementOfSeq
<1>11. Goes(R, shown) /\ Goes(R, rows)
  <2>1. Goes(R, shown)
    BY <1>7, <1>10, <1>25 DEF Goes
  <2>2. \A i, j \in 1..m : i < j => Newer(rows[i].row, rows[j].row)
    BY <1>30, <1>31
  <2> QED BY <1>7, <1>10, <1>29, <2>1, <2>2 DEF Goes
<1>12. \A i \in 1..Len(rows) : Len(shown) > 0 => <<shown[Len(shown)], rows[i]>> \in R
  <2> SUFFICES ASSUME NEW i \in 1..m, Len(shown) > 0 PROVE <<shown[Len(shown)], rows[i]>> \in R
    BY <1>29
  <2>1. walk # "not begun"
    <3>1. walk = "not begun" => Len(shown) = 0
      BY <1>3
    <3>2. Len(shown) # 0
      BY <1>2
    <3> QED BY <3>1, <3>2
  <2>2. walk = "walking" /\ Len(shown) \in 1..Len(shown)
    BY <1>3, <1>34, <2>1
  <2>3. Newer(shown[Len(shown)].row, rows[i].row)
    <3>1. rows[i].row \in Q /\ rows[i].row \in S
      BY <1>4, <1>30
    <3> QED BY <1>4, <2>2, <3>1
  <2> QED BY <1>7, <1>10, <2>2, <2>3
<1>13. Goes(R, shown')
  BY <1>1, <1>6, <1>9, <1>11, <1>12, GoesOn
<1>14. /\ shown' \in Seq(Seen) /\ Len(shown') = Len(shown) + m
       /\ \A i \in 1..Len(shown) : i \in 1..Len(shown') /\ shown'[i] = shown[i]
       /\ \A i \in 1..m : Len(shown) + i \in 1..Len(shown') /\ shown'[Len(shown) + i] = rows[i]
       /\ \A i \in 1..Len(shown') : i \in 1..Len(shown) \/ (i - Len(shown) \in 1..m /\ shown'[i] = rows[i - Len(shown)])
  <2>1. PICK r : r = rows
    OBVIOUS
  <2>2. shown' = shown \o r /\ Len(r) = m /\ r \in Seq(Seen)
    BY <1>1, <1>29, <1>34, <2>1
  <2>3. /\ shown \o r \in Seq(Seen) /\ Len(shown \o r) = Len(shown) + Len(r)
        /\ \A i \in 1..Len(shown) : i \in 1..Len(shown \o r) /\ (shown \o r)[i] = shown[i]
        /\ \A i \in 1..Len(r) : Len(shown) + i \in 1..Len(shown \o r) /\ (shown \o r)[Len(shown) + i] = r[i]
        /\ \A i \in 1..Len(shown \o r) : i \in 1..Len(shown) \/ (i - Len(shown) \in 1..Len(r) /\ (shown \o r)[i] = r[i - Len(shown)])
    <3>1. shown \in Seq(Seen) /\ r \in Seq(Seen)
      BY <1>2, <2>2
    <3> QED BY <3>1, Appended
  <2> QED BY <2>1, <2>2, <2>3
<1>15. \A i \in 1..Len(shown') : shown'[i] \in T
  BY <1>10, <1>14
<1>16. \A i, j \in 1..Len(shown') : i < j => Newer(shown'[i].row, shown'[j].row)
  BY <1>7, <1>13, <1>15 DEF Goes
<1>17. \A i \in 1..Len(shown') : shown'[i].row \in S
  BY <1>8, <1>15
<1>18. begun' \in SUBSET S
  BY <1>1, <1>26
<1>19. page.next # None => Len(shown') > 0 /\ cursor' = <<shown'[Len(shown')].row>> /\ shown'[Len(shown')].row = page.rows[m]
  <2> SUFFICES ASSUME page.next # None PROVE Len(shown') > 0 /\ cursor' = <<shown'[Len(shown')].row>> /\ shown'[Len(shown')].row = page.rows[m]
    OBVIOUS
  <2>1. m > 0 /\ m \in 1..m /\ cursor' = <<page.rows[m]>>
    <3>1. m > 0 /\ page.next = <<page.rows[m]>>
      BY <1>32
    <3>2. m \in 1..m
      BY <1>29, <3>1
    <3> QED BY <1>1, <3>1, <3>2
  <2>2. shown'[Len(shown')] = rows[m]
    BY <1>14, <2>1
  <2>3. Len(shown') > 0
    BY <1>2, <1>14, <2>1
  <2> QED BY <1>30, <2>1, <2>2, <2>3
<1>20. walk' = "walking" <=> page.next # None
  BY <1>1
<1>21. ASSUME NEW r \in begun'
       PROVE  (\E i \in 1..Len(shown') : shown'[i].row = r) \/ (walk' = "walking" /\ Newer(shown'[Len(shown')].row, r))
  <2>1. ASSUME r \in Q
        PROVE  (\E i \in 1..Len(shown') : shown'[i].row = r) \/ (walk' = "walking" /\ Newer(shown'[Len(shown')].row, r))
    <3>1. ASSUME NEW i \in 1..m, page.rows[i] = r PROVE \E k \in 1..Len(shown') : shown'[k].row = r
      <4>1. Len(shown) + i \in 1..Len(shown') /\ shown'[Len(shown) + i].row = r
        BY <1>14, <1>30, <3>1
      <4> QED BY <4>1
    <3>2. CASE page.next # None /\ Newer(page.rows[m], r)
      BY <1>19, <1>20, <3>2
    <3> QED BY <1>33, <2>1, <3>1, <3>2
  <2>2. CASE walk = "not begun"
    BY <1>1, <1>4, <2>1, <2>2
  <2>3. CASE walk = "walking"
    <3>1. r \in begun
      BY <1>1, <2>3
    <3>2. CASE \E i \in 1..Len(shown) : shown[i].row = r
      BY <1>14, <3>2
    <3>3. CASE Newer(shown[Len(shown)].row, r)
      BY <1>4, <1>26, <2>1, <2>3, <3>1, <3>3
    <3> QED BY <1>28, <2>3, <3>1, <3>2, <3>3
  <2> QED BY <1>34, <2>2, <2>3
<1>22. Walked(S, shown', walk', begun', cursor')
  BY <1>14, <1>16, <1>17, <1>18, <1>19, <1>20, <1>21 DEF Walked
<1>23. walk' \in {"walking", "whole"}
  BY <1>1
<1> QED BY <1>1, <1>14, <1>22, <1>23, <1>29

\* A page of trades or of actions: its rows, as they are.
LEMMA PlainPage ==
  ASSUME NEW S, Table(S), NEW c, c = None \/ (c = <<c[1]>> /\ c[1] \in S), NEW limit \in Limits,
         NEW page, page = Cut(Fetched(NewestFirst(Rest(S, c)), limit), limit)
  PROVE  /\ Pages(page, Rest(S, c), NewerIn(Rest(S, c)))
         /\ \E rows \in Seq(Seen) : /\ Plain(page) = [rows |-> rows, next |-> page.next]
                                    /\ Len(rows) = Len(page.rows) /\ \A i \in 1..Len(rows) : rows[i].row = page.rows[i]
<1> PICK Q : Q = Rest(S, c)
  OBVIOUS
<1>1. Table(Q)
  BY RestIs
<1>2. Pages(page, Q, NewerIn(Q))
  BY <1>1, NewestLists, CutPages, ReadersAssumption
<1>3. page.rows \in Seq(Q) /\ Len(page.rows) \in Nat /\ \A i \in 1..Len(page.rows) : page.rows[i] \in Q
  <2>1. page.rows \in Seq(Q)
    BY <1>2 DEF Pages
  <2> QED BY <2>1, LenProperties, ElementOfSeq
<1>4. PICK rows : rows = [i \in 1..Len(page.rows) |-> [row |-> page.rows[i]]]
  OBVIOUS
<1>5. page = [rows |-> page.rows, next |-> page.next]
  BY DEF Cut
<1>6. DOMAIN page.rows = 1..Len(page.rows)
  BY <1>3
<1>7. Plain(page) = [rows |-> rows, next |-> page.next]
  <2>1. Plain(page) = [page EXCEPT !.rows = [i \in DOMAIN @ |-> [row |-> @[i]]]]
    BY DEF Plain
  <2> QED BY <1>4, <1>5, <1>6, <2>1
<1>8. rows \in Seq(Seen)
  <2>1. \A i \in 1..Len(page.rows) : [row |-> page.rows[i]] \in Seen
    BY <1>1, <1>3 DEF Table, Seen
  <2>2. rows \in [1..Len(page.rows) -> Seen]
    BY <1>4, <2>1
  <2> QED BY <1>3, <2>2, SeqDef
<1>9. Len(rows) = Len(page.rows)
  BY <1>3, <1>4, <1>8
<1> QED BY <1>2, <1>4, <1>7, <1>8, <1>9

\* The times of an account go by its numbers, so its newest entries have the
\* highest ones.
LEMMA NewerIsLater ==
  ASSUME FeedsInv, NEW r \in account, NEW s \in account
  PROVE  Newer(r, s) <=> s.nth < r.nth
<1>1. /\ r \in Row /\ s \in Row
      /\ (r.nth < s.nth => r.at < s.at) /\ (r.nth = s.nth => r = s) /\ (s.nth < r.nth => s.at < r.at)
  BY DEF FeedsInv, AccountSound, Table
<1> QED BY <1>1 DEF Newer, Older, Row

\* What is beside an entry is what the account held with it.
LEMMA BalanceIs ==
  ASSUME FeedsInv, NEW c, c = None \/ (c = <<c[1]>> /\ c[1] \in account), NEW limit \in Limits,
         NEW f, f = Fetched(NewestFirst(Rest(account, c)), limit),
         NEW i \in 1..Len(f)
  PROVE  f[i] \in account /\ WithBalances(f)[i] = [row |-> f[i], balance |-> Held(f[i].nth)] /\ Held(f[i].nth) \in Int
<1> PICK Q, l : Q = Rest(account, c) /\ l = NewestFirst(Q)
  OBVIOUS
<1>1. Table(account) /\ \A r \in account : r.nth \in Nat /\ r.amount \in Int
  BY DEF FeedsInv, AccountSound, Table, Row
<1>2. /\ Table(Q) /\ Q \in SUBSET account
      /\ c # None => \A r \in account : r \in Q <=> Newer(c[1], r)
      /\ c = None => Q = account
  BY <1>1, RestIs
<1>3. ListsAll(l, Q, NewerIn(Q))
  BY <1>2, NewestLists
<1>4. PICK n \in Nat, k \in Nat : /\ n = Len(l) /\ k = Len(f) /\ k <= n
                                  /\ \A j \in 1..n : l[j] \in Q
                                  /\ \A j \in 1..k : f[j] = l[j]
  <2>1. l \in Seq(Q)
    BY <1>3 DEF ListsAll
  <2>2. Len(l) \in Nat /\ \A j \in 1..Len(l) : l[j] \in Q
    BY <2>1, LenProperties, ElementOfSeq
  <2>3. f \in Seq(Q) /\ Len(f) <= Len(l) /\ \A j \in 1..Len(f) : f[j] = l[j]
    BY <1>3, CutPages, ReadersAssumption
  <2> QED BY <2>2, <2>3, LenProperties
<1>5. \A a, b \in 1..n : a < b => l[b].nth < l[a].nth
  <2>1. \A a, b \in 1..n : a < b => Newer(l[a], l[b])
    <3>1. \A a, b \in 1..n : a < b => <<l[a], l[b]>> \in NewerIn(Q)
      BY <1>3, <1>4 DEF ListsAll
    <3>2. \A a, b \in 1..n : <<l[a], l[b]>> \in NewerIn(Q) => Newer(l[a], l[b])
      BY DEF NewerIn
    <3> QED BY <3>1, <3>2
  <2> QED BY <1>2, <1>4, <2>1, NewerIsLater
<1>6. \A x \in Q : \E j \in 1..n : l[j] = x
  BY <1>3, <1>4 DEF ListsAll
<1>7. i \in 1..k /\ 1 \in 1..k /\ i \in 1..n /\ 1 \in 1..n
  BY <1>4
<1>8. \A j \in 1..k : f[j] \in account /\ f[j] \in Q /\ j \in 1..n
  BY <1>2, <1>4
<1> DEFINE Upto == {r \in account : ~Newer(r, f[1])}
           Held1 == {r \in account : r.nth <= f[i].nth}
           Newest1 == {f[j] : j \in 1..(i - 1)}
<1>9. \A r \in account : ~ Newer(r, f[1]) <=> r.nth <= f[1].nth
  <2> SUFFICES ASSUME NEW r \in account PROVE ~ Newer(r, f[1]) <=> r.nth <= f[1].nth
    OBVIOUS
  <2>1. f[1] \in account
    BY <1>7, <1>8
  <2>2. r.nth \in Nat /\ f[1].nth \in Nat
    BY <1>1, <2>1
  <2>3. Newer(r, f[1]) <=> f[1].nth < r.nth
    BY <2>1, NewerIsLater
  <2> QED BY <2>2, <2>3
<1>10. \A j \in 1..(i - 1) : f[j] \in account /\ f[j].nth <= f[1].nth /\ f[i].nth < f[j].nth
  <2> SUFFICES ASSUME NEW j \in 1..(i - 1) PROVE f[j] \in account /\ f[j].nth <= f[1].nth /\ f[i].nth < f[j].nth
    OBVIOUS
  <2>1. j \in 1..k /\ j \in 1..n /\ j < i /\ (1 < j \/ j = 1)
    BY <1>4, <1>7
  <2>2. f[j] \in account /\ f[1] \in account /\ f[i] \in account
    BY <1>7, <1>8, <2>1
  <2>3. f[j].nth \in Nat /\ f[1].nth \in Nat /\ f[i].nth \in Nat
    BY <1>1, <2>2
  <2>4. f[j] = l[j] /\ f[1] = l[1] /\ f[i] = l[i]
    BY <1>4, <1>7, <2>1
  <2>5. l[i].nth < l[j].nth
    BY <1>5, <1>7, <2>1
  <2>6. 1 < j => l[j].nth < l[1].nth
    BY <1>5, <1>7, <2>1
  <2> QED BY <2>1, <2>2, <2>3, <2>4, <2>5, <2>6
<1>11. ASSUME NEW r \in account, r.nth <= f[1].nth, f[i].nth < r.nth PROVE r \in Newest1
  <2>1. f[1] \in account /\ f[1] \in Q /\ f[i] \in account
    BY <1>7, <1>8
  <2>2. r \in Q
    <3>1. CASE c = None
      BY <1>2, <3>1
    <3>2. CASE c # None
      <4>1. Newer(c[1], f[1]) /\ c[1] \in account
        BY <1>2, <2>1, <3>2
      <4>2. f[1].nth < c[1].nth
        BY <2>1, <4>1, NewerIsLater
      <4>3. r.nth \in Nat /\ f[1].nth \in Nat /\ c[1].nth \in Nat
        BY <1>1, <2>1, <4>1
      <4>4. r.nth < c[1].nth
        BY <1>11, <4>2, <4>3
      <4>5. Newer(c[1], r)
        BY <4>1, <4>4, NewerIsLater
      <4> QED BY <1>2, <3>2, <4>5
    <3> QED BY <3>1, <3>2
  <2>3. PICK j \in 1..n : l[j] = r
    BY <1>6, <2>2
  <2>4. f[i] = l[i] /\ l[j].nth \in Nat /\ l[i].nth \in Nat
    BY <1>1, <1>4, <1>7, <2>1, <2>3
  <2>5. i < j => l[j].nth < l[i].nth
    BY <1>5, <1>7
  <2>6. j < i
    <3>1. ~ (i < j)
      BY <1>11, <2>3, <2>4, <2>5
    <3>2. i # j
      BY <1>11, <2>3, <2>4
    <3> QED BY <1>7, <3>1, <3>2
  <2>7. j \in 1..k /\ j \in 1..(i - 1)
    BY <1>4, <1>7, <2>6
  <2> QED BY <1>4, <2>3, <2>7
<1>12. Upto = Held1 \cup Newest1
  <2>1. \A r \in account : r.nth <= f[i].nth => r.nth <= f[1].nth
    <3>1. f[i].nth <= f[1].nth
      <4>1. f[i] \in account /\ f[1] \in account /\ f[i] = l[i] /\ f[1] = l[1]
        BY <1>4, <1>7, <1>8
      <4>2. f[i].nth \in Nat /\ f[1].nth \in Nat /\ (1 < i => l[i].nth < l[1].nth) /\ (i = 1 \/ 1 < i)
        BY <1>1, <1>5, <1>7, <4>1
      <4> QED BY <4>1, <4>2
    <3>2. f[i].nth \in Nat /\ f[1].nth \in Nat
      BY <1>1, <1>7, <1>8
    <3> QED BY <1>1, <3>1, <3>2
  <2>2. \A r \in account : r.nth <= f[i].nth \/ f[i].nth < r.nth
    BY <1>1, <1>7, <1>8
  <2>3. \A r \in Upto : r \in Held1 \/ r \in Newest1
    BY <1>9, <1>11, <2>2
  <2>4. \A r \in Held1 \cup Newest1 : r \in Upto
    BY <1>9, <1>10, <2>1
  <2> QED BY <2>3, <2>4
<1>13. Held1 \cap Newest1 = {}
  <2>1. f[i].nth \in Nat /\ \A j \in 1..(i - 1) : f[j].nth \in Nat /\ f[i].nth < f[j].nth
    BY <1>1, <1>7, <1>8, <1>10
  <2>2. \A j \in 1..(i - 1) : ~ (f[j].nth <= f[i].nth)
    BY <2>1
  <2> QED BY <2>2
<1>14. Held1 \in SUBSET account /\ Newest1 \in SUBSET account
  BY <1>10
<1>15. IsFiniteSet(Held1) /\ IsFiniteSet(Newest1)
  BY <1>1, <1>14, FS_Subset DEF Table
<1>16. Held(f[i].nth) = SumOf(Held1)
  BY DEF Held
<1>17. WithBalances(f)[i] = [row |-> f[i], balance |-> SumOf(Upto) - SumOf(Newest1)]
  <2>1. DOMAIN f = 1..k
    <3>1. f \in Seq(Q)
      BY <1>3, CutPages, ReadersAssumption
    <3> QED BY <1>4, <3>1
  <2>2. i \in DOMAIN f
    BY <1>7, <2>1
  <2> QED BY <2>2 DEF WithBalances
<1> HIDE DEF Upto, Held1, Newest1
<1>18. SumOf(Upto) = SumOf(Held1) + SumOf(Newest1) /\ SumOf(Held1) \in Int /\ SumOf(Newest1) \in Int
  <2>1. \A r \in Held1 \cup Newest1 : r.amount \in Int
    BY <1>1, <1>14
  <2> QED BY <1>12, <1>13, <1>15, <2>1, AmountsApart
<1>19. SumOf(Upto) - SumOf(Newest1) = Held(f[i].nth) /\ Held(f[i].nth) \in Int
  BY <1>16, <1>18
<1> QED BY <1>7, <1>8, <1>17, <1>19

\* A walk goes on after a row of what it walks.
LEMMA GoesOnAt ==
  ASSUME NEW S, Walked(S, shown, walk, begun, cursor), walk \in {"not begun", "walking"},
         walk = "not begun" => cursor = None
  PROVE  cursor = None \/ (cursor = <<cursor[1]>> /\ cursor[1] \in S)
<1> SUFFICES ASSUME walk = "walking" PROVE cursor = <<cursor[1]>> /\ cursor[1] \in S
  OBVIOUS
<1>1. Len(shown) > 0 /\ cursor = <<shown[Len(shown)].row>> /\ Len(shown) \in Nat
  BY LenProperties DEF Walked
<1>2. Len(shown) \in 1..Len(shown)
  BY <1>1
<1>3. shown[Len(shown)].row \in S
  BY <1>2 DEF Walked
<1> QED BY <1>1, <1>3

\* A page of trades or of actions.
PlainRead(S, limit) ==
  /\ Table(S) /\ Walked(S, shown, walk, begun, cursor) /\ walk \in {"not begun", "walking"}
  /\ walk = "not begun" => shown = <<>> /\ cursor = None
  /\ Show(Plain(Cut(Fetched(NewestFirst(Rest(S, cursor)), limit), limit)), S)

LEMMA PlainShown ==
  ASSUME NEW S, NEW limit \in Limits, PlainRead(S, limit)
  PROVE  Walked(S, shown', walk', begun', cursor') /\ walk' \in {"walking", "whole"}
<1>1. cursor = None \/ (cursor = <<cursor[1]>> /\ cursor[1] \in S)
  BY GoesOnAt DEF PlainRead
<1>2. PICK page : page = Cut(Fetched(NewestFirst(Rest(S, cursor)), limit), limit)
  OBVIOUS
<1>3. /\ Pages(page, Rest(S, cursor), NewerIn(Rest(S, cursor)))
      /\ \E rows \in Seq(Seen) : /\ Plain(page) = [rows |-> rows, next |-> page.next]
                                 /\ Len(rows) = Len(page.rows) /\ \A i \in 1..Len(rows) : rows[i].row = page.rows[i]
  <2>1. PICK c : c = cursor
    OBVIOUS
  <2>2. /\ Pages(page, Rest(S, c), NewerIn(Rest(S, c)))
        /\ \E rows \in Seq(Seen) : /\ Plain(page) = [rows |-> rows, next |-> page.next]
                                   /\ Len(rows) = Len(page.rows) /\ \A i \in 1..Len(rows) : rows[i].row = page.rows[i]
    <3>1. c = None \/ (c = <<c[1]>> /\ c[1] \in S)
      BY <1>1, <2>1
    <3>2. Table(S)
      BY DEF PlainRead
    <3>3. page = Cut(Fetched(NewestFirst(Rest(S, c)), limit), limit)
      BY <1>2, <2>1
    <3> QED BY <3>1, <3>2, <3>3, PlainPage
  <2> QED BY <2>1, <2>2
<1>4. PICK rows \in Seq(Seen) : /\ Plain(page) = [rows |-> rows, next |-> page.next]
                                /\ Len(rows) = Len(page.rows) /\ \A i \in 1..Len(rows) : rows[i].row = page.rows[i]
  BY <1>3
<1>5. Show([rows |-> rows, next |-> page.next], S)
  BY <1>2, <1>4 DEF PlainRead
<1>6. FeedRead(S, page, rows)
  BY <1>3, <1>4, <1>5 DEF FeedRead, PlainRead
<1> QED BY <1>6, FeedShown

\* A page of a history: its balances are what was held.
LEMMA HistoryPaged ==
  ASSUME FeedsInv, NEW c, c = None \/ (c = <<c[1]>> /\ c[1] \in account), NEW limit \in Limits,
         NEW page, page = Cut(Fetched(NewestFirst(Rest(account, c)), limit), limit),
         NEW rows, rows = HistoryPage(c, limit).rows
  PROVE  /\ Pages(page, Rest(account, c), NewerIn(Rest(account, c)))
         /\ HistoryPage(c, limit) = [rows |-> rows, next |-> page.next]
         /\ rows \in Seq(Seen) /\ Len(rows) = Len(page.rows)
         /\ \A i \in 1..Len(rows) : rows[i].row = page.rows[i] /\ rows[i].balance = Held(rows[i].row.nth)
<1>1. PICK Q, f, l : Q = Rest(account, c) /\ l = NewestFirst(Q) /\ f = Fetched(l, limit)
  OBVIOUS
<1>2. Table(account)
  BY DEF FeedsInv, AccountSound
<1>3. Table(Q)
  BY <1>1, <1>2, RestIs
<1>4. ListsAll(l, Q, NewerIn(Q))
  BY <1>1, <1>3, NewestLists
<1>5. page = Cut(f, limit)
  BY <1>1
<1>6. /\ Pages(page, Q, NewerIn(Q))
      /\ f \in Seq(Q) /\ \A i \in 1..Len(f) : f[i] = l[i]
      /\ Len(page.rows) <= Len(f) /\ \A i \in 1..Len(page.rows) : page.rows[i] = l[i]
  BY <1>1, <1>4, <1>5, CutPages, ReadersAssumption
<1>7. page.rows \in Seq(Q)
  BY <1>6 DEF Pages
<1>8. PICK k \in Nat, m \in Nat : k = Len(f) /\ m = Len(page.rows) /\ m <= k
  BY <1>6, <1>7, LenProperties
<1>9. PICK w : w = WithBalances(f)
  OBVIOUS
<1>10. rows = SubSeq(w, 1, m) /\ HistoryPage(c, limit) = [rows |-> rows, next |-> page.next]
  BY <1>1, <1>5, <1>8, <1>9 DEF HistoryPage
<1>11. ASSUME NEW i \in 1..k
       PROVE  w[i] \in Seen /\ w[i].row = f[i] /\ w[i].balance = Held(f[i].nth)
  <2>1. i \in 1..Len(f)
    BY <1>8
  <2>2. f = Fetched(NewestFirst(Rest(account, c)), limit)
    BY <1>1
  <2>3. f[i] \in account /\ WithBalances(f)[i] = [row |-> f[i], balance |-> Held(f[i].nth)] /\ Held(f[i].nth) \in Int
    BY <2>1, <2>2, BalanceIs
  <2>4. f[i] \in Row
    BY <1>2, <2>3 DEF Table
  <2> QED BY <1>9, <2>3, <2>4 DEF Seen
<1>12. \A i \in 1..m : w[i] \in Seen /\ i \in 1..k
  BY <1>8, <1>11
<1>13. rows \in Seq(Seen) /\ Len(rows) = m
  <2>1. \A i \in 1..m : w[i] \in Seen
    BY <1>12
  <2>2. SubSeq(w, 1, m) \in Seq(Seen) /\ Len(SubSeq(w, 1, m)) = IF 1 <= m THEN m - 1 + 1 ELSE 0
    BY <2>1, SubSeqProperties
  <2>3. m = IF 1 <= m THEN m - 1 + 1 ELSE 0
    OBVIOUS
  <2> QED BY <1>10, <2>2, <2>3
<1>14. ASSUME NEW i \in 1..m PROVE rows[i] = w[i]
  <2>1. m - 1 + 1 = m /\ 1 + i - 1 = i
    OBVIOUS
  <2>2. rows[i] = w[1 + i - 1]
    BY <1>10, <1>12, <2>1, SubSeqProperties
  <2> QED BY <2>1, <2>2
<1>15. ASSUME NEW i \in 1..m PROVE rows[i].row = page.rows[i] /\ rows[i].balance = Held(rows[i].row.nth)
  <2>1. rows[i] = w[i] /\ w[i].row = f[i] /\ w[i].balance = Held(f[i].nth)
    BY <1>11, <1>12, <1>14
  <2>2. page.rows[i] = l[i] /\ f[i] = l[i]
    BY <1>6, <1>8, <1>12
  <2> QED BY <2>1, <2>2
<1> QED BY <1>1, <1>6, <1>8, <1>10, <1>13, <1>15

\* A history goes on to nothing that was appended after it began.
LEMMA RestHasBegun ==
  ASSUME FeedsInv, HistoryTold, Walked(account, shown, walk, begun, cursor), walk = "walking",
         NEW r \in Rest(account, cursor)
  PROVE  r \in begun
<1>1. cursor = <<cursor[1]>> /\ cursor[1] \in begun
  <2>1. Len(shown) > 0 /\ cursor = <<shown[Len(shown)].row>> /\ Len(shown) \in Nat
    BY LenProperties DEF Walked
  <2>2. Len(shown) \in 1..Len(shown)
    BY <2>1
  <2> QED BY <2>1, <2>2 DEF HistoryTold
<1>2. begun \in SUBSET account /\ Table(account)
  BY DEF Walked, FeedsInv, AccountSound
<1>3. cursor # None
  BY <1>1 DEF None
<1>4. r \in account /\ Newer(cursor[1], r)
  BY <1>1, <1>2, <1>3, RestIs
<1>5. r.nth < cursor[1].nth
  BY <1>1, <1>2, <1>4, NewerIsLater
<1>6. r \notin begun => cursor[1].nth < r.nth
  BY <1>1, <1>4 DEF HistoryTold
<1>7. r.nth \in Nat /\ cursor[1].nth \in Nat
  BY <1>1, <1>2, <1>4 DEF Table, Row
<1> QED BY <1>5, <1>6, <1>7

\* A page of a history adds only entries the walk began with.
LEMMA HistoryRead ==
  ASSUME WalkInv, FeedsInv, FeedInv, NEW limit \in Limits, ReadHistory(limit)
  PROVE  FeedInv'
<1>1. /\ list = "history" /\ walk \in {"not begun", "walking"} /\ list' = list
      /\ account' = account /\ Show(HistoryPage(cursor, limit), account)
  BY DEF ReadHistory, MayRead, IsOver, WalkInv, Show, feeds
<1>2. Walked(account, shown, walk, begun, cursor) /\ HistoryTold
  BY <1>1 DEF FeedInv, Feed, Matching
<1>3. Table(account)
  BY DEF FeedsInv, AccountSound
<1>4. walk = "not begun" => shown = <<>> /\ cursor = None
  BY DEF WalkInv
<1>5. cursor = None \/ (cursor = <<cursor[1]>> /\ cursor[1] \in account)
  BY <1>1, <1>2, <1>4, GoesOnAt
<1>6. PICK page, rows : /\ page = Cut(Fetched(NewestFirst(Rest(account, cursor)), limit), limit)
                        /\ rows = HistoryPage(cursor, limit).rows
  OBVIOUS
<1>7. /\ Pages(page, Rest(account, cursor), NewerIn(Rest(account, cursor)))
      /\ HistoryPage(cursor, limit) = [rows |-> rows, next |-> page.next]
      /\ rows \in Seq(Seen) /\ Len(rows) = Len(page.rows)
      /\ \A i \in 1..Len(rows) : rows[i].row = page.rows[i] /\ rows[i].balance = Held(rows[i].row.nth)
  BY <1>5, <1>6, HistoryPaged
<1>8. FeedRead(account, page, rows)
  BY <1>1, <1>2, <1>3, <1>4, <1>7 DEF FeedRead
<1>9. /\ Walked(account, shown', walk', begun', cursor') /\ walk' \in {"walking", "whole"}
      /\ \A i \in 1..Len(shown') :
           \/ i \in 1..Len(shown) /\ shown'[i] = shown[i]
           \/ i - Len(shown) \in 1..Len(rows) /\ shown'[i] = rows[i - Len(shown)]
      /\ begun' = IF walk = "not begun" THEN account ELSE begun
  BY <1>8, FeedShown
<1>10. \A i \in 1..Len(page.rows) : page.rows[i] \in Rest(account, cursor)
  <2>1. page.rows \in Seq(Rest(account, cursor))
    BY <1>7 DEF Pages
  <2> QED BY <2>1, ElementOfSeq
<1>11. \A r \in Rest(account, cursor) : r \in begun'
  <2>1. CASE walk = "not begun"
    BY <1>9, <2>1 DEF Rest
  <2>2. CASE walk = "walking"
    BY <1>2, <1>9, <2>2, RestHasBegun
  <2> QED BY <1>1, <2>1, <2>2
<1>12. \A i \in 1..Len(shown) : shown[i].row \in begun' /\ shown[i].balance = Held(shown[i].row.nth)
  <2>1. CASE walk = "not begun"
    <3>1. Len(shown) = 0
      BY <1>4, <2>1, EmptySeq
    <3>2. \A i \in 1..0 : FALSE
      OBVIOUS
    <3> QED BY <3>1, <3>2
  <2>2. CASE walk = "walking"
    BY <1>2, <1>9, <2>2 DEF HistoryTold
  <2> QED BY <1>1, <2>1, <2>2
<1>13. \A i \in 1..Len(rows) : rows[i].row \in begun' /\ rows[i].balance = Held(rows[i].row.nth)
  BY <1>7, <1>10, <1>11
<1>14. \A i \in 1..Len(shown') : shown'[i].row \in begun' /\ shown'[i].balance = Held(shown'[i].row.nth)
  BY <1>9, <1>12, <1>13
<1>15. \A r \in account' \ begun', s \in begun' : s.nth < r.nth
  <2>1. CASE walk = "not begun"
    BY <1>1, <1>9, <2>1
  <2>2. CASE walk = "walking"
    BY <1>1, <1>2, <1>9, <2>2 DEF HistoryTold
  <2> QED BY <1>1, <2>1, <2>2
<1>16. HistoryTold'
  <2>1. ASSUME NEW i \in 1..Len(shown')
        PROVE  shown'[i].row \in begun' /\ shown'[i].balance = SumOf({r \in account' : r.nth <= shown'[i].row.nth})
    BY <1>1, <1>14 DEF Held
  <2> QED BY <1>15, <2>1 DEF HistoryTold, Held
<1>17. Matching' = account
  BY <1>1 DEF Matching
<1>18. walk' # "refreshed"
  BY <1>9
<1> QED BY <1>9, <1>16, <1>17, <1>18 DEF FeedInv

LEMMA FeedReads ==
  ASSUME WalkInv, FeedsInv, FeedInv, NEW limit \in Limits,
         ReadHistory(limit) \/ ReadTrades(limit) \/ ReadActions(limit)
  PROVE  FeedInv'
<1>1. CASE ReadHistory(limit)
  BY <1>1, HistoryRead
<1>2. walk = "not begun" => shown = <<>> /\ cursor = None
  BY DEF WalkInv
<1>3. CASE ReadTrades(limit)
  <2>1. /\ list = "trades" /\ walk \in {"not begun", "walking"} /\ list' = list /\ account' = account
        /\ Show(TradePage(cursor, limit), MatchingTrades)
    BY <1>3 DEF ReadTrades, MayRead, IsOver, WalkInv, Show, feeds
  <2>2. Walked(MatchingTrades, shown, walk, begun, cursor)
    BY <2>1 DEF FeedInv, Feed, Matching
  <2>3. Table(MatchingTrades)
    <3>1. MatchingTrades \in SUBSET account /\ Table(account)
      BY DEF MatchingTrades, FeedsInv, AccountSound
    <3> QED BY <3>1, FS_Subset DEF Table
  <2>4. Show(Plain(Cut(Fetched(NewestFirst(Rest(MatchingTrades, cursor)), limit), limit)), MatchingTrades)
    BY <2>1 DEF TradePage
  <2>5. Walked(MatchingTrades, shown', walk', begun', cursor') /\ walk' \in {"walking", "whole"}
    BY <1>2, <2>1, <2>2, <2>3, <2>4, PlainShown DEF PlainRead
  <2>6. Matching' = MatchingTrades /\ list' # "history" /\ walk' # "refreshed"
    BY <2>1, <2>5 DEF Matching, MatchingTrades
  <2> QED BY <2>5, <2>6 DEF FeedInv
<1>4. CASE ReadActions(limit)
  <2>1. /\ list = "actions" /\ walk \in {"not begun", "walking"} /\ list' = list /\ log' = log
        /\ Show(ActionPage(cursor, limit), MatchingActions)
    BY <1>4 DEF ReadActions, MayRead, IsOver, WalkInv, Show, feeds
  <2>2. Walked(MatchingActions, shown, walk, begun, cursor)
    BY <2>1 DEF FeedInv, Feed, Matching
  <2>3. Table(MatchingActions)
    <3>1. MatchingActions \in SUBSET log /\ Table(log)
      BY DEF MatchingActions, FeedsInv
    <3> QED BY <3>1, FS_Subset DEF Table
  <2>4. Show(Plain(Cut(Fetched(NewestFirst(Rest(MatchingActions, cursor)), limit), limit)), MatchingActions)
    BY <2>1 DEF ActionPage
  <2>5. Walked(MatchingActions, shown', walk', begun', cursor') /\ walk' \in {"walking", "whole"}
    BY <1>2, <2>1, <2>2, <2>3, <2>4, PlainShown DEF PlainRead
  <2>6. Matching' = MatchingActions /\ list' # "history" /\ walk' # "refreshed"
    BY <2>1, <2>5 DEF Matching, MatchingActions
  <2> QED BY <2>5, <2>6 DEF FeedInv
<1> QED BY <1>1, <1>3, <1>4

LEMMA FeedStart ==
  ASSUME Init
  PROVE  FeedsInv /\ FeedInv
<1>1. account = {} /\ log = {} /\ shown = <<>> /\ walk = "not begun" /\ begun = {}
  BY DEF Init, InitFeeds
<1>2. Table({})
  BY FS_EmptySet DEF Table
<1>3. FeedsInv
  BY <1>1, <1>2 DEF FeedsInv, AccountSound
<1>4. shown \in Seq(Seen) /\ \A i \in 1..Len(shown) : FALSE
  <2>1. shown \in Seq(Seen) /\ Len(shown) = 0
    BY <1>1, EmptySeq
  <2>2. \A i \in 1..0 : FALSE
    OBVIOUS
  <2> QED BY <2>1, <2>2
<1>5. Walked(Matching, shown, walk, begun, cursor)
  BY <1>1, <1>4 DEF Walked
<1>6. HistoryTold
  BY <1>1, <1>4 DEF HistoryTold
<1> QED BY <1>1, <1>3, <1>5, <1>6 DEF FeedInv

LEMMA FeedStep ==
  ASSUME WalkInv, FeedsInv, FeedInv, [Next]_vars
  PROVE  FeedsInv' /\ FeedInv'
<1>1. list' = list
  BY WalkMoves
<1>2. list \notin Feed => FeedInv'
  BY <1>1 DEF FeedInv
<1>3. UNCHANGED feeds => FeedsInv'
  BY DEF feeds, FeedsInv, AccountSound
<1>4. CASE UNCHANGED vars
  <2>1. UNCHANGED <<feeds, list, reader>>
    BY <1>4 DEF vars
  <2>2. account' = account /\ log' = log /\ shown' = shown /\ walk' = walk /\ begun' = begun /\ cursor' = cursor
    BY <2>1 DEF feeds, reader
  <2>3. Matching' = Matching
    BY <1>1, <2>2 DEF Matching, MatchingTrades, MatchingActions
  <2>4. HistoryTold => HistoryTold'
    BY <2>2 DEF HistoryTold, Held
  <2> QED BY <1>1, <1>3, <2>1, <2>2, <2>3, <2>4 DEF FeedInv
<1>5. CASE Read
  <2>1. UNCHANGED feeds
    BY <1>5 DEF Read, ReadHistory, ReadTrades, ReadActions, ReadBoard, ReadBrowse, ReadOverview, Show
  <2>2. list \in Feed => FeedInv'
    BY <1>5, FeedReads DEF Read, ReadBoard, ReadBrowse, ReadOverview, MayRead, Feed
  <2> QED BY <1>2, <1>3, <2>1, <2>2
<1>6. CASE (WriteAccount \/ WriteLog) /\ UNCHANGED <<list, filter, reader>>
  BY <1>6, FeedKept
<1>7. CASE WriteBoard \/ WriteMarkets
  <2>1. UNCHANGED feeds /\ list \notin Feed
    BY <1>7 DEF WriteBoard, WriteMarkets, Feed
  <2> QED BY <1>2, <1>3, <2>1
<1> QED BY <1>4, <1>5, <1>6, <1>7 DEF Next

\* A feed walked to its end told what it began with.
LEMMA FeedTold ==
  ASSUME WalkInv, FeedsInv, FeedInv
  PROVE  HistoryWhole
<1> SUFFICES ASSUME list \in Feed, walk = "whole"
             PROVE  /\ \A r \in begun : Cardinality({i \in Places : shown[i].row = r}) = 1
                    /\ \A i, j \in Places : i < j => Newer(shown[i].row, shown[j].row)
                    /\ list = "history" => \A i \in Places :
                         shown[i].row \in begun /\ shown[i].balance = Held(shown[i].row.nth)
  BY DEF HistoryWhole
<1>1. Walked(Matching, shown, walk, begun, cursor)
  BY DEF FeedInv
<1>2. PICK n \in Nat : n = Len(shown) /\ Places = 1..n
  BY <1>1, LenProperties DEF Walked, Places
<1>3. \A i, j \in 1..n : i < j => Newer(shown[i].row, shown[j].row)
  BY <1>1, <1>2 DEF Walked
<1>4. ASSUME NEW r \in begun PROVE Cardinality({i \in Places : shown[i].row = r}) = 1
  <2>1. PICK i \in 1..n : shown[i].row = r
    BY <1>1, <1>2 DEF Walked
  <2>2. ASSUME NEW j \in 1..n, shown[j].row = r PROVE j = i
    <3>1. ~ Newer(r, r)
      BY DEF Newer
    <3>2. ~ (i < j) /\ ~ (j < i)
      BY <1>3, <2>1, <2>2, <3>1
    <3> QED BY <3>2
  <2>3. {j \in Places : shown[j].row = r} = {i}
    BY <1>2, <2>1, <2>2
  <2> QED BY <2>3, FS_Singleton
<1>5. list = "history" => \A i \in 1..n : shown[i].row \in begun /\ shown[i].balance = Held(shown[i].row.nth)
  BY <1>2 DEF FeedInv, HistoryTold
<1> QED BY <1>2, <1>3, <1>4, <1>5

----------------------------------------------------------------------------
(* The browse and the overview *)

\* A public market has a close; it has been closed once it is no longer open; a
\* close that is stamped early has yet to commit.
MarketSound(m) ==
  /\ IsVisible(m) => market[m].close # Never
  /\ market[m].status \in {"draft", "open"} => market[m].closedAt = Never
  /\ market[m].status \in {"closed", "settled"} => market[m].closedAt # Never
  /\ closing[m] # Never => market[m].status = "open" /\ closing[m] < market[m].close

MarketsInv ==
  /\ clock \in Nat \ {0}
  /\ market \in [Markets -> [status: {"draft", "open", "closed", "settled"}, close: Nat, closedAt: Nat]]
  /\ closing \in [Markets -> Nat]
  /\ \A m \in Markets : MarketSound(m)

\* p was shown: its market is still there, or has stopped unseen.
StillThere(p) ==
  /\ p.id \in Markets /\ IsVisible(p.id) /\ p.as_of <= clock
  /\ BrowsePosition(p.id, p.as_of) = p \/ StoppedUnseen(p)

\* A walk of the browse is as of one moment; what it has shown is in order, and a
\* market it began with has been shown or comes after the last row.
BrowseInv ==
  list = "browse" =>
    /\ walk # "refreshed"
    /\ shown \in Seq(Position)
    /\ walk = "walking" => Len(shown) > 0 /\ cursor = <<shown[Len(shown)]>>
    /\ \A i \in 1..Len(shown) : StillThere(shown[i]) /\ shown[i].as_of = shown[1].as_of
    /\ \A i, j \in 1..Len(shown) : i < j => BrowsePrecedes(shown[i], shown[j])
    /\ \A i, j \in 1..Len(shown) : i < j /\ shown[i].id = shown[j].id => StoppedUnseen(shown[i])
    /\ begun \in SUBSET Markets
    /\ \A m \in begun : IsVisible(m)
    /\ filter = "any" /\ walk # "not begun" => \A m \in begun :
         \/ \E i \in 1..Len(shown) : shown[i].id = m
         \/ /\ walk = "walking"
            /\ BrowsePrecedes(shown[Len(shown)], BrowsePosition(m, shown[Len(shown)].as_of))

\* What has been listed at p since the walk began has been shown there once, or
\* comes after the last row.
OverviewInv ==
  list = "overview" =>
    /\ walk # "refreshed"
    /\ shown \in Seq(Filed)
    /\ walk = "walking" => Len(shown) > 0 /\ cursor = <<shown[Len(shown)]>>
    /\ \A i, j \in 1..Len(shown) : i < j => OverviewPrecedes(shown[i], shown[j])
    /\ begun \in SUBSET Filed
    /\ \A p \in begun :
         /\ p.id \in Markets /\ IsVisible(p.id)
         /\ p.finished => IsFinished(p.id)
         /\ OverviewPosition(p.id) = p /\ walk # "not begun" =>
              /\ \A i \in 1..Len(shown) : shown[i].id = p.id => shown[i] = p
              /\ \/ \E i \in 1..Len(shown) : shown[i] = p
                 \/ walk = "walking" /\ OverviewPrecedes(shown[Len(shown)], p)

Stored == [status: {"draft", "open", "closed", "settled"}, close: Nat, closedAt: Nat]

LEMMA MarketsStart ==
  ASSUME InitMarkets
  PROVE  MarketsInv
BY BrowseAssumption DEF InitMarkets, MarketsInv, MarketSound, IsVisible, Draft, Never

\* MarketSound, of one market's row and the clock its close read.
Sound(row, c) ==
  /\ row \in Stored /\ c \in Nat
  /\ row.status # "draft" => row.close # Never
  /\ row.status \in {"draft", "open"} => row.closedAt = Never
  /\ row.status \in {"closed", "settled"} => row.closedAt # Never
  /\ c # Never => row.status = "open" /\ c < row.close

\* What a step may make of a public market's row.
Moved(old, row) ==
  old.status # "draft" =>
    /\ row.status # "draft" /\ row.close = old.close
    /\ old.status \in {"settled", "voided"} => row.status \in {"settled", "voided"}
    /\ old.closedAt # Never => row.closedAt = old.closedAt
    /\ old.closedAt = Never =>
         \/ row.closedAt = Never
         \/ row.closedAt < old.close
         \/ old.close <= row.closedAt /\ row.closedAt = clock

LEMMA MarketIsSound ==
  ASSUME MarketsInv, NEW m \in Markets
  PROVE  Sound(market[m], closing[m])
BY DEF MarketsInv, MarketSound, Sound, Stored, IsVisible

LEMMA RowMoves ==
  ASSUME MarketsInv, NEW m \in Markets,
         \/ \E close \in CloseTimes : SaveDraft(m, close)
         \/ Publish(m) \/ ReadCloseClock(m) \/ CommitClose(m) \/ SweepClosed(m) \/ FinishMarket(m)
  PROVE  /\ clock' = clock
         /\ \E row, c : /\ market' = [market EXCEPT ![m] = row] /\ closing' = [closing EXCEPT ![m] = c]
                        /\ Sound(row, c) /\ Moved(market[m], row)
<1> PICK old, co : old = market[m] /\ co = closing[m]
  OBVIOUS
<1>1. Sound(old, co) /\ clock \in Nat /\ clock # 0
  BY MarketIsSound DEF MarketsInv
<1>2. market \in [Markets -> Stored] /\ closing \in [Markets -> Nat]
  BY DEF MarketsInv, Stored
<1>3. market = [market EXCEPT ![m] = old] /\ closing = [closing EXCEPT ![m] = co]
  BY <1>2
<1>4. CASE \E close \in CloseTimes : SaveDraft(m, close)
  <2>1. PICK close \in CloseTimes : SaveDraft(m, close)
    BY <1>4
  <2>2. close \in Nat
    BY BrowseAssumption
  <2>3. PICK row : row = [old EXCEPT !.close = close]
    OBVIOUS
  <2>4. market' = [market EXCEPT ![m] = row] /\ closing' = [closing EXCEPT ![m] = co] /\ clock' = clock
    BY <1>2, <1>3, <2>1, <2>3 DEF SaveDraft
  <2>5. Sound(row, co) /\ Moved(old, row)
    BY <1>1, <2>1, <2>2, <2>3 DEF SaveDraft, Sound, Stored, Moved, Never
  <2> QED BY <2>4, <2>5
<1>5. CASE Publish(m)
  <2>3. PICK row : row = [old EXCEPT !.status = "open", !.closedAt = Never]
    OBVIOUS
  <2>4. market' = [market EXCEPT ![m] = row] /\ closing' = [closing EXCEPT ![m] = co] /\ clock' = clock
    BY <1>2, <1>3, <1>5, <2>3 DEF Publish, Write
  <2>1. old.status = "draft" /\ old.close > clock /\ old.close # Never
    BY <1>1, <1>5 DEF Publish, Sound, Stored, Never
  <2>2. co = Never /\ old \in Stored
    BY <1>1, <2>1 DEF Sound
  <2>5. Sound(row, co) /\ Moved(old, row)
    <3>1. row \in Stored /\ row.status = "open" /\ row.close = old.close /\ row.closedAt = Never
      BY <2>2, <2>3 DEF Stored, Never
    <3> QED BY <2>1, <2>2, <3>1 DEF Sound, Moved, Never
  <2> QED BY <2>4, <2>5
<1>6. CASE ReadCloseClock(m)
  <2>4. market' = [market EXCEPT ![m] = old] /\ closing' = [closing EXCEPT ![m] = clock] /\ clock' = clock
    BY <1>2, <1>3, <1>6 DEF ReadCloseClock
  <2>5. Sound(old, clock) /\ Moved(old, old)
    BY <1>1, <1>6 DEF ReadCloseClock, Sound, Stored, Moved, Never
  <2> QED BY <2>4, <2>5
<1>7. CASE CommitClose(m)
  <2>3. PICK row : row = [old EXCEPT !.status = "closed", !.closedAt = co]
    OBVIOUS
  <2>4. market' = [market EXCEPT ![m] = row] /\ closing' = [closing EXCEPT ![m] = Never] /\ clock' = clock
    BY <1>2, <1>3, <1>7, <2>3 DEF CommitClose, Write
  <2>5. Sound(row, Never) /\ Moved(old, row)
    BY <1>1, <1>7, <2>3 DEF CommitClose, Sound, Stored, Moved, Never
  <2> QED BY <2>4, <2>5
<1>8. CASE SweepClosed(m)
  <2>3. PICK row : row = [old EXCEPT !.status = "closed", !.closedAt = clock]
    OBVIOUS
  <2>4. market' = [market EXCEPT ![m] = row] /\ closing' = [closing EXCEPT ![m] = co] /\ clock' = clock
    BY <1>2, <1>3, <1>8, <2>3 DEF SweepClosed, Write
  <2>5. Sound(row, co) /\ Moved(old, row)
    BY <1>1, <1>8, <2>3 DEF SweepClosed, Sound, Stored, Moved, Never
  <2> QED BY <2>4, <2>5
<1>9. CASE FinishMarket(m)
  <2>3. PICK row : row = [old EXCEPT !.status = "settled", !.closedAt = old.closedAt]
    OBVIOUS
  <2>4. market' = [market EXCEPT ![m] = row] /\ closing' = [closing EXCEPT ![m] = co] /\ clock' = clock
    BY <1>2, <1>3, <1>9, <2>3 DEF FinishMarket, Write
  <2>5. Sound(row, co) /\ Moved(old, row)
    BY <1>1, <1>9, <2>3 DEF FinishMarket, Sound, Stored, Moved, Never
  <2> QED BY <2>4, <2>5
<1> QED BY <1>4, <1>5, <1>6, <1>7, <1>8, <1>9

LEMMA MarketsMove ==
  ASSUME MarketsInv, MarketsNext
  PROVE  MarketsInv' /\ clock <= clock' /\ \A m \in Markets : Moved(market[m], market'[m])
<1>1. \A m \in Markets : Sound(market[m], closing[m])
  BY MarketIsSound
<1>2. clock \in Nat /\ clock # 0 /\ market \in [Markets -> Stored] /\ closing \in [Markets -> Nat]
  BY DEF MarketsInv, Stored
<1>3. \A m \in Markets : Moved(market[m], market[m])
  BY <1>1 DEF Moved
<1>4. /\ clock' \in Nat /\ clock' # 0 /\ clock <= clock'
      /\ market' \in [Markets -> Stored] /\ closing' \in [Markets -> Nat]
      /\ \A m \in Markets : Sound(market'[m], closing'[m]) /\ Moved(market[m], market'[m])
  <2>1. CASE Tick
    BY <1>1, <1>2, <1>3, <2>1, BrowseAssumption DEF Tick
  <2>2. ASSUME NEW m \in Markets,
               \/ \E close \in CloseTimes : SaveDraft(m, close)
               \/ Publish(m) \/ ReadCloseClock(m) \/ CommitClose(m) \/ SweepClosed(m) \/ FinishMarket(m)
        PROVE  <1>4
    <3>1. PICK row, c : /\ market' = [market EXCEPT ![m] = row] /\ closing' = [closing EXCEPT ![m] = c]
                        /\ Sound(row, c) /\ Moved(market[m], row)
      BY <2>2, RowMoves
    <3>2. clock' = clock
      BY <2>2, RowMoves
    <3>3. row \in Stored /\ c \in Nat
      BY <3>1 DEF Sound
    <3>4. \A n \in Markets : market'[n] = (IF n = m THEN row ELSE market[n]) /\ closing'[n] = IF n = m THEN c ELSE closing[n]
      BY <1>2, <3>1
    <3>5. market' \in [Markets -> Stored] /\ closing' \in [Markets -> Nat]
      BY <1>2, <3>1, <3>3
    <3>6. \A n \in Markets : Sound(market'[n], closing'[n])
      BY <1>1, <3>1, <3>4
    <3>7. \A n \in Markets : Moved(market[n], market'[n])
      BY <1>3, <3>1, <3>4
    <3> QED BY <1>2, <3>2, <3>5, <3>6, <3>7
  <2> QED BY <2>1, <2>2 DEF MarketsNext
<1>5. \A m \in Markets : MarketSound(m)'
  BY <1>4 DEF MarketSound, Sound, IsVisible
<1> QED BY <1>4, <1>5 DEF MarketsInv, Stored

LEMMA PositionIs ==
  ASSUME MarketsInv, NEW m \in Markets, NEW as_of \in Nat
  PROVE  /\ BrowsePosition(m, as_of) \in Position
         /\ BrowsePosition(m, as_of).id = m /\ BrowsePosition(m, as_of).as_of = as_of
         /\ OverviewPosition(m) \in Filed /\ OverviewPosition(m).id = m
<1>1. m \in Nat /\ market[m].close \in Nat /\ market[m].closedAt \in Nat
  BY BrowseAssumption DEF MarketsInv
<1>2. SortKey(m, as_of) \in Nat /\ WasOpenForTradingAt(m, as_of) \in BOOLEAN /\ IsFinished(m) \in BOOLEAN
  BY <1>1 DEF SortKey, StoppedAt, WasOpenForTradingAt, IsPast, IsFinished
<1> QED BY <1>1, <1>2 DEF BrowsePosition, OverviewPosition, Position, Filed

\* A public market keeps its place in a moment's browse, unless a close comes
\* in with a time before that place: then it moves later.
LEMMA PlacesGoLater ==
  ASSUME MarketsInv, MarketsNext, NEW m \in Markets, IsVisible(m), NEW as_of \in Nat
  PROVE  /\ IsVisible(m)' /\ clock <= clock'
         /\ \/ BrowsePosition(m, as_of)' = BrowsePosition(m, as_of)
            \/ /\ BrowsePrecedes(BrowsePosition(m, as_of), BrowsePosition(m, as_of)')
               /\ market'[m].closedAt \in 1..as_of /\ market'[m].closedAt < BrowsePosition(m, as_of).sort_at
         /\ market[m].closedAt # Never => market'[m].closedAt = market[m].closedAt
<1>1. Sound(market[m], closing[m]) /\ Moved(market[m], market'[m])
  BY MarketIsSound, MarketsMove
<1>2. MarketsInv' /\ clock <= clock' /\ clock \in Nat
  BY MarketsMove DEF MarketsInv
<1>3. PICK close \in Nat, was \in Nat, is \in Nat :
        close = market[m].close /\ was = market[m].closedAt /\ is = market'[m].closedAt
  BY <1>2 DEF MarketsInv
<1>4. /\ market'[m].close = close /\ close # Never /\ IsVisible(m)'
      /\ was # Never => is = was
      /\ was = Never => is = Never \/ is < close \/ (close <= is /\ is = clock)
  BY <1>1, <1>3 DEF Sound, Moved, IsVisible
<1>5. PICK old, new : old = BrowsePosition(m, as_of) /\ new = BrowsePosition(m, as_of)'
  OBVIOUS
<1> DEFINE Open(stop) == ~ (close <= as_of) /\ ~ (stop # Never /\ stop <= as_of)
           Key(stop) == IF Open(stop) \/ stop = Never \/ close < stop THEN close ELSE stop
           Place(stop) == [id |-> m, as_of |-> as_of, is_open |-> Open(stop), sort_at |-> Key(stop)]
<1>6. old = Place(was) /\ new = Place(is)
  BY <1>3, <1>4, <1>5 DEF BrowsePosition, WasOpenForTradingAt, SortKey, StoppedAt, IsPast, Never
<1>7. \/ new = old
      \/ BrowsePrecedes(old, new) /\ is \in 1..as_of /\ is < old.sort_at
  <2>1. CASE was # Never \/ is = Never
    BY <1>4, <1>6, <2>1
  <2>2. CASE was = Never /\ is # Never /\ close <= is
    <3>1. Open(is) = Open(was) /\ Key(is) = Key(was)
      BY <2>2 DEF Never
    <3> QED BY <1>6, <3>1
  <2>3. CASE was = Never /\ is # Never /\ is < close /\ as_of < is
    <3>1. Open(is) = Open(was) /\ Key(is) = Key(was)
      BY <2>3 DEF Never
    <3> QED BY <1>6, <3>1
  <2>4. CASE was = Never /\ is # Never /\ is < close /\ is <= as_of
    <3>1. ~ Open(is) /\ Key(is) = is /\ Key(was) = close
      BY <2>4 DEF Never
    <3>2. old.sort_at = close /\ new.sort_at = is /\ old.is_open = Open(was) /\ new.is_open = FALSE
      BY <1>6, <3>1
    <3>4. close # is /\ is < close
      BY <2>4
    <3>3. BrowsePrecedes(old, new)
      <4>1. CASE old.is_open
        BY <3>2, <4>1 DEF BrowsePrecedes
      <4>2. CASE ~ old.is_open
        <5>1. old.is_open = FALSE
          BY <3>2, <4>2
        <5> HIDE DEF Open
        <5> QED BY <3>2, <3>4, <5>1 DEF BrowsePrecedes
      <4> QED BY <4>1, <4>2
    <3> QED BY <2>4, <3>2, <3>3 DEF Never
  <2> QED BY <1>4, <2>1, <2>2, <2>3, <2>4
<1> QED BY <1>2, <1>3, <1>4, <1>5, <1>7

LEMMA UnmovedStays ==
  ASSUME UNCHANGED <<clock, market>>, NEW p, StillThere(p)
  PROVE  StillThere(p)'
BY DEF StillThere, StoppedUnseen, IsVisible, BrowsePosition, WasOpenForTradingAt, SortKey, StoppedAt, IsPast

\* A page of the browse goes on in the order of the walk's moment.
LEMMA BrowseRead ==
  ASSUME WalkInv, MarketsInv, BrowseInv, NEW limit \in Limits, ReadBrowse(limit)
  PROVE  BrowseInv'
<1> DEFINE S == Browsed(cursor, filter)
           page == Cut(Fetched(InOrder(S, BrowsePrecedes), limit), limit)
           there == {m \in Markets : IsVisible(m)}
           R == BrowsedIn(Position)
<1>0. PICK as_of : as_of = IF cursor = None THEN clock ELSE cursor[1].as_of
  OBVIOUS
<1>1. list = "browse" /\ ~IsOver /\ Show(page, there) /\ walk \in {"not begun", "walking"}
  BY DEF ReadBrowse, MayRead, IsOver, WalkInv
<1>2. /\ UNCHANGED <<clock, market, closing, list, filter>>
      /\ begun' = IF walk = "not begun" THEN there ELSE begun
  BY <1>1 DEF Show, markets
<1>3. /\ shown \in Seq(Position)
      /\ walk = "walking" => Len(shown) > 0 /\ cursor = <<shown[Len(shown)]>>
      /\ \A i \in 1..Len(shown) : StillThere(shown[i]) /\ shown[i].as_of = shown[1].as_of
      /\ \A i, j \in 1..Len(shown) : i < j => BrowsePrecedes(shown[i], shown[j])
      /\ \A i, j \in 1..Len(shown) : i < j /\ shown[i].id = shown[j].id => StoppedUnseen(shown[i])
      /\ begun \in SUBSET Markets
      /\ \A m \in begun : IsVisible(m)
      /\ filter = "any" /\ walk # "not begun" => \A m \in begun :
           \/ \E i \in 1..Len(shown) : shown[i].id = m
           \/ /\ walk = "walking"
              /\ BrowsePrecedes(shown[Len(shown)], BrowsePosition(m, shown[Len(shown)].as_of))
  BY <1>1 DEF BrowseInv
<1>4. /\ walk = "not begun" => cursor = None /\ Len(shown) = 0 /\ as_of = clock
      /\ walk = "walking" => /\ cursor # None /\ cursor[1] = shown[Len(shown)] /\ Len(shown) > 0
                             /\ as_of = shown[Len(shown)].as_of
  <2>1. walk = "not begun" => cursor = None /\ Len(shown) = 0
    BY EmptySeq DEF WalkInv
  <2>2. walk = "walking" => Len(shown) > 0 /\ cursor # None /\ cursor[1] = shown[Len(shown)]
    <3>1. walk = "walking" => Len(shown) > 0 /\ cursor = <<shown[Len(shown)]>>
      BY <1>3
    <3> QED BY <3>1, CursorNames
  <2> QED BY <1>0, <2>1, <2>2
<1>5. Len(shown) \in Nat /\ \A i \in 1..Len(shown) : shown[i] \in Position
  BY <1>3, ElementOfSeq, LenProperties
<1>6. as_of \in Nat /\ as_of <= clock /\ \A i \in 1..Len(shown) : shown[i].as_of = as_of
  <2>1. CASE walk = "not begun"
    <3>1. as_of = clock /\ Len(shown) = 0
      BY <1>4, <2>1
    <3>2. clock \in Nat /\ 1..0 = {}
      BY DEF MarketsInv
    <3> QED BY <3>1, <3>2
  <2>2. CASE walk = "walking"
    <3>1. Len(shown) \in 1..Len(shown) /\ 1 \in 1..Len(shown)
      BY <1>3, <1>5, <2>2
    <3>2. shown[Len(shown)] \in Position /\ StillThere(shown[Len(shown)])
      BY <1>3, <1>5, <3>1
    <3> QED BY <1>3, <1>4, <2>2, <3>1, <3>2 DEF Position, StillThere
  <2> QED BY <1>1, <2>1, <2>2
<1>7. \A p \in S : /\ p.id \in Markets /\ IsVisible(p.id) /\ p = BrowsePosition(p.id, as_of)
                   /\ p \in Position /\ p.as_of = as_of
                   /\ walk = "walking" => BrowsePrecedes(shown[Len(shown)], p)
  <2>1. \A p \in S : \E m \in Markets : IsVisible(m) /\ p = BrowsePosition(m, as_of) /\ (cursor = None \/ BrowsePrecedes(cursor[1], p))
    BY <1>0 DEF Browsed
  <2>2. ASSUME NEW m \in Markets
        PROVE  BrowsePosition(m, as_of).id = m /\ BrowsePosition(m, as_of).as_of = as_of /\ BrowsePosition(m, as_of) \in Position
    BY <1>6, PositionIs
  <2> QED BY <1>4, <2>1, <2>2
<1>8. \A m \in Markets : IsVisible(m) /\ filter = "any" /\ (walk = "walking" => BrowsePrecedes(shown[Len(shown)], BrowsePosition(m, as_of))) =>
         BrowsePosition(m, as_of) \in S
  BY <1>0, <1>1, <1>4 DEF Browsed, Matches
<1>9. Moment(S)
  <2>1. IsFiniteSet({BrowsePosition(m, as_of) : m \in Markets})
    <3> DEFINE f == [m \in Markets |-> BrowsePosition(m, as_of)]
    <3>1. IsFiniteSet({f[m] : m \in Markets})
      BY BrowseAssumption, ImageFinite
    <3>2. {f[m] : m \in Markets} = {BrowsePosition(m, as_of) : m \in Markets}
      OBVIOUS
    <3> QED BY <3>1, <3>2
  <2>2. S \in SUBSET {BrowsePosition(m, as_of) : m \in Markets}
    BY <1>7
  <2>3. IsFiniteSet(S)
    BY <2>1, <2>2, FS_Subset
  <2> QED BY <1>7, <2>3 DEF Moment
<1>10. Pages(page, S, BrowsedIn(S))
  BY <1>9, BrowseLists, CutPages, ReadersAssumption
<1> HIDE DEF S, page, there
<1>11. S \in SUBSET Position
  BY <1>7
<1>12. /\ shown' \in Seq(Position) /\ page.rows \in Seq(Position) /\ shown' = shown \o page.rows
       /\ Lengthens(page, S)
  BY <1>1, <1>3, <1>10, <1>11, PageShown
<1>13. \A x, y \in Position : <<x, y>> \in R <=> BrowsePrecedes(x, y)
  BY DEF BrowsedIn
<1>14. \A x, y, z \in Position : <<x, y>> \in R /\ <<y, z>> \in R => <<x, z>> \in R
  BY <1>13, BrowseGoesOn
<1>15. \A i \in 1..Len(page.rows) : page.rows[i] \in S
  BY <1>10, ElementOfSeq DEF Pages
<1>17. Goes(R, shown) /\ Goes(R, page.rows)
  <2>1. Goes(R, shown)
    BY <1>3, <1>5, <1>13 DEF Goes
  <2>2. \A i, j \in 1..Len(page.rows) : i < j => BrowsePrecedes(page.rows[i], page.rows[j])
    BY <1>10 DEF Pages, BrowsedIn
  <2> QED BY <1>11, <1>13, <1>15, <2>1, <2>2 DEF Goes
<1>18. \A i \in 1..Len(page.rows) : Len(shown) > 0 => <<shown[Len(shown)], page.rows[i]>> \in R
  <2> SUFFICES ASSUME NEW i \in 1..Len(page.rows), Len(shown) > 0 PROVE <<shown[Len(shown)], page.rows[i]>> \in R
    OBVIOUS
  <2>1. walk # "not begun"
    <3>1. walk = "not begun" => Len(shown) = 0
      BY <1>4
    <3>2. Len(shown) # 0
      BY <1>5
    <3> QED BY <3>1, <3>2
  <2>4. walk = "walking"
    BY <1>1, <2>1
  <2>2. Len(shown) \in 1..Len(shown)
    BY <1>5
  <2> QED BY <1>5, <1>7, <1>11, <1>13, <1>15, <2>2, <2>4
<1>19. Goes(R, shown') /\ \A i \in 1..Len(shown), j \in 1..Len(page.rows) : <<shown[i], page.rows[j]>> \in R
  BY <1>3, <1>12, <1>14, <1>17, <1>18, GoesOn
<1> HIDE DEF R
<1>20. Len(shown') \in Nat /\ \A i \in 1..Len(shown') : shown'[i] \in Position /\ shown'[i].as_of = as_of
  <2>1. \A i \in 1..Len(shown') : shown'[i] \in Position
    BY <1>12, ElementOfSeq DEF Lengthens
  <2>2. \A i \in 1..Len(shown') : shown'[i].as_of = as_of
    BY <1>6, <1>7, <1>12 DEF Lengthens
  <2> QED BY <1>12, <2>1, <2>2, LenProperties DEF Lengthens
<1>21. \A i, j \in 1..Len(shown') : i < j => BrowsePrecedes(shown'[i], shown'[j])
  BY <1>13, <1>19, <1>20 DEF Goes
<1>22. ASSUME NEW i \in 1..Len(shown') PROVE StillThere(shown'[i])
  <2>1. CASE i \in 1..Len(shown)
    BY <1>3, <1>12, <2>1 DEF Lengthens
  <2>2. CASE shown'[i] \in S
    <3> PICK p : p = shown'[i]
      OBVIOUS
    <3>1. p.id \in Markets /\ IsVisible(p.id) /\ p = BrowsePosition(p.id, as_of) /\ p.as_of = as_of
      BY <1>7, <2>2
    <3> QED BY <1>6, <3>1 DEF StillThere
  <2> QED BY <1>12, <2>1, <2>2 DEF Lengthens
<1>23. ASSUME NEW i \in 1..Len(shown'), NEW j \in 1..Len(shown'), i < j, shown'[i].id = shown'[j].id
       PROVE  StoppedUnseen(shown'[i])
  <2> PICK p, r : p = shown'[i] /\ r = shown'[j]
    OBVIOUS
  <2>1. p # r
    BY <1>20, <1>21, <1>23, BrowseApart
  <2>2. CASE j \in 1..Len(shown)
    <3>1. i \in 1..Len(shown)
      BY <1>5, <1>12, <1>23, <2>2 DEF Lengthens
    <3> QED BY <1>3, <1>12, <1>23, <2>2, <3>1 DEF Lengthens
  <2>3. CASE r \in S
    <3>1. r = BrowsePosition(p.id, as_of)
      BY <1>7, <1>23, <2>3
    <3>2. p # BrowsePosition(p.id, p.as_of)
      BY <1>20, <2>1, <3>1
    <3> QED BY <1>22, <3>2 DEF StillThere
  <2> QED BY <1>12, <2>2, <2>3 DEF Lengthens
<1>24. begun' \in SUBSET Markets /\ \A m \in begun' : IsVisible(m)
  BY <1>2, <1>3 DEF there
<1>25. ASSUME filter = "any", NEW m \in begun'
       PROVE  \/ \E i \in 1..Len(shown') : shown'[i].id = m
              \/ walk' = "walking" /\ BrowsePrecedes(shown'[Len(shown')], BrowsePosition(m, as_of))
  <2> PICK p : p = BrowsePosition(m, as_of)
    OBVIOUS
  <2>1. m \in Markets /\ IsVisible(m) /\ p.id = m /\ p \in Position
    BY <1>6, <1>24, PositionIs
  <2>2. CASE \E i \in 1..Len(shown) : shown[i].id = m
    BY <1>12, <2>2 DEF Lengthens
  <2>3. CASE p \in S
    <3>1. ASSUME NEW i \in 1..Len(page.rows), page.rows[i] = p PROVE \E k \in 1..Len(shown') : shown'[k].id = m
      <4>1. Len(shown) + i \in 1..Len(shown') /\ shown'[Len(shown) + i] = p
        BY <1>12, <3>1 DEF Lengthens
      <4> QED BY <2>1, <4>1
    <3>2. CASE page.next # None /\ <<page.rows[Len(page.rows)], p>> \in BrowsedIn(S)
      <4>1. BrowsePrecedes(page.rows[Len(page.rows)], p)
        BY <3>2 DEF BrowsedIn
      <4> QED BY <1>12, <3>2, <4>1 DEF Lengthens
    <3> QED BY <1>10, <2>3, <3>1, <3>2 DEF Pages
  <2>4. CASE walk = "not begun"
    BY <1>1, <1>8, <1>25, <2>1, <2>3, <2>4
  <2>5. CASE walk = "walking" /\ ~ \E i \in 1..Len(shown) : shown[i].id = m
    <3>1. m \in begun /\ BrowsePrecedes(shown[Len(shown)], p)
      BY <1>2, <1>3, <1>4, <1>25, <2>5
    <3> QED BY <1>8, <1>25, <2>1, <2>3, <3>1
  <2> QED BY <1>1, <2>2, <2>4, <2>5
<1>26. 1 \in 1..Len(shown') \/ Len(shown') = 0
  BY <1>20
<1>27. Len(shown') > 0 => Len(shown') \in 1..Len(shown')
  BY <1>20
<1>28. \A m \in Markets : IsVisible(m)' = IsVisible(m)
  BY <1>2 DEF IsVisible
<1>29. \A i \in 1..Len(shown') : StillThere(shown[i])'
  <2> SUFFICES ASSUME NEW i \in 1..Len(shown') PROVE StillThere(shown[i])'
    OBVIOUS
  <2>1. PICK p : p = shown'[i]
    OBVIOUS
  <2>2. StillThere(p)
    BY <1>22, <2>1
  <2>3. StillThere(p)'
    BY <1>2, <2>2, UnmovedStays
  <2> QED BY <2>1, <2>3 DEF StillThere, StoppedUnseen, IsVisible, BrowsePosition, WasOpenForTradingAt, SortKey, StoppedAt, IsPast
<1>30. \A i, j \in 1..Len(shown') : i < j /\ shown'[i].id = shown'[j].id => StoppedUnseen(shown[i])'
  BY <1>2, <1>23 DEF StoppedUnseen
<1>31. filter = "any" => \A m \in begun' :
           \/ \E i \in 1..Len(shown') : shown'[i].id = m
           \/ /\ walk' = "walking"
              /\ BrowsePrecedes(shown'[Len(shown')], BrowsePosition(m, shown[Len(shown)].as_of)')
  <2> SUFFICES ASSUME filter = "any", NEW m \in begun', walk' = "walking",
                      BrowsePrecedes(shown'[Len(shown')], BrowsePosition(m, as_of))
               PROVE  BrowsePrecedes(shown'[Len(shown')], BrowsePosition(m, shown[Len(shown)].as_of)')
    BY <1>25
  <2>1. shown'[Len(shown')].as_of = as_of
    BY <1>12, <1>20, <1>27 DEF Lengthens
  <2>2. BrowsePosition(m, shown[Len(shown)].as_of)' = BrowsePosition(m, as_of)
    BY <1>2, <2>1 DEF BrowsePosition, WasOpenForTradingAt, SortKey, StoppedAt, IsPast
  <2> QED BY <2>2
<1>32. \A m \in begun' : IsVisible(m)'
  BY <1>24, <1>28
<1>33. \A i \in 1..Len(shown') : shown'[i].as_of = shown'[1].as_of
  BY <1>20, <1>26
<1> HIDE DEF page, S
<1> QED BY <1>2, <1>12, <1>21, <1>24, <1>29, <1>30, <1>31, <1>32, <1>33 DEF BrowseInv, BrowsePrecedes, Lengthens

LEMMA StillThereStays ==
  ASSUME MarketsInv, MarketsNext, NEW p \in Position, StillThere(p)
  PROVE  /\ StillThere(p)'
         /\ StoppedUnseen(p) => StoppedUnseen(p)'
<1>1. p.id \in Markets /\ IsVisible(p.id) /\ p.as_of <= clock /\ p.as_of \in Nat /\ clock \in Nat
  BY DEF StillThere, Position, MarketsInv
<1>2. /\ IsVisible(p.id)' /\ clock <= clock'
      /\ \/ BrowsePosition(p.id, p.as_of)' = BrowsePosition(p.id, p.as_of)
         \/ market'[p.id].closedAt \in 1..p.as_of /\ market'[p.id].closedAt < BrowsePosition(p.id, p.as_of).sort_at
      /\ market[p.id].closedAt # Never => market'[p.id].closedAt = market[p.id].closedAt
  BY <1>1, PlacesGoLater
<1>3. StoppedUnseen(p) => StoppedUnseen(p)'
  BY <1>2 DEF StoppedUnseen, Never
<1>4. p.as_of <= clock'
  <2>1. clock' \in Nat
    BY MarketsMove DEF MarketsInv
  <2> QED BY <1>1, <1>2, <2>1
<1>5. BrowsePosition(p.id, p.as_of) = p => BrowsePosition(p.id, p.as_of)' = p \/ StoppedUnseen(p)'
  BY <1>2 DEF StoppedUnseen
<1> QED BY <1>1, <1>2, <1>3, <1>4, <1>5 DEF StillThere

\* Whatever becomes of a market, what was shown of it stays in order.
LEMMA BrowseKept ==
  ASSUME WalkInv, MarketsInv, BrowseInv, MarketsNext, UNCHANGED <<list, filter, reader>>
  PROVE  BrowseInv'
<1> SUFFICES ASSUME list = "browse" PROVE BrowseInv'
  BY DEF BrowseInv
<1>1. list' = list /\ filter' = filter /\ cursor' = cursor /\ shown' = shown /\ walk' = walk /\ begun' = begun
  BY DEF reader
<1>2. /\ walk # "refreshed" /\ shown \in Seq(Position)
      /\ walk = "walking" => Len(shown) > 0 /\ cursor = <<shown[Len(shown)]>>
      /\ \A i \in 1..Len(shown) : StillThere(shown[i]) /\ shown[i].as_of = shown[1].as_of
      /\ \A i, j \in 1..Len(shown) : i < j => BrowsePrecedes(shown[i], shown[j])
      /\ \A i, j \in 1..Len(shown) : i < j /\ shown[i].id = shown[j].id => StoppedUnseen(shown[i])
      /\ begun \in SUBSET Markets
      /\ \A m \in begun : IsVisible(m)
      /\ filter = "any" /\ walk # "not begun" => \A m \in begun :
           \/ \E i \in 1..Len(shown) : shown[i].id = m
           \/ /\ walk = "walking"
              /\ BrowsePrecedes(shown[Len(shown)], BrowsePosition(m, shown[Len(shown)].as_of))
  BY DEF BrowseInv
<1>3. Len(shown) \in Nat /\ \A i \in 1..Len(shown) : shown[i] \in Position
  BY <1>2, ElementOfSeq, LenProperties
<1>4. ASSUME NEW i \in 1..Len(shown)
      PROVE  StillThere(shown[i])' /\ (StoppedUnseen(shown[i]) => StoppedUnseen(shown[i])')
  <2> PICK p \in Position : p = shown[i]
    BY <1>3
  <2>1. StillThere(p)' /\ (StoppedUnseen(p) => StoppedUnseen(p)')
    BY <1>2, StillThereStays
  <2> QED BY <1>1, <2>1 DEF StillThere, StoppedUnseen, IsVisible, BrowsePosition, WasOpenForTradingAt, SortKey, StoppedAt, IsPast
<1>5. \A m \in begun : IsVisible(m)'
  BY <1>2, PlacesGoLater
<1>6. ASSUME filter = "any", walk # "not begun", NEW m \in begun, walk = "walking",
             BrowsePrecedes(shown[Len(shown)], BrowsePosition(m, shown[Len(shown)].as_of))
      PROVE  BrowsePrecedes(shown[Len(shown)], BrowsePosition(m, shown[Len(shown)].as_of)')
  <2>1. PICK p \in Position : p = shown[Len(shown)]
    <3>1. Len(shown) \in 1..Len(shown)
      BY <1>2, <1>3, <1>6
    <3> QED BY <1>3, <3>1
  <2>2. m \in Markets /\ IsVisible(m) /\ p.as_of \in Nat
    BY <1>2, <1>6, <2>1 DEF Position
  <2>3. PICK old, new : old = BrowsePosition(m, p.as_of) /\ new = BrowsePosition(m, p.as_of)'
    OBVIOUS
  <2>4. old = new \/ BrowsePrecedes(old, new)
    BY <2>2, <2>3, PlacesGoLater
  <2>5. old \in Position
    BY <2>2, <2>3, PositionIs
  <2>6. new \in Position
    <3>1. MarketsInv'
      BY MarketsMove
    <3>2. m \in Nat /\ market'[m].close \in Nat /\ market'[m].closedAt \in Nat
      BY <2>2, <3>1, BrowseAssumption DEF MarketsInv
    <3>3. SortKey(m, p.as_of)' \in Nat /\ WasOpenForTradingAt(m, p.as_of)' \in BOOLEAN
      BY <2>2, <3>2 DEF SortKey, StoppedAt, WasOpenForTradingAt, IsPast
    <3> QED BY <2>2, <2>3, <3>2, <3>3 DEF BrowsePosition, Position
  <2>7. BrowsePrecedes(p, new)
    BY <1>6, <2>1, <2>3, <2>4, <2>5, <2>6, BrowseGoesOn
  <2>8. BrowsePosition(m, shown[Len(shown)].as_of)' = new
    BY <1>1, <2>1, <2>3 DEF BrowsePosition, WasOpenForTradingAt, SortKey, StoppedAt, IsPast
  <2> QED BY <2>1, <2>7, <2>8
<1>7. \A i \in 1..Len(shown) : StillThere(shown[i])'
  BY <1>4
<1>8. \A i, j \in 1..Len(shown) : i < j /\ shown[i].id = shown[j].id => StoppedUnseen(shown[i])'
  BY <1>2, <1>4
<1>9. filter = "any" /\ walk # "not begun" => \A m \in begun :
         \/ \E i \in 1..Len(shown) : shown[i].id = m
         \/ /\ walk = "walking"
            /\ BrowsePrecedes(shown[Len(shown)], BrowsePosition(m, shown[Len(shown)].as_of)')
  BY <1>2, <1>6
<1> QED BY <1>1, <1>2, <1>5, <1>7, <1>8, <1>9 DEF BrowseInv

\* A page of the overview goes on where the last one ended.
LEMMA OverviewRead ==
  ASSUME WalkInv, MarketsInv, OverviewInv, NEW limit \in Limits, ReadOverview(limit)
  PROVE  OverviewInv'
<1> DEFINE S == Overviewed(cursor, filter)
           page == Cut(Fetched(InOrder(S, OverviewPrecedes), limit), limit)
           there == {OverviewPosition(m) : m \in {n \in Markets : IsVisible(n)}}
           R == OverviewedIn(Filed)
<1>1. list = "overview" /\ filter = "any" /\ ~IsOver /\ Show(page, there) /\ walk \in {"not begun", "walking"}
  BY DEF ReadOverview, MayRead, IsOver, WalkInv
<1>2. /\ UNCHANGED <<clock, market, closing, list, filter>>
      /\ begun' = IF walk = "not begun" THEN there ELSE begun
  BY <1>1 DEF Show, markets
<1>3. /\ shown \in Seq(Filed)
      /\ walk = "walking" => Len(shown) > 0 /\ cursor = <<shown[Len(shown)]>>
      /\ \A i, j \in 1..Len(shown) : i < j => OverviewPrecedes(shown[i], shown[j])
      /\ begun \in SUBSET Filed
      /\ \A p \in begun :
           /\ p.id \in Markets /\ IsVisible(p.id)
           /\ p.finished => IsFinished(p.id)
           /\ OverviewPosition(p.id) = p /\ walk # "not begun" =>
                /\ \A i \in 1..Len(shown) : shown[i].id = p.id => shown[i] = p
                /\ \/ \E i \in 1..Len(shown) : shown[i] = p
                   \/ walk = "walking" /\ OverviewPrecedes(shown[Len(shown)], p)
  BY <1>1 DEF OverviewInv
<1>4. /\ walk = "not begun" => cursor = None /\ Len(shown) = 0
      /\ walk = "walking" => cursor # None /\ cursor[1] = shown[Len(shown)] /\ Len(shown) > 0
  <2>1. walk = "not begun" => cursor = None /\ Len(shown) = 0
    BY EmptySeq DEF WalkInv
  <2>2. walk = "walking" => Len(shown) > 0 /\ cursor # None /\ cursor[1] = shown[Len(shown)]
    <3>1. walk = "walking" => Len(shown) > 0 /\ cursor = <<shown[Len(shown)]>>
      BY <1>3
    <3> QED BY <3>1, CursorNames
  <2> QED BY <2>1, <2>2
<1>5. Len(shown) \in Nat /\ \A i \in 1..Len(shown) : shown[i] \in Filed
  BY <1>3, ElementOfSeq, LenProperties
<1>6. \A m \in Markets : OverviewPosition(m).id = m /\ OverviewPosition(m) \in Filed
  <2>1. 0 \in Nat
    OBVIOUS
  <2> QED BY <2>1, PositionIs
<1>7. \A p \in S : /\ p.id \in Markets /\ p = OverviewPosition(p.id) /\ p \in Filed
                   /\ walk = "walking" => OverviewPrecedes(shown[Len(shown)], p)
  <2>1. \A p \in S : \E m \in Markets : p = OverviewPosition(m) /\ (cursor = None \/ OverviewPrecedes(cursor[1], p))
    BY DEF Overviewed
  <2> QED BY <1>4, <1>6, <2>1
<1>8. \A m \in Markets : (walk = "walking" => OverviewPrecedes(shown[Len(shown)], OverviewPosition(m))) =>
         OverviewPosition(m) \in S
  BY <1>1, <1>4 DEF Overviewed, Matches
<1>9. S \in SUBSET Filed /\ IsFiniteSet(S)
  <2> DEFINE f == [m \in Markets |-> OverviewPosition(m)]
  <2>1. IsFiniteSet({f[m] : m \in Markets})
    BY BrowseAssumption, ImageFinite
  <2>2. S \in SUBSET {f[m] : m \in Markets}
    BY <1>7
  <2> QED BY <1>7, <2>1, <2>2, FS_Subset
<1>10. Pages(page, S, OverviewedIn(S))
  BY <1>9, OverviewLists, CutPages, ReadersAssumption
<1> HIDE DEF S, page, there
<1>12. /\ shown' \in Seq(Filed) /\ page.rows \in Seq(Filed) /\ shown' = shown \o page.rows
       /\ Lengthens(page, S)
  BY <1>1, <1>3, <1>9, <1>10, PageShown
<1>13. \A x, y \in Filed : <<x, y>> \in R <=> OverviewPrecedes(x, y)
  BY DEF OverviewedIn
<1>14. \A x, y, z \in Filed : <<x, y>> \in R /\ <<y, z>> \in R => <<x, z>> \in R
  BY <1>13, OverviewGoesOn
<1>15. \A i \in 1..Len(page.rows) : page.rows[i] \in S
  BY <1>10, ElementOfSeq DEF Pages
<1>17. Goes(R, shown) /\ Goes(R, page.rows)
  <2>1. Goes(R, shown)
    BY <1>3, <1>5, <1>13 DEF Goes
  <2>2. \A i, j \in 1..Len(page.rows) : i < j => OverviewPrecedes(page.rows[i], page.rows[j])
    BY <1>10 DEF Pages, OverviewedIn
  <2> QED BY <1>9, <1>13, <1>15, <2>1, <2>2 DEF Goes
<1>18. \A i \in 1..Len(page.rows) : Len(shown) > 0 => <<shown[Len(shown)], page.rows[i]>> \in R
  <2> SUFFICES ASSUME NEW i \in 1..Len(page.rows), Len(shown) > 0 PROVE <<shown[Len(shown)], page.rows[i]>> \in R
    OBVIOUS
  <2>1. walk # "not begun"
    <3>1. walk = "not begun" => Len(shown) = 0
      BY <1>4
    <3>2. Len(shown) # 0
      BY <1>5
    <3> QED BY <3>1, <3>2
  <2>4. walk = "walking"
    BY <1>1, <2>1
  <2>2. Len(shown) \in 1..Len(shown)
    BY <1>5
  <2> QED BY <1>5, <1>7, <1>9, <1>13, <1>15, <2>2, <2>4
<1>19. Goes(R, shown')
  BY <1>3, <1>12, <1>14, <1>17, <1>18, GoesOn
<1> HIDE DEF R
<1>20. Len(shown') \in Nat /\ \A i \in 1..Len(shown') : shown'[i] \in Filed
  BY <1>12, ElementOfSeq, LenProperties
<1>21. \A i, j \in 1..Len(shown') : i < j => OverviewPrecedes(shown'[i], shown'[j])
  BY <1>13, <1>19, <1>20 DEF Goes
<1>22. begun' \in SUBSET Filed /\ \A p \in begun' : p.id \in Markets /\ IsVisible(p.id) /\ (p.finished => IsFinished(p.id))
  <2>1. \A p \in there : p \in Filed /\ p.id \in Markets /\ IsVisible(p.id) /\ (p.finished => IsFinished(p.id))
    BY <1>6 DEF there, OverviewPosition
  <2> QED BY <1>2, <1>3, <2>1
<1>23. ASSUME NEW p \in begun', OverviewPosition(p.id) = p
       PROVE  /\ \A i \in 1..Len(shown') : shown'[i].id = p.id => shown'[i] = p
              /\ \/ \E i \in 1..Len(shown') : shown'[i] = p
                 \/ walk' = "walking" /\ OverviewPrecedes(shown'[Len(shown')], p)
  <2>1. p.id \in Markets
    BY <1>22, <1>23
  <2>2. \A r \in S : r.id = p.id => r = p
    BY <1>7, <1>23
  <2>3. walk = "walking" => /\ \A i \in 1..Len(shown) : shown[i].id = p.id => shown[i] = p
                            /\ (\E i \in 1..Len(shown) : shown[i] = p) \/ OverviewPrecedes(shown[Len(shown)], p)
    BY <1>2, <1>3, <1>23
  <2>4. \A i \in 1..Len(shown) : shown[i].id = p.id => shown[i] = p
    <3>1. CASE walk = "walking"
      BY <2>3, <3>1
    <3>2. CASE walk = "not begun"
      <4>1. Len(shown) = 0
        BY <1>4, <3>2
      <4>2. \A i \in 1..0 : FALSE
        OBVIOUS
      <4> QED BY <4>1, <4>2
    <3> QED BY <1>1, <3>1, <3>2
  <2>5. \A i \in 1..Len(shown') : shown'[i].id = p.id => shown'[i] = p
    BY <1>12, <2>2, <2>4 DEF Lengthens
  <2>6. ASSUME p \in S
        PROVE  (\E i \in 1..Len(shown') : shown'[i] = p) \/ (walk' = "walking" /\ OverviewPrecedes(shown'[Len(shown')], p))
    <3>1. ASSUME NEW i \in 1..Len(page.rows), page.rows[i] = p PROVE \E k \in 1..Len(shown') : shown'[k] = p
      <4>1. Len(shown) + i \in 1..Len(shown') /\ shown'[Len(shown) + i] = p
        BY <1>12, <3>1 DEF Lengthens
      <4> QED BY <4>1
    <3>2. CASE page.next # None /\ <<page.rows[Len(page.rows)], p>> \in OverviewedIn(S)
      <4>1. OverviewPrecedes(page.rows[Len(page.rows)], p)
        BY <3>2 DEF OverviewedIn
      <4> QED BY <1>12, <3>2, <4>1 DEF Lengthens
    <3> QED BY <1>10, <2>6, <3>1, <3>2 DEF Pages
  <2>7. CASE walk = "not begun"
    <3>1. p \in S
      BY <1>8, <1>23, <2>1, <2>7
    <3> QED BY <2>5, <2>6, <3>1
  <2>8. CASE walk = "walking" /\ \E i \in 1..Len(shown) : shown[i] = p
    <3>1. PICK i \in 1..Len(shown) : shown[i] = p
      BY <2>8
    <3>2. i \in 1..Len(shown') /\ shown'[i] = p
      BY <1>12, <3>1 DEF Lengthens
    <3> QED BY <2>5, <3>2
  <2>9. CASE walk = "walking" /\ ~ \E i \in 1..Len(shown) : shown[i] = p
    <3>1. OverviewPrecedes(shown[Len(shown)], p)
      BY <2>3, <2>9
    <3>2. p \in S
      BY <1>8, <1>23, <2>1, <3>1
    <3> QED BY <2>5, <2>6, <3>2
  <2> QED BY <1>1, <2>7, <2>8, <2>9
<1>24. \A m \in Markets : IsVisible(m)' = IsVisible(m) /\ IsFinished(m)' = IsFinished(m) /\ OverviewPosition(m)' = OverviewPosition(m)
  BY <1>2 DEF IsVisible, IsFinished, OverviewPosition
<1>25. walk' # "refreshed" /\ (walk' = "walking" => Len(shown') > 0 /\ cursor' = <<shown'[Len(shown')]>>)
  BY <1>12 DEF Lengthens
<1>26. \A p \in begun' :
         /\ p.id \in Markets /\ IsVisible(p.id)'
         /\ p.finished => IsFinished(p.id)'
         /\ OverviewPosition(p.id)' = p /\ walk' # "not begun" =>
              /\ \A i \in 1..Len(shown') : shown'[i].id = p.id => shown'[i] = p
              /\ \/ \E i \in 1..Len(shown') : shown'[i] = p
                 \/ walk' = "walking" /\ OverviewPrecedes(shown'[Len(shown')], p)
  BY <1>22, <1>23, <1>24
<1> QED BY <1>12, <1>21, <1>22, <1>25, <1>26 DEF OverviewInv, OverviewPrecedes

\* A market that finishes leaves its place in the overview for good.
LEMMA OverviewKept ==
  ASSUME MarketsInv, OverviewInv, MarketsNext, UNCHANGED <<list, filter, reader>>
  PROVE  OverviewInv'
<1> SUFFICES ASSUME list = "overview" PROVE OverviewInv'
  BY DEF OverviewInv
<1>1. list' = list /\ filter' = filter /\ cursor' = cursor /\ shown' = shown /\ walk' = walk /\ begun' = begun
  BY DEF reader
<1>2. \A m \in Markets : Moved(market[m], market'[m])
  BY MarketsMove
<1>3. ASSUME NEW p \in begun
      PROVE  /\ p.id \in Markets /\ IsVisible(p.id)' /\ (p.finished => IsFinished(p.id)')
             /\ OverviewPosition(p.id)' = p => OverviewPosition(p.id) = p
  <2>1. p \in Filed /\ p.id \in Markets /\ IsVisible(p.id) /\ (p.finished => IsFinished(p.id))
    BY DEF OverviewInv
  <2>2. IsVisible(p.id)' /\ (IsFinished(p.id) => IsFinished(p.id)') /\ market'[p.id].close = market[p.id].close
    BY <1>2, <2>1 DEF Moved, IsVisible, IsFinished
  <2>3. ASSUME OverviewPosition(p.id)' = p PROVE OverviewPosition(p.id) = p
    <3>1. p.finished = IsFinished(p.id)' /\ p.close = market'[p.id].close /\ p.id = p.id
      BY <2>3 DEF OverviewPosition
    <3>2. IsFinished(p.id) = p.finished
      BY <2>1, <2>2, <3>1 DEF IsFinished, Filed
    <3> QED BY <2>1, <2>2, <3>1, <3>2 DEF OverviewPosition, Filed
  <2> QED BY <2>1, <2>2, <2>3
<1>4. \A p \in begun :
        /\ p.id \in Markets /\ IsVisible(p.id)'
        /\ p.finished => IsFinished(p.id)'
        /\ OverviewPosition(p.id)' = p /\ walk # "not begun" =>
             /\ \A i \in 1..Len(shown) : shown[i].id = p.id => shown[i] = p
             /\ \/ \E i \in 1..Len(shown) : shown[i] = p
                \/ walk = "walking" /\ OverviewPrecedes(shown[Len(shown)], p)
  BY <1>3 DEF OverviewInv
<1>5. /\ walk # "refreshed"
      /\ shown \in Seq(Filed)
      /\ walk = "walking" => Len(shown) > 0 /\ cursor = <<shown[Len(shown)]>>
      /\ \A i, j \in 1..Len(shown) : i < j => OverviewPrecedes(shown[i], shown[j])
      /\ begun \in SUBSET Filed
  BY DEF OverviewInv
<1> QED BY <1>1, <1>4, <1>5 DEF OverviewInv

LEMMA BrowseStart ==
  ASSUME Init
  PROVE  MarketsInv /\ BrowseInv /\ OverviewInv
<1>1. shown = <<>> /\ Len(shown) = 0 /\ walk = "not begun" /\ begun = {}
  BY DEF Init
<1>2. \A i \in 1..0 : FALSE
  OBVIOUS
<1>3. MarketsInv
  BY MarketsStart DEF Init
<1>6. shown \in Seq(Position) /\ shown \in Seq(Filed)
  BY <1>1, EmptySeq
<1>7. (\A i \in 1..Len(shown) : FALSE) /\ walk # "refreshed" /\ walk # "walking"
  BY <1>1, <1>2
<1>4. BrowseInv
  BY <1>1, <1>6, <1>7 DEF BrowseInv
<1>5. OverviewInv
  BY <1>1, <1>6, <1>7 DEF OverviewInv
<1> QED BY <1>3, <1>4, <1>5

LEMMA BrowseStep ==
  ASSUME WalkInv, MarketsInv, BrowseInv, OverviewInv, [Next]_vars
  PROVE  MarketsInv' /\ BrowseInv' /\ OverviewInv'
<1>1. list' = list
  BY WalkMoves
<1>2. list # "browse" => BrowseInv'
  BY <1>1 DEF BrowseInv
<1>3. list # "overview" => OverviewInv'
  BY <1>1 DEF OverviewInv
<1>4. UNCHANGED markets => MarketsInv'
  BY DEF markets, MarketsInv, MarketSound, IsVisible
<1>5. CASE UNCHANGED vars
  <2>1. UNCHANGED <<clock, market, closing, list, filter, cursor, shown, walk, begun>>
    BY <1>5 DEF vars, markets, reader
  <2>2. BrowseInv'
    <3> SUFFICES ASSUME list = "browse" PROVE BrowseInv'
      BY <1>2
    <3>1. shown' = shown /\ market' = market /\ clock' = clock
      BY <2>1
    <3>2. \A i \in 1..Len(shown) : StillThere(shown[i]) => StillThere(shown[i])'
      BY <3>1 DEF StillThere, StoppedUnseen, IsVisible, BrowsePosition, WasOpenForTradingAt, SortKey, StoppedAt, IsPast
    <3>3. \A i \in 1..Len(shown) : StoppedUnseen(shown[i]) => StoppedUnseen(shown[i])'
      BY <3>1 DEF StoppedUnseen
    <3>4. \A m \in Markets : IsVisible(m)' = IsVisible(m)
      BY <3>1 DEF IsVisible
    <3>5. \A m \in Markets : BrowsePosition(m, shown[Len(shown)].as_of)' = BrowsePosition(m, shown[Len(shown)].as_of)
      BY <3>1 DEF BrowsePosition, WasOpenForTradingAt, SortKey, StoppedAt, IsPast
    <3> QED BY <2>1, <3>2, <3>3, <3>4, <3>5 DEF BrowseInv
  <2>3. OverviewInv'
    BY <2>1 DEF OverviewInv, IsVisible, IsFinished, OverviewPosition
  <2> QED BY <1>4, <2>1, <2>2, <2>3 DEF markets
<1>6. CASE Read
  <2>1. UNCHANGED markets
    BY <1>6 DEF Read, ReadHistory, ReadTrades, ReadActions, ReadBoard, ReadBrowse, ReadOverview, Show
  <2>2. list = "browse" => BrowseInv'
    BY <1>6, BrowseRead DEF Read, ReadHistory, ReadTrades, ReadActions, ReadBoard, ReadOverview, MayRead
  <2>3. list = "overview" => OverviewInv'
    BY <1>6, OverviewRead DEF Read, ReadHistory, ReadTrades, ReadActions, ReadBoard, ReadBrowse, MayRead
  <2> QED BY <1>2, <1>3, <1>4, <2>1, <2>2, <2>3
<1>7. CASE WriteMarkets /\ UNCHANGED <<list, filter, reader>>
  BY <1>7, BrowseKept, OverviewKept, MarketsMove DEF WriteMarkets
<1>8. CASE WriteAccount \/ WriteLog \/ WriteBoard
  BY <1>2, <1>3, <1>4, <1>8 DEF WriteAccount, WriteLog, WriteBoard
<1> QED BY <1>5, <1>6, <1>7, <1>8 DEF Next

\* What a walk of the browse or the overview has shown.
LEMMA BrowseTold ==
  ASSUME WalkInv, MarketsInv, BrowseInv, OverviewInv
  PROVE  BrowseWhole
<1>1. ASSUME list = "browse"
      PROVE  /\ \A i, j \in Places : i < j /\ shown[i].id = shown[j].id => StoppedUnseen(shown[i])
             /\ walk = "whole" /\ filter = "any" => \A m \in begun : \E i \in Places : shown[i].id = m
  <2>1. Places = 1..Len(shown)
    <3>1. shown \in Seq(Position)
      BY <1>1 DEF BrowseInv
    <3> QED BY <3>1 DEF Places
  <2> QED BY <1>1, <2>1 DEF BrowseInv
<1>2. ASSUME list = "overview", walk = "whole", NEW p \in begun, OverviewPosition(p.id) = p
      PROVE  Cardinality({i \in Places : shown[i].id = p.id}) = 1
  <2>1. Places = 1..Len(shown) /\ shown \in Seq(Filed)
    BY <1>2 DEF OverviewInv, Places
  <2>2. (\A i \in Places : shown[i].id = p.id => shown[i] = p) /\ \E i \in Places : shown[i] = p
    BY <1>2, <2>1 DEF OverviewInv
  <2>3. PICK i \in Places : shown[i] = p
    BY <2>2
  <2>4. p \in Filed /\ ~ OverviewPrecedes(p, p)
    BY <2>1, <2>3, ElementOfSeq, OverviewApart
  <2>5. ASSUME NEW j \in Places, shown[j].id = p.id PROVE j = i
    <3>1. shown[j] = p /\ ~ (i < j) /\ ~ (j < i)
      BY <1>2, <2>1, <2>2, <2>3, <2>4, <2>5 DEF OverviewInv
    <3> QED BY <2>1, <3>1
  <2>6. {j \in Places : shown[j].id = p.id} = {i}
    BY <2>3, <2>5
  <2> QED BY <2>6, FS_Singleton
<1> QED BY <1>1, <1>2 DEF BrowseWhole

----------------------------------------------------------------------------
(* The walks *)

\* All that the three walks stand on.
ReadersInv ==
  /\ WalkInv
  /\ FeedsInv /\ FeedInv
  /\ BoardSound /\ BoardInv
  /\ MarketsInv /\ BrowseInv /\ OverviewInv

LEMMA ReadersStart ==
  ASSUME Init
  PROVE  ReadersInv
<1>1. WalkInv
  BY DEF Init, WalkInv
<1>2. BoardInv
  BY DEF Init, BoardInv
<1>3. BoardSound
  BY BoardStart DEF Init
<1> QED BY <1>1, <1>2, <1>3, FeedStart, BrowseStart DEF ReadersInv

LEMMA ReadersStep ==
  ASSUME ReadersInv, [Next]_vars
  PROVE  ReadersInv'
<1>1. /\ WalkInv /\ FeedsInv /\ FeedInv /\ BoardSound /\ BoardInv
      /\ MarketsInv /\ BrowseInv /\ OverviewInv
  BY DEF ReadersInv
<1>2. WalkInv'
  BY <1>1, WalkMoves
<1>3. FeedsInv' /\ FeedInv'
  BY <1>1, FeedStep
<1>4. BoardSound' /\ BoardInv'
  BY <1>1, BoardStep
<1>5. MarketsInv' /\ BrowseInv' /\ OverviewInv'
  BY <1>1, BrowseStep
<1> QED BY <1>2, <1>3, <1>4, <1>5 DEF ReadersInv

\* Whatever is read and whatever is written between the pages, what a walk has
\* shown, what it began with and where it goes on stay in step with what is
\* stored (the cursors of shared/paging.py and of each service's core/paging.py).
THEOREM ReadersStayInStep == Spec => []ReadersInv
<1>1. Init => ReadersInv
  BY ReadersStart
<1>2. ReadersInv /\ [Next]_vars => ReadersInv'
  BY ReadersStep
<1> QED BY <1>1, <1>2, PTL DEF Spec

\* A walk of an account's history, a market's trades or the audit log shows each
\* row that was there at its start once, newest first, and a history has beside
\* each entry what the account held with it (_page_query, list_market_trades,
\* list_actions), however much is appended meanwhile and however times tie.
THEOREM HistoriesStayWhole == Spec => []HistoryWhole
<1>1. ReadersInv => HistoryWhole
  BY FeedTold DEF ReadersInv
<1> QED BY <1>1, ReadersStayInStep, PTL

\* A leaderboard read to its end is one generation's ranking, whole, whatever
\* refreshes publish and discard under the reader (list_page).
THEOREM RankingsStayWhole == Spec => []RankingWhole
<1>1. ReadersInv => RankingWhole
  BY BoardTold DEF ReadersInv
<1> QED BY <1>1, ReadersStayInStep, PTL

\* No walk of the browse repeats a market, or misses one that was public when it
\* began, and an overview has each market it began with that did not finish
\* meanwhile (browse, overview), but for a close stamped before the walk's
\* moment and committed after.
THEOREM BrowsingStaysWhole == Spec => []BrowseWhole
<1>1. ReadersInv => BrowseWhole
  BY BrowseTold DEF ReadersInv
<1> QED BY <1>1, ReadersStayInStep, PTL

=============================================================================
