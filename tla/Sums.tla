--------------------------------- MODULE Sums --------------------------------
(***************************************************************************)
(* Facts the proofs of several components rest on: the least and the greatest *)
(* of a set of numbers, the smallest of the sets that have a property, what   *)
(* division and steps between numbers tell, and sums over finite sets         *)
(* (SumFunctionOnSet of the Functions module).                                *)
(*                                                                          *)
(* The sum is a recursive function on the subsets of its domain.  That there  *)
(* is one such function, and only one, is shown by its smallest               *)
(* counterexample; so is everything here that would be an induction.          *)
(***************************************************************************)
EXTENDS Functions, FiniteSets, FiniteSetTheorems, WellFoundedInduction, TLAPS

----------------------------------------------------------------------------
(* The least, the greatest, the smallest *)

LEMMA Least ==
  ASSUME NEW T \in SUBSET Nat, T # {}
  PROVE  \E x \in T : \A y \in T : x <= y
<1> DEFINE R == OpToRel(<, Nat)
<1>1. IsWellFoundedOn(R, Nat)
  BY NatLessThanWellFounded DEF R
<1> HIDE DEF R
<1>2. PICK x \in T : \A y \in T : ~ (<<y, x>> \in R)
  BY <1>1, WFMin, Zenon
<1>3. \A y \in T : ~ (y < x)
  BY <1>2 DEF R, OpToRel
<1> QED BY <1>3

\* What holds of zero, and passes from each number below a bound to the next,
\* holds up to the bound.
LEMMA Climbs ==
  ASSUME NEW top \in Nat, NEW T, 0 \in T, \A n \in T : n < top => n + 1 \in T
  PROVE  \A n \in 0..top : n \in T
<1> DEFINE Bad == {n \in 0..top : n \notin T}
<1> SUFFICES ASSUME Bad # {} PROVE FALSE
  OBVIOUS
<1>1. PICK k \in Bad : \A j \in Bad : k <= j
  <2>1. Bad \in SUBSET Nat
    OBVIOUS
  <2> HIDE DEF Bad
  <2> QED BY <2>1, Least
<1>2. k \in Nat /\ k # 0 /\ k <= top /\ k \notin T
  OBVIOUS
<1>3. k - 1 \in 0..top /\ k - 1 < top /\ (k - 1) + 1 = k /\ ~ (k <= k - 1)
  BY <1>2
<1>4. k - 1 \in T
  BY <1>1, <1>3
<1> QED BY <1>2, <1>3, <1>4

LEMMA Greatest ==
  ASSUME NEW top \in Nat, NEW T \in SUBSET (0 .. top), T # {}
  PROVE  \E x \in T : \A y \in T : y <= x
<1> DEFINE D == {top - y : y \in T}
<1>1. \A y \in T : top - y \in Nat
  OBVIOUS
<1>5. D \in SUBSET Nat /\ D # {}
  BY <1>1
<1>2. PICK d \in D : \A e \in D : d <= e
  <2> HIDE DEF D
  <2> QED BY <1>5, Least
<1>3. PICK x \in T : d = top - x
  OBVIOUS
<1>4. ASSUME NEW y \in T PROVE y <= x
  <2>1. top - y \in D
    OBVIOUS
  <2>2. top - x <= top - y
    BY <1>2, <1>3, <2>1
  <2> QED BY <2>2
<1> QED BY <1>3, <1>4

\* Among the subsets of a finite set that have a property there is one no
\* proper subset of which has it.
LEMMA Smallest ==
  ASSUME NEW S, IsFiniteSet(S), NEW P \in SUBSET (SUBSET S), P # {}
  PROVE  \E s \in P : \A t \in SUBSET s : t # s => t \notin P
<1> DEFINE C == {Cardinality(s) : s \in P}
<1>1. \A s \in P : IsFiniteSet(s) /\ Cardinality(s) \in Nat
  BY FS_Subset, FS_CardinalityType
<1>2. C \in SUBSET Nat /\ C # {}
  BY <1>1
<1>3. PICK c \in C : \A d \in C : c <= d
  <2> HIDE DEF C
  <2> QED BY <1>2, Least
<1>4. PICK s \in P : c = Cardinality(s)
  OBVIOUS
<1>5. ASSUME NEW t \in SUBSET s, t # s, t \in P PROVE FALSE
  <2>1. Cardinality(t) < Cardinality(s)
    BY <1>1, <1>5, FS_Subset
  <2>2. Cardinality(s) <= Cardinality(t)
    BY <1>3, <1>4, <1>5
  <2> QED BY <1>1, <1>5, <2>1, <2>2
<1> QED BY <1>4, <1>5

----------------------------------------------------------------------------
(* The function a sum is a value of *)

\* A choice that does not look at what is summed.
Pick(s) == CHOOSE x \in s : TRUE

Partial(F, g, s) == IF s = {} THEN 0 ELSE F[Pick(s)] + g[s \ {Pick(s)}]

\* g sums F over every set of D.
Adds(F, g, D) == g = [s \in D |-> Partial(F, g, s)]

LEMMA PicksOne ==
  ASSUME NEW S, IsFiniteSet(S), S # {}
  PROVE  /\ Pick(S) \in S /\ S \ {Pick(S)} \in SUBSET S /\ S \ {Pick(S)} # S
         /\ IsFiniteSet(S \ {Pick(S)}) /\ Cardinality(S \ {Pick(S)}) = Cardinality(S) - 1
<1>1. Pick(S) \in S
  BY DEF Pick
<1> HIDE DEF Pick
<1> QED BY <1>1, FS_RemoveElement

LEMMA AddsExists ==
  ASSUME NEW S, IsFiniteSet(S), NEW F
  PROVE  \E g : Adds(F, g, SUBSET S)
<1> DEFINE Upto(n) == {s \in SUBSET S : Cardinality(s) <= n}
           Bad == {n \in Nat : ~ \E g : Adds(F, g, Upto(n))}
<1>1. \A s \in SUBSET S : IsFiniteSet(s) /\ Cardinality(s) \in Nat /\ Cardinality(s) <= Cardinality(S)
  BY FS_Subset, FS_CardinalityType
<1>2. Cardinality(S) \in Nat /\ Upto(Cardinality(S)) = SUBSET S
  BY <1>1, FS_CardinalityType
<1>3. SUFFICES ASSUME Bad # {} PROVE FALSE
  BY <1>2
<1>4. PICK n \in Bad : \A m \in Bad : n <= m
  <2>1. Bad \in SUBSET Nat
    OBVIOUS
  <2> HIDE DEF Bad
  <2> QED BY <1>3, <2>1, Least
<1>5. CASE n = 0
  <2> DEFINE g == [s \in Upto(0) |-> 0]
  <2>1. \A s \in Upto(0) : s = {}
    BY <1>1, FS_EmptySet
  <2>2. Adds(F, g, Upto(0))
    BY <2>1 DEF Adds, Partial
  <2> QED BY <1>4, <1>5, <2>2
<1>6. CASE n # 0
  <2>1. n \in Nat /\ n - 1 \in Nat /\ n - 1 \notin Bad
    <3>1. n \in Nat /\ n - 1 \in Nat /\ ~ (n <= n - 1)
      BY <1>6
    <3> HIDE DEF Bad
    <3> QED BY <1>4, <3>1
  <2>2. PICK f : Adds(F, f, Upto(n - 1))
    BY <2>1
  <2> DEFINE g == [s \in Upto(n) |-> IF s \in Upto(n - 1) THEN f[s] ELSE Partial(F, f, s)]
  <2>3. \A s \in Upto(n - 1) : s \in Upto(n) /\ f[s] = Partial(F, f, s)
    BY <1>1, <2>1, <2>2 DEF Adds
  <2>4. ASSUME NEW s \in Upto(n), s # {}
        PROVE  s \ {Pick(s)} \in Upto(n - 1)
    BY <1>1, <2>1, <2>4, PicksOne
  <2>5. \A s \in Upto(n) : Partial(F, g, s) = Partial(F, f, s)
    BY <2>3, <2>4 DEF Partial
  <2>6. \A s \in Upto(n) : g[s] = Partial(F, g, s)
    BY <2>3, <2>5
  <2>7. Adds(F, g, Upto(n))
    BY <2>6 DEF Adds
  <2> QED BY <1>4, <2>7
<1> QED BY <1>5, <1>6

LEMMA AddsAgree ==
  ASSUME NEW S, IsFiniteSet(S), NEW T \in SUBSET S, NEW F, NEW f, NEW g,
         Adds(F, f, SUBSET S), Adds(F, g, SUBSET T)
  PROVE  \A s \in SUBSET T : f[s] = g[s]
<1> DEFINE Bad == {s \in SUBSET T : f[s] # g[s]}
<1> SUFFICES ASSUME Bad # {} PROVE FALSE
  OBVIOUS
<1>1. IsFiniteSet(T) /\ Bad \in SUBSET (SUBSET T)
  BY FS_Subset
<1>2. PICK s \in Bad : \A t \in SUBSET s : t # s => t \notin Bad
  <2> HIDE DEF Bad
  <2> QED BY <1>1, Smallest
<1>3. f[s] = Partial(F, f, s) /\ g[s] = Partial(F, g, s)
  BY DEF Adds
<1>4. s # {} => f[s \ {Pick(s)}] = g[s \ {Pick(s)}]
  <2>1. s # {} => s \ {Pick(s)} # s
    BY DEF Pick
  <2> QED BY <1>2, <2>1
<1> QED BY <1>3, <1>4 DEF Partial

----------------------------------------------------------------------------
(* What a sum is *)

Graphs(F, g, S) == Adds(F, g, SUBSET S) /\ \A s \in SUBSET S : SumFunctionOnSet(F, s) = g[s]

LEMMA GraphExists ==
  ASSUME NEW S, IsFiniteSet(S), NEW F
  PROVE  \E g : Graphs(F, g, S)
<1> DEFINE G(s) == CHOOSE g : Adds(F, g, SUBSET s)
<1>1. ASSUME NEW s PROVE SumFunctionOnSet(F, s) = G(s)[s]
  BY DEF SumFunctionOnSet, FoldFunctionOnSet, MapThenFoldSet, Adds, Partial, Pick
<1>2. \A s \in SUBSET S : IsFiniteSet(s) /\ Adds(F, G(s), SUBSET s)
  BY AddsExists, FS_Subset
<1> HIDE DEF G
<1>3. Adds(F, G(S), SUBSET S)
  BY <1>2
<1>4. ASSUME NEW s \in SUBSET S PROVE SumFunctionOnSet(F, s) = G(S)[s]
  <2>1. IsFiniteSet(s) /\ Adds(F, G(s), SUBSET s)
    BY <1>2
  <2>2. \A t \in SUBSET s : G(S)[t] = G(s)[t]
    BY <1>3, <2>1, AddsAgree
  <2> QED BY <1>1, <2>2
<1>5. Graphs(F, G(S), S)
  BY <1>3, <1>4 DEF Graphs
<1> QED BY <1>5

\* A sum is nothing over the empty set, and one element's share more otherwise.
LEMMA SumUnfolds ==
  ASSUME NEW S, IsFiniteSet(S), NEW F
  PROVE  /\ SumFunctionOnSet(F, {}) = 0
         /\ S # {} => SumFunctionOnSet(F, S) = F[Pick(S)] + SumFunctionOnSet(F, S \ {Pick(S)})
<1>1. PICK g : Graphs(F, g, S)
  BY GraphExists
<1>2. \A s \in SUBSET S : g[s] = Partial(F, g, s) /\ SumFunctionOnSet(F, s) = g[s]
  BY <1>1 DEF Adds, Graphs
<1>3. SumFunctionOnSet(F, {}) = 0
  BY <1>1, <1>2 DEF Partial
<1>4. S # {} => SumFunctionOnSet(F, S) = F[Pick(S)] + SumFunctionOnSet(F, S \ {Pick(S)})
  BY <1>1, <1>2 DEF Partial
<1> QED BY <1>3, <1>4

LEMMA SumEmpty ==
  ASSUME NEW F
  PROVE  SumFunctionOnSet(F, {}) = 0
BY FS_EmptySet, SumUnfolds

LEMMA SumInt ==
  ASSUME NEW S, IsFiniteSet(S), NEW F, \A x \in S : F[x] \in Int
  PROVE  \A s \in SUBSET S : SumFunctionOnSet(F, s) \in Int
<1> DEFINE Bad == {s \in SUBSET S : SumFunctionOnSet(F, s) \notin Int}
<1> SUFFICES ASSUME Bad # {} PROVE FALSE
  OBVIOUS
<1>1. PICK s \in Bad : \A t \in SUBSET s : t # s => t \notin Bad
  <2>1. Bad \in SUBSET (SUBSET S)
    OBVIOUS
  <2> HIDE DEF Bad
  <2> QED BY <2>1, Smallest
<1>2. IsFiniteSet(s) /\ s \in SUBSET S
  BY FS_Subset
<1>3. s # {}
  BY SumEmpty
<1>4. Pick(s) \in s /\ SumFunctionOnSet(F, s \ {Pick(s)}) \in Int
  BY <1>1, <1>2, <1>3, PicksOne
<1>5. SumFunctionOnSet(F, s) = F[Pick(s)] + SumFunctionOnSet(F, s \ {Pick(s)})
  BY <1>2, <1>3, SumUnfolds
<1> QED BY <1>2, <1>4, <1>5

\* Whichever element is taken out, the sum is its share and the rest's.
LEMMA SumRemove ==
  ASSUME NEW S, IsFiniteSet(S), NEW F, \A x \in S : F[x] \in Int, NEW a \in S
  PROVE  SumFunctionOnSet(F, S) = F[a] + SumFunctionOnSet(F, S \ {a})
<1> DEFINE Out(s, x) == SumFunctionOnSet(F, s) = F[x] + SumFunctionOnSet(F, s \ {x})
           Bad == {s \in SUBSET S : \E x \in s : ~ Out(s, x)}
<1> SUFFICES ASSUME Bad # {} PROVE FALSE
  OBVIOUS
<1>1. PICK s \in Bad : \A t \in SUBSET s : t # s => t \notin Bad
  <2>1. Bad \in SUBSET (SUBSET S)
    OBVIOUS
  <2> HIDE DEF Bad
  <2> QED BY <2>1, Smallest
<1>2. PICK x \in s : ~ Out(s, x)
  OBVIOUS
<1> DEFINE c == Pick(s)  r == s \ {c}  q == s \ {x}  p == s \ {c, x}
<1>3. IsFiniteSet(s) /\ s \in SUBSET S /\ c \in s
  BY FS_Subset, PicksOne
<1>4. Out(s, c) /\ x # c
  BY <1>2, <1>3, SumUnfolds
<1>5. x \in r /\ c \in q /\ r \ {x} = p /\ q \ {c} = p /\ r # s /\ q # s
  BY <1>3, <1>4
<1> HIDE DEF c
<1>6. Out(r, x) /\ Out(q, c)
  BY <1>1, <1>3, <1>5
<1>7. /\ SumFunctionOnSet(F, r) = F[x] + SumFunctionOnSet(F, p)
      /\ SumFunctionOnSet(F, q) = F[c] + SumFunctionOnSet(F, p)
  BY <1>5, <1>6
<1>8. SumFunctionOnSet(F, p) \in Int /\ F[x] \in Int /\ F[c] \in Int
  BY <1>3, SumInt
<1> QED BY <1>2, <1>4, <1>7, <1>8

LEMMA SumNat ==
  ASSUME NEW S, IsFiniteSet(S), NEW F, \A x \in S : F[x] \in Nat
  PROVE  \A s \in SUBSET S : SumFunctionOnSet(F, s) \in Nat
<1> DEFINE Bad == {s \in SUBSET S : SumFunctionOnSet(F, s) \notin Nat}
<1> SUFFICES ASSUME Bad # {} PROVE FALSE
  OBVIOUS
<1>1. PICK s \in Bad : \A t \in SUBSET s : t # s => t \notin Bad
  <2>1. Bad \in SUBSET (SUBSET S)
    OBVIOUS
  <2> HIDE DEF Bad
  <2> QED BY <2>1, Smallest
<1>2. IsFiniteSet(s) /\ s \in SUBSET S
  BY FS_Subset
<1>3. s # {}
  BY SumEmpty
<1>4. Pick(s) \in s /\ SumFunctionOnSet(F, s \ {Pick(s)}) \in Nat
  BY <1>1, <1>2, <1>3, PicksOne
<1>5. SumFunctionOnSet(F, s) = F[Pick(s)] + SumFunctionOnSet(F, s \ {Pick(s)})
  BY <1>2, <1>3, SumUnfolds
<1> QED BY <1>2, <1>4, <1>5

\* A sum looks at nothing but its terms.
LEMMA SumSame ==
  ASSUME NEW S, IsFiniteSet(S), NEW F, NEW G, \A x \in S : F[x] = G[x]
  PROVE  SumFunctionOnSet(F, S) = SumFunctionOnSet(G, S)
<1> DEFINE Bad == {s \in SUBSET S : SumFunctionOnSet(F, s) # SumFunctionOnSet(G, s)}
<1> SUFFICES ASSUME Bad # {} PROVE FALSE
  OBVIOUS
<1>1. PICK s \in Bad : \A t \in SUBSET s : t # s => t \notin Bad
  <2>1. Bad \in SUBSET (SUBSET S)
    OBVIOUS
  <2> HIDE DEF Bad
  <2> QED BY <2>1, Smallest
<1>2. IsFiniteSet(s) /\ s \in SUBSET S
  BY FS_Subset
<1>3. s # {}
  BY SumEmpty
<1>4. /\ Pick(s) \in s
      /\ SumFunctionOnSet(F, s \ {Pick(s)}) = SumFunctionOnSet(G, s \ {Pick(s)})
  BY <1>1, <1>2, <1>3, PicksOne
<1>5. /\ SumFunctionOnSet(F, s) = F[Pick(s)] + SumFunctionOnSet(F, s \ {Pick(s)})
      /\ SumFunctionOnSet(G, s) = G[Pick(s)] + SumFunctionOnSet(G, s \ {Pick(s)})
  BY <1>2, <1>3, SumUnfolds
<1> QED BY <1>2, <1>4, <1>5

\* One term changed.
LEMMA SumChanged ==
  ASSUME NEW S, IsFiniteSet(S), NEW F, NEW G, NEW a \in S,
         \A x \in S : F[x] \in Int /\ G[x] \in Int, \A x \in S \ {a} : F[x] = G[x]
  PROVE  SumFunctionOnSet(G, S) = SumFunctionOnSet(F, S) - F[a] + G[a]
<1>1. IsFiniteSet(S \ {a})
  BY FS_Subset
<1>2. SumFunctionOnSet(F, S \ {a}) = SumFunctionOnSet(G, S \ {a})
  BY <1>1, SumSame
<1>3. SumFunctionOnSet(F, S) = F[a] + SumFunctionOnSet(F, S \ {a})
  BY SumRemove
<1>4. SumFunctionOnSet(G, S) = G[a] + SumFunctionOnSet(G, S \ {a})
  BY SumRemove
<1>5. SumFunctionOnSet(F, S \ {a}) \in Int /\ F[a] \in Int /\ G[a] \in Int
  BY SumInt
<1> QED BY <1>2, <1>3, <1>4, <1>5

LEMMA SumLowered ==
  ASSUME NEW S, IsFiniteSet(S), NEW F, NEW G, NEW a \in S,
         \A x \in S : F[x] \in Int /\ G[x] \in Int, \A x \in S \ {a} : F[x] = G[x],
         NEW v \in Int, G[a] = F[a] - v
  PROVE  /\ SumFunctionOnSet(G, S) = SumFunctionOnSet(F, S) - v
         /\ SumFunctionOnSet(F, S) \in Int
<1>1. SumFunctionOnSet(G, S) = SumFunctionOnSet(F, S) - F[a] + G[a]
  BY SumChanged
<1>2. SumFunctionOnSet(F, S) \in Int
  BY SumInt
<1> QED BY <1>1, <1>2

\* One element more.
LEMMA SumExtends ==
  ASSUME NEW S, IsFiniteSet(S), NEW F, NEW a, a \notin S, \A x \in S \cup {a} : F[x] \in Int
  PROVE  SumFunctionOnSet(F, S \cup {a}) = SumFunctionOnSet(F, S) + F[a]
<1>1. IsFiniteSet(S \cup {a}) /\ a \in S \cup {a} /\ (S \cup {a}) \ {a} = S
  BY FS_AddElement
<1>2. SumFunctionOnSet(F, S \cup {a}) = F[a] + SumFunctionOnSet(F, S)
  BY <1>1, SumRemove
<1>3. SumFunctionOnSet(F, S) \in Int /\ F[a] \in Int
  BY SumInt
<1> QED BY <1>2, <1>3

\* The sum of the sums.
LEMMA SumOfBoth ==
  ASSUME NEW S, IsFiniteSet(S), NEW F, NEW G, NEW H,
         \A x \in S : F[x] \in Int /\ G[x] \in Int /\ H[x] = F[x] + G[x]
  PROVE  SumFunctionOnSet(H, S) = SumFunctionOnSet(F, S) + SumFunctionOnSet(G, S)
<1> DEFINE Both(s) == SumFunctionOnSet(H, s) = SumFunctionOnSet(F, s) + SumFunctionOnSet(G, s)
           Bad == {s \in SUBSET S : ~ Both(s)}
<1> SUFFICES ASSUME Bad # {} PROVE FALSE
  OBVIOUS
<1>1. PICK s \in Bad : \A t \in SUBSET s : t # s => t \notin Bad
  <2>1. Bad \in SUBSET (SUBSET S)
    OBVIOUS
  <2> HIDE DEF Bad
  <2> QED BY <2>1, Smallest
<1>2. IsFiniteSet(s) /\ s \in SUBSET S
  BY FS_Subset
<1>3. s # {}
  <2>1. Both({})
    <3>1. SumFunctionOnSet(F, {}) = 0 /\ SumFunctionOnSet(G, {}) = 0 /\ SumFunctionOnSet(H, {}) = 0
      BY SumEmpty
    <3> QED BY <3>1
  <2> HIDE DEF Both
  <2> QED BY <2>1
<1> DEFINE c == Pick(s)  r == s \ {c}
<1>4. c \in s /\ Both(r)
  BY <1>1, <1>2, <1>3, PicksOne
<1>5. /\ SumFunctionOnSet(F, s) = F[c] + SumFunctionOnSet(F, r)
      /\ SumFunctionOnSet(G, s) = G[c] + SumFunctionOnSet(G, r)
      /\ SumFunctionOnSet(H, s) = H[c] + SumFunctionOnSet(H, r)
  BY <1>2, <1>3, SumUnfolds
<1>6. F[c] \in Int /\ G[c] \in Int /\ H[c] = F[c] + G[c]
  BY <1>2, <1>4
<1>7. SumFunctionOnSet(F, r) \in Int /\ SumFunctionOnSet(G, r) \in Int
  <2>1. r \in SUBSET S
    BY <1>2
  <2>2. \A x \in S : F[x] \in Int
    OBVIOUS
  <2>3. \A x \in S : G[x] \in Int
    OBVIOUS
  <2> HIDE DEF r
  <2> QED BY <2>1, <2>2, <2>3, SumInt
<1> HIDE DEF c, r
<1> QED BY <1>4, <1>5, <1>6, <1>7

\* A sum of nothing but zeros, and of one term beside them.
LEMMA SumZero ==
  ASSUME NEW S, IsFiniteSet(S), NEW F, \A x \in S : F[x] = 0
  PROVE  SumFunctionOnSet(F, S) = 0
<1> DEFINE Bad == {s \in SUBSET S : SumFunctionOnSet(F, s) # 0}
<1> SUFFICES ASSUME Bad # {} PROVE FALSE
  OBVIOUS
<1>1. PICK s \in Bad : \A t \in SUBSET s : t # s => t \notin Bad
  <2>1. Bad \in SUBSET (SUBSET S)
    OBVIOUS
  <2> HIDE DEF Bad
  <2> QED BY <2>1, Smallest
<1>2. IsFiniteSet(s) /\ s \in SUBSET S
  BY FS_Subset
<1>3. s # {}
  BY SumEmpty
<1>4. /\ Pick(s) \in s /\ SumFunctionOnSet(F, s \ {Pick(s)}) = 0
      /\ SumFunctionOnSet(F, s) = F[Pick(s)] + SumFunctionOnSet(F, s \ {Pick(s)})
  BY <1>1, <1>2, <1>3, PicksOne, SumUnfolds
<1> HIDE DEF Pick
<1> QED BY <1>2, <1>4

LEMMA SumOne ==
  ASSUME NEW S, IsFiniteSet(S), NEW F, NEW a \in S, F[a] \in Int, \A x \in S \ {a} : F[x] = 0
  PROVE  SumFunctionOnSet(F, S) = F[a]
<1>1. SumFunctionOnSet(F, S) = F[a] + SumFunctionOnSet(F, S \ {a})
  BY SumRemove
<1>2. SumFunctionOnSet(F, S \ {a}) = 0
  BY FS_Subset, SumZero
<1> QED BY <1>1, <1>2

\* The sums of the first terms of a numbered list.
LEMMA SumUpto ==
  ASSUME NEW F, NEW n \in Nat, \A i \in 1..n + 1 : F[i] \in Int
  PROVE  /\ SumFunctionOnSet(F, 1..n + 1) = SumFunctionOnSet(F, 1..n) + F[n + 1]
         /\ SumFunctionOnSet(F, 1..n) \in Int
<1>1. 1..n + 1 = (1..n) \cup {n + 1} /\ n + 1 \notin 1..n /\ IsFiniteSet(1..n)
  BY FS_Interval
<1>2. /\ \A i \in (1..n) \cup {n + 1} : F[i] \in Int
      /\ \A i \in 1..n : F[i] \in Int
  BY <1>1
<1>3. SumFunctionOnSet(F, (1..n) \cup {n + 1}) = SumFunctionOnSet(F, 1..n) + F[n + 1]
  BY <1>1, <1>2, SumExtends
<1>4. SumFunctionOnSet(F, 1..n) \in Int
  BY <1>1, <1>2, SumInt
<1> QED BY <1>1, <1>3, <1>4

LEMMA SumsUnroll ==
  ASSUME NEW N \in Nat, NEW F, \A i \in 1..N : F[i] \in Int, NEW n \in 0..N
  PROVE  /\ SumFunctionOnSet(F, 1..0) = 0 /\ SumFunctionOnSet(F, 1..n) \in Int
         /\ n < N => SumFunctionOnSet(F, 1..n + 1) = SumFunctionOnSet(F, 1..n) + F[n + 1]
<1>1. SumFunctionOnSet(F, 1..0) = 0
  <2>1. 1..0 = {}
    OBVIOUS
  <2> QED BY <2>1, SumEmpty
<1>2. SumFunctionOnSet(F, 1..n) \in Int
  <2>1. IsFiniteSet(1..N)
    BY FS_Interval
  <2>2. 1..n \subseteq 1..N
    OBVIOUS
  <2> QED BY <2>1, <2>2, SumInt
<1>3. ASSUME n < N
      PROVE  SumFunctionOnSet(F, 1..n + 1) = SumFunctionOnSet(F, 1..n) + F[n + 1]
  <2>1. n \in Nat /\ \A i \in 1..n + 1 : F[i] \in Int
    BY <1>3
  <2> QED BY <2>1, SumUpto
<1> QED BY <1>1, <1>2, <1>3

\* A finite set of numbers stays below some number.
LEMMA Bounded ==
  ASSUME NEW S \in SUBSET Nat, IsFiniteSet(S)
  PROVE  \E top \in Nat : \A x \in S : x <= top
<1> DEFINE Bad == {s \in SUBSET S : ~ \E top \in Nat : \A x \in s : x <= top}
<1> SUFFICES ASSUME Bad # {} PROVE FALSE
  OBVIOUS
<1>1. PICK s \in Bad : \A t \in SUBSET s : t # s => t \notin Bad
  <2>1. Bad \in SUBSET (SUBSET S)
    OBVIOUS
  <2> HIDE DEF Bad
  <2> QED BY <2>1, Smallest
<1>2. IsFiniteSet(s) /\ s \in SUBSET S /\ s # {}
  BY FS_Subset
<1>3. PICK x \in s : TRUE
  BY <1>2
<1>4. PICK top \in Nat : \A y \in s \ {x} : y <= top
  BY <1>1, <1>2, <1>3
<1>5. x \in Nat
  BY <1>2
<1>6. ASSUME NEW y \in s PROVE y <= top + x
  <2>1. y = x \/ y <= top
    BY <1>4
  <2> QED BY <1>2, <1>5, <2>1
<1>7. ~ \E bound \in Nat : \A y \in s : y <= bound
  BY <1>1
<1> QED BY <1>5, <1>6, <1>7

\* t lists the elements whose terms have changed from F's to G's, one at most a
\* step; D is the drop at each step.
FallsInTurn(S, F, G, n, D, t) ==
  /\ t[0] = {} /\ \A i \in 0..n : t[i] \in SUBSET S
  /\ \A i \in 0..n : i < n =>
       \/ t[i + 1] = t[i] /\ D[i + 1] = 0
       \/ \E x \in S \ t[i] : t[i + 1] = t[i] \cup {x} /\ D[i + 1] = F[x] - G[x]

\* The sum falls by the drops so far.
LEMMA SumFalls ==
  ASSUME NEW S, IsFiniteSet(S), NEW F, NEW G, \A x \in S : F[x] \in Int /\ G[x] \in Int,
         NEW n \in Nat, NEW D, \A i \in 1..n : D[i] \in Int,
         NEW t, FallsInTurn(S, F, G, n, D, t)
  PROVE  \A i \in 0..n : SumFunctionOnSet([x \in S |-> IF x \in t[i] THEN G[x] ELSE F[x]], S)
                         = SumFunctionOnSet(F, S) - SumFunctionOnSet(D, 1..i)
<1> DEFINE H(i) == [x \in S |-> IF x \in t[i] THEN G[x] ELSE F[x]]
           T == {i \in 0..n : SumFunctionOnSet(H(i), S) = SumFunctionOnSet(F, S) - SumFunctionOnSet(D, 1..i)}
<1>1. SumFunctionOnSet(F, S) \in Int
  BY SumInt
<1>5. ASSUME NEW i \in 0..n
      PROVE  /\ SumFunctionOnSet(D, 1..0) = 0 /\ SumFunctionOnSet(D, 1..i) \in Int
             /\ i < n => SumFunctionOnSet(D, 1..i + 1) = SumFunctionOnSet(D, 1..i) + D[i + 1]
  <2> HIDE DEF H, T
  <2> QED BY SumsUnroll
<1>2. 0 \in T
  <2>1. SumFunctionOnSet(D, 1..0) = 0 /\ 0 \in 0..n
    BY <1>5
  <2>2. SumFunctionOnSet(H(0), S) = SumFunctionOnSet(F, S)
    <3>1. \A x \in S : H(0)[x] = F[x]
      BY DEF FallsInTurn
    <3> HIDE DEF H
    <3> QED BY <3>1, SumSame
  <2> HIDE DEF H
  <2> QED BY <1>1, <2>1, <2>2
<1>3. ASSUME NEW i \in T, i < n PROVE i + 1 \in T
  <2>1. i \in 0..n /\ i + 1 \in 0..n
    BY <1>3
  <2>2. SumFunctionOnSet(H(i), S) = SumFunctionOnSet(F, S) - SumFunctionOnSet(D, 1..i)
    OBVIOUS
  <2>3. SumFunctionOnSet(D, 1..i + 1) = SumFunctionOnSet(D, 1..i) + D[i + 1] /\ D[i + 1] \in Int
    <3>1. i + 1 \in 1..n
      BY <1>3, <2>1
    <3> QED BY <1>3, <1>5, <2>1, <3>1
  <2>4. SumFunctionOnSet(H(i + 1), S) = SumFunctionOnSet(H(i), S) - D[i + 1]
    <3>1. CASE t[i + 1] = t[i] /\ D[i + 1] = 0
      <4>1. H(i + 1) = H(i)
        BY <3>1
      <4>2. SumFunctionOnSet(H(i), S) \in Int
        BY <1>1, <1>5, <2>1, <2>2
      <4> HIDE DEF H
      <4> QED BY <3>1, <4>1, <4>2
    <3>2. CASE \E x \in S \ t[i] : t[i + 1] = t[i] \cup {x} /\ D[i + 1] = F[x] - G[x]
      <4>1. PICK a \in S \ t[i] : t[i + 1] = t[i] \cup {a} /\ D[i + 1] = F[a] - G[a]
        BY <3>2
      <4>2. /\ \A x \in S : H(i)[x] \in Int /\ H(i + 1)[x] \in Int
            /\ \A x \in S \ {a} : H(i)[x] = H(i + 1)[x]
            /\ H(i)[a] = F[a] /\ H(i + 1)[a] = G[a]
        BY <4>1
      <4>3. F[a] \in Int /\ G[a] \in Int
        OBVIOUS
      <4> HIDE DEF H
      <4>4. H(i + 1)[a] = H(i)[a] - D[i + 1]
        BY <2>3, <4>1, <4>2, <4>3
      <4>5. PICK A, B : A = H(i) /\ B = H(i + 1)
        OBVIOUS
      <4> HIDE DEF T
      <4>6. /\ \A x \in S : A[x] \in Int /\ B[x] \in Int
            /\ \A x \in S \ {a} : A[x] = B[x]
            /\ B[a] = A[a] - D[i + 1] /\ D[i + 1] \in Int /\ a \in S
        BY <2>3, <4>2, <4>4, <4>5
      <4>7. SumFunctionOnSet(B, S) = SumFunctionOnSet(A, S) - D[i + 1]
        BY <4>6, SumLowered
      <4> QED BY <4>5, <4>7
    <3> QED BY <2>1, <1>3, <3>1, <3>2 DEF FallsInTurn
  <2>5. SumFunctionOnSet(D, 1..i) \in Int
    BY <1>5, <2>1
  <2> HIDE DEF H
  <2> QED BY <1>1, <2>1, <2>2, <2>3, <2>4, <2>5
<1>4. \A i \in 0..n : i \in T
  <2> HIDE DEF T
  <2> QED BY <1>2, <1>3, Climbs
<1> QED BY <1>4

\* The same terms under other names.
LEMMA SumImage ==
  ASSUME NEW S, IsFiniteSet(S), NEW f, \A x, y \in S : f[x] = f[y] => x = y,
         NEW F, \A x \in S : F[f[x]] \in Int
  PROVE  /\ IsFiniteSet({f[x] : x \in S})
         /\ Cardinality({f[x] : x \in S}) = Cardinality(S)
         /\ SumFunctionOnSet(F, {f[x] : x \in S}) = SumFunctionOnSet([x \in S |-> F[f[x]]], S)
<1> DEFINE Im(s) == {f[x] : x \in s}
           K == [x \in S |-> F[f[x]]]
           Same(s) == /\ IsFiniteSet(Im(s)) /\ Cardinality(Im(s)) = Cardinality(s)
                      /\ SumFunctionOnSet(F, Im(s)) = SumFunctionOnSet(K, s)
           Bad == {s \in SUBSET S : ~Same(s)}
<1>1. Bad = {}
  <2> SUFFICES ASSUME Bad # {} PROVE FALSE
    OBVIOUS
  <2>1. PICK s \in Bad : \A t \in SUBSET s : t # s => t \notin Bad
    <3>1. Bad \in SUBSET (SUBSET S)
      OBVIOUS
    <3> HIDE DEF Bad
    <3> QED BY <3>1, Smallest
  <2>2. s \in SUBSET S /\ ~Same(s) /\ IsFiniteSet(s)
    BY FS_Subset
  <2>3. s # {}
    <3>1. Im({}) = {} /\ IsFiniteSet({})
      BY FS_EmptySet
    <3>2. SumFunctionOnSet(F, {}) = 0 /\ SumFunctionOnSet(K, {}) = 0
      BY SumEmpty
    <3>3. Same({})
      <4> HIDE DEF K
      <4> QED BY <3>1, <3>2
    <3> HIDE DEF Same
    <3> QED BY <2>2, <3>3
  <2>4. PICK a \in s : TRUE
    BY <2>3
  <2> DEFINE r == s \ {a}
  <2>5. Same(r)
    <3>1. r \in SUBSET s /\ r # s /\ r \in SUBSET S
      BY <2>2, <2>4
    <3> HIDE DEF Same, r
    <3> QED BY <2>1, <3>1
  <2>6. Im(s) = Im(r) \cup {f[a]} /\ f[a] \notin Im(r)
    BY <2>2, <2>4
  <2>7. \A y \in Im(r) \cup {f[a]} : F[y] \in Int
    BY <2>2, <2>4
  <2>8. SumFunctionOnSet(F, Im(s)) = SumFunctionOnSet(F, Im(r)) + F[f[a]]
    <3>1. IsFiniteSet(Im(r))
      BY <2>5
    <3> HIDE DEF Im, Same, r
    <3> QED BY <2>6, <2>7, <3>1, SumExtends
  <2>9. Cardinality(Im(s)) = Cardinality(Im(r)) + 1 /\ IsFiniteSet(Im(s))
    <3>1. IsFiniteSet(Im(r))
      BY <2>5
    <3> HIDE DEF Im, Same, r
    <3> QED BY <2>6, <3>1, FS_AddElement
  <2>10. Cardinality(r) = Cardinality(s) - 1 /\ Cardinality(s) \in Nat
    BY <2>2, <2>4, FS_RemoveElement, FS_CardinalityType
  <2>11. SumFunctionOnSet(K, s) = K[a] + SumFunctionOnSet(K, r)
    <3>1. \A x \in s : K[x] \in Int
      BY <2>2
    <3> HIDE DEF K
    <3> QED BY <2>2, <3>1, SumRemove
  <2>12. K[a] = F[f[a]] /\ F[f[a]] \in Int /\ SumFunctionOnSet(K, r) \in Int
    <3>1. a \in S /\ \A x \in S : K[x] \in Int
      BY <2>2
    <3>2. K[a] = F[f[a]]
      BY <3>1
    <3>3. r \in SUBSET S
      BY <2>2
    <3> HIDE DEF K, r
    <3>4. SumFunctionOnSet(K, r) \in Int
      BY <3>1, <3>3, SumInt
    <3> QED BY <3>1, <3>2, <3>4
  <2>13. Same(s)
    <3>1. Cardinality(Im(r)) = Cardinality(r) /\ SumFunctionOnSet(F, Im(r)) = SumFunctionOnSet(K, r)
      BY <2>5
    <3> HIDE DEF Im, K, r
    <3> QED BY <2>8, <2>9, <2>10, <2>11, <2>12, <3>1
  <2> HIDE DEF Same
  <2> QED BY <2>2, <2>13
<1> HIDE DEF Same
<1>2. Same(S)
  BY <1>1
<1> QED BY <1>2 DEF Same

\* The terms that one owner has, and each owner's sum of the first i.
OwnTerms(F, w, n, u) == [j \in 1..n |-> IF w[j] = u THEN F[j] ELSE 0]

OwnSums(F, w, n, i, U) == [u \in U |-> SumFunctionOnSet(OwnTerms(F, w, n, u), 1..i)]

Owned(F, w, n, U) == IsFiniteSet(U) /\ \A i \in 1..n : w[i] \in U /\ F[i] \in Int

\* The whole of the first terms is what each of their owners has of them.
LEMMA SumSplit ==
  ASSUME NEW U, NEW n \in Nat, NEW w, NEW F, Owned(F, w, n, U)
  PROVE  \A i \in 0..n : SumFunctionOnSet(OwnSums(F, w, n, i, U), U) = SumFunctionOnSet(F, 1..i)
<1> DEFINE Own(u) == OwnTerms(F, w, n, u)
           By(i) == [u \in U |-> SumFunctionOnSet(Own(u), 1..i)]
           T == {i \in 0..n : SumFunctionOnSet(By(i), U) = SumFunctionOnSet(F, 1..i)}
<1>7. IsFiniteSet(U) /\ (\A i \in 1..n : w[i] \in U) /\ \A i \in 1..n : F[i] \in Int
  BY DEF Owned
<1>1. \A u \in U, j \in 1..n : Own(u)[j] \in Int /\ Own(u)[j] = (IF w[j] = u THEN F[j] ELSE 0)
  BY <1>7 DEF OwnTerms
<1> HIDE DEF Own
<1>2. ASSUME NEW u \in U, NEW i \in 0..n
      PROVE  /\ SumFunctionOnSet(Own(u), 1..i) \in Int /\ SumFunctionOnSet(Own(u), 1..0) = 0
             /\ i < n => SumFunctionOnSet(Own(u), 1..i + 1) = SumFunctionOnSet(Own(u), 1..i) + Own(u)[i + 1]
  <2>1. \A j \in 1..n : Own(u)[j] \in Int
    BY <1>1
  <2> QED BY <2>1, SumsUnroll
<1>3. \A i \in 0..n : /\ SumFunctionOnSet(F, 1..i) \in Int /\ SumFunctionOnSet(F, 1..0) = 0
                      /\ i < n => SumFunctionOnSet(F, 1..i + 1) = SumFunctionOnSet(F, 1..i) + F[i + 1]
  BY <1>7, SumsUnroll
<1>4. 0 \in T
  <2>1. \A u \in U : By(0)[u] = 0
    BY <1>2
  <2>2. SumFunctionOnSet(By(0), U) = 0
    <3> HIDE DEF By
    <3> QED BY <1>7, <2>1, SumZero
  <2>3. SumFunctionOnSet(F, 1..0) = 0
    BY <1>3
  <2> HIDE DEF By
  <2> QED BY <2>2, <2>3
<1>5. ASSUME NEW i \in T, i < n PROVE i + 1 \in T
  <2>1. i \in 0..n /\ i + 1 \in 0..n /\ i + 1 \in 1..n
    BY <1>5
  <2>2. SumFunctionOnSet(By(i), U) = SumFunctionOnSet(F, 1..i)
    OBVIOUS
  <2> DEFINE a == w[i + 1]
  <2>3. a \in U /\ F[i + 1] \in Int
    BY <1>7, <2>1
  <2>4. /\ \A u \in U : By(i)[u] \in Int /\ By(i + 1)[u] \in Int
        /\ \A u \in U \ {a} : By(i)[u] = By(i + 1)[u]
        /\ By(i + 1)[a] = By(i)[a] + F[i + 1]
    <3> SUFFICES ASSUME NEW u \in U
                 PROVE  /\ By(i)[u] \in Int /\ By(i + 1)[u] \in Int
                        /\ By(i + 1)[u] = IF u = a THEN By(i)[u] + F[i + 1] ELSE By(i)[u]
      BY <2>3
    <3>1. By(i)[u] = SumFunctionOnSet(Own(u), 1..i) /\ By(i + 1)[u] = SumFunctionOnSet(Own(u), 1..i + 1)
      OBVIOUS
    <3>2. SumFunctionOnSet(Own(u), 1..i) \in Int /\ SumFunctionOnSet(Own(u), 1..i + 1) \in Int
      BY <1>2, <2>1
    <3>3. SumFunctionOnSet(Own(u), 1..i + 1) = SumFunctionOnSet(Own(u), 1..i) + Own(u)[i + 1]
      BY <1>2, <1>5, <2>1
    <3>4. Own(u)[i + 1] = IF u = a THEN F[i + 1] ELSE 0
      BY <1>1, <2>1
    <3> HIDE DEF By, a
    <3> QED BY <2>3, <3>1, <3>2, <3>3, <3>4
  <2> HIDE DEF By, a
  <2>5. SumFunctionOnSet(By(i + 1), U) = SumFunctionOnSet(By(i), U) - By(i)[a] + By(i + 1)[a]
    <3>1. PICK A, B, c : A = By(i) /\ B = By(i + 1) /\ c = a
      OBVIOUS
    <3>2. \A u \in U : A[u] \in Int /\ B[u] \in Int
      BY <2>4, <3>1
    <3>3. c \in U /\ \A u \in U \ {c} : A[u] = B[u]
      BY <2>3, <2>4, <3>1
    <3> HIDE DEF T
    <3>4. SumFunctionOnSet(B, U) = SumFunctionOnSet(A, U) - A[c] + B[c]
      BY <1>7, <3>2, <3>3, SumChanged
    <3> QED BY <3>1, <3>4
  <2>6. SumFunctionOnSet(By(i), U) \in Int /\ By(i)[a] \in Int
    BY <1>7, <2>3, <2>4, SumInt
  <2>7. SumFunctionOnSet(F, 1..i + 1) = SumFunctionOnSet(F, 1..i) + F[i + 1]
    BY <1>3, <1>5, <2>1
  <2> QED BY <2>1, <2>2, <2>3, <2>4, <2>5, <2>6, <2>7
<1>6. \A i \in 0..n : i \in T
  <2> HIDE DEF T
  <2> QED BY <1>4, <1>5, Climbs
<1> QED BY <1>6 DEF OwnSums, Own

\* One more term, on a sum of the same others.
LEMMA SumJoins ==
  ASSUME NEW S, IsFiniteSet(S), NEW a, a \notin S, NEW F, NEW G,
         \A x \in S : F[x] = G[x] /\ F[x] \in Int, F[a] \in Int
  PROVE  SumFunctionOnSet(F, S \cup {a}) = SumFunctionOnSet(G, S) + F[a] /\ SumFunctionOnSet(G, S) \in Int
<1>1. (\A x \in S \cup {a} : F[x] \in Int) /\ \A x \in S : G[x] \in Int
  OBVIOUS
<1>2. SumFunctionOnSet(F, S \cup {a}) = SumFunctionOnSet(F, S) + F[a]
  BY <1>1, SumExtends
<1>3. SumFunctionOnSet(F, S) = SumFunctionOnSet(G, S)
  BY SumSame
<1>4. SumFunctionOnSet(G, S) \in Int
  BY <1>1, SumInt
<1> QED BY <1>2, <1>3, <1>4

----------------------------------------------------------------------------
(* Whole numbers, and functions of them *)

LEMMA DivTells ==
  ASSUME NEW n \in Int, NEW u \in Nat \ {0}
  PROVE  /\ n \div u \in Int /\ u * (n \div u) <= n /\ n < u * (n \div u) + u
BY SMT

LEMMA LessByScale ==
  ASSUME NEW g \in Nat \ {0}, NEW x \in Int, NEW y \in Int, g * x <= g * y
  PROVE  x <= y
BY SMT

LEMMA Distributes ==
  ASSUME NEW g \in Int, NEW x \in Int, NEW y \in Int
  PROVE  g * (x + y) = g * x + g * y /\ g * (x - y) = g * x - g * y /\ g * x \in Int
BY SMT

\* Where each step takes a function up by at most c, n steps take it up by at
\* most c n.
LEMMA StepsAddUp ==
  ASSUME NEW L, NEW c \in Nat, \A e \in Int : L[e] \in Int /\ L[e + 1] - L[e] \in 0..c,
         NEW d \in Int, NEW n \in Nat
  PROVE  L[d + n] \in Int /\ L[d + n] - L[d] \in 0..c * n /\ c * n \in Int
<1> DEFINE T == {k \in Nat : L[d + k] - L[d] \in 0..c * k}
<1>1. 0 \in T
  <2>1. d + 0 = d /\ c * 0 = 0
    OBVIOUS
  <2> QED BY <2>1
<1>2. ASSUME NEW k \in T PROVE k + 1 \in T
  <2> DEFINE x == L[d + (k + 1)]  y == L[d + k]  z == L[d]  v == c * k
  <2>1. k \in Nat /\ d + k \in Int /\ d + (k + 1) = (d + k) + 1 /\ c * (k + 1) = v + c /\ v \in Int
    BY Distributes
  <2>2. x - y \in 0..c /\ y - z \in 0..v /\ x \in Int /\ y \in Int /\ z \in Int
    BY <2>1
  <2> HIDE DEF x, y, z, v
  <2>3. x - z \in 0..v + c
    BY <2>1, <2>2
  <2> QED BY <2>1, <2>3 DEF x, z
<1>3. n \in T
  <2> HIDE DEF T
  <2>1. \A k \in 0..n : k \in T
    BY <1>1, <1>2, Climbs
  <2> QED BY <2>1
<1>4. d + n \in Int /\ c * n \in Int
  BY Distributes
<1> QED BY <1>3, <1>4

\* Where no step is smaller than the one before it, no n steps are.
LEMMA StepsWiden ==
  ASSUME NEW L, \A e \in Int : L[e] \in Int /\ L[e] - L[e - 1] <= L[e + 1] - L[e],
         NEW d \in Int, NEW m \in Nat, NEW n \in Nat
  PROVE  L[d + n] - L[d] <= L[(d + m) + n] - L[d + m]
<1>1. ASSUME NEW e \in Int PROVE L[e + 1] - L[e] <= L[(e + m) + 1] - L[e + m]
  <2> DEFINE T == {k \in Nat : L[e + 1] - L[e] <= L[(e + k) + 1] - L[e + k]}
  <2>1. 0 \in T
    <3>1. e + 0 = e
      OBVIOUS
    <3> QED BY <3>1
  <2>2. ASSUME NEW k \in T PROVE k + 1 \in T
    <3>1. /\ k \in Nat /\ e + (k + 1) = (e + k) + 1 /\ (e + k) + 1 \in Int
          /\ ((e + k) + 1) - 1 = e + k
      OBVIOUS
    <3>2. L[(e + k) + 1] - L[e + k] <= L[((e + k) + 1) + 1] - L[(e + k) + 1]
      BY <3>1
    <3>3. L[e + 1] - L[e] <= L[(e + k) + 1] - L[e + k]
      OBVIOUS
    <3>4. L[e + 1] \in Int /\ L[e] \in Int /\ L[(e + k) + 1] \in Int /\ L[e + k] \in Int
          /\ L[((e + k) + 1) + 1] \in Int
      BY <3>1
    <3> QED BY <3>1, <3>2, <3>3, <3>4
  <2>3. \A k \in 0..m : k \in T
    <3> HIDE DEF T
    <3> QED BY <2>1, <2>2, Climbs
  <2>4. m \in T
    <3> HIDE DEF T
    <3> QED BY <2>3
  <2> QED BY <2>4
<1> DEFINE U == {k \in Nat : L[d + k] - L[d] <= L[(d + m) + k] - L[d + m]}
<1>2. 0 \in U
  <2>1. d + 0 = d /\ (d + m) + 0 = d + m
    OBVIOUS
  <2> QED BY <2>1
<1>3. ASSUME NEW k \in U PROVE k + 1 \in U
  <2>1. /\ k \in Nat /\ d + k \in Int /\ d + (k + 1) = (d + k) + 1
        /\ (d + m) + (k + 1) = ((d + k) + m) + 1 /\ (d + m) + k = (d + k) + m
    OBVIOUS
  <2>2. L[(d + k) + 1] - L[d + k] <= L[((d + k) + m) + 1] - L[(d + k) + m]
    BY <1>1, <2>1
  <2>3. L[d + k] - L[d] <= L[(d + m) + k] - L[d + m]
    OBVIOUS
  <2>4. L[d + k] \in Int /\ L[d] \in Int /\ L[(d + k) + m] \in Int /\ L[d + m] \in Int
        /\ L[(d + k) + 1] \in Int /\ L[((d + k) + m) + 1] \in Int
    BY <2>1
  <2> QED BY <2>1, <2>2, <2>3, <2>4
<1>4. \A k \in 0..n : k \in U
  <2> HIDE DEF U
  <2> QED BY <1>2, <1>3, Climbs
<1>5. n \in U
  <2> HIDE DEF U
  <2> QED BY <1>4
<1> QED BY <1>5

Joins(S, a, F) == IsFiniteSet(S) /\ a \notin S /\ \A x \in S \cup {a} : F[x] \in Int

LEMMA SumAdds ==
  ASSUME NEW S, NEW a, NEW F, Joins(S, a, F)
  PROVE  SumFunctionOnSet(F, S \cup {a}) = SumFunctionOnSet(F, S) + F[a]
BY SumExtends DEF Joins

Bounds(c, G, m, F, S) == IsFiniteSet(S) /\ \A x \in S : F[x] \in Int /\ G[x] \in Int /\ c * G[x] <= m * F[x]

\* What bounds each term bounds the sum.
LEMMA SumBounded ==
  ASSUME NEW S, NEW c \in Int, NEW m \in Int, NEW F, NEW G, Bounds(c, G, m, F, S)
  PROVE  /\ c * SumFunctionOnSet(G, S) <= m * SumFunctionOnSet(F, S)
         /\ SumFunctionOnSet(G, S) \in Int /\ SumFunctionOnSet(F, S) \in Int
<1> DEFINE Ok(s) == c * SumFunctionOnSet(G, s) <= m * SumFunctionOnSet(F, s)
           Bad == {s \in SUBSET S : ~ Ok(s)}
<1>0. IsFiniteSet(S) /\ \A x \in S : F[x] \in Int /\ G[x] \in Int /\ c * G[x] <= m * F[x]
  BY DEF Bounds
<1>a. \A s \in SUBSET S : SumFunctionOnSet(G, s) \in Int /\ SumFunctionOnSet(F, s) \in Int
  BY <1>0, SumInt
<1>b. SUFFICES ASSUME Bad # {} PROVE FALSE
  <2>1. S \in SUBSET S
    OBVIOUS
  <2> QED BY <1>a, <2>1
<1>1. PICK s \in Bad : \A t \in SUBSET s : t # s => t \notin Bad
  <2>1. Bad \in SUBSET (SUBSET S)
    OBVIOUS
  <2> HIDE DEF Bad
  <2> QED BY <1>0, <1>b, <2>1, Smallest
<1>2. IsFiniteSet(s) /\ s \in SUBSET S
  BY <1>0, FS_Subset
<1>3. s # {}
  <2>1. SumFunctionOnSet(G, {}) = 0 /\ SumFunctionOnSet(F, {}) = 0
    BY SumEmpty
  <2> QED BY <2>1
<1>4. PICK a : a \in s
  BY <1>3
<1>5. s \ {a} \in SUBSET s /\ s \ {a} # s /\ s \ {a} \in SUBSET S /\ a \in S
  BY <1>2, <1>4
<1>6. Ok(s \ {a})
  BY <1>1, <1>5
<1>7. \A x \in s : F[x] \in Int /\ G[x] \in Int
  BY <1>0, <1>2
<1>8. /\ SumFunctionOnSet(F, s) = F[a] + SumFunctionOnSet(F, s \ {a})
      /\ SumFunctionOnSet(G, s) = G[a] + SumFunctionOnSet(G, s \ {a})
  BY <1>2, <1>4, <1>7, SumRemove
<1> DEFINE u == SumFunctionOnSet(F, s \ {a})  v == SumFunctionOnSet(G, s \ {a})
<1>9. /\ u \in Int /\ v \in Int /\ F[a] \in Int /\ G[a] \in Int
      /\ c * G[a] <= m * F[a] /\ c * v <= m * u
  BY <1>0, <1>a, <1>5, <1>6
<1> HIDE DEF u, v
<1>10. PICK f \in Int, g \in Int : f = F[a] /\ g = G[a]
  BY <1>9
<1>11. c * (g + v) <= m * (f + u)
  <2>1. c * (g + v) = c * g + c * v /\ m * (f + u) = m * f + m * u
    BY <1>9, Distributes
  <2>2. c * g \in Int /\ c * v \in Int /\ m * f \in Int /\ m * u \in Int
    BY <1>9, Distributes
  <2>3. c * g <= m * f /\ c * v <= m * u
    BY <1>9, <1>10
  <2> QED BY <2>1, <2>2, <2>3
<1>12. Ok(s)
  BY <1>8, <1>10, <1>11 DEF u, v
<1> QED BY <1>12

\* A sum over fewer terms is no more, and is the same where the rest are 0.
LEMMA SumNarrows ==
  ASSUME NEW S, IsFiniteSet(S), NEW R, NEW F, \A x \in S : F[x] \in Nat
  PROVE  /\ SumFunctionOnSet(F, S \cap R) <= SumFunctionOnSet(F, S)
         /\ (\A x \in S \ R : F[x] = 0) => SumFunctionOnSet(F, S \cap R) = SumFunctionOnSet(F, S)
<1> DEFINE Blank(s) == \A x \in s \ R : F[x] = 0
           Ok(s) == /\ SumFunctionOnSet(F, s \cap R) <= SumFunctionOnSet(F, s)
                    /\ Blank(s) => SumFunctionOnSet(F, s \cap R) = SumFunctionOnSet(F, s)
           Bad == {s \in SUBSET S : ~ Ok(s)}
<1>a. \A s \in SUBSET S : SumFunctionOnSet(F, s) \in Nat
  BY SumNat
<1>b. SUFFICES ASSUME Bad # {} PROVE FALSE
  <2>1. S \in SUBSET S
    OBVIOUS
  <2>2. ~ Ok(S) => S \in Bad
    <3> HIDE DEF Ok
    <3> QED BY <2>1
  <2>3. Ok(S) => \/ Bad # {}
                 \/ /\ SumFunctionOnSet(F, S \cap R) <= SumFunctionOnSet(F, S)
                    /\ Blank(S) => SumFunctionOnSet(F, S \cap R) = SumFunctionOnSet(F, S)
    OBVIOUS
  <2> HIDE DEF Bad, Ok
  <2> QED BY <2>2, <2>3
<1>1. PICK s \in Bad : \A t \in SUBSET s : t # s => t \notin Bad
  <2>1. Bad \in SUBSET (SUBSET S)
    OBVIOUS
  <2> HIDE DEF Bad
  <2> QED BY <1>b, <2>1, Smallest
<1>2. IsFiniteSet(s) /\ s \in SUBSET S /\ IsFiniteSet(s \cap R)
  BY FS_Subset
<1>3. s # {}
  <2> SUFFICES ASSUME s = {} PROVE FALSE
    OBVIOUS
  <2>1. s \cap R = s
    OBVIOUS
  <2>2. SumFunctionOnSet(F, s \cap R) = SumFunctionOnSet(F, s) /\ SumFunctionOnSet(F, s) \in Nat
    BY <1>a, <1>2, <2>1
  <2>3. Ok(s)
    BY <2>2
  <2> HIDE DEF Ok
  <2> QED BY <2>3
<1>4. PICK a : a \in s
  BY <1>3
<1>5. s \ {a} \in SUBSET s /\ s \ {a} # s /\ s \ {a} \in SUBSET S /\ a \in S
  BY <1>2, <1>4
<1>6. Ok(s \ {a})
  BY <1>1, <1>5
<1>7. (\A x \in s : F[x] \in Int) /\ (\A x \in s \cap R : F[x] \in Int)
  BY <1>2
<1>8. SumFunctionOnSet(F, s) = F[a] + SumFunctionOnSet(F, s \ {a})
  BY <1>2, <1>4, <1>7, SumRemove
<1>9. SumFunctionOnSet(F, s \ {a}) \in Nat /\ F[a] \in Nat /\ SumFunctionOnSet(F, (s \ {a}) \cap R) \in Nat
  <2>1. (s \ {a}) \cap R \in SUBSET S
    BY <1>5
  <2> QED BY <1>a, <1>5, <2>1
<1>10. CASE a \in R
  <2>1. (s \cap R) \ {a} = (s \ {a}) \cap R /\ a \in s \cap R /\ (s \ {a}) \ R = s \ R
    BY <1>4, <1>10
  <2>3. Blank(s) => Blank(s \ {a})
    BY <2>1
  <2>2. SumFunctionOnSet(F, s \cap R) = F[a] + SumFunctionOnSet(F, (s \cap R) \ {a})
    BY <1>2, <1>7, <2>1, SumRemove
  <2> HIDE DEF Blank
  <2> QED BY <1>6, <1>8, <1>9, <2>1, <2>2, <2>3
<1>11. CASE a \notin R
  <2>1. s \cap R = (s \ {a}) \cap R /\ (s \ {a}) \ R \subseteq s \ R /\ a \in s \ R
    BY <1>4, <1>11
  <2>2. Blank(s) => Blank(s \ {a}) /\ F[a] = 0
    BY <2>1
  <2> HIDE DEF Blank
  <2>3. SumFunctionOnSet(F, s \cap R) = SumFunctionOnSet(F, (s \ {a}) \cap R)
    BY <2>1
  <2>4. Ok(s)
    BY <1>6, <1>8, <1>9, <2>2, <2>3
  <2> HIDE DEF Ok
  <2> QED BY <2>4
<1> QED BY <1>10, <1>11

==============================================================================
