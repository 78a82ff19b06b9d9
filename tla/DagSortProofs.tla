---------------------------- MODULE DagSortProofs ----------------------------
(***************************************************************************)
(* Of DagSort, for any number of nodes and any lists of dependencies: the  *)
(* verdict and the layers of Kahn's algorithm are those of ProjectDag, and *)
(* right (SortCorrect).                                                    *)
(*                                                                         *)
(* Peeled is a recursive function, so that what it computes is shown by    *)
(* looking at the smallest pass at which it would be wrong.                *)
(***************************************************************************)
EXTENDS DagSort, WellFoundedInduction, FiniteSetTheorems, TLAPS

-----------------------------------------------------------------------------
(* The smallest of a set of numbers: the step from which there is nothing  *)
(* to be shown is the first one.                                           *)

LEMMA Smallest ==
  ASSUME NEW S \in SUBSET Nat, S # {}
  PROVE  \E n \in S : \A m \in S : n <= m
<1> DEFINE T == {0 .. n : n \in S}
<1>1. T \subseteq FiniteSubsetsOf(Nat)
  <2>1. SUFFICES ASSUME NEW u \in T PROVE u \in FiniteSubsetsOf(Nat)  OBVIOUS
  <2>2. PICK n \in S : u = 0 .. n  OBVIOUS
  <2>3. IsFiniteSet(u)  BY <2>2, FS_Interval
  <2>4. QED  BY <2>2, <2>3 DEF FiniteSubsetsOf
<1>2. T # {}  OBVIOUS
<1> HIDE DEF T
<1>3. PICK t \in T : \A u \in T : ~(<<u, t>> \in StrictSubsetOrdering(Nat))
  BY <1>1, <1>2, WFMin, FS_StrictSubsetOrderingWellFounded
<1>4. PICK n \in S : t = 0 .. n  BY DEF T
<1>5. \A m \in S : n <= m
  <2>1. SUFFICES ASSUME NEW m \in S, m < n PROVE FALSE  OBVIOUS
  <2>2. 0 .. m \in T  BY DEF T
  <2>3. ~(<<0 .. m, 0 .. n>> \in StrictSubsetOrdering(Nat))  BY <1>3, <1>4, <2>2
  <2>4. 0 .. m \subseteq 0 .. n /\ n \notin 0 .. m /\ n \in 0 .. n  BY <2>1
  <2>5. 0 .. m \in SUBSET Nat /\ 0 .. n \in SUBSET Nat  OBVIOUS
  <2>6. QED  BY <2>3, <2>4, <2>5 DEF StrictSubsetOrdering
<1>6. QED  BY <1>5

-----------------------------------------------------------------------------
(* Peeled.                                                                 *)

\* The projects whose dependencies are all in S.
Ready(d, S) == {p \in DOMAIN d : d[p] \subseteq S}

\* f is the first n passes.
Peels(f, d, n) ==
  f = [i \in 0 .. n |-> IF i = 0 THEN {} ELSE Ready(d, f[i - 1])]

LEMMA PeelsAt ==
  ASSUME NEW f, NEW d, NEW n, Peels(f, d, n)
  PROVE  \A i \in 0 .. n : f[i] = IF i = 0 THEN {} ELSE Ready(d, f[i - 1])
BY DEF Peels

LEMMA PeelsExists ==
  ASSUME NEW d, NEW n \in Nat
  PROVE  \E f : Peels(f, d, n)
<1> DEFINE Bad == {k \in Nat : ~ \E f : Peels(f, d, k)}
<1>1. SUFFICES ASSUME Bad # {} PROVE FALSE  OBVIOUS
<1>2. PICK k \in Bad : \A j \in Bad : k <= j
  <2>1. Bad \in SUBSET Nat  OBVIOUS
  <2> HIDE DEF Bad
  <2>2. QED  BY <1>1, <2>1, Smallest
<1>3. CASE k = 0
  <2> DEFINE f == [i \in 0 .. 0 |-> {}]
  <2>1. f = [i \in 0 .. 0 |-> IF i = 0 THEN {} ELSE Ready(d, f[i - 1])]
    OBVIOUS
  <2> HIDE DEF f
  <2>2. Peels(f, d, 0)  BY <2>1 DEF Peels
  <2>3. QED  BY <1>3, <2>2
<1>4. CASE k > 0
  <2>1. k - 1 \in Nat /\ k - 1 \notin Bad  BY <1>2, <1>4
  <2>2. PICK f : Peels(f, d, k - 1)  BY <2>1
  <2> DEFINE g == [i \in 0 .. k |-> IF i = k THEN Ready(d, f[k - 1]) ELSE f[i]]
             h == [i \in 0 .. k |-> IF i = 0 THEN {} ELSE Ready(d, g[i - 1])]
  <2>3. ASSUME NEW i \in 0 .. k PROVE g[i] = h[i]
    <3>1. CASE i = k
      <4>1. k - 1 \in 0 .. k /\ k - 1 # k /\ i # 0  BY <1>4, <3>1
      <4>2. QED  BY <3>1, <4>1
    <3>2. CASE i # k
      <4>1. i \in 0 .. k - 1 /\ (i # 0 => i - 1 \in 0 .. k /\ i - 1 # k)  BY <3>2
      <4>2. f[i] = IF i = 0 THEN {} ELSE Ready(d, f[i - 1])
        BY <2>2, <4>1, PeelsAt
      <4>3. QED  BY <3>2, <4>1, <4>2
    <3>3. QED  BY <3>1, <3>2
  <2>4. g = [i \in 0 .. k |-> g[i]] /\ h = [i \in 0 .. k |-> h[i]]  OBVIOUS
  <2>5. g = h
    <3> HIDE DEF g, h
    <3>1. QED  BY <2>3, <2>4
  <2>6. g = [i \in 0 .. k |-> IF i = 0 THEN {} ELSE Ready(d, g[i - 1])]
    <3> HIDE DEF g
    <3>1. QED  BY <2>5
  <2> HIDE DEF g
  <2>7. Peels(g, d, k)  BY <2>6 DEF Peels
  <2>8. QED  BY <2>7
<1>5. QED  BY <1>2, <1>3, <1>4

\* What is peeled, pass after pass.
LEMMA PeeledIs ==
  ASSUME NEW d, IsFiniteSet(DOMAIN d)
  PROVE  /\ Cardinality(DOMAIN d) \in Nat
         /\ DOMAIN Peeled(d) = 0 .. Cardinality(DOMAIN d)
         /\ Peeled(d)[0] = {}
         /\ \A i \in 0 .. Cardinality(DOMAIN d) - 1 : Peeled(d)[i + 1] = Ready(d, Peeled(d)[i])
         /\ \A i \in 0 .. Cardinality(DOMAIN d) : Peeled(d)[i] \in SUBSET DOMAIN d
<1> DEFINE N == Cardinality(DOMAIN d)
           f == CHOOSE f : Peels(f, d, N)
<1>1. N \in Nat  BY FS_CardinalityType
<1>2. Peels(f, d, N)  BY <1>1, PeelsExists
<1>3. Peeled(d) = f  BY Zenon DEF Peeled, Peels, Ready
<1> HIDE DEF f, N
<1>4. DOMAIN f = 0 .. N  BY <1>2 DEF Peels
<1>5. ASSUME NEW i \in 0 .. N
      PROVE  f[i] = IF i = 0 THEN {} ELSE Ready(d, f[i - 1])
  BY <1>2, PeelsAt
<1>6. f[0] = {}  BY <1>1, <1>5
<1>7. ASSUME NEW i \in 0 .. N - 1 PROVE f[i + 1] = Ready(d, f[i])
  <2>1. i + 1 \in 0 .. N /\ i + 1 # 0 /\ (i + 1) - 1 = i  BY <1>1
  <2>2. QED  BY <1>5, <2>1
<1>8. \A i \in 0 .. N : f[i] \in SUBSET DOMAIN d  BY <1>5 DEF Ready
<1>9. QED  BY <1>1, <1>3, <1>4, <1>6, <1>7, <1>8 DEF N

\* A pass takes out no less than the one before.
LEMMA PeeledGrows ==
  ASSUME NEW d, IsFiniteSet(DOMAIN d)
  PROVE  \A i \in 0 .. Cardinality(DOMAIN d) : \A j \in 0 .. i : Peeled(d)[j] \subseteq Peeled(d)[i]
<1> DEFINE N == Cardinality(DOMAIN d)
           t == Peeled(d)
<1>a. /\ N \in Nat /\ t[0] = {}
      /\ \A i \in 0 .. N - 1 : t[i + 1] = Ready(d, t[i])
  BY PeeledIs
<1> HIDE DEF N, t
<1>1. \A i \in 0 .. N - 1 : t[i] \subseteq t[i + 1]
  <2> DEFINE Bad == {i \in 0 .. N - 1 : ~(t[i] \subseteq t[i + 1])}
  <2>1. SUFFICES ASSUME Bad # {} PROVE FALSE  OBVIOUS
  <2>2. PICK k \in Bad : \A j \in Bad : k <= j
    <3>1. Bad \in SUBSET Nat  BY <1>a
    <3> HIDE DEF Bad
    <3>2. QED  BY <2>1, <3>1, Smallest
  <2>3. k # 0  BY <1>a
  <2>4. k - 1 \in 0 .. N - 1 /\ (k - 1) + 1 = k /\ ~(k <= k - 1)  BY <1>a, <2>3
  <2>5. t[k - 1] \subseteq t[k]  BY <2>2, <2>4
  <2>6. Ready(d, t[k - 1]) \subseteq Ready(d, t[k])  BY <2>5 DEF Ready
  <2>7. t[k] = Ready(d, t[k - 1])
    <3>1. t[(k - 1) + 1] = Ready(d, t[k - 1])  BY <1>a, <2>4
    <3>2. QED  BY <2>4, <3>1
  <2>8. t[k + 1] = Ready(d, t[k])  BY <1>a
  <2>9. QED  BY <2>6, <2>7, <2>8
<1>2. SUFFICES ASSUME NEW i \in 0 .. N, NEW j \in 0 .. i, ~(t[j] \subseteq t[i]) PROVE FALSE
  BY DEF N, t
<1> DEFINE Bad == {k \in j .. i : ~(t[j] \subseteq t[k])}
<1>3. PICK k \in Bad : \A l \in Bad : k <= l
  <2>1. Bad \in SUBSET Nat /\ i \in Bad  BY <1>a, <1>2
  <2> HIDE DEF Bad
  <2>2. QED  BY <2>1, Smallest
<1>4. k # j  OBVIOUS
<1>5. k - 1 \in j .. i /\ k - 1 \in 0 .. N - 1 /\ (k - 1) + 1 = k /\ ~(k <= k - 1)  BY <1>a, <1>4
<1>6. t[j] \subseteq t[k - 1]  BY <1>3, <1>5
<1>7. t[k - 1] \subseteq t[(k - 1) + 1]  BY <1>1, <1>5
<1>8. QED  BY <1>3, <1>5, <1>6, <1>7

\* As long as something is taken out, every pass takes out one project at least.
LEMMA PeeledCount ==
  ASSUME NEW d, IsFiniteSet(DOMAIN d)
  PROVE  \A i \in 0 .. Cardinality(DOMAIN d) :
           \/ Ready(d, Peeled(d)[i]) = Peeled(d)[i]
           \/ Cardinality(Peeled(d)[i]) >= i
<1> DEFINE N == Cardinality(DOMAIN d)
           t == Peeled(d)
           Bad == {i \in 0 .. N : ~(Ready(d, t[i]) = t[i] \/ Cardinality(t[i]) >= i)}
<1>a. /\ N \in Nat /\ t[0] = {}
      /\ \A i \in 0 .. N - 1 : t[i + 1] = Ready(d, t[i])
      /\ \A i \in 0 .. N : t[i] \in SUBSET DOMAIN d
  BY PeeledIs
<1>b. \A i \in 0 .. N : IsFiniteSet(t[i]) /\ Cardinality(t[i]) \in Nat
  BY <1>a, FS_Subset, FS_CardinalityType
<1>c. \A i \in 0 .. N : \A j \in 0 .. i : t[j] \subseteq t[i]  BY PeeledGrows
<1>1. SUFFICES ASSUME Bad # {} PROVE FALSE  OBVIOUS
<1> HIDE DEF N, t
<1>2. PICK k \in Bad : \A j \in Bad : k <= j
  <2>1. Bad \in SUBSET Nat  BY <1>a
  <2> HIDE DEF Bad
  <2>2. QED  BY <1>1, <2>1, Smallest
<1>3. k # 0  BY <1>b
<1>4. k - 1 \in 0 .. N - 1 /\ k - 1 \in 0 .. N /\ (k - 1) + 1 = k /\ ~(k <= k - 1) /\ k - 1 \in 0 .. k
  BY <1>a, <1>3
<1>5. Ready(d, t[k - 1]) = t[k - 1] \/ Cardinality(t[k - 1]) >= k - 1  BY <1>2, <1>4
<1>6. t[k] = Ready(d, t[k - 1])
  <2>1. t[(k - 1) + 1] = Ready(d, t[k - 1])  BY <1>a, <1>4
  <2>2. QED  BY <1>4, <2>1
<1>7. Ready(d, t[k - 1]) # t[k - 1]  BY <1>6
<1>8. t[k - 1] \subseteq t[k] /\ t[k - 1] # t[k]
  <2>1. t[k - 1] \subseteq t[k]  BY <1>c, <1>4
  <2>2. QED  BY <2>1, <1>6, <1>7
<1>9. Cardinality(t[k - 1]) < Cardinality(t[k])
  <2>1. t[k - 1] \in SUBSET t[k] /\ IsFiniteSet(t[k])  BY <1>b, <1>8
  <2>2. /\ Cardinality(t[k - 1]) <= Cardinality(t[k])
        /\ Cardinality(t[k]) = Cardinality(t[k - 1]) => t[k] = t[k - 1]
    BY <2>1, FS_Subset
  <2>3. Cardinality(t[k - 1]) \in Nat /\ Cardinality(t[k]) \in Nat  BY <1>b, <1>4
  <2>4. QED  BY <1>8, <2>2, <2>3
<1>10. Cardinality(t[k]) >= k
  <2>1. Cardinality(t[k - 1]) \in Nat /\ Cardinality(t[k]) \in Nat /\ k \in Nat  BY <1>a, <1>b, <1>4
  <2>2. QED  BY <1>5, <1>7, <1>9, <2>1
<1>11. QED  BY <1>10

\* So that after as many passes as there are projects, none takes out anything.
LEMMA PeeledIsAll ==
  ASSUME NEW d, IsFiniteSet(DOMAIN d), KnownDeps(d)
  PROVE  LET all == Peeled(d)[Cardinality(DOMAIN d)]
         IN  all \in SUBSET DOMAIN d /\ Ready(d, all) = all
<1> DEFINE N == Cardinality(DOMAIN d)
           all == Peeled(d)[N]
<1>1. N \in Nat /\ all \in SUBSET DOMAIN d  BY PeeledIs
<1>2. Ready(d, all) = all \/ Cardinality(all) >= N  BY <1>1, PeeledCount
<1>3. Cardinality(all) >= N => all = DOMAIN d
  <2>1. /\ Cardinality(all) <= N /\ Cardinality(all) \in Nat
        /\ N = Cardinality(all) => all = DOMAIN d
    BY <1>1, FS_Subset, FS_CardinalityType
  <2>2. QED  BY <1>1, <2>1
<1>4. Ready(d, DOMAIN d) = DOMAIN d  BY DEF Ready, KnownDeps
<1>5. QED  BY <1>1, <1>2, <1>3, <1>4

-----------------------------------------------------------------------------
(* The request.                                                            *)

RequestTyped == lists \in [Names -> Seq(Names \cup {Unknown})]

\* What is taken out by k passes, and by as many as there are nodes.
Pass(k) == Peeled(Deps)[k]
All     == Pass(Cardinality(Names))

\* The positions in the list of n that do not name a node of S: with the nodes of S
\* processed, the degree of n is their number.
Unmet(n, S) == {i \in DOMAIN lists[n] : lists[n][i] \notin S}

LEMMA Passes ==
  /\ Cardinality(Names) \in Nat
  /\ Pass(0) = {}
  /\ \A i \in 0 .. Cardinality(Names) - 1 : Pass(i + 1) = Ready(Deps, Pass(i))
  /\ \A i \in 0 .. Cardinality(Names) : Pass(i) \in SUBSET Names
  /\ \A i \in 0 .. Cardinality(Names) : \A j \in 0 .. i : Pass(j) \subseteq Pass(i)
  /\ KnownDeps(Deps) => Ready(Deps, All) = All
<1>1. DOMAIN Deps = Names /\ IsFiniteSet(DOMAIN Deps)  BY SortAssumption DEF Deps
<1>2. QED  BY <1>1, PeeledIs, PeeledGrows, PeeledIsAll DEF Pass, All

\* A set with every node whose dependencies are in it has all that is ever taken out.
LEMMA Fixed ==
  ASSUME NEW S, Ready(Deps, S) \subseteq S
  PROVE  All \subseteq S
<1> DEFINE N == Cardinality(Names)
           Bad == {j \in 0 .. N : ~(Pass(j) \subseteq S)}
<1>a. N \in Nat /\ Pass(0) = {} /\ \A i \in 0 .. N - 1 : Pass(i + 1) = Ready(Deps, Pass(i))
  BY Passes
<1> HIDE DEF N
<1>1. Bad = {}
  <2>1. SUFFICES ASSUME Bad # {} PROVE FALSE  OBVIOUS
  <2>2. PICK i \in Bad : \A j \in Bad : i <= j
    <3>1. Bad \in SUBSET Nat  BY <1>a
    <3> HIDE DEF Bad
    <3>2. QED  BY <2>1, <3>1, Smallest
  <2>3. i # 0  BY <1>a
  <2>4. i - 1 \in 0 .. N - 1 /\ i - 1 \in 0 .. N /\ (i - 1) + 1 = i /\ ~(i <= i - 1)
    BY <1>a, <2>3
  <2>5. Pass(i - 1) \subseteq S  BY <2>2, <2>4
  <2>6. Pass((i - 1) + 1) = Ready(Deps, Pass(i - 1))  BY <1>a, <2>4
  <2>7. Ready(Deps, Pass(i - 1)) \subseteq Ready(Deps, S)  BY <2>5 DEF Ready
  <2>8. QED  BY <2>4, <2>6, <2>7
<1>2. N \in 0 .. N  BY <1>a
<1>3. QED  BY <1>1, <1>2 DEF All, N

LEMMA Ranks == KnownDeps(Deps) => (Acyclic <=> All = Names)
<1> SUFFICES ASSUME KnownDeps(Deps) PROVE Acyclic <=> All = Names  OBVIOUS
<1> DEFINE N == Cardinality(Names)
<1>a. /\ N \in Nat /\ Pass(0) = {} /\ All \in SUBSET Names /\ Ready(Deps, All) = All
      /\ \A i \in 0 .. N - 1 : Pass(i + 1) = Ready(Deps, Pass(i))
      /\ \A i \in 0 .. N : \A j \in 0 .. i : Pass(j) \subseteq Pass(i)
  <2>1. All \in SUBSET Names
    <3>1. N \in 0 .. N  BY Passes
    <3>2. QED  BY <3>1, Passes DEF All
  <2>2. QED  BY <2>1, Passes
<1>b. DOMAIN Deps = Names /\ \A n \in Names : Deps[n] \subseteq Names
  BY DEF Deps, KnownDeps
<1>c. All = Pass(N)  BY DEF All
<1> HIDE DEF N
<1>1. ASSUME All = Names PROVE Acyclic
  <2>1. ASSUME NEW n \in Names PROVE \E i \in 1 .. N : n \in Pass(i) /\ n \notin Pass(i - 1)
    <3> DEFINE S == {i \in 0 .. N : n \in Pass(i)}
    <3>1. S \in SUBSET Nat /\ N \in S  BY <1>1, <1>a, <1>c
    <3> HIDE DEF S
    <3>2. PICK i \in S : \A j \in S : i <= j  BY <3>1, Smallest
    <3>3. i # 0 /\ i \in 0 .. N  BY <1>a, <3>2 DEF S
    <3>4. i - 1 \in 0 .. N /\ i \in 1 .. N /\ ~(i <= i - 1)  BY <1>a, <3>3
    <3>5. i - 1 \notin S  BY <3>2, <3>4
    <3>6. QED  BY <3>2, <3>4, <3>5 DEF S
  <2> DEFINE rank == [n \in Names |-> CHOOSE i \in 1 .. N : n \in Pass(i) /\ n \notin Pass(i - 1)]
  <2>2. \A n \in Names : /\ rank[n] \in 1 .. N /\ n \in Pass(rank[n])
                         /\ n \notin Pass(rank[n] - 1)
    BY <2>1
  <2>3. rank \in [Names -> 1 .. N]  BY <2>2
  <2> HIDE DEF rank
  <2>4. ASSUME NEW n \in Names, NEW m \in Deps[n] PROVE rank[m] < rank[n]
    <3>1. m \in Names  BY <1>b
    <3>2. /\ rank[n] \in 1 .. N /\ rank[n] - 1 \in 0 .. N - 1 /\ (rank[n] - 1) + 1 = rank[n]
          /\ rank[m] \in 1 .. N /\ rank[m] - 1 \in 0 .. N
      BY <1>a, <2>2, <3>1
    <3>3. m \in Pass(rank[n] - 1)
      <4>1. Pass((rank[n] - 1) + 1) = Ready(Deps, Pass(rank[n] - 1))  BY <1>a, <3>2
      <4>2. n \in Ready(Deps, Pass(rank[n] - 1))  BY <2>2, <3>2, <4>1
      <4>3. QED  BY <4>2 DEF Ready
    <3>4. ~(rank[n] - 1 \in 0 .. rank[m] - 1)
      <4>1. m \notin Pass(rank[m] - 1)  BY <2>2, <3>1
      <4>2. QED  BY <1>a, <3>2, <3>3, <4>1
    <3>5. QED  BY <1>a, <3>2, <3>4
  <2>5. QED  BY <2>3, <2>4 DEF Acyclic, N
<1>2. ASSUME Acyclic PROVE All = Names
  <2>1. PICK rank \in [Names -> 1 .. N] : \A n \in Names : \A m \in Deps[n] : rank[m] < rank[n]
    BY <1>2 DEF Acyclic, N
  <2> DEFINE Behind == {rank[n] : n \in Names \ All}
  <2>2. SUFFICES ASSUME Names \ All # {} PROVE FALSE  BY <1>a
  <2>3. Behind \in SUBSET Nat /\ Behind # {}  BY <1>a, <2>1, <2>2
  <2> HIDE DEF Behind
  <2>4. PICK r \in Behind : \A q \in Behind : r <= q  BY <2>3, Smallest
  <2>5. PICK n \in Names \ All : r = rank[n]  BY <2>4 DEF Behind
  <2>6. Deps[n] \subseteq All
    <3>1. SUFFICES ASSUME NEW m \in Deps[n], m \notin All PROVE FALSE  OBVIOUS
    <3>2. m \in Names /\ rank[m] < rank[n]  BY <1>b, <2>1
    <3>3. rank[n] <= rank[m]  BY <2>4, <2>5, <3>1, <3>2 DEF Behind
    <3>4. rank[n] \in Nat /\ rank[m] \in Nat  BY <1>a, <2>1, <3>2
    <3>5. QED  BY <3>2, <3>3, <3>4
  <2>7. n \in Ready(Deps, All)  BY <1>b, <2>6 DEF Ready
  <2>8. QED  BY <1>a, <2>5, <2>7
<1>3. QED  BY <1>1, <1>2

LEMMA Verdict == ValidateProjectDAG(Deps) <=> KnownDeps(Deps) /\ All = Names
BY DEF ValidateProjectDAG, All, Pass, Deps

\* Degrees: of a node whose dependencies are processed there is none left, and to
\* process more nodes is to count their names out.
LEMMA DegreeLeft ==
  ASSUME RequestTyped, NEW n \in Names, NEW S
  PROVE  /\ IsFiniteSet(Unmet(n, S)) /\ Cardinality(Unmet(n, S)) \in Nat
         /\ Cardinality(Unmet(n, S)) = 0 <=> Deps[n] \subseteq S
         /\ \A T : S \subseteq T =>
              Cardinality(Unmet(n, S)) - Cardinality(Naming(n, T \ S)) = Cardinality(Unmet(n, T))
<1>1. IsFiniteSet(DOMAIN lists[n])
  <2>1. lists[n] \in Seq(Names \cup {Unknown})  BY DEF RequestTyped
  <2>2. DOMAIN lists[n] = 1 .. Len(lists[n]) /\ Len(lists[n]) \in Nat  BY <2>1
  <2>3. IsFiniteSet(1 .. Len(lists[n]))  BY <2>2, FS_Interval
  <2>4. QED  BY <2>2, <2>3
<1>2. IsFiniteSet(Unmet(n, S)) /\ Cardinality(Unmet(n, S)) \in Nat
  BY <1>1, FS_Subset, FS_CardinalityType DEF Unmet
<1>3. Cardinality(Unmet(n, S)) = 0 <=> Unmet(n, S) = {}  BY <1>2, FS_EmptySet
<1>4. Unmet(n, S) = {} <=> Deps[n] \subseteq S  BY DEF Unmet, Deps, ToSet
<1>5. ASSUME NEW T, S \subseteq T
      PROVE  Cardinality(Unmet(n, S)) - Cardinality(Naming(n, T \ S)) = Cardinality(Unmet(n, T))
  <2>1. Unmet(n, T) = Unmet(n, S) \ Naming(n, T \ S)  BY <1>5 DEF Unmet, Naming
  <2>2. Unmet(n, S) \cap Naming(n, T \ S) = Naming(n, T \ S)  BY DEF Unmet, Naming
  <2>3. QED  BY <1>2, <2>1, <2>2, FS_Difference
<1>6. QED  BY <1>2, <1>3, <1>4, <1>5

\* The map inDegree for the nodes of R, with those of S processed.
Left(S, R) == [n \in R |-> Cardinality(Unmet(n, S))]

LEMMA LeftZeros ==
  ASSUME RequestTyped, NEW S, NEW R \in SUBSET Names
  PROVE  Zeros(Left(S, R)) = Ready(Deps, S) \cap R
<1>1. \A n \in R : Cardinality(Unmet(n, S)) = 0 <=> Deps[n] \subseteq S  BY DegreeLeft
<1>2. DOMAIN Deps = Names  BY DEF Deps
<1>3. QED  BY <1>1, <1>2 DEF Zeros, Left, Ready

LEMMA LeftWithout ==
  ASSUME RequestTyped, NEW S, NEW R \in SUBSET Names, inDegree = Left(S, R),
         NEW T, S \subseteq T, NEW Q \in SUBSET R
  PROVE  Without(T \ S, Q) = Left(T, Q)
<1>1. \A n \in Q : inDegree[n] = Cardinality(Unmet(n, S))  BY DEF Left
<1>2. \A n \in Q : Cardinality(Unmet(n, S)) - Cardinality(Naming(n, T \ S)) = Cardinality(Unmet(n, T))
  BY DegreeLeft
<1>3. QED  BY <1>1, <1>2 DEF Without, Left

LEMMA LeftAtFirst == RequestTyped => Degrees = Left({}, Names)
<1>1. SUFFICES ASSUME RequestTyped, NEW n \in Names PROVE Len(lists[n]) = Cardinality(Unmet(n, {}))
  BY DEF Degrees, Left
<1>2. lists[n] \in Seq(Names \cup {Unknown})  BY <1>1 DEF RequestTyped
<1>3. DOMAIN lists[n] = 1 .. Len(lists[n]) /\ Len(lists[n]) \in Nat  BY <1>2
<1>4. Unmet(n, {}) = 1 .. Len(lists[n])  BY <1>3 DEF Unmet
<1>5. Cardinality(1 .. Len(lists[n])) = Len(lists[n])  BY <1>3, FS_Interval
<1>6. QED  BY <1>4, <1>5

-----------------------------------------------------------------------------
(* The invariant.                                                          *)

\* First pass: the queue is what is left to be visited of the nodes of degree zero.
Visited == Zeros(inDegree) \ queue

Visiting ==
  /\ KnownDeps(Deps) /\ layers = << >>
  /\ queue \subseteq Zeros(inDegree) /\ Zeros(inDegree) \subseteq All
  /\ inDegree = Left(Visited, Names)
  /\ visited = Cardinality(Visited)

\* Second pass: one layer for each of the first k passes, which all took something out.
Layered(k) ==
  /\ layers = [j \in 1 .. k |-> Pass(j) \ Pass(j - 1)]
  /\ \A j \in 1 .. k : Pass(j) # Pass(j - 1)

SortInv ==
  /\ RequestTyped
  /\ sortAt \in {"check", "visit", "layer", "accepted", "rejected"}
  /\ sortAt = "check" => queue = {} /\ visited = 0 /\ layers = << >>
  /\ sortAt = "visit" => Visiting
  /\ sortAt = "layer" =>
       /\ KnownDeps(Deps) /\ All = Names
       /\ \E k \in 0 .. Cardinality(Names) :
            Layered(k) /\ inDegree = Left(Pass(k), Names \ Pass(k))
  /\ sortAt = "accepted" =>
       /\ KnownDeps(Deps) /\ All = Names
       /\ \E k \in 0 .. Cardinality(Names) : Layered(k) /\ Pass(k) = Names
  /\ sortAt = "rejected" => ~(KnownDeps(Deps) /\ All = Names)

LEMMA SortStarts == SortInit => SortInv
<1> SUFFICES ASSUME SortInit PROVE SortInv  OBVIOUS
<1>1. lists \in [Names -> BoundedSeq(Names \cup {Unknown}, MaxDeps)]  BY DEF SortInit
<1>2. BoundedSeq(Names \cup {Unknown}, MaxDeps) \subseteq Seq(Names \cup {Unknown})
  <2>1. ASSUME NEW m \in Nat PROVE [1 .. m -> Names \cup {Unknown}] \subseteq Seq(Names \cup {Unknown})
    OBVIOUS
  <2>2. QED  BY <2>1, SortAssumption DEF BoundedSeq, SeqOf
<1>3. RequestTyped  BY <1>1, <1>2 DEF RequestTyped
<1>4. QED  BY <1>3 DEF SortInit, SortInv

\* The request does not change, nor does what is computed from it.
LEMMA SameRequest ==
  ASSUME lists' = lists
  PROVE  /\ RequestTyped' = RequestTyped /\ Deps' = Deps /\ All' = All
         /\ \A k : Pass(k)' = Pass(k)
         /\ \A n, S : Unmet(n, S)' = Unmet(n, S)
         /\ \A S, R : Left(S, R)' = Left(S, R)
<1>1. Deps' = Deps  BY DEF Deps
<1>2. \A k : Pass(k)' = Pass(k)  BY <1>1 DEF Pass
<1>3. All' = All  BY <1>2 DEF All
<1>4. \A n, S : Unmet(n, S)' = Unmet(n, S)  BY DEF Unmet
<1>5. \A S, R : Left(S, R)' = Left(S, R)  BY <1>4 DEF Left
<1>6. QED  BY <1>1, <1>2, <1>3, <1>4, <1>5 DEF RequestTyped

LEMMA NamesChecked == SortInv /\ CheckNames => SortInv'
<1> SUFFICES ASSUME SortInv, CheckNames PROVE SortInv'  OBVIOUS
<1>a. /\ lists' = lists /\ visited' = visited /\ layers' = layers /\ RequestTyped
      /\ queue = {} /\ visited = 0 /\ layers = << >>
  BY DEF SortInv, CheckNames
<1>b. /\ RequestTyped' = RequestTyped /\ Deps' = Deps /\ All' = All
      /\ \A S, R : Left(S, R)' = Left(S, R)
  BY <1>a, SameRequest
<1>1. CASE KnownDeps(Deps)
  <2>1. sortAt' = "visit" /\ inDegree' = Left({}, Names) /\ queue' = Zeros(Left({}, Names))
    BY <1>1, <1>a, LeftAtFirst DEF CheckNames
  <2>2. Zeros(Left({}, Names)) \subseteq All
    <3>1. Zeros(Left({}, Names)) \subseteq Ready(Deps, {})  BY <1>a, LeftZeros
    <3>2. Ready(Deps, {}) \subseteq Ready(Deps, All)  BY DEF Ready
    <3>3. QED  BY <1>1, <3>1, <3>2, Passes
  <2>3. Visited' = {}  BY <2>1 DEF Visited
  <2>4. Cardinality({}) = 0  BY FS_EmptySet
  <2>5. Visiting'  BY <1>1, <1>a, <1>b, <2>1, <2>2, <2>3, <2>4 DEF Visiting, KnownDeps, Zeros
  <2>6. QED  BY <1>a, <1>b, <2>1, <2>5 DEF SortInv
<1>2. CASE ~KnownDeps(Deps)
  <2>1. sortAt' = "rejected"  BY <1>2 DEF CheckNames
  <2>2. ~KnownDeps(Deps)'  BY <1>2, <1>b DEF KnownDeps
  <2>3. QED  BY <1>a, <1>b, <2>1, <2>2 DEF SortInv
<1>3. QED  BY <1>1, <1>2

LEMMA NodeVisited == ASSUME SortInv, NEW n \in Names, Visit(n) PROVE SortInv'
<1>a. /\ lists' = lists /\ layers' = layers /\ sortAt = "visit" /\ sortAt' = "visit"
      /\ RequestTyped /\ Visiting /\ n \in queue
  BY DEF SortInv, Visit
<1>b. /\ RequestTyped' = RequestTyped /\ Deps' = Deps /\ All' = All
      /\ \A S, R : Left(S, R)' = Left(S, R)
  BY <1>a, SameRequest
<1> DEFINE P == Visited
           Q == P \cup {n}
           zeros == Zeros(inDegree)
<1>1. P \subseteq zeros /\ zeros = P \cup queue /\ P \cap queue = {} /\ n \notin P
  BY <1>a DEF Visited, Visiting
<1>2. inDegree' = Left(Q, Names)
  <2>1. inDegree' = Without({n}, Names)  BY DEF Visit
  <2>2. Q \ P = {n} /\ P \subseteq Q  BY <1>1
  <2>3. inDegree = Left(P, Names)  BY <1>a DEF Visiting
  <2> HIDE DEF P, Q
  <2>4. Without(Q \ P, Names) = Left(Q, Names)  BY <1>a, <2>2, <2>3, LeftWithout
  <2>5. QED  BY <2>1, <2>2, <2>4
<1>3. zeros = Ready(Deps, P)
  <2>1. inDegree = Left(P, Names)  BY <1>a DEF Visiting
  <2>2. Zeros(Left(P, Names)) = Ready(Deps, P) \cap Names  BY <1>a, LeftZeros
  <2>3. QED  BY <2>1, <2>2 DEF Ready, Deps
<1>4. Zeros(inDegree') = Ready(Deps, Q)
  <2>1. Zeros(Left(Q, Names)) = Ready(Deps, Q) \cap Names  BY <1>a, LeftZeros
  <2>2. QED  BY <1>2, <2>1 DEF Ready, Deps
<1>5. zeros \subseteq Zeros(inDegree')  BY <1>3, <1>4 DEF Ready
<1>6. queue' = (queue \ {n}) \cup (Zeros(inDegree') \ zeros)  BY DEF Visit
<1>7. Zeros(inDegree') \ queue' = Q
  <2> HIDE DEF P, zeros
  <2>1. QED  BY <1>1, <1>5, <1>6, <1>a
<1>8. queue' \subseteq Zeros(inDegree')
  <2> HIDE DEF P, zeros
  <2>1. QED  BY <1>1, <1>5, <1>6
<1>9. Zeros(inDegree') \subseteq All
  <2>1. Q \subseteq All
    <3>1. zeros \subseteq All  BY <1>a DEF Visiting
    <3>2. QED  BY <1>1, <1>a, <3>1
  <2>2. Ready(Deps, Q) \subseteq Ready(Deps, All)  BY <2>1 DEF Ready
  <2>3. KnownDeps(Deps)  BY <1>a DEF Visiting
  <2>4. Ready(Deps, All) = All  BY <2>3, Passes
  <2>5. QED
    <3> HIDE DEF Q
    <3>1. QED  BY <1>4, <2>2, <2>4
<1>10. visited' = Cardinality(Q)
  <2>1. P \subseteq Names  BY <1>1, <1>3 DEF Ready, Deps
  <2>2. IsFiniteSet(P)  BY <2>1, SortAssumption, FS_Subset
  <2>3. Cardinality(Q) = Cardinality(P) + 1  BY <1>1, <2>2, FS_AddElement
  <2>4. visited = Cardinality(P)  BY <1>a DEF Visiting
  <2>5. QED  BY <2>3, <2>4 DEF Visit
<1>11. Visited' = Q  BY <1>7 DEF Visited
<1>12. KnownDeps(Deps)' /\ layers' = << >>
  BY <1>a, <1>b DEF Visiting, KnownDeps
<1>13. Zeros(inDegree)' = Zeros(inDegree')  BY DEF Zeros
<1>14. Visiting'
  <2> HIDE DEF P, Q, zeros
  <2>1. (inDegree = Left(Visited, Names))'  BY <1>2, <1>11, <1>b
  <2>2. (visited = Cardinality(Visited))'  BY <1>10, <1>11
  <2>3. QED  BY <1>8, <1>9, <1>12, <1>13, <1>b, <2>1, <2>2 DEF Visiting
<1>15. QED  BY <1>a, <1>b, <1>14 DEF SortInv

\* Every node is visited exactly when every node is taken out by some pass.
LEMMA CycleChecked == SortInv /\ CheckCycle => SortInv'
<1> SUFFICES ASSUME SortInv, CheckCycle PROVE SortInv'  OBVIOUS
<1>a. /\ lists' = lists /\ layers' = layers /\ sortAt = "visit" /\ queue = {}
      /\ RequestTyped /\ Visiting
  BY DEF SortInv, CheckCycle
<1>b. /\ RequestTyped' = RequestTyped /\ Deps' = Deps /\ All' = All
      /\ \A k : Pass(k)' = Pass(k)
      /\ \A S, R : Left(S, R)' = Left(S, R)
  BY <1>a, SameRequest
<1>c. KnownDeps(Deps) /\ KnownDeps(Deps)'  BY <1>a, <1>b DEF Visiting, KnownDeps
<1>1. Visited = All
  <2>1. Visited = Zeros(inDegree)  BY <1>a DEF Visited
  <2>2. Zeros(Left(Visited, Names)) = Ready(Deps, Visited) \cap Names  BY <1>a, LeftZeros
  <2>3. Visited = Ready(Deps, Visited)  BY <1>a, <2>1, <2>2 DEF Ready, Deps, Visiting
  <2>4. All \subseteq Visited  BY <2>3, Fixed
  <2>5. QED  BY <1>a, <2>1, <2>4 DEF Visiting
<1>2. visited = Cardinality(Names) <=> All = Names
  <2>1. All \in SUBSET Names
    <3>1. Cardinality(Names) \in 0 .. Cardinality(Names)  BY Passes
    <3>2. QED  BY <3>1, Passes DEF All
  <2>2. Cardinality(Names) = Cardinality(All) => Names = All  BY <2>1, SortAssumption, FS_Subset
  <2>3. QED  BY <1>1, <1>a, <2>2 DEF Visiting
<1>3. CASE All = Names
  <2>1. sortAt' = "layer" /\ inDegree' = Left({}, Names)
    BY <1>2, <1>3, <1>a, LeftAtFirst DEF CheckCycle
  <2>2. 0 \in 0 .. Cardinality(Names) /\ Pass(0) = {} /\ Names \ {} = Names  BY Passes
  <2>3. (inDegree = Left(Pass(0), Names \ Pass(0)))'  BY <1>b, <2>1, <2>2
  <2>4. Layered(0)'
    <3>1. layers' = << >>  BY <1>a DEF Visiting
    <3>2. 1 .. 0 = {}  OBVIOUS
    <3>3. QED  BY <3>1, <3>2 DEF Layered
  <2>5. \E k \in 0 .. Cardinality(Names) : (Layered(k) /\ inDegree = Left(Pass(k), Names \ Pass(k)))'
    BY <2>2, <2>3, <2>4
  <2>6. QED  BY <1>a, <1>b, <1>c, <1>3, <2>1, <2>5 DEF SortInv
<1>4. CASE All # Names
  <2>1. sortAt' = "rejected"  BY <1>2, <1>4 DEF CheckCycle
  <2>2. QED  BY <1>a, <1>b, <1>4, <2>1 DEF SortInv
<1>5. QED  BY <1>3, <1>4

\* Of what is left after k passes, the nodes without dependencies are those the
\* next pass takes out.
LEMMA NextLayer ==
  ASSUME SortInv, NEW k \in 0 .. Cardinality(Names), inDegree = Left(Pass(k), Names \ Pass(k))
  PROVE  DOMAIN inDegree = Names \ Pass(k) /\ Zeros(inDegree) = Ready(Deps, Pass(k)) \ Pass(k)
<1>1. RequestTyped  BY DEF SortInv
<1>2. Zeros(Left(Pass(k), Names \ Pass(k))) = Ready(Deps, Pass(k)) \cap (Names \ Pass(k))
  BY <1>1, LeftZeros
<1>3. QED  BY <1>2 DEF Left, Ready, Deps

LEMMA LayerTaken == SortInv /\ TakeLayer => SortInv'
<1> SUFFICES ASSUME SortInv, TakeLayer PROVE SortInv'  OBVIOUS
<1>a. /\ lists' = lists /\ sortAt = "layer" /\ sortAt' = "layer" /\ RequestTyped
      /\ KnownDeps(Deps) /\ All = Names
  BY DEF SortInv, TakeLayer
<1>b. /\ RequestTyped' = RequestTyped /\ Deps' = Deps /\ All' = All
      /\ \A k : Pass(k)' = Pass(k)
      /\ \A S, R : Left(S, R)' = Left(S, R)
  BY <1>a, SameRequest
<1> DEFINE N == Cardinality(Names)
<1>1. PICK k \in 0 .. N : Layered(k) /\ inDegree = Left(Pass(k), Names \ Pass(k))
  BY <1>a DEF SortInv
<1> DEFINE zeros == Zeros(inDegree)
<1>2. zeros # {} /\ DOMAIN inDegree = Names \ Pass(k) /\ zeros = Ready(Deps, Pass(k)) \ Pass(k)
  BY <1>1, NextLayer DEF TakeLayer
<1>3. N \in Nat  BY Passes
<1> HIDE DEF N
<1>4. k # N
  <2>1. k = N => Pass(k) = Names  BY <1>a DEF All, N
  <2>2. QED  BY <1>2, <2>1 DEF Ready, Deps
<1>5. k \in 0 .. N - 1 /\ k + 1 \in 0 .. N /\ k \in 0 .. k + 1 /\ (k + 1) - 1 = k  BY <1>3, <1>4
<1>6. Pass(k + 1) = Ready(Deps, Pass(k)) /\ Pass(k) \subseteq Pass(k + 1)
  BY <1>5, Passes DEF N
<1>7. zeros = Pass(k + 1) \ Pass(k)  BY <1>2, <1>6
<1>8. Layered(k + 1)'
  <2>1. layers = [j \in 1 .. k |-> Pass(j) \ Pass(j - 1)]
    BY <1>1 DEF Layered
  <2>2. layers' = Append(layers, zeros)  BY DEF TakeLayer
  <2>3. Len(layers) = k /\ DOMAIN layers = 1 .. k /\ k \in Nat  BY <2>1, <1>3
  <2>4. layers' = [j \in 1 .. k + 1 |-> IF j = k + 1 THEN zeros ELSE layers[j]]
    BY <2>1, <2>2, <2>3
  <2>5. \A j \in 1 .. k + 1 : j # k + 1 => j \in 1 .. k  BY <2>3
  <2>6. layers' = [j \in 1 .. k + 1 |-> Pass(j) \ Pass(j - 1)]
    <3> HIDE DEF zeros
    <3>1. \A j \in 1 .. k + 1 : (IF j = k + 1 THEN zeros ELSE layers[j]) = Pass(j) \ Pass(j - 1)
      BY <1>5, <1>7, <2>1, <2>5
    <3>2. QED  BY <2>4, <3>1
  <2>7. \A j \in 1 .. k + 1 : Pass(j) # Pass(j - 1)
    BY <1>1, <1>2, <1>5, <1>7, <2>5 DEF Layered
  <2>8. QED  BY <1>b, <2>6, <2>7 DEF Layered
<1>9. (inDegree = Left(Pass(k + 1), Names \ Pass(k + 1)))'
  <2>1. DOMAIN inDegree \ zeros = Names \ Pass(k + 1)  BY <1>2, <1>6, <1>7
  <2>2. inDegree' = Without(zeros, DOMAIN inDegree \ zeros)  BY DEF TakeLayer
  <2>3. Names \ Pass(k + 1) \in SUBSET (Names \ Pass(k))  BY <1>6
  <2>4. Without(Pass(k + 1) \ Pass(k), Names \ Pass(k + 1)) = Left(Pass(k + 1), Names \ Pass(k + 1))
    BY <1>1, <1>6, <1>a, <2>3, LeftWithout
  <2>5. QED  BY <1>7, <1>b, <2>1, <2>2, <2>4
<1>10. \E i \in 0 .. N : (Layered(i) /\ inDegree = Left(Pass(i), Names \ Pass(i)))'
  BY <1>5, <1>8, <1>9
<1>11. KnownDeps(Deps)'  BY <1>a, <1>b DEF KnownDeps
<1>12. QED  BY <1>a, <1>b, <1>10, <1>11 DEF SortInv, N

LEMMA LayersEnd == SortInv /\ EndLayers => SortInv'
<1> SUFFICES ASSUME SortInv, EndLayers PROVE SortInv'  OBVIOUS
<1>a. /\ lists' = lists /\ layers' = layers /\ sortAt = "layer" /\ RequestTyped
      /\ KnownDeps(Deps) /\ All = Names
  BY DEF SortInv, EndLayers
<1>b. RequestTyped' = RequestTyped /\ Deps' = Deps /\ All' = All /\ \A k : Pass(k)' = Pass(k)
  BY <1>a, SameRequest
<1>1. PICK k \in 0 .. Cardinality(Names) : Layered(k) /\ inDegree = Left(Pass(k), Names \ Pass(k))
  BY <1>a DEF SortInv
<1>2. DOMAIN inDegree = Names \ Pass(k) /\ Ready(Deps, Pass(k)) \subseteq Pass(k)
  BY <1>1, NextLayer DEF EndLayers
<1>3. Pass(k) = Names
  <2>1. All \subseteq Pass(k)  BY <1>2, Fixed
  <2>2. Pass(k) \in SUBSET Names  BY Passes
  <2>3. QED  BY <1>a, <2>1, <2>2
<1>4. sortAt' = "accepted"  BY <1>2, <1>3 DEF EndLayers
<1>5. (Layered(k) /\ Pass(k) = Names)'  BY <1>1, <1>3, <1>a, <1>b DEF Layered
<1>6. \E i \in 0 .. Cardinality(Names) : (Layered(i) /\ Pass(i) = Names)'  BY <1>5
<1>7. KnownDeps(Deps)'  BY <1>a, <1>b DEF KnownDeps
<1>8. QED  BY <1>a, <1>b, <1>4, <1>6, <1>7 DEF SortInv

LEMMA SortStutters == SortInv /\ UNCHANGED sortVars => SortInv'
<1> SUFFICES ASSUME SortInv, UNCHANGED sortVars PROVE SortInv'  OBVIOUS
<1>1. /\ lists' = lists /\ sortAt' = sortAt /\ inDegree' = inDegree /\ queue' = queue
      /\ visited' = visited /\ layers' = layers
  BY DEF sortVars
<1>2. /\ RequestTyped' = RequestTyped /\ Deps' = Deps /\ All' = All
      /\ \A k : Pass(k)' = Pass(k)
      /\ \A S, R : Left(S, R)' = Left(S, R)
  BY <1>1, SameRequest
<1>3. Visited' = Visited  BY <1>1 DEF Visited, Zeros
<1>4. Visiting' = Visiting  BY <1>1, <1>2, <1>3 DEF Visiting, KnownDeps, Zeros
<1>5. \A k : Layered(k)' = Layered(k)  BY <1>1, <1>2 DEF Layered
<1>6. KnownDeps(Deps)' = KnownDeps(Deps)  BY <1>2 DEF KnownDeps
<1>7. QED  BY <1>1, <1>2, <1>4, <1>5, <1>6 DEF SortInv

LEMMA SortInductive == SortInv /\ [SortNext]_sortVars => SortInv'
BY NamesChecked, NodeVisited, CycleChecked, LayerTaken, LayersEnd, SortStutters DEF SortNext

-----------------------------------------------------------------------------
(* What it gives.                                                          *)

\* BuildProjectLayers of ProjectDag ends where a pass has taken out every node.
LEMMA LayersAre ==
  ASSUME NEW k \in 0 .. Cardinality(Names), Pass(k) = Names, All = Names,
         \A j \in 1 .. k : Pass(j) # Pass(j - 1)
  PROVE  BuildProjectLayers(Deps) = [j \in 1 .. k |-> Pass(j) \ Pass(j - 1)]
<1> DEFINE N == Cardinality(Names)
           Stops(i) == /\ Pass(i) = Pass(N)
                       /\ \A j \in 0 .. N : Pass(j) = Pass(i) => i <= j
           depth == CHOOSE i \in 0 .. N : Stops(i)
<1>a. N \in Nat /\ \A i \in 0 .. N : \A j \in 0 .. i : Pass(j) \subseteq Pass(i)  BY Passes
<1>1. DOMAIN Deps = Names /\ DOMAIN Peeled(Deps) = 0 .. N
  <2>1. DOMAIN Deps = Names /\ IsFiniteSet(DOMAIN Deps)  BY SortAssumption DEF Deps
  <2>2. QED  BY <2>1, PeeledIs
<1>2. BuildProjectLayers(Deps) = [j \in 1 .. depth |-> Pass(j) \ Pass(j - 1)]
  BY <1>1, Zenon DEF BuildProjectLayers, Pass
<1>3. Stops(k)
  <2>1. SUFFICES ASSUME NEW j \in 0 .. N, Pass(j) = Pass(k), j < k PROVE FALSE
    BY <1>a DEF All
  <2>2. k - 1 \in 0 .. N /\ j \in 0 .. k - 1 /\ k - 1 \in 0 .. k /\ k \in 1 .. k  BY <1>a, <2>1
  <2>3. Pass(j) \subseteq Pass(k - 1) /\ Pass(k - 1) \subseteq Pass(k)  BY <1>a, <2>2
  <2>4. Pass(k) # Pass(k - 1)  BY <2>2
  <2>5. QED  BY <2>1, <2>3, <2>4
<1>4. ASSUME NEW i \in 0 .. N, Stops(i) PROVE i = k
  <2>1. k <= i /\ i <= k  BY <1>3, <1>4
  <2>2. QED  BY <1>a, <2>1
<1> HIDE DEF Stops
<1>5. depth = k  BY <1>3, <1>4
<1>6. QED  BY <1>2, <1>5

\* Of an accepted request, each node is in the layer of the pass that takes it out.
LEMMA LayersGood ==
  ASSUME SortInv, sortAt = "accepted" PROVE LayersAreRight
<1>1. PICK k \in 0 .. Cardinality(Names) : Layered(k) /\ Pass(k) = Names
  BY DEF SortInv
<1>2. KnownDeps(Deps) /\ All = Names  BY DEF SortInv
<1> DEFINE N == Cardinality(Names)
<1>a. /\ N \in Nat /\ Pass(0) = {}
      /\ \A i \in 0 .. N - 1 : Pass(i + 1) = Ready(Deps, Pass(i))
      /\ \A i \in 0 .. N : \A j \in 0 .. i : Pass(j) \subseteq Pass(i)
  BY Passes
<1>b. DOMAIN Deps = Names  BY DEF Deps
<1>c. k \in Nat /\ \A i \in 1 .. k : i \in 0 .. N /\ i - 1 \in 0 .. N - 1 /\ (i - 1) + 1 = i
  BY <1>a
<1>d. \A i \in 1 .. k : Pass(i) = Ready(Deps, Pass(i - 1))  BY <1>a, <1>c
<1> HIDE DEF N
<1>e. DOMAIN layers = 1 .. k /\ \A i \in 1 .. k : layers[i] = Pass(i) \ Pass(i - 1)
  BY <1>1 DEF Layered
<1>3. layers = BuildProjectLayers(Deps)  BY <1>1, <1>2, LayersAre DEF Layered
<1>4. ASSUME layers # << >> PROVE layers[1] = FirstLayer(Deps)
  <2>1. k # 0
    <3>1. k = 0 => DOMAIN layers = {}  BY <1>e
    <3>2. layers = [j \in 1 .. k |-> Pass(j) \ Pass(j - 1)]  BY <1>1 DEF Layered
    <3>3. QED  BY <1>4, <3>1, <3>2
  <2>2. 1 \in 1 .. k  BY <1>c, <2>1
  <2>3. layers[1] = Pass(1) \ Pass(0) /\ Pass(1) = Ready(Deps, Pass(0))
    <3>1. 1 - 1 = 0  OBVIOUS
    <3>2. QED  BY <1>d, <1>e, <2>2, <3>1
  <2>4. QED  BY <1>a, <2>3 DEF Ready, FirstLayer
<1>5. ASSUME NEW n \in Names
      PROVE  \E i \in DOMAIN layers :
               /\ n \in layers[i]
               /\ \A j \in DOMAIN layers \ {i} : n \notin layers[j]
               /\ Deps[n] \subseteq UNION {layers[j] : j \in 1 .. i - 1}
               /\ i > 1 => Deps[n] \cap layers[i - 1] # {}
  <2> DEFINE Out(m) == {j \in 0 .. k : m \in Pass(j)}
  <2>1. ASSUME NEW m \in Names
        PROVE  \E i \in 1 .. k : /\ m \in Pass(i) /\ m \notin Pass(i - 1)
                                /\ \A j \in 0 .. k : m \in Pass(j) => i <= j
    <3>1. Out(m) \in SUBSET Nat /\ k \in Out(m)  BY <1>1, <1>c
    <3> HIDE DEF Out
    <3>2. PICK i \in Out(m) : \A j \in Out(m) : i <= j  BY <3>1, Smallest
    <3>3. i \in 0 .. k /\ m \in Pass(i) /\ \A j \in 0 .. k : m \in Pass(j) => i <= j
      BY <3>2 DEF Out
    <3>4. i # 0  BY <1>a, <3>3
    <3>5. i \in 1 .. k /\ i - 1 \in 0 .. k /\ ~(i <= i - 1)  BY <1>c, <3>3, <3>4
    <3>6. QED  BY <3>3, <3>5
  <2>2. PICK i \in 1 .. k : /\ n \in Pass(i) /\ n \notin Pass(i - 1)
                            /\ \A j \in 0 .. k : n \in Pass(j) => i <= j
    BY <2>1
  <2>3. n \in layers[i]  BY <1>e, <2>2
  <2>4. ASSUME NEW j \in 1 .. k, j # i PROVE n \notin layers[j]
    <3>1. SUFFICES ASSUME n \in Pass(j), n \notin Pass(j - 1) PROVE FALSE  BY <1>e
    <3>2. i <= j  BY <2>2, <1>c, <3>1
    <3>3. i \in 0 .. j - 1 /\ j - 1 \in 0 .. N  BY <1>c, <1>a, <2>4, <3>2
    <3>4. Pass(i) \subseteq Pass(j - 1)  BY <1>a, <3>3
    <3>5. QED  BY <2>2, <3>1, <3>4
  <2>5. Deps[n] \subseteq Pass(i - 1)  BY <1>d, <2>2 DEF Ready
  <2>6. ASSUME NEW m \in Deps[n] PROVE \E j \in 1 .. i - 1 : m \in layers[j]
    <3>1. m \in Names  BY <1>2, <1>b DEF KnownDeps
    <3>2. PICK j \in 1 .. k : /\ m \in Pass(j) /\ m \notin Pass(j - 1)
                              /\ \A l \in 0 .. k : m \in Pass(l) => j <= l
      BY <2>1, <3>1
    <3>3. i - 1 \in 0 .. k /\ m \in Pass(i - 1)  BY <1>c, <2>5
    <3>4. j <= i - 1  BY <3>2, <3>3
    <3>5. j \in 1 .. i - 1  BY <1>c, <3>4
    <3>6. QED  BY <1>e, <3>2, <3>5
  <2>7. Deps[n] \subseteq UNION {layers[j] : j \in 1 .. i - 1}  BY <2>6
  <2>8. ASSUME i > 1 PROVE Deps[n] \cap layers[i - 1] # {}
    <3>1. i - 1 \in 1 .. k  BY <1>c, <2>8
    <3>2. ~(Deps[n] \subseteq Pass((i - 1) - 1))  BY <1>b, <1>d, <2>2, <3>1 DEF Ready
    <3>3. layers[i - 1] = Pass(i - 1) \ Pass((i - 1) - 1)  BY <1>e, <3>1
    <3>4. QED  BY <2>5, <3>2, <3>3
  <2>9. QED  BY <1>e, <2>3, <2>4, <2>7, <2>8
<1>6. QED  BY <1>3, <1>4, <1>5 DEF LayersAreRight

LEMMA SortGood == SortInv => SortIsRight
<1> SUFFICES ASSUME SortInv PROVE SortIsRight  OBVIOUS
<1>1. VerdictIsRight
  <2>1. sortAt = "accepted" => KnownDeps(Deps) /\ All = Names  BY DEF SortInv
  <2>2. sortAt = "rejected" => ~(KnownDeps(Deps) /\ All = Names)  BY DEF SortInv
  <2>3. QED  BY <2>1, <2>2, Ranks, Verdict DEF VerdictIsRight
<1>2. LayersAreRight
  <2>1. CASE sortAt = "accepted"  BY <2>1, LayersGood
  <2>2. CASE sortAt # "accepted"  BY <2>2 DEF LayersAreRight
  <2>3. QED  BY <2>1, <2>2
<1>3. ASSUME sortAt = "layer", Zeros(inDegree) = {} PROVE DOMAIN inDegree = {}
  <2>1. PICK k \in 0 .. Cardinality(Names) : inDegree = Left(Pass(k), Names \ Pass(k))
    BY <1>3 DEF SortInv
  <2>2. DOMAIN inDegree = Names \ Pass(k) /\ Ready(Deps, Pass(k)) \subseteq Pass(k)
    BY <1>3, <2>1, NextLayer
  <2>3. All \subseteq Pass(k)  BY <2>2, Fixed
  <2>4. QED  BY <1>3, <2>2, <2>3 DEF SortInv
<1>4. ASSUME sortAt = "accepted", Names # {} PROVE layers # << >>
  <2>1. PICK k \in 0 .. Cardinality(Names) : Layered(k) /\ Pass(k) = Names  BY <1>4 DEF SortInv
  <2>2. k # 0 /\ k \in 1 .. k  BY <1>4, <2>1, Passes
  <2>3. DOMAIN layers = 1 .. k  BY <2>1 DEF Layered
  <2>4. DOMAIN << >> = {}  OBVIOUS
  <2>5. QED  BY <2>2, <2>3, <2>4
<1>5. QED  BY <1>1, <1>2, <1>3, <1>4 DEF SortIsRight, SecondPassSucceeds

\* The two passes of ValidateProjectDAG and BuildProjectLayers, which the map iteration
\* feeds in any order, accept exactly the requests without unknown names and cycles,
\* and put each node in the layer right after the last of its dependencies.
THEOREM SortCorrect == SortSpec => []SortIsRight
<1>1. SortSpec => []SortInv
  BY SortStarts, SortInductive, PTL DEF SortSpec
<1>2. QED  BY <1>1, SortGood, PTL
=============================================================================
