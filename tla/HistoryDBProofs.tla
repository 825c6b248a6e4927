---------------------------- MODULE HistoryDBProofs ----------------------------
(***************************************************************************)
(* Lemmas about the operators of HistoryDB, for a history of any length:   *)
(* what the sums of the dashboard yield when a run is stored, and which    *)
(* runs a page of the history shows.                                       *)
(*                                                                         *)
(* A sum folds + over the rows.  The recursion of the fold is over the     *)
(* subsets of the rows, and what is said of all of them is proved by a     *)
(* smallest counterexample: strict inclusion is well-founded on a finite   *)
(* set.                                                                    *)
(***************************************************************************)
EXTENDS HistoryDB, FiniteSetTheorems, WellFoundedInduction, TLAPS

-----------------------------------------------------------------------------
(* Sums.                                                                   *)

\* Among some subsets of a finite set one has none of the others inside it.
LEMMA LeastSubset ==
  ASSUME NEW S, IsFiniteSet(S), NEW B \in SUBSET (SUBSET S), B # {}
  PROVE  \E T \in B : \A U \in B : U \subseteq T => U = T
<1>1. IsWellFoundedOn(StrictSubsetOrdering(S), SUBSET S)
  BY FS_StrictSubsetOrderingWellFounded, FS_FiniteSubsetsOfFinite
<1>2. PICK T \in B : \A U \in B : <<U, T>> \notin StrictSubsetOrdering(S)
  BY <1>1, WFMin
<1>3. \A U \in B : <<U, T>> \notin StrictSubsetOrdering(S) => ~(U \subseteq T /\ U # T)
  BY DEF StrictSubsetOrdering
<1> QED
  BY <1>2, <1>3

\* What the fold of a function takes next.
Pick(s) == CHOOSE x \in s : TRUE

\* The sums that the fold goes through: g[s] is the sum of f over the part s of S.
IsSum(g, f, S) ==
  g = [s \in SUBSET S |-> IF s = {} THEN 0 ELSE f[Pick(s)] + g[s \ {Pick(s)}]]

\* Sums over a set and over a part of it agree on the subsets of the part.
LEMMA SumsAgree ==
  ASSUME NEW S, NEW P \in SUBSET S, IsFiniteSet(S),
         NEW f, NEW e, \A x \in P : f[x] = e[x] /\ f[x] \in Int,
         NEW g, IsSum(g, f, S), NEW h, IsSum(h, e, P)
  PROVE  \A s \in SUBSET P : g[s] = h[s] /\ g[s] \in Int
<1> DEFINE B == {s \in SUBSET P : ~(g[s] = h[s] /\ g[s] \in Int)}
<1> SUFFICES ASSUME B # {} PROVE FALSE
  OBVIOUS
<1>0. IsFiniteSet(P)
  BY FS_Subset
<1>1. B \in SUBSET (SUBSET P)
  OBVIOUS
<1>2. PICK s \in B : \A u \in B : u \subseteq s => u = s
  <2> HIDE DEF B
  <2> QED
    BY <1>0, <1>1, LeastSubset
<1>3. s \in SUBSET P /\ s \in SUBSET S /\ ~(g[s] = h[s] /\ g[s] \in Int)
  BY <1>2
<1>4. s # {}
  BY <1>3 DEF IsSum
<1> DEFINE x == Pick(s)
<1>5. x \in s
  BY <1>4 DEF Pick
<1>6. s \ {x} \in SUBSET P /\ s \ {x} # s /\ s \ {x} \subseteq s
  BY <1>3, <1>5
<1>7. g[s \ {x}] = h[s \ {x}] /\ g[s \ {x}] \in Int
  BY <1>2, <1>6
<1>8. g[s] = f[x] + g[s \ {x}] /\ h[s] = e[x] + h[s \ {x}]
  <2> HIDE DEF x
  <2> QED
    BY <1>3, <1>4 DEF IsSum, x
<1>9. f[x] = e[x] /\ f[x] \in Int
  BY <1>3, <1>5
<1> QED
  BY <1>3, <1>7, <1>8, <1>9

\* The recursion of the fold has a solution.
LEMMA SumExists ==
  ASSUME NEW S, IsFiniteSet(S), NEW f \in [S -> Int]
  PROVE  \E g : IsSum(g, f, S)
<1> DEFINE Has(s) == \E g : IsSum(g, f, s)
           B == {s \in SUBSET S : ~Has(s)}
<1> SUFFICES ASSUME ~Has(S) PROVE FALSE
  OBVIOUS
<1>1. S \in B /\ B \in SUBSET (SUBSET S)
  OBVIOUS
<1>2. PICK T \in B : \A u \in B : u \subseteq T => u = T
  <2> B # {}
    BY <1>1
  <2> HIDE DEF B
  <2> QED
    BY <1>1, LeastSubset
<1>3. T \in SUBSET S /\ IsFiniteSet(T) /\ f \in [S -> Int]
  BY <1>2, FS_Subset
<1> DEFINE Of(s) == CHOOSE g : IsSum(g, f, s)
           G == [s \in SUBSET T |->
                   IF s = {} THEN 0 ELSE f[Pick(s)] + Of(s \ {Pick(s)})[s \ {Pick(s)}]]
<1>4. \A s \in SUBSET T : s # T => IsSum(Of(s), f, s)
  <2> SUFFICES ASSUME NEW s \in SUBSET T, s # T PROVE IsSum(Of(s), f, s)
    OBVIOUS
  <2>1. Has(s)
    BY <1>2, <1>3
  <2> QED
    BY <2>1
<1>5. ASSUME NEW s \in SUBSET T, s # {} PROVE G[s \ {Pick(s)}] = Of(s \ {Pick(s)})[s \ {Pick(s)}]
  <2> DEFINE v == s \ {Pick(s)}
             w == v \ {Pick(v)}
  <2>1. Pick(s) \in s
    BY <1>5 DEF Pick
  <2>2. v \in SUBSET T /\ v # T /\ w \in SUBSET T /\ w \subseteq v
    BY <2>1
  <2>3. IsSum(Of(v), f, v)
    BY <1>4, <2>2
  <2>4. CASE v = {}
    <3>1. G[v] = 0
      BY <2>2, <2>4
    <3>2. Of(v)[v] = 0
      <4> HIDE DEF Of, v
      <4> QED
        BY <2>3, <2>4 DEF IsSum
    <3> QED
      BY <3>1, <3>2
  <2>5. CASE v # {}
    <3>1. Pick(v) \in v /\ w # T
      BY <2>2, <2>5 DEF Pick
    <3>2. IsSum(Of(w), f, w)
      BY <1>4, <2>2, <3>1
    <3>3. G[v] = f[Pick(v)] + Of(w)[w]
      <4> HIDE DEF Of, v
      <4> QED
      BY <2>2, <2>5
    <3>4. Of(v)[v] = f[Pick(v)] + Of(v)[w]
      <4> HIDE DEF Of, v
      <4> QED
        BY <2>3, <2>5 DEF IsSum
    <3>5. Of(v)[w] = Of(w)[w]
      <4> HIDE DEF Of
      <4>1. IsFiniteSet(v) /\ w \in SUBSET v /\ \A z \in w : f[z] = f[z] /\ f[z] \in Int
        BY <1>3, <2>2, FS_Subset
      <4> HIDE DEF v, w
      <4> QED
        BY <2>3, <3>2, <4>1, SumsAgree
    <3> QED
      BY <3>3, <3>4, <3>5
  <2> QED
    BY <2>4, <2>5
<1>6. IsSum(G, f, T)
  <2> HIDE DEF Of
  <2>1. \A s \in SUBSET T : G[s] = IF s = {} THEN 0 ELSE f[Pick(s)] + G[s \ {Pick(s)}]
    BY <1>5
  <2>2. G = [s \in SUBSET T |-> G[s]]
    OBVIOUS
  <2> HIDE DEF G
  <2> QED
    BY <2>1, <2>2 DEF IsSum
<1>7. ~Has(T)
  BY <1>2
<1> QED
  BY <1>6, <1>7

\* Any member of s may be taken first.
TakesAny(g, f, s) == \A x \in s : g[s] = f[x] + g[s \ {x}]

\* The sum of numbers does not depend on what the fold takes next.
LEMMA SumTakesAny ==
  ASSUME NEW S, IsFiniteSet(S), NEW f, \A x \in S : f[x] \in Int, NEW g, IsSum(g, f, S)
  PROVE  \A s \in SUBSET S : g[s] \in Int /\ TakesAny(g, f, s)
<1>0. \A s \in SUBSET S : g[s] \in Int
  BY SumsAgree
<1> DEFINE B == {s \in SUBSET S : \E x \in s : g[s] # f[x] + g[s \ {x}]}
<1> SUFFICES ASSUME B # {} PROVE FALSE
  BY <1>0 DEF TakesAny
<1>1. PICK s \in B : \A u \in B : u \subseteq s => u = s
  <2> B \in SUBSET (SUBSET S)
    OBVIOUS
  <2> HIDE DEF B
  <2> QED
    BY LeastSubset
<1>2. PICK x \in s : g[s] # f[x] + g[s \ {x}]
  BY <1>1
<1> DEFINE p == Pick(s)
<1>3. p \in s /\ s \in SUBSET S
  BY <1>1, <1>2 DEF Pick
<1>4. g[s] = f[p] + g[s \ {p}]
  <2> HIDE DEF p
  <2> QED
    BY <1>3 DEF IsSum, p
<1>5. x # p
  BY <1>2, <1>4
<1> HIDE DEF p
<1>6. s \ {p} \notin B /\ s \ {x} \notin B
  BY <1>1, <1>2, <1>3
<1>7. g[s \ {p}] = f[x] + g[(s \ {p}) \ {x}]
  BY <1>3, <1>5, <1>6
<1>8. g[s \ {x}] = f[p] + g[(s \ {x}) \ {p}]
  BY <1>3, <1>5, <1>6
<1>9. (s \ {p}) \ {x} = (s \ {x}) \ {p} /\ (s \ {x}) \ {p} \in SUBSET S
  BY <1>3
<1>10. f[x] \in Int /\ f[p] \in Int /\ g[(s \ {x}) \ {p}] \in Int
  BY <1>0, <1>2, <1>3, <1>9
<1>11. g[(s \ {p}) \ {x}] = g[(s \ {x}) \ {p}]
  BY <1>9
<1>12. \A a, b, c \in Int : a + (b + c) = b + (a + c)
  OBVIOUS
<1>13. g[s] = f[p] + (f[x] + g[(s \ {x}) \ {p}])
  BY <1>4, <1>7, <1>11
<1>14. f[x] + g[s \ {x}] = f[x] + (f[p] + g[(s \ {x}) \ {p}])
  BY <1>8
<1>15. f[p] + (f[x] + g[(s \ {x}) \ {p}]) = f[x] + (f[p] + g[(s \ {x}) \ {p}])
  BY <1>10, <1>12
<1> QED
  BY <1>2, <1>13, <1>14, <1>15

\* What the fold of a function with + yields is such a sum.
LEMMA FoldIsSum ==
  ASSUME NEW f, IsFiniteSet(DOMAIN f), \A x \in DOMAIN f : f[x] \in Int
  PROVE  \E g : IsSum(g, f, DOMAIN f) /\ FoldFunction(+, 0, f) = g[DOMAIN f]
<1> DEFINE S == DOMAIN f
           h == [x \in S |-> f[x]]
<1>1. PICK k : IsSum(k, h, S)
  <2>1. h \in [S -> Int]
    OBVIOUS
  <2> QED
    BY <2>1, SumExists
<1>2. IsSum(k, f, S)
  <2>1. \A z \in SUBSET S : z # {} => Pick(z) \in S
    BY DEF Pick
  <2> QED
    BY <1>1, <2>1 DEF IsSum
<1> DEFINE iter == CHOOSE g : IsSum(g, f, S)
<1>3. IsSum(iter, f, S)
  BY <1>2
<1>4. FoldFunction(+, 0, f) = iter[S]
  BY DEF FoldFunction, FoldFunctionOnSet, MapThenFoldSet, IsSum, Pick
<1> QED
  BY <1>3, <1>4

\* Appending a value to a column adds it to the sum of the column, which is a number.
LEMMA FoldAppend ==
  ASSUME NEW n \in Nat, NEW f \in [1..n -> Int], NEW e \in [1..(n + 1) -> Int],
         \A i \in 1..n : e[i] = f[i]
  PROVE  /\ FoldFunction(+, 0, f) \in Int
         /\ FoldFunction(+, 0, e) = FoldFunction(+, 0, f) + e[n + 1]
<1>1. IsFiniteSet(1..n) /\ IsFiniteSet(1..(n + 1))
  BY FS_Interval
<1>2. /\ DOMAIN f = 1..n /\ DOMAIN e = 1..(n + 1)
      /\ \A i \in 1..n : f[i] \in Int
      /\ \A i \in 1..(n + 1) : e[i] \in Int
  OBVIOUS
<1>3. PICK g : IsSum(g, f, 1..n) /\ FoldFunction(+, 0, f) = g[1..n]
  BY <1>1, <1>2, FoldIsSum
<1>4. PICK h : IsSum(h, e, 1..(n + 1)) /\ FoldFunction(+, 0, e) = h[1..(n + 1)]
  BY <1>1, <1>2, FoldIsSum
<1>5. /\ 1..(n + 1) \in SUBSET (1..(n + 1)) /\ n + 1 \in 1..(n + 1)
      /\ (1..(n + 1)) \ {n + 1} = 1..n /\ 1..n \in SUBSET (1..(n + 1))
  OBVIOUS
<1>6. h[1..(n + 1)] = e[n + 1] + h[1..n]
  <2> DEFINE S == 1..(n + 1)
  <2>1. IsFiniteSet(S) /\ (\A i \in S : e[i] \in Int) /\ IsSum(h, e, S)
    BY <1>1, <1>2, <1>4
  <2>2. \A s \in SUBSET S : h[s] \in Int /\ TakesAny(h, e, s)
    <3> HIDE DEF S
    <3> QED
      BY <2>1, SumTakesAny
  <2> QED
    BY <1>5, <2>2 DEF TakesAny
<1>7. h[1..n] = g[1..n] /\ h[1..n] \in Int
  <2>1. \A i \in 1..n : e[i] = f[i] /\ e[i] \in Int
    BY <1>2
  <2>2. \A s \in SUBSET (1..n) : h[s] = g[s] /\ h[s] \in Int
    BY <1>1, <1>3, <1>4, <1>5, <2>1, SumsAgree
  <2> QED
    BY <2>2
<1>8. e[n + 1] \in Int
  BY <1>2, <1>5
<1>9. \A a, b \in Int : a + b = b + a
  OBVIOUS
<1>10. e[n + 1] + g[1..n] = g[1..n] + e[n + 1] /\ g[1..n] \in Int
  BY <1>7, <1>8, <1>9
<1> QED
  BY <1>3, <1>4, <1>6, <1>7, <1>10

\* The sums of a history without runs are zero.
LEMMA SumOfNone ==
  ASSUME NEW d, d.runs = <<>>, NEW column
  PROVE  SumOf(d, column) = 0
<1> DEFINE f == [i \in DOMAIN d.runs |-> d.runs[i][column]]
<1>1. DOMAIN f = {}
  OBVIOUS
<1>2. PICK g : IsSum(g, f, {}) /\ FoldFunction(+, 0, f) = g[{}]
  <2>1. IsFiniteSet(DOMAIN f) /\ \A x \in DOMAIN f : f[x] \in Int
    BY <1>1, FS_EmptySet
  <2> HIDE DEF f
  <2> QED
    BY <1>1, <2>1, FoldIsSum
<1>3. g[{}] = 0
  BY <1>2 DEF IsSum
<1> QED
  BY <1>2, <1>3 DEF SumOf

\* A run that is stored adds its numbers to the sums.
LEMMA SumOfInsert ==
  ASSUME NEW R, NEW d, d.runs \in Seq(R), NEW row \in R, NEW column,
         \A r \in R : r[column] \in Int,
         NEW e, e.runs = Append(d.runs, row)
  PROVE  /\ SumOf(d, column) \in Int
         /\ SumOf(e, column) = SumOf(d, column) + row[column]
<1> DEFINE n == Len(d.runs)
           f == [i \in DOMAIN d.runs |-> d.runs[i][column]]
           h == [i \in DOMAIN e.runs |-> e.runs[i][column]]
<1>1. /\ n \in Nat /\ DOMAIN d.runs = 1..n /\ DOMAIN e.runs = 1..(n + 1)
      /\ e.runs[n + 1] = row
      /\ \A i \in 1..n : d.runs[i] \in R /\ e.runs[i] = d.runs[i]
  OBVIOUS
<1>2. f \in [1..n -> Int]
  BY <1>1
<1>3. h \in [1..(n + 1) -> Int] /\ h[n + 1] = row[column]
  <2>1. \A i \in 1..(n + 1) : e.runs[i] \in R
    <3>1. \A i \in 1..(n + 1) : i \in 1..n \/ i = n + 1
      BY <1>1
    <3> QED
      BY <1>1, <3>1
  <2>2. n + 1 \in 1..(n + 1)
    BY <1>1
  <2> QED
    BY <1>1, <2>1, <2>2
<1>4. \A i \in 1..n : h[i] = f[i]
  BY <1>1
<1>5. /\ FoldFunction(+, 0, f) \in Int
      /\ FoldFunction(+, 0, h) = FoldFunction(+, 0, f) + h[n + 1]
  <2> HIDE DEF f, h
  <2> QED
    BY <1>1, <1>2, <1>3, <1>4, FoldAppend
<1> QED
  BY <1>3, <1>5 DEF SumOf

\* The same runs have the same sums, whatever else the database holds.
LEMMA SumOfRuns ==
  ASSUME NEW d, NEW e, e.runs = d.runs, NEW column
  PROVE  SumOf(e, column) = SumOf(d, column)
BY DEF SumOf

-----------------------------------------------------------------------------
(* Pages.                                                                  *)

\* A page shows the newest runs, newest first, as many as there are and the limit
\* allows, and none that is not shown is newer than one that is (get_recent_runs).
THEOREM RecentRunsAreNewest ==
  ASSUME NEW R, NEW d, d.runs \in Seq(R), NEW limit \in Nat,
         NEW page, page = get_recent_runs(d, limit)
  PROVE  /\ page \in Seq(DOMAIN d.runs)
         /\ Len(page) <= limit /\ Len(page) <= Len(d.runs)
         /\ Len(page) = limit \/ Len(page) = Len(d.runs)
         /\ \A j, k \in DOMAIN page : j < k => page[k] < page[j]
         /\ \A id \in DOMAIN d.runs :
              id \in {page[k] : k \in DOMAIN page} \/ \A k \in DOMAIN page : id < page[k]
<1> DEFINE n == Len(d.runs)
           m == IF limit < n THEN limit ELSE n
<1>1. n \in Nat /\ m \in Nat /\ m <= n /\ m <= limit /\ (m = limit \/ m = n)
  OBVIOUS
<1>2. page = [k \in 1..m |-> n + 1 - k] /\ DOMAIN d.runs = 1..n
  BY DEF get_recent_runs
<1>3. \A k \in 1..m : n + 1 - k \in 1..n
  BY <1>1
<1> HIDE DEF m, n
<1>4. page \in Seq(1..n) /\ Len(page) = m
  BY <1>1, <1>2, <1>3
<1>5. \A j, k \in DOMAIN page : j < k => page[k] < page[j]
  BY <1>1, <1>2
<1>6. ASSUME NEW id \in 1..n, NEW k \in 1..m, ~(id < page[k])
      PROVE  id \in {page[l] : l \in DOMAIN page}
  <2>1. id >= n + 1 - k /\ n + 1 - id \in 1..m
    BY <1>1, <1>2, <1>6
  <2>2. page[n + 1 - id] = id
    BY <1>1, <1>2, <2>1
  <2> QED
    BY <1>2, <2>1, <2>2
<1> QED
  BY <1>1, <1>2, <1>4, <1>5, <1>6 DEF n
=============================================================================
