---------------------------- MODULE AggStoreProofs ----------------------------
(***************************************************************************)
(* Machine-checked proofs about AggStore, for any finite set of sites and  *)
(* pages, any number of bins with growing edges, any window and any batch. *)
(***************************************************************************)
EXTENDS AggStore, FiniteSetTheorems, WellFoundedInduction, TLAPS

-----------------------------------------------------------------------------
(* Induction over finite sets, in a form that takes a set where the        *)
(* library's theorems take an operator.                                    *)

\* Among sets of subsets of a finite set there is a smallest one.
LEMMA SmallestSet ==
    ASSUME NEW S, IsFiniteSet(S), NEW Bad \in SUBSET (SUBSET S), Bad # {}
    PROVE  \E T \in Bad : \A U \in SUBSET T : U # T => U \notin Bad
<1>1. Bad \subseteq FiniteSubsetsOf(S)
  BY FS_Subset DEF FiniteSubsetsOf
<1>2. IsWellFoundedOn(StrictSubsetOrdering(S), FiniteSubsetsOf(S))
  BY FS_StrictSubsetOrderingWellFounded
<1>3. PICK T \in Bad : \A U \in Bad : <<U, T>> \notin StrictSubsetOrdering(S)
  BY <1>1, <1>2, WFMin
<1>4. ASSUME NEW U \in SUBSET T, U # T, U \in Bad
      PROVE  FALSE
  <2>1. <<U, T>> \in StrictSubsetOrdering(S)
    BY <1>4 DEF StrictSubsetOrdering
  <2> QED
    BY <1>3, <1>4, <2>1
<1> QED
  BY <1>4

\* What holds of the empty set, and with any subset of S for one more element of
\* S, holds of S.
LEMMA SetInduction ==
    ASSUME NEW S, IsFiniteSet(S), NEW Good, {} \in Good,
           \A T \in SUBSET S, x \in S : T \in Good /\ x \notin T => T \union {x} \in Good
    PROVE  S \in Good
<1> DEFINE Bad == (SUBSET S) \ Good
<1> SUFFICES ASSUME S \notin Good PROVE FALSE
  OBVIOUS
<1>1. PICK T \in Bad : \A U \in SUBSET T : U # T => U \notin Bad
  <2>1. Bad # {} /\ Bad \in SUBSET (SUBSET S)
    OBVIOUS
  <2> HIDE DEF Bad
  <2> QED
    BY <2>1, SmallestSet
<1>2. PICK x \in T : TRUE
  OBVIOUS
<1>3. T \ {x} \in Good
  BY <1>1
<1>4. (T \ {x}) \union {x} = T
  OBVIOUS
<1> QED
  BY <1>3, <1>4

\* What holds of 0, and with n of n + 1, holds of every number.
LEMMA NatInductive ==
    ASSUME NEW Good, 0 \in Good, \A n \in Nat : n \in Good => n + 1 \in Good
    PROVE  Nat \subseteq Good
<1> SUFFICES ASSUME NEW k \in Nat \ Good PROVE FALSE
  OBVIOUS
<1> DEFINE Sets == {T \in SUBSET (1..k) : Cardinality(T) \in Good}
<1>1. IsFiniteSet(1..k) /\ Cardinality(1..k) = k
  BY FS_Interval
<1>2. {} \in Sets
  BY FS_EmptySet
<1>3. ASSUME NEW T \in SUBSET (1..k), NEW x \in 1..k, T \in Sets, x \notin T
      PROVE  T \union {x} \in Sets
  <2>1. IsFiniteSet(T) /\ Cardinality(T) \in Nat
    BY <1>1, FS_Subset, FS_CardinalityType
  <2>2. Cardinality(T \union {x}) = Cardinality(T) + 1
    BY <1>3, <2>1, FS_AddElement
  <2> QED
    BY <1>3, <2>1, <2>2
<1>4. 1..k \in Sets
  <2> HIDE DEF Sets
  <2> QED
    BY <1>1, <1>2, <1>3, SetInduction
<1> QED
  BY <1>1, <1>4

-----------------------------------------------------------------------------
(* Sums. *)

\* The recursion that MapThenSumSet unfolds to.
Pick(s) == CHOOSE x \in s : TRUE
Summand(g, f, s) == IF s = {} THEN 0 ELSE f[Pick(s)] + g[s \ {Pick(s)}]
IsTable(g, f, sets) == g = [s \in sets |-> Summand(g, f, s)]

\* A sum is the entry of its set in a table of the sums over all subsets.
LEMMA SumIsEntry ==
    ASSUME NEW f, NEW S
    PROVE  SumOver(f, S) = (CHOOSE g : IsTable(g, f, SUBSET S))[S]
BY DEF SumOver, MapThenSumSet, MapThenFoldSet, IsTable, Summand, Pick

\* There is such a table.
LEMMA TableExists ==
    ASSUME NEW f, NEW S, IsFiniteSet(S)
    PROVE  \E g : IsTable(g, f, SUBSET S)
<1> DEFINE UpToSize(n) == {s \in SUBSET S : Cardinality(s) <= n}
           Good == {n \in Nat : \E g : IsTable(g, f, UpToSize(n))}
<1>1. \A s \in SUBSET S : IsFiniteSet(s) /\ Cardinality(s) \in Nat
  BY FS_Subset, FS_CardinalityType
<1>2. 0 \in Good
  <2> DEFINE g == [s \in UpToSize(0) |-> 0]
  <2>1. \A s \in UpToSize(0) : s = {}
    BY <1>1, FS_EmptySet
  <2>2. IsTable(g, f, UpToSize(0))
    BY <2>1 DEF IsTable, Summand
  <2> QED
    BY <2>2
<1>3. ASSUME NEW n \in Nat, n \in Good
      PROVE  n + 1 \in Good
  <2>1. PICK g : IsTable(g, f, UpToSize(n))
    BY <1>3
  <2> DEFINE h == [s \in UpToSize(n + 1) |-> Summand(g, f, s)]
  <2>2. UpToSize(n) \subseteq UpToSize(n + 1)
    BY <1>1
  <2>3. \A s \in UpToSize(n) : h[s] = g[s]
    BY <2>1, <2>2 DEF IsTable
  <2>4. ASSUME NEW s \in UpToSize(n + 1), s # {}
        PROVE  s \ {Pick(s)} \in UpToSize(n)
    <3>1. Pick(s) \in s
      BY <2>4 DEF Pick
    <3>2. Cardinality(s \ {Pick(s)}) = Cardinality(s) - 1
      BY <1>1, <3>1, FS_RemoveElement
    <3> QED
      BY <1>1, <3>2
  <2>5. \A s \in UpToSize(n + 1) : Summand(h, f, s) = Summand(g, f, s)
    <3> HIDE DEF h, UpToSize
    <3> QED
      BY <2>3, <2>4 DEF Summand
  <2>6. IsTable(h, f, UpToSize(n + 1))
    BY <2>5 DEF IsTable
  <2> HIDE DEF h, UpToSize
  <2> QED
    BY <2>6
<1>4. Nat \subseteq Good
  <2> HIDE DEF Good
  <2> QED
    BY <1>2, <1>3, NatInductive
<1>5. Cardinality(S) \in Good
  BY <1>1, <1>4
<1>6. UpToSize(Cardinality(S)) = SUBSET S
  BY <1>1, FS_Subset
<1> QED
  BY <1>5, <1>6

\* Two tables agree on the sets both have.
LEMMA TablesAgree ==
    ASSUME NEW f, NEW S, IsFiniteSet(S), NEW T \in SUBSET S
    PROVE  \A g, h : IsTable(g, f, SUBSET S) /\ IsTable(h, f, SUBSET T) => g[T] = h[T]
<1> SUFFICES ASSUME NEW g, IsTable(g, f, SUBSET S), NEW h, IsTable(h, f, SUBSET T)
             PROVE  g[T] = h[T]
  OBVIOUS
<1> DEFINE Bad == {s \in SUBSET T : g[s] # h[s]}
<1> SUFFICES ASSUME Bad # {} PROVE FALSE
  OBVIOUS
<1>1. PICK s \in Bad : \A u \in SUBSET s : u # s => u \notin Bad
  <2>1. IsFiniteSet(T) /\ Bad \in SUBSET (SUBSET T)
    BY FS_Subset
  <2> HIDE DEF Bad
  <2> QED
    BY <2>1, SmallestSet
<1>2. g[s] = Summand(g, f, s) /\ h[s] = Summand(h, f, s)
  BY DEF IsTable
<1>3. s # {}
  BY <1>2 DEF Summand
<1>4. Pick(s) \in s
  BY <1>3 DEF Pick
<1>5. g[s \ {Pick(s)}] = h[s \ {Pick(s)}]
  BY <1>1, <1>4
<1> QED
  BY <1>2, <1>3, <1>5 DEF Summand

\* The sum over no element.
LEMMA SumEmpty ==
    ASSUME NEW f
    PROVE  SumOver(f, {}) = 0
<1>1. IsFiniteSet({})
  BY FS_EmptySet
<1>2. PICK g : IsTable(g, f, SUBSET {}) /\ SumOver(f, {}) = g[{}]
  BY <1>1, SumIsEntry, TableExists
<1> QED
  BY <1>2 DEF IsTable, Summand

\* The sum takes the chosen element off first.
LEMMA SumPick ==
    ASSUME NEW f, NEW S, IsFiniteSet(S), S # {}
    PROVE  /\ Pick(S) \in S
           /\ SumOver(f, S) = f[Pick(S)] + SumOver(f, S \ {Pick(S)})
<1> DEFINE T == S \ {Pick(S)}
<1>1. IsFiniteSet(T) /\ T \in SUBSET S
  BY FS_Subset
<1>2. PICK g : IsTable(g, f, SUBSET S) /\ SumOver(f, S) = g[S]
  BY SumIsEntry, TableExists
<1>3. PICK h : IsTable(h, f, SUBSET T) /\ SumOver(f, T) = h[T]
  BY <1>1, SumIsEntry, TableExists
<1>4. g[T] = h[T]
  <2> HIDE DEF T
  <2> QED
    BY <1>1, <1>2, <1>3, TablesAgree
<1>5. g[S] = f[Pick(S)] + g[T]
  BY <1>2 DEF IsTable, Summand
<1> QED
  BY <1>2, <1>3, <1>4, <1>5 DEF Pick

\* A sum of numbers is a number.
LEMMA SumType ==
    ASSUME NEW f, NEW S, IsFiniteSet(S), \A x \in S : f[x] \in Nat
    PROVE  SumOver(f, S) \in Nat
<1> DEFINE Bad == {T \in SUBSET S : SumOver(f, T) \notin Nat}
<1> SUFFICES ASSUME Bad # {} PROVE FALSE
  OBVIOUS
<1>1. PICK T \in Bad : \A U \in SUBSET T : U # T => U \notin Bad
  <2>1. Bad \in SUBSET (SUBSET S)
    OBVIOUS
  <2> HIDE DEF Bad
  <2> QED
    BY <2>1, SmallestSet
<1>2. T # {}
  BY SumEmpty
<1>3. Pick(T) \in T /\ SumOver(f, T) = f[Pick(T)] + SumOver(f, T \ {Pick(T)})
  BY <1>2, FS_Subset, SumPick
<1>4. SumOver(f, T \ {Pick(T)}) \in Nat
  BY <1>1, <1>3
<1> QED
  BY <1>3, <1>4

\* Any element can be taken off first.
LEMMA SumRemove ==
    ASSUME NEW f, NEW S, IsFiniteSet(S), \A x \in S : f[x] \in Nat, NEW x \in S
    PROVE  SumOver(f, S) = f[x] + SumOver(f, S \ {x})
<1> DEFINE Off(T, y) == SumOver(f, T) = f[y] + SumOver(f, T \ {y})
           Bad == {T \in SUBSET S : \E y \in T : ~Off(T, y)}
<1> SUFFICES ASSUME Bad # {} PROVE FALSE
  OBVIOUS
<1>1. PICK T \in Bad : \A U \in SUBSET T : U # T => U \notin Bad
  <2>1. Bad \in SUBSET (SUBSET S)
    OBVIOUS
  <2> HIDE DEF Bad
  <2> QED
    BY <2>1, SmallestSet
<1>2. PICK y \in T : ~Off(T, y)
  OBVIOUS
<1> DEFINE c == Pick(T)
<1>3. c \in T /\ SumOver(f, T) = f[c] + SumOver(f, T \ {c})
  BY FS_Subset, SumPick
<1>4. c # y
  BY <1>2, <1>3
<1>5. Off(T \ {c}, y) /\ Off(T \ {y}, c)
  BY <1>1, <1>3, <1>4
<1>6. (T \ {c}) \ {y} = (T \ {y}) \ {c}
  OBVIOUS
<1>7. /\ f[c] \in Nat /\ f[y] \in Nat
      /\ SumOver(f, (T \ {y}) \ {c}) \in Nat
  <2>1. IsFiniteSet((T \ {y}) \ {c})
    BY FS_Subset
  <2>2. \A z \in (T \ {y}) \ {c} : f[z] \in Nat
    OBVIOUS
  <2> QED
    BY <1>2, <1>3, <2>1, <2>2, SumType
<1> HIDE DEF c
<1> QED
  BY <1>2, <1>3, <1>5, <1>6, <1>7

\* One more element.
LEMMA SumAdd ==
    ASSUME NEW f, NEW S, IsFiniteSet(S), NEW x, x \notin S,
           \A y \in S \union {x} : f[y] \in Nat
    PROVE  SumOver(f, S \union {x}) = f[x] + SumOver(f, S)
<1>1. IsFiniteSet(S \union {x})
  BY FS_AddElement
<1>2. (S \union {x}) \ {x} = S
  OBVIOUS
<1> QED
  BY <1>1, <1>2, SumRemove

\* The sum of nothing but zeros.
LEMMA SumZero ==
    ASSUME NEW f, NEW S, IsFiniteSet(S), \A x \in S : f[x] = 0
    PROVE  SumOver(f, S) = 0
<1> DEFINE Good == {T \in SUBSET S : SumOver(f, T) = 0}
<1>1. {} \in Good
  BY SumEmpty
<1>2. ASSUME NEW T \in SUBSET S, NEW x \in S, T \in Good, x \notin T
      PROVE  T \union {x} \in Good
  <2>1. IsFiniteSet(T)
    BY FS_Subset
  <2>2. SumOver(f, T \union {x}) = f[x] + SumOver(f, T)
    BY <1>2, <2>1, SumAdd
  <2> QED
    BY <1>2, <2>2
<1>3. S \in Good
  <2> HIDE DEF Good
  <2> QED
    BY <1>1, <1>2, SetInduction
<1> QED
  BY <1>3

\* Functions that agree on a set have the same sum over it.
LEMMA SumSame ==
    ASSUME NEW f, NEW g, NEW S, IsFiniteSet(S),
           \A x \in S : f[x] \in Nat /\ g[x] = f[x]
    PROVE  SumOver(g, S) = SumOver(f, S)
<1> DEFINE Good == {T \in SUBSET S : SumOver(g, T) = SumOver(f, T)}
<1>1. {} \in Good
  BY SumEmpty
<1>2. ASSUME NEW T \in SUBSET S, NEW x \in S, T \in Good, x \notin T
      PROVE  T \union {x} \in Good
  <2>1. IsFiniteSet(T)
    BY FS_Subset
  <2>2. SumOver(f, T \union {x}) = f[x] + SumOver(f, T)
    BY <1>2, <2>1, SumAdd
  <2>3. SumOver(g, T \union {x}) = g[x] + SumOver(g, T)
    BY <1>2, <2>1, SumAdd
  <2> QED
    BY <1>2, <2>2, <2>3
<1>3. S \in Good
  <2> HIDE DEF Good
  <2> QED
    BY <1>1, <1>2, SetInduction
<1> QED
  BY <1>3

\* The sum of sums.
LEMMA SumPlus ==
    ASSUME NEW f, NEW g, NEW h, NEW S, IsFiniteSet(S),
           \A x \in S : f[x] \in Nat /\ g[x] \in Nat /\ h[x] = f[x] + g[x]
    PROVE  SumOver(h, S) = SumOver(f, S) + SumOver(g, S)
<1> DEFINE Good == {T \in SUBSET S : SumOver(h, T) = SumOver(f, T) + SumOver(g, T)}
<1>1. {} \in Good
  BY SumEmpty
<1>2. ASSUME NEW T \in SUBSET S, NEW x \in S, T \in Good, x \notin T
      PROVE  T \union {x} \in Good
  <2>1. IsFiniteSet(T)
    BY FS_Subset
  <2>2. SumOver(f, T \union {x}) = f[x] + SumOver(f, T)
    BY <1>2, <2>1, SumAdd
  <2>3. SumOver(g, T \union {x}) = g[x] + SumOver(g, T)
    BY <1>2, <2>1, SumAdd
  <2>4. SumOver(h, T \union {x}) = h[x] + SumOver(h, T)
    BY <1>2, <2>1, SumAdd
  <2>5. SumOver(f, T) \in Nat /\ SumOver(g, T) \in Nat
    BY <2>1, SumType
  <2> QED
    BY <1>2, <2>2, <2>3, <2>4, <2>5
<1>3. S \in Good
  <2> HIDE DEF Good
  <2> QED
    BY <1>1, <1>2, SetInduction
<1> QED
  BY <1>3

\* Changing a function at one place changes its sum by as much.
LEMMA SumChange ==
    ASSUME NEW f, NEW g, NEW S, IsFiniteSet(S), NEW x \in S, NEW d \in Nat,
           \A y \in S : f[y] \in Nat,
           \A y \in S : g[y] = IF y = x THEN f[x] + d ELSE f[y]
    PROVE  SumOver(g, S) = SumOver(f, S) + d
<1>1. IsFiniteSet(S \ {x})
  BY FS_Subset
<1>2. SumOver(g, S \ {x}) = SumOver(f, S \ {x}) /\ SumOver(f, S \ {x}) \in Nat
  BY <1>1, SumSame, SumType
<1>3. SumOver(g, S) = g[x] + SumOver(g, S \ {x})
  BY SumRemove
<1>4. SumOver(f, S) = f[x] + SumOver(f, S \ {x})
  BY SumRemove
<1> QED
  BY <1>2, <1>3, <1>4

\* Sets without a common element add up.
LEMMA CardinalityOfDisjoint ==
    ASSUME NEW A, IsFiniteSet(A), NEW B, IsFiniteSet(B), A \intersect B = {}
    PROVE  /\ IsFiniteSet(A \union B)
           /\ Cardinality(A \union B) = Cardinality(A) + Cardinality(B)
<1>1. Cardinality(A \intersect B) = 0
  BY FS_EmptySet
<1>2. Cardinality(A) \in Nat /\ Cardinality(B) \in Nat
  BY FS_CardinalityType
<1>3. /\ IsFiniteSet(A \union B)
      /\ Cardinality(A \union B) =
             Cardinality(A) + Cardinality(B) - Cardinality(A \intersect B)
  BY FS_Union
<1> QED
  BY <1>1, <1>2, <1>3

\* The elements of F that have key k.
Class(F, key, k) == {e \in F : key[e] = k}

\* The classes that a key sorts a finite set into add up to it.
LEMMA SumOfClasses ==
    ASSUME NEW F, IsFiniteSet(F), NEW K, IsFiniteSet(K), NEW key,
           \A e \in F : key[e] \in K,
           NEW n, \A k \in K : n[k] = Cardinality(Class(F, key, k))
    PROVE  SumOver(n, K) = Cardinality(F)
<1> DEFINE In(T) == {e \in F : key[e] \in T}
           Good == {T \in SUBSET K : SumOver(n, T) = Cardinality(In(T))}
<1>0. \A k \in K : n[k] \in Nat
  BY FS_Subset, FS_CardinalityType DEF Class
<1>1. {} \in Good
  <2>1. In({}) = {}
    OBVIOUS
  <2> QED
    BY <2>1, SumEmpty, FS_EmptySet
<1>2. ASSUME NEW T \in SUBSET K, NEW k \in K, T \in Good, k \notin T
      PROVE  T \union {k} \in Good
  <2> DEFINE C == {e \in F : key[e] = k}
  <2>1. IsFiniteSet(T) /\ IsFiniteSet(In(T)) /\ IsFiniteSet(C)
    BY FS_Subset
  <2>2. SumOver(n, T \union {k}) = n[k] + SumOver(n, T)
    BY <1>0, <1>2, <2>1, SumAdd
  <2>3. In(T \union {k}) = In(T) \union C /\ In(T) \intersect C = {}
    BY <1>2
  <2>4. Cardinality(In(T) \union C) = Cardinality(In(T)) + Cardinality(C)
    <3> HIDE DEF In, C
    <3> QED
      BY <2>1, <2>3, CardinalityOfDisjoint
  <2>5. SumOver(n, T) = Cardinality(In(T)) /\ n[k] = Cardinality(C)
    BY <1>2 DEF Class
  <2>6. Cardinality(C) \in Nat /\ Cardinality(In(T)) \in Nat
    BY <2>1, FS_CardinalityType
  <2>7. SumOver(n, T \union {k}) = Cardinality(In(T \union {k}))
    <3>1. Cardinality(In(T \union {k})) = Cardinality(In(T) \union C)
      BY <2>3
    <3> HIDE DEF In, C
    <3> QED
      BY <2>2, <2>4, <2>5, <2>6, <3>1
  <2> QED
    BY <2>7
<1>3. K \in Good
  <2> HIDE DEF Good
  <2> QED
    BY <1>1, <1>2, SetInduction
<1>4. In(K) = F
  OBVIOUS
<1> QED
  BY <1>3, <1>4
-----------------------------------------------------------------------------
(* Percentiles. *)

USE ConstantsAssumption, UpperMsAssumption, KeysAssumption

\* Every nonempty set of bins has a first one.
LEMMA FirstBin ==
    ASSUME NEW S \in SUBSET Bin, S # {}
    PROVE  Min(S) \in S /\ \A b \in S : Min(S) <= b
<1> DEFINE Good == {k \in Nat : \A x \in S : x <= k => \E y \in S : \A z \in S : y <= z}
<1>1. 0 \in Good
  BY DEF Bin
<1>2. ASSUME NEW k \in Nat, k \in Good
      PROVE  k + 1 \in Good
  <2> SUFFICES ASSUME NEW x \in S, x <= k + 1
               PROVE  \E y \in S : \A z \in S : y <= z
    OBVIOUS
  <2>1. x \in Nat
    BY DEF Bin
  <2>2. CASE \E y \in S : y <= k
    BY <1>2, <2>2
  <2>3. CASE \A y \in S : ~(y <= k)
    <3>1. \A z \in S : z \in Nat /\ z > k
      BY <2>3 DEF Bin
    <3> QED
      BY <2>1, <3>1
  <2> QED
    BY <2>2, <2>3
<1>3. Nat \subseteq Good
  <2> HIDE DEF Good
  <2> QED
    BY <1>1, <1>2, NatInductive
<1>4. PICK x \in S : TRUE
  OBVIOUS
<1>5. x \in Nat /\ x <= x
  BY DEF Bin
<1>6. PICK y \in S : \A z \in S : y <= z
  BY <1>3, <1>5
<1> QED
  BY <1>6 DEF Min

\* Running totals of a histogram are numbers, and begin with none.
LEMMA UpToType ==
    ASSUME NEW h \in Hist, NEW b \in Nat, b <= NumBins
    PROVE  UpTo(h, b) \in Nat
<1>1. IsFiniteSet(1..b)
  BY FS_Interval
<1>2. \A a \in 1..b : h[a] \in Nat
  BY DEF Hist, Bin
<1> QED
  BY <1>1, <1>2, SumType DEF UpTo

\* P75 finds the first bin at which three quarters are reached.
LEMMA P75IsRank ==
    ASSUME NEW h \in Hist, Count(h) # 0
    PROVE  \E b \in Bin :
               /\ P75(h) = UpperMs[b]
               /\ 4 * UpTo(h, b) >= 3 * Count(h)
               /\ \A a \in Bin : a < b => 4 * UpTo(h, a) < 3 * Count(h)
<1> DEFINE Reached == {b \in Bin : 4 * UpTo(h, b) >= 3 * Count(h)}
<1>1. Count(h) \in Nat /\ NumBins \in Bin
  BY UpToType DEF Count, Bin
<1>2. NumBins \in Reached
  BY <1>1 DEF Count
<1>3. Min(Reached) \in Reached /\ \A b \in Reached : Min(Reached) <= b
  <2>1. Reached \in SUBSET Bin /\ Reached # {}
    BY <1>2
  <2> HIDE DEF Reached
  <2> QED
    BY <2>1, FirstBin
<1>4. P75(h) = UpperMs[Min(Reached)]
  BY DEF P75
<1>5. ASSUME NEW a \in Bin, a < Min(Reached)
      PROVE  4 * UpTo(h, a) < 3 * Count(h)
  <2>1. a \notin Reached
    <3>1. Min(Reached) \in Nat /\ a \in Nat
      BY <1>3 DEF Bin
    <3> HIDE DEF Reached
    <3> QED
      BY <1>3, <1>5, <3>1
  <2>2. UpTo(h, a) \in Nat
    BY UpToType DEF Bin
  <2> QED
    BY <1>1, <2>1, <2>2
<1> QED
  BY <1>3, <1>4, <1>5

\* A percentile is 0 or the edge of a bin.
LEMMA P75Type ==
    ASSUME NEW h \in Hist
    PROVE  P75(h) \in {0} \union {UpperMs[b] : b \in Bin}
<1>1. CASE Count(h) = 0
  BY <1>1 DEF P75
<1>2. CASE Count(h) # 0
  BY <1>2, P75IsRank
<1> QED
  BY <1>1, <1>2

-----------------------------------------------------------------------------
(* What a batch adds. *)

IsBatch(batch) == IsFiniteSet(DOMAIN batch) /\ batch \in [DOMAIN batch -> Sample]

\* The bins of a page's samples add up to their number.
LEMMA PageCounts ==
    ASSUME NEW batch, IsBatch(batch), NEW s \in Site, NEW p \in Page
    PROVE  /\ PageAdded(batch, s, p) \in Hist
           /\ Count(PageAdded(batch, s, p)) = Cardinality(PageSamples(batch, s, p))
           /\ Cardinality(PageSamples(batch, s, p)) \in Nat
           /\ PageSamples(batch, s, p) = {} => PageAdded(batch, s, p) = EmptyHist
<1> DEFINE F == PageSamples(batch, s, p)
           h == PageAdded(batch, s, p)
           key == [e \in F |-> batch[e][3]]
<1>1. IsFiniteSet(F)
  BY FS_Subset DEF PageSamples, IsBatch
<1>2. \A b \in Bin : h[b] = Cardinality(Class(F, key, b))
  <2>1. \A b \in Bin : Class(F, key, b) = {e \in F : batch[e][3] = b}
    BY DEF Class
  <2> QED
    BY <2>1 DEF PageAdded
<1>3. \A b \in Bin : h[b] \in Nat
  <2>1. \A b \in Bin : IsFiniteSet(Class(F, key, b))
    BY <1>1, FS_Subset DEF Class
  <2> QED
    BY <1>2, <2>1, FS_CardinalityType
<1>4. h \in Hist
  BY <1>3 DEF Hist, PageAdded
<1>5. \A e \in F : key[e] \in Bin
  BY DEF PageSamples, IsBatch, Sample
<1>6. IsFiniteSet(Bin)
  BY FS_Interval DEF Bin
<1>7. SumOver(h, Bin) = Cardinality(F)
  <2> HIDE DEF F, h, key
  <2> QED
    BY <1>1, <1>2, <1>5, <1>6, SumOfClasses
<1>8. Count(h) = Cardinality(F)
  BY <1>7 DEF Count, UpTo, Bin
<1>9. ASSUME F = {} PROVE h = EmptyHist
  <2>1. \A b \in Bin : h[b] = 0
    BY <1>2, <1>9, FS_EmptySet DEF Class
  <2> QED
    BY <2>1 DEF PageAdded, EmptyHist
<1> QED
  BY <1>1, <1>4, <1>8, <1>9, FS_CardinalityType

\* A site's samples are those of its pages.
LEMMA SiteCounts ==
    ASSUME NEW batch, IsBatch(batch), NEW s \in Site
    PROVE  /\ SiteAdded(batch, s) \in Hist
           /\ \A b \in Bin :
                  SumOver([p \in Page |-> PageAdded(batch, s, p)[b]], Page) =
                      SiteAdded(batch, s)[b]
<1>1. ASSUME NEW b \in Bin
      PROVE  /\ SiteAdded(batch, s)[b] \in Nat
             /\ SumOver([p \in Page |-> PageAdded(batch, s, p)[b]], Page) =
                    SiteAdded(batch, s)[b]
  <2> DEFINE F == {e \in DOMAIN batch : batch[e][1] = s /\ batch[e][3] = b}
             key == [e \in F |-> batch[e][2]]
             n == [p \in Page |-> PageAdded(batch, s, p)[b]]
  <2>1. IsFiniteSet(F)
    BY FS_Subset DEF IsBatch
  <2>2. SiteAdded(batch, s)[b] = Cardinality(F)
    BY DEF SiteAdded
  <2>3. \A e \in F : key[e] \in Page
    BY DEF IsBatch, Sample
  <2>4. ASSUME NEW p \in Page
        PROVE  n[p] = Cardinality(Class(F, key, p))
    <3>1. Class(F, key, p) = {e \in PageSamples(batch, s, p) : batch[e][3] = b}
      BY DEF PageSamples, Class
    <3> QED
      BY <3>1 DEF PageAdded
  <2>5. SumOver(n, Page) = Cardinality(F)
    <3> HIDE DEF F, n, key
    <3> QED
      BY <2>1, <2>3, <2>4, SumOfClasses
  <2> QED
    BY <2>1, <2>2, <2>5, FS_CardinalityType
<1> QED
  BY <1>1 DEF SiteAdded, Hist

-----------------------------------------------------------------------------
(* The invariant. *)

\* Every clock reading lies in a minute.
LEMMA MinuteIsKept ==
    ASSUME NEW t \in Time
    PROVE  MinuteOf(t) \in Minute
<1> DEFINE q == t \div TicksPerMinute
           r == MaxTime \div TicksPerMinute
<1>1. /\ q \in Nat /\ TicksPerMinute * q \in Nat /\ TicksPerMinute * q <= t
      /\ r \in Nat /\ TicksPerMinute * r \in Nat /\ MaxTime < TicksPerMinute * r + TicksPerMinute
  BY DEF Time
<1>2. q <= r
  <2> SUFFICES ASSUME q > r PROVE FALSE
    BY <1>1
  <2> DEFINE d == q - r - 1
  <2>1. d \in Nat /\ q = r + 1 + d
    BY <1>1
  <2> HIDE DEF d
  <2>2. TicksPerMinute * d \in Nat
    BY <2>1
  <2>3. TicksPerMinute * q = TicksPerMinute * r + TicksPerMinute + TicksPerMinute * d
    BY <1>1, <2>1
  <2> HIDE DEF q, r
  <2> QED
    BY <1>1, <2>2, <2>3 DEF Time
<1> QED
  BY <1>1, <1>2 DEF MinuteOf, Minute

\* Merging adds the samples up.
LEMMA MergeCounts ==
    ASSUME NEW g \in Hist, NEW h \in Hist
    PROVE  /\ Merge(g, h) \in Hist
           /\ Count(Merge(g, h)) = Count(g) + Count(h)
<1>1. Merge(g, h) \in Hist
  BY DEF Merge, Hist
<1>2. IsFiniteSet(1..NumBins)
  BY FS_Interval
<1>3. \A b \in 1..NumBins : g[b] \in Nat /\ h[b] \in Nat /\ Merge(g, h)[b] = g[b] + h[b]
  BY DEF Merge, Hist, Bin
<1> QED
  BY <1>1, <1>2, <1>3, SumPlus DEF Count, UpTo

\* Merging nothing changes nothing.
LEMMA MergeEmpty ==
    ASSUME NEW h \in Hist
    PROVE  Merge(h, EmptyHist) = h
<1>1. \A b \in Bin : h[b] + EmptyHist[b] = h[b]
  BY DEF Hist, EmptyHist
<1>2. Merge(h, EmptyHist) = [b \in Bin |-> h[b]]
  BY <1>1 DEF Merge
<1> QED
  BY <1>2 DEF Hist

\* There are finitely many minutes.
LEMMA MinutesAreFinite ==
    IsFiniteSet(Minute)
<1>1. MinuteOf(MaxTime) \in Int
  BY DEF MinuteOf
<1> QED
  BY <1>1, FS_Interval DEF Minute

\* The window of a page is a histogram.
LEMMA TrailingType ==
    ASSUME NEW buckets \in [Site \X Page \X Minute -> Hist],
           NEW s \in Site, NEW p \in Page, NEW minute
    PROVE  Trailing(buckets, s, p, minute) \in Hist
<1> DEFINE window == {m \in Minute : m > minute - TrailingMinutes}
<1>1. IsFiniteSet(window)
  BY MinutesAreFinite, FS_Subset
<1>2. ASSUME NEW b \in Bin
      PROVE  SumOver([m \in Minute |-> buckets[<<s, p, m>>][b]], window) \in Nat
  <2> DEFINE f == [m \in Minute |-> buckets[<<s, p, m>>][b]]
  <2>1. \A m \in window : f[m] \in Nat
    BY DEF Hist
  <2> HIDE DEF f, window
  <2>2. SumOver(f, window) \in Nat
    BY <1>1, <2>1, SumType
  <2> QED
    BY <2>2 DEF f
<1> QED
  BY <1>2 DEF Trailing, Hist

Buckets == [Site \X Page \X Minute -> Hist]

\* What page_minute is after a fold.
IsFolded(old, new, batch, minute) ==
    new = [k \in Site \X Page \X Minute |->
              IF k[3] = minute THEN Merge(old[k], PageAdded(batch, k[1], k[2])) ELSE old[k]]

\* A fold adds the batch's samples to the page's bucket of one minute.
LEMMA FoldedBuckets ==
    ASSUME NEW old \in Buckets, NEW new,
           NEW batch, IsBatch(batch), NEW minute \in Minute,
           IsFolded(old, new, batch, minute)
    PROVE  /\ new \in Buckets
           /\ \A s \in Site, p \in Page, m \in Minute :
                  new[<<s, p, m>>] = IF m = minute
                                     THEN Merge(old[<<s, p, m>>], PageAdded(batch, s, p))
                                     ELSE old[<<s, p, m>>]
           /\ \A s \in Site, p \in Page, m \in Minute :
                  PageSamples(batch, s, p) = {} => new[<<s, p, m>>] = old[<<s, p, m>>]
<1>1. ASSUME NEW s \in Site, NEW p \in Page, NEW m \in Minute
      PROVE  /\ new[<<s, p, m>>] = IF m = minute
                                   THEN Merge(old[<<s, p, m>>], PageAdded(batch, s, p))
                                   ELSE old[<<s, p, m>>]
             /\ new[<<s, p, m>>] \in Hist
             /\ PageSamples(batch, s, p) = {} => new[<<s, p, m>>] = old[<<s, p, m>>]
  <2>1. old[<<s, p, m>>] \in Hist /\ PageAdded(batch, s, p) \in Hist
    BY PageCounts DEF Buckets
  <2>2. new[<<s, p, m>>] = IF m = minute
                           THEN Merge(old[<<s, p, m>>], PageAdded(batch, s, p))
                           ELSE old[<<s, p, m>>]
    BY DEF IsFolded
  <2>3. new[<<s, p, m>>] \in Hist
    BY <2>1, <2>2, MergeCounts
  <2>4. ASSUME PageSamples(batch, s, p) = {}
        PROVE  new[<<s, p, m>>] = old[<<s, p, m>>]
    <3>1. PageAdded(batch, s, p) = EmptyHist
      BY <2>4, PageCounts
    <3>2. Merge(old[<<s, p, m>>], EmptyHist) = old[<<s, p, m>>]
      BY <2>1, MergeEmpty
    <3> QED
      BY <2>2, <3>1, <3>2
  <2> QED
    BY <2>2, <2>3, <2>4
<1>2. \A k \in Site \X Page \X Minute : k = <<k[1], k[2], k[3]>> /\ new[k] \in Hist
  BY <1>1
<1>3. new \in Buckets
  BY <1>2 DEF IsFolded, Buckets
<1> QED
  BY <1>1, <1>3

\* In a site the bins of its pages grow by the bins of its samples.
LEMMA FoldedSite ==
    ASSUME NEW old \in Buckets, NEW new,
           NEW batch, IsBatch(batch), NEW minute \in Minute,
           IsFolded(old, new, batch, minute), NEW s \in Site, NEW m \in Minute
    PROVE  AllPages(new, s, m) = IF m = minute
                                 THEN Merge(AllPages(old, s, m), SiteAdded(batch, s))
                                 ELSE AllPages(old, s, m)
<1>1. \A p \in Page :
         /\ old[<<s, p, m>>] \in Hist
         /\ new[<<s, p, m>>] = IF m = minute
                              THEN Merge(old[<<s, p, m>>], PageAdded(batch, s, p))
                              ELSE old[<<s, p, m>>]
  <2>1. \A p \in Page : old[<<s, p, m>>] \in Hist
    BY DEF Buckets
  <2> QED
    BY <2>1, FoldedBuckets
<1>2. CASE m # minute
  <2>1. [b \in Bin |-> [p \in Page |-> new[<<s, p, m>>][b]]] =
            [b \in Bin |-> [p \in Page |-> old[<<s, p, m>>][b]]]
    BY <1>1, <1>2
  <2>2. ASSUME NEW b \in Bin
        PROVE  SumOver([p \in Page |-> new[<<s, p, m>>][b]], Page) =
                   SumOver([p \in Page |-> old[<<s, p, m>>][b]], Page)
    <3>1. [p \in Page |-> new[<<s, p, m>>][b]] = [p \in Page |-> old[<<s, p, m>>][b]]
      BY <1>1, <1>2
    <3> QED
      BY <3>1
  <2> QED
    BY <1>2, <2>2 DEF AllPages
<1>3. CASE m = minute
  <2>1. ASSUME NEW b \in Bin
        PROVE  SumOver([p \in Page |-> new[<<s, p, m>>][b]], Page) =
                   SumOver([p \in Page |-> old[<<s, p, m>>][b]], Page) + SiteAdded(batch, s)[b]
    <3> DEFINE f == [p \in Page |-> old[<<s, p, m>>][b]]
               g == [p \in Page |-> PageAdded(batch, s, p)[b]]
               h == [p \in Page |-> new[<<s, p, m>>][b]]
    <3>1. \A p \in Page : PageAdded(batch, s, p) \in Hist
      BY PageCounts
    <3>2. \A p \in Page : f[p] \in Nat /\ g[p] \in Nat /\ h[p] = f[p] + g[p]
      BY <1>1, <1>3, <3>1 DEF Merge, Hist
    <3>3. SumOver(g, Page) = SiteAdded(batch, s)[b]
      BY SiteCounts
    <3> HIDE DEF f, g, h
    <3>4. SumOver(h, Page) = SumOver(f, Page) + SumOver(g, Page)
      BY <3>2, SumPlus
    <3> QED
      BY <3>3, <3>4 DEF f, h
  <2> QED
    BY <1>3, <2>1 DEF AllPages, Merge
<1> QED
  BY <1>2, <1>3

\* A page's buckets grow by its samples.
LEMMA FoldedPage ==
    ASSUME NEW old \in Buckets, NEW new,
           NEW batch, IsBatch(batch), NEW minute \in Minute,
           IsFolded(old, new, batch, minute), NEW s \in Site, NEW p \in Page
    PROVE  AllTime(new, s, p) = AllTime(old, s, p) + Cardinality(PageSamples(batch, s, p))
<1> DEFINE d == Cardinality(PageSamples(batch, s, p))
           f == [m \in Minute |-> Count(old[<<s, p, m>>])]
           g == [m \in Minute |-> Count(new[<<s, p, m>>])]
<1>1. /\ d \in Nat /\ PageAdded(batch, s, p) \in Hist
      /\ Count(PageAdded(batch, s, p)) = d
  BY PageCounts
<1>2. \A m \in Minute :
         /\ old[<<s, p, m>>] \in Hist
         /\ new[<<s, p, m>>] = IF m = minute
                              THEN Merge(old[<<s, p, m>>], PageAdded(batch, s, p))
                              ELSE old[<<s, p, m>>]
  <2>1. \A m \in Minute : old[<<s, p, m>>] \in Hist
    BY DEF Buckets
  <2> QED
    BY <2>1, FoldedBuckets
<1>3. \A m \in Minute : f[m] \in Nat
  BY <1>2, UpToType DEF Count
<1>4. \A m \in Minute : g[m] = IF m = minute THEN f[minute] + d ELSE f[m]
  BY <1>1, <1>2, MergeCounts
<1>5. IsFiniteSet(Minute)
  BY MinutesAreFinite
<1> HIDE DEF d, f, g
<1>6. SumOver(g, Minute) = SumOver(f, Minute) + d
  BY <1>1, <1>3, <1>4, <1>5, SumChange
<1> QED
  BY <1>6 DEF AllTime, d, f, g

\* A page's window depends on the page's buckets alone.
LEMMA TrailingSame ==
    ASSUME NEW old, NEW new, NEW s, NEW p, NEW minute,
           \A m \in Minute : new[<<s, p, m>>] = old[<<s, p, m>>]
    PROVE  Trailing(new, s, p, minute) = Trailing(old, s, p, minute)
<1>1. ASSUME NEW b \in Bin
      PROVE  [m \in Minute |-> new[<<s, p, m>>][b]] = [m \in Minute |-> old[<<s, p, m>>][b]]
  OBVIOUS
<1> QED
  BY <1>1 DEF Trailing

\* Nothing is counted when the tables are created.
LEMMA InitInv ==
    Init => IInv
<1> SUFFICES ASSUME Init PROVE IInv
  OBVIOUS
<1>1. EmptyHist \in Hist
  BY DEF EmptyHist, Hist
<1>2. TypeOK
  BY <1>1 DEF Init, TypeOK, Time
<1>3. Count(EmptyHist) = 0
  <2>1. \A b \in 1..NumBins : EmptyHist[b] = 0
    BY DEF EmptyHist, Bin
  <2>2. IsFiniteSet(1..NumBins)
    BY FS_Interval
  <2> QED
    BY <2>1, <2>2, SumZero DEF Count, UpTo
<1>4. ASSUME NEW s \in Site, NEW m \in Minute
      PROVE  siteMinute[<<s, m>>].hist = AllPages(pageMinute, s, m)
  <2>1. ASSUME NEW b \in Bin
        PROVE  SumOver([p \in Page |-> pageMinute[<<s, p, m>>][b]], Page) = 0
    <3> DEFINE f == [p \in Page |-> pageMinute[<<s, p, m>>][b]]
    <3>1. \A p \in Page : f[p] = 0
      BY DEF Init, EmptyHist
    <3> HIDE DEF f
    <3>2. SumOver(f, Page) = 0
      BY <3>1, SumZero
    <3> QED
      BY <3>2 DEF f
  <2>2. siteMinute[<<s, m>>].hist = EmptyHist
    BY DEF Init
  <2> QED
    BY <2>1, <2>2 DEF AllPages, EmptyHist
<1>5. ASSUME NEW s \in Site, NEW p \in Page
      PROVE  pageCurrent[<<s, p>>].count = 0 /\ AllTime(pageMinute, s, p) = 0
  <2> DEFINE f == [m \in Minute |-> Count(pageMinute[<<s, p, m>>])]
  <2>1. \A m \in Minute : f[m] = 0
    BY <1>3 DEF Init
  <2>2. IsFiniteSet(Minute)
    BY MinutesAreFinite
  <2> HIDE DEF f
  <2>3. SumOver(f, Minute) = 0
    BY <2>1, <2>2, SumZero
  <2> QED
    BY <2>3 DEF f, AllTime, Init
<1>6. TrendIsDerived
  BY <1>3 DEF Init, TrendIsDerived, P75
<1> QED
  BY <1>2, <1>4, <1>5, <1>6 DEF IInv, SiteMergesPages, CurrentIsDerived
\* A fold of any batch, at any time, keeps it.
LEMMA FoldKeeps ==
    ASSUME IInv, NEW batch, IsBatch(batch), NEW now \in Time, Fold(batch, now)
    PROVE  IInv'
<1> DEFINE minute == MinuteOf(now)
           Edges == {0} \union {UpperMs[b] : b \in Bin}
<1>1. minute \in Minute
  BY MinuteIsKept
<1>2. pageMinute \in Buckets /\ IsFolded(pageMinute, pageMinute', batch, minute)
  BY DEF IInv, TypeOK, Buckets, Fold, FoldPageMinute, IsFolded
<1>3. pageMinute' \in Buckets
  BY <1>1, <1>2, FoldedBuckets
<1>4. ASSUME NEW s \in Site, NEW m \in Minute
      PROVE  /\ siteMinute[<<s, m>>].hist \in Hist
             /\ siteMinute'[<<s, m>>] =
                    IF m = minute
                    THEN [hist |-> Merge(siteMinute[<<s, m>>].hist, SiteAdded(batch, s)),
                          p75  |-> P75(Merge(siteMinute[<<s, m>>].hist, SiteAdded(batch, s)))]
                    ELSE siteMinute[<<s, m>>]
  BY DEF IInv, TypeOK, Fold, FoldSiteMinute
<1>5. ASSUME NEW s \in Site, NEW m \in Minute
      PROVE  /\ siteMinute'[<<s, m>>] \in [hist : Hist, p75 : Edges]
             /\ siteMinute'[<<s, m>>].hist = AllPages(pageMinute', s, m)
             /\ siteMinute'[<<s, m>>].p75 = P75(siteMinute'[<<s, m>>].hist)
  <2>1. /\ siteMinute[<<s, m>>] \in [hist : Hist, p75 : Edges]
        /\ siteMinute[<<s, m>>].hist = AllPages(pageMinute, s, m)
        /\ siteMinute[<<s, m>>].p75 = P75(siteMinute[<<s, m>>].hist)
    BY DEF IInv, TypeOK, SiteMergesPages, TrendIsDerived
  <2>2. AllPages(pageMinute', s, m) = IF m = minute
                                      THEN Merge(AllPages(pageMinute, s, m), SiteAdded(batch, s))
                                      ELSE AllPages(pageMinute, s, m)
    BY <1>1, <1>2, FoldedSite
  <2>3. CASE m # minute
    BY <1>4, <2>1, <2>2, <2>3
  <2>4. CASE m = minute
    <3> DEFINE hist == Merge(siteMinute[<<s, m>>].hist, SiteAdded(batch, s))
    <3>1. hist \in Hist
      BY <1>4, SiteCounts, MergeCounts
    <3>2. P75(hist) \in Edges
      BY <3>1, P75Type
    <3>3. siteMinute'[<<s, m>>] = [hist |-> hist, p75 |-> P75(hist)]
      BY <1>4, <2>4
    <3>4. hist = AllPages(pageMinute', s, m)
      BY <2>1, <2>2, <2>4
    <3> HIDE DEF hist, Edges
    <3> QED
      BY <3>1, <3>2, <3>3, <3>4
  <2> QED
    BY <2>3, <2>4
<1>6. ASSUME NEW s \in Site, NEW p \in Page
      PROVE  /\ pageCurrent'[<<s, p>>] \in [count : Nat, p75 : Edges, lastSeen : Time]
             /\ pageCurrent'[<<s, p>>].count = AllTime(pageMinute', s, p)
             /\ pageCurrent'[<<s, p>>].count > 0 =>
                    pageCurrent'[<<s, p>>].p75 =
                        P75(Trailing(pageMinute', s, p,
                                     MinuteOf(pageCurrent'[<<s, p>>].lastSeen)))
  <2> DEFINE row == pageCurrent[<<s, p>>]
             samples == PageSamples(batch, s, p)
             n == Cardinality(samples)
  <2>1. /\ row \in [count : Nat, p75 : Edges, lastSeen : Time]
        /\ row.count = AllTime(pageMinute, s, p)
        /\ row.count > 0 => row.p75 = P75(Trailing(pageMinute, s, p, MinuteOf(row.lastSeen)))
    BY DEF IInv, TypeOK, CurrentIsDerived, Trailing
  <2>2. AllTime(pageMinute', s, p) = AllTime(pageMinute, s, p) + n /\ n \in Nat
    BY <1>1, <1>2, FoldedPage, PageCounts
  <2>3. CASE samples = {}
    <3>1. pageCurrent'[<<s, p>>] = row
      BY <2>3 DEF Fold, FoldPageCurrent
    <3>2. AllTime(pageMinute', s, p) = AllTime(pageMinute, s, p)
      BY <2>1, <2>2, <2>3, FS_EmptySet
    <3>3. \A m \in Minute : pageMinute'[<<s, p, m>>] = pageMinute[<<s, p, m>>]
      BY <1>1, <1>2, <2>3, FoldedBuckets
    <3>4. Trailing(pageMinute', s, p, MinuteOf(row.lastSeen)) =
              Trailing(pageMinute, s, p, MinuteOf(row.lastSeen))
      BY <3>3, TrailingSame
    <3> QED
      BY <2>1, <3>1, <3>2, <3>4
  <2>4. CASE samples # {}
    <3> DEFINE p75 == P75(Trailing(pageMinute', s, p, minute))
    <3>1. pageCurrent'[<<s, p>>] = [count |-> row.count + n, p75 |-> p75, lastSeen |-> now]
      BY <2>4 DEF Fold, FoldPageCurrent
    <3>2. p75 \in Edges
      BY <1>3, TrailingType, P75Type DEF Buckets
    <3> HIDE DEF p75, Edges, n
    <3>3. pageCurrent'[<<s, p>>] \in [count : Nat, p75 : Edges, lastSeen : Time]
      BY <2>1, <2>2, <3>1, <3>2
    <3> QED
      BY <2>1, <2>2, <3>1, <3>3 DEF p75
  <2> QED
    BY <2>3, <2>4
<1>7. TypeOK'
  <2>1. \A k \in Site \X Minute : k = <<k[1], k[2]>>
    OBVIOUS
  <2>2. \A k \in Site \X Page : k = <<k[1], k[2]>>
    OBVIOUS
  <2>3. siteMinute' \in [Site \X Minute -> [hist : Hist, p75 : Edges]]
    <3> HIDE DEF Edges
    <3>1. \A k \in Site \X Minute : siteMinute'[k] \in [hist : Hist, p75 : Edges]
      BY <1>5, <2>1
    <3>2. siteMinute' = [k \in Site \X Minute |-> siteMinute'[k]]
      BY DEF Fold, FoldSiteMinute
    <3> QED
      BY <3>1, <3>2
  <2>4. pageCurrent' \in [Site \X Page -> [count : Nat, p75 : Edges, lastSeen : Time]]
    <3> HIDE DEF Edges
    <3>1. \A k \in Site \X Page : pageCurrent'[k] \in [count : Nat, p75 : Edges, lastSeen : Time]
      BY <1>6, <2>2
    <3>2. pageCurrent' = [k \in Site \X Page |-> pageCurrent'[k]]
      BY DEF Fold, FoldPageCurrent
    <3> QED
      BY <3>1, <3>2
  <2> QED
    BY <1>3, <2>3, <2>4 DEF TypeOK, Buckets
<1>8. SiteMergesPages'
  BY <1>5 DEF SiteMergesPages
<1>9. CurrentIsDerived'
  BY <1>6 DEF CurrentIsDerived, Trailing
<1>10. TrendIsDerived'
  BY <1>5 DEF TrendIsDerived
<1> QED
  BY <1>7, <1>8, <1>9, <1>10 DEF IInv

\* Claim's batches are finite.
LEMMA BatchesAreFinite ==
    ASSUME NEW n \in Nat, NEW batch \in Batches(n)
    PROVE  IsBatch(batch)
<1>1. PICK i \in 1..n : batch \in [1..i -> Sample]
  BY DEF Batches
<1>2. IsFiniteSet(1..i)
  BY FS_Interval
<1> QED
  BY <1>1, <1>2 DEF IsBatch

\* Every step keeps it.
LEMMA StepInv ==
    IInv /\ [Next]_vars => IInv'
<1> SUFFICES ASSUME IInv, [Next]_vars PROVE IInv'
  OBVIOUS
<1>1. CASE Next
  <2>1. PICK batch \in Batches(Limit), now \in Time : Fold(batch, now)
    BY <1>1 DEF Next
  <2>2. IsBatch(batch)
    BY BatchesAreFinite
  <2> QED
    BY <2>1, <2>2, FoldKeeps
<1>2. CASE UNCHANGED vars
  <2>1. TypeOK'
    BY <1>2 DEF vars, IInv, TypeOK
  <2>2. SiteMergesPages'
    BY <1>2 DEF vars, IInv, SiteMergesPages
  <2>3. CurrentIsDerived'
    BY <1>2 DEF vars, IInv, CurrentIsDerived
  <2>4. TrendIsDerived'
    BY <1>2 DEF vars, IInv, TrendIsDerived
  <2> QED
    BY <2>1, <2>2, <2>3, <2>4 DEF IInv
<1> QED
  BY <1>1, <1>2

\* The invariant holds throughout.
THEOREM Inductive == Spec => []IInv
BY InitInv, StepInv, PTL DEF Spec
-----------------------------------------------------------------------------
(* What it implies. *)

\* Histograms count with natural numbers and a served p75 is a bin's edge,
\* whatever is folded.
THEOREM TypeCorrect == Spec => []TypeOK
<1>1. IInv => TypeOK
  BY DEF IInv
<1> QED
  BY <1>1, Inductive, PTL

\* The site's buckets, filled from the samples, say the same as its pages'.
THEOREM SiteMerges == Spec => []SiteMergesPages
<1>1. IInv => SiteMergesPages
  BY DEF IInv
<1> QED
  BY <1>1, Inductive, PTL

\* A page's running row can be rebuilt from its buckets.
THEOREM CurrentDerived == Spec => []CurrentIsDerived
<1>1. IInv => CurrentIsDerived
  BY DEF IInv
<1> QED
  BY <1>1, Inductive, PTL

\* The bins whose edge is at most, or below, that of bin b.
LEMMA BinsBelow ==
    ASSUME NEW b \in Bin
    PROVE  /\ {a \in Bin : UpperMs[a] <= UpperMs[b]} = 1..b
           /\ {a \in Bin : UpperMs[a] < UpperMs[b]} = 1..(b - 1)
<1>1. ASSUME NEW a \in Bin
      PROVE  /\ UpperMs[a] <= UpperMs[b] <=> a <= b
             /\ UpperMs[a] < UpperMs[b] <=> a < b
  <2>1. a \in Nat /\ b \in Nat /\ UpperMs[a] \in Nat /\ UpperMs[b] \in Nat
    BY DEF Bin
  <2>2. a < b => UpperMs[a] < UpperMs[b]
    OBVIOUS
  <2>3. b < a => UpperMs[b] < UpperMs[a]
    OBVIOUS
  <2>4. a < b \/ b < a \/ a = b
    BY <2>1
  <2> QED
    BY <2>1, <2>2, <2>3, <2>4
<1>2. \A a : a \in 1..b <=> a \in Bin /\ a <= b
  BY DEF Bin
<1>3. \A a : a \in 1..(b - 1) <=> a \in Bin /\ a < b
  BY DEF Bin
<1> QED
  BY <1>1, <1>2, <1>3

\* P75 is the nearest-rank percentile of the edges.
LEMMA P75IsNearestRank ==
    ASSUME NEW h \in Hist, Count(h) # 0
    PROVE  /\ 4 * SumOver(h, {a \in Bin : UpperMs[a] <= P75(h)}) >= 3 * Count(h)
           /\ 4 * SumOver(h, {a \in Bin : UpperMs[a] < P75(h)}) < 3 * Count(h)
<1>1. PICK b \in Bin : /\ P75(h) = UpperMs[b]
                       /\ 4 * UpTo(h, b) >= 3 * Count(h)
                       /\ \A a \in Bin : a < b => 4 * UpTo(h, a) < 3 * Count(h)
  BY P75IsRank
<1>2. /\ {a \in Bin : UpperMs[a] <= P75(h)} = 1..b
      /\ {a \in Bin : UpperMs[a] < P75(h)} = 1..(b - 1)
  BY <1>1, BinsBelow
<1>3. 4 * UpTo(h, b - 1) < 3 * Count(h)
  <2>1. Count(h) \in Nat /\ Count(h) > 0
    BY UpToType DEF Count
  <2>2. CASE b = 1
    <3>1. 1..(b - 1) = {}
      BY <2>2
    <3>2. UpTo(h, b - 1) = 0
      BY <3>1, SumEmpty DEF UpTo
    <3> QED
      BY <2>1, <3>2
  <2>3. CASE b # 1
    <3>1. b - 1 \in Bin /\ b - 1 < b
      BY <2>3 DEF Bin
    <3> QED
      BY <1>1, <3>1
  <2> QED
    BY <2>2, <2>3
<1> QED
  BY <1>1, <1>2, <1>3 DEF UpTo

\* A trend point that is derived from its histogram is a nearest rank.
LEMMA TrendFollows ==
    IInv => TrendIsNearestRank
<1> SUFFICES ASSUME IInv, NEW s \in Site, NEW m \in Minute,
                    SumOver(siteMinute[<<s, m>>].hist, Bin) > 0
             PROVE  LET row == siteMinute[<<s, m>>]
                        Samples(bins) == SumOver(row.hist, bins)
                        n == Samples(Bin)
                    IN  /\ 4 * Samples({b \in Bin : UpperMs[b] <= row.p75}) >= 3 * n
                        /\ 4 * Samples({b \in Bin : UpperMs[b] < row.p75}) < 3 * n
  BY DEF TrendIsNearestRank
<1> DEFINE h == siteMinute[<<s, m>>].hist
<1>1. h \in Hist /\ siteMinute[<<s, m>>].p75 = P75(h)
  BY DEF IInv, TypeOK, TrendIsDerived
<1>2. Count(h) = SumOver(h, Bin) /\ Count(h) # 0
  BY DEF Count, UpTo, Bin
<1> HIDE DEF h
<1>3. /\ 4 * SumOver(h, {a \in Bin : UpperMs[a] <= P75(h)}) >= 3 * Count(h)
      /\ 4 * SumOver(h, {a \in Bin : UpperMs[a] < P75(h)}) < 3 * Count(h)
  BY <1>1, <1>2, P75IsNearestRank
<1> QED
  BY <1>1, <1>2, <1>3 DEF h

\* A trend point is the 75th percentile of its minute by nearest rank, for any
\* number of bins and any growing edges.
THEOREM NearestRank == Spec => []TrendIsNearestRank
BY Inductive, TrendFollows, PTL

\* A step adds to the buckets of one minute, and takes nothing away.
LEMMA StepGrows ==
    IInv /\ [Next]_vars => [OneMinuteGrowsStep]_vars
<1> SUFFICES ASSUME IInv, Next PROVE OneMinuteGrowsStep
  BY DEF vars
<1>1. PICK batch \in Batches(Limit), now \in Time : Fold(batch, now)
  BY DEF Next
<1> DEFINE minute == MinuteOf(now)
<1>2. IsBatch(batch) /\ minute \in Minute
  BY BatchesAreFinite, MinuteIsKept
<1>3. ASSUME NEW s \in Site, NEW p \in Page, NEW m \in Minute
      PROVE  /\ \A b \in Bin : pageMinute'[<<s, p, m>>][b] >= pageMinute[<<s, p, m>>][b]
             /\ m # minute => pageMinute'[<<s, p, m>>] = pageMinute[<<s, p, m>>]
  <2>1. pageMinute[<<s, p, m>>] \in Hist /\ PageAdded(batch, s, p) \in Hist
    BY <1>2, PageCounts DEF IInv, TypeOK
  <2>2. pageMinute'[<<s, p, m>>] = IF m = minute
                                   THEN Merge(pageMinute[<<s, p, m>>], PageAdded(batch, s, p))
                                   ELSE pageMinute[<<s, p, m>>]
    BY <1>1 DEF Fold, FoldPageMinute
  <2> QED
    BY <2>1, <2>2 DEF Merge, Hist
<1>4. ASSUME NEW s \in Site, NEW p \in Page
      PROVE  pageCurrent'[<<s, p>>].count >= pageCurrent[<<s, p>>].count
  <2>1. /\ pageCurrent[<<s, p>>].count \in Nat
        /\ Cardinality(PageSamples(batch, s, p)) \in Nat
    BY <1>2, PageCounts DEF IInv, TypeOK
  <2> QED
    BY <1>1, <2>1 DEF Fold, FoldPageCurrent
<1>5. \A s \in Site, m \in Minute :
          m # minute => siteMinute'[<<s, m>>] = siteMinute[<<s, m>>]
  BY <1>1 DEF Fold, FoldSiteMinute
<1>6. /\ \A k \in Site \X Page \X Minute : k = <<k[1], k[2], k[3]>>
      /\ \A k \in Site \X Page : k = <<k[1], k[2]>>
      /\ \A k \in Site \X Minute : k = <<k[1], k[2]>>
  OBVIOUS
<1>7. \A k \in Site \X Page \X Minute :
          /\ \A b \in Bin : pageMinute'[k][b] >= pageMinute[k][b]
          /\ k[3] # minute => pageMinute'[k] = pageMinute[k]
  BY <1>3, <1>6
<1>8. \A k \in Site \X Page : pageCurrent'[k].count >= pageCurrent[k].count
  BY <1>4, <1>6
<1>9. \A k \in Site \X Minute : k[2] # minute => siteMinute'[k] = siteMinute[k]
  BY <1>5, <1>6
<1> HIDE DEF minute
<1> QED
  BY <1>2, <1>7, <1>8, <1>9 DEF OneMinuteGrowsStep

\* Only one minute's buckets ever change at a time, and only by growing.
THEOREM PastIsFixed == Spec => OneMinuteGrows
BY Inductive, StepGrows, PTL DEF Spec, OneMinuteGrows
-----------------------------------------------------------------------------
(* The names of the samples in a batch do not matter. *)

\* The same batch, by other names.
Renamed(batch, h) == [i \in DOMAIN h |-> batch[h[i]]]

\* Renaming keeps sizes.
LEMMA RenamedSize ==
    ASSUME NEW D, IsFiniteSet(D), NEW E, NEW h \in Bijection(D, E), NEW P \in SUBSET E
    PROVE  Cardinality({i \in D : h[i] \in P}) = Cardinality(P)
<1> DEFINE Q == {i \in D : h[i] \in P}
           g == [i \in Q |-> h[i]]
<1>1. IsFiniteSet(Q)
  BY FS_Subset
<1>2. /\ h \in [D -> E]
      /\ \A a, b \in D : h[a] = h[b] => a = b
      /\ \A t \in E : \E i \in D : h[i] = t
  BY DEF Bijection, Injection, Surjection, IsInjective
<1>3. g \in Injection(Q, P)
  BY <1>2 DEF Injection, IsInjective
<1>4. g \in Surjection(Q, P)
  BY <1>2 DEF Surjection
<1> HIDE DEF Q, g
<1>5. ExistsBijection(Q, P)
  BY <1>3, <1>4 DEF ExistsBijection, Bijection
<1>6. Cardinality(P) = Cardinality(Q)
  BY <1>1, <1>5, FS_Bijection
<1> QED
  BY <1>6 DEF Q

\* So a batch adds to every page and site what it adds by other names.
LEMMA RenamedAdds ==
    ASSUME NEW batch, NEW D, IsFiniteSet(D), NEW h \in Bijection(D, DOMAIN batch),
           NEW s, NEW p
    PROVE  /\ PageAdded(Renamed(batch, h), s, p) = PageAdded(batch, s, p)
           /\ SiteAdded(Renamed(batch, h), s) = SiteAdded(batch, s)
           /\ Cardinality(PageSamples(Renamed(batch, h), s, p)) =
                  Cardinality(PageSamples(batch, s, p))
           /\ PageSamples(Renamed(batch, h), s, p) = {} <=> PageSamples(batch, s, p) = {}
<1> DEFINE new == Renamed(batch, h)
           E == DOMAIN batch
           Named(P) == {i \in D : h[i] \in P}
<1>1. /\ h \in [D -> E]
      /\ \A t \in E : \E i \in D : h[i] = t
  BY DEF Bijection, Injection, Surjection
<1>2. DOMAIN new = D /\ \A i \in D : new[i] = batch[h[i]] /\ h[i] \in E
  BY <1>1 DEF Renamed
<1>3. \A P \in SUBSET E : Cardinality(Named(P)) = Cardinality(P)
  BY RenamedSize
<1> HIDE DEF new
<1>4. PageSamples(new, s, p) = Named(PageSamples(batch, s, p))
  BY <1>2 DEF PageSamples
<1>5. PageSamples(batch, s, p) \in SUBSET E
  BY DEF PageSamples
<1>6. ASSUME NEW b \in Bin
      PROVE  PageAdded(new, s, p)[b] = PageAdded(batch, s, p)[b]
  <2> DEFINE P == {e \in PageSamples(batch, s, p) : batch[e][3] = b}
  <2>1. {i \in PageSamples(new, s, p) : new[i][3] = b} = Named(P)
    BY <1>2, <1>4
  <2>2. P \in SUBSET E
    BY <1>5
  <2>3. Cardinality(Named(P)) = Cardinality(P)
    <3> HIDE DEF P, Named
    <3> QED
      BY <1>3, <2>2
  <2> QED
    BY <2>1, <2>3 DEF PageAdded
<1>7. ASSUME NEW b \in Bin
      PROVE  SiteAdded(new, s)[b] = SiteAdded(batch, s)[b]
  <2> DEFINE P == {e \in E : batch[e][1] = s /\ batch[e][3] = b}
  <2>1. {i \in DOMAIN new : new[i][1] = s /\ new[i][3] = b} = Named(P)
    BY <1>2
  <2>2. P \in SUBSET E
    OBVIOUS
  <2>3. Cardinality(Named(P)) = Cardinality(P)
    <3> HIDE DEF P, Named
    <3> QED
      BY <1>3, <2>2
  <2> QED
    BY <2>1, <2>3 DEF SiteAdded
<1>8. PageAdded(new, s, p) = PageAdded(batch, s, p)
  BY <1>6 DEF PageAdded
<1>9. SiteAdded(new, s) = SiteAdded(batch, s)
  BY <1>7 DEF SiteAdded
<1>10. Cardinality(PageSamples(new, s, p)) = Cardinality(PageSamples(batch, s, p))
  <2> HIDE DEF Named
  <2> QED
    BY <1>3, <1>4, <1>5
<1>11. PageSamples(new, s, p) = {} <=> PageSamples(batch, s, p) = {}
  BY <1>1, <1>4, <1>5
<1> QED
  BY <1>8, <1>9, <1>10, <1>11 DEF new

\* And folding it is the same step.
LEMMA RenamedFold ==
    ASSUME NEW batch, NEW D, IsFiniteSet(D), NEW h \in Bijection(D, DOMAIN batch), NEW now
    PROVE  Fold(Renamed(batch, h), now) <=> Fold(batch, now)
<1> DEFINE new == Renamed(batch, h)
<1>1. \A s, p : /\ PageAdded(new, s, p) = PageAdded(batch, s, p)
                /\ SiteAdded(new, s) = SiteAdded(batch, s)
                /\ Cardinality(PageSamples(new, s, p)) = Cardinality(PageSamples(batch, s, p))
                /\ PageSamples(new, s, p) = {} <=> PageSamples(batch, s, p) = {}
  BY RenamedAdds
<1> HIDE DEF new
<1>2. FoldPageMinute(new, MinuteOf(now)) <=> FoldPageMinute(batch, MinuteOf(now))
  BY <1>1 DEF FoldPageMinute
<1>3. FoldSiteMinute(new, MinuteOf(now)) <=> FoldSiteMinute(batch, MinuteOf(now))
  BY <1>1 DEF FoldSiteMinute
<1>4. FoldPageCurrent(new, now) <=> FoldPageCurrent(batch, now)
  <2> DEFINE Row(b, k) ==
               IF PageSamples(b, k[1], k[2]) = {} THEN pageCurrent[k]
               ELSE [count    |-> pageCurrent[k].count
                                      + Cardinality(PageSamples(b, k[1], k[2])),
                     p75      |-> P75(Trailing(pageMinute', k[1], k[2], MinuteOf(now))),
                     lastSeen |-> now]
  <2>1. \A b : FoldPageCurrent(b, now) <=>
                   pageCurrent' = [k \in Site \X Page |-> Row(b, k)]
    BY DEF FoldPageCurrent
  <2>2. \A k : Row(new, k) = Row(batch, k)
    BY <1>1
  <2> HIDE DEF Row
  <2> QED
    BY <2>1, <2>2
<1> QED
  BY <1>2, <1>3, <1>4 DEF Fold, new

\* So a fold of any finite batch, whatever names its samples, is a fold of a slice.
LEMMA SliceOfBatch ==
    ASSUME NEW batch, IsBatch(batch), DOMAIN batch # {}, NEW n \in Nat,
           Cardinality(DOMAIN batch) <= n, NEW now
    PROVE  \E slice \in Batches(n) :
               /\ Cardinality(DOMAIN slice) = Cardinality(DOMAIN batch)
               /\ Fold(slice, now) <=> Fold(batch, now)
<1> DEFINE E == DOMAIN batch
           k == Cardinality(E)
<1>1. IsFiniteSet(E) /\ k \in Nat /\ k # 0
  BY FS_CardinalityType, FS_EmptySet DEF IsBatch
<1>2. IsFiniteSet(1..k) /\ Cardinality(1..k) = k
  BY <1>1, FS_Interval
<1>3. PICK h : h \in Bijection(1..k, E)
  <2>1. ExistsBijection(1..k, E)
    BY <1>1, <1>2, FS_SameCardinalityBij
  <2> QED
    BY <2>1 DEF ExistsBijection
<1> DEFINE slice == Renamed(batch, h)
<1>4. h \in [1..k -> E]
  BY <1>3 DEF Bijection, Injection
<1>5. slice \in [1..k -> Sample] /\ DOMAIN slice = 1..k
  <2>1. \A e \in E : batch[e] \in Sample
    BY DEF IsBatch
  <2> HIDE DEF E, k
  <2> QED
    BY <1>4, <2>1 DEF Renamed
<1>6. slice \in Batches(n)
  <2>1. k \in 1..n
    BY <1>1
  <2> HIDE DEF slice, k
  <2> QED
    BY <1>5, <2>1 DEF Batches
<1>7. Fold(slice, now) <=> Fold(batch, now)
  <2> HIDE DEF k
  <2> QED
    BY <1>2, <1>3, RenamedFold
<1> QED
  BY <1>2, <1>5, <1>6, <1>7
=============================================================================
