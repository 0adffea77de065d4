----------------------------- MODULE FiniteFacts -----------------------------
(***************************************************************************)
(* Facts about the smallest and the largest element of a set of numbers,   *)
(* about sums over finite sets, rankings and folds, which the proofs of    *)
(* the job index, the event cache and the hub share.                       *)
(*                                                                         *)
(* Induction is by a least counterexample: every non-empty set of natural  *)
(* numbers has a smallest element, and every non-empty set of finite sets  *)
(* has one that none of the others is contained in.                        *)
(***************************************************************************)
EXTENDS FiniteSetsExt, FiniteSetTheorems, TLAPS

-----------------------------------------------------------------------------
(* Every non-empty set of natural numbers has a smallest element.           *)
LEMMA SmallestExists ==
  ASSUME NEW S \in SUBSET Nat, S # {}
  PROVE  \E n \in S : \A m \in S : n <= m
<1> DEFINE Less == {p \in Nat \X Nat : p[1] < p[2]}
<1>1. IsWellFoundedOn(Less, Nat)
  BY NatLessThanWellFounded, Zenon DEF OpToRel
<1>2. PICK n \in S : \A m \in S : ~(<<m, n>> \in Less)
  <2> HIDE DEF Less
  <2> QED BY <1>1, WFMin
<1>3. \A m \in S : m < n => <<m, n>> \in Less
  OBVIOUS
<1>4. \A m \in S : ~(m < n)
  BY <1>2, <1>3
<1> QED BY <1>4

(* Min of a non-empty set of natural numbers is its smallest element.       *)
LEMMA MinOfNats ==
  ASSUME NEW S \in SUBSET Nat, S # {}
  PROVE  Min(S) \in S /\ \A m \in S : Min(S) <= m
BY SmallestExists, Zenon DEF Min

(* Max of a non-empty, bounded set of natural numbers is its largest one.   *)
LEMMA MaxOfNats ==
  ASSUME NEW S \in SUBSET Nat, S # {}, NEW b \in Nat, \A m \in S : m <= b
  PROVE  Max(S) \in S /\ \A m \in S : m <= Max(S)
<1> DEFINE Gaps == {b - m : m \in S}
<1>1. Gaps \in SUBSET Nat /\ Gaps # {}
  <2>1. \A m \in S : b - m \in Nat
    OBVIOUS
  <2>2. PICK m \in S : TRUE
    OBVIOUS
  <2>3. b - m \in Gaps
    BY <2>2
  <2> QED BY <2>1, <2>3
<1>2. PICK g \in Gaps : \A h \in Gaps : g <= h
  BY <1>1, SmallestExists
<1>3. PICK n \in S : g = b - n
  BY <1>2
<1>4. \A m \in S : n >= m
  <2> TAKE m \in S
  <2>1. b - m \in Gaps /\ b - n <= b - m
    BY <1>2, <1>3
  <2>2. m \in Nat /\ n \in Nat
    OBVIOUS
  <2> QED BY <2>1, <2>2
<1>5. \E x \in S : \A y \in S : x >= y
  BY <1>4
<1>6. Max(S) \in S /\ \A m \in S : Max(S) >= m
  BY <1>5, Zenon DEF Max
<1> QED BY <1>6

(* Among the subsets of a finite set that are in C one has no smaller one.  *)
LEMMA SmallestSubset ==
  ASSUME NEW S, IsFiniteSet(S), NEW C \in SUBSET (SUBSET S), C # {}
  PROVE  \E T \in C : \A U \in C : U \subseteq T => U = T
<1>1. IsWellFoundedOn(StrictSubsetOrdering(S), SUBSET S)
  BY FS_StrictSubsetOrderingWellFounded, FS_FiniteSubsetsOfFinite
<1>2. PICK T \in C : \A U \in C : ~(<<U, T>> \in StrictSubsetOrdering(S))
  BY <1>1, WFMin
<1>3. \A U \in C : U \subseteq T /\ U # T => <<U, T>> \in StrictSubsetOrdering(S)
  BY DEF StrictSubsetOrdering
<1>4. \A U \in C : U \subseteq T => U = T
  BY <1>2, <1>3
<1> QED BY <1>4
-----------------------------------------------------------------------------
(* The sum over a finite set, of a function.  MapThenSumSet chooses a       *)
(* function `g` that satisfies a recursive equation; it is to be shown that *)
(* there is one, and that it matters not which is chosen.                   *)
SumOf(f, S) == MapThenSumSet(LAMBDA x : f[x], S)

Pick(T) == CHOOSE x \in T : TRUE

Unfold(g, f, T) == IF T = {} THEN 0 ELSE f[Pick(T)] + g[T \ {Pick(T)}]

IsSum(g, f, S) == g = [T \in SUBSET S |-> Unfold(g, f, T)]

(* The chosen element of a non-empty set is in it.                          *)
LEMMA PickIn ==
  ASSUME NEW T, T # {}
  PROVE  Pick(T) \in T
BY DEF Pick

(* The recursive equation of a sum has a solution: by induction on n, one   *)
(* for the subsets of no more than n elements.                              *)
LEMMA SumExists ==
  ASSUME NEW S, IsFiniteSet(S), NEW f
  PROVE  \E g : IsSum(g, f, S)
<1> DEFINE Upto(n)  == {T \in SUBSET S : Cardinality(T) <= n}
           Sums(g, n) == g = [T \in Upto(n) |-> Unfold(g, f, T)]
           Bad == {n \in Nat : ~\E g : Sums(g, n)}
<1>1. \A T \in SUBSET S : IsFiniteSet(T) /\ Cardinality(T) \in Nat
  BY FS_Subset, FS_CardinalityType
<1>2. \A T \in SUBSET S : T # {} =>
         /\ T \ {Pick(T)} \in SUBSET S
         /\ Cardinality(T \ {Pick(T)}) = Cardinality(T) - 1
  BY <1>1, PickIn, FS_RemoveElement
<1>3. Bad = {}
  <2> SUFFICES ASSUME Bad # {} PROVE FALSE
    OBVIOUS
  <2>1. PICK n \in Bad : \A m \in Bad : n <= m
    BY SmallestExists
  <2>2. n \in Nat /\ ~\E g : Sums(g, n)
    OBVIOUS
  <2>3. CASE n = 0
    <3> DEFINE g == [T \in Upto(0) |-> 0]
    <3>1. \A T \in Upto(0) : T = {}
      BY <1>1, FS_EmptySet
    <3>2. Sums(g, 0)
      BY <3>1 DEF Unfold
    <3> QED BY <3>2, <2>2, <2>3
  <2>4. CASE n # 0
    <3>1. n - 1 \in Nat /\ n - 1 \notin Bad
      <4> HIDE DEF Bad
      <4> QED BY <2>1, <2>2, <2>4
    <3>2. PICK h : Sums(h, n - 1)
      BY <3>1
    <3> DEFINE g == [T \in Upto(n) |-> Unfold(h, f, T)]
    <3>3. \A T \in Upto(n - 1) : T \in Upto(n) /\ g[T] = h[T]
      BY <3>2, <1>1, <2>2
    <3>4. \A T \in Upto(n) : T # {} => T \ {Pick(T)} \in Upto(n - 1)
      BY <1>1, <1>2, <2>2
    <3>5. \A T \in Upto(n) : Unfold(h, f, T) = Unfold(g, f, T)
      <4> HIDE DEF g, Upto
      <4> QED BY <3>3, <3>4 DEF Unfold
    <3>6. Sums(g, n)
      BY <3>5
    <3> QED BY <3>6, <2>2
  <2> QED BY <2>3, <2>4
<1>4. Cardinality(S) \in Nat /\ Upto(Cardinality(S)) = SUBSET S
  BY <1>1, FS_Subset
<1>5. PICK g : Sums(g, Cardinality(S))
  BY <1>3, <1>4
<1> QED BY <1>4, <1>5 DEF IsSum

(* A solution over a set and one over a subset agree on the subset, if what *)
(* is summed does.                                                          *)
LEMMA SumsAgree ==
  ASSUME NEW S, IsFiniteSet(S), NEW T \in SUBSET S, NEW f, NEW k, NEW g, NEW h,
         IsSum(g, f, S), IsSum(h, k, T), \A x \in T : f[x] = k[x]
  PROVE  \A U \in SUBSET T : g[U] = h[U]
<1> DEFINE Bad == {U \in SUBSET T : g[U] # h[U]}
<1> SUFFICES ASSUME Bad # {} PROVE FALSE
  OBVIOUS
<1>1. PICK U \in Bad : \A W \in Bad : W \subseteq U => W = U
  <2>1. Bad \in SUBSET (SUBSET S)
    OBVIOUS
  <2> HIDE DEF Bad
  <2> QED BY <2>1, SmallestSubset
<1>2. g[U] = Unfold(g, f, U) /\ h[U] = Unfold(h, k, U)
  BY DEF IsSum
<1>3. U # {} => Pick(U) \in U
  BY PickIn
<1>4. U # {} => g[U \ {Pick(U)}] = h[U \ {Pick(U)}]
  BY <1>1, <1>3
<1> QED BY <1>2, <1>3, <1>4 DEF Unfold

(* MapThenSumSet is the value of any solution.                              *)
LEMMA SumIs ==
  ASSUME NEW S, IsFiniteSet(S), NEW f, NEW g, IsSum(g, f, S)
  PROVE  SumOf(f, S) = g[S]
<1> DEFINE Solves(i) == i = [T \in SUBSET S |->
                               IF T = {} THEN 0
                               ELSE LET x == CHOOSE x \in T : TRUE IN f[x] + i[T \ {x}]]
           i == CHOOSE i : Solves(i)
<1>1. \A j : Solves(j) <=> IsSum(j, f, S)
  BY DEF IsSum, Unfold, Pick
<1>2. Solves(i)
  <2>1. Solves(g)
    BY <1>1
  <2> HIDE DEF Solves
  <2> QED BY <2>1, Zenon
<1>3. SumOf(f, S) = i[S]
  BY Zenon DEF SumOf, MapThenSumSet, MapThenFoldSet
<1>4. IsSum(i, f, S) /\ S \in SUBSET S
  BY <1>1, <1>2
<1> HIDE DEF i
<1>5. i[S] = g[S]
  BY <1>4, SumsAgree
<1> QED BY <1>3, <1>5
-----------------------------------------------------------------------------
(* Of nothing the sum is 0.                                                 *)
LEMMA SumEmpty ==
  ASSUME NEW f
  PROVE  SumOf(f, {}) = 0
<1>1. IsFiniteSet({}) /\ {} \in SUBSET {}
  BY FS_EmptySet
<1>2. PICK g : IsSum(g, f, {})
  BY <1>1, SumExists
<1>3. g[{}] = 0
  BY <1>1, <1>2 DEF IsSum, Unfold
<1> QED BY <1>1, <1>2, <1>3, SumIs

(* Otherwise it is what is summed of one element and the sum of the rest.   *)
LEMMA SumPick ==
  ASSUME NEW S, IsFiniteSet(S), S # {}, NEW f
  PROVE  SumOf(f, S) = f[Pick(S)] + SumOf(f, S \ {Pick(S)})
<1> DEFINE T == S \ {Pick(S)}
<1>1. IsFiniteSet(T) /\ T \in SUBSET S /\ S \in SUBSET S /\ T \in SUBSET T
  BY FS_Subset
<1>2. PICK g : IsSum(g, f, S)
  BY SumExists
<1>3. PICK h : IsSum(h, f, T)
  BY <1>1, SumExists
<1>4. g[T] = h[T]
  <2>1. \A x \in T : f[x] = f[x]
    OBVIOUS
  <2>2. \A U \in SUBSET T : g[U] = h[U]
    <3> HIDE DEF T
    <3> QED BY <1>1, <1>2, <1>3, <2>1, SumsAgree
  <2> QED BY <1>1, <2>2
<1>5. g[S] = f[Pick(S)] + g[T]
  BY <1>1, <1>2 DEF IsSum, Unfold
<1>6. SumOf(f, S) = g[S] /\ SumOf(f, T) = h[T]
  BY <1>1, <1>2, <1>3, SumIs
<1> QED BY <1>4, <1>5, <1>6

(* A sum of natural numbers is one, and a sum of integers is one.           *)
LEMMA SumType ==
  ASSUME NEW S, IsFiniteSet(S), NEW f, NEW D \in {Nat, Int}, \A x \in S : f[x] \in D
  PROVE  \A T \in SUBSET S : SumOf(f, T) \in D
<1> DEFINE Bad == {T \in SUBSET S : SumOf(f, T) \notin D}
<1> SUFFICES ASSUME Bad # {} PROVE FALSE
  OBVIOUS
<1>1. PICK T \in Bad : \A U \in Bad : U \subseteq T => U = T
  <2>1. Bad \in SUBSET (SUBSET S)
    OBVIOUS
  <2> HIDE DEF Bad
  <2> QED BY <2>1, SmallestSubset
<1>2. T # {}
  BY SumEmpty
<1>3. Pick(T) \in T /\ IsFiniteSet(T)
  BY <1>2, PickIn, FS_Subset
<1>4. SumOf(f, T \ {Pick(T)}) \in D
  BY <1>1, <1>3
<1>5. SumOf(f, T) = f[Pick(T)] + SumOf(f, T \ {Pick(T)})
  BY <1>2, <1>3, SumPick
<1>6. f[Pick(T)] \in D
  BY <1>3
<1>7. SumOf(f, T) \in D
  <2>1. \A a, b \in D : a + b \in D
    OBVIOUS
  <2> QED BY <1>4, <1>5, <1>6, <2>1
<1> QED BY <1>7

(* Any element may be taken out of a sum, not only the chosen one.          *)
LEMMA SumTake ==
  ASSUME NEW S, IsFiniteSet(S), NEW f, \A x \in S : f[x] \in Int, NEW y \in S
  PROVE  SumOf(f, S) = f[y] + SumOf(f, S \ {y})
<1> DEFINE Taken(T) == \A x \in T : SumOf(f, T) = f[x] + SumOf(f, T \ {x})
           Bad == {T \in SUBSET S : ~Taken(T)}
<1>1. ASSUME Bad # {} PROVE FALSE
  <2>1. PICK T \in Bad : \A U \in Bad : U \subseteq T => U = T
    <3>1. Bad \in SUBSET (SUBSET S)
      OBVIOUS
    <3> HIDE DEF Bad
    <3> QED BY <1>1, <3>1, SmallestSubset
  <2>2. PICK x \in T : SumOf(f, T) # f[x] + SumOf(f, T \ {x})
    OBVIOUS
  <2> DEFINE c == Pick(T)
  <2>3. c \in T /\ IsFiniteSet(T) /\ IsFiniteSet(T \ {c}) /\ IsFiniteSet(T \ {x})
    BY <2>2, PickIn, FS_Subset
  <2>4. SumOf(f, T) = f[c] + SumOf(f, T \ {c})
    BY <2>2, <2>3, SumPick
  <2>5. c # x
    BY <2>2, <2>4
  <2>6. Taken(T \ {c}) /\ Taken(T \ {x})
    BY <2>1, <2>3
  <2>7. /\ SumOf(f, T \ {c}) = f[x] + SumOf(f, (T \ {c}) \ {x})
        /\ SumOf(f, T \ {x}) = f[c] + SumOf(f, (T \ {x}) \ {c})
    BY <2>3, <2>5, <2>6
  <2>8. (T \ {c}) \ {x} = (T \ {x}) \ {c}
    OBVIOUS
  <2>9. SumOf(f, (T \ {c}) \ {x}) \in Int /\ f[c] \in Int /\ f[x] \in Int
    BY <2>3, SumType
  <2>10. SumOf(f, T) = f[x] + SumOf(f, T \ {x})
    <3> DEFINE r == SumOf(f, (T \ {c}) \ {x})
    <3>1. \A a, b, d \in Int : a + (b + d) = b + (a + d)
      OBVIOUS
    <3>2. SumOf(f, T) = f[c] + (f[x] + r)
      BY <2>4, <2>7
    <3>3. SumOf(f, T \ {x}) = f[c] + r
      BY <2>7, <2>8
    <3>4. r \in Int /\ f[c] \in Int /\ f[x] \in Int
      BY <2>9
    <3> HIDE DEF r, c
    <3> QED BY <3>1, <3>2, <3>3, <3>4
  <2> QED BY <2>2, <2>10
<1>2. Taken(S)
  BY <1>1
<1> QED BY <1>2

(* A new element adds what is summed of it.                                 *)
LEMMA SumAdd ==
  ASSUME NEW S, IsFiniteSet(S), NEW y, y \notin S, NEW f, \A x \in S \cup {y} : f[x] \in Int
  PROVE  SumOf(f, S \cup {y}) = SumOf(f, S) + f[y]
<1>1. IsFiniteSet(S \cup {y}) /\ (S \cup {y}) \ {y} = S
  BY FS_AddElement
<1>2. SumOf(f, S) \in Int
  BY SumType
<1>3. SumOf(f, S \cup {y}) = f[y] + SumOf(f, S)
  BY <1>1, SumTake
<1> QED BY <1>2, <1>3

(* Only what is summed of the elements of the set counts.                   *)
LEMMA SumSame ==
  ASSUME NEW S, IsFiniteSet(S), NEW f, NEW k, \A x \in S : f[x] = k[x]
  PROVE  SumOf(f, S) = SumOf(k, S)
<1>1. PICK g : IsSum(g, f, S)
  BY SumExists
<1>2. PICK h : IsSum(h, k, S)
  BY SumExists
<1>3. S \in SUBSET S
  OBVIOUS
<1>4. \A U \in SUBSET S : g[U] = h[U]
  BY <1>1, <1>2, <1>3, SumsAgree
<1>5. g[S] = h[S]
  BY <1>3, <1>4
<1> QED BY <1>1, <1>2, <1>5, SumIs

(* The sum over the union of two sets without a common element is the sum   *)
(* of the two sums.                                                         *)
LEMMA SumUnion ==
  ASSUME NEW S, NEW T, IsFiniteSet(S), IsFiniteSet(T), S \cap T = {},
         NEW N, N = S \cup T, NEW f, \A x \in N : f[x] \in Int
  PROVE  SumOf(f, N) = SumOf(f, S) + SumOf(f, T)
<1> DEFINE Bad == {U \in SUBSET T : SumOf(f, S \cup U) # SumOf(f, S) + SumOf(f, U)}
<1>1. ASSUME Bad # {} PROVE FALSE
  <2>1. PICK U \in Bad : \A W \in Bad : W \subseteq U => W = U
    <3>1. Bad \in SUBSET (SUBSET T)
      OBVIOUS
    <3> HIDE DEF Bad
    <3> QED BY <1>1, <3>1, SmallestSubset
  <2>2. SumOf(f, S) \in Int
    BY SumType
  <2>3. U # {}
    <3>1. SumOf(f, S \cup {}) = SumOf(f, S) + SumOf(f, {})
      BY <2>2, SumEmpty
    <3> QED BY <2>1, <3>1
  <2>4. PICK c \in U : TRUE
    BY <2>3
  <2> DEFINE W == U \ {c}
  <2>5. SumOf(f, S \cup W) = SumOf(f, S) + SumOf(f, W)
    BY <2>1, <2>4
  <2>6. IsFiniteSet(U) /\ IsFiniteSet(W) /\ IsFiniteSet(S \cup W)
    BY FS_Subset, FS_Union
  <2>7. SumOf(f, U) = SumOf(f, W) + f[c]
    <3>1. U = W \cup {c}
      BY <2>4
    <3> QED BY <2>6, <3>1, SumAdd
  <2>8. SumOf(f, S \cup U) = SumOf(f, S \cup W) + f[c]
    <3>1. S \cup U = (S \cup W) \cup {c} /\ c \notin S \cup W
      BY <2>4
    <3> QED BY <2>6, <3>1, SumAdd
  <2>9. SumOf(f, W) \in Int /\ f[c] \in Int
    BY <2>4, <2>6, SumType
  <2> HIDE DEF W
  <2> QED BY <2>1, <2>2, <2>5, <2>7, <2>8, <2>9
<1> QED BY <1>1

(* The sum of a function that is at every element the sum of two others.    *)
LEMMA SumPlus ==
  ASSUME NEW S, IsFiniteSet(S), NEW f, NEW g, NEW h,
         \A x \in S : g[x] \in Int /\ h[x] \in Int /\ f[x] = g[x] + h[x]
  PROVE  SumOf(f, S) = SumOf(g, S) + SumOf(h, S)
<1> DEFINE Bad == {U \in SUBSET S : SumOf(f, U) # SumOf(g, U) + SumOf(h, U)}
<1>1. ASSUME Bad # {} PROVE FALSE
  <2>1. PICK U \in Bad : \A W \in Bad : W \subseteq U => W = U
    <3>1. Bad \in SUBSET (SUBSET S)
      OBVIOUS
    <3> HIDE DEF Bad
    <3> QED BY <1>1, <3>1, SmallestSubset
  <2>2. U # {}
    <3>1. SumOf(f, {}) = SumOf(g, {}) + SumOf(h, {})
      BY SumEmpty
    <3> QED BY <2>1, <3>1
  <2> DEFINE c == Pick(U)
             W == U \ {c}
  <2>3. c \in U /\ IsFiniteSet(U) /\ W \in SUBSET S
    BY <2>2, PickIn, FS_Subset
  <2>4. SumOf(f, W) = SumOf(g, W) + SumOf(h, W)
    BY <2>1, <2>3
  <2>5. /\ SumOf(f, U) = f[c] + SumOf(f, W)
        /\ SumOf(g, U) = g[c] + SumOf(g, W)
        /\ SumOf(h, U) = h[c] + SumOf(h, W)
    BY <2>2, <2>3, SumPick
  <2>6. SumOf(g, W) \in Int /\ SumOf(h, W) \in Int
    BY <2>3, SumType
  <2>7. g[c] \in Int /\ h[c] \in Int /\ f[c] = g[c] + h[c]
    BY <2>3
  <2>8. SumOf(f, U) = SumOf(g, U) + SumOf(h, U)
    <3> HIDE DEF W, c
    <3> QED BY <2>4, <2>5, <2>6, <2>7
  <2> QED BY <2>8
<1>2. S \in SUBSET S
  OBVIOUS
<1> QED BY <1>1, <1>2

(* Where a function is lowered by another at the elements of T and left     *)
(* alone elsewhere, its sum goes down by the other's sum over T.            *)
LEMMA SumLowered ==
  ASSUME NEW N, IsFiniteSet(N), NEW T \in SUBSET N, NEW f, NEW g, NEW h,
         \A x \in N : f[x] \in Int /\ g[x] \in Int /\ h[x] \in Int,
         \A x \in N : f[x] = IF x \in T THEN g[x] + h[x] ELSE g[x]
  PROVE  SumOf(g, N) = SumOf(f, N) - SumOf(h, T)
<1> DEFINE Rest == N \ T
<1>1. /\ IsFiniteSet(T) /\ IsFiniteSet(Rest) /\ N = T \cup Rest /\ T \cap Rest = {}
      /\ Rest \in SUBSET N /\ T \in SUBSET N
  BY FS_Subset
<1>2. \A x \in Rest : f[x] = g[x]
  OBVIOUS
<1> HIDE DEF Rest
<1>3. SumOf(f, N) = SumOf(f, T) + SumOf(f, Rest)
  BY <1>1, SumUnion
<1>4. SumOf(g, N) = SumOf(g, T) + SumOf(g, Rest)
  BY <1>1, SumUnion
<1>5. SumOf(f, T) = SumOf(g, T) + SumOf(h, T)
  <2>1. \A x \in T : g[x] \in Int /\ h[x] \in Int /\ f[x] = g[x] + h[x]
    OBVIOUS
  <2> QED BY <1>1, <2>1, SumPlus
<1>6. SumOf(f, Rest) = SumOf(g, Rest)
  BY <1>1, <1>2, SumSame
<1>7. SumOf(f, T) \in Int /\ SumOf(g, T) \in Int /\ SumOf(f, Rest) \in Int
  BY <1>1, SumType
<1>8. SumOf(h, T) \in Int
  <2>1. T \in SUBSET T
    OBVIOUS
  <2> QED BY <1>1, <2>1, SumType
<1> QED BY <1>3, <1>4, <1>5, <1>6, <1>7, <1>8

(* The n positions after d.                                                 *)
Stretch(d, n) == d + 1..d + n

(* What f has there, g has from 1 on.                                       *)
MovedBack(f, d, n, g) == \A i \in 1..n : f[d + i] \in Int /\ g[i] = f[d + i]

(* A sum over a run of positions is the sum over as many from 1 on, of the  *)
(* function moved by as much.                                               *)
LEMMA SumShift ==
  ASSUME NEW d \in Nat, NEW b \in Nat, NEW f, NEW g, MovedBack(f, d, b, g)
  PROVE  SumOf(f, Stretch(d, b)) = SumOf(g, 1..b)
<1> USE DEF MovedBack
<1> DEFINE Bad == {n \in 0..b : SumOf(f, d + 1..d + n) # SumOf(g, 1..n)}
<1>1. ASSUME Bad # {} PROVE FALSE
  <2>1. PICK n \in Bad : \A m \in Bad : n <= m
    <3>1. Bad \in SUBSET Nat
      OBVIOUS
    <3> HIDE DEF Bad
    <3> QED BY <1>1, <3>1, SmallestExists
  <2>2. n # 0
    <3>1. d + 1..d + 0 = {} /\ 1..0 = {}
      OBVIOUS
    <3>2. SumOf(f, d + 1..d + 0) = SumOf(g, 1..0)
      BY <3>1, SumEmpty
    <3> QED BY <3>2
  <2> DEFINE k == n - 1
             P == d + 1..d + k
             First == 1..k
  <2>3. k \in 0..b /\ n \in 1..b /\ k < n
    BY <2>2
  <2>4. SumOf(f, d + 1..d + k) = SumOf(g, 1..k)
    BY <2>1, <2>3
  <2>5. d + 1..d + n = P \cup {d + n} /\ 1..n = First \cup {n}
    BY <2>3
  <2>6. d + n \notin P /\ n \notin First
    BY <2>3
  <2>7. IsFiniteSet(P) /\ IsFiniteSet(First)
    BY <2>3, FS_Interval
  <2>8. SumOf(f, d + 1..d + n) = SumOf(f, P) + f[d + n]
    <3>1. \A x \in P \cup {d + n} : f[x] \in Int
      <4> TAKE x \in P \cup {d + n}
      <4>1. x - d \in 1..b /\ x = d + (x - d)
        BY <2>3
      <4> QED BY <4>1
    <3>2. SumOf(f, P \cup {d + n}) = SumOf(f, P) + f[d + n]
      <4> DEFINE y == d + n
      <4>1. y \notin P /\ IsFiniteSet(P) /\ \A x \in P \cup {y} : f[x] \in Int
        BY <2>6, <2>7, <3>1
      <4> HIDE DEF P, First, Bad, k, y
      <4>2. SumOf(f, P \cup {y}) = SumOf(f, P) + f[y]
        BY <4>1, SumAdd
      <4> QED BY <4>2 DEF y
    <3> QED BY <2>5, <3>2
  <2>9. SumOf(g, 1..n) = SumOf(g, First) + g[n]
    <3>1. \A x \in First \cup {n} : g[x] \in Int
      BY <2>3
    <3>2. SumOf(g, First \cup {n}) = SumOf(g, First) + g[n]
      <4> HIDE DEF P, First, Bad, k
      <4> QED BY <2>6, <2>7, <3>1, SumAdd
    <3> QED BY <2>5, <3>2
  <2>10. f[d + n] = g[n]
    BY <2>3
  <2> QED BY <2>4, <2>8, <2>9, <2>10
<1>2. b \in 0..b
  OBVIOUS
<1>3. SumOf(f, d + 1..d + b) = SumOf(g, 1..b)
  BY <1>1, <1>2
<1> QED BY <1>3 DEF Stretch

(* A sum over the first positions is that over the first d of them and      *)
(* that over the rest, moved to the front.                                  *)
LEMMA SumSplit ==
  ASSUME NEW n \in Nat, NEW d \in 0..n, NEW f, \A i \in 1..n : f[i] \in Int,
         NEW g, \A i \in 1..n - d : g[i] = f[d + i]
  PROVE  SumOf(f, 1..n) = SumOf(f, 1..d) + SumOf(g, 1..n - d)
<1> DEFINE b     == n - d
           All   == 1..n
           First == 1..d
           Back  == Stretch(d, b)
           Moved == 1..b
<1>1. d \in Nat /\ b \in Nat
  OBVIOUS
<1>2. All = First \cup Back /\ First \cap Back = {}
  BY DEF Stretch
<1>3. IsFiniteSet(First) /\ IsFiniteSet(Back)
  BY <1>1, FS_Interval DEF Stretch
<1>4. \A x \in All : f[x] \in Int
  OBVIOUS
<1>5. SumOf(f, All) = SumOf(f, First) + SumOf(f, Back)
  <2> HIDE DEF All, First, Back
  <2> QED BY <1>2, <1>3, <1>4, SumUnion
<1>6. SumOf(f, Back) = SumOf(g, Moved)
  <2>1. MovedBack(f, d, b, g)
    <3>1. \A i \in 1..b : d + i \in 1..n
      BY <1>1
    <3> QED BY <3>1 DEF MovedBack
  <2> HIDE DEF b
  <2> QED BY <1>1, <2>1, SumShift
<1> QED BY <1>5, <1>6

-----------------------------------------------------------------------------
(* Rankings.  R is a strict total order on S.                               *)
IsOrder(R, S) ==
    /\ \A a \in S : <<a, a>> \notin R
    /\ \A a, b \in S : a # b => (<<a, b>> \in R <=> <<b, a>> \notin R)
    /\ \A a, b, c \in S : <<a, b>> \in R /\ <<b, c>> \in R => <<a, c>> \in R

(* A sequence that has every element of S once.                             *)
Enumerates(s, S) ==
    /\ s \in [1..Cardinality(S) -> S]
    /\ \A i, j \in 1..Cardinality(S) : i # j => s[i] # s[j]

(* Such a sequence leaves out no element.                                   *)
LEMMA EnumeratesAll ==
  ASSUME NEW S, IsFiniteSet(S), NEW s, Enumerates(s, S)
  PROVE  \A x \in S : \E i \in 1..Cardinality(S) : s[i] = x
<1> DEFINE n == Cardinality(S)
<1>1. n \in Nat
  BY FS_CardinalityType
<1>2. IsFiniteSet(1..n) /\ Cardinality(1..n) = n
  BY <1>1, FS_Interval
<1>3. s \in Injection(1..n, S)
  BY DEF Enumerates, Injection, IsInjective
<1>4. s \in Surjection(1..n, S)
  <2> HIDE DEF n
  <2> QED BY <1>2, <1>3, FS_Injection DEF n
<1> QED BY <1>4 DEF Surjection

(* The elements of a finite set can be put in order: each has its place,    *)
(* one more than the number of those before it.                             *)
LEMMA RankingExists ==
  ASSUME NEW S, IsFiniteSet(S), NEW R, IsOrder(R, S)
  PROVE  \E s : /\ Enumerates(s, S)
                /\ \A i, j \in 1..Cardinality(S) : i < j => <<s[i], s[j]>> \in R
<1> DEFINE n == Cardinality(S)
           Ahead(x) == {y \in S : <<y, x>> \in R}
           rank == [x \in S |-> Cardinality(Ahead(x)) + 1]
<1>1. n \in Nat /\ IsFiniteSet(1..n) /\ Cardinality(1..n) = n
  BY FS_CardinalityType, FS_Interval
<1>2. \A x \in S : IsFiniteSet(Ahead(x)) /\ Cardinality(Ahead(x)) \in Nat
  BY FS_Subset, FS_CardinalityType
<1>3. ASSUME NEW a \in S, NEW b \in S, <<a, b>> \in R PROVE rank[a] < rank[b]
  <2>1. Ahead(a) \in SUBSET Ahead(b) /\ a \in Ahead(b) /\ a \notin Ahead(a)
    BY <1>3 DEF IsOrder
  <2>2. Cardinality(Ahead(a)) <= Cardinality(Ahead(b)) /\ Cardinality(Ahead(a)) # Cardinality(Ahead(b))
    <3> DEFINE A == Ahead(a)
               B == Ahead(b)
    <3>1. A \in SUBSET B /\ A # B /\ IsFiniteSet(B)
      BY <1>2, <2>1
    <3> HIDE DEF A, B
    <3>2. Cardinality(A) <= Cardinality(B) /\ (Cardinality(B) = Cardinality(A) => B = A)
      BY <3>1, FS_Subset
    <3> QED BY <3>1, <3>2 DEF A, B
  <2> HIDE DEF Ahead
  <2> QED BY <1>2, <2>2
<1>4. ASSUME NEW x \in S PROVE rank[x] \in 1..n
  <2>1. Ahead(x) \in SUBSET S \ {x}
    BY DEF IsOrder
  <2>2. IsFiniteSet(S \ {x}) /\ Cardinality(S \ {x}) = n - 1
    BY FS_RemoveElement
  <2>3. Cardinality(Ahead(x)) <= n - 1
    <3> HIDE DEF Ahead
    <3> QED BY <2>1, <2>2, FS_Subset
  <2> HIDE DEF Ahead
  <2> QED BY <1>1, <1>2, <2>3
<1>5. rank \in [S -> 1..n]
  BY <1>4
<1>6. \A a, b \in S : rank[a] \in Nat /\ (rank[a] = rank[b] => a = b)
  <2> SUFFICES ASSUME NEW a \in S, NEW b \in S PROVE rank[a] \in Nat /\ (rank[a] = rank[b] => a = b)
    OBVIOUS
  <2>1. rank[a] \in Nat /\ rank[b] \in Nat
    BY <1>1, <1>4
  <2>2. a # b => <<a, b>> \in R \/ <<b, a>> \in R
    BY DEF IsOrder
  <2> HIDE DEF rank
  <2> QED BY <1>3, <2>1, <2>2
<1> HIDE DEF rank
<1>7. rank \in Injection(S, 1..n)
  BY <1>5, <1>6 DEF Injection, IsInjective
<1>8. \A i \in 1..n : \E x \in S : rank[x] = i
  <2>1. rank \in Surjection(S, 1..n)
    BY <1>1, <1>7, FS_Injection
  <2> QED BY <2>1 DEF Surjection
<1> DEFINE s == [i \in 1..n |-> CHOOSE x \in S : rank[x] = i]
<1>9. \A i \in 1..n : s[i] \in S /\ rank[s[i]] = i
  BY <1>8
<1>10. s \in [1..n -> S]
  BY <1>9
<1> HIDE DEF s, n
<1>11. \A i, j \in 1..n : i # j => s[i] # s[j]
  BY <1>9
<1>12. ASSUME NEW i \in 1..n, NEW j \in 1..n, i < j PROVE <<s[i], s[j]>> \in R
  <2>1. s[i] # s[j] /\ ~(rank[s[j]] < rank[s[i]])
    BY <1>1, <1>9, <1>12
  <2> QED BY <1>3, <1>9, <2>1 DEF IsOrder
<1> QED BY <1>10, <1>11, <1>12 DEF Enumerates, n

-----------------------------------------------------------------------------
(* Folds.  Of a set T, the element c[T] is taken last; `op` makes the       *)
(* result of T from T and the result without that element.                  *)

IsFold(g, base, c, op, S) ==
    g = [T \in SUBSET S |-> IF T = {} THEN base ELSE op[<<T, g[T \ {c[T]}]>>]]

(* The recursive equation of a fold has a solution.                         *)
LEMMA FoldExists ==
  ASSUME NEW S, IsFiniteSet(S), NEW base, NEW c, NEW op,
         \A T \in SUBSET S : T # {} => c[T] \in T
  PROVE  \E g : IsFold(g, base, c, op, S)
<1> DEFINE Upto(n)  == {T \in SUBSET S : Cardinality(T) <= n}
           Step(g, T) == IF T = {} THEN base ELSE op[<<T, g[T \ {c[T]}]>>]
           Folds(g, n) == g = [T \in Upto(n) |-> Step(g, T)]
           Bad == {n \in Nat : ~\E g : Folds(g, n)}
<1>1. \A T \in SUBSET S : IsFiniteSet(T) /\ Cardinality(T) \in Nat
  BY FS_Subset, FS_CardinalityType
<1>2. \A T \in SUBSET S : T # {} =>
         /\ T \ {c[T]} \in SUBSET S
         /\ Cardinality(T \ {c[T]}) = Cardinality(T) - 1
  BY <1>1, FS_RemoveElement
<1>3. Bad = {}
  <2> SUFFICES ASSUME Bad # {} PROVE FALSE
    OBVIOUS
  <2>1. PICK n \in Bad : \A m \in Bad : n <= m
    BY SmallestExists
  <2>2. n \in Nat /\ ~\E g : Folds(g, n)
    OBVIOUS
  <2>3. CASE n = 0
    <3> DEFINE g == [T \in Upto(0) |-> base]
    <3>1. \A T \in Upto(0) : T = {}
      BY <1>1, FS_EmptySet
    <3>2. Folds(g, 0)
      BY <3>1
    <3> QED BY <3>2, <2>2, <2>3
  <2>4. CASE n # 0
    <3>1. n - 1 \in Nat /\ n - 1 \notin Bad
      <4> HIDE DEF Bad
      <4> QED BY <2>1, <2>2, <2>4
    <3>2. PICK h : Folds(h, n - 1)
      BY <3>1
    <3> DEFINE g == [T \in Upto(n) |-> Step(h, T)]
    <3>3. \A T \in Upto(n - 1) : T \in Upto(n) /\ g[T] = h[T]
      <4>1. \A T \in Upto(n - 1) : T \in Upto(n)
        BY <1>1, <2>2
      <4>2. \A T \in Upto(n - 1) : h[T] = Step(h, T)
        <5> HIDE DEF Step, Upto
        <5> QED BY <3>2
      <4>3. \A T \in Upto(n) : g[T] = Step(h, T)
        <5> HIDE DEF Step, Upto
        <5> QED OBVIOUS
      <4> HIDE DEF g, Step, Upto
      <4> QED BY <4>1, <4>2, <4>3
    <3>4. \A T \in Upto(n) : T # {} => T \ {c[T]} \in Upto(n - 1)
      BY <1>1, <1>2, <2>2
    <3>5. \A T \in Upto(n) : Step(h, T) = Step(g, T)
      <4> HIDE DEF g, Upto
      <4> QED BY <3>3, <3>4
    <3>6. Folds(g, n)
      BY <3>5
    <3> QED BY <3>6, <2>2
  <2> QED BY <2>3, <2>4
<1>4. Cardinality(S) \in Nat /\ Upto(Cardinality(S)) = SUBSET S
  BY <1>1, FS_Subset
<1>5. PICK g : Folds(g, Cardinality(S))
  BY <1>3, <1>4
<1> QED BY <1>4, <1>5 DEF IsFold

(* What a fold makes of a set is in D if every step stays in D.             *)
LEMMA FoldStays ==
  ASSUME NEW S, IsFiniteSet(S), NEW D, NEW base \in D, NEW c, NEW op, NEW g,
         \A T \in SUBSET S : T # {} => c[T] \in T,
         \A T \in SUBSET S, y \in D : T # {} => op[<<T, y>>] \in D,
         IsFold(g, base, c, op, S)
  PROVE  \A T \in SUBSET S : g[T] \in D
<1> DEFINE Bad == {T \in SUBSET S : g[T] \notin D}
<1> SUFFICES ASSUME Bad # {} PROVE FALSE
  OBVIOUS
<1>1. PICK T \in Bad : \A U \in Bad : U \subseteq T => U = T
  <2>1. Bad \in SUBSET (SUBSET S)
    OBVIOUS
  <2> HIDE DEF Bad
  <2> QED BY <2>1, SmallestSubset
<1>2. T \in SUBSET S /\ g[T] \notin D
  OBVIOUS
<1>3. T # {}
  BY <1>2 DEF IsFold
<1> DEFINE U == T \ {c[T]}
<1>4. U \in SUBSET S /\ U \subseteq T /\ U # T
  BY <1>2, <1>3
<1>5. g[U] \in D
  BY <1>1, <1>4
<1>6. g[T] = op[<<T, g[U]>>]
  BY <1>2, <1>3 DEF IsFold
<1> HIDE DEF U, Bad
<1> QED BY <1>2, <1>3, <1>5, <1>6
=============================================================================
