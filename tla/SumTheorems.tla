----------------------------- MODULE SumTheorems -----------------------------
(***************************************************************************)
(* Sums over finite sets, as SumFunction of the module Functions computes   *)
(* them: an order's refundedAmount is such a sum over its refunds.         *)
(*                                                                         *)
(* SumFunction takes the terms one by one in an arbitrary order, by a       *)
(* recursive function.  The induction these lemmas need is obtained from    *)
(* sets with a minimal element, so that it is stated without an operator   *)
(* as a parameter: a set of bad subsets that is not empty has a least one. *)
(***************************************************************************)
EXTENDS Functions, FiniteSetTheorems, TLAPS

-----------------------------------------------------------------------------
(* Induction *)

\* Of some subsets of a finite set, one contains none of the others.
LEMMA MinimalSubset ==
  ASSUME NEW S, IsFiniteSet(S), NEW T, T \subseteq SUBSET S, T # {}
  PROVE  \E U \in T : \A V \in T : V \subseteq U => V = U
<1>1. IsWellFoundedOn(StrictSubsetOrdering(S), SUBSET S)
  BY FS_StrictSubsetOrderingWellFounded, FS_FiniteSubsetsOfFinite
<1>2. \E U \in T : \A V \in T : ~ (<<V, U>> \in StrictSubsetOrdering(S))
  BY <1>1, WFMin
<1>3. QED
  BY <1>2 DEF StrictSubsetOrdering

\* Induction over the naturals, for a set of good numbers.
LEMMA NatSetInduction ==
  ASSUME NEW Good, 0 \in Good, \A n \in Nat : n \in Good => n + 1 \in Good
  PROVE  Nat \subseteq Good
<1> SUFFICES ASSUME NEW n \in Nat, n \notin Good PROVE FALSE
  OBVIOUS
<1> DEFINE I == 0..n
           Bad == {0..k : k \in {m \in I : m \notin Good}}
<1>1. IsFiniteSet(I)
  BY FS_Interval
<1>2. Bad \subseteq SUBSET I /\ Bad # {}
  OBVIOUS
<1>3. PICK U \in Bad : \A V \in Bad : V \subseteq U => V = U
  <2> HIDE DEF Bad, I
  <2> QED BY <1>1, <1>2, MinimalSubset
<1>4. PICK k \in 0..n : k \notin Good /\ U = 0..k
  BY <1>3
<1>5. k - 1 \in 0..n /\ k - 1 \notin Good
  BY <1>4
<1>6. 0..(k-1) \in Bad
  BY <1>5
<1>7. 0..(k-1) = 0..k
  <2>1. 0..(k-1) \subseteq 0..k
    BY <1>4
  <2> HIDE DEF Bad
  <2> QED BY <1>3, <1>4, <1>6, <2>1
<1>8. k \in 0..k /\ k \notin 0..(k-1)
  BY <1>4
<1> QED
  BY <1>7, <1>8

-----------------------------------------------------------------------------
(* The recursive function behind SumFunction *)

Chosen(s) == CHOOSE x \in s : TRUE
SumStep(f, g, s) == IF s = {} THEN 0 ELSE f[Chosen(s)] + g[s \ {Chosen(s)}]
IsSum(g, f, S) == g = [s \in SUBSET S |-> SumStep(f, g, s)]

\* A sum is what a function that satisfies the recursion, if there is one, gives.
LEMMA SumIsChosen ==
  ASSUME NEW f, NEW S
  PROVE  SumFunctionOnSet(f, S) = (CHOOSE g : IsSum(g, f, S))[S]
BY DEF SumFunctionOnSet, FoldFunctionOnSet, MapThenFoldSet, IsSum, SumStep, Chosen

\* The next term is one of those left.
LEMMA ChosenType ==
  ASSUME NEW s, s # {}
  PROVE  Chosen(s) \in s
BY DEF Chosen

\* There is a function that satisfies the recursion: one for the sets of up to
\* n elements gives one for n + 1.
LEMMA SumExists ==
  ASSUME NEW f, NEW S, IsFiniteSet(S)
  PROVE  \E g : IsSum(g, f, S)
<1> DEFINE Upto(n) == {s \in SUBSET S : Cardinality(s) <= n}
           Fits(g, n) == g = [s \in Upto(n) |-> SumStep(f, g, s)]
           Good == {n \in Nat : \E g : Fits(g, n)}
<1>0. \A s \in SUBSET S : IsFiniteSet(s) /\ Cardinality(s) \in Nat
  BY FS_Subset, FS_CardinalityType
<1>1. ASSUME NEW n \in Nat, NEW s \in Upto(n + 1), s # {}
      PROVE  s \ {Chosen(s)} \in Upto(n)
  <2>1. Cardinality(s \ {Chosen(s)}) = Cardinality(s) - 1
    BY <1>0, <1>1, ChosenType, FS_RemoveElement
  <2>2. QED
    BY <1>0, <2>1
<1>2. 0 \in Good
  <2> DEFINE h == [s \in Upto(0) |-> 0]
  <2>1. \A s \in Upto(0) : s = {}
    BY <1>0, FS_EmptySet
  <2>2. Fits(h, 0)
    BY <2>1 DEF SumStep
  <2>3. QED
    BY <2>2
<1>3. ASSUME NEW n \in Nat, n \in Good
      PROVE  n + 1 \in Good
  <2>1. PICK g : Fits(g, n)
    BY <1>3
  <2> DEFINE h == [s \in Upto(n + 1) |-> SumStep(f, g, s)]
  <2>2. \A s \in Upto(n) : s \in Upto(n + 1) /\ h[s] = g[s]
    <3>1. \A s \in Upto(n) : s \in Upto(n + 1)
      BY <1>0
    <3>2. \A s \in Upto(n) : g[s] = SumStep(f, g, s)
      BY <2>1
    <3> QED BY <3>1, <3>2
  <2>3. \A s \in Upto(n + 1) : SumStep(f, h, s) = SumStep(f, g, s)
    BY <1>1, <2>2 DEF SumStep
  <2>4. \E k : Fits(k, n + 1)
    <3>1. Fits(h, n + 1)
      BY <2>3
    <3> HIDE DEF h, Fits
    <3> QED BY <3>1
  <2> HIDE DEF Fits
  <2>5. QED
    BY <2>4
<1>4. Cardinality(S) \in Nat /\ Upto(Cardinality(S)) = SUBSET S
  BY <1>0, FS_Subset
<1>5. Cardinality(S) \in Good
  <2> HIDE DEF Good
  <2>1. Nat \subseteq Good
    BY <1>2, <1>3, NatSetInduction
  <2> QED
    BY <1>4, <2>1
<1> QED
  BY <1>4, <1>5 DEF IsSum

\* Two such functions agree where both are defined.
LEMMA SumUnique ==
  ASSUME NEW f, NEW S, IsFiniteSet(S), NEW U \in SUBSET S,
         NEW g, IsSum(g, f, S), NEW h, IsSum(h, f, U)
  PROVE  \A s \in SUBSET U : g[s] = h[s]
<1> DEFINE Bad == {s \in SUBSET U : g[s] # h[s]}
<1> SUFFICES ASSUME Bad # {} PROVE FALSE
  OBVIOUS
<1>1. IsFiniteSet(U)
  BY FS_Subset
<1>2. PICK s \in Bad : \A t \in Bad : t \subseteq s => t = s
  <2> Bad \subseteq SUBSET U
    OBVIOUS
  <2> HIDE DEF Bad
  <2> QED
    BY <1>1, MinimalSubset
<1>3. g[s] = SumStep(f, g, s) /\ h[s] = SumStep(f, h, s)
  BY DEF IsSum
<1>4. s # {}
  BY <1>3 DEF SumStep
<1>5. s \ {Chosen(s)} \subseteq s /\ s \ {Chosen(s)} # s
  BY <1>4, ChosenType
<1>6. g[s \ {Chosen(s)}] = h[s \ {Chosen(s)}]
  BY <1>2, <1>5
<1> QED
  BY <1>3, <1>4, <1>6 DEF SumStep

\* The recursion, as an equation between sums.
LEMMA SumUnfold ==
  ASSUME NEW f, NEW S, IsFiniteSet(S)
  PROVE  /\ SumFunctionOnSet(f, {}) = 0
         /\ S # {} => SumFunctionOnSet(f, S)
                        = f[Chosen(S)] + SumFunctionOnSet(f, S \ {Chosen(S)})
<1> DEFINE g == CHOOSE g : IsSum(g, f, S)
<1>1. IsSum(g, f, S)
  BY SumExists
<1>2. \A U \in SUBSET S : SumFunctionOnSet(f, U) = g[U]
  <2> SUFFICES ASSUME NEW U \in SUBSET S PROVE SumFunctionOnSet(f, U) = g[U]
    OBVIOUS
  <2> DEFINE h == CHOOSE h : IsSum(h, f, U)
  <2>1. IsFiniteSet(U)
    BY FS_Subset
  <2>2. IsSum(h, f, U)
    BY <2>1, SumExists
  <2>3. SumFunctionOnSet(f, U) = h[U]
    BY SumIsChosen
  <2> HIDE DEF g, h
  <2>4. g[U] = h[U]
    BY <1>1, <2>2, SumUnique
  <2> QED
    BY <2>3, <2>4
<1>3. \A U \in SUBSET S : g[U] = SumStep(f, g, U)
  BY <1>1 DEF IsSum
<1> HIDE DEF g
<1> QED
  BY <1>2, <1>3 DEF SumStep

-----------------------------------------------------------------------------
(* What the proofs use *)

\* The order in which the terms are taken does not matter.
LEMMA SumRemove ==
  ASSUME NEW S, IsFiniteSet(S), NEW f \in [S -> Int]
  PROVE  \A U \in SUBSET S :
           /\ SumFunctionOnSet(f, U) \in Int
           /\ \A x \in U : SumFunctionOnSet(f, U) = f[x] + SumFunctionOnSet(f, U \ {x})
<1> DEFINE Sum(U) == SumFunctionOnSet(f, U)
           Right(U) == Sum(U) \in Int /\ \A x \in U : Sum(U) = f[x] + Sum(U \ {x})
           Bad == {U \in SUBSET S : ~ Right(U)}
<1>0. \A U \in SUBSET S : IsFiniteSet(U)
  BY FS_Subset
<1>1. \A U \in SUBSET S : U # {} => Sum(U) = f[Chosen(U)] + Sum(U \ {Chosen(U)})
  BY <1>0, SumUnfold
<1>2. Sum({}) = 0
  BY SumUnfold
<1> HIDE DEF Sum
<1> SUFFICES ASSUME Bad # {} PROVE FALSE
  BY DEF Sum
<1>3. PICK U \in Bad : \A V \in Bad : V \subseteq U => V = U
  <2> Bad \subseteq SUBSET S
    OBVIOUS
  <2> HIDE DEF Bad
  <2> QED
    BY MinimalSubset
<1>4. \A V \in SUBSET U : V # U => Right(V)
  BY <1>3
<1>5. U # {}
  <2>1. Right({})
    BY <1>2
  <2> HIDE DEF Right
  <2> QED
    BY <2>1, <1>3
<1> DEFINE p == Chosen(U)
<1>6. p \in U /\ Sum(U) = f[p] + Sum(U \ {p})
  BY <1>1, <1>5, ChosenType
<1> HIDE DEF p
<1>7. Right(U \ {p})
  BY <1>4, <1>6
<1>8. Sum(U) \in Int
  BY <1>6, <1>7
<1>9. ASSUME NEW x \in U, x # p
      PROVE  Sum(U) = f[x] + Sum(U \ {x})
  <2>1. Right(U \ {x})
    BY <1>4
  <2>2. (U \ {x}) \ {p} = (U \ {p}) \ {x}
    OBVIOUS
  <2>3. Sum(U \ {x}) = f[p] + Sum((U \ {p}) \ {x})
    BY <1>6, <1>9, <2>1, <2>2
  <2>4. Sum(U \ {p}) = f[x] + Sum((U \ {p}) \ {x})
    BY <1>7, <1>9
  <2>5. Sum((U \ {p}) \ {x}) \in Int
    BY <1>4, <1>6
  <2> QED
    BY <1>6, <2>3, <2>4, <2>5
<1> QED
  BY <1>3, <1>6, <1>8, <1>9

\* A sum grows with its terms.
LEMMA SumMonotone ==
  ASSUME NEW S, IsFiniteSet(S), NEW f \in [S -> Int], NEW g \in [S -> Int],
         NEW U \in SUBSET S, \A x \in U : f[x] <= g[x]
  PROVE  SumFunctionOnSet(f, U) <= SumFunctionOnSet(g, U)
<1> DEFINE SumF(V) == SumFunctionOnSet(f, V)
           SumG(V) == SumFunctionOnSet(g, V)
           Bad == {V \in SUBSET U : ~ (SumF(V) <= SumG(V))}
<1>1. \A V \in SUBSET U : /\ SumF(V) \in Int /\ SumG(V) \in Int
                          /\ \A x \in V : /\ SumF(V) = f[x] + SumF(V \ {x})
                                          /\ SumG(V) = g[x] + SumG(V \ {x})
  BY SumRemove
<1>2. SumF({}) = 0 /\ SumG({}) = 0
  BY SumUnfold
<1>3. IsFiniteSet(U)
  BY FS_Subset
<1> HIDE DEF SumF, SumG
<1> SUFFICES ASSUME Bad # {} PROVE FALSE
  BY DEF SumF, SumG
<1>4. PICK V \in Bad : \A W \in Bad : W \subseteq V => W = V
  <2> Bad \subseteq SUBSET U
    OBVIOUS
  <2> HIDE DEF Bad
  <2> QED
    BY <1>3, MinimalSubset
<1>5. PICK x \in V : TRUE
  <2>1. {} \notin Bad
    BY <1>2
  <2> HIDE DEF Bad
  <2> QED
    BY <2>1
<1>6. SumF(V \ {x}) <= SumG(V \ {x})
  BY <1>4
<1>7. SumF(V \ {x}) \in Int /\ SumG(V \ {x}) \in Int
  BY <1>1
<1> QED
  BY <1>1, <1>5, <1>6, <1>7

\* Changing one term changes the sum by as much.
LEMMA SumUpdate ==
  ASSUME NEW S, IsFiniteSet(S), NEW f \in [S -> Int], NEW g \in [S -> Int],
         NEW x \in S, \A y \in S \ {x} : f[y] = g[y]
  PROVE  SumFunction(g) = SumFunction(f) - f[x] + g[x]
<1> DEFINE U == S \ {x}
           SumF(V) == SumFunctionOnSet(f, V)
           SumG(V) == SumFunctionOnSet(g, V)
<1>1. SumF(S) = f[x] + SumF(U) /\ SumG(S) = g[x] + SumG(U)
  BY SumRemove
<1>2. SumF(U) \in Int /\ SumG(U) \in Int
  BY SumRemove
<1>3. SumF(U) <= SumG(U) /\ SumG(U) <= SumF(U)
  <2>1. \A y \in U : f[y] <= g[y] /\ g[y] <= f[y]
    OBVIOUS
  <2> HIDE DEF U
  <2>2. U \in SUBSET S
    BY DEF U
  <2> QED
    BY <2>1, <2>2, SumMonotone
<1>4. SumFunction(f) = SumF(S) /\ SumFunction(g) = SumG(S)
  BY DEF SumFunction
<1> HIDE DEF SumF, SumG, U
<1> QED
  BY <1>1, <1>2, <1>3, <1>4

\* A sum of nothing but zeros is zero.
LEMMA SumZero ==
  ASSUME NEW S, IsFiniteSet(S)
  PROVE  SumFunction([x \in S |-> 0]) = 0
<1> DEFINE f == [x \in S |-> 0]
           Sum(V) == SumFunctionOnSet(f, V)
           Bad == {V \in SUBSET S : Sum(V) # 0}
<1>1. \A V \in SUBSET S : Sum(V) \in Int /\ \A x \in V : Sum(V) = f[x] + Sum(V \ {x})
  <2> f \in [S -> Int]
    OBVIOUS
  <2> HIDE DEF f
  <2> QED
    BY SumRemove
<1>2. Sum({}) = 0
  BY SumUnfold
<1>3. SumFunction(f) = Sum(S)
  BY DEF SumFunction
<1> HIDE DEF Sum
<1> SUFFICES ASSUME Bad # {} PROVE FALSE
  BY <1>3
<1>4. PICK V \in Bad : \A W \in Bad : W \subseteq V => W = V
  <2> Bad \subseteq SUBSET S
    OBVIOUS
  <2> HIDE DEF Bad
  <2> QED
    BY MinimalSubset
<1>5. PICK x \in V : TRUE
  <2>1. {} \notin Bad
    BY <1>2
  <2> HIDE DEF Bad
  <2> QED
    BY <2>1
<1>6. Sum(V \ {x}) = 0
  BY <1>4
<1> QED
  BY <1>1, <1>4, <1>5, <1>6

\* A sum of naturals is one.
LEMMA SumNatural ==
  ASSUME NEW S, IsFiniteSet(S), NEW f \in [S -> Nat]
  PROVE  SumFunction(f) \in Nat
<1> DEFINE z == [x \in S |-> 0]
<1>1. z \in [S -> Int] /\ f \in [S -> Int] /\ \A x \in S : z[x] <= f[x]
  OBVIOUS
<1>2. SumFunction(z) = 0
  BY SumZero
<1>3. SumFunction(z) = SumFunctionOnSet(z, S) /\ SumFunction(f) = SumFunctionOnSet(f, S)
  BY DEF SumFunction
<1> HIDE DEF z
<1>4. SumFunctionOnSet(z, S) <= SumFunctionOnSet(f, S) /\ SumFunctionOnSet(f, S) \in Int
  BY <1>1, SumMonotone, SumRemove
<1> QED
  BY <1>2, <1>3, <1>4

\* What grows by the terms of f, one at a time, is the sum of f.
Grows(total, f, U) ==
  /\ total \in [SUBSET U -> Int] /\ total[{}] = 0
  /\ \A V \in SUBSET U : V # {} => \E x \in V : total[V] = f[x] + total[V \ {x}]

LEMMA SumIs ==
  ASSUME NEW S, IsFiniteSet(S), NEW f \in [S -> Int], NEW U \in SUBSET S,
         NEW total, Grows(total, f, U)
  PROVE  SumFunctionOnSet(f, U) = total[U]
<1> USE DEF Grows
<1> DEFINE Sum(V) == SumFunctionOnSet(f, V)
           Bad == {V \in SUBSET U : Sum(V) # total[V]}
<1>1. \A V \in SUBSET U : Sum(V) \in Int /\ \A x \in V : Sum(V) = f[x] + Sum(V \ {x})
  BY SumRemove
<1>2. Sum({}) = 0
  BY SumUnfold
<1>3. IsFiniteSet(U)
  BY FS_Subset
<1> HIDE DEF Sum
<1> SUFFICES ASSUME Bad # {} PROVE FALSE
  BY DEF Sum
<1>4. PICK V \in Bad : \A W \in Bad : W \subseteq V => W = V
  <2> Bad \subseteq SUBSET U
    OBVIOUS
  <2> HIDE DEF Bad
  <2> QED
    BY <1>3, MinimalSubset
<1>5. V # {}
  BY <1>2
<1>6. PICK x \in V : total[V] = f[x] + total[V \ {x}]
  BY <1>5
<1>7. Sum(V \ {x}) = total[V \ {x}]
  BY <1>4
<1> QED
  BY <1>1, <1>6, <1>7

\* Two functions equal on a set have one sum over it.
LEMMA SumRestrict ==
  ASSUME NEW S, IsFiniteSet(S), NEW f \in [S -> Int],
         NEW R, IsFiniteSet(R), NEW g \in [R -> Int],
         NEW U \in SUBSET S, U \subseteq R, \A x \in U : f[x] = g[x]
  PROVE  SumFunctionOnSet(f, U) = SumFunctionOnSet(g, U)
<1> DEFINE total == [V \in SUBSET U |-> SumFunctionOnSet(g, V)]
<1>1. \A V \in SUBSET U : /\ SumFunctionOnSet(g, V) \in Int
                          /\ \A x \in V : SumFunctionOnSet(g, V)
                                            = g[x] + SumFunctionOnSet(g, V \ {x})
  BY SumRemove
<1>2. total \in [SUBSET U -> Int] /\ total[{}] = 0
  BY <1>1, SumUnfold
<1>3. \A V \in SUBSET U : V # {} => \E x \in V : total[V] = f[x] + total[V \ {x}]
  BY <1>1
<1>4. total[U] = SumFunctionOnSet(g, U)
  OBVIOUS
<1> HIDE DEF total
<1>5. SumFunctionOnSet(f, U) = total[U]
  <2>1. Grows(total, f, U)
    BY <1>2, <1>3 DEF Grows
  <2> QED
    BY <2>1, SumIs
<1> QED
  BY <1>4, <1>5

\* The sum over two disjoint sets.
LEMMA SumUnion ==
  ASSUME NEW S, IsFiniteSet(S), NEW f \in [S -> Int],
         NEW A \in SUBSET S, NEW B \in SUBSET S, A \cap B = {}
  PROVE  SumFunctionOnSet(f, A \cup B) = SumFunctionOnSet(f, A) + SumFunctionOnSet(f, B)
<1> DEFINE Sum(V) == SumFunctionOnSet(f, V)
           total == [V \in SUBSET B |-> Sum(A \cup V) - Sum(A)]
<1>1. \A V \in SUBSET S : Sum(V) \in Int /\ \A x \in V : Sum(V) = f[x] + Sum(V \ {x})
  BY SumRemove
<1> HIDE DEF Sum
<1>2. total \in [SUBSET B -> Int]
  BY <1>1
<1>3. total[{}] = 0 /\ total[B] = Sum(A \cup B) - Sum(A)
  <2>1. A \cup {} = A
    OBVIOUS
  <2> QED
    BY <1>1, <2>1
<1>4. ASSUME NEW V \in SUBSET B, NEW x \in V  PROVE total[V] = f[x] + total[V \ {x}]
  <2>1. (A \cup V) \ {x} = A \cup (V \ {x})
    OBVIOUS
  <2>2. Sum(A \cup V) = f[x] + Sum(A \cup (V \ {x}))
    BY <1>1, <2>1
  <2>3. f[x] \in Int /\ Sum(A \cup (V \ {x})) \in Int /\ Sum(A) \in Int
    BY <1>1
  <2> QED
    BY <2>2, <2>3
<1> HIDE DEF total
<1>5. \A V \in SUBSET B : V # {} => \E x \in V : total[V] = f[x] + total[V \ {x}]
  BY <1>4
<1>6. Sum(B) = total[B]
  <2>1. Grows(total, f, B)
    BY <1>2, <1>3, <1>5 DEF Grows
  <2> QED
    BY <2>1, SumIs DEF Sum
<1>7. Sum(A \cup B) \in Int /\ Sum(A) \in Int
  BY <1>1
<1> QED
  BY <1>3, <1>6, <1>7 DEF Sum

\* An additive measure of the groups of a set adds up to that of the set.
Additive(measure, P) ==
  /\ measure \in [SUBSET P -> Int] /\ measure[{}] = 0
  /\ \A A, B \in SUBSET P : A \cap B = {} => measure[A \cup B] = measure[A] + measure[B]
Groups(group, D, P) ==
  group \in [D -> SUBSET P] /\ \A d, e \in D : d # e => group[d] \cap group[e] = {}

LEMMA SumGroups ==
  ASSUME NEW P, NEW measure, Additive(measure, P),
         NEW D, IsFiniteSet(D), NEW group, Groups(group, D, P),
         NEW f \in [D -> Int], \A d \in D : f[d] = measure[group[d]], NEW T \in SUBSET D
  PROVE  SumFunctionOnSet(f, T) = measure[UNION {group[d] : d \in T}]
<1>0. /\ measure \in [SUBSET P -> Int] /\ measure[{}] = 0 /\ group \in [D -> SUBSET P]
      /\ \A A, B \in SUBSET P : A \cap B = {} => measure[A \cup B] = measure[A] + measure[B]
      /\ \A d, e \in D : d # e => group[d] \cap group[e] = {}
  BY DEF Additive, Groups
<1> DEFINE All(V) == UNION {group[d] : d \in V}
           total == [V \in SUBSET T |-> measure[All(V)]]
<1>1. \A V \in SUBSET T : All(V) \in SUBSET P
  BY <1>0
<1>2. All({}) = {}
  OBVIOUS
<1>3. ASSUME NEW V \in SUBSET T, NEW d \in V  PROVE total[V] = f[d] + total[V \ {d}]
  <2>1. All(V) = group[d] \cup All(V \ {d})
    OBVIOUS
  <2>2. group[d] \cap All(V \ {d}) = {}
    BY <1>0
  <2>3. group[d] \in SUBSET P /\ All(V \ {d}) \in SUBSET P /\ V \ {d} \in SUBSET T
    BY <1>0
  <2>4. total[V] = measure[All(V)] /\ total[V \ {d}] = measure[All(V \ {d})]
    BY <2>3
  <2>5. f[d] = measure[group[d]]
    OBVIOUS
  <2>6. measure[group[d] \cup All(V \ {d})] = measure[group[d]] + measure[All(V \ {d})]
    BY ONLY <1>0, <2>2, <2>3
  <2> HIDE DEF All, total
  <2> QED
    BY <1>0, <2>1, <2>3, <2>4, <2>5, <2>6
<1> HIDE DEF All
<1>4. total \in [SUBSET T -> Int] /\ total[{}] = 0 /\ total[T] = measure[All(T)]
  BY <1>0, <1>1, <1>2
<1> HIDE DEF total
<1>5. \A V \in SUBSET T : V # {} => \E d \in V : total[V] = f[d] + total[V \ {d}]
  BY <1>3
<1>6. SumFunctionOnSet(f, T) = total[T]
  <2>1. Grows(total, f, T)
    BY <1>4, <1>5 DEF Grows
  <2> QED
    BY <2>1, SumIs
<1> QED
  BY <1>4, <1>6 DEF All

=============================================================================
