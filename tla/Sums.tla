-------------------------------- MODULE Sums --------------------------------
(***************************************************************************)
(* Facts about SumFunctionOnSet of the community modules: what the sum of  *)
(* a function over a finite set of indices is, and how it moves when one   *)
(* index or one value does.  The database aggregates of the models are     *)
(* such sums (the payments of a sale, the units of an order).              *)
(*                                                                         *)
(* The sum picks its indices by CHOOSE, so its recursive equation is       *)
(* proved first, by induction over the subsets of the index set; the       *)
(* induction is over a set of good subsets, not over a predicate.          *)
(***************************************************************************)
EXTENDS Integers, FiniteSets, Functions, FiniteSetTheorems, TLAPS

\* The index the sum takes out first.
Pick(s) == CHOOSE x \in s : TRUE

\* g adds f up over the subsets of S in the way the sum does.
Adds(g, f, S) ==
    g = [s \in SUBSET S |-> IF s = {} THEN 0 ELSE f[Pick(s)] + g[s \ {Pick(s)}]]

\* Induction over the subsets of a finite set.
LEMMA SubsetInduction ==
    ASSUME NEW S, IsFiniteSet(S), NEW Good,
           \A T \in SUBSET S :
               (\A U \in SUBSET T : U # T => U \in Good) => T \in Good
    PROVE  \A T \in SUBSET S : T \in Good
<1> DEFINE Bad == {T \in SUBSET S : T \notin Good}
<1>1. SUFFICES ASSUME Bad # {} PROVE FALSE
  OBVIOUS
<1>2. IsWellFoundedOn(StrictSubsetOrdering(S), SUBSET S)
  BY FS_StrictSubsetOrderingWellFounded, FS_FiniteSubsetsOfFinite
<1>3. PICK T \in Bad : \A U \in Bad : <<U, T>> \notin StrictSubsetOrdering(S)
  <2>1. Bad \subseteq SUBSET S
    OBVIOUS
  <2> HIDE DEF Bad
  <2> QED
    BY <1>1, <1>2, <2>1, WFMin
<1>4. ASSUME NEW U \in SUBSET T, U # T PROVE U \in Good
  <2>1. <<U, T>> \in StrictSubsetOrdering(S)
    BY <1>4 DEF StrictSubsetOrdering
  <2> QED
    BY <1>3, <2>1
<1> QED
  BY <1>3, <1>4

LEMMA PickIn == \A s : s # {} => Pick(s) \in s
  BY DEF Pick

LEMMA SumIsAdds ==
    ASSUME NEW f, NEW S
    PROVE  SumFunctionOnSet(f, S) = (CHOOSE g : Adds(g, f, S))[S]
  BY DEF SumFunctionOnSet, FoldFunctionOnSet, MapThenFoldSet, Adds, Pick

\* The recursive equation of the sum.
LEMMA SumEquation ==
    ASSUME NEW f, NEW S, IsFiniteSet(S)
    PROVE  SumFunctionOnSet(f, S)
             = IF S = {} THEN 0
               ELSE f[Pick(S)] + SumFunctionOnSet(f, S \ {Pick(S)})
<1> DEFINE Sum(T) == SumFunctionOnSet(f, T)
           Right(T) == IF T = {} THEN 0 ELSE f[Pick(T)] + Sum(T \ {Pick(T)})
           Only(T) == \A g : Adds(g, f, T) => g[T] = Sum(T)
           Good == {T \in SUBSET S : Sum(T) = Right(T) /\ Only(T)}
<1>1. ASSUME NEW T \in SUBSET S, \A U \in SUBSET T : U # T => U \in Good
      PROVE  T \in Good
  <2> DEFINE G == [s \in SUBSET T |-> Right(s)]
  <2>1. \A s \in SUBSET T : s # {} => s \ {Pick(s)} \in SUBSET T /\ s \ {Pick(s)} # T
    BY PickIn
  <2>2. \A s \in SUBSET T : s # T => G[s] = Sum(s)
    BY <1>1
  <2>3. Adds(G, f, T)
    <3>1. \A s \in SUBSET T : 
             Right(s) = IF s = {} THEN 0 ELSE f[Pick(s)] + G[s \ {Pick(s)}]
      <4> HIDE DEF G, Sum
      <4> QED
        BY <2>1, <2>2
    <3> QED
      BY <3>1 DEF Adds
  <2>4. Adds(CHOOSE g : Adds(g, f, T), f, T)
    BY <2>3
  <2>5. ASSUME NEW g, Adds(g, f, T)
        PROVE  g[T] = Right(T)
    <3>1. CASE T = {}
      BY <2>5, <3>1 DEF Adds
    <3>2. CASE T # {}
      <4> DEFINE U == T \ {Pick(T)}
      <4>1. U \in SUBSET T /\ U # T
        BY <3>2, <2>1
      <4>2. g[T] = f[Pick(T)] + g[U]
        BY <2>5, <3>2 DEF Adds
      <4>3. g[U] = Sum(U)
        <5> DEFINE h == [s \in SUBSET U |-> g[s]]
        <5>1. \A s \in SUBSET T :
                 g[s] = IF s = {} THEN 0 ELSE f[Pick(s)] + g[s \ {Pick(s)}]
          BY <2>5 DEF Adds
        <5>2. \A s \in SUBSET U : 
                 h[s] = IF s = {} THEN 0 ELSE f[Pick(s)] + h[s \ {Pick(s)}]
          BY <5>1, <4>1
        <5>3. Adds(h, f, U)
          BY <5>2 DEF Adds
        <5>4. h[U] = Sum(U)
          BY <1>1, <4>1, <5>3
        <5> QED
          BY <5>4
      <4> QED
        BY <3>2, <4>2, <4>3
    <3> QED
      BY <3>1, <3>2
  <2>6. Sum(T) = Right(T)
    BY <2>4, <2>5, SumIsAdds
  <2> QED
    BY <2>5, <2>6
<1>2. S \in Good
  <2> HIDE DEF Good
  <2> QED
    BY <1>1, SubsetInduction
<1> QED
  BY <1>2

LEMMA SumEmpty == \A f : SumFunctionOnSet(f, {}) = 0
  BY SumEquation, FS_EmptySet

\* A sum looks at nothing but the values at its indices.
LEMMA SumCongruence ==
    ASSUME NEW f, NEW g, NEW S, IsFiniteSet(S), \A x \in S : f[x] = g[x]
    PROVE  SumFunctionOnSet(f, S) = SumFunctionOnSet(g, S)
<1> DEFINE Good == {T \in SUBSET S : SumFunctionOnSet(f, T) = SumFunctionOnSet(g, T)}
<1>1. ASSUME NEW T \in SUBSET S, \A U \in SUBSET T : U # T => U \in Good
      PROVE  T \in Good
  <2>1. IsFiniteSet(T)
    BY FS_Subset
  <2>2. CASE T = {}
    BY <2>2, SumEmpty
  <2>3. CASE T # {}
    <3>1. T \ {Pick(T)} \in Good /\ f[Pick(T)] = g[Pick(T)]
      BY <1>1, <2>3, PickIn
    <3> QED
      BY <2>1, <2>3, <3>1, SumEquation
  <2> QED
    BY <2>2, <2>3
<1>2. S \in Good
  <2> HIDE DEF Good
  <2> QED
    BY <1>1, SubsetInduction
<1> QED
  BY <1>2

LEMMA SumInt ==
    ASSUME NEW f, NEW S, IsFiniteSet(S), \A x \in S : f[x] \in Int
    PROVE  SumFunctionOnSet(f, S) \in Int
<1> DEFINE Good == {T \in SUBSET S : SumFunctionOnSet(f, T) \in Int}
<1>1. ASSUME NEW T \in SUBSET S, \A U \in SUBSET T : U # T => U \in Good
      PROVE  T \in Good
  <2>1. IsFiniteSet(T)
    BY FS_Subset
  <2>2. CASE T = {}
    BY <2>2, SumEmpty
  <2>3. CASE T # {}
    <3>1. T \ {Pick(T)} \in Good /\ f[Pick(T)] \in Int
      BY <1>1, <2>3, PickIn
    <3> QED
      BY <2>1, <2>3, <3>1, SumEquation
  <2> QED
    BY <2>2, <2>3
<1>2. S \in Good
  <2> HIDE DEF Good
  <2> QED
    BY <1>1, SubsetInduction
<1> QED
  BY <1>2

\* Any index may be taken out first.
LEMMA SumRemove ==
    ASSUME NEW f, NEW S, IsFiniteSet(S), \A y \in S : f[y] \in Int, NEW x \in S
    PROVE  SumFunctionOnSet(f, S) = f[x] + SumFunctionOnSet(f, S \ {x})
<1> DEFINE Sum(T) == SumFunctionOnSet(f, T)
           Good == {T \in SUBSET S : \A z \in T : Sum(T) = f[z] + Sum(T \ {z})}
<1>1. ASSUME NEW T \in SUBSET S, \A U \in SUBSET T : U # T => U \in Good
      PROVE  T \in Good
  <2> SUFFICES ASSUME NEW z \in T PROVE Sum(T) = f[z] + Sum(T \ {z})
    OBVIOUS
  <2> DEFINE p == Pick(T)
  <2>1. \A U \in SUBSET T : IsFiniteSet(U) /\ Sum(U) \in Int
    <3> SUFFICES ASSUME NEW U \in SUBSET T PROVE IsFiniteSet(U) /\ Sum(U) \in Int
      OBVIOUS
    <3>1. IsFiniteSet(U)
      BY FS_Subset
    <3> QED
      BY <3>1, SumInt
  <2>2. p \in T /\ f[p] \in Int /\ f[z] \in Int
    BY PickIn
  <2>3. Sum(T) = f[p] + Sum(T \ {p})
    BY <2>1, SumEquation
  <2>4. CASE p = z
    BY <2>3, <2>4
  <2>5. CASE p # z
    <3> DEFINE R == (T \ {p}) \ {z}
    <3>1. /\ T \ {p} \in Good /\ z \in T \ {p}
          /\ T \ {z} \in Good /\ p \in T \ {z}
          /\ R = (T \ {z}) \ {p} /\ R \in SUBSET T
      BY <1>1, <2>2, <2>5
    <3>2. Sum(T \ {p}) = f[z] + Sum(R) /\ Sum(T \ {z}) = f[p] + Sum(R)
      BY <3>1
    <3>3. Sum(R) \in Int
      BY <2>1, <3>1
    <3> HIDE DEF Sum, p, R
    <3> QED
      BY <2>2, <2>3, <3>2, <3>3
  <2> QED
    BY <2>4, <2>5
<1>2. S \in Good
  <2> HIDE DEF Good
  <2> QED
    BY <1>1, SubsetInduction
<1> QED
  BY <1>2

LEMMA SumAdd ==
    ASSUME NEW f, NEW S, IsFiniteSet(S), NEW x, x \notin S,
           \A y \in S \cup {x} : f[y] \in Int
    PROVE  SumFunctionOnSet(f, S \cup {x}) = SumFunctionOnSet(f, S) + f[x]
<1> DEFINE T == S \cup {x}
<1>1. IsFiniteSet(T) /\ T \ {x} = S /\ x \in T
  BY FS_AddElement
<1>2. SumFunctionOnSet(f, S) \in Int /\ f[x] \in Int
  BY SumInt
<1> SUFFICES SumFunctionOnSet(f, T) = SumFunctionOnSet(f, S) + f[x]
  OBVIOUS
<1> HIDE DEF T
<1>3. SumFunctionOnSet(f, T) = f[x] + SumFunctionOnSet(f, S)
  <2>1. \A y \in T : f[y] \in Int
    BY DEF T
  <2> QED
    BY <1>1, <2>1, SumRemove
<1> QED
  BY <1>2, <1>3

\* One value changes: the sum moves by the difference.
LEMMA SumChange ==
    ASSUME NEW f, NEW g, NEW S, IsFiniteSet(S), NEW x \in S,
           \A y \in S : f[y] \in Int, g[x] \in Int,
           \A y \in S \ {x} : g[y] = f[y]
    PROVE  SumFunctionOnSet(g, S) = SumFunctionOnSet(f, S) - f[x] + g[x]
<1> DEFINE R == S \ {x}
<1>1. IsFiniteSet(R) /\ (\A y \in S : g[y] \in Int)
  BY FS_RemoveElement
<1>2. SumFunctionOnSet(f, S) = f[x] + SumFunctionOnSet(f, R)
  BY SumRemove
<1>3. SumFunctionOnSet(g, S) = g[x] + SumFunctionOnSet(g, R)
  BY <1>1, SumRemove
<1>4. SumFunctionOnSet(g, R) = SumFunctionOnSet(f, R)
  BY <1>1, SumCongruence
<1>5. SumFunctionOnSet(f, R) \in Int
  BY <1>1, SumInt
<1> HIDE DEF R
<1> QED
  BY <1>2, <1>3, <1>4, <1>5

\* No sum of quantities is negative, and none is below one of them.
LEMMA SumNat ==
    ASSUME NEW f, NEW S, IsFiniteSet(S), \A x \in S : f[x] \in Nat
    PROVE  SumFunctionOnSet(f, S) \in Nat
<1> DEFINE Good == {T \in SUBSET S : SumFunctionOnSet(f, T) \in Nat}
<1>1. ASSUME NEW T \in SUBSET S, \A U \in SUBSET T : U # T => U \in Good
      PROVE  T \in Good
  <2>1. IsFiniteSet(T)
    BY FS_Subset
  <2>2. CASE T = {}
    BY <2>2, SumEmpty
  <2>3. CASE T # {}
    <3>1. T \ {Pick(T)} \in Good /\ f[Pick(T)] \in Nat
      BY <1>1, <2>3, PickIn
    <3> QED
      BY <2>1, <2>3, <3>1, SumEquation
  <2> QED
    BY <2>2, <2>3
<1>2. S \in Good
  <2> HIDE DEF Good
  <2> QED
    BY <1>1, SubsetInduction
<1> QED
  BY <1>2

\* A sum of quantities grows with its indices and with its values.
LEMMA SumSubset ==
    ASSUME NEW f, NEW S, IsFiniteSet(S), \A x \in S : f[x] \in Nat, NEW T \in SUBSET S
    PROVE  SumFunctionOnSet(f, T) <= SumFunctionOnSet(f, S)
<1> DEFINE Sum(U) == SumFunctionOnSet(f, U)
           Good == {U \in SUBSET S : \A V \in SUBSET U : Sum(V) <= Sum(U)}
<1>1. \A U \in SUBSET S : IsFiniteSet(U) /\ Sum(U) \in Nat
  <2> SUFFICES ASSUME NEW U \in SUBSET S PROVE IsFiniteSet(U) /\ Sum(U) \in Nat
    OBVIOUS
  <2>1. IsFiniteSet(U)
    BY FS_Subset
  <2> QED
    BY <2>1, SumNat
<1>2. ASSUME NEW U \in SUBSET S, \A W \in SUBSET U : W # U => W \in Good
      PROVE  U \in Good
  <2> SUFFICES ASSUME NEW V \in SUBSET U PROVE Sum(V) <= Sum(U)
    OBVIOUS
  <2>1. Sum(U) \in Nat /\ Sum(V) \in Nat
    BY <1>1
  <2>2. CASE V = U
    BY <2>1, <2>2
  <2>3. CASE V # U
    <3>1. PICK x \in U : x \notin V
      BY <2>3
    <3> DEFINE R == U \ {x}
    <3>2. R \in SUBSET U /\ R # U /\ V \in SUBSET R /\ R \in SUBSET S
      BY <3>1
    <3>3. Sum(V) <= Sum(R)
      BY <1>2, <3>2
    <3>4. Sum(U) = f[x] + Sum(R)
      BY <1>1, SumRemove
    <3>5. f[x] \in Nat /\ Sum(R) \in Nat
      BY <1>1, <3>2
    <3> HIDE DEF Sum, R
    <3> QED
      BY <2>1, <3>3, <3>4, <3>5
  <2> QED
    BY <2>2, <2>3
<1>3. S \in Good
  <2> HIDE DEF Good
  <2> QED
    BY <1>2, SubsetInduction
<1> QED
  BY <1>3

LEMMA SumMonotone ==
    ASSUME NEW f, NEW g, NEW S, IsFiniteSet(S),
           \A x \in S : f[x] \in Nat /\ g[x] \in Nat /\ f[x] <= g[x]
    PROVE  SumFunctionOnSet(f, S) <= SumFunctionOnSet(g, S)
<1> DEFINE Good == {T \in SUBSET S : SumFunctionOnSet(f, T) <= SumFunctionOnSet(g, T)}
<1>1. ASSUME NEW T \in SUBSET S, \A U \in SUBSET T : U # T => U \in Good
      PROVE  T \in Good
  <2>1. IsFiniteSet(T)
    BY FS_Subset
  <2>2. CASE T = {}
    BY <2>2, SumEmpty
  <2>3. CASE T # {}
    <3>1. PICK x \in T : TRUE
      BY <2>3
    <3> DEFINE R == T \ {x}
    <3>2. R \in Good /\ IsFiniteSet(R) /\ R \in SUBSET S
      BY <1>1, <2>1, <3>1, FS_Subset
    <3>3. SumFunctionOnSet(f, R) <= SumFunctionOnSet(g, R)
      BY <3>2
    <3>4. SumFunctionOnSet(f, R) \in Nat /\ SumFunctionOnSet(g, R) \in Nat
      BY <3>2, SumNat
    <3>5. /\ SumFunctionOnSet(f, T) = f[x] + SumFunctionOnSet(f, R)
          /\ SumFunctionOnSet(g, T) = g[x] + SumFunctionOnSet(g, R)
      BY <2>1, <3>1, SumRemove
    <3>6. f[x] \in Nat /\ g[x] \in Nat /\ f[x] <= g[x]
      BY <3>1
    <3> HIDE DEF R, Good
    <3>7. SumFunctionOnSet(f, T) <= SumFunctionOnSet(g, T)
      BY <3>3, <3>4, <3>5, <3>6
    <3> QED
      BY <3>7 DEF Good
  <2> QED
    BY <2>2, <2>3
<1>2. S \in Good
  <2> HIDE DEF Good
  <2> QED
    BY <1>1, SubsetInduction
<1> QED
  BY <1>2

\* The sum over one index.
LEMMA SumSingle ==
    ASSUME NEW f, NEW x, f[x] \in Int
    PROVE  SumFunctionOnSet(f, {x}) = f[x]
<1>1. IsFiniteSet({}) /\ SumFunctionOnSet(f, {}) = 0 /\ {} \cup {x} = {x}
  BY FS_EmptySet, SumEmpty
<1>2. SumFunctionOnSet(f, {} \cup {x}) = SumFunctionOnSet(f, {}) + f[x]
  BY <1>1, SumAdd
<1> QED
  BY <1>1, <1>2

\* A set of indices has a least one.
LEMMA LeastIndex ==
    ASSUME NEW n \in Nat, NEW R \in SUBSET (1..n), R # {}
    PROVE  \E i \in R : \A j \in R : i <= j
<1> DEFINE Good == {T \in SUBSET (1..n) : T # {} => \E i \in T : \A j \in T : i <= j}
<1>1. IsFiniteSet(1..n)
  BY FS_Interval
<1>2. ASSUME NEW T \in SUBSET (1..n), \A U \in SUBSET T : U # T => U \in Good, T # {}
      PROVE  \E i \in T : \A j \in T : i <= j
  <2>1. PICK x \in T : TRUE
    BY <1>2
  <2> DEFINE U == {j \in T : j < x}
  <2>2. CASE U = {}
    <3>1. \A j \in T : ~(j < x)
      BY <2>2
    <3> QED
      BY <2>1, <3>1
  <2>3. CASE U # {}
    <3>4. x \notin U /\ U \in SUBSET T
      <4>1. x \in Int
        BY <2>1
      <4> QED
        BY <4>1
    <3>5. U # T
      BY <3>4, <2>1
    <3> HIDE DEF U, Good
    <3>1. U \in Good
      BY <1>2, <3>4, <3>5
    <3> USE DEF U, Good
    <3>2. PICK i \in U : \A j \in U : i <= j
      BY <2>3, <3>1
    <3>3. \A j \in T : i <= j
      BY <3>2
    <3> QED
      BY <3>2, <3>3
  <2> QED
    BY <2>2, <2>3
<1>3. \A T \in SUBSET (1..n) : (\A U \in SUBSET T : U # T => U \in Good) => T \in Good
  BY <1>2
<1> HIDE DEF Good
<1>4. \A T \in SUBSET (1..n) : T \in Good
  BY <1>1, <1>3, SubsetInduction
<1> QED
  BY <1>4 DEF Good

\* Indices whose value is 0 do not matter.
LEMMA SumOutside ==
    ASSUME NEW f, NEW S, IsFiniteSet(S), \A x \in S : f[x] \in Int,
           NEW T \in SUBSET S, \A x \in S \ T : f[x] = 0
    PROVE  SumFunctionOnSet(f, S) = SumFunctionOnSet(f, T)
<1> DEFINE Sum(U) == SumFunctionOnSet(f, U)
           Good == {U \in SUBSET S : Sum(U) = Sum(U \cap T)}
<1>1. ASSUME NEW U \in SUBSET S, \A V \in SUBSET U : V # U => V \in Good
      PROVE  U \in Good
  <2>1. IsFiniteSet(U) /\ IsFiniteSet(U \cap T)
    BY FS_Subset
  <2>2. CASE U = {}
    BY <2>2
  <2>3. CASE U # {}
    <3>1. PICK x \in U : TRUE
      BY <2>3
    <3>2. (U \ {x}) \in Good
      BY <1>1, <3>1
    <3>3. Sum(U \ {x}) = Sum((U \ {x}) \cap T)
      BY <3>2
    <3>4. Sum(U) = f[x] + Sum(U \ {x})
      BY <2>1, <3>1, SumRemove
    <3>5. CASE x \in T
      <4>1. (U \ {x}) \cap T = (U \cap T) \ {x}
        OBVIOUS
      <4>2. Sum(U \cap T) = f[x] + Sum((U \cap T) \ {x})
        BY <2>1, <3>5, SumRemove
      <4> QED
        BY <3>3, <3>4, <4>1, <4>2
    <3>6. CASE x \notin T
      <4>1. (U \ {x}) \cap T = U \cap T /\ f[x] = 0
        BY <3>6
      <4>2. Sum(U \cap T) \in Int
        BY <2>1, SumInt
      <4>3. Sum(U) = 0 + Sum(U \cap T)
        BY <3>3, <3>4, <4>1
      <4>4. Sum(U) = Sum(U \cap T)
        BY <4>2, <4>3
      <4> QED
        BY <4>4
    <3> QED
      BY <3>5, <3>6
  <2> QED
    BY <2>2, <2>3
<1> HIDE DEF Good
<1>2. \A U \in SUBSET S : U \in Good
  BY <1>1, SubsetInduction
<1>3. S \cap T = T
  OBVIOUS
<1> QED
  BY <1>2, <1>3 DEF Good

\* The sum of a value that is the same everywhere.
LEMMA SumConstant ==
    ASSUME NEW f, NEW S, IsFiniteSet(S), NEW c \in Int, \A x \in S : f[x] = c
    PROVE  SumFunctionOnSet(f, S) = Cardinality(S) * c
<1> DEFINE Good == {T \in SUBSET S : SumFunctionOnSet(f, T) = Cardinality(T) * c}
<1>1. ASSUME NEW T \in SUBSET S, \A U \in SUBSET T : U # T => U \in Good
      PROVE  T \in Good
  <2>1. IsFiniteSet(T)
    BY FS_Subset
  <2>2. CASE T = {}
    BY <2>2, SumEmpty, FS_EmptySet
  <2>3. CASE T # {}
    <3>1. PICK x \in T : TRUE
      BY <2>3
    <3>2. (T \ {x}) \in Good
      BY <1>1, <3>1
    <3>3. IsFiniteSet(T \ {x}) /\ Cardinality(T) = Cardinality(T \ {x}) + 1
      <4>1. IsFiniteSet(T \ {x}) /\ Cardinality(T \ {x}) = Cardinality(T) - 1
        BY <2>1, <3>1, FS_RemoveElement
      <4>2. Cardinality(T) \in Nat
        BY <2>1, FS_CardinalityType
      <4> QED
        BY <4>1, <4>2
    <3>4. PICK n \in Nat : n = Cardinality(T \ {x})
      BY <3>3, FS_CardinalityType
    <3>5. SumFunctionOnSet(f, T \ {x}) = n * c
      BY <3>2, <3>4
    <3>6. SumFunctionOnSet(f, T) = c + n * c
      BY <2>1, <3>1, <3>5, SumRemove
    <3>7. c + n * c = (n + 1) * c
      BY SMT
    <3> QED
      BY <3>3, <3>4, <3>6, <3>7
  <2> QED
    BY <2>2, <2>3
<1> HIDE DEF Good
<1>2. \A T \in SUBSET S : T \in Good
  BY <1>1, SubsetInduction
<1> QED
  BY <1>2 DEF Good

\* Renaming the indices one by one.
LEMMA SumImage ==
    ASSUME NEW f, NEW g, NEW h, NEW S, IsFiniteSet(S),
           \A x, y \in S : h[x] = h[y] => x = y,
           \A x \in S : g[x] \in Int /\ f[h[x]] = g[x]
    PROVE  SumFunctionOnSet(f, {h[x] : x \in S}) = SumFunctionOnSet(g, S)
<1> DEFINE Image(T) == {h[x] : x \in T}
           Good == {T \in SUBSET S : /\ IsFiniteSet(Image(T))
                                     /\ SumFunctionOnSet(f, Image(T)) = SumFunctionOnSet(g, T)}
<1>1. ASSUME NEW T \in SUBSET S, \A U \in SUBSET T : U # T => U \in Good
      PROVE  T \in Good
  <2>1. IsFiniteSet(T)
    BY FS_Subset
  <2>2. CASE T = {}
    <3>1. Image(T) = {}
      BY <2>2
    <3> QED
      BY <2>2, <3>1, SumEmpty, FS_EmptySet
  <2>3. CASE T # {}
    <3>1. PICK x \in T : TRUE
      BY <2>3
    <3>2. (T \ {x}) \in Good
      BY <1>1, <3>1
    <3>3. Image(T) = Image(T \ {x}) \cup {h[x]} /\ h[x] \notin Image(T \ {x})
      BY <3>1
    <3>4. \A y \in Image(T \ {x}) \cup {h[x]} : f[y] \in Int
      BY <3>1
    <3>5. IsFiniteSet(Image(T \ {x})) /\ IsFiniteSet(T \ {x})
      BY <2>1, <3>2, FS_Subset
    <3>6. SumFunctionOnSet(f, Image(T \ {x})) = SumFunctionOnSet(g, T \ {x})
      BY <3>2
    <3> HIDE DEF Image
    <3>7. SumFunctionOnSet(f, Image(T)) = SumFunctionOnSet(g, T \ {x}) + g[x]
      <4>1. SumFunctionOnSet(f, Image(T \ {x}) \cup {h[x]})
                = SumFunctionOnSet(f, Image(T \ {x})) + f[h[x]]
        <5>1. PICK X, z : X = Image(T \ {x}) /\ z = h[x]
          OBVIOUS
        <5>2. IsFiniteSet(X) /\ z \notin X /\ (\A y \in X \cup {z} : f[y] \in Int)
          BY <3>3, <3>4, <3>5, <5>1
        <5>3. SumFunctionOnSet(f, X \cup {z}) = SumFunctionOnSet(f, X) + f[z]
          BY <5>2, SumAdd
        <5> QED
          BY <5>1, <5>3
      <4> QED
        BY <3>1, <3>3, <3>6, <4>1
    <3>8. SumFunctionOnSet(g, T) = g[x] + SumFunctionOnSet(g, T \ {x})
      BY <2>1, <3>1, SumRemove
    <3>9. SumFunctionOnSet(g, T \ {x}) \in Int /\ g[x] \in Int
      BY <3>1, <3>5, SumInt
    <3>10. IsFiniteSet(Image(T))
      <4>1. IsFiniteSet(Image(T \ {x}) \cup {h[x]})
        BY <3>5, FS_AddElement
      <4> QED
        BY <3>3, <4>1
    <3> QED
      BY <3>7, <3>8, <3>9, <3>10
  <2> QED
    BY <2>2, <2>3
<1> HIDE DEF Good
<1>2. \A T \in SUBSET S : T \in Good
  BY <1>1, SubsetInduction
<1> QED
  BY <1>2 DEF Good
=============================================================================
