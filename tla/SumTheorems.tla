------------------------------- MODULE SumTheorems ------------------------------
(***************************************************************************)
(* Sums over finite sets, as the operator MapThenSumSet of the community   *)
(* modules computes them: by a recursive function on the subsets, which    *)
(* takes the elements in the order that CHOOSE gives.  What a sum is does  *)
(* not depend on the order; a module that adds with MapThenSumSet shows    *)
(* once that its function is a partial sum (SumIs), and uses SumAdd,       *)
(* SumRemove and the others from there on.                                 *)
(*                                                                         *)
(* The induction over finite sets is first-order: of the subsets that fail *)
(* the claim, if any, there is a smallest one (SmallestSubset), and it     *)
(* holds for that one as it does with an element less.                     *)
(***************************************************************************)
EXTENDS Integers, FiniteSetTheorems, TLAPS

\* The element that a sum over s takes first.
First(s) == CHOOSE x \in s : TRUE

\* g is the recursive function by which MapThenSumSet adds f over the subsets of S.
IsPartialSum(g, f, S) ==
    g = [s \in SUBSET S |-> IF s = {} THEN 0 ELSE f[First(s)] + g[s \ {First(s)}]]

PartialSum(f, S) == CHOOSE g : IsPartialSum(g, f, S)

SumOver(f, S) == PartialSum(f, S)[S]

\* The element taken first is one of the set.
LEMMA FirstIsMember ==
    ASSUME NEW s, s # {}
    PROVE  First(s) \in s
  BY DEF First

\* Of some subsets of a finite set one has none of the others below it.
LEMMA SmallestSubset ==
    ASSUME NEW S, IsFiniteSet(S), NEW C \in SUBSET SUBSET S, C # {}
    PROVE  \E T \in C : \A U \in C : U \subseteq T => U = T
<1>1. FiniteSubsetsOf(S) = SUBSET S
  BY FS_FiniteSubsetsOfFinite
<1>2. IsWellFoundedOn(StrictSubsetOrdering(S), SUBSET S)
  BY <1>1, FS_StrictSubsetOrderingWellFounded
<1>3. \E T \in C : \A U \in C : ~ (<<U, T>> \in StrictSubsetOrdering(S))
  BY <1>2, WFMin
<1> QED
  BY <1>3 DEF StrictSubsetOrdering

\* A set that holds zero, and of every number the next, holds all of them.
LEMMA AllNumbers ==
    ASSUME NEW T \in SUBSET Nat, 0 \in T, \A n \in T : n + 1 \in T
    PROVE  T = Nat
<1> SUFFICES ASSUME NEW n \in Nat, n \notin T
             PROVE  FALSE
  OBVIOUS
<1> DEFINE S == 0..n
           C == {0..m : m \in S \ T}
<1>1. IsFiniteSet(S) /\ C \in SUBSET SUBSET S /\ C # {}
  <2>1. IsFiniteSet(S)
    BY FS_Interval
  <2>2. n \in S \ T
    OBVIOUS
  <2>3. \A m \in S : 0..m \subseteq S
    OBVIOUS
  <2> QED
    BY <2>1, <2>2, <2>3
<1>2. PICK I \in C : \A U \in C : U \subseteq I => U = I
  <2> HIDE DEF S, C
  <2> QED
    BY <1>1, SmallestSubset
<1>3. PICK m \in S \ T : I = 0..m
  BY <1>2
<1>4. m \in Nat \ {0}
  BY <1>3
<1>5. m - 1 \in S /\ 0..(m - 1) \subseteq I /\ 0..(m - 1) # I
  BY <1>3, <1>4
<1>6. m - 1 \in T
  BY <1>2, <1>5
<1>7. (m - 1) + 1 = m
  BY <1>4
<1> QED
  BY <1>3, <1>6, <1>7

\* Two partial sums of the same numbers agree where both are defined.
LEMMA PartialSumUnique ==
    ASSUME NEW S, IsFiniteSet(S), NEW f, NEW g, NEW h, NEW T \in SUBSET S,
           IsPartialSum(g, f, S), IsPartialSum(h, f, T)
    PROVE  \A s \in SUBSET T : g[s] = h[s]
<1> DEFINE C == {s \in SUBSET T : g[s] # h[s]}
<1> SUFFICES ASSUME C # {} PROVE FALSE
  OBVIOUS
<1>1. PICK s \in C : \A U \in C : U \subseteq s => U = s
  <2>1. C \in SUBSET SUBSET S
    OBVIOUS
  <2> HIDE DEF C
  <2> QED
    BY <2>1, SmallestSubset
<1>2. s \in SUBSET T /\ s \in SUBSET S
  OBVIOUS
<1>3. g[s] = IF s = {} THEN 0 ELSE f[First(s)] + g[s \ {First(s)}]
  BY <1>2 DEF IsPartialSum
<1>4. h[s] = IF s = {} THEN 0 ELSE f[First(s)] + h[s \ {First(s)}]
  BY <1>2 DEF IsPartialSum
<1>5. s # {}
  BY <1>3, <1>4
<1>6. g[s \ {First(s)}] = h[s \ {First(s)}]
  BY <1>1, <1>2, <1>5, FirstIsMember
<1> QED
  BY <1>3, <1>4, <1>6

\* There is a function that adds as MapThenSumSet does.
LEMMA PartialSumExists ==
    ASSUME NEW S, IsFiniteSet(S), NEW f
    PROVE  \E g : IsPartialSum(g, f, S)
<1> DEFINE C == {T \in SUBSET S : ~ \E g : IsPartialSum(g, f, T)}
<1> SUFFICES ASSUME C # {} PROVE FALSE
  OBVIOUS
<1>1. PICK T \in C : \A U \in C : U \subseteq T => U = T
  <2>1. C \in SUBSET SUBSET S
    OBVIOUS
  <2> HIDE DEF C
  <2> QED
    BY <2>1, SmallestSubset
<1>2. T \in SUBSET S /\ IsFiniteSet(T)
  BY FS_Subset
<1> DEFINE p(U) == PartialSum(f, U)
           G == [s \in SUBSET T |-> IF s = {} THEN 0
                                    ELSE f[First(s)] + p(s \ {First(s)})[s \ {First(s)}]]
<1>3. \A U \in SUBSET T : U # T => IsPartialSum(p(U), f, U)
  <2> TAKE U \in SUBSET T
  <2> HAVE U # T
  <2>1. U \notin C
    BY <1>1, <1>2
  <2>2. \E g : IsPartialSum(g, f, U)
    BY <2>1, <1>2
  <2> QED
    BY <2>2 DEF PartialSum
<1>4. \A s \in SUBSET T : s # T => p(s)[s] = G[s]
  <2> TAKE s \in SUBSET T
  <2> HAVE s # T
  <2>1. IsPartialSum(p(s), f, s)
    BY <1>3
  <2>2. CASE s = {}
    BY <2>1, <2>2 DEF IsPartialSum
  <2>3. CASE s # {}
    <3> DEFINE r == s \ {First(s)}
    <3>1. r \in SUBSET s /\ r \in SUBSET T /\ r # T
      BY <2>3, FirstIsMember
    <3>2. IsPartialSum(p(r), f, r)
      BY <3>1, <1>3
    <3>3. IsFiniteSet(s)
      BY <1>2, FS_Subset
    <3>4. p(s)[r] = p(r)[r]
      <4> HIDE DEF r, p
      <4> QED
        BY <2>1, <3>1, <3>2, <3>3, PartialSumUnique
    <3>5. p(s)[s] = f[First(s)] + p(s)[r]
      BY <2>1, <2>3 DEF IsPartialSum
    <3> QED
      BY <2>3, <3>4, <3>5
  <2> QED
    BY <2>2, <2>3
<1>5. IsPartialSum(G, f, T)
  <2>1. ASSUME NEW s \in SUBSET T, s # {}
        PROVE  p(s \ {First(s)})[s \ {First(s)}] = G[s \ {First(s)}]
    <3>1. s \ {First(s)} \in SUBSET T /\ s \ {First(s)} # T
      BY <2>1, FirstIsMember
    <3> HIDE DEF p, G
    <3> QED
      BY <3>1, <1>4
  <2>2. G = [s \in SUBSET T |-> IF s = {} THEN 0 ELSE f[First(s)] + G[s \ {First(s)}]]
    <3>1. \A s \in SUBSET T : G[s] = IF s = {} THEN 0 ELSE f[First(s)] + G[s \ {First(s)}]
      BY <2>1
    <3> QED
      BY <3>1
  <2> QED
    BY <2>2 DEF IsPartialSum
<1> QED
  BY <1>1, <1>5

\* So PartialSum is one.
LEMMA SumOverIs ==
    ASSUME NEW S, IsFiniteSet(S), NEW f
    PROVE  IsPartialSum(PartialSum(f, S), f, S)
  BY PartialSumExists DEF PartialSum

\* The partial sum of a larger set gives the sums of its subsets too.
LEMMA SumOfSubset ==
    ASSUME NEW S, IsFiniteSet(S), NEW f, NEW T \in SUBSET S
    PROVE  PartialSum(f, S)[T] = SumOver(f, T)
<1>1. IsFiniteSet(T)
  BY FS_Subset
<1> QED
  BY <1>1, SumOverIs, PartialSumUnique DEF SumOver

\* Nothing adds up to zero.
LEMMA SumEmpty ==
    ASSUME NEW f
    PROVE  SumOver(f, {}) = 0
<1>1. IsPartialSum(PartialSum(f, {}), f, {})
  BY SumOverIs, FS_EmptySet
<1> QED
  BY <1>1 DEF IsPartialSum, SumOver

\* A sum is its first element and the sum of the rest.
LEMMA SumUnfold ==
    ASSUME NEW S, IsFiniteSet(S), NEW f, S # {}
    PROVE  SumOver(f, S) = f[First(S)] + SumOver(f, S \ {First(S)})
<1>1. IsPartialSum(PartialSum(f, S), f, S)
  BY SumOverIs
<1>2. PartialSum(f, S)[S] = f[First(S)] + PartialSum(f, S)[S \ {First(S)}]
  BY <1>1 DEF IsPartialSum
<1>3. PartialSum(f, S)[S \ {First(S)}] = SumOver(f, S \ {First(S)})
  BY SumOfSubset
<1> QED
  BY <1>2, <1>3 DEF SumOver

\* Whatever function adds as MapThenSumSet does computes the sum.
LEMMA SumIs ==
    ASSUME NEW S, IsFiniteSet(S), NEW f, NEW h, IsPartialSum(h, f, S)
    PROVE  h[S] = SumOver(f, S)
BY SumOverIs, PartialSumUnique DEF SumOver

\* Integers add up to an integer.
LEMMA SumInt ==
    ASSUME NEW S, IsFiniteSet(S), NEW f, \A x \in S : f[x] \in Int
    PROVE  SumOver(f, S) \in Int
<1> DEFINE C == {T \in SUBSET S : SumOver(f, T) \notin Int}
<1> SUFFICES ASSUME C # {} PROVE FALSE
  OBVIOUS
<1>1. PICK T \in C : \A U \in C : U \subseteq T => U = T
  <2>1. C \in SUBSET SUBSET S
    OBVIOUS
  <2> HIDE DEF C
  <2> QED
    BY <2>1, SmallestSubset
<1>2. T \in SUBSET S /\ IsFiniteSet(T)
  BY FS_Subset
<1>3. T # {}
  BY SumEmpty
<1>4. SumOver(f, T) = f[First(T)] + SumOver(f, T \ {First(T)})
  BY <1>2, <1>3, SumUnfold
<1>5. First(T) \in T
  BY <1>3, FirstIsMember
<1>6. SumOver(f, T \ {First(T)}) \in Int
  BY <1>1, <1>2, <1>5
<1> QED
  BY <1>2, <1>4, <1>5, <1>6

\* The order in which a sum takes its elements makes no difference.
LEMMA SumRemove ==
    ASSUME NEW S, IsFiniteSet(S), NEW f, \A x \in S : f[x] \in Int, NEW a \in S
    PROVE  SumOver(f, S) = SumOver(f, S \ {a}) + f[a]
<1> DEFINE C == {T \in SUBSET S : \E y \in T : SumOver(f, T) # SumOver(f, T \ {y}) + f[y]}
<1> SUFFICES ASSUME C # {} PROVE FALSE
  OBVIOUS
<1>1. PICK T \in C : \A U \in C : U \subseteq T => U = T
  <2>1. C \in SUBSET SUBSET S
    OBVIOUS
  <2> HIDE DEF C
  <2> QED
    BY <2>1, SmallestSubset
<1>2. PICK y \in T : SumOver(f, T) # SumOver(f, T \ {y}) + f[y]
  OBVIOUS
<1> DEFINE z == First(T)
<1>3. T \in SUBSET S /\ z \in T
  BY FirstIsMember
<1>4. \A U \in SUBSET S : IsFiniteSet(U) /\ SumOver(f, U) \in Int
  BY FS_Subset, SumInt
<1>5. SumOver(f, T) = f[z] + SumOver(f, T \ {z})
  BY <1>3, <1>4, SumUnfold
<1>6. y # z
  BY <1>2, <1>3, <1>4, <1>5
<1>7. SumOver(f, T \ {z}) = SumOver(f, (T \ {z}) \ {y}) + f[y]
  <2>1. T \ {z} \notin C
    BY <1>1, <1>3
  <2> QED
    BY <1>3, <1>6, <2>1
<1>8. SumOver(f, T \ {y}) = SumOver(f, (T \ {y}) \ {z}) + f[z]
  <2>1. T \ {y} \notin C
    BY <1>1, <1>3
  <2> QED
    BY <1>3, <1>6, <2>1
<1>9. (T \ {y}) \ {z} = (T \ {z}) \ {y}
  OBVIOUS
<1>10. SumOver(f, (T \ {z}) \ {y}) \in Int /\ f[y] \in Int /\ f[z] \in Int
  BY <1>3, <1>4
<1>11. SumOver(f, T) = SumOver(f, T \ {y}) + f[y]
  <2>1. SumOver(f, T) = f[z] + (SumOver(f, (T \ {z}) \ {y}) + f[y])
    BY <1>5, <1>7
  <2>2. SumOver(f, T \ {y}) = SumOver(f, (T \ {z}) \ {y}) + f[z]
    BY <1>8, <1>9
  <2> HIDE DEF z
  <2> QED
    BY <1>10, <2>1, <2>2
<1> QED
  BY <1>2, <1>11

\* An element more adds its number.
LEMMA SumAdd ==
    ASSUME NEW S, IsFiniteSet(S), NEW f, NEW a, a \notin S,
           \A x \in S \cup {a} : f[x] \in Int
    PROVE  SumOver(f, S \cup {a}) = SumOver(f, S) + f[a]
<1>1. IsFiniteSet(S \cup {a})
  BY FS_AddElement
<1>2. (S \cup {a}) \ {a} = S
  OBVIOUS
<1> QED
  BY <1>1, <1>2, SumRemove

\* A sum depends on no other value of the function.
LEMMA SumAgree ==
    ASSUME NEW S, IsFiniteSet(S), NEW f, NEW g, \A x \in S : f[x] = g[x]
    PROVE  SumOver(f, S) = SumOver(g, S)
<1>1. IsPartialSum(PartialSum(f, S), f, S)
  BY SumOverIs
<1>2. \A s \in SUBSET S : s # {} => f[First(s)] = g[First(s)]
  BY FirstIsMember
<1>3. IsPartialSum(PartialSum(f, S), g, S)
  BY <1>1, <1>2 DEF IsPartialSum
<1> QED
  BY <1>3, SumIs DEF SumOver

\* Natural numbers add up to a natural number.
LEMMA SumNat ==
    ASSUME NEW S, IsFiniteSet(S), NEW f, \A x \in S : f[x] \in Nat
    PROVE  SumOver(f, S) \in Nat
<1> DEFINE C == {T \in SUBSET S : SumOver(f, T) \notin Nat}
<1> SUFFICES ASSUME C # {} PROVE FALSE
  OBVIOUS
<1>1. PICK T \in C : \A U \in C : U \subseteq T => U = T
  <2>1. C \in SUBSET SUBSET S
    OBVIOUS
  <2> HIDE DEF C
  <2> QED
    BY <2>1, SmallestSubset
<1>2. T \in SUBSET S /\ IsFiniteSet(T)
  BY FS_Subset
<1>3. PICK y \in T : TRUE
  BY SumEmpty
<1>4. SumOver(f, T) = SumOver(f, T \ {y}) + f[y]
  BY <1>2, SumRemove
<1>5. SumOver(f, T \ {y}) \in Nat
  BY <1>1, <1>2
<1> QED
  BY <1>2, <1>4, <1>5

\* Over two sets that share no element.
LEMMA SumUnion ==
    ASSUME NEW S, IsFiniteSet(S), NEW R, IsFiniteSet(R), S \cap R = {},
           NEW f, \A x \in S \cup R : f[x] \in Int
    PROVE  SumOver(f, S \cup R) = SumOver(f, S) + SumOver(f, R)
<1> DEFINE C == {T \in SUBSET R : SumOver(f, S \cup T) # SumOver(f, S) + SumOver(f, T)}
<1> SUFFICES ASSUME C # {} PROVE FALSE
  OBVIOUS
<1>1. PICK T \in C : \A U \in C : U \subseteq T => U = T
  <2>1. C \in SUBSET SUBSET R
    OBVIOUS
  <2> HIDE DEF C
  <2> QED
    BY <2>1, SmallestSubset
<1>2. T \in SUBSET R /\ IsFiniteSet(T)
  BY FS_Subset
<1>3. SumOver(f, S) \in Int /\ SumOver(f, T) \in Int
  BY <1>2, SumInt
<1>4. PICK y \in T : TRUE
  <2>1. S \cup {} = S /\ SumOver(f, {}) = 0
    BY SumEmpty
  <2>2. T # {}
    BY <1>3, <2>1
  <2> QED
    BY <2>2
<1>5. SumOver(f, T) = SumOver(f, T \ {y}) + f[y]
  BY <1>2, SumRemove
<1>6. SumOver(f, S \cup T) = SumOver(f, S \cup (T \ {y})) + f[y]
  <2>1. IsFiniteSet(S \cup T)
    BY <1>2, FS_Union
  <2>2. (S \cup T) \ {y} = S \cup (T \ {y}) /\ y \in S \cup T
    BY <1>2
  <2>3. \A x \in S \cup T : f[x] \in Int
    BY <1>2
  <2> QED
    BY <2>1, <2>2, <2>3, SumRemove
<1>7. SumOver(f, S \cup (T \ {y})) = SumOver(f, S) + SumOver(f, T \ {y})
  BY <1>1, <1>2
<1>8. SumOver(f, T \ {y}) \in Int /\ f[y] \in Int
  <2>1. IsFiniteSet(T \ {y})
    BY <1>2, FS_RemoveElement
  <2> QED
    BY <1>2, <2>1, SumInt
<1> QED
  BY <1>3, <1>5, <1>6, <1>7, <1>8

\* Fewer natural numbers add up to less.
LEMMA SumSubset ==
    ASSUME NEW S, IsFiniteSet(S), NEW T \in SUBSET S, NEW f, \A x \in S : f[x] \in Nat
    PROVE  SumOver(f, T) <= SumOver(f, S)
<1>1. IsFiniteSet(T) /\ IsFiniteSet(S \ T)
  BY FS_Subset, FS_Difference
<1>2. S = T \cup (S \ T) /\ T \cap (S \ T) = {}
  OBVIOUS
<1>3. SumOver(f, T \cup (S \ T)) = SumOver(f, T) + SumOver(f, S \ T)
  BY <1>1, SumUnion
<1>4. SumOver(f, T) \in Nat /\ SumOver(f, S \ T) \in Nat
  BY <1>1, SumNat
<1>5. SumOver(f, S) = SumOver(f, T) + SumOver(f, S \ T)
  BY <1>2, <1>3, Zenon
<1> QED
  BY <1>4, <1>5

\* Numbers of at most b add up to at most b for each.
LEMMA SumBound ==
    ASSUME NEW S, IsFiniteSet(S), NEW f, \A x \in S : f[x] \in Nat,
           NEW b \in Nat, \A x \in S : f[x] <= b
    PROVE  SumOver(f, S) <= Cardinality(S) * b
<1> DEFINE C == {T \in SUBSET S : ~ (SumOver(f, T) <= Cardinality(T) * b)}
<1> SUFFICES ASSUME C # {} PROVE FALSE
  OBVIOUS
<1>1. PICK T \in C : \A U \in C : U \subseteq T => U = T
  <2>1. C \in SUBSET SUBSET S
    OBVIOUS
  <2> HIDE DEF C
  <2> QED
    BY <2>1, SmallestSubset
<1>2. T \in SUBSET S /\ IsFiniteSet(T)
  BY FS_Subset
<1>3. PICK y \in T : TRUE
  <2>1. SumOver(f, {}) = 0 /\ Cardinality({}) = 0
    BY SumEmpty, FS_EmptySet
  <2>2. 0 <= 0 * b
    OBVIOUS
  <2>3. SumOver(f, {}) <= Cardinality({}) * b
    BY <2>1, <2>2, Zenon
  <2>4. T # {}
    BY <2>3
  <2> QED
    BY <2>4
<1> DEFINE r == SumOver(f, T \ {y})
           n == Cardinality(T \ {y})
<1>4. SumOver(f, T) = r + f[y] /\ f[y] \in Nat /\ f[y] <= b
  BY <1>2, SumRemove
<1>5. r <= n * b
  BY <1>1, <1>2
<1>6. n \in Nat /\ Cardinality(T) = n + 1 /\ r \in Nat
  <2>1. IsFiniteSet(T \ {y}) /\ Cardinality(T \ {y}) = Cardinality(T) - 1
    BY <1>2, FS_RemoveElement
  <2> QED
    BY <1>2, <2>1, FS_CardinalityType, SumNat
<1>7. ~ (SumOver(f, T) <= Cardinality(T) * b)
  OBVIOUS
<1> HIDE DEF C, n, r
<1>8. (n + 1) * b = n * b + b /\ n * b \in Nat
  BY <1>6
<1> QED
  BY <1>4, <1>5, <1>6, <1>7, <1>8

\* A sum of greater numbers is greater.
LEMMA SumLeq ==
    ASSUME NEW S, IsFiniteSet(S), NEW f, NEW g,
           \A x \in S : f[x] \in Nat /\ g[x] \in Nat /\ f[x] <= g[x]
    PROVE  SumOver(f, S) <= SumOver(g, S)
<1> DEFINE C == {T \in SUBSET S : ~ (SumOver(f, T) <= SumOver(g, T))}
<1> SUFFICES ASSUME C # {} PROVE FALSE
  OBVIOUS
<1>1. PICK T \in C : \A U \in C : U \subseteq T => U = T
  <2>1. C \in SUBSET SUBSET S
    OBVIOUS
  <2> HIDE DEF C
  <2> QED
    BY <2>1, SmallestSubset
<1>2. T \in SUBSET S /\ IsFiniteSet(T)
  BY FS_Subset
<1>3. PICK y \in T : TRUE
  <2>1. SumOver(f, {}) = 0 /\ SumOver(g, {}) = 0
    BY SumEmpty
  <2>2. T # {}
    BY <2>1
  <2> QED
    BY <2>2
<1> DEFINE F == SumOver(f, T \ {y})
           G == SumOver(g, T \ {y})
<1>4. SumOver(f, T) = F + f[y] /\ SumOver(g, T) = G + g[y]
  BY <1>2, SumRemove
<1>5. F <= G
  BY <1>1, <1>2
<1>6. F \in Nat /\ G \in Nat
  <2>1. IsFiniteSet(T \ {y})
    BY <1>2, FS_RemoveElement
  <2> QED
    BY <1>2, <2>1, SumNat
<1>7. ~ (SumOver(f, T) <= SumOver(g, T)) /\ f[y] \in Nat /\ g[y] \in Nat /\ f[y] <= g[y]
  BY <1>2
<1> HIDE DEF C, F, G
<1> QED
  BY <1>4, <1>5, <1>6, <1>7

\* Adding up the same numbers under other names.
LEMMA SumRename ==
    ASSUME NEW S, IsFiniteSet(S), NEW f, NEW g, NEW m,
           \A x, y \in S : m[x] = m[y] => x = y,
           \A x \in S : f[x] \in Int /\ f[x] = g[m[x]]
    PROVE  SumOver(f, S) = SumOver(g, {m[x] : x \in S}) /\ IsFiniteSet({m[x] : x \in S})
<1> DEFINE I(T) == {m[x] : x \in T}
           C == {T \in SUBSET S : ~ (SumOver(f, T) = SumOver(g, I(T)) /\ IsFiniteSet(I(T)))}
<1> SUFFICES ASSUME C # {} PROVE FALSE
  OBVIOUS
<1>1. PICK T \in C : \A U \in C : U \subseteq T => U = T
  <2>1. C \in SUBSET SUBSET S
    OBVIOUS
  <2> HIDE DEF C
  <2> QED
    BY <2>1, SmallestSubset
<1>2. T \in SUBSET S /\ IsFiniteSet(T)
  BY FS_Subset
<1>3. PICK y \in T : TRUE
  <2>1. I({}) = {} /\ SumOver(f, {}) = 0 /\ SumOver(g, {}) = 0 /\ IsFiniteSet({})
    BY SumEmpty, FS_EmptySet
  <2>2. T # {}
    BY <2>1
  <2> QED
    BY <2>2
<1> DEFINE R == T \ {y}
<1>4. SumOver(f, R) = SumOver(g, I(R)) /\ IsFiniteSet(I(R))
  BY <1>1, <1>2
<1>5. I(T) = I(R) \cup {m[y]} /\ m[y] \notin I(R)
  BY <1>2
<1>6. \A z \in I(R) \cup {m[y]} : g[z] \in Int
  BY <1>2
<1>7. SumOver(f, T) = SumOver(f, R) + f[y]
  BY <1>2, SumRemove
<1>8. g[m[y]] = f[y]
  BY <1>2
<1>9. ~ (SumOver(f, T) = SumOver(g, I(T)) /\ IsFiniteSet(I(T)))
  OBVIOUS
<1> HIDE DEF I, R, C
<1>10. SumOver(g, I(R) \cup {m[y]}) = SumOver(g, I(R)) + g[m[y]]
  <2> DEFINE J == I(R)
             z == m[y]
  <2>1. IsFiniteSet(J) /\ z \notin J /\ \A x \in J \cup {z} : g[x] \in Int
    BY <1>4, <1>5, <1>6
  <2> HIDE DEF J, z
  <2>2. SumOver(g, J \cup {z}) = SumOver(g, J) + g[z]
    BY <2>1, SumAdd
  <2> QED
    BY <2>2 DEF J, z
<1>11. IsFiniteSet(I(R) \cup {m[y]})
  BY <1>4, FS_AddElement
<1> QED
  BY <1>4, <1>5, <1>7, <1>8, <1>9, <1>10, <1>11
\* Sums of the parts of a set, by some key, add up to the sum of the whole.
LEMMA SumPartition ==
    ASSUME NEW S, IsFiniteSet(S), NEW K, IsFiniteSet(K),
           NEW f, \A x \in S : f[x] \in Int, NEW key, \A x \in S : key[x] \in K
    PROVE  SumOver([k \in K |-> SumOver(f, {x \in S : key[x] = k})], K) = SumOver(f, S)
<1> DEFINE Of(T) == {x \in S : key[x] \in T}
           part(k) == {x \in S : key[x] = k}
           g == [k \in K |-> SumOver(f, part(k))]
           C == {T \in SUBSET K : SumOver(g, T) # SumOver(f, Of(T))}
<1>1. \A k \in K : g[k] \in Int
  BY FS_Subset, SumInt
<1>2. C = {}
  <2> SUFFICES ASSUME C # {} PROVE FALSE
    OBVIOUS
  <2>1. PICK T \in C : \A U \in C : U \subseteq T => U = T
    <3>1. C \in SUBSET SUBSET K
      OBVIOUS
    <3> HIDE DEF C
    <3> QED
      BY <3>1, SmallestSubset
  <2>2. T \in SUBSET K /\ IsFiniteSet(T)
    BY FS_Subset
  <2>3. SumOver(g, {}) = SumOver(f, Of({}))
    BY SumEmpty, Of({}) = {}
  <2>4. PICK k \in T : TRUE
    BY <2>3
  <2>5. SumOver(g, T) = SumOver(g, T \ {k}) + g[k]
    <3> HIDE DEF g, C
    <3> QED
      BY <1>1, <2>2, SumRemove
  <2>6. SumOver(g, T \ {k}) = SumOver(f, Of(T \ {k}))
    BY <2>1, <2>2
  <2>7. SumOver(f, Of(T)) = SumOver(f, Of(T \ {k})) + SumOver(f, part(k))
    <3>1. Of(T) = Of(T \ {k}) \cup part(k) /\ Of(T \ {k}) \cap part(k) = {}
      BY <2>2
    <3>2. IsFiniteSet(Of(T \ {k})) /\ IsFiniteSet(part(k))
      BY FS_Subset
    <3>3. \A x \in Of(T \ {k}) \cup part(k) : f[x] \in Int
      OBVIOUS
    <3> HIDE DEF Of, part, C, g
    <3> QED
      BY <3>1, <3>2, <3>3, SumUnion
  <2>8. g[k] = SumOver(f, part(k))
    BY <2>2
  <2> QED
    BY <2>1, <2>5, <2>6, <2>7, <2>8
<1>3. Of(K) = S
  OBVIOUS
<1>4. SumOver(g, K) = SumOver(f, Of(K))
  BY <1>2
<1> QED
  BY <1>3, <1>4

\* A set has as many elements as ones add up to.
LEMMA SumOfOnes ==
    ASSUME NEW S, IsFiniteSet(S)
    PROVE  SumOver([x \in S |-> 1], S) = Cardinality(S)
<1> DEFINE f == [x \in S |-> 1]
           C == {T \in SUBSET S : SumOver(f, T) # Cardinality(T)}
<1> SUFFICES ASSUME C # {} PROVE FALSE
  OBVIOUS
<1>1. PICK T \in C : \A U \in C : U \subseteq T => U = T
  <2>1. C \in SUBSET SUBSET S
    OBVIOUS
  <2> HIDE DEF C
  <2> QED
    BY <2>1, SmallestSubset
<1>2. T \in SUBSET S /\ IsFiniteSet(T)
  BY FS_Subset
<1>3. PICK y \in T : TRUE
  <2>1. SumOver(f, {}) = Cardinality({})
    BY SumEmpty, FS_EmptySet
  <2>2. T # {}
    BY <2>1
  <2> QED
    BY <2>2
<1>4. SumOver(f, T) = SumOver(f, T \ {y}) + 1
  <2>1. \A x \in T : f[x] = 1
    BY <1>2
  <2> HIDE DEF f, C
  <2> QED
    BY <1>2, <2>1, SumRemove
<1>5. SumOver(f, T \ {y}) = Cardinality(T \ {y})
  BY <1>1, <1>2
<1>6. Cardinality(T \ {y}) = Cardinality(T) - 1 /\ Cardinality(T) \in Nat
  BY <1>2, FS_RemoveElement, FS_CardinalityType
<1> QED
  BY <1>4, <1>5, <1>6

\* The parts of a set, by some key, have as many elements as the whole.
LEMMA CardinalityPartition ==
    ASSUME NEW S, IsFiniteSet(S), NEW K, IsFiniteSet(K), NEW key, \A x \in S : key[x] \in K
    PROVE  SumOver([k \in K |-> Cardinality({x \in S : key[x] = k})], K) = Cardinality(S)
<1> DEFINE one == [x \in S |-> 1]
           part(k) == {x \in S : key[x] = k}
           g == [k \in K |-> SumOver(one, part(k))]
           h == [k \in K |-> Cardinality(part(k))]
<1>1. ASSUME NEW k \in K
      PROVE  g[k] = h[k]
  <2>1. IsFiniteSet(part(k))
    BY FS_Subset
  <2>2. \A x \in part(k) : one[x] = [y \in part(k) |-> 1][x]
    OBVIOUS
  <2>3. SumOver(one, part(k)) = SumOver([y \in part(k) |-> 1], part(k))
    <3> HIDE DEF part, one
    <3> QED
      BY <2>1, <2>2, SumAgree
  <2>4. SumOver([y \in part(k) |-> 1], part(k)) = Cardinality(part(k))
    <3> HIDE DEF part
    <3> QED
      BY <2>1, SumOfOnes
  <2> QED
    BY <2>3, <2>4
<1>2. SumOver(g, K) = SumOver(h, K)
  <2> HIDE DEF g, h
  <2> QED
    BY <1>1, SumAgree
<1>3. SumOver(g, K) = SumOver(one, S)
  <2>1. \A x \in S : one[x] \in Int
    OBVIOUS
  <2> HIDE DEF one
  <2> QED
    BY <2>1, SumPartition
<1> QED
  BY <1>2, <1>3, SumOfOnes
================================================================================
