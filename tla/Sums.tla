-------------------------------- MODULE Sums --------------------------------
(***************************************************************************)
(* Sums over a finite set, as the money modules state them: the amounts of *)
(* a user's withdrawals, the salaries of an agency's weeks, the rows of a  *)
(* ledger.  SumFunctionOnSet of module Functions is a recursion on the     *)
(* subsets of the set, which picks the elements in an order of its own;    *)
(* here is shown that the order does not matter, and how a sum changes     *)
(* with its terms.  The inductions look for a smallest counterexample.     *)
(***************************************************************************)
EXTENDS Integers, FiniteSets, Functions, FiniteSetTheorems, TLAPS

\* One step of the recursion, and a function that takes it on every subset.
SumStep(g, f, s) ==
    IF s = {} THEN 0
    ELSE LET x == CHOOSE x \in s : TRUE IN f[x] + g[s \ {x}]

IsSum(g, f, S) == g = [s \in SUBSET S |-> SumStep(g, f, s)]

\* The recursive function inside SumFunctionOnSet is such a g.
LEMMA SumIsChosen ==
    ASSUME NEW f, NEW S
    PROVE  SumFunctionOnSet(f, S) = (CHOOSE g : IsSum(g, f, S))[S]
BY DEF SumFunctionOnSet, FoldFunctionOnSet, MapThenFoldSet, IsSum, SumStep

\* Induction over the subsets of a finite set, without an operator parameter:
\* a set of subsets that is not empty has a member none of whose proper
\* subsets is in it.
LEMMA SmallestSubset ==
    ASSUME NEW S, IsFiniteSet(S), NEW B, B \subseteq SUBSET S, B # {}
    PROVE  \E s \in B : \A t \in SUBSET s : t # s => t \notin B
<1>1. IsWellFoundedOn(StrictSubsetOrdering(S), SUBSET S)
  BY FS_StrictSubsetOrderingWellFounded, FS_FiniteSubsetsOfFinite
<1>2. PICK s \in B : \A t \in B : <<t, s>> \notin StrictSubsetOrdering(S)
  BY <1>1, WFMin
<1>3. \A t \in SUBSET s : t # s => t \notin B
  BY <1>2 DEF StrictSubsetOrdering
<1> QED BY <1>3

\* Two such functions agree where both are defined.
LEMMA SumsAgree ==
    ASSUME NEW f, NEW S, IsFiniteSet(S), NEW g, IsSum(g, f, S),
           NEW T, NEW h, IsSum(h, f, T), NEW s, s \subseteq S, s \subseteq T
    PROVE  g[s] = h[s]
<1> DEFINE B == {t \in SUBSET s : g[t] # h[t]}
<1> SUFFICES ASSUME B # {} PROVE FALSE
  OBVIOUS
<1>1. IsFiniteSet(s)
  BY FS_Subset
<1>0. B \subseteq SUBSET s
  OBVIOUS
<1>2. PICK t \in B : \A u \in SUBSET t : u # t => u \notin B
  <2> HIDE DEF B
  <2> QED BY <1>1, <1>0, SmallestSubset
<1>3. g[t] = SumStep(g, f, t) /\ h[t] = SumStep(h, f, t)
  BY DEF IsSum
<1>4. t # {}
  BY <1>3 DEF SumStep
<1> DEFINE x == CHOOSE x \in t : TRUE
<1>5. x \in t
  BY <1>4
<1>6. t \ {x} \in SUBSET s /\ t \ {x} \in SUBSET t /\ t \ {x} # t
  BY <1>5
<1>7. g[t \ {x}] = h[t \ {x}]
  BY <1>2, <1>6
<1> QED BY <1>3, <1>4, <1>7 DEF SumStep

\* There is one for every finite set.
LEMMA SumExists ==
    ASSUME NEW f, NEW S, IsFiniteSet(S)
    PROVE  \E g : IsSum(g, f, S)
<1> DEFINE B == {t \in SUBSET S : ~ \E g : IsSum(g, f, t)}
<1> SUFFICES ASSUME B # {} PROVE FALSE
  OBVIOUS
<1>0. B \subseteq SUBSET S
  OBVIOUS
<1>1. PICK s \in B : \A t \in SUBSET s : t # s => t \notin B
  <2> HIDE DEF B
  <2> QED BY <1>0, SmallestSubset
<1> DEFINE h(t) == CHOOSE g : IsSum(g, f, t)
           G == [t \in SUBSET s |-> SumStep(h(t \ {CHOOSE x \in t : TRUE}), f, t)]
<1>2. \A t \in SUBSET s : t # s => IsSum(h(t), f, t)
  <2> SUFFICES ASSUME NEW t \in SUBSET s, t # s PROVE IsSum(h(t), f, t)
    OBVIOUS
  <2>1. \E g : IsSum(g, f, t)
    BY <1>1
  <2> QED BY <2>1
<1>3. \A t \in SUBSET s : t # s => G[t] = h(t)[t]
  <2> SUFFICES ASSUME NEW t \in SUBSET s, t # s PROVE G[t] = h(t)[t]
    OBVIOUS
  <2>0. IsSum(h(t), f, t)
    BY <1>2
  <2>1. h(t)[t] = SumStep(h(t), f, t)
    BY <2>0 DEF IsSum
  <2>2. CASE t = {}
    BY <2>1, <2>2 DEF SumStep
  <2>3. CASE t # {}
    <3> DEFINE x == CHOOSE x \in t : TRUE
               u == t \ {x}
    <3>1. x \in t /\ u \in SUBSET s /\ u # s /\ u \subseteq t
      BY <2>3
    <3>2. IsSum(h(u), f, u)
      BY <3>1, <1>2
    <3>3. IsFiniteSet(u)
      BY <3>1, FS_Subset
    <3> HIDE DEF h, x
    <3>4. h(u)[u] = h(t)[u]
      BY <3>1, <3>2, <3>3, <2>0, SumsAgree
    <3>5. G[t] = f[x] + h(u)[u] /\ SumStep(h(t), f, t) = f[x] + h(t)[u]
      BY <2>3 DEF SumStep, x
    <3> QED BY <3>4, <3>5, <2>1
  <2> QED BY <2>2, <2>3
<1>4. \A t \in SUBSET s : G[t] = SumStep(G, f, t)
  <2> SUFFICES ASSUME NEW t \in SUBSET s PROVE G[t] = SumStep(G, f, t)
    OBVIOUS
  <2>2. CASE t = {}
    BY <2>2 DEF SumStep
  <2>3. CASE t # {}
    <3> DEFINE x == CHOOSE x \in t : TRUE
               u == t \ {x}
    <3>1. x \in t /\ u \in SUBSET s /\ u # s
      BY <2>3
    <3>2. G[u] = h(u)[u]
      BY <3>1, <1>3
    <3> HIDE DEF h
    <3>5. G[t] = f[x] + h(u)[u]
      BY <2>3 DEF SumStep
    <3> HIDE DEF G
    <3>6. SumStep(G, f, t) = f[x] + G[u]
      BY <2>3 DEF SumStep
    <3> QED BY <3>2, <3>5, <3>6
  <2> QED BY <2>2, <2>3
<1>5. G = [t \in SUBSET s |-> G[t]]
  OBVIOUS
<1> HIDE DEF G
<1>6. IsSum(G, f, s)
  BY <1>4, <1>5 DEF IsSum
<1> QED BY <1>1, <1>6

\* SumFunctionOnSet as its recursion is meant.
LEMMA SumUnfolds ==
    ASSUME NEW f, NEW S, IsFiniteSet(S)
    PROVE  /\ SumFunctionOnSet(f, {}) = 0
           /\ S # {} => \E x \in S : 
                SumFunctionOnSet(f, S) = f[x] + SumFunctionOnSet(f, S \ {x})
<1> DEFINE h(t) == CHOOSE g : IsSum(g, f, t)
<1>1. ASSUME NEW T, IsFiniteSet(T)
      PROVE  IsSum(h(T), f, T) /\ SumFunctionOnSet(f, T) = h(T)[T]
  <2>1. \E g : IsSum(g, f, T)
    BY <1>1, SumExists
  <2> QED BY <2>1, SumIsChosen
<1> HIDE DEF h
<1>2. SumFunctionOnSet(f, {}) = 0
  <2>1. IsFiniteSet({})
    BY FS_EmptySet
  <2>2. h({})[{}] = SumStep(h({}), f, {})
    BY <2>1, <1>1 DEF IsSum
  <2> QED BY <2>1, <2>2, <1>1 DEF SumStep
<1>3. ASSUME S # {}
      PROVE  \E x \in S : SumFunctionOnSet(f, S) = f[x] + SumFunctionOnSet(f, S \ {x})
  <2> DEFINE x == CHOOSE x \in S : TRUE
             u == S \ {x}
  <2>1. x \in S /\ u \subseteq S
    BY <1>3
  <2>2. IsFiniteSet(u)
    BY <2>1, FS_Subset
  <2>3. IsSum(h(u), f, u) /\ SumFunctionOnSet(f, u) = h(u)[u]
    BY <2>2, <1>1
  <2>4. IsSum(h(S), f, S) /\ SumFunctionOnSet(f, S) = h(S)[S]
    BY <1>1
  <2>5. h(u)[u] = h(S)[u]
    BY <2>1, <2>2, <2>3, <2>4, SumsAgree
  <2>6. h(S)[S] = SumStep(h(S), f, S)
    BY <2>4 DEF IsSum
  <2>7. SumStep(h(S), f, S) = f[x] + h(S)[u]
    BY <1>3 DEF SumStep
  <2> HIDE DEF x
  <2> QED BY <2>1, <2>3, <2>4, <2>5, <2>6, <2>7
<1> QED BY <1>2, <1>3

\* Every element of S may be the first; the sum of integers is an integer.
LEMMA SumRemoves ==
    ASSUME NEW f, NEW S, IsFiniteSet(S), \A y \in S : f[y] \in Int
    PROVE  /\ SumFunctionOnSet(f, S) \in Int
           /\ \A x \in S : SumFunctionOnSet(f, S) = f[x] + SumFunctionOnSet(f, S \ {x})
<1> DEFINE Good(T) ==
      /\ SumFunctionOnSet(f, T) \in Int
      /\ \A x \in T : SumFunctionOnSet(f, T) = f[x] + SumFunctionOnSet(f, T \ {x})
<1> DEFINE B == {T \in SUBSET S : ~Good(T)}
<1> SUFFICES ASSUME B # {} PROVE FALSE
  OBVIOUS
<1>1. B \subseteq SUBSET S
  OBVIOUS
<1>2. PICK T \in B : \A U \in SUBSET T : U # T => U \notin B
  <2> HIDE DEF B
  <2> QED BY <1>1, SmallestSubset
<1>3. T \in SUBSET S /\ ~Good(T)
  OBVIOUS
<1>4. \A U \in SUBSET T : U # T => Good(U)
  BY <1>2, <1>3
<1>5. \A U \in SUBSET T : IsFiniteSet(U)
  BY <1>3, FS_Subset
<1>6. T # {}
  <2> SUFFICES ASSUME T = {} PROVE FALSE
    OBVIOUS
  <2>1. IsFiniteSet({}) /\ SumFunctionOnSet(f, {}) = 0
    BY <1>5, SumUnfolds
  <2> QED BY <1>3, <2>1
<1>7. PICK y \in T : SumFunctionOnSet(f, T) = f[y] + SumFunctionOnSet(f, T \ {y})
  BY <1>5, <1>6, SumUnfolds
<1>8. Good(T \ {y})
  BY <1>4, <1>7
<1>9. SumFunctionOnSet(f, T) \in Int
  BY <1>3, <1>7, <1>8
<1>10. ASSUME NEW x \in T, x # y
       PROVE  SumFunctionOnSet(f, T) = f[x] + SumFunctionOnSet(f, T \ {x})
  <2> DEFINE R == (T \ {x}) \ {y}
  <2>1. R = (T \ {y}) \ {x}
    OBVIOUS
  <2>2. SumFunctionOnSet(f, T \ {y}) = f[x] + SumFunctionOnSet(f, R)
    BY <1>8, <1>10, <2>1
  <2>3. SumFunctionOnSet(f, T \ {x}) = f[y] + SumFunctionOnSet(f, R)
    <3>1. Good(T \ {x})
      BY <1>4, <1>10
    <3> QED BY <3>1, <1>10
  <2>4. Good(R)
    BY <1>4, <1>7
  <2>5. f[x] \in Int /\ f[y] \in Int /\ SumFunctionOnSet(f, R) \in Int
    BY <1>3, <1>10, <2>4
  <2> HIDE DEF R
  <2> QED BY <1>7, <2>2, <2>3, <2>5
<1> QED BY <1>3, <1>7, <1>9, <1>10

\* Integers add up to an integer.
LEMMA SumIsInt ==
    ASSUME NEW f, NEW S, IsFiniteSet(S), \A y \in S : f[y] \in Int
    PROVE  SumFunctionOnSet(f, S) \in Int
BY SumRemoves

\* Nothing adds up to zero.
LEMMA SumOfNone == \A f : SumFunctionOnSet(f, {}) = 0
<1>1. IsFiniteSet({})
  BY FS_EmptySet
<1> QED BY <1>1, SumUnfolds

\* A new element adds its value.
LEMMA SumAdds ==
    ASSUME NEW f, NEW S, IsFiniteSet(S), \A y \in S : f[y] \in Int,
           NEW x, x \notin S, f[x] \in Int
    PROVE  SumFunctionOnSet(f, S \cup {x}) = SumFunctionOnSet(f, S) + f[x]
<1> DEFINE T == S \cup {x}
<1>1. IsFiniteSet(T) /\ x \in T /\ T \ {x} = S /\ \A y \in T : f[y] \in Int
  BY FS_AddElement
<1> HIDE DEF T
<1>2. SumFunctionOnSet(f, T) = f[x] + SumFunctionOnSet(f, S)
  BY <1>1, SumRemoves
<1>3. SumFunctionOnSet(f, S) \in Int
  BY SumIsInt
<1> QED BY <1>2, <1>3 DEF T

\* The sum of two functions is the sum of their sums.
LEMMA SumIsLinear ==
    ASSUME NEW S, IsFiniteSet(S), NEW f, NEW g, NEW h,
           \A y \in S : f[y] \in Int /\ g[y] \in Int /\ h[y] = f[y] + g[y]
    PROVE  SumFunctionOnSet(h, S) = SumFunctionOnSet(f, S) + SumFunctionOnSet(g, S)
<1> DEFINE Same(T) ==
      SumFunctionOnSet(h, T) = SumFunctionOnSet(f, T) + SumFunctionOnSet(g, T)
<1> DEFINE B == {T \in SUBSET S : ~Same(T)}
<1> SUFFICES ASSUME B # {} PROVE FALSE
  OBVIOUS
<1>1. B \subseteq SUBSET S
  OBVIOUS
<1>2. PICK T \in B : \A U \in SUBSET T : U # T => U \notin B
  <2> HIDE DEF B
  <2> QED BY <1>1, SmallestSubset
<1>3. T \in SUBSET S /\ ~Same(T) /\ IsFiniteSet(T)
  BY FS_Subset
<1>4. T # {}
  <2>1. /\ SumFunctionOnSet(f, {}) = 0 /\ SumFunctionOnSet(g, {}) = 0
        /\ SumFunctionOnSet(h, {}) = 0
    BY SumOfNone
  <2>2. 0 = 0 + 0
    OBVIOUS
  <2>3. Same({})
    BY <2>1, <2>2
  <2> QED BY <1>3, <2>3
<1>5. PICK x \in T : TRUE
  BY <1>4
<1>6. Same(T \ {x}) /\ IsFiniteSet(T \ {x})
  BY <1>2, <1>3, <1>5, FS_Subset
<1>7. /\ SumFunctionOnSet(f, T) = f[x] + SumFunctionOnSet(f, T \ {x})
      /\ SumFunctionOnSet(g, T) = g[x] + SumFunctionOnSet(g, T \ {x})
      /\ SumFunctionOnSet(h, T) = h[x] + SumFunctionOnSet(h, T \ {x})
  <2>1. \A y \in T : f[y] \in Int /\ g[y] \in Int /\ h[y] \in Int
    BY <1>3
  <2> QED BY <1>3, <2>1, <1>5, SumRemoves
<1>8. /\ SumFunctionOnSet(f, T \ {x}) \in Int /\ SumFunctionOnSet(g, T \ {x}) \in Int
      /\ f[x] \in Int /\ g[x] \in Int /\ h[x] = f[x] + g[x]
  <2>1. \A y \in T \ {x} : f[y] \in Int /\ g[y] \in Int
    BY <1>3
  <2> QED BY <1>3, <1>5, <1>6, <2>1, SumIsInt
<1> QED BY <1>3, <1>6, <1>7, <1>8

\* Zeros add up to zero.
LEMMA SumOfZeros ==
    ASSUME NEW S, IsFiniteSet(S), NEW f, \A y \in S : f[y] = 0
    PROVE  SumFunctionOnSet(f, S) = 0
<1>1. SumFunctionOnSet(f, S) = SumFunctionOnSet(f, S) + SumFunctionOnSet(f, S)
  <2>1. \A y \in S : f[y] \in Int /\ f[y] \in Int /\ f[y] = f[y] + f[y]
    OBVIOUS
  <2> QED BY <2>1, SumIsLinear
<1>2. SumFunctionOnSet(f, S) \in Int
  BY SumIsInt
<1> QED BY <1>1, <1>2

\* Only the values at the elements of S count.
LEMMA SumSame ==
    ASSUME NEW S, IsFiniteSet(S), NEW f, NEW g,
           \A y \in S : f[y] \in Int /\ g[y] = f[y]
    PROVE  SumFunctionOnSet(g, S) = SumFunctionOnSet(f, S)
<1> DEFINE z == [y \in S |-> 0]
<1>1. \A y \in S : f[y] \in Int /\ z[y] \in Int /\ g[y] = f[y] + z[y]
  OBVIOUS
<1>2. SumFunctionOnSet(z, S) = 0
  <2>1. \A y \in S : z[y] = 0
    OBVIOUS
  <2> HIDE DEF z
  <2> QED BY <2>1, SumOfZeros
<1>3. SumFunctionOnSet(f, S) \in Int
  BY SumIsInt
<1> HIDE DEF z
<1>4. SumFunctionOnSet(g, S) = SumFunctionOnSet(f, S) + SumFunctionOnSet(z, S)
  BY <1>1, SumIsLinear
<1> QED BY <1>2, <1>3, <1>4

\* One value of many changes: the sum changes by as much.
LEMMA SumChanges ==
    ASSUME NEW S, IsFiniteSet(S), NEW x \in S, NEW f, NEW g,
           \A y \in S : f[y] \in Int,
           g[x] \in Int, \A y \in S \ {x} : g[y] = f[y]
    PROVE  SumFunctionOnSet(g, S) = SumFunctionOnSet(f, S) - f[x] + g[x]
<1>1. IsFiniteSet(S \ {x})
  BY FS_Subset
<1>2. SumFunctionOnSet(g, S \ {x}) = SumFunctionOnSet(f, S \ {x})
  BY <1>1, SumSame
<1>3. /\ SumFunctionOnSet(f, S) = f[x] + SumFunctionOnSet(f, S \ {x})
      /\ SumFunctionOnSet(g, S) = g[x] + SumFunctionOnSet(g, S \ {x})
  <2>1. \A y \in S : g[y] \in Int
    OBVIOUS
  <2> QED BY <2>1, SumRemoves
<1>4. SumFunctionOnSet(f, S \ {x}) \in Int
  BY <1>1, SumIsInt
<1> QED BY <1>2, <1>3, <1>4

\* Two disjoint sets are added up one after the other.
LEMMA SumOfUnion ==
    ASSUME NEW S, IsFiniteSet(S), NEW T, IsFiniteSet(T), S \cap T = {},
           NEW f, \A y \in S \cup T : f[y] \in Int
    PROVE  SumFunctionOnSet(f, S \cup T) =
             SumFunctionOnSet(f, S) + SumFunctionOnSet(f, T)
<1> DEFINE Same(U) ==
      SumFunctionOnSet(f, S \cup U) = SumFunctionOnSet(f, S) + SumFunctionOnSet(f, U)
<1> DEFINE B == {U \in SUBSET T : ~Same(U)}
<1> SUFFICES ASSUME B # {} PROVE FALSE
  OBVIOUS
<1>1. B \subseteq SUBSET T
  OBVIOUS
<1>2. PICK U \in B : \A V \in SUBSET U : V # U => V \notin B
  <2> HIDE DEF B
  <2> QED BY <1>1, SmallestSubset
<1>3. U \in SUBSET T /\ ~Same(U) /\ IsFiniteSet(U)
  BY FS_Subset
<1>4. SumFunctionOnSet(f, S) \in Int
  BY SumIsInt
<1>5. U # {}
  BY <1>3, <1>4, SumOfNone
<1>6. PICK x \in U : TRUE
  BY <1>5
<1> DEFINE V == U \ {x}
<1>7. Same(V) /\ IsFiniteSet(V) /\ V \cup {x} = U /\ x \notin V /\ V \subseteq T
  BY <1>2, <1>3, <1>6, FS_Subset
<1>8. IsFiniteSet(S \cup V) /\ x \notin S \cup V /\ (S \cup V) \cup {x} = S \cup U
  BY <1>3, <1>6, <1>7, FS_Union
<1>9. f[x] \in Int /\ (\A y \in S \cup V : f[y] \in Int) /\ (\A y \in V : f[y] \in Int)
  BY <1>3, <1>6, <1>7
<1> HIDE DEF V
<1>10. SumFunctionOnSet(f, S \cup U) = SumFunctionOnSet(f, S \cup V) + f[x]
  BY <1>8, <1>9, SumAdds
<1>11. SumFunctionOnSet(f, U) = SumFunctionOnSet(f, V) + f[x]
  BY <1>7, <1>9, SumAdds
<1>12. SumFunctionOnSet(f, V) \in Int
  BY <1>7, <1>9, SumIsInt
<1> QED BY <1>3, <1>4, <1>7, <1>9, <1>10, <1>11, <1>12

\* Natural numbers add up to one.
LEMMA SumIsNat ==
    ASSUME NEW S, IsFiniteSet(S), NEW f, \A y \in S : f[y] \in Nat
    PROVE  SumFunctionOnSet(f, S) \in Nat
<1> DEFINE B == {T \in SUBSET S : SumFunctionOnSet(f, T) \notin Nat}
<1> SUFFICES ASSUME B # {} PROVE FALSE
  OBVIOUS
<1>1. B \subseteq SUBSET S
  OBVIOUS
<1>2. PICK T \in B : \A U \in SUBSET T : U # T => U \notin B
  <2> HIDE DEF B
  <2> QED BY <1>1, SmallestSubset
<1>3. T \in SUBSET S /\ SumFunctionOnSet(f, T) \notin Nat /\ IsFiniteSet(T)
  BY FS_Subset
<1>4. T # {}
  BY <1>3, SumOfNone
<1>5. PICK x \in T : TRUE
  BY <1>4
<1>6. SumFunctionOnSet(f, T \ {x}) \in Nat
  BY <1>2, <1>3, <1>5
<1>7. SumFunctionOnSet(f, T) = f[x] + SumFunctionOnSet(f, T \ {x})
  BY <1>3, <1>5, SumRemoves
<1> QED BY <1>3, <1>5, <1>6, <1>7

\* As many equal integers.
LEMMA SumOfEquals ==
    ASSUME NEW S, IsFiniteSet(S), NEW c \in Int, NEW f, \A y \in S : f[y] = c
    PROVE  SumFunctionOnSet(f, S) = c * Cardinality(S)
<1> DEFINE B == {T \in SUBSET S : SumFunctionOnSet(f, T) # c * Cardinality(T)}
<1> SUFFICES ASSUME B # {} PROVE FALSE
  OBVIOUS
<1>1. B \subseteq SUBSET S
  OBVIOUS
<1>2. PICK T \in B : \A U \in SUBSET T : U # T => U \notin B
  <2> HIDE DEF B
  <2> QED BY <1>1, SmallestSubset
<1>3. T \in SUBSET S /\ SumFunctionOnSet(f, T) # c * Cardinality(T) /\ IsFiniteSet(T)
  BY FS_Subset
<1>4. T # {}
  <2>1. SumFunctionOnSet(f, {}) = 0 /\ Cardinality({}) = 0
    BY SumOfNone, FS_EmptySet
  <2>2. c * 0 = 0
    OBVIOUS
  <2> QED BY <1>3, <2>1, <2>2
<1>5. PICK x \in T : TRUE
  BY <1>4
<1> DEFINE U == T \ {x}
           n == Cardinality(U)
<1>6. IsFiniteSet(U) /\ x \notin U /\ U \cup {x} = T /\ U \in SUBSET T /\ U # T
  BY <1>3, <1>5, FS_Subset
<1>7. SumFunctionOnSet(f, U) = c * n
  <2>1. U \notin B
    BY <1>2, <1>6
  <2> QED BY <1>3, <1>6, <2>1
<1>8. n \in Nat /\ Cardinality(T) = n + 1
  BY <1>6, FS_AddElement, FS_CardinalityType
<1>9. SumFunctionOnSet(f, T) = SumFunctionOnSet(f, U) + c
  <2>1. (\A y \in U : f[y] \in Int) /\ f[x] \in Int /\ f[x] = c
    BY <1>3, <1>5, <1>6
  <2> HIDE DEF U
  <2> QED BY <1>6, <2>1, SumAdds
<1>10. c * (n + 1) = c * n + c
  BY <1>8
<1> QED BY <1>3, <1>7, <1>8, <1>9, <1>10

\* Terms that are no larger add up to no more.
LEMMA SumAtMost ==
    ASSUME NEW S, IsFiniteSet(S), NEW f, NEW g,
           \A y \in S : f[y] \in Int /\ g[y] \in Int /\ f[y] <= g[y]
    PROVE  SumFunctionOnSet(f, S) <= SumFunctionOnSet(g, S)
<1> DEFINE d == [y \in S |-> g[y] - f[y]]
<1>1. \A y \in S : /\ d[y] \in Nat /\ d[y] \in Int /\ f[y] \in Int
                   /\ g[y] = f[y] + d[y]
  OBVIOUS
<1> HIDE DEF d
<1>2. SumFunctionOnSet(g, S) = SumFunctionOnSet(f, S) + SumFunctionOnSet(d, S)
  BY <1>1, SumIsLinear
<1>3. SumFunctionOnSet(d, S) \in Nat /\ SumFunctionOnSet(f, S) \in Int
  BY <1>1, SumIsNat, SumIsInt
<1> QED BY <1>2, <1>3

\* A common factor.
LEMMA SumScales ==
    ASSUME NEW S, IsFiniteSet(S), NEW c \in Int, NEW f, NEW g,
           \A y \in S : f[y] \in Int /\ g[y] = c * f[y]
    PROVE  SumFunctionOnSet(g, S) = c * SumFunctionOnSet(f, S)
<1> DEFINE B == {T \in SUBSET S : SumFunctionOnSet(g, T) # c * SumFunctionOnSet(f, T)}
<1> SUFFICES ASSUME B # {} PROVE FALSE
  OBVIOUS
<1>1. B \subseteq SUBSET S
  OBVIOUS
<1>2. PICK T \in B : \A U \in SUBSET T : U # T => U \notin B
  <2> HIDE DEF B
  <2> QED BY <1>1, SmallestSubset
<1>3. /\ T \in SUBSET S /\ IsFiniteSet(T)
      /\ SumFunctionOnSet(g, T) # c * SumFunctionOnSet(f, T)
  BY FS_Subset
<1>4. T # {}
  <2>1. SumFunctionOnSet(f, {}) = 0 /\ SumFunctionOnSet(g, {}) = 0
    BY SumOfNone
  <2>2. c * 0 = 0
    OBVIOUS
  <2> QED BY <1>3, <2>1, <2>2
<1>5. PICK x \in T : TRUE
  BY <1>4
<1> DEFINE U == T \ {x}
           n == SumFunctionOnSet(f, U)
<1>6. IsFiniteSet(U) /\ U \in SUBSET T /\ U # T
  BY <1>3, <1>5, FS_Subset
<1>7. SumFunctionOnSet(g, U) = c * n
  <2>1. U \notin B
    BY <1>2, <1>6
  <2> QED BY <1>3, <1>6, <2>1
<1>8. \A y \in T : f[y] \in Int /\ g[y] = c * f[y] /\ g[y] \in Int
  <2>1. \A y \in T : f[y] \in Int /\ g[y] = c * f[y]
    BY <1>3
  <2>2. \A k \in Int : c * k \in Int
    OBVIOUS
  <2> QED BY <2>1, <2>2
<1>9. n \in Int /\ f[x] \in Int
  BY <1>5, <1>6, <1>8, SumIsInt
<1>10. /\ SumFunctionOnSet(f, T) = f[x] + n
       /\ SumFunctionOnSet(g, T) = g[x] + SumFunctionOnSet(g, U)
  BY <1>3, <1>5, <1>8, SumRemoves
<1>11. c * (f[x] + n) = c * f[x] + c * n
  BY <1>9
<1> QED BY <1>3, <1>5, <1>7, <1>8, <1>10, <1>11
=============================================================================
