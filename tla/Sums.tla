-------------------------------- MODULE Sums ---------------------------------
(***************************************************************************)
(* What the components' sums over finite sets are (SumFunctionOnSet of     *)
(* Functions): of nothing, with one element more, of functions that agree  *)
(* or are comparable.  The sum is defined by a recursion over the subsets; *)
(* a claim about it is proved by looking at a smallest set it fails for,   *)
(* which exists because finite sets are well-founded by strict inclusion.  *)
(***************************************************************************)
EXTENDS Integers, FiniteSets, Functions, FiniteSetTheorems, WellFoundedInduction, TLAPS

\* A set of finite sets that is not empty has an element without a smaller one in it.
LEMMA SmallestSet ==
  ASSUME NEW S, IsFiniteSet(S), NEW T \in SUBSET SUBSET S, T # {}
  PROVE  \E x \in T : \A y \in T : y \subseteq x => y = x
<1>1. IsWellFoundedOn(StrictSubsetOrdering(S), SUBSET S)
  BY FS_StrictSubsetOrderingWellFounded, FS_FiniteSubsetsOfFinite
<1>2. \E x \in T : \A y \in T : ~ (<<y, x>> \in StrictSubsetOrdering(S))
  BY <1>1, WFMin
<1> QED
  BY <1>2 DEF StrictSubsetOrdering

\* The recursion that a sum is made of.
First(s) == CHOOSE x \in s : TRUE
Adds(g, f, S) ==
  g = [s \in SUBSET S |-> IF s = {} THEN 0 ELSE f[First(s)] + g[s \ {First(s)}]]

LEMMA RecursionsAgree ==
  ASSUME NEW S, IsFiniteSet(S), NEW U, IsFiniteSet(U), NEW T, T \subseteq S, T \subseteq U,
         NEW e, NEW f, \A x \in T : e[x] = f[x],
         NEW g, Adds(g, e, S), NEW h, Adds(h, f, U)
  PROVE  g[T] = h[T]
<1> DEFINE Bad == {s \in SUBSET T : g[s] # h[s]}
<1>1. SUFFICES ASSUME Bad # {} PROVE FALSE
  OBVIOUS
<1>2. IsFiniteSet(T)
  BY FS_Subset
<1>3. PICK s \in Bad : \A y \in Bad : y \subseteq s => y = s
  <2>1. Bad \in SUBSET SUBSET T
    OBVIOUS
  <2> HIDE DEF Bad
  <2> QED
    BY <1>1, <1>2, <2>1, SmallestSet
<1>4. s # {}
  BY <1>3 DEF Adds
<1>5. First(s) \in s
  BY <1>4 DEF First
<1>6. s \ {First(s)} \in SUBSET T /\ s \ {First(s)} \notin Bad
  BY <1>3, <1>5
<1>7. g[s] = f[First(s)] + g[s \ {First(s)}] /\ h[s] = f[First(s)] + h[s \ {First(s)}]
  BY <1>3, <1>4, <1>5 DEF Adds
<1> QED
  BY <1>3, <1>6, <1>7

LEMMA ZeroIsInt == 0 \in Int
OBVIOUS

LEMMA RecursionInt ==
  ASSUME NEW S, IsFiniteSet(S), NEW f, \A x \in S : f[x] \in Int, NEW g, Adds(g, f, S)
  PROVE  \A s \in SUBSET S : g[s] \in Int
<1> DEFINE Bad == {s \in SUBSET S : g[s] \notin Int}
<1>1. SUFFICES ASSUME Bad # {} PROVE FALSE
  OBVIOUS
<1>2. PICK s \in Bad : \A y \in Bad : y \subseteq s => y = s
  <2>1. Bad \in SUBSET SUBSET S
    OBVIOUS
  <2> HIDE DEF Bad
  <2> QED
    BY <1>1, <2>1, SmallestSet
<1>3. s # {}
  <2>1. s \in SUBSET S /\ g[s] \notin Int
    BY <1>2
  <2> QED
    BY <2>1, ZeroIsInt DEF Adds
<1>4. First(s) \in s
  BY <1>3 DEF First
<1>5. g[s \ {First(s)}] \in Int
  BY <1>2, <1>4
<1>6. g[s] = f[First(s)] + g[s \ {First(s)}]
  BY <1>2, <1>3 DEF Adds
<1> QED
  BY <1>2, <1>4, <1>5, <1>6

\* Any element may be added last.
LEMMA AnyLast ==
  ASSUME NEW S, IsFiniteSet(S), NEW f, \A x \in S : f[x] \in Int, NEW g, Adds(g, f, S),
         NEW s \in SUBSET S, NEW x \in s
  PROVE  g[s] = f[x] + g[s \ {x}]
<1> DEFINE Bad == {t \in SUBSET S : \E y \in t : g[t] # f[y] + g[t \ {y}]}
<1>1. SUFFICES ASSUME Bad # {} PROVE FALSE
  OBVIOUS
<1>2. PICK t \in Bad : \A u \in Bad : u \subseteq t => u = t
  <2>1. Bad \in SUBSET SUBSET S
    OBVIOUS
  <2> HIDE DEF Bad
  <2> QED
    BY <1>1, <2>1, SmallestSet
<1>3. PICK y \in t : g[t] # f[y] + g[t \ {y}]
  BY <1>2
<1> DEFINE c == First(t)
<1>4. c \in t
  BY <1>3 DEF First
<1>5. g[t] = f[c] + g[t \ {c}]
  BY <1>2, <1>3 DEF Adds
<1>6. c # y
  BY <1>3, <1>5
<1> HIDE DEF c
<1>7. t \ {c} \notin Bad /\ t \ {y} \notin Bad
  BY <1>2, <1>3, <1>4
<1>8. y \in t \ {c} /\ c \in t \ {y} /\ t \ {c} \in SUBSET S /\ t \ {y} \in SUBSET S
  BY <1>2, <1>3, <1>4, <1>6
<1>9. g[t \ {c}] = f[y] + g[(t \ {c}) \ {y}] /\ g[t \ {y}] = f[c] + g[(t \ {y}) \ {c}]
  BY <1>7, <1>8
<1>10. (t \ {c}) \ {y} = (t \ {y}) \ {c}
  OBVIOUS
<1>11. g[(t \ {y}) \ {c}] \in Int /\ f[c] \in Int /\ f[y] \in Int
  BY <1>2, <1>3, <1>4, RecursionInt
<1> DEFINE rest == g[(t \ {y}) \ {c}]
<1>12. g[t] = f[c] + (f[y] + rest) /\ g[t \ {y}] = f[c] + rest
  BY <1>5, <1>9, <1>10
<1> HIDE DEF rest, Bad
<1>13. f[c] + (f[y] + rest) = f[y] + (f[c] + rest)
  <2>1. rest \in Int
    BY <1>11 DEF rest
  <2> QED
    BY <1>11, <2>1
<1> QED
  BY <1>3, <1>12, <1>13

\* There is such a function.
LEMMA RecursionExists ==
  ASSUME NEW S, IsFiniteSet(S), NEW f
  PROVE  \E g : Adds(g, f, S)
<1> DEFINE Bad == {s \in SUBSET S : ~ \E g : Adds(g, f, s)}
<1>1. SUFFICES ASSUME Bad # {} PROVE FALSE
  OBVIOUS
<1>2. PICK s \in Bad : \A y \in Bad : y \subseteq s => y = s
  <2>1. Bad \in SUBSET SUBSET S
    OBVIOUS
  <2> HIDE DEF Bad
  <2> QED
    BY <1>1, <2>1, SmallestSet
<1>3. \A t \in (SUBSET s) \ {s} : \E g : Adds(g, f, t)
  BY <1>2
<1> DEFINE G(t) == CHOOSE g : Adds(g, f, t)
           h == [t \in SUBSET s |-> IF t = {} THEN 0 ELSE f[First(t)] + G(t \ {First(t)})[t \ {First(t)}]]
<1>4. \A t \in (SUBSET s) \ {s} : Adds(G(t), f, t)
  BY <1>3
<1>5. ASSUME NEW t \in (SUBSET s) \ {s} PROVE h[t] = G(t)[t]
  <2>1. CASE t = {}
    <3>1. Adds(G(t), f, t)
      BY <1>4
    <3>2. h[t] = 0
      BY <2>1
    <3> HIDE DEF G, h
    <3> QED
      BY <2>1, <3>1, <3>2 DEF Adds
  <2>2. CASE t # {}
    <3> DEFINE u == t \ {First(t)}
    <3>1. First(t) \in t
      BY <2>2 DEF First
    <3>2. u \in (SUBSET s) \ {s} /\ u \subseteq t
      BY <3>1
    <3>3. IsFiniteSet(t) /\ IsFiniteSet(u)
      BY <3>2, FS_Subset
    <3>4. Adds(G(t), f, t) /\ Adds(G(u), f, u)
      BY <1>4, <3>2
    <3> HIDE DEF G
    <3>5. G(t)[u] = G(u)[u]
      BY <3>2, <3>3, <3>4, RecursionsAgree
    <3> QED
      BY <2>2, <3>2, <3>4, <3>5 DEF Adds
  <2> QED
    BY <2>1, <2>2
<1>6. Adds(h, f, s)
  <2> SUFFICES ASSUME NEW t \in SUBSET s, t # {} PROVE G(t \ {First(t)})[t \ {First(t)}] = h[t \ {First(t)}]
    <3> HIDE DEF G
    <3> QED
      BY DEF Adds
  <2>1. First(t) \in t
    BY DEF First
  <2>2. t \ {First(t)} \in (SUBSET s) \ {s}
    BY <2>1
  <2> QED
    BY <2>2, <1>5
<1> QED
  BY <1>2, <1>6

LEMMA SumIsRecursion ==
  ASSUME NEW S, IsFiniteSet(S), NEW f
  PROVE  \E g : Adds(g, f, S) /\ SumFunctionOnSet(f, S) = g[S]
<1> DEFINE it == CHOOSE g : g = [s \in SUBSET S |->
                       IF s = {} THEN 0 ELSE f[CHOOSE x \in s : TRUE] + g[s \ {CHOOSE x \in s : TRUE}]]
<1>1. SumFunctionOnSet(f, S) = it[S]
  BY DEF SumFunctionOnSet, FoldFunctionOnSet, MapThenFoldSet
<1>2. PICK g : Adds(g, f, S)
  BY RecursionExists
<1>3. it = [s \in SUBSET S |->
                       IF s = {} THEN 0 ELSE f[CHOOSE x \in s : TRUE] + it[s \ {CHOOSE x \in s : TRUE}]]
  BY <1>2 DEF Adds, First
<1> HIDE DEF it
<1> QED
  BY <1>1, <1>3 DEF Adds, First
------------------------------------------------------------------------------
\* What the sum of a function over a finite set is.
LEMMA SumType ==
  ASSUME NEW S, IsFiniteSet(S), NEW f, \A x \in S : f[x] \in Int
  PROVE  SumFunctionOnSet(f, S) \in Int
BY SumIsRecursion, RecursionInt

LEMMA SumOfNothing ==
  ASSUME NEW f
  PROVE  SumFunctionOnSet(f, {}) = 0
BY SumIsRecursion, FS_EmptySet DEF Adds

LEMMA SumAgree ==
  ASSUME NEW S, IsFiniteSet(S), NEW e, NEW f, \A x \in S : e[x] = f[x]
  PROVE  SumFunctionOnSet(e, S) = SumFunctionOnSet(f, S)
BY SumIsRecursion, RecursionsAgree

LEMMA SumRemove ==
  ASSUME NEW S, IsFiniteSet(S), NEW f, \A x \in S : f[x] \in Int, NEW x \in S
  PROVE  SumFunctionOnSet(f, S) = f[x] + SumFunctionOnSet(f, S \ {x})
<1>1. PICK g : Adds(g, f, S) /\ SumFunctionOnSet(f, S) = g[S]
  BY SumIsRecursion
<1>2. IsFiniteSet(S \ {x})
  BY FS_RemoveElement
<1>3. PICK h : Adds(h, f, S \ {x}) /\ SumFunctionOnSet(f, S \ {x}) = h[S \ {x}]
  BY <1>2, SumIsRecursion
<1>4. g[S \ {x}] = h[S \ {x}]
  BY <1>1, <1>2, <1>3, RecursionsAgree
<1>5. g[S] = f[x] + g[S \ {x}]
  BY <1>1, AnyLast
<1> QED
  BY <1>1, <1>3, <1>4, <1>5

\* What is added to one of the values is added to the sum.
LEMMA SumRaise ==
  ASSUME NEW S, IsFiniteSet(S), NEW e, NEW f, \A x \in S : e[x] \in Int, NEW d \in Int,
         NEW x \in S, f[x] = e[x] + d, \A y \in S \ {x} : f[y] = e[y]
  PROVE  SumFunctionOnSet(f, S) = SumFunctionOnSet(e, S) + d
<1> DEFINE rest == SumFunctionOnSet(e, S \ {x})
<1>1. IsFiniteSet(S \ {x})
  BY FS_RemoveElement
<1>2. rest \in Int
  BY <1>1, SumType
<1>3. SumFunctionOnSet(f, S \ {x}) = rest
  BY <1>1, SumAgree
<1>4. SumFunctionOnSet(e, S) = e[x] + rest
  BY SumRemove
<1>5. \A y \in S : f[y] \in Int
  OBVIOUS
<1>6. SumFunctionOnSet(f, S) = f[x] + rest
  BY <1>3, <1>5, SumRemove
<1> HIDE DEF rest
<1> QED
  BY <1>2, <1>4, <1>6

\* Sums are in the order of the values they are made of.
LEMMA SumMonotone ==
  ASSUME NEW S, IsFiniteSet(S), NEW e, NEW f,
         \A x \in S : e[x] \in Int /\ f[x] \in Int /\ e[x] <= f[x]
  PROVE  SumFunctionOnSet(e, S) <= SumFunctionOnSet(f, S)
<1> DEFINE Bad == {s \in SUBSET S : ~ SumFunctionOnSet(e, s) <= SumFunctionOnSet(f, s)}
<1>1. SUFFICES ASSUME Bad # {} PROVE FALSE
  OBVIOUS
<1>2. PICK s \in Bad : \A y \in Bad : y \subseteq s => y = s
  <2>1. Bad \in SUBSET SUBSET S
    OBVIOUS
  <2> HIDE DEF Bad
  <2> QED
    BY <1>1, <2>1, SmallestSet
<1>3. s \in SUBSET S /\ ~ SumFunctionOnSet(e, s) <= SumFunctionOnSet(f, s)
  BY <1>2
<1>4. s # {}
  BY <1>3, SumOfNothing
<1>5. PICK x \in s : TRUE
  BY <1>4
<1>6. IsFiniteSet(s) /\ IsFiniteSet(s \ {x})
  BY <1>3, FS_Subset
<1>7. /\ SumFunctionOnSet(e, s) = e[x] + SumFunctionOnSet(e, s \ {x})
      /\ SumFunctionOnSet(f, s) = f[x] + SumFunctionOnSet(f, s \ {x})
  BY <1>3, <1>6, SumRemove
<1>8. SumFunctionOnSet(e, s \ {x}) \in Int /\ SumFunctionOnSet(f, s \ {x}) \in Int
  BY <1>3, <1>6, SumType
<1>9. SumFunctionOnSet(e, s \ {x}) <= SumFunctionOnSet(f, s \ {x})
  BY <1>2, <1>3, <1>5
<1>10. e[x] \in Int /\ f[x] \in Int /\ e[x] <= f[x]
  BY <1>3, <1>5
<1> QED
  BY <1>3, <1>7, <1>8, <1>9, <1>10
\* Nothings add up to nothing.
LEMMA SumOfZeroes ==
  ASSUME NEW S, IsFiniteSet(S), NEW f, \A x \in S : f[x] = 0
  PROVE  SumFunctionOnSet(f, S) = 0
<1> DEFINE Bad == {s \in SUBSET S : SumFunctionOnSet(f, s) # 0}
<1>1. SUFFICES ASSUME Bad # {} PROVE FALSE
  OBVIOUS
<1>2. PICK s \in Bad : \A y \in Bad : y \subseteq s => y = s
  <2>1. Bad \in SUBSET SUBSET S
    OBVIOUS
  <2> HIDE DEF Bad
  <2> QED
    BY <1>1, <2>1, SmallestSet
<1>3. s \in SUBSET S /\ SumFunctionOnSet(f, s) # 0
  BY <1>2
<1>4. PICK x \in s : TRUE
  BY <1>3, SumOfNothing
<1>5. SumFunctionOnSet(f, s \ {x}) = 0
  BY <1>2, <1>3, <1>4
<1>6. SumFunctionOnSet(f, s) = f[x] + SumFunctionOnSet(f, s \ {x})
  <2>1. IsFiniteSet(s) /\ \A y \in s : f[y] \in Int
    BY <1>3, FS_Subset
  <2> QED
    BY <2>1, SumRemove
<1>7. f[x] = 0
  BY <1>3, <1>4
<1> QED
  BY <1>3, <1>5, <1>6, <1>7
==============================================================================
