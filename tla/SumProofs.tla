----------------------------- MODULE SumProofs ------------------------------
(***************************************************************************)
(* What a sum over a finite set is: SumFunctionOnSet is defined by a       *)
(* recursion that takes out one chosen element after another.  The facts   *)
(* below say that the recursion has one solution, that the sum is a        *)
(* number, that it does not depend on which element is taken out first,    *)
(* and that it depends on nothing but the values summed.                   *)
(*                                                                         *)
(* Each is proved from a smallest counterexample, a subset that has the    *)
(* fact fail for it and for none of its own subsets (SmallestSubset).      *)
(***************************************************************************)
EXTENDS Functions, FiniteSets, FiniteSetTheorems, WellFoundedInduction, TLAPS

LEMMA SmallestSubset ==
    ASSUME NEW S, IsFiniteSet(S), NEW B \in SUBSET (SUBSET S), B # {}
    PROVE  \E T \in B : \A U \in B : U \subseteq T => U = T
<1>1. B \subseteq FiniteSubsetsOf(S)
  BY FS_Subset DEF FiniteSubsetsOf
<1>2. PICK T \in B : \A U \in B : ~(<<U, T>> \in StrictSubsetOrdering(S))
  BY <1>1, FS_StrictSubsetOrderingWellFounded, WFMin
<1>3. ASSUME NEW U \in B, U \subseteq T, U # T PROVE FALSE
  <2>1. <<U, T>> \in StrictSubsetOrdering(S)
    BY <1>3 DEF StrictSubsetOrdering
  <2> QED BY <1>2, <2>1
<1> QED BY <1>3

---------------------------------------------------------------------------
(* The recursion has exactly one solution.                                 *)

Chosen(s) == CHOOSE x \in s : TRUE

LEMMA ChosenIsIn == ASSUME NEW s, s # {} PROVE Chosen(s) \in s
  BY DEF Chosen

Others(s) == s \ {Chosen(s)}

IsSum(f, S, g) ==
    g = [s \in SUBSET S |-> IF s = {} THEN 0 ELSE f[Chosen(s)] + g[Others(s)]]

Solution(f, S) == CHOOSE g : IsSum(f, S, g)

LEMMA SumIsSolution ==
    ASSUME NEW f, NEW S
    PROVE  SumFunctionOnSet(f, S) = Solution(f, S)[S]
  BY DEF SumFunctionOnSet, FoldFunctionOnSet, MapThenFoldSet, Solution, IsSum, Chosen, Others

LEMMA SumAt ==
    ASSUME NEW f, NEW S, NEW g, IsSum(f, S, g), NEW s \in SUBSET S
    PROVE  g[s] = IF s = {} THEN 0 ELSE f[Chosen(s)] + g[Others(s)]
  BY DEF IsSum

LEMMA SumIsUnique ==
    ASSUME NEW f, NEW S, IsFiniteSet(S), NEW R \in SUBSET S,
           NEW g, NEW h, IsSum(f, S, g), IsSum(f, R, h), NEW s \in SUBSET R
    PROVE  g[s] = h[s]
<1> DEFINE B == {t \in SUBSET R : g[t] # h[t]}
<1> SUFFICES ASSUME B # {} PROVE FALSE
  OBVIOUS
<1>1. PICK T \in B : \A U \in B : U \subseteq T => U = T
  <2>1. IsFiniteSet(R) /\ B \in SUBSET (SUBSET R)
    BY FS_Subset
  <2> HIDE DEF B
  <2> QED BY <2>1, SmallestSubset
<1>2. T \in SUBSET R /\ T \in SUBSET S /\ T # {}
  BY SumAt
<1>3. Others(T) \subseteq T /\ Others(T) # T
  BY <1>2, ChosenIsIn DEF Others
<1>4. g[Others(T)] = h[Others(T)]
  BY <1>1, <1>2, <1>3
<1>5. g[T] = f[Chosen(T)] + g[Others(T)] /\ h[T] = f[Chosen(T)] + h[Others(T)]
  BY <1>2, SumAt
<1> QED BY <1>1, <1>4, <1>5

LEMMA SumExists ==
    ASSUME NEW f, NEW S, IsFiniteSet(S)
    PROVE  \E g : IsSum(f, S, g)
<1> DEFINE B == {T \in SUBSET S : ~\E g : IsSum(f, T, g)}
<1> SUFFICES ASSUME B # {} PROVE FALSE
  OBVIOUS
<1>1. PICK T \in B : \A U \in B : U \subseteq T => U = T
  <2>1. B \in SUBSET (SUBSET S)
    OBVIOUS
  <2> HIDE DEF B
  <2> QED BY <2>1, SmallestSubset
<1>2. T \in SUBSET S /\ IsFiniteSet(T) /\ ~\E g : IsSum(f, T, g)
  BY FS_Subset
<1>3. ASSUME NEW U \in SUBSET T, U # T PROVE IsSum(f, U, Solution(f, U))
  <2>1. \E g : IsSum(f, U, g)
    BY <1>1, <1>2, <1>3
  <2> QED BY <2>1 DEF Solution
<1> DEFINE v(s) == IF s = {} THEN 0 ELSE f[Chosen(s)] + Solution(f, Others(s))[Others(s)]
           h == [s \in SUBSET T |-> v(s)]
<1>4. ASSUME NEW s \in SUBSET T, s # {} PROVE h[Others(s)] = Solution(f, Others(s))[Others(s)]
  <2> DEFINE r == Others(s)
  <2>1. r \in SUBSET T /\ r # T /\ IsFiniteSet(r)
    BY <1>2, <1>4, ChosenIsIn, FS_Subset DEF Others
  <2>2. h[r] = v(r)
    BY <2>1
  <2>3. IsSum(f, r, Solution(f, r))
    BY <1>3, <2>1
  <2>4. CASE r = {}
    <3>1. Solution(f, r)[r] = 0
      BY <2>3, <2>4, SumAt
    <3> QED BY <2>2, <2>4, <3>1
  <2>5. CASE r # {}
    <3> DEFINE q == Others(r)
    <3>1. q \in SUBSET r /\ q \in SUBSET T /\ q # T
      BY <2>1, <2>5, ChosenIsIn DEF Others
    <3>2. IsSum(f, q, Solution(f, q))
      BY <1>3, <3>1
    <3>3. Solution(f, r)[r] = f[Chosen(r)] + Solution(f, r)[q]
      BY <2>3, <2>5, SumAt
    <3>4. Solution(f, r)[q] = Solution(f, q)[q]
      BY <2>1, <2>3, <3>1, <3>2, SumIsUnique
    <3> QED BY <2>2, <2>5, <3>3, <3>4
  <2> QED BY <2>4, <2>5
<1>5. IsSum(f, T, h)
  <2>1. \A s \in SUBSET T : v(s) = IF s = {} THEN 0 ELSE f[Chosen(s)] + h[Others(s)]
    BY <1>4
  <2> QED BY <2>1 DEF IsSum
<1> QED BY <1>2, <1>5

---------------------------------------------------------------------------
(* What proofs about sums cite.                                            *)

LEMMA SumOfNone == ASSUME NEW f PROVE SumFunctionOnSet(f, {}) = 0
<1>1. IsSum(f, {}, Solution(f, {}))
  BY SumExists, FS_EmptySet DEF Solution
<1> QED BY <1>1, SumAt, SumIsSolution

LEMMA SumRecursion ==
    ASSUME NEW f, NEW S, IsFiniteSet(S), S # {}
    PROVE  SumFunctionOnSet(f, S) = f[Chosen(S)] + SumFunctionOnSet(f, Others(S))
<1> DEFINE R == Others(S)
<1>1. R \in SUBSET S /\ IsFiniteSet(R)
  BY FS_Subset DEF Others
<1> HIDE DEF R
<1>2. IsSum(f, S, Solution(f, S)) /\ IsSum(f, R, Solution(f, R))
  BY <1>1, SumExists DEF Solution
<1>3. Solution(f, S)[R] = Solution(f, R)[R]
  BY <1>1, <1>2, SumIsUnique
<1>4. Solution(f, S)[S] = f[Chosen(S)] + Solution(f, S)[R]
  BY <1>2, SumAt DEF R
<1> QED BY <1>3, <1>4, SumIsSolution DEF R

\* A sum of integers is an integer.
LEMMA SumType ==
    ASSUME NEW f, NEW S, IsFiniteSet(S), \A x \in S : f[x] \in Int
    PROVE  SumFunctionOnSet(f, S) \in Int
<1> DEFINE B == {T \in SUBSET S : SumFunctionOnSet(f, T) \notin Int}
<1> SUFFICES ASSUME B # {} PROVE FALSE
  OBVIOUS
<1>1. PICK T \in B : \A U \in B : U \subseteq T => U = T
  <2>1. B \in SUBSET (SUBSET S)
    OBVIOUS
  <2> HIDE DEF B
  <2> QED BY <2>1, SmallestSubset
<1>2. T \in SUBSET S /\ IsFiniteSet(T) /\ T # {}
  <2>1. T \in SUBSET S /\ IsFiniteSet(T)
    BY FS_Subset
  <2>2. SumFunctionOnSet(f, {}) \in Int
    BY SumOfNone
  <2> QED BY <2>1, <2>2
<1>3. Chosen(T) \in T /\ Others(T) \in SUBSET T /\ Others(T) # T
  BY <1>2, ChosenIsIn DEF Others
<1>4. SumFunctionOnSet(f, Others(T)) \in Int
  BY <1>1, <1>2, <1>3
<1>5. SumFunctionOnSet(f, T) \in Int
  BY <1>2, <1>3, <1>4, SumRecursion
<1> QED BY <1>1, <1>5

\* It depends on the values summed only.
LEMMA SumSame ==
    ASSUME NEW f, NEW g, NEW S, IsFiniteSet(S), \A x \in S : f[x] = g[x]
    PROVE  SumFunctionOnSet(f, S) = SumFunctionOnSet(g, S)
<1> DEFINE B == {T \in SUBSET S : SumFunctionOnSet(f, T) # SumFunctionOnSet(g, T)}
<1> SUFFICES ASSUME B # {} PROVE FALSE
  OBVIOUS
<1>1. PICK T \in B : \A U \in B : U \subseteq T => U = T
  <2>1. B \in SUBSET (SUBSET S)
    OBVIOUS
  <2> HIDE DEF B
  <2> QED BY <2>1, SmallestSubset
<1>2. T \in SUBSET S /\ IsFiniteSet(T) /\ T # {}
  BY SumOfNone, FS_Subset
<1>3. Chosen(T) \in T /\ Others(T) \in SUBSET T /\ Others(T) # T
  BY <1>2, ChosenIsIn DEF Others
<1>4. SumFunctionOnSet(f, Others(T)) = SumFunctionOnSet(g, Others(T))
  BY <1>1, <1>2, <1>3
<1>5. SumFunctionOnSet(f, T) = SumFunctionOnSet(g, T)
  BY <1>2, <1>3, <1>4, SumRecursion
<1> QED BY <1>1, <1>5

\* Any element may be taken out first.
LEMMA SumTakesOut ==
    ASSUME NEW f, NEW S, IsFiniteSet(S), \A x \in S : f[x] \in Int, NEW e \in S
    PROVE  SumFunctionOnSet(f, S) = f[e] + SumFunctionOnSet(f, S \ {e})
<1> DEFINE Out(T, x) == SumFunctionOnSet(f, T) = f[x] + SumFunctionOnSet(f, T \ {x})
           B == {T \in SUBSET S : \E x \in T : ~Out(T, x)}
<1> SUFFICES ASSUME B # {} PROVE FALSE
  OBVIOUS
<1>1. PICK T \in B : \A U \in B : U \subseteq T => U = T
  <2>1. B \in SUBSET (SUBSET S)
    OBVIOUS
  <2> HIDE DEF B
  <2> QED BY <2>1, SmallestSubset
<1>2. PICK x \in T : ~Out(T, x)
  BY <1>1
<1>3. T \in SUBSET S /\ IsFiniteSet(T)
  BY FS_Subset
<1> DEFINE c == Chosen(T)
<1>4. c \in T /\ SumFunctionOnSet(f, T) = f[c] + SumFunctionOnSet(f, T \ {c})
  BY <1>3, ChosenIsIn, SumRecursion DEF Others
<1> HIDE DEF c
<1>5. x # c
  BY <1>2, <1>4
<1>6. T \ {c} \in SUBSET S /\ x \in T \ {c} /\ T \ {c} # T /\ T \ {c} \subseteq T
  BY <1>3, <1>4, <1>5
<1>7. T \ {x} \in SUBSET S /\ c \in T \ {x} /\ T \ {x} # T /\ T \ {x} \subseteq T
  BY <1>3, <1>4, <1>5
<1>8. Out(T \ {c}, x)
  BY <1>1, <1>6
<1>9. Out(T \ {x}, c)
  BY <1>1, <1>7
<1>10. (T \ {c}) \ {x} = (T \ {x}) \ {c} /\ IsFiniteSet((T \ {c}) \ {x}) /\ (T \ {c}) \ {x} \subseteq S
  BY <1>3, FS_Subset
<1>11. /\ f[c] \in Int /\ f[x] \in Int
       /\ SumFunctionOnSet(f, (T \ {c}) \ {x}) \in Int
  BY <1>3, <1>4, <1>10, SumType
<1>12. /\ SumFunctionOnSet(f, T \ {c}) = f[x] + SumFunctionOnSet(f, (T \ {c}) \ {x})
       /\ SumFunctionOnSet(f, T \ {x}) = f[c] + SumFunctionOnSet(f, (T \ {c}) \ {x})
  BY <1>8, <1>9, <1>10
<1> DEFINE w == SumFunctionOnSet(f, (T \ {c}) \ {x})
           a == SumFunctionOnSet(f, T \ {c})
           b == SumFunctionOnSet(f, T \ {x})
<1>13. SumFunctionOnSet(f, T) = f[c] + a /\ a = f[x] + w /\ b = f[c] + w /\ w \in Int
  BY <1>4, <1>11, <1>12
<1> HIDE DEF w, a, b
<1>14. SumFunctionOnSet(f, T) = f[x] + b
  BY <1>11, <1>13
<1>15. SumFunctionOnSet(f, T) = f[x] + SumFunctionOnSet(f, T \ {x})
  BY <1>14 DEF b
<1> QED BY <1>2, <1>15

\* An element more adds its value.
LEMMA SumPutsIn ==
    ASSUME NEW f, NEW S, IsFiniteSet(S), NEW e, e \notin S, \A x \in S \cup {e} : f[x] \in Int
    PROVE  SumFunctionOnSet(f, S \cup {e}) = SumFunctionOnSet(f, S) + f[e]
<1>1. IsFiniteSet(S \cup {e}) /\ (S \cup {e}) \ {e} = S /\ f[e] \in Int
  BY FS_AddElement
<1>2. SumFunctionOnSet(f, S) \in Int
  BY SumType
<1> DEFINE S1 == S \cup {e}
<1>3. SumFunctionOnSet(f, S1) = f[e] + SumFunctionOnSet(f, S1 \ {e})
  <2>1. IsFiniteSet(S1) /\ e \in S1 /\ \A x \in S1 : f[x] \in Int
    BY <1>1
  <2> HIDE DEF S1
  <2> QED BY <2>1, SumTakesOut
<1>4. SumFunctionOnSet(f, S1) = f[e] + SumFunctionOnSet(f, S)
  BY <1>1, <1>3
<1> HIDE DEF S1
<1>5. SumFunctionOnSet(f, S1) = SumFunctionOnSet(f, S) + f[e]
  BY <1>1, <1>2, <1>4
<1> QED BY <1>5 DEF S1
\* The two parts of a set have the set's sum.
LEMMA SumSplits ==
    ASSUME NEW f, NEW S, NEW R, IsFiniteSet(S), IsFiniteSet(R), S \cap R = {},
           \A x \in S \cup R : f[x] \in Int
    PROVE  SumFunctionOnSet(f, S \cup R) = SumFunctionOnSet(f, S) + SumFunctionOnSet(f, R)
<1> DEFINE Splits(T) == SumFunctionOnSet(f, S \cup T) = SumFunctionOnSet(f, S) + SumFunctionOnSet(f, T)
           B == {T \in SUBSET R : ~Splits(T)}
<1> SUFFICES ASSUME B # {} PROVE FALSE
  OBVIOUS
<1>1. PICK T \in B : \A U \in B : U \subseteq T => U = T
  <2>1. B \in SUBSET (SUBSET R)
    OBVIOUS
  <2> HIDE DEF B
  <2> QED BY <2>1, SmallestSubset
<1>2. T \in SUBSET R /\ IsFiniteSet(T) /\ ~Splits(T)
  BY <1>1, FS_Subset
<1>3. SumFunctionOnSet(f, S) \in Int
  BY SumType
<1>4. T # {}
  <2> SUFFICES ASSUME T = {} PROVE FALSE
    OBVIOUS
  <2>1. S \cup T = S /\ SumFunctionOnSet(f, T) = 0
    BY SumOfNone
  <2> HIDE DEF B
  <2>2. Splits(T)
    BY <1>3, <2>1
  <2> QED BY <1>2, <2>2
<1>5. PICK e \in T : TRUE
  BY <1>4
<1> DEFINE U == T \ {e}
<1>6. /\ U \in SUBSET R /\ U \subseteq T /\ U # T /\ IsFiniteSet(U) /\ e \notin U /\ U \cup {e} = T
      /\ e \notin S \cup U /\ (S \cup U) \cup {e} = S \cup T /\ IsFiniteSet(S \cup U)
      /\ \A x \in U \cup {e} : f[x] \in Int
      /\ \A x \in (S \cup U) \cup {e} : f[x] \in Int
  <2> HIDE DEF B
  <2>1. /\ U \in SUBSET R /\ U \subseteq T /\ U # T /\ e \notin U /\ U \cup {e} = T
        /\ e \notin S \cup U /\ (S \cup U) \cup {e} = S \cup T
    BY <1>2, <1>5
  <2>2. IsFiniteSet(U)
    BY <1>2, <2>1, FS_Subset
  <2>3. IsFiniteSet(S \cup U)
    BY <2>2, FS_Union
  <2>4. /\ \A x \in U \cup {e} : f[x] \in Int
        /\ \A x \in (S \cup U) \cup {e} : f[x] \in Int
    BY <1>2, <2>1
  <2> HIDE DEF U
  <2> QED BY <2>1, <2>2, <2>3, <2>4
<1>7. Splits(U)
  BY <1>1, <1>6
<1> HIDE DEF U
<1>8. SumFunctionOnSet(f, U \cup {e}) = SumFunctionOnSet(f, U) + f[e]
  BY <1>6, SumPutsIn
<1>9. SumFunctionOnSet(f, (S \cup U) \cup {e}) = SumFunctionOnSet(f, S \cup U) + f[e]
  <2> DEFINE W == S \cup U
  <2>1. IsFiniteSet(W) /\ e \notin W /\ \A x \in W \cup {e} : f[x] \in Int
    BY <1>6
  <2> HIDE DEF W
  <2>2. SumFunctionOnSet(f, W \cup {e}) = SumFunctionOnSet(f, W) + f[e]
    BY <2>1, SumPutsIn
  <2> QED BY <2>2 DEF W
<1>10. SumFunctionOnSet(f, U) \in Int /\ f[e] \in Int
  BY <1>6, SumType
<1> DEFINE a == SumFunctionOnSet(f, S)
           u == SumFunctionOnSet(f, U)
           t == SumFunctionOnSet(f, T)
           v == SumFunctionOnSet(f, S \cup T)
<1>11. v = (a + u) + f[e] /\ t = u + f[e] /\ a \in Int /\ u \in Int
  BY <1>3, <1>6, <1>7, <1>8, <1>9, <1>10
<1> HIDE DEF a, u, t, v
<1>12. v = a + t
  BY <1>10, <1>11
<1> QED BY <1>2, <1>12 DEF a, t, v

---------------------------------------------------------------------------
(* The same of the sum of all values of a function.                        *)

LEMMA TotalOfNone == ASSUME NEW f, DOMAIN f = {} PROVE SumFunction(f) = 0
  BY SumOfNone DEF SumFunction

LEMMA TotalType ==
    ASSUME NEW f, IsFiniteSet(DOMAIN f), \A x \in DOMAIN f : f[x] \in Int
    PROVE  SumFunction(f) \in Int
  BY SumType DEF SumFunction

LEMMA TotalSame ==
    ASSUME NEW f, NEW g, IsFiniteSet(DOMAIN f), DOMAIN f = DOMAIN g, \A x \in DOMAIN f : f[x] = g[x]
    PROVE  SumFunction(f) = SumFunction(g)
  BY SumSame DEF SumFunction

\* One value more.
LEMMA TotalGrows ==
    ASSUME NEW f, NEW g, NEW e, IsFiniteSet(DOMAIN g), e \notin DOMAIN g,
           DOMAIN f = DOMAIN g \cup {e}, \A x \in DOMAIN g : f[x] = g[x],
           \A x \in DOMAIN f : f[x] \in Int
    PROVE  SumFunction(f) = SumFunction(g) + f[e]
<1> DEFINE D == DOMAIN g
<1>1. IsFiniteSet(D) /\ e \notin D /\ \A x \in D \cup {e} : f[x] \in Int
  OBVIOUS
<1>2. SumFunctionOnSet(f, D) = SumFunctionOnSet(g, D)
  BY SumSame
<1>3. DOMAIN f = D \cup {e} /\ SumFunction(g) = SumFunctionOnSet(g, D)
  BY DEF SumFunction
<1> HIDE DEF D
<1>4. SumFunctionOnSet(f, D \cup {e}) = SumFunctionOnSet(f, D) + f[e]
  BY <1>1, SumPutsIn
<1> QED BY <1>2, <1>3, <1>4 DEF SumFunction

\* A function's total is that of its two halves.
LEMMA TotalSplits ==
    ASSUME NEW f, NEW g, NEW h, IsFiniteSet(DOMAIN g), IsFiniteSet(DOMAIN h),
           DOMAIN g \cap DOMAIN h = {}, DOMAIN f = DOMAIN g \cup DOMAIN h,
           \A x \in DOMAIN g : f[x] = g[x], \A x \in DOMAIN h : f[x] = h[x],
           \A x \in DOMAIN f : f[x] \in Int
    PROVE  SumFunction(f) = SumFunction(g) + SumFunction(h)
<1> DEFINE S == DOMAIN g
           R == DOMAIN h
<1>1. IsFiniteSet(S) /\ IsFiniteSet(R) /\ S \cap R = {} /\ \A x \in S \cup R : f[x] \in Int
  OBVIOUS
<1>2. SumFunctionOnSet(f, S) = SumFunctionOnSet(g, S)
  BY SumSame
<1>3. SumFunctionOnSet(f, R) = SumFunctionOnSet(h, R)
  BY SumSame
<1>4. /\ DOMAIN f = S \cup R /\ SumFunction(g) = SumFunctionOnSet(g, S)
      /\ SumFunction(h) = SumFunctionOnSet(h, R)
  BY DEF SumFunction
<1> HIDE DEF S, R
<1>5. SumFunctionOnSet(f, S \cup R) = SumFunctionOnSet(f, S) + SumFunctionOnSet(f, R)
  BY <1>1, SumSplits
<1> QED BY <1>2, <1>3, <1>4, <1>5 DEF SumFunction

\* A sum of numbers that are not negative is none itself, and no smaller than
\* any of them.
LEMMA TotalBounds ==
    ASSUME NEW f, IsFiniteSet(DOMAIN f), \A x \in DOMAIN f : f[x] \in Nat
    PROVE  SumFunction(f) \in Nat /\ \A x \in DOMAIN f : f[x] <= SumFunction(f)
<1> DEFINE S == DOMAIN f
           B == {T \in SUBSET S : ~(SumFunctionOnSet(f, T) \in Nat)}
<1>1. \A T \in SUBSET S : SumFunctionOnSet(f, T) \in Nat
  <2> SUFFICES ASSUME B # {} PROVE FALSE
    OBVIOUS
  <2>1. PICK T \in B : \A U \in B : U \subseteq T => U = T
    <3>1. B \in SUBSET (SUBSET S) /\ IsFiniteSet(S)
      OBVIOUS
    <3> HIDE DEF B
    <3> QED BY <3>1, SmallestSubset
  <2>2. T \in SUBSET S /\ IsFiniteSet(T) /\ T # {}
    <3>1. SumFunctionOnSet(f, {}) \in Nat
      BY SumOfNone
    <3> QED BY <2>1, <3>1, FS_Subset
  <2>3. Chosen(T) \in T /\ Others(T) \in SUBSET T /\ Others(T) # T
    BY <2>2, ChosenIsIn DEF Others
  <2>4. SumFunctionOnSet(f, Others(T)) \in Nat /\ f[Chosen(T)] \in Nat
    BY <2>1, <2>2, <2>3
  <2> QED BY <2>1, <2>2, <2>4, SumRecursion
<1>2. ASSUME NEW x \in S PROVE f[x] <= SumFunctionOnSet(f, S)
  <2> DEFINE R == S \ {x}
  <2>1. SumFunctionOnSet(f, S) = f[x] + SumFunctionOnSet(f, R)
    BY SumTakesOut
  <2>2. SumFunctionOnSet(f, R) \in Nat /\ f[x] \in Nat
    BY <1>1
  <2> HIDE DEF R
  <2> QED BY <2>1, <2>2
<1> QED BY <1>1, <1>2 DEF SumFunction

\* The total of the values' opposites.
LEMMA TotalNegates ==
    ASSUME NEW f, NEW g, IsFiniteSet(DOMAIN f), DOMAIN g = DOMAIN f,
           \A x \in DOMAIN f : f[x] \in Int /\ g[x] = -f[x]
    PROVE  SumFunction(g) = -SumFunction(f)
<1> DEFINE S == DOMAIN f
           B == {T \in SUBSET S : SumFunctionOnSet(g, T) # -SumFunctionOnSet(f, T)}
<1> SUFFICES ASSUME B # {} PROVE FALSE
  BY DEF SumFunction
<1>1. PICK T \in B : \A U \in B : U \subseteq T => U = T
  <2>1. B \in SUBSET (SUBSET S) /\ IsFiniteSet(S)
    OBVIOUS
  <2> HIDE DEF B
  <2> QED BY <2>1, SmallestSubset
<1>2. T \in SUBSET S /\ IsFiniteSet(T) /\ T # {}
  <2>1. SumFunctionOnSet(g, {}) = 0 /\ SumFunctionOnSet(f, {}) = 0
    BY SumOfNone
  <2>2. SumFunctionOnSet(g, {}) = -SumFunctionOnSet(f, {})
    BY <2>1
  <2>3. T \in SUBSET S /\ SumFunctionOnSet(g, T) # -SumFunctionOnSet(f, T)
    BY <1>1
  <2>4. T # {}
    BY <2>2, <2>3
  <2> QED BY <2>3, <2>4, FS_Subset
<1> DEFINE x == Chosen(T)
           U == Others(T)
<1>3. x \in T /\ U \in SUBSET T /\ U # T
  BY <1>2, ChosenIsIn DEF Others
<1>4. SumFunctionOnSet(g, U) = -SumFunctionOnSet(f, U)
  BY <1>1, <1>2, <1>3
<1>5. SumFunctionOnSet(f, T) = f[x] + SumFunctionOnSet(f, U)
  BY <1>2, SumRecursion
<1>6. SumFunctionOnSet(g, T) = g[x] + SumFunctionOnSet(g, U)
  BY <1>2, SumRecursion
<1>7. f[x] \in Int /\ g[x] = -f[x]
  BY <1>2, <1>3
<1>8. SumFunctionOnSet(f, U) \in Int
  <2>1. IsFiniteSet(U) /\ \A y \in U : f[y] \in Int
    BY <1>2, <1>3, FS_Subset
  <2> QED BY <2>1, SumType
<1> HIDE DEF x, U
<1>9. SumFunctionOnSet(g, T) = -SumFunctionOnSet(f, T)
  BY <1>4, <1>5, <1>6, <1>7, <1>8
<1> QED BY <1>1, <1>9
=============================================================================
