---------------------------- MODULE SumTheorems -----------------------------
(***************************************************************************)
(* What SumFunctionOnSet of the community modules adds up, for any finite  *)
(* set: nothing of it is built into the provers.  Each fact that needs     *)
(* induction over the set is proved from a smallest counterexample.        *)
(***************************************************************************)
EXTENDS Functions, Integers, FiniteSetTheorems, WellFoundedInduction, TLAPS

\* The element that the sum takes out of a set first.
Chosen(s) == CHOOSE x \in s : TRUE

\* One step of the recursion, with iter for the sums of smaller sets.
SumStep(f, iter, s) == IF s = {} THEN 0 ELSE f[Chosen(s)] + iter[s \ {Chosen(s)}]

\* iter is a table of the sums of f over all subsets of S.
IsSum(f, S, iter) == iter = [s \in SUBSET S |-> SumStep(f, iter, s)]

\* Every nonempty collection of subsets of a finite set has a minimal one.
LEMMA SubsetMinimal ==
    ASSUME NEW S, IsFiniteSet(S), NEW B \in SUBSET SUBSET S, B # {}
    PROVE  \E T \in B : \A U \in B : U \subseteq T => U = T
<1>1. IsWellFoundedOn(StrictSubsetOrdering(S), SUBSET S)
  BY FS_StrictSubsetOrderingWellFounded, FS_FiniteSubsetsOfFinite
<1>2. PICK T \in B : \A U \in B : ~(<<U, T>> \in StrictSubsetOrdering(S))
  <2> HIDE DEF StrictSubsetOrdering
  <2> QED BY <1>1, WFMin
<1>3. ASSUME NEW U \in B, U \subseteq T, U # T
      PROVE  <<U, T>> \in StrictSubsetOrdering(S)
  BY <1>3 DEF StrictSubsetOrdering
<1>4. \A U \in B : U \subseteq T => U = T
  BY <1>2, <1>3, Zenon
<1> QED BY <1>4, Zenon

\* SumFunctionOnSet looks its argument up in such a table.
LEMMA SumUnfold ==
    ASSUME NEW f, NEW S
    PROVE  SumFunctionOnSet(f, S) = (CHOOSE iter : IsSum(f, S, iter))[S]
BY Zenon DEF SumFunctionOnSet, FoldFunctionOnSet, MapThenFoldSet, IsSum, SumStep,
   Chosen

\* A nonempty set contains the element chosen from it.
LEMMA ChosenIn == ASSUME NEW s, s # {} PROVE Chosen(s) \in s
BY DEF Chosen

\* There is at most one table of sums.
LEMMA SumUnique ==
    ASSUME NEW f, NEW S, IsFiniteSet(S), NEW g, NEW h, IsSum(f, S, g), IsSum(f, S, h)
    PROVE  g = h
<1> DEFINE B == {s \in SUBSET S : g[s] # h[s]}
<1>1. /\ g = [s \in SUBSET S |-> SumStep(f, g, s)]
      /\ h = [s \in SUBSET S |-> SumStep(f, h, s)]
  BY DEF IsSum
<1>2. CASE B = {}
  <2>1. \A s \in SUBSET S : g[s] = h[s]
    BY <1>2
  <2>2. DOMAIN g = SUBSET S /\ DOMAIN h = SUBSET S
    BY <1>1
  <2>3. g = [s \in SUBSET S |-> g[s]] /\ h = [s \in SUBSET S |-> h[s]]
    BY <1>1, Zenon
  <2> QED BY <2>1, <2>3, Zenon
<1>3. CASE B # {}
  <2>1. PICK T \in B : \A U \in B : U \subseteq T => U = T
    <3>1. B \in SUBSET SUBSET S
      OBVIOUS
    <3> HIDE DEF B
    <3> QED BY <1>3, <3>1, SubsetMinimal
  <2>2. g[T] = SumStep(f, g, T) /\ h[T] = SumStep(f, h, T)
    BY <1>1, Zenon
  <2>3. T # {}
    BY <2>2 DEF SumStep
  <2>4. Chosen(T) \in T
    BY <2>3, ChosenIn
  <2>5. T \ {Chosen(T)} \notin B
    BY <2>1, <2>4
  <2>6. g[T \ {Chosen(T)}] = h[T \ {Chosen(T)}]
    BY <2>5
  <2> QED BY <2>2, <2>3, <2>6, Zenon DEF SumStep
<1> QED BY <1>2, <1>3

\* The restriction of a table of sums to the subsets of a smaller set.
LEMMA SumRestrict ==
    ASSUME NEW f, NEW S, NEW g, IsSum(f, S, g), NEW T \in SUBSET S
    PROVE  IsSum(f, T, [s \in SUBSET T |-> g[s]])
<1> DEFINE h == [s \in SUBSET T |-> g[s]]
<1>1. ASSUME NEW s \in SUBSET T PROVE g[s] = SumStep(f, h, s)
  <2>1. s \in SUBSET S
    OBVIOUS
  <2>2. g[s] = SumStep(f, g, s)
    BY <2>1, Zenon DEF IsSum
  <2>3. h[s \ {Chosen(s)}] = g[s \ {Chosen(s)}]
    OBVIOUS
  <2> QED BY <2>2, <2>3, Zenon DEF SumStep
<1>2. h = [s \in SUBSET T |-> SumStep(f, h, s)]
  BY <1>1, Zenon
<1> QED BY <1>2 DEF IsSum

\* There is a table of sums.
LEMMA SumExists ==
    ASSUME NEW f, NEW S, IsFiniteSet(S)
    PROVE  \E iter : IsSum(f, S, iter)
<1> DEFINE B == {s \in SUBSET S : ~ \E iter : IsSum(f, s, iter)}
<1>1. CASE B = {}
  BY <1>1, S \in SUBSET S
<1>2. CASE B # {}
  <2>1. PICK T \in B : \A U \in B : U \subseteq T => U = T
    <3>1. B \in SUBSET SUBSET S
      OBVIOUS
    <3> HIDE DEF B
    <3> QED BY <1>2, <3>1, SubsetMinimal
  <2> DEFINE table(t) == CHOOSE iter : IsSum(f, t, iter)
             c == Chosen(T)
             h == [t \in SUBSET T |-> IF t # T THEN table(t)[t]
                                      ELSE IF T = {} THEN 0
                                      ELSE f[c] + table(T \ {c})[T \ {c}]]
  <2>2. ASSUME NEW t \in SUBSET T, t # T PROVE IsSum(f, t, table(t))
    <3>1. t \notin B /\ t \in SUBSET S
      BY <2>1, <2>2
    <3>2. \E iter : IsSum(f, t, iter)
      BY <3>1
    <3> QED BY <3>2, Zenon
  <2> HIDE DEF table
  <2>3. ASSUME NEW t \in SUBSET T, t # T, NEW u \in SUBSET t
        PROVE  table(t)[u] = table(u)[u]
    <3>1. IsSum(f, u, [s \in SUBSET u |-> table(t)[s]])
      BY <2>2, <2>3, SumRestrict, Zenon
    <3>2. u \in SUBSET T /\ u # T /\ u \in SUBSET S
      BY <2>3
    <3>3. IsSum(f, u, table(u))
      BY <3>2, <2>2
    <3>4. IsFiniteSet(u)
      BY <3>2, FS_Subset
    <3>5. [s \in SUBSET u |-> table(t)[s]] = table(u)
      BY <3>1, <3>3, <3>4, SumUnique, Zenon
    <3>6. [s \in SUBSET u |-> table(t)[s]][u] = table(t)[u]
      OBVIOUS
    <3> QED BY <3>5, <3>6
  <2>4. ASSUME NEW t \in SUBSET T PROVE h[t] = SumStep(f, h, t)
    <3> DEFINE d == Chosen(t)
               u == t \ {d}
    <3>1. CASE t = {}
      <4>1. T = {} \/ IsSum(f, {}, table({}))
        BY <2>2, <3>1
      <4>2. T # {} => table({})[{}] = SumStep(f, table({}), {})
        BY <4>1, {} \in SUBSET {}, Zenon DEF IsSum
      <4>3. T # {} => table({})[{}] = 0
        BY <4>2, Zenon DEF SumStep
      <4> QED BY <3>1, <4>3, Zenon DEF SumStep
    <3>2. CASE t # {}
      <4>1. d \in t /\ u \in SUBSET T /\ u # T /\ u \in SUBSET t /\ u # t
        BY <3>2, ChosenIn
      <4> HIDE DEF d, u
      <4>2. h[u] = table(u)[u]
        BY <4>1
      <4>3. h[t] = f[d] + table(u)[u]
        <5>1. CASE t = T
          BY <5>1, <3>2 DEF d, u
        <5>2. CASE t # T
          <6>1. table(t)[t] = SumStep(f, table(t), t)
            BY <2>2, <5>2, Zenon DEF IsSum
          <6>2. table(t)[t] = f[d] + table(t)[u]
            BY <6>1, <3>2, Zenon DEF SumStep, d, u
          <6>3. table(t)[u] = table(u)[u]
            BY <2>3, <5>2, <4>1
          <6>4. h[t] = table(t)[t]
            BY <5>2
          <6> QED BY <6>2, <6>3, <6>4
        <5> QED BY <5>1, <5>2
      <4>4. SumStep(f, h, t) = f[d] + h[u]
        BY <3>2, Zenon DEF SumStep, d, u
      <4> QED BY <4>2, <4>3, <4>4
    <3> QED BY <3>1, <3>2
  <2>5. IsSum(f, T, h)
    <3>1. h = [t \in SUBSET T |-> h[t]]
      OBVIOUS
    <3> HIDE DEF h
    <3> QED BY <2>4, <3>1, Zenon DEF IsSum
  <2> HIDE DEF h
  <2> QED BY <2>5, <2>1
<1> QED BY <1>1, <1>2

-----------------------------------------------------------------------------
\* The table that CHOOSE picks is one.
LEMMA SumTable ==
    ASSUME NEW f, NEW S, IsFiniteSet(S)
    PROVE  IsSum(f, S, CHOOSE iter : IsSum(f, S, iter))
BY SumExists, Zenon

\* The sum over no element is zero.
LEMMA SumEmpty ==
    ASSUME NEW f
    PROVE  SumFunctionOnSet(f, {}) = 0
<1> DEFINE g == CHOOSE iter : IsSum(f, {}, iter)
<1>1. IsSum(f, {}, g)
  BY FS_EmptySet, SumTable
<1>2. SumFunctionOnSet(f, {}) = g[{}]
  BY SumUnfold
<1> HIDE DEF g
<1>3. g[{}] = SumStep(f, g, {})
  BY <1>1, {} \in SUBSET {}, Zenon DEF IsSum
<1> QED BY <1>2, <1>3, Zenon DEF SumStep

\* The sum over a nonempty set is that of the chosen element and the rest.
LEMMA SumChosen ==
    ASSUME NEW f, NEW S, IsFiniteSet(S), S # {}
    PROVE  SumFunctionOnSet(f, S) =
             f[Chosen(S)] + SumFunctionOnSet(f, S \ {Chosen(S)})
<1> DEFINE table(t) == CHOOSE iter : IsSum(f, t, iter)
           u == S \ {Chosen(S)}
<1>1. u \in SUBSET S /\ IsFiniteSet(u)
  BY FS_Subset
<1>2. IsSum(f, S, table(S)) /\ IsSum(f, u, table(u))
  BY <1>1, SumTable
<1>3. /\ SumFunctionOnSet(f, S) = table(S)[S]
      /\ SumFunctionOnSet(f, u) = table(u)[u]
  BY SumUnfold
<1> HIDE DEF table, u
<1>4. IsSum(f, u, [s \in SUBSET u |-> table(S)[s]])
  BY <1>1, <1>2, SumRestrict, Zenon
<1>5. [s \in SUBSET u |-> table(S)[s]] = table(u)
  BY <1>1, <1>2, <1>4, SumUnique, Zenon
<1>6. [s \in SUBSET u |-> table(S)[s]][u] = table(S)[u]
  OBVIOUS
<1>7. table(S)[S] = SumStep(f, table(S), S)
  BY <1>2, S \in SUBSET S, Zenon DEF IsSum
<1>8. table(S)[S] = f[Chosen(S)] + table(S)[u]
  BY <1>7, Zenon DEF SumStep, u
<1> QED BY <1>3, <1>5, <1>6, <1>8 DEF u

\* A sum of integers is an integer.
LEMMA SumInt ==
    ASSUME NEW f, NEW S, IsFiniteSet(S), \A s \in S : f[s] \in Int
    PROVE  SumFunctionOnSet(f, S) \in Int
<1> DEFINE B == {s \in SUBSET S : SumFunctionOnSet(f, s) \notin Int}
<1>1. CASE B = {}
  BY <1>1, S \in SUBSET S
<1>2. CASE B # {}
  <2>1. PICK T \in B : \A U \in B : U \subseteq T => U = T
    <3>1. B \in SUBSET SUBSET S
      OBVIOUS
    <3> HIDE DEF B
    <3> QED BY <1>2, <3>1, SubsetMinimal
  <2>2. T # {}
    BY SumEmpty
  <2> DEFINE c == Chosen(T)
  <2>3. c \in T
    BY <2>2, ChosenIn
  <2>4. T \ {c} \notin B /\ T \ {c} \in SUBSET S
    BY <2>1, <2>3
  <2>5. SumFunctionOnSet(f, T \ {c}) \in Int
    BY <2>4
  <2>6. IsFiniteSet(T)
    BY FS_Subset
  <2>7. SumFunctionOnSet(f, T) = f[c] + SumFunctionOnSet(f, T \ {c})
    BY <2>2, <2>6, SumChosen
  <2>8. f[c] \in Int
    BY <2>3
  <2> QED BY <2>5, <2>7, <2>8
<1> QED BY <1>1, <1>2

\* Any element can be taken out of a sum, not only the chosen one.
LEMMA SumRemove ==
    ASSUME NEW f, NEW S, IsFiniteSet(S), \A s \in S : f[s] \in Int, NEW x \in S
    PROVE  SumFunctionOnSet(f, S) = f[x] + SumFunctionOnSet(f, S \ {x})
<1> DEFINE Removes(s, y) ==
             SumFunctionOnSet(f, s) = f[y] + SumFunctionOnSet(f, s \ {y})
           B == {s \in SUBSET S : \E y \in s : ~Removes(s, y)}
<1>1. CASE B = {}
  BY <1>1, S \in SUBSET S
<1>2. CASE B # {}
  <2>1. PICK T \in B : \A U \in B : U \subseteq T => U = T
    <3>1. B \in SUBSET SUBSET S
      OBVIOUS
    <3> HIDE DEF B
    <3> QED BY <1>2, <3>1, SubsetMinimal
  <2>2. PICK y \in T : ~Removes(T, y)
    OBVIOUS
  <2> DEFINE c == Chosen(T)
  <2>3. c \in T /\ T \in SUBSET S
    BY <2>2, ChosenIn
  <2>4. IsFiniteSet(T)
    BY <2>3, FS_Subset
  <2>5. Removes(T, c)
    BY <2>3, <2>4, SumChosen
  <2>6. y # c
    BY <2>2, <2>5
  <2>7. T \ {c} \notin B /\ T \ {y} \notin B
    BY <2>1, <2>3
  <2>8. Removes(T \ {c}, y)
    BY <2>3, <2>6, <2>7
  <2>9. Removes(T \ {y}, c)
    BY <2>3, <2>6, <2>7
  <2>10. (T \ {c}) \ {y} = (T \ {y}) \ {c}
    OBVIOUS
  <2>11. \A s \in T : f[s] \in Int
    BY <2>3
  <2> DEFINE u == SumFunctionOnSet(f, (T \ {c}) \ {y})
  <2>12. u \in Int
    <3> DEFINE U == (T \ {c}) \ {y}
    <3>1. U \in SUBSET T /\ \A s \in U : f[s] \in Int
      BY <2>11
    <3> HIDE DEF U
    <3>2. SumFunctionOnSet(f, U) \in Int
      BY <2>4, <3>1, FS_Subset, SumInt
    <3> QED BY <3>2 DEF U
  <2>13. /\ SumFunctionOnSet(f, T) = f[c] + SumFunctionOnSet(f, T \ {c})
         /\ SumFunctionOnSet(f, T \ {c}) = f[y] + u
         /\ SumFunctionOnSet(f, T \ {y}) = f[c] + u
         /\ f[c] \in Int /\ f[y] \in Int
    BY <2>3, <2>5, <2>8, <2>9, <2>10, <2>11
  <2> HIDE DEF u, c, B
  <2>14. SumFunctionOnSet(f, T) = f[y] + SumFunctionOnSet(f, T \ {y})
    BY <2>12, <2>13
  <2> QED BY <2>2, <2>14
<1> QED BY <1>1, <1>2

\* A new element adds its value to the sum.
LEMMA SumAdd ==
    ASSUME NEW f, NEW S, IsFiniteSet(S), \A s \in S : f[s] \in Int,
           NEW x, x \notin S, f[x] \in Int
    PROVE  SumFunctionOnSet(f, S \cup {x}) = f[x] + SumFunctionOnSet(f, S)
<1>1. IsFiniteSet(S \cup {x})
  BY FS_AddElement
<1>2. (S \cup {x}) \ {x} = S
  OBVIOUS
<1> QED BY <1>1, <1>2, SumRemove

\* The sum of larger values is larger.
LEMMA SumMonotone ==
    ASSUME NEW f, NEW g, NEW S, IsFiniteSet(S),
           \A s \in S : f[s] \in Int /\ g[s] \in Int /\ f[s] <= g[s]
    PROVE  SumFunctionOnSet(f, S) <= SumFunctionOnSet(g, S)
<1> DEFINE B == {s \in SUBSET S :
                   ~(SumFunctionOnSet(f, s) <= SumFunctionOnSet(g, s))}
<1>1. CASE B = {}
  BY <1>1, S \in SUBSET S
<1>2. CASE B # {}
  <2>1. PICK T \in B : \A U \in B : U \subseteq T => U = T
    <3>1. B \in SUBSET SUBSET S
      OBVIOUS
    <3> HIDE DEF B
    <3> QED BY <1>2, <3>1, SubsetMinimal
  <2>2. T # {}
    BY SumEmpty
  <2>3. PICK x \in T : TRUE
    BY <2>2
  <2>4. T \ {x} \notin B /\ T \ {x} \in SUBSET S
    BY <2>1
  <2>5. SumFunctionOnSet(f, T \ {x}) <= SumFunctionOnSet(g, T \ {x})
    BY <2>4
  <2>6. IsFiniteSet(T) /\ IsFiniteSet(T \ {x})
    BY FS_Subset
  <2>7. /\ SumFunctionOnSet(f, T) = f[x] + SumFunctionOnSet(f, T \ {x})
        /\ SumFunctionOnSet(g, T) = g[x] + SumFunctionOnSet(g, T \ {x})
    BY <2>6, SumRemove
  <2>8. /\ SumFunctionOnSet(f, T \ {x}) \in Int
        /\ SumFunctionOnSet(g, T \ {x}) \in Int
    BY <2>6, SumInt
  <2> QED BY <2>5, <2>7, <2>8
<1> QED BY <1>1, <1>2

\* Functions that agree on a set have the same sum over it.
LEMMA SumEqual ==
    ASSUME NEW f, NEW g, NEW S, IsFiniteSet(S),
           \A s \in S : f[s] \in Int /\ f[s] = g[s]
    PROVE  SumFunctionOnSet(f, S) = SumFunctionOnSet(g, S)
<1>1. /\ SumFunctionOnSet(f, S) <= SumFunctionOnSet(g, S)
      /\ SumFunctionOnSet(g, S) <= SumFunctionOnSet(f, S)
  BY SumMonotone
<1>2. SumFunctionOnSet(f, S) \in Int /\ SumFunctionOnSet(g, S) \in Int
  BY SumInt
<1> QED BY <1>1, <1>2

\* Changing the value of one element changes the sum by the difference.
LEMMA SumChange ==
    ASSUME NEW f, NEW g, NEW S, IsFiniteSet(S), NEW x \in S,
           \A s \in S : f[s] \in Int /\ g[s] \in Int,
           \A s \in S \ {x} : f[s] = g[s]
    PROVE  SumFunctionOnSet(g, S) = SumFunctionOnSet(f, S) + g[x] - f[x]
<1>1. /\ SumFunctionOnSet(f, S) = f[x] + SumFunctionOnSet(f, S \ {x})
      /\ SumFunctionOnSet(g, S) = g[x] + SumFunctionOnSet(g, S \ {x})
  BY SumRemove
<1>2. IsFiniteSet(S \ {x})
  BY FS_Subset
<1>3. SumFunctionOnSet(f, S \ {x}) = SumFunctionOnSet(g, S \ {x})
  BY <1>2, SumEqual
<1>4. SumFunctionOnSet(f, S \ {x}) \in Int
  BY <1>2, SumInt
<1> QED BY <1>1, <1>3, <1>4

\* A sum of zeros is zero.
LEMMA SumZero ==
    ASSUME NEW f, NEW S, IsFiniteSet(S), \A s \in S : f[s] = 0
    PROVE  SumFunctionOnSet(f, S) = 0
<1> DEFINE B == {s \in SUBSET S : SumFunctionOnSet(f, s) # 0}
<1>1. CASE B = {}
  BY <1>1, S \in SUBSET S
<1>2. CASE B # {}
  <2>1. PICK T \in B : \A U \in B : U \subseteq T => U = T
    <3>1. B \in SUBSET SUBSET S
      OBVIOUS
    <3> HIDE DEF B
    <3> QED BY <1>2, <3>1, SubsetMinimal
  <2>2. T # {}
    BY SumEmpty
  <2>3. PICK x \in T : TRUE
    BY <2>2
  <2>4. T \ {x} \notin B /\ T \ {x} \in SUBSET S
    BY <2>1
  <2>5. SumFunctionOnSet(f, T \ {x}) = 0
    BY <2>4
  <2>6. IsFiniteSet(T)
    BY FS_Subset
  <2>7. SumFunctionOnSet(f, T) = f[x] + SumFunctionOnSet(f, T \ {x})
    BY <2>6, SumRemove
  <2> QED BY <2>5, <2>7
<1> QED BY <1>1, <1>2

\* A sum of natural numbers is one.
LEMMA SumNat ==
    ASSUME NEW f, NEW S, IsFiniteSet(S), \A s \in S : f[s] \in Nat
    PROVE  SumFunctionOnSet(f, S) \in Nat
<1> DEFINE z == [s \in S |-> 0]
<1>1. SumFunctionOnSet(z, S) = 0
  BY SumZero
<1>2. \A s \in S : z[s] \in Int /\ f[s] \in Int /\ z[s] <= f[s]
  OBVIOUS
<1> HIDE DEF z
<1>3. SumFunctionOnSet(z, S) <= SumFunctionOnSet(f, S)
  BY <1>2, SumMonotone
<1>4. SumFunctionOnSet(f, S) \in Int
  BY SumInt
<1> QED BY <1>1, <1>3, <1>4

\* The sum over a set is the sum over a part of it and over the rest.
LEMMA SumSplit ==
    ASSUME NEW f, NEW S, IsFiniteSet(S), \A s \in S : f[s] \in Int, NEW P \in SUBSET S
    PROVE  SumFunctionOnSet(f, S) = SumFunctionOnSet(f, P) + SumFunctionOnSet(f, S \ P)
<1> DEFINE Splits(t) == SumFunctionOnSet(f, S) =
                            SumFunctionOnSet(f, t) + SumFunctionOnSet(f, S \ t)
           B == {t \in SUBSET S : ~Splits(t)}
<1>1. CASE B = {}
  BY <1>1
<1>2. CASE B # {}
  <2>1. PICK T \in B : \A U \in B : U \subseteq T => U = T
    <3>1. B \in SUBSET SUBSET S
      OBVIOUS
    <3> HIDE DEF B
    <3> QED BY <1>2, <3>1, SubsetMinimal
  <2>2. CASE T = {}
    <3>1. S \ T = S
      BY <2>2
    <3>2. SumFunctionOnSet(f, T) = 0
      BY <2>2, SumEmpty
    <3>3. SumFunctionOnSet(f, S) \in Int
      BY SumInt
    <3>4. SumFunctionOnSet(f, S \ T) = SumFunctionOnSet(f, S)
      BY Zenon, <3>1
    <3>5. Splits(T)
      BY <3>2, <3>3, <3>4
    <3> QED BY <2>1, <3>5
  <2>3. ASSUME NEW x \in T PROVE FALSE
    <3> DEFINE U == T \ {x}
               V == S \ U
    <3>1. U \in SUBSET S /\ V \in SUBSET S /\ T \in SUBSET S /\ U # T /\ x \in V
      BY <2>1, <2>3
    <3>2. IsFiniteSet(U) /\ IsFiniteSet(V) /\ IsFiniteSet(T)
      BY <3>1, FS_Subset
    <3>3. V \ {x} = S \ T
      BY <2>3
    <3>4. Splits(U)
      BY <2>1, <3>1
    <3>5. SumFunctionOnSet(f, T) = f[x] + SumFunctionOnSet(f, U)
      BY <2>3, <3>1, <3>2, SumRemove
    <3>6. SumFunctionOnSet(f, V) = f[x] + SumFunctionOnSet(f, S \ T)
      <4> HIDE DEF U, V
      <4>1. SumFunctionOnSet(f, V) = f[x] + SumFunctionOnSet(f, V \ {x})
        BY <3>1, <3>2, SumRemove
      <4> QED BY <3>3, <4>1
    <3>7. /\ SumFunctionOnSet(f, U) \in Int /\ SumFunctionOnSet(f, S \ T) \in Int
          /\ f[x] \in Int
      <4>1. IsFiniteSet(S \ T) /\ S \ T \in SUBSET S
        BY FS_Subset
      <4> QED BY <2>1, <2>3, <3>1, <3>2, <4>1, SumInt
    <3>8. Splits(T)
      <4>1. SumFunctionOnSet(f, S) = SumFunctionOnSet(f, U) + SumFunctionOnSet(f, V)
        BY <3>4
      <4> HIDE DEF U, V
      <4> QED BY <3>5, <3>6, <3>7, <4>1
    <3> QED BY <2>1, <3>8
  <2> QED BY <2>2, <2>3
<1> QED BY <1>1, <1>2
=============================================================================
