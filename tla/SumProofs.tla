----------------------------- MODULE SumProofs -----------------------------
(***************************************************************************)
(* Facts about SumFunctionOnSet, which adds up amounts: that it satisfies  *)
(* the equation it is defined by, and that neither the order nor the       *)
(* indices matter.                                                         *)
(*                                                                         *)
(* The sum is defined by recursion on finite sets.  Each induction below   *)
(* is done by least counterexample: B is the set of the subsets for which  *)
(* the lemma fails, LeastSet gives an element of B that contains no other, *)
(* and the lemma for what is left of it when one element is removed shows  *)
(* that it does not fail after all.                                        *)
(***************************************************************************)
EXTENDS Integers, FiniteSets, Functions, FiniteSetTheorems, WellFoundedInduction, TLAPS

\* The element of s that is added next.
Pick(s) == CHOOSE x \in s : TRUE

\* g sums F over every subset of S, the way SumFunctionOnSet goes about it.
IsSum(g, F, S) ==
    g = [s \in SUBSET S |-> IF s = {} THEN 0 ELSE F[Pick(s)] + g[s \ {Pick(s)}]]

SumsOver(F, S) == CHOOSE g : IsSum(g, F, S)

\* Among sets of subsets of a finite set there is always one that contains no
\* other: a property of sets that fails, fails for such a one first.
LEMMA LeastSet ==
    ASSUME NEW S, IsFiniteSet(S), NEW B \in SUBSET SUBSET S, B # {}
    PROVE  \E T \in B : IsFiniteSet(T) /\ \A U \in B : U \subseteq T => U = T
  <1>1. IsWellFoundedOn(StrictSubsetOrdering(S), FiniteSubsetsOf(S))
    BY FS_StrictSubsetOrderingWellFounded
  <1>2. B \subseteq FiniteSubsetsOf(S)
    BY FS_FiniteSubsetsOfFinite
  <1>3. PICK T \in B : \A U \in B : ~ (<<U, T>> \in StrictSubsetOrdering(S))
    BY <1>1, <1>2, WFMin
  <1>4. IsFiniteSet(T)
    BY FS_Subset
  <1> QED
    BY <1>3, <1>4 DEF StrictSubsetOrdering

LEMMA SumUnfolds ==
    ASSUME NEW F, NEW S
    PROVE  SumFunctionOnSet(F, S) = SumsOver(F, S)[S]
  BY DEF SumFunctionOnSet, FoldFunctionOnSet, MapThenFoldSet, SumsOver, IsSum, Pick

\* What is summed up for a set does not depend on the set it is a subset of.
LEMMA SumsAgree ==
    ASSUME NEW F, NEW S, NEW T, NEW g, IsSum(g, F, S), NEW h, IsSum(h, F, T),
           NEW U, IsFiniteSet(U), U \subseteq S, U \subseteq T
    PROVE  g[U] = h[U]
  <1> DEFINE B == {V \in SUBSET U : g[V] # h[V]}
  <1> SUFFICES ASSUME B # {}
               PROVE  FALSE
    OBVIOUS
  <1>1. PICK V \in B : \A W \in B : W \subseteq V => W = V
    <2> HIDE DEF B
    <2>1. B \in SUBSET SUBSET U
      BY DEF B
    <2> QED
      BY <2>1, LeastSet
  <1>2. V \in SUBSET S /\ V \in SUBSET T /\ V # {}
    BY DEF IsSum
  <1> DEFINE W == V \ {Pick(V)}
  <1>3. g[V] = F[Pick(V)] + g[W] /\ h[V] = F[Pick(V)] + h[W]
    BY <1>2 DEF IsSum
  <1>4. Pick(V) \in V
    BY <1>2 DEF Pick
  <1>5. W \subseteq V /\ W # V /\ W \in SUBSET U
    BY <1>4
  <1>6. g[W] = h[W]
    BY <1>1, <1>5
  <1> QED
    BY <1>3, <1>6

\* There is such a g.
LEMMA SumsExist ==
    ASSUME NEW F, NEW S, IsFiniteSet(S)
    PROVE  IsSum(SumsOver(F, S), F, S)
  <1> DEFINE B == {T \in SUBSET S : ~\E g : IsSum(g, F, T)}
  <1>1. ASSUME B # {}
        PROVE  FALSE
    <2>1. PICK T \in B : IsFiniteSet(T) /\ \A U \in B : U \subseteq T => U = T
      <3> HIDE DEF B
      <3>1. B \in SUBSET SUBSET S
        BY DEF B
      <3> QED
        BY <1>1, <3>1, LeastSet
    <2> DEFINE value(s) == SumsOver(F, s)[s]
               next(s)  == IF s = {} THEN 0 ELSE F[Pick(s)] + value(s \ {Pick(s)})
               g        == [s \in SUBSET T |-> next(s)]
    <2>2. ASSUME NEW U \in SUBSET T, U # T
          PROVE  IsSum(SumsOver(F, U), F, U) /\ IsFiniteSet(U)
      <3>1. U \in SUBSET S /\ U \notin B
        BY <2>1, <2>2
      <3>2. PICK h : IsSum(h, F, U)
        BY <3>1
      <3> QED
        BY <2>1, <3>2, FS_Subset DEF SumsOver
    <2>3. ASSUME NEW U \in SUBSET T, U # T
          PROVE  value(U) = next(U)
      <3> DEFINE h == SumsOver(F, U)
                 V == U \ {Pick(U)}
      <3>1. IsSum(h, F, U)
        BY <2>2, <2>3
      <3>2. h[U] = IF U = {} THEN 0 ELSE F[Pick(U)] + h[V]
        <4> HIDE DEF h, V
        <4>1. U \in SUBSET U
          OBVIOUS
        <4> QED
          BY <3>1, <4>1 DEF IsSum, V
      <3>3. V \in SUBSET T /\ V # T /\ V \subseteq U
        BY <2>3
      <3>4. IsSum(SumsOver(F, V), F, V) /\ IsFiniteSet(V)
        BY <2>2, <3>3
      <3>5. h[V] = SumsOver(F, V)[V]
        <4> HIDE DEF h, V
        <4> QED
          BY <3>1, <3>3, <3>4, SumsAgree
      <3> QED
        BY <3>2, <3>5
    <2>4. ASSUME NEW s \in SUBSET T
          PROVE  g[s] = IF s = {} THEN 0 ELSE F[Pick(s)] + g[s \ {Pick(s)}]
      <3>1. CASE s = {}
        BY <3>1
      <3>2. CASE s # {}
        <4> DEFINE V == s \ {Pick(s)}
        <4>1. Pick(s) \in s
          BY <3>2 DEF Pick
        <4>2. V \in SUBSET T /\ V # T
          BY <4>1
        <4>3. value(V) = next(V)
          BY <2>3, <4>2
        <4>4. g[V] = next(V)
          BY <4>2
        <4>5. g[s] = F[Pick(s)] + value(V)
          BY <3>2
        <4> QED
          BY <3>2, <4>3, <4>4, <4>5
      <3> QED
        BY <3>1, <3>2
    <2>5. IsSum(g, F, T)
      <3>1. g = [s \in SUBSET T |-> g[s]]
        OBVIOUS
      <3> HIDE DEF g
      <3> QED
        BY <2>4, <3>1 DEF IsSum
    <2> QED
      BY <2>1, <2>5
  <1>2. PICK g : IsSum(g, F, S)
    BY <1>1
  <1> QED
    BY <1>2 DEF SumsOver

\* The empty sum.
LEMMA SumEmpty ==
    ASSUME NEW F
    PROVE  SumFunctionOnSet(F, {}) = 0
  <1>1. IsFiniteSet({})
    BY FS_EmptySet
  <1>2. IsSum(SumsOver(F, {}), F, {})
    BY <1>1, SumsExist
  <1>3. {} \in SUBSET {}
    OBVIOUS
  <1> QED
    BY <1>2, <1>3, SumUnfolds DEF IsSum

\* The equation that defines sums.
LEMMA SumPicks ==
    ASSUME NEW F, NEW S, IsFiniteSet(S), S # {}
    PROVE  /\ Pick(S) \in S
           /\ SumFunctionOnSet(F, S)
                 = F[Pick(S)] + SumFunctionOnSet(F, S \ {Pick(S)})
  <1> DEFINE T == S \ {Pick(S)}
  <1>1. Pick(S) \in S
    BY DEF Pick
  <1>2. T \subseteq S /\ IsFiniteSet(T)
    BY FS_Subset
  <1>3. IsSum(SumsOver(F, S), F, S) /\ IsSum(SumsOver(F, T), F, T)
    BY <1>2, SumsExist
  <1>4. SumsOver(F, S)[T] = SumsOver(F, T)[T]
    <2> HIDE DEF T
    <2> QED
      BY <1>2, <1>3, SumsAgree
  <1>5. SumsOver(F, S)[S] = F[Pick(S)] + SumsOver(F, S)[T]
    <2>1. S \in SUBSET S
      OBVIOUS
    <2> QED
      BY <1>3, <2>1 DEF IsSum
  <1> QED
    BY <1>1, <1>4, <1>5, SumUnfolds

\* The sum of integers is an integer.
LEMMA SumInt ==
    ASSUME NEW F, NEW S, IsFiniteSet(S), \A x \in S : F[x] \in Int
    PROVE  SumFunctionOnSet(F, S) \in Int
  <1> DEFINE B == {T \in SUBSET S : SumFunctionOnSet(F, T) \notin Int}
  <1>1. ASSUME B # {}
        PROVE  FALSE
    <2>1. PICK T \in B : IsFiniteSet(T) /\ \A U \in B : U \subseteq T => U = T
      <3> HIDE DEF B
      <3>1. B \in SUBSET SUBSET S
        BY DEF B
      <3> QED
        BY <1>1, <3>1, LeastSet
    <2>2. T # {}
      BY SumEmpty
    <2>3. /\ Pick(T) \in T
          /\ SumFunctionOnSet(F, T) = F[Pick(T)] + SumFunctionOnSet(F, T \ {Pick(T)})
      BY <2>1, <2>2, SumPicks
    <2>4. SumFunctionOnSet(F, T \ {Pick(T)}) \in Int
      BY <2>1, <2>3
    <2> QED
      BY <2>1, <2>3, <2>4
  <1> QED
    BY <1>1

\* The order in which integers are added makes no difference.
LEMMA SumRemove ==
    ASSUME NEW F, NEW S, IsFiniteSet(S), \A x \in S : F[x] \in Int, NEW x \in S
    PROVE  SumFunctionOnSet(F, S) = F[x] + SumFunctionOnSet(F, S \ {x})
  <1> DEFINE Sum(T) == SumFunctionOnSet(F, T)
             B == {T \in SUBSET S : \E y \in T : Sum(T) # F[y] + Sum(T \ {y})}
  <1>1. ASSUME B # {}
        PROVE  FALSE
    <2>1. PICK T \in B : IsFiniteSet(T) /\ \A U \in B : U \subseteq T => U = T
      <3> HIDE DEF B
      <3>1. B \in SUBSET SUBSET S
        BY DEF B
      <3> QED
        BY <1>1, <3>1, LeastSet
    <2>2. PICK y \in T : Sum(T) # F[y] + Sum(T \ {y})
      BY <2>1
    <2> DEFINE z == Pick(T)
    <2>3. z \in T /\ Sum(T) = F[z] + Sum(T \ {z})
      BY <2>1, <2>2, SumPicks
    <2>4. y # z
      BY <2>2, <2>3
    <2> HIDE DEF z
    <2>5. \A U \in SUBSET T : \A v \in U : U # T => Sum(U) = F[v] + Sum(U \ {v})
      BY <2>1
    <2> HIDE DEF Sum
    <2>6. Sum(T \ {z}) = F[y] + Sum((T \ {z}) \ {y})
      <3>1. y \in T \ {z} /\ T \ {z} # T /\ T \ {z} \in SUBSET T
        BY <2>2, <2>3, <2>4
      <3> QED
        BY <2>5, <3>1
    <2>7. Sum(T \ {y}) = F[z] + Sum((T \ {y}) \ {z})
      <3>1. z \in T \ {y} /\ T \ {y} # T /\ T \ {y} \in SUBSET T
        BY <2>2, <2>3, <2>4
      <3> QED
        BY <2>5, <3>1
    <2>8. (T \ {z}) \ {y} = (T \ {y}) \ {z}
      OBVIOUS
    <2>9. F[y] \in Int /\ F[z] \in Int
      BY <2>1, <2>2, <2>3
    <2>10. Sum((T \ {y}) \ {z}) \in Int
      <3> DEFINE U == (T \ {y}) \ {z}
      <3>1. U \subseteq S
        BY <2>1
      <3>2. IsFiniteSet(U)
        BY <3>1, FS_Subset
      <3> HIDE DEF U
      <3>3. Sum(U) \in Int
        BY <3>1, <3>2, SumInt DEF Sum
      <3> QED
        BY <3>3 DEF U
    <2>11. Sum(T \ {z}) = F[y] + Sum((T \ {y}) \ {z})
      BY <2>6, <2>8
    <2> DEFINE k == Sum((T \ {y}) \ {z})
               Ty == Sum(T \ {y})
               Tz == Sum(T \ {z})
    <2>12. Tz = F[y] + k /\ Ty = F[z] + k /\ k \in Int
      BY <2>7, <2>10, <2>11
    <2>13. Sum(T) = F[z] + Tz /\ Sum(T) # F[y] + Ty
      BY <2>2, <2>3
    <2> HIDE DEF k, Ty, Tz
    <2> QED
      BY <2>9, <2>12, <2>13
  <1> QED
    BY <1>1

\* A sum depends on the values that are added only.
LEMMA SumCongruent ==
    ASSUME NEW F, NEW G, NEW S, IsFiniteSet(S), \A x \in S : F[x] = G[x]
    PROVE  SumFunctionOnSet(F, S) = SumFunctionOnSet(G, S)
  <1> DEFINE B == {T \in SUBSET S : SumFunctionOnSet(F, T) # SumFunctionOnSet(G, T)}
  <1>1. ASSUME B # {}
        PROVE  FALSE
    <2>1. PICK T \in B : IsFiniteSet(T) /\ \A U \in B : U \subseteq T => U = T
      <3> HIDE DEF B
      <3>1. B \in SUBSET SUBSET S
        BY DEF B
      <3> QED
        BY <1>1, <3>1, LeastSet
    <2>2. T # {}
      BY <2>1, SumEmpty
    <2>3. /\ Pick(T) \in T
          /\ SumFunctionOnSet(F, T) = F[Pick(T)] + SumFunctionOnSet(F, T \ {Pick(T)})
          /\ SumFunctionOnSet(G, T) = G[Pick(T)] + SumFunctionOnSet(G, T \ {Pick(T)})
      BY <2>1, <2>2, SumPicks
    <2>4. SumFunctionOnSet(F, T \ {Pick(T)}) = SumFunctionOnSet(G, T \ {Pick(T)})
      BY <2>1, <2>3
    <2> QED
      BY <2>1, <2>3, <2>4
  <1> QED
    BY <1>1

\* The sum over two disjoint sets.
LEMMA SumUnion ==
    ASSUME NEW F, NEW S, IsFiniteSet(S), NEW T, IsFiniteSet(T), S \cap T = {},
           \A x \in S \cup T : F[x] \in Int
    PROVE  SumFunctionOnSet(F, S \cup T) = SumFunctionOnSet(F, S) + SumFunctionOnSet(F, T)
  <1> DEFINE Sum(U) == SumFunctionOnSet(F, U)
             B == {U \in SUBSET T : Sum(S \cup U) # Sum(S) + Sum(U)}
  <1>1. ASSUME B # {}
        PROVE  FALSE
    <2>1. PICK U \in B : IsFiniteSet(U) /\ \A V \in B : V \subseteq U => V = U
      <3> HIDE DEF B
      <3>1. B \in SUBSET SUBSET T
        BY DEF B
      <3> QED
        BY <1>1, <3>1, LeastSet
    <2>2. Sum(S) \in Int
      BY SumInt
    <2>3. U # {}
      <3> SUFFICES ASSUME U = {}
                   PROVE  FALSE
        OBVIOUS
      <3>1. S \cup U = S /\ Sum(U) = 0
        BY SumEmpty
      <3>2. Sum(S \cup U) # Sum(S) + Sum(U)
        BY <2>1
      <3> QED
        BY <2>2, <3>1, <3>2
    <2>4. PICK x : x \in U
      BY <2>3
    <2> DEFINE V == U \ {x}
    <2>5. V \subseteq U /\ V # U /\ V \subseteq T /\ V \subseteq S \cup T
      BY <2>1, <2>4
    <2>6. Sum(S \cup V) = Sum(S) + Sum(V)
      BY <2>1, <2>5
    <2>7. IsFiniteSet(V) /\ Sum(V) \in Int
      <3>1. IsFiniteSet(V)
        BY <2>5, FS_Subset
      <3> HIDE DEF V
      <3> QED
        BY <2>5, <3>1, SumInt
    <2>8. Sum(U) = F[x] + Sum(V)
      BY <2>1, <2>4, SumRemove
    <2>9. Sum(S \cup U) = F[x] + Sum(S \cup V)
      <3> DEFINE W == S \cup U
      <3>1. W \ {x} = S \cup V /\ x \in W /\ W \subseteq S \cup T
        BY <2>1, <2>4
      <3>2. IsFiniteSet(W)
        BY <2>1, FS_Union
      <3> HIDE DEF W, V
      <3>3. Sum(W) = F[x] + Sum(W \ {x})
        BY <3>1, <3>2, SumRemove
      <3> QED
        BY <3>1, <3>3 DEF W
    <2>10. F[x] \in Int
      BY <2>1, <2>4
    <2> HIDE DEF Sum, V
    <2> QED
      BY <2>1, <2>2, <2>6, <2>7, <2>8, <2>9, <2>10 DEF B
  <1>2. T \notin B
    BY <1>1
  <1> QED
    BY <1>2

\* What is added may be counted by other indices.
LEMMA SumRenamed ==
    ASSUME NEW F, NEW G, NEW S, IsFiniteSet(S), NEW e,
           \A x \in S, y \in S : e[x] = e[y] => x = y,
           \A x \in S : F[e[x]] = G[x] /\ G[x] \in Int
    PROVE  /\ IsFiniteSet({e[x] : x \in S})
           /\ SumFunctionOnSet(F, {e[x] : x \in S}) = SumFunctionOnSet(G, S)
  <1> DEFINE Image(T) == {e[x] : x \in T}
             Holds(T) == /\ IsFiniteSet(Image(T))
                         /\ SumFunctionOnSet(F, Image(T)) = SumFunctionOnSet(G, T)
             B == {T \in SUBSET S : ~Holds(T)}
  <1>1. ASSUME B # {}
        PROVE  FALSE
    <2>1. PICK T \in B : IsFiniteSet(T) /\ \A U \in B : U \subseteq T => U = T
      <3> HIDE DEF B
      <3>1. B \in SUBSET SUBSET S
        BY DEF B
      <3> QED
        BY <1>1, <3>1, LeastSet
    <2>2. T # {}
      <3>1. Image({}) = {}
        OBVIOUS
      <3>2. Holds({})
        BY <3>1, SumEmpty, FS_EmptySet
      <3> HIDE DEF Holds
      <3> QED
        BY <2>1, <3>2
    <2>3. PICK y : y \in T
      BY <2>2
    <2> DEFINE U == T \ {y}
    <2>4. Holds(U)
      <3> HIDE DEF Holds
      <3> QED
        BY <2>1, <2>3
    <2>5. SumFunctionOnSet(G, T) = G[y] + SumFunctionOnSet(G, U)
      BY <2>1, <2>3, SumRemove
    <2>6. Image(U) = Image(T) \ {e[y]} /\ e[y] \in Image(T) /\ Image(T) = Image(U) \cup {e[y]}
      BY <2>1, <2>3
    <2>7. \A z \in Image(T) : F[z] \in Int
      BY <2>1
    <2> HIDE DEF Image, U
    <2>8. IsFiniteSet(Image(T))
      BY <2>4, <2>6, FS_AddElement
    <2>9. SumFunctionOnSet(F, Image(T)) = F[e[y]] + SumFunctionOnSet(F, Image(U))
      BY <2>6, <2>7, <2>8, SumRemove
    <2>10. F[e[y]] = G[y]
      BY <2>1, <2>3
    <2>11. Holds(T)
      BY <2>4, <2>5, <2>8, <2>9, <2>10
    <2> HIDE DEF Holds
    <2> QED
      BY <2>1, <2>11
  <1>2. Holds(S)
    <2> HIDE DEF Holds
    <2> QED
      BY <1>1
  <1> QED
    BY <1>2

=============================================================================
