-------------------------- MODULE RunScoringProofs --------------------------
(***************************************************************************)
(* What an attempt keeps while it is worked through and scored, for every  *)
(* set of valid suites.  The theorems about it, which are about LiveRun,   *)
(* are in LiveRunProofs.                                                   *)
(***************************************************************************)
EXTENDS RunScoring, WellFoundedInduction, FiniteSetTheorems, TLAPS

(* Whatever a step of LiveRun does to an attempt. *)
ScoringStep == CreateAttempt \/ ScoringNext \/ CancelAttempt \/ UNCHANGED scoringVars

-----------------------------------------------------------------------------
(* Sums and quotients *)

(* Of some finite sets, one has none of the others within it. *)
LEMMA SmallestSet ==
    ASSUME NEW S, IsFiniteSet(S), NEW B \in SUBSET (SUBSET S), B # {}
    PROVE  \E T \in B : \A U \in B : U \subseteq T => U = T
<1>1. IsWellFoundedOn(StrictSubsetOrdering(S), FiniteSubsetsOf(S))
  BY FS_StrictSubsetOrderingWellFounded
<1>2. B \subseteq FiniteSubsetsOf(S)
  BY FS_Subset DEF FiniteSubsetsOf
<1>3. PICK T \in B : \A U \in B : ~(<<U, T>> \in StrictSubsetOrdering(S))
  BY <1>1, <1>2, WFMin, Zenon
<1>4. ASSUME NEW U \in B, U \subseteq T, U # T PROVE FALSE
  <2>1. <<U, T>> \in StrictSubsetOrdering(S)
    BY <1>4 DEF StrictSubsetOrdering
  <2> QED BY <1>3, <2>1
<1> QED BY <1>4

SumOn(f, S) == SumFunctionOnSet(f, S)

(* The function it is computed by. *)
Pick(S) == CHOOSE x \in S : TRUE
IsSum(g, f, S) ==
    g = [T \in SUBSET S |-> IF T = {} THEN 0 ELSE f[Pick(T)] + g[T \ {Pick(T)}]]

LEMMA SumUnfolds ==
    ASSUME NEW f, NEW S
    PROVE  SumFunctionOnSet(f, S) = (CHOOSE g : IsSum(g, f, S))[S]
  BY DEF SumFunctionOnSet, FoldFunctionOnSet, MapThenFoldSet, IsSum, Pick

LEMMA PickIn == ASSUME NEW S, S # {} PROVE Pick(S) \in S
  BY DEF Pick

LEMMA SumAt ==
    ASSUME NEW f, NEW S, NEW g, IsSum(g, f, S), NEW T \in SUBSET S
    PROVE  /\ T = {} => g[T] = 0
           /\ T # {} => g[T] = f[Pick(T)] + g[T \ {Pick(T)}]
  BY DEF IsSum

LEMMA SumsAgree ==
    ASSUME NEW f, NEW S, IsFiniteSet(S), NEW R, NEW g, IsSum(g, f, S), NEW h, IsSum(h, f, R)
    PROVE  \A T \in SUBSET (S \cap R) : g[T] = h[T]
<1> DEFINE B == {T \in SUBSET (S \cap R) : g[T] # h[T]}
<1> SUFFICES ASSUME B # {} PROVE FALSE
  OBVIOUS
<1>1. PICK T \in B : \A U \in B : U \subseteq T => U = T
  <2> HIDE DEF B
  <2>1. B \subseteq SUBSET S
    BY DEF B
  <2> QED BY <2>1, SmallestSet
<1>2. T \in SUBSET S /\ T \in SUBSET R /\ g[T] # h[T]
  OBVIOUS
<1>a. (T = {} => g[T] = 0) /\ (T # {} => g[T] = f[Pick(T)] + g[T \ {Pick(T)}])
  <2> HIDE DEF B
  <2>1. T \in SUBSET S
    BY <1>2
  <2> QED BY <2>1, SumAt
<1>b. (T = {} => h[T] = 0) /\ (T # {} => h[T] = f[Pick(T)] + h[T \ {Pick(T)}])
  <2> HIDE DEF B
  <2>1. T \in SUBSET R
    BY <1>2
  <2> QED BY <2>1, SumAt
<1>3. T # {}
  BY <1>2, <1>a, <1>b
<1>4. Pick(T) \in T
  BY <1>3, PickIn
<1>5. T \ {Pick(T)} \notin B
  BY <1>1, <1>4
<1>6. g[T \ {Pick(T)}] = h[T \ {Pick(T)}]
  BY <1>2, <1>5
<1> QED BY <1>2, <1>3, <1>6, <1>a, <1>b

LEMMA SumExists ==
    ASSUME NEW f, NEW S, IsFiniteSet(S)
    PROVE  \E g : IsSum(g, f, S)
<1> DEFINE B == {T \in SUBSET S : ~\E g : IsSum(g, f, T)}
<1> SUFFICES ASSUME B # {} PROVE FALSE
  BY DEF B
<1>1. PICK T \in B : \A U \in B : U \subseteq T => U = T
  <2> HIDE DEF B
  <2>1. B \subseteq SUBSET S
    BY DEF B
  <2> QED BY <2>1, SmallestSet
<1> DEFINE G(U) == CHOOSE g : IsSum(g, f, U)
           V(U) == IF U = {} THEN 0 ELSE f[Pick(U)] + G(U \ {Pick(U)})[U \ {Pick(U)}]
           h == [U \in SUBSET T |-> V(U)]
<1>2. ASSUME NEW U \in SUBSET T, U # T PROVE IsSum(G(U), f, U)
  BY <1>1, <1>2
<1>3. ASSUME NEW U \in SUBSET T, U # T PROVE G(U)[U] = V(U)
  <2>1. IsSum(G(U), f, U)
    BY <1>2, <1>3
  <2>2. CASE U = {}
    BY <2>1, <2>2, SumAt
  <2>3. CASE U # {}
    <3> DEFINE W == U \ {Pick(U)}
    <3>1. Pick(U) \in U
      BY <2>3, PickIn
    <3>2. G(U)[U] = f[Pick(U)] + G(U)[W]
      <4> HIDE DEF G
      <4> QED BY <2>1, <2>3, SumAt
    <3>3. W \in SUBSET T /\ W # T /\ W \in SUBSET U
      BY <1>3, <3>1
    <3>4. IsSum(G(W), f, W)
      BY <1>2, <3>3
    <3>5. IsFiniteSet(U) /\ IsFiniteSet(W)
      BY <3>3, FS_Subset
    <3>6. G(U)[W] = G(W)[W]
      <4> HIDE DEF G, W
      <4> QED BY <2>1, <3>3, <3>4, <3>5, SumsAgree
    <3> QED BY <2>3, <3>2, <3>6
  <2> QED BY <2>2, <2>3
<1>4. ASSUME NEW U \in SUBSET T
      PROVE  h[U] = IF U = {} THEN 0 ELSE f[Pick(U)] + h[U \ {Pick(U)}]
  <2>1. CASE U = {}
    BY <2>1
  <2>2. CASE U # {}
    <3> DEFINE W == U \ {Pick(U)}
    <3>1. Pick(U) \in U
      BY <2>2, PickIn
    <3>2. W \in SUBSET T /\ W # T
      BY <3>1
    <3>3. G(W)[W] = V(W)
      BY <1>3, <3>2
    <3>4. h[W] = V(W) /\ h[U] = V(U)
      BY <3>2
    <3>5. V(U) = f[Pick(U)] + G(W)[W]
      BY <2>2
    <3> HIDE DEF V, G, h, W
    <3> QED BY <2>2, <3>3, <3>4, <3>5 DEF W
  <2> QED BY <2>1, <2>2
<1>5. h = [U \in SUBSET T |-> IF U = {} THEN 0 ELSE f[Pick(U)] + h[U \ {Pick(U)}]]
  <2>1. h = [U \in SUBSET T |-> h[U]]
    OBVIOUS
  <2> HIDE DEF h
  <2> QED BY <1>4, <2>1
<1>6. IsSum(h, f, T)
  <2> HIDE DEF h
  <2> QED BY <1>5 DEF IsSum
<1> HIDE DEF h
<1> QED BY <1>1, <1>6

LEMMA SumOfChosen ==
    ASSUME NEW f, NEW S, IsFiniteSet(S)
    PROVE  /\ S = {} => SumOn(f, S) = 0
           /\ S # {} => SumOn(f, S) = f[Pick(S)] + SumOn(f, S \ {Pick(S)})
<1> DEFINE g == CHOOSE g : IsSum(g, f, S)
           R == S \ {Pick(S)}
           h == CHOOSE h : IsSum(h, f, R)
<1>1. IsSum(g, f, S)
  BY SumExists
<1>2. IsSum(h, f, R)
  BY SumExists, FS_Subset
<1>3. SumOn(f, S) = g[S] /\ SumOn(f, R) = h[R]
  BY SumUnfolds DEF SumOn
<1>4. g[S] = IF S = {} THEN 0 ELSE f[Pick(S)] + g[R]
  <2> HIDE DEF g, R
  <2>1. S \in SUBSET S
    OBVIOUS
  <2>2. (S = {} => g[S] = 0) /\ (S # {} => g[S] = f[Pick(S)] + g[S \ {Pick(S)}])
    BY <1>1, <2>1, SumAt
  <2> QED BY <2>2 DEF R
<1>5. g[R] = h[R]
  <2> HIDE DEF g, h
  <2>1. R \in SUBSET (S \cap R)
    OBVIOUS
  <2> HIDE DEF R
  <2> QED BY <1>1, <1>2, <2>1, SumsAgree
<1> QED BY <1>3, <1>4, <1>5

LEMMA SumInt ==
    ASSUME NEW S, IsFiniteSet(S), NEW f, \A x \in S : f[x] \in Int
    PROVE  SumOn(f, S) \in Int
<1> DEFINE B == {T \in SUBSET S : SumOn(f, T) \notin Int}
<1> SUFFICES ASSUME B # {} PROVE FALSE
  BY DEF B
<1>1. PICK T \in B : \A U \in B : U \subseteq T => U = T
  <2> HIDE DEF B
  <2>1. B \subseteq SUBSET S
    BY DEF B
  <2> QED BY <2>1, SmallestSet
<1>2. IsFiniteSet(T) /\ T \subseteq S
  BY FS_Subset
<1>3. T # {}
  <2>1. SumOn(f, {}) = 0
    BY FS_EmptySet, SumOfChosen
  <2>2. SumOn(f, T) \notin Int
    OBVIOUS
  <2> HIDE DEF B
  <2> QED BY <2>1, <2>2
<1>4. Pick(T) \in T
  BY <1>3, PickIn
<1>5. SumOn(f, T \ {Pick(T)}) \in Int
  BY <1>1, <1>2, <1>4
<1> QED BY <1>2, <1>3, <1>4, <1>5, SumOfChosen

(* Any one may be taken first. *)
LEMMA SumOfAny ==
    ASSUME NEW S, IsFiniteSet(S), NEW f, \A x \in S : f[x] \in Int, NEW y \in S
    PROVE  SumOn(f, S) = f[y] + SumOn(f, S \ {y})
<1> DEFINE B == {T \in SUBSET S : \E z \in T : SumOn(f, T) # f[z] + SumOn(f, T \ {z})}
<1> SUFFICES ASSUME B # {} PROVE FALSE
  BY DEF B
<1>1. PICK T \in B : \A U \in B : U \subseteq T => U = T
  <2> HIDE DEF B
  <2>1. B \subseteq SUBSET S
    BY DEF B
  <2> QED BY <2>1, SmallestSet
<1>2. PICK z \in T : SumOn(f, T) # f[z] + SumOn(f, T \ {z})
  OBVIOUS
<1> DEFINE x == Pick(T)
<1>3. IsFiniteSet(T) /\ T \subseteq S /\ x \in T
  BY FS_Subset, PickIn
<1>4. SumOn(f, T) = f[x] + SumOn(f, T \ {x})
  BY <1>2, <1>3, SumOfChosen
<1>5. z # x
  BY <1>2, <1>4
<1>6. T \ {x} \notin B /\ T \ {z} \notin B
  BY <1>1, <1>2, <1>3
<1>7. SumOn(f, T \ {x}) = f[z] + SumOn(f, (T \ {x}) \ {z})
  BY <1>3, <1>5, <1>6, <1>2
<1>8. SumOn(f, T \ {z}) = f[x] + SumOn(f, (T \ {z}) \ {x})
  BY <1>3, <1>5, <1>6, <1>2
<1>9. (T \ {x}) \ {z} = (T \ {z}) \ {x}
  OBVIOUS
<1>10. f[x] \in Int /\ f[z] \in Int /\ SumOn(f, (T \ {z}) \ {x}) \in Int
  <2>1. IsFiniteSet((T \ {z}) \ {x}) /\ (T \ {z}) \ {x} \subseteq S
    BY <1>3, FS_Subset
  <2> QED BY <1>2, <1>3, <2>1, SumInt
<1> HIDE DEF x, B
<1> DEFINE r == SumOn(f, (T \ {z}) \ {x})
<1>11. SumOn(f, T) = f[x] + (f[z] + r) /\ SumOn(f, T \ {z}) = f[x] + r
  BY <1>4, <1>7, <1>8, <1>9
<1>12. r \in Int
  BY <1>10
<1> HIDE DEF r
<1>13. f[x] + (f[z] + r) = f[z] + (f[x] + r)
  BY <1>10, <1>12
<1> QED BY <1>2, <1>11, <1>13

LEMMA SumOfNone == ASSUME NEW f PROVE SumOn(f, {}) = 0
  BY FS_EmptySet, SumOfChosen

LEMMA SumNat ==
    ASSUME NEW S, IsFiniteSet(S), NEW f, \A x \in S : f[x] \in Nat
    PROVE  SumOn(f, S) \in Nat
<1> DEFINE B == {T \in SUBSET S : SumOn(f, T) \notin Nat}
<1> SUFFICES ASSUME B # {} PROVE FALSE
  BY DEF B
<1>1. PICK T \in B : \A U \in B : U \subseteq T => U = T
  <2> HIDE DEF B
  <2>1. B \subseteq SUBSET S
    BY DEF B
  <2> QED BY <2>1, SmallestSet
<1>2. IsFiniteSet(T) /\ T \subseteq S /\ SumOn(f, T) \notin Nat
  BY FS_Subset
<1>3. T # {}
  BY <1>2, SumOfNone
<1>4. PICK x : x \in T
  BY <1>3
<1>5. SumOn(f, T \ {x}) \in Nat
  BY <1>1, <1>2, <1>4
<1>6. SumOn(f, T) = f[x] + SumOn(f, T \ {x})
  BY <1>2, <1>4, SumOfAny
<1>7. f[x] \in Nat
  BY <1>2, <1>4
<1> HIDE DEF B
<1> QED BY <1>2, <1>5, <1>6, <1>7

(* A sum of parts is at most c times the sum of their weights. *)
LEMMA SumBound ==
    ASSUME NEW S, IsFiniteSet(S), NEW f, NEW w, NEW c \in Int,
           \A x \in S : f[x] \in Int /\ w[x] \in Int /\ f[x] <= c * w[x]
    PROVE  SumOn(f, S) <= c * SumOn(w, S)
<1> DEFINE B == {T \in SUBSET S : ~(SumOn(f, T) <= c * SumOn(w, T))}
<1> SUFFICES ASSUME B # {} PROVE FALSE
  BY DEF B
<1>1. PICK T \in B : \A U \in B : U \subseteq T => U = T
  <2> HIDE DEF B
  <2>1. B \subseteq SUBSET S
    BY DEF B
  <2> QED BY <2>1, SmallestSet
<1>2. IsFiniteSet(T) /\ T \subseteq S /\ ~(SumOn(f, T) <= c * SumOn(w, T))
  BY FS_Subset
<1>3. T # {}
  <2> SUFFICES ASSUME T = {} PROVE FALSE
    OBVIOUS
  <2>1. SumOn(f, T) = 0 /\ SumOn(w, T) = 0
    BY SumOfNone
  <2> HIDE DEF B
  <2> QED BY <1>2, <2>1
<1>4. PICK x : x \in T
  BY <1>3
<1> DEFINE p == SumOn(f, T \ {x})
           q == SumOn(w, T \ {x})
<1>5. p <= c * q
  BY <1>1, <1>2, <1>4
<1>6. SumOn(f, T) = f[x] + p /\ SumOn(w, T) = w[x] + q
  BY <1>2, <1>4, SumOfAny
<1>7. f[x] \in Int /\ w[x] \in Int /\ f[x] <= c * w[x]
  BY <1>2, <1>4
<1>8. p \in Int /\ q \in Int
  <2>1. IsFiniteSet(T \ {x}) /\ T \ {x} \subseteq S
    BY <1>2, FS_Subset
  <2> QED BY <2>1, SumInt
<1> HIDE DEF B, p, q
<1>9. c * (w[x] + q) = c * w[x] + c * q
  BY <1>7, <1>8
<1>10. c * w[x] \in Int /\ c * q \in Int
  BY <1>7, <1>8
<1> QED BY <1>2, <1>5, <1>6, <1>7, <1>8, <1>9, <1>10

LEMMA SumCount ==
    ASSUME NEW S, IsFiniteSet(S), NEW f, NEW c \in Int, \A x \in S : f[x] \in Int /\ f[x] <= c
    PROVE  SumOn(f, S) <= c * Cardinality(S)
<1> DEFINE B == {T \in SUBSET S : ~(SumOn(f, T) <= c * Cardinality(T))}
<1> SUFFICES ASSUME B # {} PROVE FALSE
  BY DEF B
<1>1. PICK T \in B : \A U \in B : U \subseteq T => U = T
  <2> HIDE DEF B
  <2>1. B \subseteq SUBSET S
    BY DEF B
  <2> QED BY <2>1, SmallestSet
<1>2. IsFiniteSet(T) /\ T \subseteq S /\ ~(SumOn(f, T) <= c * Cardinality(T))
  BY FS_Subset
<1>3. T # {}
  <2> SUFFICES ASSUME T = {} PROVE FALSE
    OBVIOUS
  <2>1. SumOn(f, T) = 0 /\ Cardinality(T) = 0
    BY SumOfNone, FS_EmptySet
  <2> HIDE DEF B
  <2> QED BY <1>2, <2>1
<1>4. PICK x : x \in T
  BY <1>3
<1> DEFINE p == SumOn(f, T \ {x})
           q == Cardinality(T \ {x})
<1>5. p <= c * q
  BY <1>1, <1>2, <1>4
<1>6. SumOn(f, T) = f[x] + p /\ Cardinality(T) = 1 + q
  <2>1. SumOn(f, T) = f[x] + p
    BY <1>2, <1>4, SumOfAny
  <2>2. q = Cardinality(T) - 1 /\ Cardinality(T) \in Nat
    BY <1>2, <1>4, FS_RemoveElement, FS_CardinalityType
  <2> HIDE DEF q, B
  <2>3. Cardinality(T) = 1 + q
    BY <2>2
  <2> QED BY <2>1, <2>3
<1>7. f[x] \in Int /\ f[x] <= c
  BY <1>2, <1>4
<1>8. p \in Int /\ q \in Int
  <2>1. IsFiniteSet(T \ {x}) /\ T \ {x} \subseteq S
    BY <1>2, FS_Subset
  <2> QED BY <2>1, SumInt, FS_CardinalityType
<1> HIDE DEF B, p, q
<1>9. c * (1 + q) = c + c * q
  BY <1>8
<1>10. c * q \in Int
  BY <1>8
<1> QED BY <1>2, <1>5, <1>6, <1>7, <1>8, <1>9, <1>10

LEMMA ImageFinite ==
    ASSUME NEW S, IsFiniteSet(S), NEW b
    PROVE  IsFiniteSet({b[x] : x \in S})
<1> DEFINE f == [x \in S |-> b[x]]
           T == {b[x] : x \in S}
<1>1. f \in Surjection(S, T)
  BY DEF Surjection
<1> QED BY <1>1, FS_Surjection

(* What is summed may be renamed. *)
LEMMA SumRenamed ==
    ASSUME NEW S, IsFiniteSet(S), NEW f, \A x \in S : f[x] \in Int,
           NEW b, \A x, y \in S : b[x] = b[y] => x = y,
           NEW g, \A x \in S : g[b[x]] = f[x]
    PROVE  SumOn(g, {b[x] : x \in S}) = SumOn(f, S)
<1> DEFINE Of(T) == {b[x] : x \in T}
           B == {T \in SUBSET S : SumOn(g, Of(T)) # SumOn(f, T)}
<1> SUFFICES ASSUME B # {} PROVE FALSE
  BY DEF B
<1>1. PICK T \in B : \A U \in B : U \subseteq T => U = T
  <2> HIDE DEF B
  <2>1. B \subseteq SUBSET S
    BY DEF B
  <2> QED BY <2>1, SmallestSet
<1>2. IsFiniteSet(T) /\ T \subseteq S /\ SumOn(g, Of(T)) # SumOn(f, T)
  <2>1. T \in SUBSET S /\ SumOn(g, Of(T)) # SumOn(f, T)
    BY DEF B
  <2> QED BY <2>1, FS_Subset
<1>3. T # {}
  <2> SUFFICES ASSUME T = {} PROVE FALSE
    OBVIOUS
  <2>1. Of(T) = {}
    OBVIOUS
  <2>2. SumOn(f, T) = 0 /\ SumOn(g, Of(T)) = 0
    BY <2>1, SumOfNone
  <2> HIDE DEF B, Of
  <2> QED BY <1>2, <2>2
<1>4. PICK x : x \in T
  BY <1>3
<1> DEFINE U == T \ {x}
<1>5. SumOn(g, Of(U)) = SumOn(f, U)
  <2>1. U \in SUBSET S /\ U \notin B
    BY <1>1, <1>2, <1>4
  <2> HIDE DEF U, Of
  <2> QED BY <2>1
<1>6. SumOn(f, T) = f[x] + SumOn(f, U)
  BY <1>2, <1>4, SumOfAny
<1>7. b[x] \in Of(T) /\ Of(T) \ {b[x]} = Of(U)
  BY <1>2, <1>4
<1>8. SumOn(g, Of(T)) = g[b[x]] + SumOn(g, Of(U))
  <2>1. IsFiniteSet(Of(T))
    BY <1>2, ImageFinite
  <2>2. \A y \in Of(T) : g[y] \in Int
    BY <1>2
  <2> HIDE DEF B, Of, U
  <2> QED BY <1>7, <2>1, <2>2, SumOfAny
<1>9. g[b[x]] = f[x]
  BY <1>2, <1>4
<1> HIDE DEF B, Of, U
<1> QED BY <1>2, <1>5, <1>6, <1>8, <1>9

(* Sums of functions. *)
LEMMA SumOfFunction == ASSUME NEW f PROVE SumFunction(f) = SumOn(f, DOMAIN f)
  BY DEF SumFunction, SumOn

(* Things with a score and a weight, one for each of E.                    *)
Summed(S) == SumFunction([p \in S |-> p.score * p.weight])
Products(a, w, E) == SumOn([s \in E |-> a[s] * w[s]], E)

OneEach(S, b, a, w, E) ==
    /\ IsFiniteSet(E) /\ S = {b[s] : s \in E}
    /\ \A s \in E : a[s] \in Int /\ w[s] \in Int
    /\ \A s \in E : b[s].score = a[s] /\ b[s].weight = w[s]
    /\ \A s, t \in E : b[s] = b[t] => s = t

LEMMA SumsRenamed ==
    ASSUME NEW S, NEW b, NEW a, NEW w, NEW E, OneEach(S, b, a, w, E)
    PROVE  TotalWeight(S) = SumOn(w, E) /\ Summed(S) = Products(a, w, E)
<1> USE DEF OneEach
<1> DEFINE v == [p \in S |-> p.weight]
           m == [p \in S |-> p.score * p.weight]
           k == [s \in E |-> a[s] * w[s]]
<1>1. \A s \in E : v[b[s]] = w[s] /\ m[b[s]] = k[s] /\ k[s] \in Int
  <2> SUFFICES ASSUME NEW s \in E PROVE v[b[s]] = w[s] /\ m[b[s]] = k[s] /\ k[s] \in Int
    OBVIOUS
  <2>1. v[b[s]] = b[s].weight /\ m[b[s]] = b[s].score * b[s].weight /\ k[s] = a[s] * w[s]
    OBVIOUS
  <2> HIDE DEF v, m, k
  <2> DEFINE x == a[s]
             y == w[s]
  <2>2. x \in Int /\ y \in Int /\ k[s] = x * y
    BY <2>1
  <2>3. k[s] \in Int
    <3> HIDE DEF x, y
    <3> QED BY <2>2
  <2> QED BY <2>1, <2>3
<1>2. TotalWeight(S) = SumOn(v, S) /\ SumFunction(m) = SumOn(m, S)
  BY SumOfFunction DEF TotalWeight
<1> HIDE DEF v, m, k
<1>3. SumOn(v, S) = SumOn(w, E) /\ SumOn(m, S) = SumOn(k, E)
  BY <1>1, SumRenamed
<1> QED BY <1>2, <1>3 DEF m, k, Summed, Products

LEMMA Division ==
    ASSUME NEW a \in Int, NEW b \in Nat \ {0}
    PROVE  /\ a \div b \in Int
           /\ b * (a \div b) <= a /\ a < b * (a \div b) + b
  OBVIOUS

LEMMA DivisionBound ==
    ASSUME NEW a \in Int, NEW b \in Nat \ {0}, NEW c \in Int
    PROVE  /\ b * c <= a => c <= a \div b
           /\ a < b * (c + 1) => a \div b <= c
<1> DEFINE q == a \div b
<1>1. q \in Int /\ b * q <= a /\ a < b * q + b
  BY Division
<1> HIDE DEF q
<1>2. ASSUME b * c <= a, q < c PROVE FALSE
  <2>1. b * (q + 1) <= b * c
    BY <1>1, <1>2
  <2>2. b * (q + 1) = b * q + b
    BY <1>1
  <2> QED BY <1>1, <1>2, <2>1, <2>2
<1>3. ASSUME a < b * (c + 1), c < q PROVE FALSE
  <2>1. b * (c + 1) <= b * q
    BY <1>1, <1>3
  <2> QED BY <1>1, <1>3, <2>1
<1> QED BY <1>1, <1>2, <1>3 DEF q

LEMMA RoundedRange ==
    ASSUME NEW d \in Nat \ {0}, NEW c \in Nat, NEW n \in Nat, n <= c * d
    PROVE  Rounded(n, d) \in 0..c
<1>1. 2 * n + d \in Int /\ 2 * d \in Nat \ {0}
  OBVIOUS
<1>2. 0 <= 2 * n + d
  OBVIOUS
<1>3. 2 * n + d < (2 * d) * (c + 1)
  <2>1. (2 * d) * (c + 1) = 2 * (c * d) + 2 * d
    OBVIOUS
  <2>2. c * d \in Nat
    OBVIOUS
  <2> QED BY <2>1, <2>2
<1>4. (2 * d) * 0 <= 2 * n + d
  OBVIOUS
<1>5. 0 <= Rounded(n, d) /\ Rounded(n, d) <= c /\ Rounded(n, d) \in Int
  BY <1>1, <1>3, <1>4, Division, DivisionBound DEF Rounded
<1> QED BY <1>5

LEMMA RoundedGrows ==
    ASSUME NEW d \in Nat \ {0}, NEW n \in Int, NEW m \in Int, n <= m
    PROVE  Rounded(n, d) <= Rounded(m, d)
<1> DEFINE q == Rounded(n, d)
<1>1. 2 * n + d \in Int /\ 2 * m + d \in Int /\ 2 * d \in Nat \ {0}
  OBVIOUS
<1>2. q \in Int /\ (2 * d) * q <= 2 * n + d
  BY <1>1, Division DEF Rounded
<1> HIDE DEF q
<1>3. (2 * d) * q <= 2 * m + d
  <2>1. (2 * d) * q \in Int
    BY <1>2
  <2> HIDE DEF q
  <2> QED BY <1>1, <1>2, <2>1
<1>4. q <= Rounded(m, d)
  BY <1>1, <1>2, <1>3, DivisionBound DEF Rounded
<1> QED BY <1>4 DEF q

-----------------------------------------------------------------------------
(* Faults *)

IsFaultState(state) ==
    /\ state = [occurrences |-> state.occurrences, applied |-> state.applied,
                recovered |-> state.recovered, pending |-> state.pending]
    /\ state.occurrences \in [FaultActions -> Nat]
    /\ state.occurrences["navigation"] = state.occurrences["read"]

(* No request came between the fault that is pending and now; a required   *)
(* fault that struck is recovered or pending; one whose occurrence has     *)
(* come struck, or fell on the retry of another.                           *)
Retried(faults, state) ==
    /\ state.pending # "none" =>
         \E h \in faults : /\ h.id = state.pending /\ h.required
                           /\ state.occurrences[h.action] = h.occurrence
    /\ \A f \in faults : f.required /\ f.id \in state.applied =>
         f.id \in state.recovered \/ f.id = state.pending
    /\ \A f \in faults : f.required /\ state.occurrences[f.action] >= f.occurrence =>
         f.id \in state.applied \/ \E h \in faults : Precedes(h, f)

FaultInv ==
    /\ suite \in Suites
    /\ IsFaultState(faultState)
    /\ attempt = "none" => faultState = emptyState
    /\ attempt = "running" /\ ActiveTask \notin strayed => Retried(Faults(ActiveTask), faultState)

(* The faults of one task of a valid suite. *)
IsSchedule(faults) ==
    /\ \A f \in faults : f.id # "none" /\ f.action \in FaultActions /\ f.occurrence \in Nat \ {0}
    /\ \A f, h \in faults : f.id = h.id => f = h
    /\ \A f, h \in faults :
         RequestClass(f.action) = RequestClass(h.action) /\ f.occurrence = h.occurrence => f = h

LEMMA SchedulesOfSuites ==
    ASSUME NEW s \in Suites, NEW task
    PROVE  IsSchedule(buildSessionScenarioFaultSchedule(s.graph, task))
<1>1. CASE s.graph = NoGraph
  BY <1>1 DEF NoGraph, buildSessionScenarioFaultSchedule, IsSchedule
<1>2. CASE s.graph # NoGraph
  <2>1. ValidGraph(s.graph)
    BY <1>2, SuitesAssumption DEF ValidSuite
  <2>2. /\ \A f \in s.graph.faults : f.id # "none" /\ f.action \in FaultActions
                                       /\ f.occurrence \in Nat \ {0}
        /\ Unique(s.graph.faults)
        /\ \A f, h \in s.graph.faults :
             /\ TaskOf(s.graph, f.node) = TaskOf(s.graph, h.node)
             /\ RequestClass(f.action) = RequestClass(h.action)
             /\ f.occurrence = h.occurrence
             => f = h
    BY <2>1 DEF ValidGraph, Ids
  <2> QED BY <2>2 DEF buildSessionScenarioFaultSchedule, IsSchedule, Unique
<1> QED BY <1>1, <1>2

LEMMA FreshFaults ==
    /\ IsFaultState(emptyState)
    /\ \A faults : IsSchedule(faults) => Retried(faults, emptyState)
<1>1. emptyState = [occurrences |-> [a \in FaultActions |-> 0], applied |-> {},
                    recovered |-> {}, pending |-> "none"]
  BY DEF emptyState
<1>2. IsFaultState(emptyState)
  BY <1>1 DEF IsFaultState, FaultActions
<1>3. ASSUME NEW faults, IsSchedule(faults) PROVE Retried(faults, emptyState)
  BY <1>1, <1>3 DEF Retried, IsSchedule
<1> QED BY <1>2, <1>3

(* One request: GET is a navigation and a read, POST a mutation. *)
LEMMA FaultObserved ==
    ASSUME NEW faults, IsSchedule(faults), NEW state, IsFaultState(state),
           NEW method \in {"GET", "POST"}
    PROVE  LET actions == ActionsOf(method)
               after == observeDeterministicFault(faults, state, actions).state
           IN  /\ IsFaultState(after)
               /\ /\ Retried(faults, state)
                  /\ state.pending \in {"none"} \cup Ids({f \in faults : f.action \in actions})
                  => Retried(faults, after)
<1> DEFINE actions == ActionsOf(method)
           counted == Counted(state, actions)
           awaited == {f \in faults : f.id = state.pending}
           due == Due(faults, counted, actions)
           after == observeDeterministicFault(faults, state, actions).state
<1>0. /\ actions \in {{"mutation"}, {"navigation", "read"}}
      /\ \A a, b \in actions : RequestClass(a) = RequestClass(b)
  BY DEF ActionsOf, RequestClass
<1>1. /\ counted = [occurrences |-> counted.occurrences, applied |-> state.applied,
                    recovered |-> state.recovered, pending |-> state.pending]
      /\ counted.occurrences \in [FaultActions -> Nat]
      /\ \A a \in FaultActions : counted.occurrences[a] =
           IF a \in actions THEN state.occurrences[a] + 1 ELSE state.occurrences[a]
  <2> HIDE DEF actions
  <2>1. counted = [state EXCEPT !.occurrences =
                    [a \in FaultActions |-> IF a \in actions THEN @[a] + 1 ELSE @[a]]]
    BY DEF Counted
  <2> QED BY <2>1 DEF IsFaultState
<1>2. IsFaultState(counted)
  <2> HIDE DEF counted, actions
  <2> QED BY <1>0, <1>1 DEF IsFaultState, FaultActions
<1> DEFINE Promptly == /\ Retried(faults, state)
                       /\ state.pending \in {"none"} \cup Ids({f \in faults : f.action \in actions})
           After(next) == IsFaultState(next) /\ (Promptly => Retried(faults, next))
<1> SUFFICES After(after)
  OBVIOUS
<1>3. \A f \in faults : /\ f.id # "none" /\ f.action \in FaultActions /\ f.occurrence \in Nat \ {0}
                        /\ counted.occurrences[f.action] \in Nat /\ state.occurrences[f.action] \in Nat
  BY <1>1 DEF IsSchedule, IsFaultState
<1>4. CASE faults = {}
  <2>1. after = state
    BY <1>4 DEF observeDeterministicFault
  <2> QED BY <2>1
<1>5. CASE \E h \in awaited : Retries(h, actions)
  <2>1. PICK h \in faults : h.id = state.pending /\ h.action \in actions
    BY <1>5 DEF Retries
  <2>2. after = [counted EXCEPT !.recovered = @ \cup {state.pending}, !.pending = "none"]
    BY <1>5 DEF observeDeterministicFault
  <2> HIDE DEF counted, actions, after
  <2>3. after = [occurrences |-> counted.occurrences, applied |-> state.applied,
                 recovered |-> state.recovered \cup {state.pending}, pending |-> "none"]
    <3>1. /\ counted = [occurrences |-> counted.occurrences, applied |-> counted.applied,
                        recovered |-> counted.recovered, pending |-> counted.pending]
          /\ counted.applied = state.applied /\ counted.recovered = state.recovered
      BY <1>1
    <3>2. after = [occurrences |-> counted.occurrences, applied |-> counted.applied,
                   recovered |-> counted.recovered \cup {state.pending}, pending |-> "none"]
      BY <2>2, <3>1
    <3> QED BY <3>1, <3>2
  <2>4. IsFaultState(after)
    BY <1>2, <2>3 DEF IsFaultState
  <2>5. ASSUME Promptly PROVE Retried(faults, after)
    <3>1. h.required /\ state.occurrences[h.action] = h.occurrence
      BY <1>3, <2>1, <2>5 DEF Retried, IsSchedule
    <3>2. ASSUME NEW f \in faults, f.required, after.occurrences[f.action] >= f.occurrence,
                 f.id \notin state.applied
          PROVE  \E g \in faults : Precedes(g, f)
      <4>1. CASE state.occurrences[f.action] >= f.occurrence
        BY <2>5, <3>2, <4>1 DEF Retried
      <4>2. CASE ~(state.occurrences[f.action] >= f.occurrence)
        <5>1. f.action \in actions /\ f.occurrence = state.occurrences[f.action] + 1
          BY <1>1, <1>3, <2>3, <3>2, <4>2
        <5>2. state.occurrences[f.action] = state.occurrences[h.action]
          BY <1>0, <2>1, <5>1 DEF IsFaultState
        <5>3. Precedes(h, f)
          BY <1>0, <2>1, <3>1, <5>1, <5>2 DEF Precedes
        <5> QED BY <2>1, <5>3
      <4> QED BY <4>1, <4>2
    <3>3. \A f \in faults : f.required /\ f.id \in after.applied => f.id \in after.recovered
      BY <2>3, <2>5 DEF Retried
    <3>4. after.pending = "none" /\ after.applied = state.applied
      BY <2>3
    <3> QED BY <3>2, <3>3, <3>4 DEF Retried
  <2> QED BY <2>4, <2>5
<1>6. CASE ~(\E h \in awaited : Retries(h, actions)) /\ (awaited # {} \/ due = {}) /\ faults # {}
  <2>1. after = counted
    BY <1>6 DEF observeDeterministicFault
  <2>2. ASSUME Promptly PROVE Retried(faults, counted)
    <3>1. state.pending = "none" /\ due = {}
      BY <1>3, <1>6, <2>2 DEF Retries, Ids
    <3> HIDE DEF actions, after
    <3>2. ASSUME NEW f \in faults, f.required, counted.occurrences[f.action] >= f.occurrence,
                 f.id \notin state.applied
          PROVE  \E g \in faults : Precedes(g, f)
      <4>1. ~(f.action \in actions /\ counted.occurrences[f.action] = f.occurrence)
        BY <1>1, <3>1, <3>2 DEF Due
      <4>2. state.occurrences[f.action] >= f.occurrence
        <5> HIDE DEF counted
        <5> QED BY <1>1, <1>3, <3>2, <4>1
      <4> QED BY <2>2, <3>2, <4>2 DEF Retried
    <3> HIDE DEF counted
    <3> QED BY <1>1, <2>2, <3>1, <3>2 DEF Retried
  <2> QED BY <1>2, <2>1, <2>2
<1>7. CASE awaited = {} /\ due # {} /\ faults # {}
  <2> DEFINE d == CHOOSE x \in due : TRUE
  <2>1. after = Strike(counted, d)
    BY <1>7 DEF observeDeterministicFault
  <2>2. d \in due
    BY <1>7
  <2>3. d \in faults /\ d.action \in actions /\ counted.occurrences[d.action] = d.occurrence
    BY <2>2 DEF Due
  <2> HIDE DEF d, actions, counted, after
  <2>4. after = [occurrences |-> counted.occurrences, applied |-> state.applied \cup {d.id},
                 recovered |-> state.recovered, pending |-> IF d.required THEN d.id ELSE "none"]
    <3>1. /\ counted = [occurrences |-> counted.occurrences, applied |-> counted.applied,
                        recovered |-> counted.recovered, pending |-> counted.pending]
          /\ counted.applied = state.applied /\ counted.recovered = state.recovered
      BY <1>1
    <3> DEFINE next == IF d.required THEN d.id ELSE "none"
    <3>2. after = [counted EXCEPT !.applied = @ \cup {d.id}, !.pending = next]
      BY <2>1 DEF Strike
    <3> HIDE DEF next
    <3>3. after = [occurrences |-> counted.occurrences, applied |-> counted.applied \cup {d.id},
                   recovered |-> counted.recovered, pending |-> next]
      BY <3>1, <3>2
    <3> QED BY <3>1, <3>3 DEF next
  <2>5. IsFaultState(after)
    BY <1>2, <2>4 DEF IsFaultState
  <2>6. ASSUME Promptly PROVE Retried(faults, after)
    <3>1. state.pending = "none"
      BY <1>7, <2>6 DEF Ids
    <3>2. ASSUME NEW f \in faults, f.required, counted.occurrences[f.action] >= f.occurrence,
                 f.id \notin after.applied
          PROVE  \E g \in faults : Precedes(g, f)
      <4>1. f # d /\ f.id \notin state.applied
        BY <2>4, <3>2
      <4>2. ~(f.action \in actions /\ counted.occurrences[f.action] = f.occurrence)
        <5> SUFFICES ASSUME f.action \in actions, counted.occurrences[f.action] = f.occurrence
                     PROVE  FALSE
          OBVIOUS
        <5>1. RequestClass(f.action) = RequestClass(d.action)
          BY <1>0, <2>3
        <5>2. f.occurrence = d.occurrence
          BY <1>0, <1>2, <2>3 DEF IsFaultState
        <5> QED BY <2>3, <4>1, <5>1, <5>2 DEF IsSchedule
      <4>3. state.occurrences[f.action] >= f.occurrence
        BY <1>1, <1>3, <3>2, <4>2
      <4> QED BY <2>6, <3>2, <4>1, <4>3 DEF Retried
    <3>3. ASSUME NEW f \in faults, f.required, f.id \in after.applied
          PROVE  f.id \in after.recovered \/ f.id = after.pending
      <4>1. CASE f.id = d.id
        <5>1. f = d
          BY <2>3, <4>1 DEF IsSchedule
        <5> QED BY <2>4, <3>3, <5>1
      <4>2. CASE f.id # d.id
        BY <1>3, <2>4, <2>6, <3>1, <3>3, <4>2 DEF Retried
      <4> QED BY <4>1, <4>2
    <3>4. after.pending # "none" => d.required /\ after.pending = d.id
      BY <2>4
    <3>5. after.occurrences = counted.occurrences
      BY <2>4
    <3> HIDE DEF Promptly
    <3>6. after.pending # "none" =>
            \E h \in faults : /\ h.id = after.pending /\ h.required
                              /\ after.occurrences[h.action] = h.occurrence
      BY <2>3, <3>4, <3>5
    <3> QED BY <3>2, <3>3, <3>5, <3>6 DEF Retried
  <2> QED BY <2>5, <2>6
<1> HIDE DEF after, counted, due, awaited, After
<1> QED BY <1>4, <1>5, <1>6, <1>7

LEMMA FaultInvInit ==
    ASSUME ScoringInit PROVE FaultInv
  BY FreshFaults DEF ScoringInit, FaultInv

LEMMA FaultInvStep ==
    ASSUME FaultInv, ScoringStep PROVE FaultInv'
<1>0. suite' = suite /\ suite \in Suites
  BY DEF FaultInv, ScoringStep, CreateAttempt, ScoringNext, Request, Edit, FinishSession,
         CancelAttempt, scoringVars
<1>a. \A task : IsSchedule(Faults(task))
  BY <1>0, SchedulesOfSuites DEF Faults
<1>b. \A task : Faults(task)' = Faults(task)
  BY <1>0 DEF Faults
<1>1. CASE CreateAttempt
  BY <1>0, <1>1, <1>a, <1>b, FreshFaults DEF CreateAttempt, FaultInv
<1>2. ASSUME NEW method \in {"GET", "POST"}, Request(method) PROVE FaultInv'
  <2> DEFINE actions == ActionsOf(method)
             after == observeDeterministicFault(Faults(ActiveTask), faultState, actions).state
  <2>1. /\ attempt = "running" /\ attempt' = "running" /\ faultState' = after
        /\ ActiveTask' = ActiveTask
    BY <1>2 DEF Request, ActiveTask
  <2>2. ActiveTask \notin strayed' =>
          /\ ActiveTask \notin strayed
          /\ faultState.pending \in {"none"} \cup Ids({f \in Faults(ActiveTask) : f.action \in actions})
    BY <1>2 DEF Request
  <2>3. /\ IsFaultState(after)
        /\ /\ Retried(Faults(ActiveTask), faultState)
           /\ faultState.pending \in {"none"} \cup Ids({f \in Faults(ActiveTask) : f.action \in actions})
           => Retried(Faults(ActiveTask), after)
    BY <1>a, FaultObserved DEF FaultInv
  <2> HIDE DEF after, actions
  <2> QED BY <1>0, <1>b, <2>1, <2>2, <2>3 DEF FaultInv
<1>3. ASSUME NEW field \in suite.fields, Edit(field) PROVE FaultInv'
  BY <1>0, <1>3, <1>b DEF Edit, FaultInv, ActiveTask
<1>4. ASSUME NEW findings, NEW values, FinishSession(findings, values) PROVE FaultInv'
  <2>1. faultState' = emptyState
    BY <1>4 DEF FinishSession
  <2> QED BY <1>0, <2>1, <1>a, <1>b, FreshFaults DEF FaultInv
<1>5. CASE CancelAttempt
  BY <1>0, <1>5 DEF CancelAttempt, FaultInv
<1>6. CASE UNCHANGED scoringVars
  BY <1>6 DEF scoringVars, FaultInv, ActiveTask, Faults
<1> QED BY <1>1, <1>2, <1>3, <1>4, <1>5, <1>6 DEF ScoringStep, ScoringNext

LEMMA ReachKept ==
    ASSUME FaultInv PROVE FaultsInReach
<1> SUFFICES ASSUME attempt = "running", ActiveTask \notin strayed,
                    NEW f \in Faults(ActiveTask), f.required, OutOfReach(f, faultState)
             PROVE  \E h \in Faults(ActiveTask) : Precedes(h, f)
  BY DEF FaultsInReach
<1>1. Retried(Faults(ActiveTask), faultState)
  BY DEF FaultInv
<1> QED BY <1>1 DEF Retried, OutOfReach

-----------------------------------------------------------------------------
(* The sessions that are finished *)

IsSession(s) ==
    s = [task |-> s.task, variant |-> s.variant, status |-> s.status, score |-> s.score,
         evaluators |-> s.evaluators, recovered |-> s.recovered, cost |-> s.cost]

(* The sessions of the first n tasks, each finished once. *)
FirstFinished(tasks, sessions, n) ==
    /\ \A s \in sessions : IsSession(s) /\ \E i \in 1..n : s.task = tasks[i]
    /\ \A i \in 1..n : \E s \in sessions : s.task = tasks[i]
    /\ \A s, t \in sessions : s.task = t.task => s = t

(* The outcome, which comes with the last session, is what all of them and *)
(* the telemetry amount to.                                                *)
EvidenceInv ==
    /\ suite \in Suites
    /\ IsFiniteSet(evidence) /\ Cardinality(evidence) <= Len(suite.tasks)
    /\ FirstFinished(suite.tasks, evidence, Cardinality(evidence))
    /\ attempt \in {"none", "running", "cancelled", "completed", "failed"}
    /\ attempt = "none" => evidence = {}
    /\ attempt = "running" => Cardinality(evidence) < Len(suite.tasks)
    /\ attempt \in {"completed", "failed"} =>
         /\ Cardinality(evidence) = Len(suite.tasks)
         /\ outcome = aggregateSuiteScore(suite, WithCosts(evidence), carried)
    /\ attempt \notin {"completed", "failed"} => outcome = NoOutcome

LEMMA TasksDistinct ==
    ASSUME NEW s \in Suites
    PROVE  /\ s.tasks \in Seq(TasksOf(s)) /\ Len(s.tasks) \in Nat \ {0}
           /\ \A i, j \in 1..Len(s.tasks) : s.tasks[i] = s.tasks[j] => i = j
           /\ TasksOf(s) = {s.tasks[i] : i \in 1..Len(s.tasks)}
<1> DEFINE q == s.tasks
           T == TasksOf(s)
<1>1. /\ q \in Seq(T) \ {<<>>}
      /\ \A i, j \in DOMAIN q : q[i] = q[j] => i = j
  BY SuitesAssumption DEF ValidSuite
<1>2. T = {q[i] : i \in DOMAIN q}
  BY DEF TasksOf
<1>3. /\ q \in Seq(T) /\ Len(q) \in Nat \ {0}
      /\ \A i, j \in 1..Len(q) : q[i] = q[j] => i = j
      /\ T = {q[i] : i \in 1..Len(q)}
  <2> HIDE DEF q, T
  <2>1. q \in Seq(T) /\ DOMAIN q = 1..Len(q) /\ Len(q) \in Nat
    BY <1>1
  <2>2. Len(q) # 0
    BY <1>1
  <2> QED BY <1>1, <1>2, <2>1, <2>2
<1> QED BY <1>3

LEMMA EvidenceInvInit ==
    ASSUME ScoringInit PROVE EvidenceInv
<1>1. /\ suite \in Suites /\ evidence = {} /\ attempt = "none" /\ outcome = NoOutcome
  BY DEF ScoringInit
<1>2. Len(suite.tasks) \in Nat
  BY <1>1, TasksDistinct
<1> QED BY <1>1, <1>2, FS_EmptySet DEF EvidenceInv, FirstFinished

(* One session more. *)
LEMMA SessionFinished ==
    ASSUME EvidenceInv, attempt = "running", NEW findings, NEW values, FinishSession(findings, values)
    PROVE  LET r == [task |-> ActiveTask, variant |-> variant[ActiveTask],
                     status |-> aggregateStrictScore({EvaluatorResult(e, findings[e]) :
                                   e \in suite.evaluators[ActiveTask]}).status,
                     score |-> aggregateStrictScore({EvaluatorResult(e, findings[e]) :
                                   e \in suite.evaluators[ActiveTask]}).score,
                     evaluators |-> {EvaluatorResult(e, findings[e]) : e \in suite.evaluators[ActiveTask]},
                     recovered |-> faultState.recovered, cost |-> 0]
           IN  /\ evidence' = evidence \cup {r} /\ r \notin evidence
               /\ IsFiniteSet(evidence') /\ Cardinality(evidence') = Cardinality(evidence) + 1
               /\ \A s \in evidence : s.task # ActiveTask
<1> DEFINE r == [task |-> ActiveTask, variant |-> variant[ActiveTask],
                 status |-> aggregateStrictScore({EvaluatorResult(e, findings[e]) :
                               e \in suite.evaluators[ActiveTask]}).status,
                 score |-> aggregateStrictScore({EvaluatorResult(e, findings[e]) :
                               e \in suite.evaluators[ActiveTask]}).score,
                 evaluators |-> {EvaluatorResult(e, findings[e]) : e \in suite.evaluators[ActiveTask]},
                 recovered |-> faultState.recovered, cost |-> 0]
<1>1. evidence' = evidence \cup {r}
  BY DEF FinishSession
<1>2. Cardinality(evidence) \in Nat
  BY FS_CardinalityType DEF EvidenceInv
<1>3. \A s \in evidence : s.task # ActiveTask
  <2>1. SUFFICES ASSUME NEW i \in 1..Cardinality(evidence),
                        suite.tasks[i] = suite.tasks[Cardinality(evidence) + 1]
                 PROVE  FALSE
    BY DEF EvidenceInv, FirstFinished, ActiveTask
  <2>2. /\ i \in 1..Len(suite.tasks) /\ Cardinality(evidence) + 1 \in 1..Len(suite.tasks)
        /\ suite \in Suites
    BY <1>2, TasksDistinct DEF EvidenceInv
  <2>3. i = Cardinality(evidence) + 1
    BY <2>1, <2>2, TasksDistinct
  <2> QED BY <1>2, <2>3
<1>4. r.task = ActiveTask
  OBVIOUS
<1> HIDE DEF r
<1>5. r \notin evidence
  BY <1>3, <1>4
<1>6. IsFiniteSet(evidence') /\ Cardinality(evidence') = Cardinality(evidence) + 1
  BY <1>1, <1>5, FS_AddElement DEF EvidenceInv
<1> QED BY <1>1, <1>3, <1>5, <1>6 DEF r

LEMMA EvidenceInvStep ==
    ASSUME EvidenceInv, ScoringStep PROVE EvidenceInv'
<1>0. suite' = suite /\ suite \in Suites
  BY DEF EvidenceInv, ScoringStep, CreateAttempt, ScoringNext, Request, Edit, FinishSession,
         CancelAttempt, scoringVars
<1>1. CASE CreateAttempt
  <2>1. Cardinality(evidence) = 0 /\ Len(suite.tasks) \in Nat \ {0}
    BY <1>0, <1>1, TasksDistinct, FS_EmptySet DEF CreateAttempt, EvidenceInv
  <2> QED BY <1>1, <2>1 DEF CreateAttempt, EvidenceInv
<1>2. CASE (\E method \in {"GET", "POST"} : Request(method)) \/ (\E field \in suite.fields : Edit(field))
           \/ CancelAttempt
  <2>1. /\ UNCHANGED <<suite, evidence, outcome>> /\ attempt = "running"
        /\ attempt' \in {"running", "cancelled"}
    BY <1>2 DEF Request, Edit, CancelAttempt
  <2> QED BY <2>1 DEF EvidenceInv
<1>3. ASSUME NEW findings, NEW values, attempt = "running", FinishSession(findings, values)
      PROVE  EvidenceInv'
  <2> DEFINE n == Cardinality(evidence)
  <2>1. PICK r : /\ r.task = ActiveTask /\ IsSession(r)
                 /\ evidence' = evidence \cup {r} /\ r \notin evidence
                 /\ IsFiniteSet(evidence') /\ Cardinality(evidence') = n + 1
                 /\ \A s \in evidence : s.task # ActiveTask
    BY <1>3, SessionFinished DEF IsSession
  <2>2. n \in Nat /\ n < Len(suite.tasks) /\ Len(suite.tasks) \in Nat
    BY <1>3, FS_CardinalityType, TasksDistinct DEF EvidenceInv
  <2>3. r.task = suite.tasks[n + 1]
    BY <2>1 DEF ActiveTask
  <2>4. FirstFinished(suite.tasks, evidence', n + 1)
    <3>1. FirstFinished(suite.tasks, evidence, n)
      BY DEF EvidenceInv
    <3>2. 1..(n + 1) = (1..n) \cup {n + 1}
      BY <2>2
    <3> HIDE DEF n
    <3> QED BY <2>1, <2>3, <3>1, <3>2 DEF FirstFinished
  <2>5. /\ n + 1 < Len(suite.tasks) => attempt' = "running" /\ outcome' = outcome
        /\ n + 1 = Len(suite.tasks) =>
             /\ attempt' \in {"completed", "failed"}
             /\ outcome' = aggregateSuiteScore(suite, WithCosts(evidence)', carried')
    <3>1. telemetry' = telemetry
      BY <1>3 DEF FinishSession
    <3>2. WithCosts(evidence)' = WithCosts(evidence')
      BY <3>1 DEF WithCosts
    <3>3. n + 1 < Len(suite.tasks) => attempt' = "running" /\ outcome' = outcome
      BY <1>3, <2>1 DEF FinishSession
    <3>4. n + 1 = Len(suite.tasks) =>
             /\ attempt' \in {"completed", "failed"}
             /\ outcome' = aggregateSuiteScore(suite, WithCosts(evidence'), carried')
      BY <1>3, <2>1, <2>2 DEF FinishSession
    <3> QED BY <3>2, <3>3, <3>4
  <2>6. n + 1 < Len(suite.tasks) \/ n + 1 = Len(suite.tasks)
    BY <2>2
  <2>7. outcome = NoOutcome
    BY <1>3 DEF EvidenceInv
  <2>8. Cardinality(evidence)' = n + 1
    BY <2>1
  <2> HIDE DEF n
  <2>9. CASE n + 1 < Len(suite.tasks)
    BY <1>0, <2>1, <2>2, <2>4, <2>5, <2>7, <2>8, <2>9 DEF EvidenceInv
  <2>10. CASE n + 1 = Len(suite.tasks)
    BY <1>0, <2>1, <2>2, <2>4, <2>5, <2>8, <2>10 DEF EvidenceInv
  <2> QED BY <2>6, <2>9, <2>10
<1>4. CASE UNCHANGED scoringVars
  BY <1>4 DEF scoringVars, EvidenceInv, WithCosts
<1> QED BY <1>1, <1>2, <1>3, <1>4 DEF ScoringStep, ScoringNext

-----------------------------------------------------------------------------
(* The verdict of a suite *)

LEMMA Verdicts ==
    ASSUME NEW parts
    PROVE  /\ Verdict(parts) \in Statuses
           /\ Verdict(parts) = "passed" <=> \A p \in parts : p.status = "passed"
  BY DEF Verdict, Statuses

Scored == EvidenceInv /\ Cardinality(evidence) = Len(suite.tasks)

(* What the pipeline is given of a task, and what it is about. *)
Costed == WithCosts(evidence)
Given(task) == CHOOSE s \in Costed : s.task = task

SameSession(s, t) ==
    /\ t.task = s.task /\ t.variant = s.variant /\ t.status = s.status /\ t.score = s.score
    /\ t.evaluators = s.evaluators /\ t.recovered = s.recovered

LEMMA OneOfEach ==
    ASSUME Scored
    PROVE  /\ \A task \in TasksOf(suite) :
                /\ SessionOf(task) \in evidence /\ SessionOf(task).task = task
                /\ Given(task) \in Costed /\ SameSession(SessionOf(task), Given(task))
           /\ \A s \in evidence : s.task \in TasksOf(suite) /\ SessionOf(s.task) = s
           /\ \A t \in Costed : t.task \in TasksOf(suite) /\ Given(t.task) = t
<1>1. /\ suite \in Suites /\ TasksOf(suite) = {suite.tasks[i] : i \in 1..Len(suite.tasks)}
      /\ FirstFinished(suite.tasks, evidence, Len(suite.tasks))
  BY TasksDistinct DEF Scored, EvidenceInv
<1>2. /\ \A s \in evidence : IsSession(s) /\ s.task \in TasksOf(suite)
      /\ \A task \in TasksOf(suite) : \E s \in evidence : s.task = task
      /\ \A s, t \in evidence : s.task = t.task => s = t
  BY <1>1 DEF FirstFinished
<1>3. ASSUME NEW task \in TasksOf(suite)
      PROVE  SessionOf(task) \in evidence /\ SessionOf(task).task = task
  BY <1>2 DEF SessionOf
<1>4. \A s \in evidence : SessionOf(s.task) = s
  BY <1>2, <1>3
<1> DEFINE Cost(s) == ActionCost(telemetry, s.task)
           C(s) == [s EXCEPT !.cost = Cost(s)]
<1>5. Costed = {C(s) : s \in evidence}
  BY DEF Costed, WithCosts
<1>6. ASSUME NEW s \in evidence PROVE SameSession(s, C(s))
  <2> HIDE DEF Cost
  <2> QED BY <1>2 DEF IsSession, SameSession
<1> HIDE DEF C, Cost
<1>7. ASSUME NEW t \in Costed PROVE \E s \in evidence : t = C(s) /\ t.task = s.task
  BY <1>5, <1>6 DEF SameSession
<1>8. \A t, u \in Costed : t.task = u.task => t = u
  BY <1>2, <1>7
<1>9. ASSUME NEW task \in TasksOf(suite)
      PROVE  Given(task) \in Costed /\ SameSession(SessionOf(task), Given(task))
  <2>1. C(SessionOf(task)) \in Costed /\ SameSession(SessionOf(task), C(SessionOf(task)))
    BY <1>3, <1>5, <1>6
  <2>2. C(SessionOf(task)).task = task
    BY <1>3, <2>1 DEF SameSession
  <2>3. Given(task) \in Costed /\ Given(task).task = task
    BY <2>1, <2>2 DEF Given
  <2>4. Given(task) = C(SessionOf(task))
    BY <1>8, <2>1, <2>2, <2>3
  <2> QED BY <2>1, <2>3, <2>4
<1>10. ASSUME NEW t \in Costed PROVE t.task \in TasksOf(suite) /\ Given(t.task) = t
  <2>1. t.task \in TasksOf(suite)
    BY <1>2, <1>7
  <2>2. Given(t.task) \in Costed /\ Given(t.task).task = t.task
    BY <1>3, <1>9, <2>1 DEF SameSession
  <2> QED BY <1>8, <2>1, <2>2
<1> QED BY <1>2, <1>3, <1>4, <1>9, <1>10

-----------------------------------------------------------------------------
(* The scenario graph *)

Outcomes == buildScenarioOutcomes(suite.graph, Costed)

LEMMA GraphsOfSuites ==
    ASSUME suite \in Suites
    PROVE  /\ Unique(suite.graph.nodes) /\ Unique(suite.graph.edges) /\ Unique(suite.graph.faults)
           /\ \A n \in suite.graph.nodes : n.task \in TasksOf(suite)
           /\ \A e \in suite.graph.edges :
                /\ NodeOf(e.from) \in suite.graph.nodes /\ NodeOf(e.from).id = e.from
                /\ NodeOf(e.to) \in suite.graph.nodes /\ NodeOf(e.to).id = e.to
           /\ \A f \in suite.graph.faults :
                NodeOf(f.node) \in suite.graph.nodes /\ NodeOf(f.node).id = f.node
<1>1. CASE suite.graph = NoGraph
  BY <1>1 DEF NoGraph, Unique
<1>2. CASE suite.graph # NoGraph
  <2>1. ValidGraph(suite.graph) /\ \A n \in suite.graph.nodes : n.task \in TasksOf(suite)
    BY <1>2, SuitesAssumption DEF ValidSuite
  <2>2. /\ \A e \in suite.graph.edges : e.from \in Ids(suite.graph.nodes) /\ e.to \in Ids(suite.graph.nodes)
        /\ \A f \in suite.graph.faults : f.node \in Ids(suite.graph.nodes)
        /\ Unique(suite.graph.nodes) /\ Unique(suite.graph.edges) /\ Unique(suite.graph.faults)
    BY <2>1 DEF ValidGraph
  <2>3. \A id \in Ids(suite.graph.nodes) : NodeOf(id) \in suite.graph.nodes /\ NodeOf(id).id = id
    BY DEF Ids, NodeOf
  <2> QED BY <2>1, <2>2, <2>3
<1> QED BY <1>1, <1>2

(* One session for each task, under its name.                              *)
OnePerTask(S, u) ==
    S = {u[t] : t \in TasksOf(suite)} /\ \A t \in TasksOf(suite) : u[t].task = t

LEMMA OutcomesAre ==
    ASSUME suite \in Suites, NEW S, NEW u, OnePerTask(S, u), NEW n \in suite.graph.nodes
    PROVE  LET O == buildScenarioOutcomes(suite.graph, S)
           IN  /\ n.id \in DOMAIN O <=> OutcomeKnown(n, u[n.task])
               /\ n.id \in DOMAIN O => O[n.id] = Outcome(suite.graph, n, u[n.task])
<1> DEFINE O == buildScenarioOutcomes(suite.graph, S)
           Reported == {m \in suite.graph.nodes : \E s \in S : OutcomeKnown(m, s)}
           Of(id) == CHOOSE m \in Reported : m.id = id
<1>1. O = [id \in {m.id : m \in Reported} |->
             Outcome(suite.graph, Of(id), CHOOSE s \in S : s.task = Of(id).task)]
  BY DEF buildScenarioOutcomes
<1>2. Unique(suite.graph.nodes) /\ n.task \in TasksOf(suite)
  BY GraphsOfSuites
<1>3. u[n.task] \in S /\ u[n.task].task = n.task /\ \A s \in S : s.task = n.task => s = u[n.task]
  BY <1>2 DEF OnePerTask
<1>4. n \in Reported <=> OutcomeKnown(n, u[n.task])
  BY <1>3 DEF OutcomeKnown
<1>5. n.id \in {m.id : m \in Reported} <=> n \in Reported
  BY <1>2 DEF Unique
<1>6. n \in Reported => Of(n.id) = n
  BY <1>2 DEF Unique
<1>7. (CHOOSE s \in S : s.task = n.task) = u[n.task]
  BY <1>3
<1> HIDE DEF Reported, Of
<1>8. DOMAIN O = {m.id : m \in Reported}
  BY <1>1
<1>9. n \in Reported => O[n.id] = Outcome(suite.graph, n, u[n.task])
  BY <1>1, <1>5, <1>6, <1>7
<1> QED BY <1>4, <1>5, <1>8, <1>9

(* A node has an outcome unless it is a distractor that was left alone. *)
LEMMA NodeOutcome ==
    ASSUME Scored, NEW n \in suite.graph.nodes
    PROVE  /\ n.id \in DOMAIN Outcomes <=>
                (n.kind = "distractor" => ~Proven(SessionOf(n.task), n.proof))
           /\ n.id \in DOMAIN Outcomes => Outcomes[n.id] = Outcome(suite.graph, n, Given(n.task))
<1> DEFINE u == [t \in TasksOf(suite) |-> Given(t)]
<1>1. suite \in Suites /\ n.task \in TasksOf(suite)
  BY GraphsOfSuites DEF Scored, EvidenceInv
<1>2. OnePerTask(Costed, u)
  BY OneOfEach DEF OnePerTask, SameSession
<1>3. u[n.task] = Given(n.task)
  BY <1>1
<1> HIDE DEF u
<1>4. /\ n.id \in DOMAIN Outcomes <=> OutcomeKnown(n, u[n.task])
      /\ n.id \in DOMAIN Outcomes => Outcomes[n.id] = Outcome(suite.graph, n, u[n.task])
  BY <1>1, <1>2, OutcomesAre DEF Outcomes
<1>5. Given(n.task).task = n.task /\ Given(n.task).evaluators = SessionOf(n.task).evaluators
  BY <1>1, OneOfEach DEF SameSession
<1>6. OutcomeKnown(n, Given(n.task)) <=> (n.kind = "distractor" => ~Proven(SessionOf(n.task), n.proof))
  BY <1>5 DEF OutcomeKnown, Proven
<1> QED BY <1>3, <1>4, <1>6

LEMMA NodePasses ==
    ASSUME Scored, NEW n \in suite.graph.nodes
    PROVE  NodeStatus(n, Outcomes) = "passed" <=> PlayedRight(n)
<1>1. n.kind # "distractor" =>
        n.id \in DOMAIN Outcomes /\ Outcomes[n.id].status = SessionOf(n.task).status
  <2> SUFFICES ASSUME n.kind # "distractor"
               PROVE  n.id \in DOMAIN Outcomes /\ Outcomes[n.id].status = SessionOf(n.task).status
    OBVIOUS
  <2>1. n.id \in DOMAIN Outcomes /\ Outcomes[n.id] = Outcome(suite.graph, n, Given(n.task))
    BY NodeOutcome
  <2>2. Outcome(suite.graph, n, Given(n.task)).status = Given(n.task).status
    BY DEF Outcome
  <2>3. Given(n.task).status = SessionOf(n.task).status
    BY OneOfEach, GraphsOfSuites DEF Scored, EvidenceInv, SameSession
  <2> QED BY <2>1, <2>2, <2>3
<1>2. CASE n.kind = "distractor"
  BY <1>2, NodeOutcome DEF NodeStatus, PlayedRight
<1>3. CASE n.kind # "distractor"
  BY <1>1, <1>3 DEF NodeStatus, PlayedRight
<1> QED BY <1>2, <1>3

(* The results of an edge and of a fault, as the code computes them. *)
EdgeEnds(e, O) == {NodeStatus(NodeOf(e.from), O), NodeStatus(NodeOf(e.to), O)}
EdgeHeld(e, O) ==
    /\ EdgeEnds(e, O) = {"passed"}
    /\ e.relation = "revises" => e.to \in DOMAIN O /\ e.from \in O[e.to].revised
EdgeStatus(e, O) ==
    IF "error" \in EdgeEnds(e, O) THEN "error" ELSE IF EdgeHeld(e, O) THEN "passed" ELSE "failed"
EdgePart(e, O) ==
    Part(<<"edge", e.id>>, EdgeStatus(e, O), IF EdgeHeld(e, O) THEN Unit ELSE 0, e.weight, e.required)

FaultHealed(f, O) == f.node \in DOMAIN O /\ f.id \in O[f.node].recovered
FaultStatus(f, O) ==
    IF f.node \in DOMAIN O /\ O[f.node].status = "error" THEN "error"
    ELSE IF FaultHealed(f, O) THEN "passed" ELSE "failed"
FaultPart(f, O) ==
    Part(<<"fault", f.id>>, FaultStatus(f, O), IF FaultHealed(f, O) THEN Unit ELSE 0,
         f.weight, f.required)

LEMMA EdgePasses ==
    ASSUME Scored, NEW e \in suite.graph.edges
    PROVE  EdgeStatus(e, Outcomes) = "passed" <=>
             PlayedRight(NodeOf(e.from)) /\ PlayedRight(NodeOf(e.to)) /\ Revises(e)
<1> DEFINE a == NodeOf(e.from)
           b == NodeOf(e.to)
           Revised == e.to \in DOMAIN Outcomes /\ e.from \in Outcomes[e.to].revised
<1>1. a \in suite.graph.nodes /\ b \in suite.graph.nodes /\ b.id = e.to /\ b.task \in TasksOf(suite)
  BY GraphsOfSuites DEF Scored, EvidenceInv
<1>2. /\ NodeStatus(a, Outcomes) = "passed" <=> PlayedRight(a)
      /\ NodeStatus(b, Outcomes) = "passed" <=> PlayedRight(b)
  BY <1>1, NodePasses
<1>3. Revised <=>
        /\ b.kind # "distractor"
        /\ \E d \in suite.graph.edges :
             /\ d.relation = "revises" /\ d.from = e.from /\ d.to = e.to
             /\ Proven(SessionOf(b.task), d.proof)
  <2> HIDE DEF a, b
  <2>1. CASE b.kind = "distractor"
    <3>1. e.to \in DOMAIN Outcomes => Outcomes[e.to] = Outcome(suite.graph, b, Given(b.task))
      BY <1>1, NodeOutcome
    <3>2. Outcome(suite.graph, b, Given(b.task)).revised = {}
      BY <2>1 DEF Outcome
    <3> QED BY <2>1, <3>1, <3>2
  <2>2. CASE b.kind # "distractor"
    <3>1. e.to \in DOMAIN Outcomes /\ Outcomes[e.to] = Outcome(suite.graph, b, Given(b.task))
      BY <1>1, <2>2, NodeOutcome
    <3>2. Outcome(suite.graph, b, Given(b.task)).revised =
            {d.from : d \in {x \in suite.graph.edges : /\ x.relation = "revises"
                                                      /\ x.to = b.id
                                                      /\ Proven(Given(b.task), x.proof)}}
      BY <2>2 DEF Outcome
    <3>3. \A p : Proven(Given(b.task), p) <=> Proven(SessionOf(b.task), p)
      BY <1>1, OneOfEach DEF SameSession, Proven
    <3> QED BY <1>1, <2>2, <3>1, <3>2, <3>3
  <2> QED BY <2>1, <2>2
<1>4. EdgeStatus(e, Outcomes) = IF "error" \in {NodeStatus(a, Outcomes), NodeStatus(b, Outcomes)} THEN "error"
        ELSE IF /\ {NodeStatus(a, Outcomes), NodeStatus(b, Outcomes)} = {"passed"}
                /\ e.relation = "revises" => Revised
             THEN "passed" ELSE "failed"
  BY DEF EdgeStatus, EdgeHeld, EdgeEnds
<1>5. Revises(e) <=> (e.relation = "revises" => Revised)
  BY <1>3 DEF Revises
<1> HIDE DEF a, b, Revised
<1> QED BY <1>2, <1>4, <1>5 DEF a, b

LEMMA FaultPasses ==
    ASSUME Scored, NEW f \in suite.graph.faults
    PROVE  FaultStatus(f, Outcomes) = "passed" <=>
             Recovered(f) /\ SessionOf(NodeOf(f.node).task).status # "error"
<1> DEFINE n == NodeOf(f.node)
<1>1. n \in suite.graph.nodes /\ n.id = f.node /\ n.task \in TasksOf(suite)
  BY GraphsOfSuites DEF Scored, EvidenceInv
<1>2. f.node \in DOMAIN Outcomes => Outcomes[f.node] = Outcome(suite.graph, n, Given(n.task))
  BY <1>1, NodeOutcome
<1>3. CASE n.kind = "distractor"
  <2>1. Outcome(suite.graph, n, Given(n.task)).recovered = {}
    BY <1>3 DEF Outcome
  <2> QED BY <1>2, <1>3, <2>1 DEF FaultStatus, FaultHealed, Recovered
<1>4. CASE n.kind # "distractor"
  <2>1. f.node \in DOMAIN Outcomes
    BY <1>1, <1>4, NodeOutcome
  <2>2. /\ Outcome(suite.graph, n, Given(n.task)).recovered = Given(n.task).recovered
        /\ Outcome(suite.graph, n, Given(n.task)).status = Given(n.task).status
    BY <1>4 DEF Outcome
  <2>3. /\ Given(n.task).recovered = SessionOf(n.task).recovered
        /\ Given(n.task).status = SessionOf(n.task).status
    BY <1>1, OneOfEach DEF SameSession
  <2> QED BY <1>2, <1>4, <2>1, <2>2, <2>3 DEF FaultStatus, FaultHealed, Recovered
<1> QED BY <1>3, <1>4

LEMMA EdgePartIs ==
    ASSUME NEW e, NEW O
    PROVE  /\ EdgePart(e, O).id = <<"edge", e.id>> /\ EdgePart(e, O).status = EdgeStatus(e, O)
           /\ EdgePart(e, O).score = IF EdgeHeld(e, O) THEN Unit ELSE 0
           /\ EdgePart(e, O).weight = e.weight /\ EdgePart(e, O).required = e.required
  BY DEF EdgePart, Part

LEMMA FaultPartIs ==
    ASSUME NEW f, NEW O
    PROVE  /\ FaultPart(f, O).id = <<"fault", f.id>> /\ FaultPart(f, O).status = FaultStatus(f, O)
           /\ FaultPart(f, O).score = IF FaultHealed(f, O) THEN Unit ELSE 0
           /\ FaultPart(f, O).weight = f.weight /\ FaultPart(f, O).required = f.required
  BY DEF FaultPart, Part

(* An edge and a fault have one result each, which bears their id. *)
LEMMA ResultsOfGraph ==
    ASSUME suite \in Suites, NEW O
    PROVE  /\ EdgeResults(suite.graph, O) = {EdgePart(e, O) : e \in suite.graph.edges}
           /\ FaultResults(suite.graph, O) = {FaultPart(f, O) : f \in suite.graph.faults}
           /\ \A e \in suite.graph.edges :
                (CHOOSE p \in EdgeResults(suite.graph, O) : p.id = <<"edge", e.id>>) = EdgePart(e, O)
           /\ \A f \in suite.graph.faults :
                (CHOOSE p \in FaultResults(suite.graph, O) : p.id = <<"fault", f.id>>) = FaultPart(f, O)
<1>1. EdgeResults(suite.graph, O) = {EdgePart(e, O) : e \in suite.graph.edges}
  BY DEF EdgeResults, EdgePart, EdgeStatus, EdgeHeld, EdgeEnds, NodeOf
<1>2. FaultResults(suite.graph, O) = {FaultPart(f, O) : f \in suite.graph.faults}
  BY DEF FaultResults, FaultPart, FaultStatus, FaultHealed
<1>3. /\ \A e, d \in suite.graph.edges : <<"edge", e.id>> = <<"edge", d.id>> => e = d
      /\ \A f, h \in suite.graph.faults : <<"fault", f.id>> = <<"fault", h.id>> => f = h
  BY GraphsOfSuites DEF Unique
<1>4. ASSUME NEW e \in suite.graph.edges
      PROVE  (CHOOSE x \in EdgeResults(suite.graph, O) : x.id = <<"edge", e.id>>) = EdgePart(e, O)
  BY <1>1, <1>3, EdgePartIs
<1>5. ASSUME NEW f \in suite.graph.faults
      PROVE  (CHOOSE x \in FaultResults(suite.graph, O) : x.id = <<"fault", f.id>>) = FaultPart(f, O)
  BY <1>2, <1>3, FaultPartIs
<1> QED BY <1>1, <1>2, <1>4, <1>5

LEMMA NodeParts ==
    ASSUME NEW O
    PROVE  /\ \A p \in NodeResults(suite.graph, O) :
                p.required /\ \E n \in suite.graph.nodes : p.status = NodeStatus(n, O)
           /\ \A n \in suite.graph.nodes : \E p \in NodeResults(suite.graph, O) :
                p.required /\ p.status = NodeStatus(n, O)
<1> DEFINE yes == TRUE
           Score(n) == IF NodeStatus(n, O) # "passed" THEN 0
                       ELSE IF n.kind = "distractor" THEN Unit ELSE O[n.id].score
           N(n) == Part(<<"node", n.id>>, NodeStatus(n, O), Score(n), n.weight, yes)
<1>1. NodeResults(suite.graph, O) = {N(n) : n \in suite.graph.nodes}
  BY DEF NodeResults
<1>2. yes
  OBVIOUS
<1> HIDE DEF yes, Score
<1>3. \A n : N(n).status = NodeStatus(n, O) /\ N(n).required = yes
  BY DEF Part
<1> HIDE DEF N
<1> QED BY <1>1, <1>2, <1>3

LEMMA GraphPasses ==
    ASSUME Scored
    PROVE  evaluateScenarioGraph(suite.graph, Outcomes).status = "passed" <=> WholeGraph
<1> DEFINE parts == NodeResults(suite.graph, Outcomes) \cup EdgeResults(suite.graph, Outcomes)
                      \cup FaultResults(suite.graph, Outcomes)
<1>0. suite \in Suites
  BY DEF Scored, EvidenceInv
<1>1. evaluateScenarioGraph(suite.graph, Outcomes).status = Verdict(Required(parts))
  BY DEF evaluateScenarioGraph
<1>2. Verdict(Required(parts)) = "passed" <=> \A p \in parts : p.required => p.status = "passed"
  BY Verdicts DEF Required
<1>3. (\A p \in parts : p.required => p.status = "passed") <=>
        /\ \A p \in NodeResults(suite.graph, Outcomes) : p.required => p.status = "passed"
        /\ \A p \in EdgeResults(suite.graph, Outcomes) : p.required => p.status = "passed"
        /\ \A p \in FaultResults(suite.graph, Outcomes) : p.required => p.status = "passed"
  OBVIOUS
<1>4. (\A p \in NodeResults(suite.graph, Outcomes) : p.required => p.status = "passed") <=>
        \A n \in suite.graph.nodes : PlayedRight(n)
  BY NodeParts, NodePasses
<1>5. (\A p \in EdgeResults(suite.graph, Outcomes) : p.required => p.status = "passed") <=>
        \A e \in suite.graph.edges : e.required => EdgeStatus(e, Outcomes) = "passed"
  BY <1>0, ResultsOfGraph, EdgePartIs
<1>6. (\A p \in FaultResults(suite.graph, Outcomes) : p.required => p.status = "passed") <=>
        \A f \in suite.graph.faults : f.required => FaultStatus(f, Outcomes) = "passed"
  BY <1>0, ResultsOfGraph, FaultPartIs
<1>7. ASSUME \A n \in suite.graph.nodes : PlayedRight(n)
      PROVE  /\ (\A e \in suite.graph.edges : e.required => EdgeStatus(e, Outcomes) = "passed")
                  <=> \A e \in suite.graph.edges : e.required => Revises(e)
             /\ (\A f \in suite.graph.faults : f.required => FaultStatus(f, Outcomes) = "passed")
                  <=> \A f \in suite.graph.faults : f.required => Recovered(f)
  <2>1. \A e \in suite.graph.edges : EdgeStatus(e, Outcomes) = "passed" <=> Revises(e)
    BY <1>0, <1>7, EdgePasses, GraphsOfSuites
  <2>2. \A f \in suite.graph.faults : FaultStatus(f, Outcomes) = "passed" <=> Recovered(f)
    BY <1>0, <1>7, FaultPasses, GraphsOfSuites DEF PlayedRight, Recovered
  <2> QED BY <2>1, <2>2
<1>8. WholeGraph <=>
        /\ \A n \in suite.graph.nodes : PlayedRight(n)
        /\ \A e \in suite.graph.edges : e.required => Revises(e)
        /\ \A f \in suite.graph.faults : f.required => Recovered(f)
  BY DEF WholeGraph, Required
<1> HIDE DEF parts
<1> QED BY <1>1, <1>2, <1>3, <1>4, <1>5, <1>6, <1>7, <1>8

-----------------------------------------------------------------------------
(* Capabilities and dimensions *)

LEMMA FinalStateIs ==
    ASSUME NEW s, NEW c
    PROVE  LET x == finalStateComponent(s, c)
           IN  /\ x.required /\ x.status = s.status /\ x.capabilities = c.capabilities
               /\ x.dimension = "final-state-correctness" /\ x.id = <<"final-state", s.task>>
               /\ x.score = (IF s.status = "passed" THEN s.score ELSE 0) /\ x.weight = 1
<1> DEFINE yes == TRUE
           score == IF s.status = "passed" THEN s.score ELSE 0
           part == Part("", s.status, score, 1, yes)
           x == Component(<<"final-state", s.task>>, c, "final-state-correctness", part)
<1>1. finalStateComponent(s, c) = x
  BY DEF finalStateComponent
<1>2. yes
  OBVIOUS
<1> HIDE DEF yes, score
<1>3. part.status = s.status /\ part.required = yes /\ part.score = score /\ part.weight = 1
  BY DEF Part
<1> HIDE DEF part
<1>4. /\ x.required = yes /\ x.status = s.status /\ x.capabilities = c.capabilities
      /\ x.dimension = "final-state-correctness" /\ x.id = <<"final-state", s.task>>
      /\ x.score = score /\ x.weight = 1
  BY <1>3 DEF Component
<1> QED BY <1>1, <1>2, <1>4 DEF score

(* The mean of what a session shows, and the component it becomes. *)
MeanShown(s) == Rounded(SumFunction([e \in Shown(s) |-> e.score]), Cardinality(Shown(s)))

EvidencePart(s, c) ==
    Component(<<"evidence", s.task>>, c, "evidence-verification",
              Part("", Verdict(Shown(s)), MeanShown(s), 1, TRUE))

LEMMA EvidenceIs ==
    ASSUME NEW s, NEW c
    PROVE  /\ Shown(s) = {} => evidenceComponent(s, c) = {}
           /\ Shown(s) # {} => evidenceComponent(s, c) = {EvidencePart(s, c)}
           /\ EvidencePart(s, c).required /\ EvidencePart(s, c).status = Verdict(Shown(s))
           /\ EvidencePart(s, c).capabilities = c.capabilities
           /\ EvidencePart(s, c).dimension = "evidence-verification"
           /\ EvidencePart(s, c).id = <<"evidence", s.task>>
           /\ EvidencePart(s, c).score = MeanShown(s) /\ EvidencePart(s, c).weight = 1
<1> DEFINE yes == TRUE
           part == Part("", Verdict(Shown(s)), MeanShown(s), 1, yes)
           x == EvidencePart(s, c)
<1>1. evidenceComponent(s, c) = IF Shown(s) = {} THEN {} ELSE {x}
  BY DEF evidenceComponent, Shown, EvidencePart, MeanShown
<1>2. yes /\ x = Component(<<"evidence", s.task>>, c, "evidence-verification", part)
  BY DEF EvidencePart
<1> HIDE DEF yes
<1>3. part.status = Verdict(Shown(s)) /\ part.required = yes /\ part.score = MeanShown(s) /\ part.weight = 1
  BY DEF Part
<1> HIDE DEF part, x
<1>4. /\ x.required = yes /\ x.status = Verdict(Shown(s)) /\ x.capabilities = c.capabilities
      /\ x.dimension = "evidence-verification" /\ x.id = <<"evidence", s.task>>
      /\ x.score = MeanShown(s) /\ x.weight = 1
  BY <1>2, <1>3 DEF Component
<1> QED BY <1>1, <1>2, <1>4 DEF x

LEMMA CostIsOptional ==
    ASSUME NEW s, NEW c, NEW x \in interactionCostComponent(s, c)
    PROVE  ~x.required
<1> DEFINE no == FALSE
           score == IF s.cost <= c.preferred THEN Unit
                    ELSE IF s.cost >= c.hard THEN 0
                    ELSE Rounded(Unit * (c.hard - s.cost), c.hard - c.preferred)
           part == Part("", "passed", score, 1, no)
<1>1. x = Component(<<"interaction-cost", s.task>>, c, "interaction-cost", part)
  BY DEF interactionCostComponent
<1>2. ~no
  OBVIOUS
<1> HIDE DEF no, score
<1>3. part.required = no
  BY DEF Part
<1> HIDE DEF part
<1> QED BY <1>1, <1>2, <1>3 DEF Component

(* A component and what it stands for; and all of them. *)
Agrees(x, f) ==
    /\ f[1] = x.capabilities /\ f[2] = x.dimension
    /\ f[3] = "right" <=> x.status = "passed"

Agree(X, F) ==
    /\ \A x \in X : x.required => \E f \in F : Agrees(x, f)
    /\ \A f \in F : \E x \in X : x.required /\ Agrees(x, f)

LEMMA AgreeTogether ==
    ASSUME NEW X, NEW F, NEW Y, NEW G, Agree(X, F), Agree(Y, G)
    PROVE  Agree(X \cup Y, F \cup G)
  BY DEF Agree

OfFinalStates ==
    UNION {{<<c.capabilities, "final-state-correctness", Found(s.status = "passed")>>
              : c \in Covered(s.task, "final-state-correctness")} : s \in evidence}
OfEvidence ==
    UNION {{<<c.capabilities, "evidence-verification", Found(\A e \in Shown(s) : e.status = "passed")>>
              : c \in Covered(s.task, "evidence-verification")}
              : s \in {x \in evidence : Shown(x) # {}}}
OfEdges ==
    {<<NodeOf(e.to).capabilities, "dependency-consistency",
       Found(PlayedRight(NodeOf(e.from)) /\ PlayedRight(NodeOf(e.to)) /\ Revises(e))>>
       : e \in {d \in Required(suite.graph.edges) :
                   Covered(NodeOf(d.to).task, "dependency-consistency") # {}}}
OfFaults ==
    {<<NodeOf(f.node).capabilities, "recovery-safety",
       Found(Recovered(f) /\ SessionOf(NodeOf(f.node).task).status # "error")>>
       : f \in {d \in Required(suite.graph.faults) :
                   Covered(NodeOf(d.node).task, "recovery-safety") # {}}}

LEMMA FactsAre == Facts = OfFinalStates \cup OfEvidence \cup OfEdges \cup OfFaults
  BY DEF Facts, OfFinalStates, OfEvidence, OfEdges, OfFaults

LEMMA FoundRight ==
    ASSUME NEW right \in BOOLEAN
    PROVE  Found(right) = "right" <=> right
  BY DEF Found

(* The coverage of what was played, whoever asks. *)
LEMMA CoverageSame ==
    ASSUME Scored, NEW task \in TasksOf(suite), NEW dimension
    PROVE  {c \in matchingCoverage(suite.matrix, Given(task)) : dimension \in c.dimensions}
             = Covered(task, dimension)
  BY OneOfEach DEF Covered, matchingCoverage, SameSession

FinalStates ==
    UNION {{finalStateComponent(t, c) : c \in Covered(t.task, "final-state-correctness")} : t \in Costed}
Evidence ==
    UNION {UNION {evidenceComponent(t, c) : c \in Covered(t.task, "evidence-verification")} : t \in Costed}
Costs ==
    UNION {UNION {interactionCostComponent(t, c) : c \in Covered(t.task, "interaction-cost")} : t \in Costed}

LEMMA SessionComponentsAre ==
    ASSUME Scored
    PROVE  buildSessionComponents(suite.matrix, Costed) = FinalStates \cup Evidence \cup Costs
<1> DEFINE A(t, c) == IF "final-state-correctness" \in c.dimensions THEN {finalStateComponent(t, c)} ELSE {}
           B(t, c) == IF "evidence-verification" \in c.dimensions THEN evidenceComponent(t, c) ELSE {}
           C(t, c) == IF "interaction-cost" \in c.dimensions THEN interactionCostComponent(t, c) ELSE {}
           M(t) == matchingCoverage(suite.matrix, t)
<1>1. buildSessionComponents(suite.matrix, Costed) =
        UNION {UNION {A(t, c) \cup B(t, c) \cup C(t, c) : c \in M(t)} : t \in Costed}
  BY DEF buildSessionComponents
<1>2. \A t \in Costed : \A dimension :
        {c \in M(t) : dimension \in c.dimensions} = Covered(t.task, dimension)
  BY OneOfEach, CoverageSame
<1>3. FinalStates = UNION {UNION {A(t, c) : c \in M(t)} : t \in Costed}
  <2> HIDE DEF M
  <2> QED BY <1>2 DEF FinalStates
<1>4. Evidence = UNION {UNION {B(t, c) : c \in M(t)} : t \in Costed}
  <2> HIDE DEF M
  <2> QED BY <1>2 DEF Evidence
<1>5. Costs = UNION {UNION {C(t, c) : c \in M(t)} : t \in Costed}
  <2> HIDE DEF M
  <2> QED BY <1>2 DEF Costs
<1> HIDE DEF A, B, C, M
<1> QED BY <1>1, <1>3, <1>4, <1>5

LEMMA FinalStatesAgree ==
    ASSUME Scored PROVE Agree(FinalStates, OfFinalStates)
<1>1. ASSUME NEW t \in Costed, NEW s \in evidence, SameSession(s, t),
             NEW c \in Covered(t.task, "final-state-correctness")
      PROVE  /\ finalStateComponent(t, c).required
             /\ Agrees(finalStateComponent(t, c),
                       <<c.capabilities, "final-state-correctness", Found(s.status = "passed")>>)
  <2> DEFINE mark == Found(s.status = "passed")
             x == finalStateComponent(t, c)
  <2>1. mark = "right" <=> s.status = "passed"
    BY FoundRight
  <2>2. x.required /\ x.status = t.status /\ x.capabilities = c.capabilities
        /\ x.dimension = "final-state-correctness"
    BY FinalStateIs
  <2>3. t.status = s.status
    BY <1>1 DEF SameSession
  <2> HIDE DEF mark, x
  <2> QED BY <2>1, <2>2, <2>3 DEF Agrees, mark, x
<1>2. \A t \in Costed : \E s \in evidence : SameSession(s, t) /\ s.task = t.task
  BY OneOfEach DEF SameSession
<1>3. ASSUME NEW s \in evidence PROVE \E t \in Costed : SameSession(s, t) /\ s.task = t.task
  <2>1. Given(s.task) \in Costed /\ SameSession(s, Given(s.task))
    BY OneOfEach
  <2>2. Given(s.task).task = s.task
    BY <2>1 DEF SameSession
  <2> QED BY <2>1, <2>2
<1>4. ASSUME NEW x \in FinalStates PROVE \E f \in OfFinalStates : Agrees(x, f)
  <2>1. PICK t \in Costed : \E c \in Covered(t.task, "final-state-correctness") : x = finalStateComponent(t, c)
    BY DEF FinalStates
  <2>2. PICK s \in evidence : SameSession(s, t) /\ s.task = t.task
    BY <1>2
  <2>c. PICK c \in Covered(t.task, "final-state-correctness") : x = finalStateComponent(t, c)
    BY <2>1
  <2> DEFINE f == <<c.capabilities, "final-state-correctness", Found(s.status = "passed")>>
  <2>3. f \in OfFinalStates
    BY <2>2 DEF OfFinalStates
  <2> QED BY <1>1, <2>c, <2>2, <2>3
<1>5. ASSUME NEW f \in OfFinalStates PROVE \E x \in FinalStates : x.required /\ Agrees(x, f)
  <2>1. PICK s \in evidence : \E c \in Covered(s.task, "final-state-correctness") :
          f = <<c.capabilities, "final-state-correctness", Found(s.status = "passed")>>
    BY DEF OfFinalStates
  <2>2. PICK t \in Costed : SameSession(s, t) /\ s.task = t.task
    BY <1>3
  <2>c. PICK c \in Covered(t.task, "final-state-correctness") :
          f = <<c.capabilities, "final-state-correctness", Found(s.status = "passed")>>
    BY <2>1, <2>2
  <2>3. finalStateComponent(t, c) \in FinalStates
    BY <2>2 DEF FinalStates
  <2> QED BY <1>1, <2>c, <2>2, <2>3
<1> QED BY <1>4, <1>5 DEF Agree

LEMMA EvidenceAgrees ==
    ASSUME Scored PROVE Agree(Evidence, OfEvidence)
<1>1. ASSUME NEW t \in Costed, NEW s \in evidence, SameSession(s, t), Shown(s) # {},
             NEW c \in Covered(t.task, "evidence-verification"), NEW x \in evidenceComponent(t, c)
      PROVE  /\ x.required
             /\ Agrees(x, <<c.capabilities, "evidence-verification",
                            Found(\A e \in Shown(s) : e.status = "passed")>>)
  <2> DEFINE mark == Found(\A e \in Shown(s) : e.status = "passed")
  <2>1. mark = "right" <=> \A e \in Shown(s) : e.status = "passed"
    BY FoundRight
  <2>2. Shown(t) = Shown(s)
    BY <1>1 DEF SameSession, Shown
  <2>3. x.required /\ x.status = Verdict(Shown(s)) /\ x.capabilities = c.capabilities
        /\ x.dimension = "evidence-verification"
    BY <1>1, <2>2, EvidenceIs
  <2>4. x.status = "passed" <=> \A e \in Shown(s) : e.status = "passed"
    BY <2>3, Verdicts
  <2> HIDE DEF mark
  <2> QED BY <2>1, <2>3, <2>4 DEF Agrees, mark
<1>2. \A t \in Costed : \E s \in evidence : SameSession(s, t) /\ s.task = t.task /\ Shown(s) = Shown(t)
  BY OneOfEach DEF SameSession, Shown
<1>3. \A s \in evidence : \E t \in Costed : SameSession(s, t) /\ s.task = t.task /\ Shown(s) = Shown(t)
  BY OneOfEach DEF SameSession, Shown
<1>4. ASSUME NEW x \in Evidence PROVE \E f \in OfEvidence : Agrees(x, f)
  <2>1. PICK t \in Costed : \E c \in Covered(t.task, "evidence-verification") : x \in evidenceComponent(t, c)
    BY DEF Evidence
  <2>2. PICK s \in evidence : SameSession(s, t) /\ s.task = t.task /\ Shown(s) = Shown(t)
    BY <1>2
  <2>c. PICK c \in Covered(t.task, "evidence-verification") : x \in evidenceComponent(t, c)
    BY <2>1
  <2>3. Shown(s) # {}
    BY <2>c, <2>2, EvidenceIs
  <2> DEFINE f == <<c.capabilities, "evidence-verification", Found(\A e \in Shown(s) : e.status = "passed")>>
  <2> DEFINE mark(y) == Found(\A e \in Shown(y) : e.status = "passed")
  <2>4. f \in OfEvidence
    <3>1. OfEvidence = UNION {{<<d.capabilities, "evidence-verification", mark(y)>>
                                 : d \in Covered(y.task, "evidence-verification")}
                                 : y \in {z \in evidence : Shown(z) # {}}}
      BY DEF OfEvidence
    <3>2. f = <<c.capabilities, "evidence-verification", mark(s)>>
      OBVIOUS
    <3> HIDE DEF mark, f
    <3>3. c \in Covered(s.task, "evidence-verification") /\ s \in {z \in evidence : Shown(z) # {}}
      BY <2>c, <2>2, <2>3
    <3> QED BY <3>1, <3>2, <3>3
  <2> QED BY <1>1, <2>c, <2>2, <2>3, <2>4
<1>5. ASSUME NEW f \in OfEvidence PROVE \E x \in Evidence : x.required /\ Agrees(x, f)
  <2>1. PICK s \in evidence : \E c \in Covered(s.task, "evidence-verification") :
          /\ Shown(s) # {}
          /\ f = <<c.capabilities, "evidence-verification", Found(\A e \in Shown(s) : e.status = "passed")>>
    BY DEF OfEvidence
  <2>2. PICK t \in Costed : SameSession(s, t) /\ s.task = t.task /\ Shown(s) = Shown(t)
    BY <1>3
  <2>c. PICK c \in Covered(t.task, "evidence-verification") :
          f = <<c.capabilities, "evidence-verification", Found(\A e \in Shown(s) : e.status = "passed")>>
    BY <2>1, <2>2
  <2>3. PICK x : x \in evidenceComponent(t, c)
    BY <2>1, <2>2, EvidenceIs
  <2>4. x \in Evidence
    BY <2>2, <2>3 DEF Evidence
  <2> QED BY <1>1, <2>1, <2>c, <2>2, <2>3, <2>4
<1> QED BY <1>4, <1>5 DEF Agree

LEMMA CostsAgree == Agree(Costs, {})
  BY CostIsOptional DEF Agree, Costs

Dependencies ==
    {Component(<<"dependency", e.id>>, NodeOf(e.to), "dependency-consistency",
               CHOOSE p \in EdgeResults(suite.graph, Outcomes) : p.id = <<"edge", e.id>>)
       : e \in {d \in suite.graph.edges : Covered(NodeOf(d.to).task, "dependency-consistency") # {}}}
Recoveries ==
    {Component(<<"recovery", f.id>>, NodeOf(f.node), "recovery-safety",
               CHOOSE p \in FaultResults(suite.graph, Outcomes) : p.id = <<"fault", f.id>>)
       : f \in {d \in suite.graph.faults : Covered(NodeOf(d.node).task, "recovery-safety") # {}}}

LEMMA GraphComponentsAre ==
    ASSUME Scored
    PROVE  buildGraphComponents(suite.matrix, suite.graph, Costed) = Dependencies \cup Recoveries
<1> DEFINE Seen(node, dimension) ==
             \E s \in Costed : /\ s.task = node.task
                              /\ \E c \in matchingCoverage(suite.matrix, s) : dimension \in c.dimensions
<1>1. buildGraphComponents(suite.matrix, suite.graph, Costed) =
        {Component(<<"dependency", e.id>>, NodeOf(e.to), "dependency-consistency",
                   CHOOSE p \in EdgeResults(suite.graph, Outcomes) : p.id = <<"edge", e.id>>)
           : e \in {d \in suite.graph.edges : Seen(NodeOf(d.to), "dependency-consistency")}}
        \cup
        {Component(<<"recovery", f.id>>, NodeOf(f.node), "recovery-safety",
                   CHOOSE p \in FaultResults(suite.graph, Outcomes) : p.id = <<"fault", f.id>>)
           : f \in {d \in suite.graph.faults : Seen(NodeOf(d.node), "recovery-safety")}}
  BY DEF buildGraphComponents, NodeOf, Outcomes
<1>2. ASSUME NEW n \in suite.graph.nodes, NEW dimension
      PROVE  Seen(n, dimension) <=> Covered(n.task, dimension) # {}
  <2>1. n.task \in TasksOf(suite)
    BY GraphsOfSuites DEF Scored, EvidenceInv
  <2>2. \A s \in Costed : s.task = n.task => s = Given(n.task)
    BY OneOfEach
  <2>3. Given(n.task) \in Costed /\ Given(n.task).task = n.task
    BY <2>1, OneOfEach DEF SameSession
  <2>4. Seen(n, dimension) <=>
          \E c \in matchingCoverage(suite.matrix, Given(n.task)) : dimension \in c.dimensions
    BY <2>2, <2>3
  <2>5. {c \in matchingCoverage(suite.matrix, Given(n.task)) : dimension \in c.dimensions}
          = Covered(n.task, dimension)
    BY <2>1, CoverageSame
  <2> HIDE DEF Seen
  <2> QED BY <2>4, <2>5
<1> HIDE DEF Seen
<1>3. {d \in suite.graph.edges : Seen(NodeOf(d.to), "dependency-consistency")}
        = {d \in suite.graph.edges : Covered(NodeOf(d.to).task, "dependency-consistency") # {}}
  BY <1>2, GraphsOfSuites DEF Scored, EvidenceInv
<1>4. {d \in suite.graph.faults : Seen(NodeOf(d.node), "recovery-safety")}
        = {d \in suite.graph.faults : Covered(NodeOf(d.node).task, "recovery-safety") # {}}
  BY <1>2, GraphsOfSuites DEF Scored, EvidenceInv
<1> QED BY <1>1, <1>3, <1>4 DEF Dependencies, Recoveries

LEMMA DependenciesAgree ==
    ASSUME Scored PROVE Agree(Dependencies, OfEdges)
<1> DEFINE D == {d \in suite.graph.edges : Covered(NodeOf(d.to).task, "dependency-consistency") # {}}
           P(e) == CHOOSE p \in EdgeResults(suite.graph, Outcomes) : p.id = <<"edge", e.id>>
           X(e) == Component(<<"dependency", e.id>>, NodeOf(e.to), "dependency-consistency", P(e))
           R(e) == PlayedRight(NodeOf(e.from)) /\ PlayedRight(NodeOf(e.to)) /\ Revises(e)
           F(e) == <<NodeOf(e.to).capabilities, "dependency-consistency", Found(R(e))>>
<1>1. Dependencies = {X(e) : e \in D} /\ OfEdges = {F(e) : e \in {d \in D : d.required}}
  BY DEF Dependencies, OfEdges, Required
<1>2. ASSUME NEW e \in D PROVE X(e).required = e.required /\ Agrees(X(e), F(e))
  <2>0. suite \in Suites /\ e \in suite.graph.edges
    BY DEF Scored, EvidenceInv
  <2>1. P(e).status = EdgeStatus(e, Outcomes) /\ P(e).required = e.required
    <3>1. P(e) = EdgePart(e, Outcomes)
      BY <2>0, ResultsOfGraph
    <3> HIDE DEF P
    <3> QED BY <3>1, EdgePartIs
  <2>2. EdgeStatus(e, Outcomes) = "passed" <=> R(e)
    BY EdgePasses
  <2> DEFINE mark == Found(R(e))
  <2>3. mark = "right" <=> R(e)
    BY FoundRight
  <2> HIDE DEF P, R, mark
  <2>4. /\ X(e).required = e.required /\ X(e).status = EdgeStatus(e, Outcomes)
        /\ X(e).capabilities = NodeOf(e.to).capabilities /\ X(e).dimension = "dependency-consistency"
    BY <2>1 DEF Component
  <2>5. /\ F(e)[1] = NodeOf(e.to).capabilities /\ F(e)[2] = "dependency-consistency" /\ F(e)[3] = mark
    BY DEF mark
  <2> HIDE DEF X, F
  <2> QED BY <2>2, <2>3, <2>4, <2>5 DEF Agrees
<1> HIDE DEF D, X, F
<1> QED BY <1>1, <1>2 DEF Agree

LEMMA RecoveriesAgree ==
    ASSUME Scored PROVE Agree(Recoveries, OfFaults)
<1> DEFINE D == {d \in suite.graph.faults : Covered(NodeOf(d.node).task, "recovery-safety") # {}}
           P(f) == CHOOSE p \in FaultResults(suite.graph, Outcomes) : p.id = <<"fault", f.id>>
           X(f) == Component(<<"recovery", f.id>>, NodeOf(f.node), "recovery-safety", P(f))
           R(f) == Recovered(f) /\ SessionOf(NodeOf(f.node).task).status # "error"
           F(f) == <<NodeOf(f.node).capabilities, "recovery-safety", Found(R(f))>>
<1>1. Recoveries = {X(f) : f \in D} /\ OfFaults = {F(f) : f \in {d \in D : d.required}}
  BY DEF Recoveries, OfFaults, Required
<1>2. ASSUME NEW f \in D PROVE X(f).required = f.required /\ Agrees(X(f), F(f))
  <2>0. suite \in Suites /\ f \in suite.graph.faults
    BY DEF Scored, EvidenceInv
  <2>1. P(f).status = FaultStatus(f, Outcomes) /\ P(f).required = f.required
    <3>1. P(f) = FaultPart(f, Outcomes)
      BY <2>0, ResultsOfGraph
    <3> HIDE DEF P
    <3> QED BY <3>1, FaultPartIs
  <2>2. FaultStatus(f, Outcomes) = "passed" <=> R(f)
    BY FaultPasses
  <2> DEFINE mark == Found(R(f))
  <2>3. mark = "right" <=> R(f)
    BY FoundRight
  <2> HIDE DEF P, R, mark
  <2>4. /\ X(f).required = f.required /\ X(f).status = FaultStatus(f, Outcomes)
        /\ X(f).capabilities = NodeOf(f.node).capabilities /\ X(f).dimension = "recovery-safety"
    BY <2>1 DEF Component
  <2>5. /\ F(f)[1] = NodeOf(f.node).capabilities /\ F(f)[2] = "recovery-safety" /\ F(f)[3] = mark
    BY DEF mark
  <2> HIDE DEF X, F
  <2> QED BY <2>2, <2>3, <2>4, <2>5 DEF Agrees
<1> HIDE DEF D, X, F
<1> QED BY <1>1, <1>2 DEF Agree

Components ==
    buildSessionComponents(suite.matrix, Costed)
      \cup buildGraphComponents(suite.matrix, suite.graph, Costed)

LEMMA ComponentsAgree ==
    ASSUME Scored PROVE Agree(Components, Facts)
<1>1. Agree(FinalStates \cup Evidence, OfFinalStates \cup OfEvidence)
  BY FinalStatesAgree, EvidenceAgrees, AgreeTogether
<1>2. Agree(FinalStates \cup Evidence \cup Costs, OfFinalStates \cup OfEvidence \cup {})
  BY <1>1, CostsAgree, AgreeTogether
<1>3. Agree(Dependencies \cup Recoveries, OfEdges \cup OfFaults)
  BY DependenciesAgree, RecoveriesAgree, AgreeTogether
<1>4. Agree((FinalStates \cup Evidence \cup Costs) \cup (Dependencies \cup Recoveries),
            (OfFinalStates \cup OfEvidence \cup {}) \cup (OfEdges \cup OfFaults))
  BY <1>2, <1>3, AgreeTogether
<1>5. Components = (FinalStates \cup Evidence \cup Costs) \cup (Dependencies \cup Recoveries)
  BY SessionComponentsAre, GraphComponentsAre DEF Components
<1>6. Facts = (OfFinalStates \cup OfEvidence \cup {}) \cup (OfEdges \cup OfFaults)
  BY FactsAre
<1> QED BY <1>4, <1>5, <1>6

(* A required track or dimension passes when something was measured for it *)
(* and all of it was right.                                                *)
Borne(facts) == facts # {} /\ \A f \in facts : f[3] = "right"

LEMMA GroupPasses ==
    ASSUME NEW X, NEW F, Agree(X, F), NEW required \in BOOLEAN, required
    PROVE  aggregateComponents(X, required).status = "passed" <=> Borne(F)
<1>1. aggregateComponents(X, required).status =
        IF Required(X) = {} THEN "failed" ELSE Verdict(Required(X))
  BY DEF aggregateComponents
<1>2. Verdict(Required(X)) = "passed" <=> \A x \in X : x.required => x.status = "passed"
  BY Verdicts DEF Required
<1>3. Required(X) = {} <=> F = {}
  BY DEF Agree, Required
<1>4. (\A x \in X : x.required => x.status = "passed") <=> \A f \in F : f[3] = "right"
  BY DEF Agree, Agrees
<1> QED BY <1>1, <1>2, <1>3, <1>4 DEF Borne

TrackOf(t) ==
    aggregateComponents({c \in Components : t.id \in c.capabilities}, t.required)
DimensionOf(d) ==
    aggregateComponents({c \in Components : c.dimension = d.id}, d.required)

LEMMA TracksAre ==
    /\ \A p \in Tracks(suite.matrix, Components) : \E t \in suite.matrix.capabilities :
         p.required = t.required /\ p.status = TrackOf(t).status
    /\ \A t \in suite.matrix.capabilities : \E p \in Tracks(suite.matrix, Components) :
         p.required = t.required /\ p.status = TrackOf(t).status
<1> DEFINE P(t) == Part(<<"track", t.id>>, TrackOf(t).status, TrackOf(t).score, 0, t.required)
<1>1. Tracks(suite.matrix, Components) = {P(t) : t \in suite.matrix.capabilities}
  BY DEF Tracks, TrackOf
<1>2. \A t : P(t).required = t.required /\ P(t).status = TrackOf(t).status
  BY DEF Part
<1> HIDE DEF P
<1> QED BY <1>1, <1>2

LEMMA DimensionsAre ==
    /\ \A p \in DimensionResults(suite.matrix, Components) : \E d \in suite.matrix.dimensions :
         p.required = d.required /\ p.status = DimensionOf(d).status
    /\ \A d \in suite.matrix.dimensions : \E p \in DimensionResults(suite.matrix, Components) :
         p.required = d.required /\ p.status = DimensionOf(d).status
<1> DEFINE P(d) == Part(<<"dimension", d.id>>, DimensionOf(d).status, DimensionOf(d).score,
                        d.weight, d.required)
<1>1. DimensionResults(suite.matrix, Components) = {P(d) : d \in suite.matrix.dimensions}
  BY DEF DimensionResults, DimensionOf
<1>2. \A d : P(d).required = d.required /\ P(d).status = DimensionOf(d).status
  BY DEF Part
<1> HIDE DEF P
<1> QED BY <1>1, <1>2

LEMMA CapabilitiesPass ==
    ASSUME Scored
    PROVE  aggregateCapabilityScores(suite.matrix, Components).status = "passed"
             <=> WholeCapabilities
<1> DEFINE tracks == Tracks(suite.matrix, Components)
           dimensions == DimensionResults(suite.matrix, Components)
           OnTrack(t) == {f \in Facts : t.id \in f[1]}
           OfDimension(d) == {f \in Facts : f[2] = d.id}
<1>1. aggregateCapabilityScores(suite.matrix, Components).status =
        Verdict(Required(tracks) \cup Required(dimensions))
  BY DEF aggregateCapabilityScores
<1>2. Verdict(Required(tracks) \cup Required(dimensions)) = "passed" <=>
        /\ \A p \in tracks : p.required => p.status = "passed"
        /\ \A p \in dimensions : p.required => p.status = "passed"
  BY Verdicts DEF Required
<1>3. ASSUME NEW t, t.required PROVE TrackOf(t).status = "passed" <=> Borne(OnTrack(t))
  <2> DEFINE X == {c \in Components : t.id \in c.capabilities}
             yes == TRUE
  <2>1. Agree(X, OnTrack(t))
    BY ComponentsAgree DEF Agree, Agrees
  <2>2. aggregateComponents(X, yes).status = "passed" <=> Borne(OnTrack(t))
    BY <2>1, GroupPasses
  <2> HIDE DEF X
  <2>3. aggregateComponents(X, t.required).status = aggregateComponents(X, yes).status
    BY <1>3 DEF aggregateComponents
  <2> QED BY <2>2, <2>3 DEF TrackOf, X
<1>4. ASSUME NEW d, d.required PROVE DimensionOf(d).status = "passed" <=> Borne(OfDimension(d))
  <2> DEFINE X == {c \in Components : c.dimension = d.id}
             yes == TRUE
  <2>1. Agree(X, OfDimension(d))
    BY ComponentsAgree DEF Agree, Agrees
  <2>2. aggregateComponents(X, yes).status = "passed" <=> Borne(OfDimension(d))
    BY <2>1, GroupPasses
  <2> HIDE DEF X
  <2>3. aggregateComponents(X, d.required).status = aggregateComponents(X, yes).status
    BY <1>4 DEF aggregateComponents
  <2> QED BY <2>2, <2>3 DEF DimensionOf, X
<1>5. WholeCapabilities <=>
        /\ \A t \in suite.matrix.capabilities : t.required => Borne(OnTrack(t))
        /\ \A d \in suite.matrix.dimensions : d.required => Borne(OfDimension(d))
  BY DEF WholeCapabilities, Borne, Required
<1>6. (\A p \in tracks : p.required => p.status = "passed") <=>
        \A t \in suite.matrix.capabilities : t.required => TrackOf(t).status = "passed"
  BY TracksAre
<1>7. (\A p \in dimensions : p.required => p.status = "passed") <=>
        \A d \in suite.matrix.dimensions : d.required => DimensionOf(d).status = "passed"
  BY DimensionsAre
<1> HIDE DEF tracks, dimensions, OnTrack, OfDimension
<1> QED BY <1>1, <1>2, <1>3, <1>4, <1>5, <1>6, <1>7

-----------------------------------------------------------------------------
(* The suite *)

LEMMA SessionsPass ==
    ASSUME Scored
    PROVE  Verdict(Required(SessionParts(suite, Costed))) = "passed" <=>
             \A s \in evidence : s.task \in suite.required => s.status = "passed"
<1> DEFINE Need(t) == t.task \in suite.required
           P(t) == Part(<<"session", t.task>>, t.status, t.score, suite.weight[t.task], Need(t))
<1>1. SessionParts(suite, Costed) = {P(t) : t \in Costed}
  BY DEF SessionParts
<1>2. Verdict(Required({P(t) : t \in Costed})) = "passed" <=>
        \A t \in Costed : P(t).required => P(t).status = "passed"
  <2> HIDE DEF P
  <2> QED BY Verdicts DEF Required
<1>3. ASSUME NEW t PROVE P(t).required = Need(t) /\ P(t).status = t.status
  <2> HIDE DEF Need
  <2> QED BY DEF Part
<1> HIDE DEF P
<1>4. (\A t \in Costed : Need(t) => t.status = "passed") <=>
        \A s \in evidence : s.task \in suite.required => s.status = "passed"
  BY OneOfEach DEF SameSession
<1> HIDE DEF Need
<1> QED BY <1>1, <1>2, <1>3, <1>4

LEMMA ChecksPass ==
    Verdict(Required(evaluateSuiteConsistency(suite.checks, carried))) = "passed" <=>
      \A c \in Required(suite.checks) : CheckPassed(c, carried)
<1> DEFINE Status(c) == IF CheckPassed(c, carried) THEN "passed" ELSE "failed"
           P(c) == Part(<<"check", c.name>>, Status(c),
                        IF CheckPassed(c, carried) THEN Unit ELSE 0, c.weight, c.required)
<1>1. evaluateSuiteConsistency(suite.checks, carried) = {P(c) : c \in suite.checks}
  BY DEF evaluateSuiteConsistency
<1>2. \A c : P(c).required = c.required /\ P(c).status = Status(c)
  <2> HIDE DEF Status
  <2> QED BY DEF Part
<1>3. \A c : Status(c) = "passed" <=> CheckPassed(c, carried)
  OBVIOUS
<1> HIDE DEF P, Status
<1> QED BY <1>1, <1>2, <1>3, Verdicts DEF Required

LEMMA SuitePasses ==
    ASSUME Scored
    PROVE  /\ aggregateSuiteScore(suite, Costed, carried).status \in Statuses
           /\ aggregateSuiteScore(suite, Costed, carried).status = "passed" <=>
                /\ \A s \in evidence : s.task \in suite.required => s.status = "passed"
                /\ \A c \in Required(suite.checks) : CheckPassed(c, carried)
                /\ WholeCapabilities
                /\ WholeGraph
<1> DEFINE ofSessions == Verdict(Required(SessionParts(suite, Costed)))
           ofChecks == Verdict(Required(evaluateSuiteConsistency(suite.checks, carried)))
           ofMatrix == aggregateCapabilityScores(suite.matrix, Components).status
           ofGraph == evaluateScenarioGraph(suite.graph, Outcomes).status
           verdicts == {ofSessions, ofChecks}
                         \cup (IF suite.matrix = NoMatrix THEN {} ELSE {ofMatrix})
                         \cup (IF suite.graph = NoGraph THEN {} ELSE {ofGraph})
           status == aggregateSuiteScore(suite, Costed, carried).status
<1>1. status = IF "error" \in verdicts THEN "error"
               ELSE IF verdicts = {"passed"} THEN "passed" ELSE "failed"
  BY DEF aggregateSuiteScore, buildCapabilityAttemptEvaluation, Components, Outcomes
<1>2. suite.matrix = NoMatrix => WholeCapabilities
  BY DEF WholeCapabilities, NoMatrix, Required
<1>3. suite.graph = NoGraph => WholeGraph
  BY DEF WholeGraph, NoGraph, Required
<1>4. /\ ofSessions = "passed" <=> \A s \in evidence : s.task \in suite.required => s.status = "passed"
      /\ ofChecks = "passed" <=> \A c \in Required(suite.checks) : CheckPassed(c, carried)
      /\ ofMatrix = "passed" <=> WholeCapabilities
      /\ ofGraph = "passed" <=> WholeGraph
  BY SessionsPass, ChecksPass, CapabilitiesPass, GraphPasses
<1> HIDE DEF ofSessions, ofChecks, ofMatrix, ofGraph, status
<1>5. verdicts = {"passed"} <=>
        /\ ofSessions = "passed" /\ ofChecks = "passed"
        /\ suite.matrix # NoMatrix => ofMatrix = "passed"
        /\ suite.graph # NoGraph => ofGraph = "passed"
  OBVIOUS
<1>6. status = "passed" <=> verdicts = {"passed"}
  BY <1>1
<1>7. status \in Statuses
  BY <1>1 DEF Statuses
<1> HIDE DEF verdicts
<1> QED BY <1>2, <1>3, <1>4, <1>5, <1>6, <1>7 DEF status

LEMMA WholeKept ==
    ASSUME EvidenceInv PROVE PassIsWhole
<1> SUFFICES ASSUME outcome # NoOutcome
             PROVE  outcome.status = "passed" <=>
                      /\ \A s \in evidence : s.task \in suite.required => s.status = "passed"
                      /\ \A c \in Required(suite.checks) : CheckPassed(c, carried)
                      /\ WholeCapabilities
                      /\ WholeGraph
  BY DEF PassIsWhole, Ended
<1>1. Scored /\ outcome = aggregateSuiteScore(suite, Costed, carried)
  BY DEF EvidenceInv, Scored, Costed
<1> QED BY <1>1, SuitePasses

-----------------------------------------------------------------------------
(* The range of a score *)

(* What was recorded, and what was found of a finished session. *)
Recorded ==
    [session : TasksOf(suite), type : {"page.load", "submit", "input"},
     field : suite.fields \cup {"none"}]

Strict(s) ==
    /\ s.score \in {0, Unit} /\ IsFiniteSet(s.evaluators)
    /\ \A e \in s.evaluators : e.score \in {0, Unit}

ScoresInv == telemetry \in Seq(Recorded) /\ \A s \in evidence : Strict(s)

LEMMA ScoresInvInit ==
    ASSUME ScoringInit PROVE ScoresInv
  BY DEF ScoringInit, ScoresInv

LEMMA ActiveTaskIs ==
    ASSUME EvidenceInv, attempt = "running"
    PROVE  ActiveTask \in TasksOf(suite)
<1>1. Cardinality(evidence) \in Nat /\ Cardinality(evidence) < Len(suite.tasks)
  BY FS_CardinalityType DEF EvidenceInv
<1>2. /\ TasksOf(suite) = {suite.tasks[i] : i \in 1..Len(suite.tasks)}
      /\ Len(suite.tasks) \in Nat
  BY TasksDistinct DEF EvidenceInv
<1> QED BY <1>1, <1>2 DEF ActiveTask

LEMMA ScoresInvStep ==
    ASSUME EvidenceInv, ScoresInv, ScoringStep PROVE ScoresInv'
<1>0. suite' = suite /\ suite \in Suites
  BY DEF EvidenceInv, ScoringStep, CreateAttempt, ScoringNext, Request, Edit, FinishSession,
         CancelAttempt, scoringVars
<1> DEFINE R == Recorded
<1>a. R' = R
  BY <1>0 DEF Recorded
<1>1. CASE CreateAttempt \/ CancelAttempt \/ UNCHANGED scoringVars
  BY <1>1, <1>a DEF CreateAttempt, CancelAttempt, scoringVars, ScoresInv
<1>2. ASSUME NEW method \in {"GET", "POST"}, Request(method) PROVE ScoresInv'
  <2> DEFINE type == IF method = "POST" THEN "submit" ELSE "page.load"
             event == [session |-> ActiveTask, field |-> "none", type |-> type]
  <2>1. evidence' = evidence /\ (telemetry' = telemetry \/ telemetry' = Append(telemetry, event))
    BY <1>2 DEF Request
  <2>2. event \in R
    BY <1>2, ActiveTaskIs DEF Request, Recorded
  <2> HIDE DEF event, R
  <2>3. telemetry' \in Seq(R)
    BY <2>1, <2>2 DEF ScoresInv, R
  <2> QED BY <1>a, <2>1, <2>3 DEF ScoresInv, R
<1>3. ASSUME NEW field \in suite.fields, Edit(field) PROVE ScoresInv'
  <2> DEFINE event == [session |-> ActiveTask, type |-> "input", field |-> field]
  <2>1. evidence' = evidence /\ telemetry' = Append(telemetry, event)
    BY <1>3 DEF Edit
  <2>2. event \in R
    BY <1>3, ActiveTaskIs DEF Edit, Recorded
  <2> HIDE DEF event, R
  <2>3. telemetry' \in Seq(R)
    BY <2>1, <2>2 DEF ScoresInv, R
  <2> QED BY <1>a, <2>1, <2>3 DEF ScoresInv, R
<1>4. ASSUME NEW findings, NEW values, attempt = "running", FinishSession(findings, values)
      PROVE  ScoresInv'
  <2> DEFINE result(e) == EvaluatorResult(e, findings[e])
             E == suite.evaluators[ActiveTask]
             found == {result(e) : e \in E}
             total == aggregateStrictScore(found)
             f == [e \in E |-> result(e)]
             r == [task |-> ActiveTask, variant |-> variant[ActiveTask],
                   status |-> total.status, score |-> total.score, evaluators |-> found,
                   recovered |-> faultState.recovered, cost |-> 0]
  <2>1. evidence' = evidence \cup {r} /\ telemetry' = telemetry
    BY <1>4 DEF FinishSession
  <2>2. \A e : result(e).score \in {0, Unit}
    BY DEF EvaluatorResult
  <2>3. total.score \in {0, Unit}
    BY DEF aggregateStrictScore
  <2>4. IsFiniteSet(E)
    BY <1>0, <1>4, ActiveTaskIs, SuitesAssumption DEF ValidSuite
  <2>5. IsFiniteSet(found)
    <3>1. found = {f[e] : e \in E}
      OBVIOUS
    <3> HIDE DEF f, E, found
    <3> QED BY <2>4, <3>1, ImageFinite
  <2>6. r.score = total.score /\ r.evaluators = found
    OBVIOUS
  <2>7. \A e \in found : e.score \in {0, Unit}
    BY <2>2
  <2> HIDE DEF r, found, total, result
  <2>8. Strict(r)
    BY <2>3, <2>5, <2>6, <2>7 DEF Strict
  <2> QED BY <1>a, <2>1, <2>8 DEF ScoresInv
<1> QED BY <1>1, <1>2, <1>3, <1>4 DEF ScoringStep, ScoringNext

LEMMA UnionFinite ==
    ASSUME NEW S, IsFiniteSet(S), NEW b, \A x \in S : IsFiniteSet(b[x])
    PROVE  IsFiniteSet(UNION {b[x] : x \in S})
  BY ImageFinite, FS_UNION

LEMMA ListsOfSuites ==
    ASSUME suite \in Suites
    PROVE  /\ Weighed(suite.matrix.dimensions) /\ Weighed(suite.checks)
           /\ Weighed(suite.graph.edges) /\ Weighed(suite.graph.faults)
           /\ IsFiniteSet(suite.matrix.coverage)
           /\ \A c \in suite.matrix.coverage : c.preferred \in Nat /\ c.hard \in Nat
           /\ \A t \in TasksOf(suite) : suite.weight[t] \in Nat
<1>1. ValidSuite(suite)
  BY SuitesAssumption
<1>2. Weighed(suite.checks) /\ \A t \in TasksOf(suite) : suite.weight[t] \in Nat
  BY <1>1 DEF ValidSuite
<1>3. /\ Weighed(suite.matrix.dimensions) /\ IsFiniteSet(suite.matrix.coverage)
      /\ \A c \in suite.matrix.coverage : c.preferred \in Nat /\ c.hard \in Nat
  <2>1. CASE suite.matrix = NoMatrix
    BY <2>1, FS_EmptySet DEF NoMatrix, Weighed
  <2>2. CASE suite.matrix # NoMatrix
    BY <1>1, <2>2 DEF ValidSuite, ValidMatrix
  <2> QED BY <2>1, <2>2
<1>4. Weighed(suite.graph.edges) /\ Weighed(suite.graph.faults)
  <2>1. CASE suite.graph = NoGraph
    BY <2>1, FS_EmptySet DEF NoGraph, Weighed
  <2>2. CASE suite.graph # NoGraph
    BY <1>1, <2>2 DEF ValidSuite, ValidGraph
  <2> QED BY <2>1, <2>2
<1> QED BY <1>2, <1>3, <1>4

Graded(S) == IsFiniteSet(S) /\ \A p \in S : p.score \in 0..Unit /\ p.weight \in Nat

LEMMA GradedTogether ==
    ASSUME NEW S, NEW T, Graded(S), Graded(T)
    PROVE  Graded(S \cup T)
  BY FS_Union DEF Graded

LEMMA GradedSubset ==
    ASSUME NEW S, NEW T \in SUBSET S, Graded(S)
    PROVE  Graded(T)
  BY FS_Subset DEF Graded

LEMMA WeightedInRange ==
    ASSUME NEW S, Graded(S)
    PROVE  /\ TotalWeight(S) \in Nat
           /\ WeightedScore(S) \in 0..Unit
<1> DEFINE f == [p \in S |-> p.score * p.weight]
           w == [p \in S |-> p.weight]
           n == SumOn(f, S)
           d == SumOn(w, S)
<1>1. ASSUME NEW p \in S PROVE f[p] \in Nat /\ w[p] \in Nat /\ f[p] <= Unit * w[p]
  <2>0. p.score \in 0..Unit /\ p.weight \in Nat
    BY DEF Graded
  <2>1. p.score \in Nat /\ p.score <= Unit /\ p.weight \in Nat /\ Unit \in Nat
    <3>1. Unit \in Nat
      BY DEF Unit
    <3> QED BY <2>0, <3>1
  <2> DEFINE a == p.score
             b == p.weight
  <2>2. f[p] = a * b /\ w[p] = b
    OBVIOUS
  <2> HIDE DEF a, b, f, w
  <2>3. a \in Nat /\ a <= Unit /\ b \in Nat /\ Unit \in Nat
    BY <2>1 DEF a, b
  <2> QED BY <2>2, <2>3
<1>2. IsFiniteSet(S) /\ Unit \in Nat \ {0}
  BY DEF Graded, Unit
<1> HIDE DEF f, w
<1>3. n \in Nat /\ d \in Nat /\ n <= Unit * d
  BY <1>1, <1>2, SumNat, SumBound
<1>4. SumFunction(f) = n /\ SumFunction(w) = d
  BY SumOfFunction DEF f, w
<1>5. TotalWeight(S) = d
  BY <1>4 DEF TotalWeight, w
<1>6. WeightedScore(S) = IF d = 0 THEN 0 ELSE Rounded(n, d)
  BY <1>4, <1>5 DEF WeightedScore, f
<1> HIDE DEF n, d
<1>7. d # 0 => Rounded(n, d) \in 0..Unit
  BY <1>2, <1>3, RoundedRange
<1>8. 0 \in 0..Unit
  BY <1>2
<1> QED BY <1>3, <1>5, <1>6, <1>7, <1>8

LEMMA CostedStrict ==
    ASSUME Scored, ScoresInv
    PROVE  IsFiniteSet(Costed) /\ \A t \in Costed : Strict(t) /\ t.cost \in Nat
<1> DEFINE Cost(s) == ActionCost(telemetry, s.task)
           C == [s \in evidence |-> [s EXCEPT !.cost = Cost(s)]]
<1>1. Costed = {C[s] : s \in evidence}
  BY DEF Costed, WithCosts
<1>2. IsFiniteSet(evidence) /\ \A s \in evidence : IsSession(s) /\ Strict(s)
  BY DEF Scored, EvidenceInv, FirstFinished, ScoresInv
<1>3. \A task : ActionCost(telemetry, task) \in Nat
  <2> SUFFICES ASSUME NEW task PROVE ActionCost(telemetry, task) \in Nat
    OBVIOUS
  <2>1. IsFiniteSet(DOMAIN telemetry)
    <3>1. Len(telemetry) \in Nat /\ DOMAIN telemetry = 1..Len(telemetry)
      BY DEF ScoresInv
    <3> QED BY <3>1, FS_Interval
  <2>2. PICK A \in SUBSET DOMAIN telemetry : ActionCost(telemetry, task) = Cardinality(A)
    BY DEF ActionCost
  <2> QED BY <2>1, <2>2, FS_Subset, FS_CardinalityType
<1>4. ASSUME NEW s \in evidence PROVE Strict(C[s]) /\ C[s].cost \in Nat
  <2>1. Cost(s) \in Nat
    BY <1>3
  <2> HIDE DEF Cost
  <2>2. C[s].score = s.score /\ C[s].evaluators = s.evaluators /\ C[s].cost = Cost(s)
    BY <1>2 DEF IsSession
  <2> HIDE DEF C
  <2> QED BY <1>2, <2>1, <2>2 DEF Strict
<1> HIDE DEF C
<1> QED BY <1>1, <1>2, <1>4, ImageFinite

LEMMA PartsGraded ==
    ASSUME Scored, ScoresInv
    PROVE  Graded(SessionParts(suite, Costed) \cup evaluateSuiteConsistency(suite.checks, carried))
<1>0. suite \in Suites /\ Unit \in Nat
  BY DEF Scored, EvidenceInv, Unit
<1>1. Graded(SessionParts(suite, Costed))
  <2> DEFINE Need(t) == t.task \in suite.required
             P == [t \in Costed |-> Part(<<"session", t.task>>, t.status, t.score,
                                         suite.weight[t.task], Need(t))]
  <2>1. SessionParts(suite, Costed) = {P[t] : t \in Costed}
    BY DEF SessionParts
  <2>2. ASSUME NEW t \in Costed PROVE P[t].score = t.score /\ P[t].weight = suite.weight[t.task]
    <3> HIDE DEF Need
    <3> QED BY DEF Part
  <2>3. \A t \in Costed : t.score \in 0..Unit /\ suite.weight[t.task] \in Nat
    BY <1>0, CostedStrict, OneOfEach, ListsOfSuites DEF Strict
  <2> HIDE DEF P
  <2> QED BY <2>1, <2>2, <2>3, CostedStrict, ImageFinite DEF Graded
<1>2. Graded(evaluateSuiteConsistency(suite.checks, carried))
  <2> DEFINE Status(c) == IF CheckPassed(c, carried) THEN "passed" ELSE "failed"
             Score(c) == IF CheckPassed(c, carried) THEN Unit ELSE 0
             P == [c \in suite.checks |-> Part(<<"check", c.name>>, Status(c), Score(c), c.weight, c.required)]
  <2>1. evaluateSuiteConsistency(suite.checks, carried) = {P[c] : c \in suite.checks}
    BY DEF evaluateSuiteConsistency
  <2>2. \A c : Score(c) \in 0..Unit
    BY <1>0
  <2> HIDE DEF Status, Score
  <2>3. \A c \in suite.checks : P[c].score = Score(c) /\ P[c].weight = c.weight
    BY DEF Part
  <2> HIDE DEF P
  <2> QED BY <1>0, <2>1, <2>2, <2>3, ListsOfSuites, ImageFinite DEF Graded, Weighed
<1> QED BY <1>1, <1>2, GradedTogether

LEMMA FinalStateGraded ==
    ASSUME NEW t, Strict(t), NEW c
    PROVE  finalStateComponent(t, c).score \in 0..Unit /\ finalStateComponent(t, c).weight \in Nat
<1>1. /\ finalStateComponent(t, c).score = (IF t.status = "passed" THEN t.score ELSE 0)
      /\ finalStateComponent(t, c).weight = 1
  BY FinalStateIs
<1>2. t.score \in 0..Unit /\ 0 \in 0..Unit
  BY DEF Strict, Unit
<1> QED BY <1>1, <1>2

LEMMA MeanInRange ==
    ASSUME NEW t, Strict(t), Shown(t) # {}
    PROVE  MeanShown(t) \in 0..Unit
<1> DEFINE f == [e \in Shown(t) |-> e.score]
           n == SumOn(f, Shown(t))
<1>1. IsFiniteSet(Shown(t)) /\ \A e \in Shown(t) : e.score \in {0, Unit}
  BY FS_Subset DEF Strict, Shown, Required
<1>2. Cardinality(Shown(t)) \in Nat \ {0}
  BY <1>1, FS_CardinalityType, FS_EmptySet
<1>3. n \in Nat /\ n <= Unit * Cardinality(Shown(t))
  <2>1. \A e \in Shown(t) : f[e] \in Nat /\ f[e] <= Unit
    BY <1>1 DEF Unit
  <2> HIDE DEF f
  <2> QED BY <1>1, <2>1, SumNat, SumCount DEF Unit
<1>4. MeanShown(t) = Rounded(n, Cardinality(Shown(t)))
  BY SumOfFunction DEF MeanShown
<1> HIDE DEF n
<1>5. Unit \in Nat
  BY DEF Unit
<1> QED BY <1>2, <1>3, <1>4, <1>5, RoundedRange

LEMMA EvidenceGraded ==
    ASSUME NEW t, Strict(t), NEW c
    PROVE  Graded(evidenceComponent(t, c))
<1>1. CASE Shown(t) = {}
  BY <1>1, EvidenceIs, FS_EmptySet DEF Graded
<1>2. CASE Shown(t) # {}
  BY <1>2, EvidenceIs, MeanInRange, FS_Singleton DEF Graded
<1> QED BY <1>1, <1>2

LEMMA CostGraded ==
    ASSUME NEW t, t.cost \in Nat, NEW c, c.preferred \in Nat, c.hard \in Nat
    PROVE  Graded(interactionCostComponent(t, c))
<1> DEFINE no == FALSE
           score == IF t.cost <= c.preferred THEN Unit
                    ELSE IF t.cost >= c.hard THEN 0
                    ELSE Rounded(Unit * (c.hard - t.cost), c.hard - c.preferred)
           part == Part("", "passed", score, 1, no)
           x == Component(<<"interaction-cost", t.task>>, c, "interaction-cost", part)
<1>1. interactionCostComponent(t, c) = IF t.cost = 0 THEN {} ELSE {x}
  BY DEF interactionCostComponent
<1>2. score \in 0..Unit
  <2>1. Unit \in Nat
    BY DEF Unit
  <2>2. ASSUME ~(t.cost <= c.preferred), ~(t.cost >= c.hard)
        PROVE  Rounded(Unit * (c.hard - t.cost), c.hard - c.preferred) \in 0..Unit
    <3> DEFINE a == c.hard - t.cost
               b == c.hard - c.preferred
    <3>1. a \in Nat /\ b \in Nat \ {0} /\ a <= b
      BY <2>2
    <3> HIDE DEF a, b
    <3>2. Unit * a \in Nat /\ Unit * a <= Unit * b
      BY <2>1, <3>1
    <3>3. Rounded(Unit * a, b) \in 0..Unit
      BY <2>1, <3>1, <3>2, RoundedRange
    <3> QED BY <3>3 DEF a, b
  <2> QED BY <2>1, <2>2
<1> HIDE DEF no, score
<1>3. part.score = score /\ part.weight = 1
  BY DEF Part
<1> HIDE DEF part
<1>4. x.score = score /\ x.weight = 1
  BY <1>3 DEF Component
<1> HIDE DEF x
<1>5. CASE t.cost = 0
  <2>1. interactionCostComponent(t, c) = {}
    BY <1>1, <1>5
  <2> QED BY <2>1, FS_EmptySet DEF Graded
<1>6. CASE t.cost # 0
  BY <1>1, <1>2, <1>4, <1>6, FS_Singleton DEF Graded
<1> QED BY <1>5, <1>6

LEMMA SessionComponentsGraded ==
    ASSUME Scored, ScoresInv
    PROVE  Graded(buildSessionComponents(suite.matrix, Costed))
<1>0. suite \in Suites
  BY DEF Scored, EvidenceInv
<1>1. /\ IsFiniteSet(Costed) /\ \A t \in Costed : Strict(t) /\ t.cost \in Nat
      /\ \A task : \A dimension :
           /\ IsFiniteSet(Covered(task, dimension))
           /\ \A c \in Covered(task, dimension) : c.preferred \in Nat /\ c.hard \in Nat
  <2>1. \A task : \A dimension : Covered(task, dimension) \subseteq suite.matrix.coverage
    BY DEF Covered, matchingCoverage
  <2> QED BY <1>0, <2>1, CostedStrict, ListsOfSuites, FS_Subset
<1>2. Graded(FinalStates)
  <2> DEFINE X(t) == [c \in Covered(t.task, "final-state-correctness") |-> finalStateComponent(t, c)]
             G == [t \in Costed |-> {X(t)[c] : c \in Covered(t.task, "final-state-correctness")}]
  <2>1. FinalStates = UNION {G[t] : t \in Costed}
    BY DEF FinalStates
  <2>2. \A t \in Costed : IsFiniteSet(G[t])
    <3> HIDE DEF X
    <3> QED BY <1>1, ImageFinite
  <2>3. \A t \in Costed : \A x \in G[t] : x.score \in 0..Unit /\ x.weight \in Nat
    BY <1>1, FinalStateGraded
  <2> HIDE DEF G
  <2> QED BY <1>1, <2>1, <2>2, <2>3, UnionFinite DEF Graded
<1>3. Graded(Evidence)
  <2> DEFINE X(t) == [c \in Covered(t.task, "evidence-verification") |-> evidenceComponent(t, c)]
             G == [t \in Costed |-> UNION {X(t)[c] : c \in Covered(t.task, "evidence-verification")}]
  <2>1. Evidence = UNION {G[t] : t \in Costed}
    BY DEF Evidence
  <2>2. \A t \in Costed : \A c \in Covered(t.task, "evidence-verification") : Graded(X(t)[c])
    BY <1>1, EvidenceGraded
  <2>3. ASSUME NEW t \in Costed PROVE Graded(G[t])
    <3> DEFINE C == Covered(t.task, "evidence-verification")
               b == X(t)
    <3>1. G[t] = UNION {b[c] : c \in C}
      BY <2>3
    <3>2. IsFiniteSet(C) /\ \A c \in C : Graded(b[c])
      BY <1>1, <2>2
    <3> HIDE DEF G, b, C
    <3>3. IsFiniteSet(UNION {b[c] : c \in C})
      BY <3>2, UnionFinite DEF Graded
    <3> QED BY <3>1, <3>2, <3>3 DEF Graded
  <2> HIDE DEF G
  <2> QED BY <1>1, <2>1, <2>3, UnionFinite DEF Graded
<1>4. Graded(Costs)
  <2> DEFINE X(t) == [c \in Covered(t.task, "interaction-cost") |-> interactionCostComponent(t, c)]
             G == [t \in Costed |-> UNION {X(t)[c] : c \in Covered(t.task, "interaction-cost")}]
  <2>1. Costs = UNION {G[t] : t \in Costed}
    BY DEF Costs
  <2>2. \A t \in Costed : \A c \in Covered(t.task, "interaction-cost") : Graded(X(t)[c])
    BY <1>1, CostGraded
  <2>3. ASSUME NEW t \in Costed PROVE Graded(G[t])
    <3> DEFINE C == Covered(t.task, "interaction-cost")
               b == X(t)
    <3>1. G[t] = UNION {b[c] : c \in C}
      BY <2>3
    <3>2. IsFiniteSet(C) /\ \A c \in C : Graded(b[c])
      BY <1>1, <2>2
    <3> HIDE DEF G, b, C
    <3>3. IsFiniteSet(UNION {b[c] : c \in C})
      BY <3>2, UnionFinite DEF Graded
    <3> QED BY <3>1, <3>2, <3>3 DEF Graded
  <2> HIDE DEF G
  <2> QED BY <1>1, <2>1, <2>3, UnionFinite DEF Graded
<1> QED BY <1>2, <1>3, <1>4, GradedTogether, SessionComponentsAre

LEMMA GraphComponentsGraded ==
    ASSUME Scored
    PROVE  Graded(buildGraphComponents(suite.matrix, suite.graph, Costed))
<1>0. suite \in Suites /\ Unit \in Nat
  BY DEF Scored, EvidenceInv, Unit
<1> DEFINE G == suite.graph
           E(e) == CHOOSE p \in EdgeResults(G, Outcomes) : p.id = <<"edge", e.id>>
           F(f) == CHOOSE p \in FaultResults(G, Outcomes) : p.id = <<"fault", f.id>>
<1>1. ASSUME NEW e \in G.edges PROVE E(e).score \in 0..Unit /\ E(e).weight \in Nat
  <2>1. E(e) = EdgePart(e, Outcomes)
    BY <1>0, ResultsOfGraph
  <2> HIDE DEF E
  <2>2. E(e).score \in {0, Unit} /\ E(e).weight = e.weight
    BY <2>1, EdgePartIs
  <2> QED BY <1>0, <2>2, ListsOfSuites DEF Weighed
<1>2. ASSUME NEW f \in G.faults PROVE F(f).score \in 0..Unit /\ F(f).weight \in Nat
  <2>1. F(f) = FaultPart(f, Outcomes)
    BY <1>0, ResultsOfGraph
  <2> HIDE DEF F
  <2>2. F(f).score \in {0, Unit} /\ F(f).weight = f.weight
    BY <2>1, FaultPartIs
  <2> QED BY <1>0, <2>2, ListsOfSuites DEF Weighed
<1>3. Graded(Dependencies)
  <2> DEFINE D == {d \in G.edges : Covered(NodeOf(d.to).task, "dependency-consistency") # {}}
             X == [e \in D |-> Component(<<"dependency", e.id>>, NodeOf(e.to), "dependency-consistency", E(e))]
  <2>1. Dependencies = {X[e] : e \in D}
    BY DEF Dependencies
  <2>2. IsFiniteSet(D)
    BY <1>0, ListsOfSuites, FS_Subset DEF Weighed
  <2> HIDE DEF E
  <2>3. \A e \in D : X[e].score = E(e).score /\ X[e].weight = E(e).weight
    BY DEF Component
  <2>4. \A e \in D : e \in G.edges
    OBVIOUS
  <2> HIDE DEF X, D
  <2> QED BY <1>1, <2>1, <2>2, <2>3, <2>4, ImageFinite DEF Graded
<1>4. Graded(Recoveries)
  <2> DEFINE D == {d \in G.faults : Covered(NodeOf(d.node).task, "recovery-safety") # {}}
             X == [f \in D |-> Component(<<"recovery", f.id>>, NodeOf(f.node), "recovery-safety", F(f))]
  <2>1. Recoveries = {X[f] : f \in D}
    BY DEF Recoveries
  <2>2. IsFiniteSet(D)
    BY <1>0, ListsOfSuites, FS_Subset DEF Weighed
  <2> HIDE DEF F
  <2>3. \A f \in D : X[f].score = F(f).score /\ X[f].weight = F(f).weight
    BY DEF Component
  <2>4. \A f \in D : f \in G.faults
    OBVIOUS
  <2> HIDE DEF X, D
  <2> QED BY <1>2, <2>1, <2>2, <2>3, <2>4, ImageFinite DEF Graded
<1> QED BY <1>3, <1>4, GradedTogether, GraphComponentsAre

LEMMA SuiteScoreInRange ==
    ASSUME Scored, ScoresInv
    PROVE  aggregateSuiteScore(suite, Costed, carried).score \in 0..Unit
<1>0. suite \in Suites
  BY DEF Scored, EvidenceInv
<1>1. Graded(DimensionResults(suite.matrix, Components))
  <2> DEFINE P == [d \in suite.matrix.dimensions |->
                     Part(<<"dimension", d.id>>, DimensionOf(d).status, DimensionOf(d).score,
                          d.weight, d.required)]
  <2>1. DimensionResults(suite.matrix, Components) = {P[d] : d \in suite.matrix.dimensions}
    BY DEF DimensionResults, DimensionOf
  <2>2. Graded(Components)
    BY SessionComponentsGraded, GraphComponentsGraded, GradedTogether DEF Components
  <2>3. ASSUME NEW d PROVE DimensionOf(d).score \in 0..Unit
    <3> DEFINE X == {c \in Components : c.dimension = d.id}
    <3>1. Graded(X)
      BY <2>2, GradedSubset
    <3>2. DimensionOf(d).score = WeightedScore(X)
      BY DEF DimensionOf, aggregateComponents
    <3> HIDE DEF X
    <3> QED BY <3>1, <3>2, WeightedInRange
  <2>4. \A d \in suite.matrix.dimensions : P[d].score = DimensionOf(d).score /\ P[d].weight = d.weight
    BY DEF Part
  <2> HIDE DEF P
  <2> QED BY <1>0, <2>1, <2>3, <2>4, ListsOfSuites, ImageFinite DEF Graded, Weighed
<1>2. CASE suite.matrix = NoMatrix
  <2>1. aggregateSuiteScore(suite, Costed, carried).score =
          WeightedScore(SessionParts(suite, Costed) \cup evaluateSuiteConsistency(suite.checks, carried))
    BY <1>2 DEF aggregateSuiteScore
  <2> QED BY <2>1, PartsGraded, WeightedInRange
<1>3. CASE suite.matrix # NoMatrix
  <2>1. aggregateSuiteScore(suite, Costed, carried).score =
          WeightedScore(DimensionResults(suite.matrix, Components))
    BY <1>3 DEF aggregateSuiteScore, buildCapabilityAttemptEvaluation, aggregateCapabilityScores, Components
  <2> QED BY <1>1, <2>1, WeightedInRange
<1> QED BY <1>2, <1>3

(* A score lies between nothing and everything. *)
ScoreInRange == Ended => outcome.score \in 0..Unit

LEMMA RangeKept ==
    ASSUME EvidenceInv, ScoresInv PROVE ScoreInRange
<1> SUFFICES ASSUME outcome # NoOutcome PROVE outcome.score \in 0..Unit
  BY DEF ScoreInRange, Ended
<1>1. Scored /\ outcome = aggregateSuiteScore(suite, Costed, carried)
  BY DEF EvidenceInv, Scored, Costed
<1> QED BY <1>1, SuiteScoreInRange

-----------------------------------------------------------------------------
(* Doing better: larger summands, larger quotients.  What follows shows    *)
(* that better evidence never makes a suite fare worse, from the bottom of *)
(* the pipeline up: sums and means, verdicts, groups of parts, the graph,  *)
(* the components, the capabilities and the suite.                         *)

LEMMA SumGrows ==
    ASSUME NEW S, IsFiniteSet(S), NEW f, NEW g,
           \A x \in S : f[x] \in Int /\ g[x] \in Int /\ f[x] <= g[x]
    PROVE  SumOn(f, S) <= SumOn(g, S)
<1>1. \A x \in S : f[x] \in Int /\ g[x] \in Int /\ f[x] <= 1 * g[x]
  OBVIOUS
<1>2. 1 \in Int
  OBVIOUS
<1>3. SumOn(f, S) <= 1 * SumOn(g, S)
  BY <1>1, <1>2, SumBound
<1>4. SumOn(g, S) \in Int
  BY SumInt
<1> QED BY <1>3, <1>4

LEMMA SumSame ==
    ASSUME NEW S, IsFiniteSet(S), NEW f, NEW g, \A x \in S : f[x] \in Int /\ f[x] = g[x]
    PROVE  SumOn(f, S) = SumOn(g, S)
<1>1. SumOn(f, S) <= SumOn(g, S) /\ SumOn(g, S) <= SumOn(f, S)
  BY SumGrows
<1>2. SumOn(f, S) \in Int /\ SumOn(g, S) \in Int
  BY SumInt
<1> QED BY <1>1, <1>2

LEMMA RoundedInt ==
    ASSUME NEW d \in Nat \ {0}, NEW n \in Int
    PROVE  Rounded(n, d) \in Int
  BY Division DEF Rounded

LEMMA RoundedOfFewer ==
    ASSUME NEW d \in Nat \ {0, 1}, NEW n \in Nat
    PROVE  Rounded(n, d) <= Rounded(n, d - 1)
<1> DEFINE q == Rounded(n, d)
<1>1. q \in Int /\ (2 * d) * q <= 2 * n + d
  BY Division DEF Rounded
<1>2. 0 <= q
  <2>1. (2 * d) * 0 <= 2 * n + d
    OBVIOUS
  <2> QED BY <2>1, DivisionBound DEF Rounded
<1> HIDE DEF q
<1>3. (2 * (d - 1)) * q = (2 * d) * q - 2 * q
  BY <1>1
<1>4. (2 * (d - 1)) * q <= 2 * n + (d - 1)
  <2>1. CASE q = 0
    BY <2>1
  <2>2. CASE q # 0
    BY <1>1, <1>2, <1>3, <2>2
  <2> QED BY <2>1, <2>2
<1>5. 2 * (d - 1) \in Nat \ {0} /\ 2 * n + (d - 1) \in Int
  OBVIOUS
<1>6. q <= Rounded(n, d - 1)
  BY <1>1, <1>4, <1>5, DivisionBound DEF Rounded
<1> QED BY <1>6 DEF q

-----------------------------------------------------------------------------
(* Parts in place of others *)

(* A verdict b is at least as good as a. *)
NotLower(a, b) == (b = "error" => a = "error") /\ (a = "passed" => b = "passed")

LEMMA RanksGrow ==
    ASSUME NEW a \in Statuses, NEW b \in Statuses
    PROVE  Rank(a) <= Rank(b) <=> NotLower(a, b)
  BY DEF Statuses, Rank, NotLower

LEMMA VerdictGrows ==
    ASSUME NEW X, NEW Y,
           (\E p \in Y : p.status = "error") => \E p \in X : p.status = "error",
           (\A p \in X : p.status = "passed") => \A p \in Y : p.status = "passed"
    PROVE  NotLower(Verdict(X), Verdict(Y))
  BY DEF NotLower, Verdict

(* Whatever is required now was, and no better. *)
NoLess(X, Y) ==
    \A y \in Y : y.required => \E x \in X : x.required /\ NotLower(x.status, y.status)

LEMMA RequiredGrow ==
    ASSUME NEW X, NEW Y, NoLess(X, Y)
    PROVE  NotLower(Verdict(Required(X)), Verdict(Required(Y)))
<1>1. (\E p \in Required(Y) : p.status = "error") => \E p \in Required(X) : p.status = "error"
  BY DEF NoLess, NotLower, Required
<1>2. (\A p \in Required(X) : p.status = "passed") => \A p \in Required(Y) : p.status = "passed"
  BY DEF NoLess, NotLower, Required
<1> QED BY <1>1, <1>2, VerdictGrows

(* One part in place of another: as heavy, and no worse.                   *)
NotWorse(x, y) ==
    /\ x.score \in Int /\ y.score \in Int /\ x.score <= y.score
    /\ x.weight \in Nat /\ y.weight = x.weight /\ (y.required <=> x.required)
    /\ NotLower(x.status, y.status)

Paired(X, Y, b) ==
    /\ IsFiniteSet(X) /\ Y = {b[x] : x \in X}
    /\ \A x \in X : NotWorse(x, b[x])
    /\ \A x, y \in X : b[x] = b[y] => x = y

(* Components are of the same kind, too. *)
SameKind(x, y) == y.capabilities = x.capabilities /\ y.dimension = x.dimension

(* Each of X has one of Y in its place. *)
Betters(X, Y) == \E b : Paired(X, Y, b)
BettersInKind(X, Y) == \E b : Paired(X, Y, b) /\ \A x \in X : SameKind(x, b[x])

LEMMA BetterRequired ==
    ASSUME NEW X, NEW Y, Betters(X, Y)
    PROVE  /\ NoLess(X, Y)
           /\ Required(X) = {} <=> Required(Y) = {}
<1>1. PICK b : Paired(X, Y, b)
  BY DEF Betters
<1>2. /\ Y = {b[x] : x \in X}
      /\ \A x \in X : (b[x].required <=> x.required) /\ NotLower(x.status, b[x].status)
  BY <1>1 DEF Paired, NotWorse
<1> QED BY <1>2 DEF NoLess, Required

LEMMA WeightedGrows ==
    ASSUME NEW X, NEW Y, Betters(X, Y)
    PROVE  /\ WeightedScore(X) \in Int /\ WeightedScore(Y) \in Int
           /\ WeightedScore(X) <= WeightedScore(Y)
<1>1. PICK b : Paired(X, Y, b)
  BY DEF Betters
<1> DEFINE one == [x \in X |-> x]
           a == [x \in X |-> x.score]
           c == [x \in X |-> b[x].score]
           w == [x \in X |-> x.weight]
           k == [x \in X |-> a[x] * w[x]]
           m == [x \in X |-> c[x] * w[x]]
<1>2. IsFiniteSet(X) /\ \A x \in X : /\ a[x] \in Int /\ c[x] \in Int /\ a[x] <= c[x] /\ w[x] \in Nat
                                    /\ b[x].score = c[x] /\ b[x].weight = w[x]
  BY <1>1 DEF Paired, NotWorse
<1>3. OneEach(X, one, a, w, X)
  <2>1. X = {one[x] : x \in X} /\ \A x \in X : one[x].score = a[x] /\ one[x].weight = w[x]
    OBVIOUS
  <2>2. \A x, y \in X : one[x] = one[y] => x = y
    OBVIOUS
  <2> HIDE DEF one, a, w
  <2> QED BY <1>2, <2>1, <2>2 DEF OneEach
<1>4. OneEach(Y, b, c, w, X)
  <2> HIDE DEF a, c, w
  <2> QED BY <1>1, <1>2 DEF OneEach, Paired
<1>5. /\ TotalWeight(X) = SumOn(w, X) /\ Summed(X) = SumOn(k, X)
      /\ TotalWeight(Y) = SumOn(w, X) /\ Summed(Y) = SumOn(m, X)
  <2> HIDE DEF one, a, c, w
  <2> QED BY <1>3, <1>4, SumsRenamed DEF Products
<1>6. ASSUME NEW x \in X PROVE k[x] \in Int /\ m[x] \in Int /\ k[x] <= m[x]
  <2> DEFINE r == a[x]
             s == c[x]
             t == w[x]
  <2>1. k[x] = r * t /\ m[x] = s * t
    OBVIOUS
  <2>2. r \in Int /\ s \in Int /\ r <= s /\ t \in Nat
    BY <1>2
  <2> HIDE DEF r, s, t
  <2>3. r * t \in Int /\ s * t \in Int /\ r * t <= s * t
    BY <2>2
  <2> QED BY <2>1, <2>3
<1> HIDE DEF one, a, c, w, k, m
<1>7. /\ SumOn(k, X) \in Int /\ SumOn(m, X) \in Int /\ SumOn(k, X) <= SumOn(m, X)
      /\ SumOn(w, X) \in Nat
  BY <1>2, <1>6, SumGrows, SumInt, SumNat
<1>8. /\ WeightedScore(X) = IF SumOn(w, X) = 0 THEN 0 ELSE Rounded(SumOn(k, X), SumOn(w, X))
      /\ WeightedScore(Y) = IF SumOn(w, X) = 0 THEN 0 ELSE Rounded(SumOn(m, X), SumOn(w, X))
  BY <1>5 DEF WeightedScore, Summed
<1>9. SumOn(w, X) # 0 =>
        /\ Rounded(SumOn(k, X), SumOn(w, X)) \in Int /\ Rounded(SumOn(m, X), SumOn(w, X)) \in Int
        /\ Rounded(SumOn(k, X), SumOn(w, X)) <= Rounded(SumOn(m, X), SumOn(w, X))
  BY <1>7, RoundedGrows, RoundedInt
<1> QED BY <1>8, <1>9

(* Two lists made of the same things. *)
MadeOf(X, p, I) == X = {p[i] : i \in I} /\ \A i, j \in I : p[i] = p[j] => i = j

LEMMA MadeOfTheSame ==
    ASSUME NEW I, IsFiniteSet(I), NEW X, NEW Y, NEW p, NEW q, MadeOf(X, p, I), MadeOf(Y, q, I),
           \A i \in I : NotWorse(p[i], q[i])
    PROVE  /\ Betters(X, Y)
           /\ (\A i \in I : SameKind(p[i], q[i])) => BettersInKind(X, Y)
<1> DEFINE Of(x) == CHOOSE i \in I : p[i] = x
           b == [x \in X |-> q[Of(x)]]
<1>1. \A i \in I : Of(p[i]) = i
  BY DEF MadeOf
<1>2. \A i \in I : p[i] \in X /\ b[p[i]] = q[i]
  BY <1>1 DEF MadeOf
<1>3. \A x \in X : \E i \in I : x = p[i]
  BY DEF MadeOf
<1>4. IsFiniteSet(X)
  BY ImageFinite DEF MadeOf
<1> HIDE DEF b, Of
<1>5. Y = {b[x] : x \in X}
  BY <1>2, <1>3 DEF MadeOf
<1>6. \A x \in X : NotWorse(x, b[x])
  BY <1>2, <1>3
<1>7. \A x, y \in X : b[x] = b[y] => x = y
  BY <1>2, <1>3 DEF MadeOf
<1>8. Paired(X, Y, b)
  BY <1>4, <1>5, <1>6, <1>7 DEF Paired
<1>9. (\A i \in I : SameKind(p[i], q[i])) => \A x \in X : SameKind(x, b[x])
  BY <1>2, <1>3
<1> QED BY <1>8, <1>9 DEF Betters, BettersInKind

LEMMA BetterTogether ==
    ASSUME NEW X, NEW Y, NEW V, NEW W, X \cap V = {}, Y \cap W = {}
    PROVE  /\ Betters(X, Y) /\ Betters(V, W) => Betters(X \cup V, Y \cup W)
           /\ BettersInKind(X, Y) /\ BettersInKind(V, W) => BettersInKind(X \cup V, Y \cup W)
<1> DEFINE Joined(d, b, c) == /\ Paired(X \cup V, Y \cup W, d)
                              /\ \A x \in X : d[x] = b[x]
                              /\ \A x \in V : d[x] = c[x]
<1>1. ASSUME NEW b, NEW c, Paired(X, Y, b), Paired(V, W, c)
      PROVE  \E d : Joined(d, b, c)
  <2> DEFINE d == [x \in X \cup V |-> IF x \in X THEN b[x] ELSE c[x]]
  <2>1. (\A x \in X : d[x] = b[x]) /\ \A x \in V : d[x] = c[x]
    OBVIOUS
  <2> HIDE DEF d
  <2>2. IsFiniteSet(X \cup V)
    BY <1>1, FS_Union DEF Paired
  <2>3. Y \cup W = {d[x] : x \in X \cup V}
    BY <1>1, <2>1 DEF Paired
  <2>4. \A x, y \in X \cup V : d[x] = d[y] => x = y
    BY <1>1, <2>1 DEF Paired
  <2>5. \A x \in X \cup V : NotWorse(x, d[x])
    BY <1>1, <2>1 DEF Paired
  <2>6. Paired(X \cup V, Y \cup W, d)
    BY <2>2, <2>3, <2>4, <2>5 DEF Paired
  <2> QED BY <2>1, <2>6
<1>2. ASSUME Betters(X, Y), Betters(V, W) PROVE Betters(X \cup V, Y \cup W)
  BY <1>1, <1>2 DEF Betters
<1>3. ASSUME BettersInKind(X, Y), BettersInKind(V, W) PROVE BettersInKind(X \cup V, Y \cup W)
  <2>1. PICK b : Paired(X, Y, b) /\ \A x \in X : SameKind(x, b[x])
    BY <1>3 DEF BettersInKind
  <2>2. PICK c : Paired(V, W, c) /\ \A x \in V : SameKind(x, c[x])
    BY <1>3 DEF BettersInKind
  <2>3. PICK d : Joined(d, b, c)
    <3> HIDE DEF Joined
    <3> QED BY <1>1, <2>1, <2>2
  <2> QED BY <2>1, <2>2, <2>3 DEF BettersInKind
<1> QED BY <1>2, <1>3

InTrack(id, X) == {c \in X : id \in c.capabilities}
InDimension(id, X) == {c \in X : c.dimension = id}

LEMMA BetterOfAKind ==
    ASSUME NEW X, NEW Y, BettersInKind(X, Y), NEW id
    PROVE  /\ Betters(InTrack(id, X), InTrack(id, Y))
           /\ Betters(InDimension(id, X), InDimension(id, Y))
<1>1. PICK b : Paired(X, Y, b) /\ \A x \in X : SameKind(x, b[x])
  BY DEF BettersInKind
<1>2. /\ IsFiniteSet(InTrack(id, X)) /\ IsFiniteSet(InDimension(id, X))
      /\ InTrack(id, Y) = {b[x] : x \in InTrack(id, X)}
      /\ InDimension(id, Y) = {b[x] : x \in InDimension(id, X)}
      /\ InTrack(id, X) \subseteq X /\ InDimension(id, X) \subseteq X
  BY <1>1, FS_Subset DEF Paired, SameKind, InTrack, InDimension
<1>3. Paired(InTrack(id, X), InTrack(id, Y), b)
  BY <1>1, <1>2 DEF Paired
<1>4. Paired(InDimension(id, X), InDimension(id, Y), b)
  BY <1>1, <1>2 DEF Paired
<1> QED BY <1>3, <1>4 DEF Betters

LEMMA GroupGrows ==
    ASSUME NEW X, NEW Y, Betters(X, Y), NEW required
    PROVE  LET a == aggregateComponents(X, required)
               b == aggregateComponents(Y, required)
           IN  /\ a.score \in Int /\ b.score \in Int /\ a.score <= b.score
               /\ NotLower(a.status, b.status)
<1> DEFINE a == aggregateComponents(X, required)
           b == aggregateComponents(Y, required)
           Lacks(Z) == required /\ Required(Z) = {}
<1>1. /\ a.score = WeightedScore(X) /\ b.score = WeightedScore(Y)
      /\ a.status = IF Lacks(X) THEN "failed" ELSE Verdict(Required(X))
      /\ b.status = IF Lacks(Y) THEN "failed" ELSE Verdict(Required(Y))
  BY DEF aggregateComponents
<1>2. NotLower(Verdict(Required(X)), Verdict(Required(Y))) /\ (Lacks(X) <=> Lacks(Y))
  BY BetterRequired, RequiredGrow
<1> HIDE DEF a, b, Lacks
<1>3. NotLower(a.status, b.status)
  BY <1>1, <1>2 DEF NotLower
<1> QED BY <1>1, <1>3, WeightedGrows DEF a, b

-----------------------------------------------------------------------------
(* Sessions that fare better, and the graph that is made of them *)

(* The same session, no worse. *)
Fares(x, y) ==
    /\ y.task = x.task /\ y.variant = x.variant /\ y.cost = x.cost /\ y.recovered = x.recovered
    /\ NotLower(x.status, y.status)
    /\ x.score = (IF x.status = "passed" THEN Unit ELSE 0)
    /\ y.score = (IF y.status = "passed" THEN Unit ELSE 0)
    /\ \A p : Proven(x, p) => Proven(y, p)
    /\ \A p : (\E e \in y.evaluators : e.name = p /\ e.status = "error")
                => \E e \in x.evaluators : e.name = p /\ e.status = "error"
    /\ Shown(x) = {} <=> Shown(y) = {}
    /\ NotLower(Verdict(Shown(x)), Verdict(Shown(y)))
    /\ Shown(x) # {} => MeanShown(x) \in Int /\ MeanShown(y) \in Int /\ MeanShown(x) <= MeanShown(y)

(* S and T are one session per task, and those of T are no worse.          *)
Faring(S, T, u, v) ==
    /\ suite \in Suites /\ OnePerTask(S, u) /\ OnePerTask(T, v)
    /\ \A t \in TasksOf(suite) : Fares(u[t], v[t]) /\ u[t].cost \in Nat

OutcomesOf(S) == buildScenarioOutcomes(suite.graph, S)

LEMMA OutcomesFare ==
    ASSUME NEW S, NEW T, NEW u, NEW v, Faring(S, T, u, v), NEW n \in suite.graph.nodes
    PROVE  /\ n.id \in DOMAIN OutcomesOf(T) => n.id \in DOMAIN OutcomesOf(S)
           /\ n.kind # "distractor" => n.id \in DOMAIN OutcomesOf(T)
           /\ n.id \in DOMAIN OutcomesOf(T) =>
                /\ NotLower(OutcomesOf(S)[n.id].status, OutcomesOf(T)[n.id].status)
                /\ OutcomesOf(S)[n.id].revised \subseteq OutcomesOf(T)[n.id].revised
                /\ OutcomesOf(S)[n.id].recovered = OutcomesOf(T)[n.id].recovered
           /\ n.kind = "distractor" /\ n.id \in DOMAIN OutcomesOf(S) =>
                OutcomesOf(S)[n.id].revised = {} /\ OutcomesOf(S)[n.id].recovered = {}
<1> DEFINE x == u[n.task]
           y == v[n.task]
           A == OutcomesOf(S)
           B == OutcomesOf(T)
<1>1. suite \in Suites /\ n.task \in TasksOf(suite) /\ OnePerTask(S, u) /\ OnePerTask(T, v)
  BY GraphsOfSuites DEF Faring
<1>2. Fares(x, y) /\ x.task = n.task /\ y.task = n.task
  BY <1>1 DEF Faring, OnePerTask
<1>3. /\ n.id \in DOMAIN A <=> OutcomeKnown(n, x)
      /\ n.id \in DOMAIN A => A[n.id] = Outcome(suite.graph, n, x)
  BY <1>1, OutcomesAre DEF OutcomesOf
<1>4. /\ n.id \in DOMAIN B <=> OutcomeKnown(n, y)
      /\ n.id \in DOMAIN B => B[n.id] = Outcome(suite.graph, n, y)
  BY <1>1, OutcomesAre DEF OutcomesOf
<1> HIDE DEF x, y, A, B
<1>5. /\ OutcomeKnown(n, y) => OutcomeKnown(n, x)
      /\ n.kind # "distractor" => OutcomeKnown(n, y)
  BY <1>2 DEF OutcomeKnown, Fares
<1>6. CASE n.kind = "distractor"
  <2>1. /\ Outcome(suite.graph, n, x).revised = {} /\ Outcome(suite.graph, n, x).recovered = {}
        /\ Outcome(suite.graph, n, y).revised = {} /\ Outcome(suite.graph, n, y).recovered = {}
    BY <1>6 DEF Outcome
  <2>2. /\ Outcome(suite.graph, n, x).status =
             IF \E e \in x.evaluators : e.name = n.proof /\ e.status = "error" THEN "error" ELSE "failed"
        /\ Outcome(suite.graph, n, y).status =
             IF \E e \in y.evaluators : e.name = n.proof /\ e.status = "error" THEN "error" ELSE "failed"
    BY <1>6 DEF Outcome
  <2>3. NotLower(Outcome(suite.graph, n, x).status, Outcome(suite.graph, n, y).status)
    BY <1>2, <2>2 DEF NotLower, Fares
  <2> QED BY <1>3, <1>4, <1>5, <1>6, <2>1, <2>3 DEF A, B
<1>7. CASE n.kind # "distractor"
  <2> DEFINE R(s) == {e.from : e \in {d \in suite.graph.edges : /\ d.relation = "revises"
                                                               /\ d.to = n.id
                                                               /\ Proven(s, d.proof)}}
  <2>1. /\ Outcome(suite.graph, n, x).revised = R(x) /\ Outcome(suite.graph, n, y).revised = R(y)
        /\ Outcome(suite.graph, n, x).recovered = x.recovered
        /\ Outcome(suite.graph, n, y).recovered = y.recovered
        /\ Outcome(suite.graph, n, x).status = x.status /\ Outcome(suite.graph, n, y).status = y.status
    BY <1>7 DEF Outcome
  <2>2. R(x) \subseteq R(y) /\ x.recovered = y.recovered /\ NotLower(x.status, y.status)
    BY <1>2 DEF Fares
  <2> HIDE DEF R
  <2> QED BY <1>3, <1>4, <1>5, <1>7, <2>1, <2>2 DEF A, B
<1> QED BY <1>6, <1>7

LEMMA NodesFare ==
    ASSUME NEW S, NEW T, NEW u, NEW v, Faring(S, T, u, v), NEW n \in suite.graph.nodes
    PROVE  NotLower(NodeStatus(n, OutcomesOf(S)), NodeStatus(n, OutcomesOf(T)))
<1>1. /\ n.id \in DOMAIN OutcomesOf(T) => n.id \in DOMAIN OutcomesOf(S)
      /\ n.kind # "distractor" => n.id \in DOMAIN OutcomesOf(T)
      /\ n.id \in DOMAIN OutcomesOf(T) =>
           NotLower(OutcomesOf(S)[n.id].status, OutcomesOf(T)[n.id].status)
  BY OutcomesFare
<1> QED BY <1>1 DEF NodeStatus, NotLower

LEMMA EdgesFare ==
    ASSUME NEW S, NEW T, NEW u, NEW v, Faring(S, T, u, v), NEW e \in suite.graph.edges
    PROVE  /\ NotLower(EdgeStatus(e, OutcomesOf(S)), EdgeStatus(e, OutcomesOf(T)))
           /\ EdgeHeld(e, OutcomesOf(S)) => EdgeHeld(e, OutcomesOf(T))
<1> DEFINE A == OutcomesOf(S)
           B == OutcomesOf(T)
           a == NodeOf(e.from)
           b == NodeOf(e.to)
<1>1. a \in suite.graph.nodes /\ b \in suite.graph.nodes /\ b.id = e.to
  BY GraphsOfSuites DEF Faring
<1>2. NotLower(NodeStatus(a, A), NodeStatus(a, B)) /\ NotLower(NodeStatus(b, A), NodeStatus(b, B))
  BY <1>1, NodesFare
<1>3. /\ b.kind # "distractor" => e.to \in DOMAIN B
      /\ e.to \in DOMAIN B => A[e.to].revised \subseteq B[e.to].revised
      /\ b.kind = "distractor" /\ e.to \in DOMAIN A => A[e.to].revised = {}
  BY <1>1, OutcomesFare
<1>4. e.to \in DOMAIN A /\ e.from \in A[e.to].revised => e.to \in DOMAIN B /\ e.from \in B[e.to].revised
  BY <1>3
<1>5. EdgeEnds(e, A) = {NodeStatus(a, A), NodeStatus(b, A)} /\ EdgeEnds(e, B) = {NodeStatus(a, B), NodeStatus(b, B)}
  BY DEF EdgeEnds
<1> HIDE DEF A, B, a, b
<1>6. /\ "error" \in EdgeEnds(e, B) => "error" \in EdgeEnds(e, A)
      /\ EdgeEnds(e, A) = {"passed"} => EdgeEnds(e, B) = {"passed"}
  BY <1>2, <1>5 DEF NotLower
<1>7. EdgeHeld(e, A) => EdgeHeld(e, B)
  BY <1>4, <1>6 DEF EdgeHeld
<1>8. NotLower(EdgeStatus(e, A), EdgeStatus(e, B))
  BY <1>6, <1>7 DEF NotLower, EdgeStatus, EdgeHeld
<1> QED BY <1>7, <1>8 DEF A, B

LEMMA FaultsFare ==
    ASSUME NEW S, NEW T, NEW u, NEW v, Faring(S, T, u, v), NEW f \in suite.graph.faults
    PROVE  /\ NotLower(FaultStatus(f, OutcomesOf(S)), FaultStatus(f, OutcomesOf(T)))
           /\ FaultHealed(f, OutcomesOf(S)) => FaultHealed(f, OutcomesOf(T))
<1> DEFINE A == OutcomesOf(S)
           B == OutcomesOf(T)
           n == NodeOf(f.node)
<1>1. n \in suite.graph.nodes /\ n.id = f.node
  BY GraphsOfSuites DEF Faring
<1>2. /\ f.node \in DOMAIN B => f.node \in DOMAIN A
      /\ n.kind # "distractor" => f.node \in DOMAIN B
      /\ f.node \in DOMAIN B =>
           NotLower(A[f.node].status, B[f.node].status) /\ A[f.node].recovered = B[f.node].recovered
      /\ n.kind = "distractor" /\ f.node \in DOMAIN A => A[f.node].recovered = {}
  BY <1>1, OutcomesFare
<1> HIDE DEF A, B, n
<1>3. FaultHealed(f, A) => FaultHealed(f, B)
  BY <1>2 DEF FaultHealed
<1>4. NotLower(FaultStatus(f, A), FaultStatus(f, B))
  BY <1>2, <1>3 DEF FaultStatus, NotLower
<1> QED BY <1>3, <1>4 DEF A, B

LEMMA GraphFares ==
    ASSUME NEW S, NEW T, NEW u, NEW v, Faring(S, T, u, v)
    PROVE  NotLower(evaluateScenarioGraph(suite.graph, OutcomesOf(S)).status,
                    evaluateScenarioGraph(suite.graph, OutcomesOf(T)).status)
<1> DEFINE Parts(O) == NodeResults(suite.graph, O) \cup EdgeResults(suite.graph, O)
                         \cup FaultResults(suite.graph, O)
           A == OutcomesOf(S)
           B == OutcomesOf(T)
<1>0. suite \in Suites
  BY DEF Faring
<1>1. \A O : evaluateScenarioGraph(suite.graph, O).status = Verdict(Required(Parts(O)))
  BY DEF evaluateScenarioGraph
<1>2. NoLess(NodeResults(suite.graph, A), NodeResults(suite.graph, B))
  <2>1. ASSUME NEW p \in NodeResults(suite.graph, B)
        PROVE  \E x \in NodeResults(suite.graph, A) : x.required /\ NotLower(x.status, p.status)
    <3>1. PICK n \in suite.graph.nodes : p.status = NodeStatus(n, B)
      BY <2>1, NodeParts
    <3>2. PICK x \in NodeResults(suite.graph, A) : x.required /\ x.status = NodeStatus(n, A)
      BY NodeParts
    <3> HIDE DEF A, B
    <3>3. NotLower(NodeStatus(n, A), NodeStatus(n, B))
      BY NodesFare DEF A, B
    <3> QED BY <3>1, <3>2, <3>3
  <2> HIDE DEF A, B
  <2> QED BY <2>1 DEF NoLess
<1>3. NoLess(EdgeResults(suite.graph, A), EdgeResults(suite.graph, B))
  <2>1. /\ EdgeResults(suite.graph, A) = {EdgePart(e, A) : e \in suite.graph.edges}
        /\ EdgeResults(suite.graph, B) = {EdgePart(e, B) : e \in suite.graph.edges}
    BY <1>0, ResultsOfGraph
  <2>2. \A e \in suite.graph.edges :
          /\ NotLower(EdgePart(e, A).status, EdgePart(e, B).status)
          /\ EdgePart(e, A).required = EdgePart(e, B).required
    BY EdgesFare, EdgePartIs
  <2> HIDE DEF A, B
  <2> QED BY <2>1, <2>2 DEF NoLess
<1>4. NoLess(FaultResults(suite.graph, A), FaultResults(suite.graph, B))
  <2>1. /\ FaultResults(suite.graph, A) = {FaultPart(f, A) : f \in suite.graph.faults}
        /\ FaultResults(suite.graph, B) = {FaultPart(f, B) : f \in suite.graph.faults}
    BY <1>0, ResultsOfGraph
  <2>2. \A f \in suite.graph.faults :
          /\ NotLower(FaultPart(f, A).status, FaultPart(f, B).status)
          /\ FaultPart(f, A).required = FaultPart(f, B).required
    BY FaultsFare, FaultPartIs
  <2> HIDE DEF A, B
  <2> QED BY <2>1, <2>2 DEF NoLess
<1>5. NoLess(Parts(A), Parts(B))
  <2> HIDE DEF A, B
  <2> QED BY <1>2, <1>3, <1>4 DEF NoLess
<1> HIDE DEF Parts, A, B
<1>6. NotLower(Verdict(Required(Parts(A))), Verdict(Required(Parts(B))))
  BY <1>5, RequiredGrow
<1> QED BY <1>1, <1>6 DEF A, B

-----------------------------------------------------------------------------
(* The components of sessions that fare better *)

(* The entries of the coverage for what was played.                        *)
Played(u, dimension) ==
    {c \in suite.matrix.coverage :
        c.task \in TasksOf(suite) /\ c.variant = u[c.task].variant /\ dimension \in c.dimensions}
PlayedShown(u) == {c \in Played(u, "evidence-verification") : Shown(u[c.task]) # {}}

FinalStatesOf(u) == {finalStateComponent(u[c.task], c) : c \in Played(u, "final-state-correctness")}
EvidenceOf(u) == {EvidencePart(u[c.task], c) : c \in PlayedShown(u)}
CostsOf(u) == UNION {interactionCostComponent(u[c.task], c) : c \in Played(u, "interaction-cost")}

LEMMA PlayedIs ==
    ASSUME NEW S, NEW u, OnePerTask(S, u), NEW dimension, NEW c
    PROVE  c \in Played(u, dimension) <=>
             \E s \in S : c \in matchingCoverage(suite.matrix, s) /\ dimension \in c.dimensions /\ s = u[c.task]
  BY DEF Played, OnePerTask, matchingCoverage

LEMMA SessionComponentsOf ==
    ASSUME NEW S, NEW u, OnePerTask(S, u)
    PROVE  buildSessionComponents(suite.matrix, S) = FinalStatesOf(u) \cup EvidenceOf(u) \cup CostsOf(u)
<1> DEFINE A(s, c) == IF "final-state-correctness" \in c.dimensions THEN {finalStateComponent(s, c)} ELSE {}
           B(s, c) == IF "evidence-verification" \in c.dimensions THEN evidenceComponent(s, c) ELSE {}
           C(s, c) == IF "interaction-cost" \in c.dimensions THEN interactionCostComponent(s, c) ELSE {}
           M(s) == matchingCoverage(suite.matrix, s)
<1>1. buildSessionComponents(suite.matrix, S) = UNION {UNION {A(s, c) \cup B(s, c) \cup C(s, c) : c \in M(s)} : s \in S}
  BY DEF buildSessionComponents
<1>2. \A s \in S : \A c \in M(s) : s = u[c.task]
  BY DEF OnePerTask, matchingCoverage
<1>3. \A x : (\E s \in S : \E c \in M(s) : x \in A(s, c)) <=> x \in FinalStatesOf(u)
  <2>1. ASSUME NEW x, NEW s \in S, NEW c \in M(s), x \in A(s, c) PROVE x \in FinalStatesOf(u)
    BY <1>2, <2>1, PlayedIs DEF FinalStatesOf
  <2>2. ASSUME NEW c \in Played(u, "final-state-correctness")
        PROVE  \E s \in S : c \in M(s) /\ finalStateComponent(u[c.task], c) \in A(s, c)
    BY PlayedIs
  <2> HIDE DEF A, M
  <2> QED BY <2>1, <2>2 DEF FinalStatesOf
<1>4. \A x : (\E s \in S : \E c \in M(s) : x \in B(s, c)) <=> x \in EvidenceOf(u)
  <2>1. ASSUME NEW x, NEW s \in S, NEW c \in M(s), x \in B(s, c) PROVE x \in EvidenceOf(u)
    <3>1. s = u[c.task] /\ c \in Played(u, "evidence-verification") /\ x \in evidenceComponent(s, c)
      BY <1>2, <2>1, PlayedIs
    <3>2. Shown(s) # {} /\ x = EvidencePart(s, c)
      BY <3>1, EvidenceIs
    <3> QED BY <3>1, <3>2 DEF EvidenceOf, PlayedShown
  <2>2. ASSUME NEW c \in PlayedShown(u)
        PROVE  \E s \in S : c \in M(s) /\ EvidencePart(u[c.task], c) \in B(s, c)
    <3>1. c \in Played(u, "evidence-verification") /\ Shown(u[c.task]) # {}
      BY DEF PlayedShown
    <3>2. evidenceComponent(u[c.task], c) = {EvidencePart(u[c.task], c)}
      BY <3>1, EvidenceIs
    <3> QED BY <3>1, <3>2, PlayedIs
  <2> HIDE DEF B, M
  <2> QED BY <2>1, <2>2 DEF EvidenceOf
<1>5. \A x : (\E s \in S : \E c \in M(s) : x \in C(s, c)) <=> x \in CostsOf(u)
  <2>1. ASSUME NEW x, NEW s \in S, NEW c \in M(s), x \in C(s, c) PROVE x \in CostsOf(u)
    BY <1>2, <2>1, PlayedIs DEF CostsOf
  <2>2. ASSUME NEW c \in Played(u, "interaction-cost"), NEW x \in interactionCostComponent(u[c.task], c)
        PROVE  \E s \in S : c \in M(s) /\ x \in C(s, c)
    BY PlayedIs
  <2> HIDE DEF C, M
  <2> QED BY <2>1, <2>2 DEF CostsOf
<1> HIDE DEF A, B, C, M
<1>6. ASSUME NEW x
      PROVE  x \in buildSessionComponents(suite.matrix, S) <=>
               \/ \E s \in S : \E c \in M(s) : x \in A(s, c)
               \/ \E s \in S : \E c \in M(s) : x \in B(s, c)
               \/ \E s \in S : \E c \in M(s) : x \in C(s, c)
  BY <1>1
<1> QED BY <1>3, <1>4, <1>5, <1>6

(* The components of the graph, and what they are counted for.             *)
DependencyPart(e, S) ==
    Component(<<"dependency", e.id>>, NodeOf(e.to), "dependency-consistency", EdgePart(e, OutcomesOf(S)))
RecoveryPart(f, S) ==
    Component(<<"recovery", f.id>>, NodeOf(f.node), "recovery-safety", FaultPart(f, OutcomesOf(S)))

CountedEdges(u) ==
    {e \in suite.graph.edges : \E c \in Played(u, "dependency-consistency") : c.task = NodeOf(e.to).task}
CountedFaults(u) ==
    {f \in suite.graph.faults : \E c \in Played(u, "recovery-safety") : c.task = NodeOf(f.node).task}

DependenciesOf(S, u) == {DependencyPart(e, S) : e \in CountedEdges(u)}
RecoveriesOf(S, u) == {RecoveryPart(f, S) : f \in CountedFaults(u)}

LEMMA GraphComponentsOf ==
    ASSUME suite \in Suites, NEW S, NEW u, OnePerTask(S, u)
    PROVE  buildGraphComponents(suite.matrix, suite.graph, S) = DependenciesOf(S, u) \cup RecoveriesOf(S, u)
<1> DEFINE Seen(node, dimension) ==
             \E s \in S : /\ s.task = node.task
                          /\ \E c \in matchingCoverage(suite.matrix, s) : dimension \in c.dimensions
           O == OutcomesOf(S)
<1>1. buildGraphComponents(suite.matrix, suite.graph, S) =
        {Component(<<"dependency", e.id>>, NodeOf(e.to), "dependency-consistency",
                   CHOOSE p \in EdgeResults(suite.graph, O) : p.id = <<"edge", e.id>>)
           : e \in {d \in suite.graph.edges : Seen(NodeOf(d.to), "dependency-consistency")}}
        \cup
        {Component(<<"recovery", f.id>>, NodeOf(f.node), "recovery-safety",
                   CHOOSE p \in FaultResults(suite.graph, O) : p.id = <<"fault", f.id>>)
           : f \in {d \in suite.graph.faults : Seen(NodeOf(d.node), "recovery-safety")}}
  BY DEF buildGraphComponents, NodeOf, OutcomesOf
<1>2. ASSUME NEW n, NEW dimension
      PROVE  Seen(n, dimension) <=> \E c \in Played(u, dimension) : c.task = n.task
  <2>1. \A s \in S : \A c \in matchingCoverage(suite.matrix, s) : s = u[c.task] /\ c.task = s.task
    BY DEF OnePerTask, matchingCoverage
  <2> QED BY <2>1, PlayedIs
<1>3. /\ \A e \in suite.graph.edges :
           (CHOOSE p \in EdgeResults(suite.graph, O) : p.id = <<"edge", e.id>>) = EdgePart(e, O)
      /\ \A f \in suite.graph.faults :
           (CHOOSE p \in FaultResults(suite.graph, O) : p.id = <<"fault", f.id>>) = FaultPart(f, O)
  BY ResultsOfGraph
<1> HIDE DEF Seen, O
<1>4. {d \in suite.graph.edges : Seen(NodeOf(d.to), "dependency-consistency")} = CountedEdges(u)
  BY <1>2 DEF CountedEdges
<1>5. {d \in suite.graph.faults : Seen(NodeOf(d.node), "recovery-safety")} = CountedFaults(u)
  BY <1>2 DEF CountedFaults
<1>6. CountedEdges(u) \subseteq suite.graph.edges /\ CountedFaults(u) \subseteq suite.graph.faults
  BY DEF CountedEdges, CountedFaults
<1>7. {Component(<<"dependency", e.id>>, NodeOf(e.to), "dependency-consistency",
                   CHOOSE p \in EdgeResults(suite.graph, O) : p.id = <<"edge", e.id>>)
           : e \in CountedEdges(u)} = DependenciesOf(S, u)
  BY <1>3, <1>6 DEF DependenciesOf, DependencyPart, O
<1>8. {Component(<<"recovery", f.id>>, NodeOf(f.node), "recovery-safety",
                   CHOOSE p \in FaultResults(suite.graph, O) : p.id = <<"fault", f.id>>)
           : f \in CountedFaults(u)} = RecoveriesOf(S, u)
  BY <1>3, <1>6 DEF RecoveriesOf, RecoveryPart, O
<1> QED BY <1>1, <1>4, <1>5, <1>7, <1>8

LEMMA CostIs ==
    ASSUME NEW s, NEW c, NEW x \in interactionCostComponent(s, c)
    PROVE  x.dimension = "interaction-cost"
<1> DEFINE no == FALSE
           score == IF s.cost <= c.preferred THEN Unit
                    ELSE IF s.cost >= c.hard THEN 0
                    ELSE Rounded(Unit * (c.hard - s.cost), c.hard - c.preferred)
           part == Part("", "passed", score, 1, no)
<1>1. x = Component(<<"interaction-cost", s.task>>, c, "interaction-cost", part)
  BY DEF interactionCostComponent
<1> HIDE DEF part
<1> QED BY <1>1 DEF Component

(* What costs the same grades the same. *)
LEMMA CostsSame ==
    ASSUME NEW S, NEW T, NEW u, NEW v, Faring(S, T, u, v)
    PROVE  /\ CostsOf(v) = CostsOf(u) /\ Graded(CostsOf(u))
           /\ \A x \in CostsOf(u) : x.dimension = "interaction-cost"
<1>1. \A dimension : Played(v, dimension) = Played(u, dimension)
  BY DEF Faring, Fares, Played
<1>2. ASSUME NEW c \in Played(u, "interaction-cost")
      PROVE  /\ interactionCostComponent(v[c.task], c) = interactionCostComponent(u[c.task], c)
             /\ Graded(interactionCostComponent(u[c.task], c))
             /\ \A x \in interactionCostComponent(u[c.task], c) : x.dimension = "interaction-cost"
  <2>1. c.task \in TasksOf(suite) /\ c \in suite.matrix.coverage
    BY DEF Played
  <2>2. v[c.task].task = u[c.task].task /\ v[c.task].cost = u[c.task].cost /\ u[c.task].cost \in Nat
    BY <2>1 DEF Faring, Fares
  <2>3. Graded(interactionCostComponent(u[c.task], c))
    BY <2>1, <2>2, CostGraded, ListsOfSuites DEF Faring
  <2>4. \A x \in interactionCostComponent(u[c.task], c) : x.dimension = "interaction-cost"
    BY CostIs
  <2> QED BY <2>2, <2>3, <2>4 DEF interactionCostComponent
<1>3. CostsOf(v) = CostsOf(u)
  BY <1>1, <1>2 DEF CostsOf
<1>4. Graded(CostsOf(u))
  <2> DEFINE I == Played(u, "interaction-cost")
             b == [c \in I |-> interactionCostComponent(u[c.task], c)]
  <2>1. CostsOf(u) = UNION {b[c] : c \in I} /\ \A c \in I : Graded(b[c])
    BY <1>2 DEF CostsOf
  <2>2. IsFiniteSet(I)
    BY ListsOfSuites, FS_Subset DEF Played, Faring
  <2> HIDE DEF I, b
  <2> QED BY <2>1, <2>2, UnionFinite DEF Graded
<1> QED BY <1>2, <1>3, <1>4 DEF CostsOf

LEMMA BetterAsBefore ==
    ASSUME NEW X, Graded(X) PROVE BettersInKind(X, X)
<1> DEFINE b == [x \in X |-> x]
<1>1. \A x \in X : b[x] = x
  OBVIOUS
<1> HIDE DEF b
<1>3. \A x \in X : x.score \in Int /\ x.score <= x.score /\ x.weight \in Nat
  BY DEF Graded
<1>2. Paired(X, X, b) /\ \A x \in X : SameKind(x, b[x])
  BY <1>1, <1>3 DEF Paired, NotWorse, NotLower, Graded, SameKind
<1> QED BY <1>2 DEF BettersInKind

(* One task, one variant, one entry. *)
LEMMA CoverageUnique ==
    ASSUME suite \in Suites, suite.matrix # NoMatrix, NEW u, NEW dimension
    PROVE  /\ \A c, d \in Played(u, dimension) : c.task = d.task => c = d
           /\ IsFiniteSet(Played(u, dimension))
<1>1. \A c, d \in suite.matrix.coverage : c.task = d.task /\ c.variant = d.variant => c = d
  BY SuitesAssumption DEF ValidSuite, ValidMatrix
<1>2. IsFiniteSet(Played(u, dimension))
  BY ListsOfSuites, FS_Subset DEF Played
<1> QED BY <1>1, <1>2 DEF Played

LEMMA FinalStatesFare ==
    ASSUME NEW S, NEW T, NEW u, NEW v, Faring(S, T, u, v), suite.matrix # NoMatrix
    PROVE  BettersInKind(FinalStatesOf(u), FinalStatesOf(v))
<1> DEFINE I == Played(u, "final-state-correctness")
           p == [c \in I |-> finalStateComponent(u[c.task], c)]
           q == [c \in I |-> finalStateComponent(v[c.task], c)]
<1>1. suite \in Suites /\ Played(v, "final-state-correctness") = I
  BY DEF Faring, Fares, Played
<1>2. FinalStatesOf(u) = {p[c] : c \in I} /\ FinalStatesOf(v) = {q[c] : c \in I}
  BY <1>1 DEF FinalStatesOf
<1>3. ASSUME NEW c \in I
      PROVE  /\ NotWorse(p[c], q[c]) /\ SameKind(p[c], q[c])
             /\ p[c].id = <<"final-state", c.task>> /\ q[c].id = <<"final-state", c.task>>
  <2>1. Fares(u[c.task], v[c.task]) /\ u[c.task].task = c.task
    BY DEF Faring, OnePerTask, Played
  <2>2. p[c] = finalStateComponent(u[c.task], c) /\ q[c] = finalStateComponent(v[c.task], c)
    OBVIOUS
  <2> DEFINE x == u[c.task]
             y == v[c.task]
  <2> HIDE DEF p, q, I, x, y
  <2>3. /\ p[c].required /\ p[c].status = x.status /\ p[c].capabilities = c.capabilities
        /\ p[c].dimension = "final-state-correctness" /\ p[c].id = <<"final-state", x.task>>
        /\ p[c].score = (IF x.status = "passed" THEN x.score ELSE 0) /\ p[c].weight = 1
    BY <2>2, FinalStateIs DEF x
  <2>4. /\ q[c].required /\ q[c].status = y.status /\ q[c].capabilities = c.capabilities
        /\ q[c].dimension = "final-state-correctness" /\ q[c].id = <<"final-state", y.task>>
        /\ q[c].score = (IF y.status = "passed" THEN y.score ELSE 0) /\ q[c].weight = 1
    BY <2>2, FinalStateIs DEF y
  <2>5. Fares(x, y) /\ x.task = c.task /\ y.task = c.task
    BY <2>1 DEF x, y, Fares
  <2> QED BY <2>3, <2>4, <2>5 DEF Fares, NotWorse, SameKind, NotLower, Unit
<1>4. \A c, d \in I : c.task = d.task => c = d
  BY <1>1, CoverageUnique
<1>5. IsFiniteSet(I)
  BY <1>1, CoverageUnique
<1> HIDE DEF p, q, I
<1>6. (\A c, d \in I : p[c] = p[d] => c = d) /\ \A c, d \in I : q[c] = q[d] => c = d
  BY <1>3, <1>4
<1>9. MadeOf(FinalStatesOf(u), p, I) /\ MadeOf(FinalStatesOf(v), q, I)
  BY <1>2, <1>6 DEF MadeOf
<1>7. \A c \in I : NotWorse(p[c], q[c]) /\ SameKind(p[c], q[c])
  BY <1>3
<1> QED BY <1>5, <1>7, <1>9, MadeOfTheSame

LEMMA EvidenceFares ==
    ASSUME NEW S, NEW T, NEW u, NEW v, Faring(S, T, u, v), suite.matrix # NoMatrix
    PROVE  BettersInKind(EvidenceOf(u), EvidenceOf(v))
<1> DEFINE I == PlayedShown(u)
           p == [c \in I |-> EvidencePart(u[c.task], c)]
           q == [c \in I |-> EvidencePart(v[c.task], c)]
<1>1. suite \in Suites /\ PlayedShown(v) = I
  BY DEF Faring, Fares, Played, PlayedShown
<1>2. EvidenceOf(u) = {p[c] : c \in I} /\ EvidenceOf(v) = {q[c] : c \in I}
  BY <1>1 DEF EvidenceOf
<1>3. ASSUME NEW c \in I
      PROVE  /\ NotWorse(p[c], q[c]) /\ SameKind(p[c], q[c])
             /\ p[c].id = <<"evidence", c.task>> /\ q[c].id = <<"evidence", c.task>>
  <2>1. Fares(u[c.task], v[c.task]) /\ u[c.task].task = c.task /\ Shown(u[c.task]) # {}
    BY DEF Faring, OnePerTask, Played, PlayedShown
  <2>2. p[c] = EvidencePart(u[c.task], c) /\ q[c] = EvidencePart(v[c.task], c)
    OBVIOUS
  <2> DEFINE x == u[c.task]
             y == v[c.task]
  <2> HIDE DEF p, q, I, x, y
  <2>3. /\ p[c].required /\ p[c].status = Verdict(Shown(x)) /\ p[c].capabilities = c.capabilities
        /\ p[c].dimension = "evidence-verification" /\ p[c].id = <<"evidence", x.task>>
        /\ p[c].score = MeanShown(x) /\ p[c].weight = 1
    BY <2>2, EvidenceIs DEF x
  <2>4. /\ q[c].required /\ q[c].status = Verdict(Shown(y)) /\ q[c].capabilities = c.capabilities
        /\ q[c].dimension = "evidence-verification" /\ q[c].id = <<"evidence", y.task>>
        /\ q[c].score = MeanShown(y) /\ q[c].weight = 1
    BY <2>2, EvidenceIs DEF y
  <2>5. Fares(x, y) /\ x.task = c.task /\ y.task = c.task /\ Shown(x) # {}
    BY <2>1 DEF x, y, Fares
  <2> QED BY <2>3, <2>4, <2>5 DEF Fares, NotWorse, SameKind
<1>4. \A c, d \in I : c.task = d.task => c = d
  BY <1>1, CoverageUnique DEF PlayedShown
<1>5. IsFiniteSet(I)
  BY <1>1, CoverageUnique, FS_Subset DEF PlayedShown
<1> HIDE DEF p, q, I
<1>6. (\A c, d \in I : p[c] = p[d] => c = d) /\ \A c, d \in I : q[c] = q[d] => c = d
  BY <1>3, <1>4
<1>9. MadeOf(EvidenceOf(u), p, I) /\ MadeOf(EvidenceOf(v), q, I)
  BY <1>2, <1>6 DEF MadeOf
<1>7. \A c \in I : NotWorse(p[c], q[c]) /\ SameKind(p[c], q[c])
  BY <1>3
<1> QED BY <1>5, <1>7, <1>9, MadeOfTheSame

LEMMA EdgesCounted ==
    ASSUME NEW S, NEW T, NEW u, NEW v, Faring(S, T, u, v)
    PROVE  /\ CountedEdges(v) = CountedEdges(u) /\ CountedEdges(u) \subseteq suite.graph.edges
           /\ CountedFaults(v) = CountedFaults(u) /\ CountedFaults(u) \subseteq suite.graph.faults
<1>1. \A dimension : Played(v, dimension) = Played(u, dimension)
  BY DEF Faring, Fares, Played
<1> QED BY <1>1 DEF CountedEdges, CountedFaults

LEMMA DependencyIs ==
    ASSUME NEW e, NEW S
    PROVE  LET x == DependencyPart(e, S)
           IN  /\ x.id = <<"dependency", e.id>> /\ x.capabilities = NodeOf(e.to).capabilities
               /\ x.dimension = "dependency-consistency"
               /\ x.status = EdgeStatus(e, OutcomesOf(S)) /\ x.weight = e.weight /\ x.required = e.required
               /\ x.score = IF EdgeHeld(e, OutcomesOf(S)) THEN Unit ELSE 0
<1> DEFINE part == EdgePart(e, OutcomesOf(S))
<1>1. DependencyPart(e, S) = Component(<<"dependency", e.id>>, NodeOf(e.to), "dependency-consistency", part)
  BY DEF DependencyPart
<1>2. /\ part.status = EdgeStatus(e, OutcomesOf(S)) /\ part.weight = e.weight /\ part.required = e.required
      /\ part.score = IF EdgeHeld(e, OutcomesOf(S)) THEN Unit ELSE 0
  BY EdgePartIs
<1> HIDE DEF part
<1> QED BY <1>1, <1>2 DEF Component

LEMMA RecoveryIs ==
    ASSUME NEW f, NEW S
    PROVE  LET x == RecoveryPart(f, S)
           IN  /\ x.id = <<"recovery", f.id>> /\ x.capabilities = NodeOf(f.node).capabilities
               /\ x.dimension = "recovery-safety"
               /\ x.status = FaultStatus(f, OutcomesOf(S)) /\ x.weight = f.weight /\ x.required = f.required
               /\ x.score = IF FaultHealed(f, OutcomesOf(S)) THEN Unit ELSE 0
<1> DEFINE part == FaultPart(f, OutcomesOf(S))
<1>1. RecoveryPart(f, S) = Component(<<"recovery", f.id>>, NodeOf(f.node), "recovery-safety", part)
  BY DEF RecoveryPart
<1>2. /\ part.status = FaultStatus(f, OutcomesOf(S)) /\ part.weight = f.weight /\ part.required = f.required
      /\ part.score = IF FaultHealed(f, OutcomesOf(S)) THEN Unit ELSE 0
  BY FaultPartIs
<1> HIDE DEF part
<1> QED BY <1>1, <1>2 DEF Component

LEMMA DependenciesFare ==
    ASSUME NEW S, NEW T, NEW u, NEW v, Faring(S, T, u, v)
    PROVE  BettersInKind(DependenciesOf(S, u), DependenciesOf(T, v))
<1> DEFINE I == CountedEdges(u)
           p == [e \in I |-> DependencyPart(e, S)]
           q == [e \in I |-> DependencyPart(e, T)]
<1>1. CountedEdges(v) = I /\ I \subseteq suite.graph.edges /\ suite \in Suites
  BY EdgesCounted DEF Faring
<1>2. DependenciesOf(S, u) = {p[e] : e \in I} /\ DependenciesOf(T, v) = {q[e] : e \in I}
  BY <1>1 DEF DependenciesOf
<1>3. ASSUME NEW e \in I
      PROVE  /\ NotWorse(p[e], q[e]) /\ SameKind(p[e], q[e])
             /\ p[e].id = <<"dependency", e.id>> /\ q[e].id = <<"dependency", e.id>>
  <2>1. p[e] = DependencyPart(e, S) /\ q[e] = DependencyPart(e, T) /\ e \in suite.graph.edges
    BY <1>1
  <2>2. e.weight \in Nat
    BY <1>1, <2>1, ListsOfSuites DEF Weighed
  <2>3. /\ NotLower(EdgeStatus(e, OutcomesOf(S)), EdgeStatus(e, OutcomesOf(T)))
        /\ EdgeHeld(e, OutcomesOf(S)) => EdgeHeld(e, OutcomesOf(T))
    BY <2>1, EdgesFare
  <2> HIDE DEF p, q, I
  <2>4. /\ p[e].score \in Int /\ q[e].score \in Int /\ p[e].score <= q[e].score
    BY <2>1, <2>3, DependencyIs DEF Unit
  <2>5. NotWorse(p[e], q[e])
    BY <2>1, <2>2, <2>3, <2>4, DependencyIs DEF NotWorse
  <2> QED BY <2>1, <2>5, DependencyIs DEF SameKind
<1>4. \A e, d \in I : e.id = d.id => e = d
  BY <1>1, GraphsOfSuites DEF Unique
<1>5. IsFiniteSet(I)
  BY <1>1, ListsOfSuites, FS_Subset DEF Weighed
<1> HIDE DEF p, q, I
<1>6. (\A c, d \in I : p[c] = p[d] => c = d) /\ \A c, d \in I : q[c] = q[d] => c = d
  BY <1>3, <1>4
<1>9. MadeOf(DependenciesOf(S, u), p, I) /\ MadeOf(DependenciesOf(T, v), q, I)
  BY <1>2, <1>6 DEF MadeOf
<1>7. \A c \in I : NotWorse(p[c], q[c]) /\ SameKind(p[c], q[c])
  BY <1>3
<1> QED BY <1>5, <1>7, <1>9, MadeOfTheSame

LEMMA RecoveriesFare ==
    ASSUME NEW S, NEW T, NEW u, NEW v, Faring(S, T, u, v)
    PROVE  BettersInKind(RecoveriesOf(S, u), RecoveriesOf(T, v))
<1> DEFINE I == CountedFaults(u)
           p == [f \in I |-> RecoveryPart(f, S)]
           q == [f \in I |-> RecoveryPart(f, T)]
<1>1. CountedFaults(v) = I /\ I \subseteq suite.graph.faults /\ suite \in Suites
  BY EdgesCounted DEF Faring
<1>2. RecoveriesOf(S, u) = {p[f] : f \in I} /\ RecoveriesOf(T, v) = {q[f] : f \in I}
  BY <1>1 DEF RecoveriesOf
<1>3. ASSUME NEW f \in I
      PROVE  /\ NotWorse(p[f], q[f]) /\ SameKind(p[f], q[f])
             /\ p[f].id = <<"recovery", f.id>> /\ q[f].id = <<"recovery", f.id>>
  <2>1. p[f] = RecoveryPart(f, S) /\ q[f] = RecoveryPart(f, T) /\ f \in suite.graph.faults
    BY <1>1
  <2>2. f.weight \in Nat
    BY <1>1, <2>1, ListsOfSuites DEF Weighed
  <2>3. /\ NotLower(FaultStatus(f, OutcomesOf(S)), FaultStatus(f, OutcomesOf(T)))
        /\ FaultHealed(f, OutcomesOf(S)) => FaultHealed(f, OutcomesOf(T))
    BY <2>1, FaultsFare
  <2> HIDE DEF p, q, I
  <2>4. p[f].score \in Int /\ q[f].score \in Int /\ p[f].score <= q[f].score
    BY <2>1, <2>3, RecoveryIs DEF Unit
  <2>5. NotWorse(p[f], q[f])
    BY <2>1, <2>2, <2>3, <2>4, RecoveryIs DEF NotWorse
  <2> QED BY <2>1, <2>5, RecoveryIs DEF SameKind
<1>4. \A e, d \in I : e.id = d.id => e = d
  BY <1>1, GraphsOfSuites DEF Unique
<1>5. IsFiniteSet(I)
  BY <1>1, ListsOfSuites, FS_Subset DEF Weighed
<1> HIDE DEF p, q, I
<1>6. (\A c, d \in I : p[c] = p[d] => c = d) /\ \A c, d \in I : q[c] = q[d] => c = d
  BY <1>3, <1>4
<1>9. MadeOf(RecoveriesOf(S, u), p, I) /\ MadeOf(RecoveriesOf(T, v), q, I)
  BY <1>2, <1>6 DEF MadeOf
<1>7. \A c \in I : NotWorse(p[c], q[c]) /\ SameKind(p[c], q[c])
  BY <1>3
<1> QED BY <1>5, <1>7, <1>9, MadeOfTheSame

ComponentsOf(S) ==
    buildSessionComponents(suite.matrix, S) \cup buildGraphComponents(suite.matrix, suite.graph, S)

(* The components of each dimension are apart. *)
LEMMA DimensionsApart ==
    ASSUME NEW S, NEW u
    PROVE  /\ \A x \in FinalStatesOf(u) : x.dimension = "final-state-correctness"
           /\ \A x \in EvidenceOf(u) : x.dimension = "evidence-verification"
           /\ \A x \in CostsOf(u) : x.dimension = "interaction-cost"
           /\ \A x \in DependenciesOf(S, u) : x.dimension = "dependency-consistency"
           /\ \A x \in RecoveriesOf(S, u) : x.dimension = "recovery-safety"
<1>1. \A x \in FinalStatesOf(u) : x.dimension = "final-state-correctness"
  BY FinalStateIs DEF FinalStatesOf
<1>2. \A x \in EvidenceOf(u) : x.dimension = "evidence-verification"
  BY EvidenceIs DEF EvidenceOf
<1>3. \A x \in CostsOf(u) : x.dimension = "interaction-cost"
  BY CostIs DEF CostsOf
<1>4. \A x \in DependenciesOf(S, u) : x.dimension = "dependency-consistency"
  BY DependencyIs DEF DependenciesOf
<1>5. \A x \in RecoveriesOf(S, u) : x.dimension = "recovery-safety"
  BY RecoveryIs DEF RecoveriesOf
<1> QED BY <1>1, <1>2, <1>3, <1>4, <1>5

LEMMA ComponentsFare ==
    ASSUME NEW S, NEW T, NEW u, NEW v, Faring(S, T, u, v), suite.matrix # NoMatrix
    PROVE  BettersInKind(ComponentsOf(S), ComponentsOf(T))
<1> DEFINE F(w) == FinalStatesOf(w)
           E(w) == FinalStatesOf(w) \cup EvidenceOf(w)
           C(w) == E(w) \cup CostsOf(w)
           D(R, w) == C(w) \cup DependenciesOf(R, w)
<1>0. suite \in Suites /\ OnePerTask(S, u) /\ OnePerTask(T, v)
  BY DEF Faring
<1>1. /\ ComponentsOf(S) = D(S, u) \cup RecoveriesOf(S, u)
      /\ ComponentsOf(T) = D(T, v) \cup RecoveriesOf(T, v)
  <2>1. /\ ComponentsOf(S) = (FinalStatesOf(u) \cup EvidenceOf(u) \cup CostsOf(u))
                               \cup (DependenciesOf(S, u) \cup RecoveriesOf(S, u))
        /\ ComponentsOf(T) = (FinalStatesOf(v) \cup EvidenceOf(v) \cup CostsOf(v))
                               \cup (DependenciesOf(T, v) \cup RecoveriesOf(T, v))
    BY <1>0, SessionComponentsOf, GraphComponentsOf DEF ComponentsOf
  <2> QED BY <2>1
<1>2. BettersInKind(E(u), E(v))
  <2>1. /\ FinalStatesOf(u) \cap EvidenceOf(u) = {}
        /\ FinalStatesOf(v) \cap EvidenceOf(v) = {}
    BY DimensionsApart
  <2> QED BY <2>1, FinalStatesFare, EvidenceFares, BetterTogether
<1>3. BettersInKind(C(u), C(v))
  <2>1. E(u) \cap CostsOf(u) = {} /\ E(v) \cap CostsOf(v) = {}
    BY DimensionsApart
  <2>2. BettersInKind(CostsOf(u), CostsOf(v))
    BY CostsSame, BetterAsBefore
  <2> HIDE DEF E
  <2> QED BY <1>2, <2>1, <2>2, BetterTogether
<1>4. BettersInKind(D(S, u), D(T, v))
  <2>1. C(u) \cap DependenciesOf(S, u) = {} /\ C(v) \cap DependenciesOf(T, v) = {}
    BY DimensionsApart
  <2> HIDE DEF C
  <2> QED BY <1>3, <2>1, DependenciesFare, BetterTogether
<1>5. D(S, u) \cap RecoveriesOf(S, u) = {} /\ D(T, v) \cap RecoveriesOf(T, v) = {}
  BY DimensionsApart
<1> HIDE DEF D
<1> QED BY <1>1, <1>4, <1>5, RecoveriesFare, BetterTogether

-----------------------------------------------------------------------------
(* Tracks and dimensions of better components *)

Track(t, X) == aggregateComponents(InTrack(t.id, X), t.required)
Dimension(d, X) == aggregateComponents(InDimension(d.id, X), d.required)
TrackPart(t, X) == Part(<<"track", t.id>>, Track(t, X).status, Track(t, X).score, 0, t.required)
DimensionPart(d, X) ==
    Part(<<"dimension", d.id>>, Dimension(d, X).status, Dimension(d, X).score, d.weight, d.required)

LEMMA GroupsAre ==
    ASSUME NEW X
    PROVE  /\ Tracks(suite.matrix, X) = {TrackPart(t, X) : t \in suite.matrix.capabilities}
           /\ DimensionResults(suite.matrix, X) = {DimensionPart(d, X) : d \in suite.matrix.dimensions}
<1>1. Tracks(suite.matrix, X) = {TrackPart(t, X) : t \in suite.matrix.capabilities}
  BY DEF Tracks, TrackPart, Track, InTrack
<1>2. DimensionResults(suite.matrix, X) = {DimensionPart(d, X) : d \in suite.matrix.dimensions}
  BY DEF DimensionResults, DimensionPart, Dimension, InDimension
<1> QED BY <1>1, <1>2

LEMMA GroupPartsAre ==
    ASSUME NEW X
    PROVE  /\ \A t : TrackPart(t, X).required = t.required /\ TrackPart(t, X).status = Track(t, X).status
           /\ \A d : /\ DimensionPart(d, X).required = d.required
                     /\ DimensionPart(d, X).status = Dimension(d, X).status
                     /\ DimensionPart(d, X).score = Dimension(d, X).score
                     /\ DimensionPart(d, X).weight = d.weight
                     /\ DimensionPart(d, X).id = <<"dimension", d.id>>
<1>3. \A t : TrackPart(t, X).required = t.required /\ TrackPart(t, X).status = Track(t, X).status
  BY DEF TrackPart, Part
<1>4. \A d : /\ DimensionPart(d, X).required = d.required
             /\ DimensionPart(d, X).status = Dimension(d, X).status
             /\ DimensionPart(d, X).score = Dimension(d, X).score
             /\ DimensionPart(d, X).weight = d.weight
             /\ DimensionPart(d, X).id = <<"dimension", d.id>>
  BY DEF DimensionPart, Part
<1> QED BY <1>3, <1>4

LEMMA CapabilitiesGrow ==
    ASSUME suite \in Suites, suite.matrix # NoMatrix, NEW X, NEW Y, BettersInKind(X, Y)
    PROVE  LET a == aggregateCapabilityScores(suite.matrix, X)
               b == aggregateCapabilityScores(suite.matrix, Y)
           IN  /\ NotLower(a.status, b.status)
               /\ a.score \in Int /\ b.score \in Int /\ a.score <= b.score
<1> DEFINE A == Tracks(suite.matrix, X)
           B == Tracks(suite.matrix, Y)
           C == DimensionResults(suite.matrix, X)
           D == DimensionResults(suite.matrix, Y)
<1>1. /\ aggregateCapabilityScores(suite.matrix, X) = [status |-> Verdict(Required(A) \cup Required(C)),
                                                       score |-> WeightedScore(C)]
      /\ aggregateCapabilityScores(suite.matrix, Y) = [status |-> Verdict(Required(B) \cup Required(D)),
                                                       score |-> WeightedScore(D)]
  BY DEF aggregateCapabilityScores
<1>2. ASSUME NEW t PROVE NotLower(Track(t, X).status, Track(t, Y).status)
  <2> DEFINE V == InTrack(t.id, X)
             W == InTrack(t.id, Y)
  <2>1. Betters(V, W)
    BY BetterOfAKind
  <2> HIDE DEF V, W
  <2>2. NotLower(aggregateComponents(V, t.required).status, aggregateComponents(W, t.required).status)
    BY <2>1, GroupGrows
  <2> QED BY <2>2 DEF V, W, Track
<1>3. ASSUME NEW d
      PROVE  /\ NotLower(Dimension(d, X).status, Dimension(d, Y).status)
             /\ Dimension(d, X).score \in Int /\ Dimension(d, Y).score \in Int
             /\ Dimension(d, X).score <= Dimension(d, Y).score
  <2> DEFINE V == InDimension(d.id, X)
             W == InDimension(d.id, Y)
  <2>1. Betters(V, W)
    BY BetterOfAKind
  <2> HIDE DEF V, W
  <2>2. /\ NotLower(aggregateComponents(V, d.required).status, aggregateComponents(W, d.required).status)
        /\ aggregateComponents(V, d.required).score \in Int
        /\ aggregateComponents(W, d.required).score \in Int
        /\ aggregateComponents(V, d.required).score <= aggregateComponents(W, d.required).score
    BY <2>1, GroupGrows
  <2> QED BY <2>2 DEF V, W, Dimension
<1>4. NoLess(A, B)
  <2>1. ASSUME NEW t \in suite.matrix.capabilities
        PROVE  /\ TrackPart(t, Y).required => TrackPart(t, X).required
               /\ NotLower(TrackPart(t, X).status, TrackPart(t, Y).status)
    <3>1. TrackPart(t, X).required = t.required /\ TrackPart(t, X).status = Track(t, X).status
      BY GroupPartsAre
    <3>2. TrackPart(t, Y).required = t.required /\ TrackPart(t, Y).status = Track(t, Y).status
      BY GroupPartsAre
    <3> QED BY <1>2, <3>1, <3>2
  <2>2. /\ A = {TrackPart(t, X) : t \in suite.matrix.capabilities}
        /\ B = {TrackPart(t, Y) : t \in suite.matrix.capabilities}
    BY GroupsAre
  <2> HIDE DEF A, B
  <2> QED BY <2>1, <2>2 DEF NoLess
<1>a. ASSUME NEW d \in suite.matrix.dimensions
      PROVE  NotWorse(DimensionPart(d, X), DimensionPart(d, Y))
  <2>1. d.weight \in Nat
    BY ListsOfSuites DEF Weighed
  <2>2. /\ DimensionPart(d, X).required = d.required /\ DimensionPart(d, X).weight = d.weight
        /\ DimensionPart(d, X).status = Dimension(d, X).status
        /\ DimensionPart(d, X).score = Dimension(d, X).score
    BY GroupPartsAre
  <2>3. /\ DimensionPart(d, Y).required = d.required /\ DimensionPart(d, Y).weight = d.weight
        /\ DimensionPart(d, Y).status = Dimension(d, Y).status
        /\ DimensionPart(d, Y).score = Dimension(d, Y).score
    BY GroupPartsAre
  <2> QED BY <1>3, <2>1, <2>2, <2>3 DEF NotWorse
<1>5. NoLess(C, D)
  <2>1. /\ C = {DimensionPart(d, X) : d \in suite.matrix.dimensions}
        /\ D = {DimensionPart(d, Y) : d \in suite.matrix.dimensions}
    BY GroupsAre
  <2> HIDE DEF C, D
  <2> QED BY <1>a, <2>1 DEF NoLess, NotWorse
<1>6. Betters(C, D)
  <2> DEFINE I == suite.matrix.dimensions
             p == [d \in I |-> DimensionPart(d, X)]
             q == [d \in I |-> DimensionPart(d, Y)]
  <2>1. ASSUME NEW d \in I
        PROVE  /\ p[d] = DimensionPart(d, X) /\ q[d] = DimensionPart(d, Y)
               /\ p[d].id = <<"dimension", d.id>> /\ q[d].id = <<"dimension", d.id>>
               /\ NotWorse(p[d], q[d])
    BY <1>a, GroupPartsAre
  <2>2. C = {p[d] : d \in I} /\ D = {q[d] : d \in I}
    <3>1. C = {DimensionPart(d, X) : d \in I} /\ D = {DimensionPart(d, Y) : d \in I}
      BY GroupsAre
    <3> HIDE DEF p, q, C, D, I
    <3> QED BY <2>1, <3>1
  <2> HIDE DEF p, q, C, D
  <2>3. \A c, d \in I : c.id = d.id => c = d
    BY SuitesAssumption DEF ValidSuite, ValidMatrix, Unique
  <2>4. MadeOf(C, p, I) /\ MadeOf(D, q, I)
    BY <2>1, <2>2, <2>3 DEF MadeOf
  <2>5. IsFiniteSet(I)
    BY ListsOfSuites DEF Weighed
  <2>6. \A d \in I : NotWorse(p[d], q[d])
    BY <2>1
  <2> HIDE DEF I
  <2> QED BY <2>4, <2>5, <2>6, MadeOfTheSame
<1> HIDE DEF A, B, C, D
<1>7. NoLess(A \cup C, B \cup D)
  BY <1>4, <1>5 DEF NoLess
<1>8. Required(A) \cup Required(C) = Required(A \cup C) /\ Required(B) \cup Required(D) = Required(B \cup D)
  BY DEF Required
<1>9. NotLower(Verdict(Required(A \cup C)), Verdict(Required(B \cup D)))
  BY <1>7, RequiredGrow
<1>10. WeightedScore(C) \in Int /\ WeightedScore(D) \in Int /\ WeightedScore(C) <= WeightedScore(D)
  BY <1>6, WeightedGrows
<1>11. /\ aggregateCapabilityScores(suite.matrix, X).status = Verdict(Required(A) \cup Required(C))
       /\ aggregateCapabilityScores(suite.matrix, Y).status = Verdict(Required(B) \cup Required(D))
       /\ aggregateCapabilityScores(suite.matrix, X).score = WeightedScore(C)
       /\ aggregateCapabilityScores(suite.matrix, Y).score = WeightedScore(D)
  BY <1>1
<1> QED BY <1>8, <1>9, <1>10, <1>11

-----------------------------------------------------------------------------
(* The suite *)

LEMMA SessionsFare ==
    ASSUME NEW S, NEW T, NEW u, NEW v, Faring(S, T, u, v)
    PROVE  Betters(SessionParts(suite, S), SessionParts(suite, T))
<1> DEFINE I == TasksOf(suite)
           Need(t) == t \in suite.required
           P(s) == Part(<<"session", s.task>>, s.status, s.score, suite.weight[s.task], Need(s.task))
           p == [t \in I |-> P(u[t])]
           q == [t \in I |-> P(v[t])]
<1>1. /\ S = {u[t] : t \in I} /\ T = {v[t] : t \in I} /\ suite \in Suites
      /\ \A t \in I : u[t].task = t /\ v[t].task = t /\ Fares(u[t], v[t])
  BY DEF Faring, OnePerTask
<1>2. SessionParts(suite, S) = {p[t] : t \in I} /\ SessionParts(suite, T) = {q[t] : t \in I}
  <2>1. SessionParts(suite, S) = {P(s) : s \in S} /\ SessionParts(suite, T) = {P(s) : s \in T}
    BY DEF SessionParts
  <2> HIDE DEF I, P
  <2> QED BY <1>1, <2>1
<1>3. ASSUME NEW t \in I
      PROVE  /\ p[t].id = <<"session", t>> /\ q[t].id = <<"session", t>>
             /\ NotWorse(p[t], q[t])
  <2>1. suite.weight[t] \in Nat
    BY <1>1, ListsOfSuites
  <2> HIDE DEF Need
  <2>2. /\ p[t].id = <<"session", t>> /\ p[t].status = u[t].status /\ p[t].score = u[t].score
        /\ p[t].weight = suite.weight[t] /\ p[t].required = Need(t)
        /\ q[t].id = <<"session", t>> /\ q[t].status = v[t].status /\ q[t].score = v[t].score
        /\ q[t].weight = suite.weight[t] /\ q[t].required = Need(t)
    <3>1. p[t] = P(u[t]) /\ q[t] = P(v[t]) /\ u[t].task = t /\ v[t].task = t
      BY <1>1
    <3> HIDE DEF p, q
    <3> QED BY <3>1 DEF Part
  <2>3. Fares(u[t], v[t])
    BY <1>1
  <2> HIDE DEF p, q, P
  <2> QED BY <2>1, <2>2, <2>3 DEF NotWorse, Fares, NotLower, Unit
<1>4. IsFiniteSet(I)
  <2>1. Len(suite.tasks) \in Nat /\ TasksOf(suite) = {suite.tasks[i] : i \in 1..Len(suite.tasks)}
    BY <1>1, TasksDistinct
  <2>2. IsFiniteSet(1..Len(suite.tasks))
    BY <2>1, FS_Interval
  <2> QED BY <2>1, <2>2, ImageFinite
<1> HIDE DEF p, q, I, P
<1>5. MadeOf(SessionParts(suite, S), p, I) /\ MadeOf(SessionParts(suite, T), q, I)
  BY <1>2, <1>3 DEF MadeOf
<1>6. \A t \in I : NotWorse(p[t], q[t])
  BY <1>3
<1> QED BY <1>4, <1>5, <1>6, MadeOfTheSame

LEMMA ChecksFare ==
    ASSUME suite \in Suites, NEW values
    PROVE  LET X == evaluateSuiteConsistency(suite.checks, values)
           IN  Betters(X, X) /\ \A x \in X : \E name : x.id = <<"check", name>>
<1> DEFINE X == evaluateSuiteConsistency(suite.checks, values)
           Status(c) == IF CheckPassed(c, values) THEN "passed" ELSE "failed"
           Score(c) == IF CheckPassed(c, values) THEN Unit ELSE 0
           P == [c \in suite.checks |-> Part(<<"check", c.name>>, Status(c), Score(c), c.weight, c.required)]
<1>1. X = {P[c] : c \in suite.checks}
  BY DEF evaluateSuiteConsistency
<1>2. \A c : Score(c) \in Int
  BY DEF Unit
<1> HIDE DEF Status, Score
<1>3. \A c \in suite.checks : P[c].score = Score(c) /\ P[c].weight = c.weight /\ P[c].id = <<"check", c.name>>
  BY DEF Part
<1> HIDE DEF P
<1>4. IsFiniteSet(X) /\ \A x \in X : x.score \in Int /\ x.weight \in Nat
  BY <1>1, <1>2, <1>3, ListsOfSuites, ImageFinite DEF Weighed
<1>5. \A x \in X : \E name : x.id = <<"check", name>>
  BY <1>1, <1>3
<1> HIDE DEF X
<1> DEFINE b == [x \in X |-> x]
<1>6. \A x \in X : b[x] = x
  OBVIOUS
<1> HIDE DEF b
<1>7. Paired(X, X, b)
  BY <1>4, <1>6 DEF Paired, NotWorse, NotLower
<1> QED BY <1>5, <1>7 DEF Betters, X

LEMMA SessionPartIds ==
    ASSUME NEW S, NEW x \in SessionParts(suite, S)
    PROVE  \E task : x.id = <<"session", task>>
<1> DEFINE Need(s) == s.task \in suite.required
<1>1. PICK s \in S : x = Part(<<"session", s.task>>, s.status, s.score, suite.weight[s.task], Need(s))
  BY DEF SessionParts
<1> HIDE DEF Need
<1> QED BY <1>1 DEF Part

(* Sessions that fare better never make the suite fare worse. *)
LEMMA SuiteFares ==
    ASSUME NEW S, NEW T, NEW u, NEW v, Faring(S, T, u, v), NEW values
    PROVE  LET a == aggregateSuiteScore(suite, S, values)
               b == aggregateSuiteScore(suite, T, values)
           IN  /\ a.score \in Int /\ b.score \in Int /\ a.score <= b.score
               /\ a.status \in Statuses /\ b.status \in Statuses /\ NotLower(a.status, b.status)
<1> DEFINE checks == evaluateSuiteConsistency(suite.checks, values)
           ofSessions(R) == Verdict(Required(SessionParts(suite, R)))
           ofChecks == Verdict(Required(checks))
           ofMatrix(R) == aggregateCapabilityScores(suite.matrix, ComponentsOf(R)).status
           ofGraph(R) == evaluateScenarioGraph(suite.graph, OutcomesOf(R)).status
           verdicts(R) == {ofSessions(R), ofChecks}
                            \cup (IF suite.matrix = NoMatrix THEN {} ELSE {ofMatrix(R)})
                            \cup (IF suite.graph = NoGraph THEN {} ELSE {ofGraph(R)})
           status(R) == aggregateSuiteScore(suite, R, values).status
           score(R) == aggregateSuiteScore(suite, R, values).score
<1>0. suite \in Suites
  BY DEF Faring
<1>1. \A R : status(R) = IF "error" \in verdicts(R) THEN "error"
                         ELSE IF verdicts(R) = {"passed"} THEN "passed" ELSE "failed"
  BY DEF aggregateSuiteScore, buildCapabilityAttemptEvaluation, ComponentsOf, OutcomesOf
<1>2. \A R : score(R) = IF suite.matrix = NoMatrix THEN WeightedScore(SessionParts(suite, R) \cup checks)
                        ELSE aggregateCapabilityScores(suite.matrix, ComponentsOf(R)).score
  BY DEF aggregateSuiteScore, buildCapabilityAttemptEvaluation, ComponentsOf
<1>3. Betters(SessionParts(suite, S), SessionParts(suite, T)) /\ Betters(checks, checks)
  BY <1>0, SessionsFare, ChecksFare
<1>4. NotLower(ofSessions(S), ofSessions(T))
  BY <1>3, BetterRequired, RequiredGrow
<1>5. suite.matrix # NoMatrix =>
        LET a == aggregateCapabilityScores(suite.matrix, ComponentsOf(S))
            b == aggregateCapabilityScores(suite.matrix, ComponentsOf(T))
        IN  /\ NotLower(a.status, b.status)
            /\ a.score \in Int /\ b.score \in Int /\ a.score <= b.score
  BY <1>0, ComponentsFare, CapabilitiesGrow
<1>6. NotLower(ofGraph(S), ofGraph(T))
  BY GraphFares
<1>7. suite.matrix = NoMatrix =>
        LET a == WeightedScore(SessionParts(suite, S) \cup checks)
            b == WeightedScore(SessionParts(suite, T) \cup checks)
        IN  a \in Int /\ b \in Int /\ a <= b
  <2>1. SessionParts(suite, S) \cap checks = {} /\ SessionParts(suite, T) \cap checks = {}
    <3>1. ASSUME NEW R, NEW x \in SessionParts(suite, R), x \in checks PROVE FALSE
      BY <1>0, <3>1, SessionPartIds, ChecksFare
    <3> HIDE DEF checks
    <3> QED BY <3>1
  <2> HIDE DEF checks
  <2>2. Betters(SessionParts(suite, S) \cup checks, SessionParts(suite, T) \cup checks)
    BY <1>3, <2>1, BetterTogether
  <2> QED BY <2>2, WeightedGrows
<1> HIDE DEF ofSessions, ofChecks, ofMatrix, ofGraph, status, score, checks
<1>8. status(S) \in Statuses /\ status(T) \in Statuses
  <2> HIDE DEF verdicts
  <2> QED BY <1>1 DEF Statuses
<1>9. /\ "error" \in verdicts(T) => "error" \in verdicts(S)
      /\ verdicts(S) = {"passed"} => verdicts(T) = {"passed"}
  <2>1. suite.matrix # NoMatrix => NotLower(ofMatrix(S), ofMatrix(T))
    BY <1>5 DEF ofMatrix
  <2> QED BY <1>4, <1>6, <2>1 DEF NotLower
<1> HIDE DEF verdicts
<1>10. NotLower(status(S), status(T))
  BY <1>1, <1>9 DEF NotLower
<1>11. score(S) \in Int /\ score(T) \in Int /\ score(S) <= score(T)
  BY <1>2, <1>5, <1>7
<1> QED BY <1>8, <1>10, <1>11 DEF status, score

-----------------------------------------------------------------------------
(* One evaluator more *)

(* A session is scored by what its evaluators found. *)
Judged(s) ==
    /\ s.status = aggregateStrictScore(s.evaluators).status
    /\ s.score = aggregateStrictScore(s.evaluators).score
    /\ \A e \in s.evaluators : e = EvaluatorResult(e, e.status)

JudgedInv == \A s \in evidence : Judged(s)

LEMMA JudgedInvInit ==
    ASSUME ScoringInit PROVE JudgedInv
  BY DEF ScoringInit, JudgedInv

LEMMA ResultIs ==
    ASSUME NEW e, NEW status
    PROVE  LET q == EvaluatorResult(e, status)
           IN  /\ q.name = e.name /\ q.type = e.type /\ q.required = e.required /\ q.status = status
               /\ status = "passed" => q.score = Unit
               /\ status # "passed" => q.score = 0
               /\ EvaluatorResult(q, q.status) = q
  BY DEF EvaluatorResult

LEMMA JudgedInvStep ==
    ASSUME JudgedInv, ScoringStep PROVE JudgedInv'
<1>1. CASE evidence' = evidence
  BY <1>1 DEF JudgedInv
<1>2. ASSUME NEW findings, NEW values, FinishSession(findings, values) PROVE JudgedInv'
  <2> DEFINE result(e) == EvaluatorResult(e, findings[e])
             found == {result(e) : e \in suite.evaluators[ActiveTask]}
             total == aggregateStrictScore(found)
             r == [task |-> ActiveTask, variant |-> variant[ActiveTask],
                   status |-> total.status, score |-> total.score, evaluators |-> found,
                   recovered |-> faultState.recovered, cost |-> 0]
  <2>1. evidence' = evidence \cup {r}
    BY <1>2 DEF FinishSession
  <2>2. \A e \in found : e = EvaluatorResult(e, e.status)
    BY ResultIs
  <2>3. r.status = total.status /\ r.score = total.score /\ r.evaluators = found
    OBVIOUS
  <2> HIDE DEF r, found
  <2>4. Judged(r)
    BY <2>2, <2>3 DEF Judged
  <2> QED BY <2>1, <2>4 DEF JudgedInv
<1>3. CASE evidence' # evidence
  BY <1>2, <1>3 DEF ScoringStep, ScoringNext, CreateAttempt, CancelAttempt, Request, Edit, scoringVars
<1> QED BY <1>1, <1>3

SumScores(A) == SumOn([x \in A |-> x.score], A)

LEMMA ScoreTaken ==
    ASSUME NEW A, IsFiniteSet(A), \A x \in A : x.score \in Int, NEW e \in A
    PROVE  /\ SumScores(A) = e.score + SumScores(A \ {e})
           /\ SumScores(A \ {e}) \in Int /\ SumScores(A) \in Int
<1> DEFINE f == [x \in A |-> x.score]
           g == [x \in A \ {e} |-> x.score]
<1>1. IsFiniteSet(A \ {e})
  BY FS_Subset
<1>2. \A x \in A : f[x] = x.score /\ f[x] \in Int
  OBVIOUS
<1>3. \A x \in A \ {e} : g[x] = f[x] /\ g[x] \in Int
  OBVIOUS
<1> HIDE DEF f, g
<1>4. SumOn(f, A) = f[e] + SumOn(f, A \ {e})
  BY <1>2, SumOfAny
<1>5. SumOn(g, A \ {e}) = SumOn(f, A \ {e}) /\ SumOn(g, A \ {e}) \in Int
  BY <1>1, <1>3, SumSame, SumInt
<1>6. SumOn(f, A) \in Int
  BY <1>2, SumInt
<1> QED BY <1>2, <1>4, <1>5, <1>6 DEF SumScores, f, g

LEMMA ScoresNat ==
    ASSUME NEW A, IsFiniteSet(A), \A x \in A : x.score \in Nat
    PROVE  SumScores(A) \in Nat
<1> DEFINE f == [x \in A |-> x.score]
<1>1. \A x \in A : f[x] \in Nat
  OBVIOUS
<1> HIDE DEF f
<1> QED BY <1>1, SumNat DEF SumScores, f

MeanOf(A) == Rounded(SumScores(A), Cardinality(A))

(* A mean does not fall when one of what it is taken of becomes a full     *)
(* score, not even when this makes two of them one.                        *)
LEMMA MeanGrows ==
    ASSUME NEW A, IsFiniteSet(A), \A x \in A : x.score \in {0, Unit}, NEW e \in A,
           NEW q, q.score = Unit, e.score = Unit => e = q,
           NEW B, B = (A \ {e}) \cup {q}
    PROVE  MeanOf(A) \in Int /\ MeanOf(B) \in Int /\ MeanOf(A) <= MeanOf(B)
<1> DEFINE C == A \ {e}
           d == Cardinality(A)
           n == SumScores(C)
<1>1. /\ IsFiniteSet(C) /\ d \in Nat \ {0} /\ Cardinality(C) = d - 1 /\ IsFiniteSet(B)
      /\ \A x \in C : x.score \in Nat
  <2>1. IsFiniteSet(C) /\ d \in Nat /\ d # 0 /\ Cardinality(C) = d - 1
    BY FS_RemoveElement, FS_CardinalityType, FS_EmptySet
  <2>2. IsFiniteSet(B)
    BY <2>1, FS_AddElement
  <2> QED BY <2>1, <2>2 DEF Unit
<1>2. n \in Nat /\ SumScores(A) = e.score + n /\ e.score \in {0, Unit} /\ Unit \in Nat
  <2>1. n \in Nat
    BY <1>1, ScoresNat
  <2>2. \A x \in A : x.score \in Int
    BY DEF Unit
  <2>3. SumScores(A) = e.score + n
    BY <2>2, ScoreTaken
  <2> QED BY <2>1, <2>3 DEF Unit
<1>3. CASE q \in C
  <2>1. B = C /\ e # q
    BY <1>3
  <2>2. e.score = 0 /\ SumScores(A) = n
    BY <1>2, <2>1
  <2>3. d # 1
    <3>1. Cardinality(C) # 0
      BY <1>1, <1>3, FS_EmptySet
    <3> HIDE DEF C, d
    <3> QED BY <1>1, <3>1
  <2> HIDE DEF n, d, C
  <2>4. MeanOf(A) = Rounded(n, d) /\ MeanOf(B) = Rounded(n, d - 1)
    BY <1>1, <2>1, <2>2 DEF MeanOf, n, d
  <2>5. d \in Nat \ {0, 1} /\ d - 1 \in Nat \ {0} /\ n \in Int
    BY <1>1, <1>2, <2>3
  <2> QED BY <1>2, <2>4, <2>5, RoundedOfFewer, RoundedInt
<1>4. CASE q \notin C
  <2>1. B \ {q} = C /\ q \in B
    BY <1>4
  <2>2. Cardinality(B) = d
    <3>1. Cardinality(C) = Cardinality(B) - 1 /\ Cardinality(B) \in Nat
      <4> HIDE DEF C
      <4>1. Cardinality(B \ {q}) = Cardinality(B) - 1 /\ Cardinality(B) \in Nat
        BY <1>1, <2>1, FS_RemoveElement, FS_CardinalityType
      <4> QED BY <2>1, <4>1
    <3> HIDE DEF C, d
    <3> QED BY <1>1, <3>1
  <2>3. SumScores(B) = Unit + n
    <3>1. \A x \in B : x.score \in Int
      BY <1>2, <1>1
    <3> HIDE DEF C
    <3>2. SumScores(B) = q.score + SumScores(B \ {q})
      BY <1>1, <2>1, <3>1, ScoreTaken
    <3> QED BY <2>1, <3>2
  <2> HIDE DEF n, d, C
  <2>4. MeanOf(A) = Rounded(e.score + n, d) /\ MeanOf(B) = Rounded(Unit + n, d)
    BY <1>2, <2>2, <2>3 DEF MeanOf, d
  <2>5. e.score + n \in Int /\ Unit + n \in Int /\ e.score + n <= Unit + n
    BY <1>2
  <2> QED BY <1>1, <2>4, <2>5, RoundedGrows, RoundedInt
<1> QED BY <1>3, <1>4

LEMMA MeanShownIs == \A s : MeanShown(s) = MeanOf(Shown(s))
  BY SumOfFunction DEF MeanShown, MeanOf, SumScores

LEMMA MeanIsInt ==
    ASSUME NEW s, Strict(s), Shown(s) # {} PROVE MeanShown(s) \in Int
<1>1. MeanShown(s) \in 0..Unit
  BY MeanInRange
<1>2. Unit \in Nat
  BY DEF Unit
<1> QED BY <1>1, <1>2

LEMMA FaresAsBefore ==
    ASSUME NEW x, Judged(x), Strict(x)
    PROVE  Fares(x, x)
<1>1. x.score = IF x.status = "passed" THEN Unit ELSE 0
  BY DEF Judged, aggregateStrictScore
<1>2. Shown(x) # {} => MeanShown(x) \in Int
  BY MeanIsInt
<1> QED BY <1>1, <1>2 DEF Fares, NotLower

LEMMA ImprovedFares ==
    ASSUME NEW x, Judged(x), Strict(x), NEW e \in x.evaluators,
           NEW y, y.task = x.task, y.variant = x.variant, y.cost = x.cost, y.recovered = x.recovered,
           y.evaluators = (x.evaluators \ {e}) \cup {EvaluatorResult(e, "passed")},
           y.status = aggregateStrictScore(y.evaluators).status,
           y.score = aggregateStrictScore(y.evaluators).score
    PROVE  Fares(x, y)
<1> DEFINE E == x.evaluators
           D == y.evaluators
           q == EvaluatorResult(e, "passed")
<1>1. /\ q.name = e.name /\ q.type = e.type /\ q.required = e.required /\ q.status = "passed" /\ q.score = Unit
      /\ e.status = "passed" => e = q
      /\ e.score = Unit => e = q
  <2>1. q.name = e.name /\ q.type = e.type /\ q.required = e.required /\ q.status = "passed" /\ q.score = Unit
    BY ResultIs
  <2>2. e = EvaluatorResult(e, e.status)
    BY DEF Judged
  <2>3. e.status # "passed" => e.score = 0
    BY <2>2, ResultIs
  <2>4. Unit # 0
    BY DEF Unit
  <2> HIDE DEF q
  <2> QED BY <2>1, <2>2, <2>3, <2>4 DEF q
<1> HIDE DEF q
<1>2. D = (E \ {e}) \cup {q} /\ e \in E
  BY DEF q
<1> DEFINE A == Shown(x)
           B == Shown(y)
<1>3. /\ A = {d \in E : d.required /\ d.type \in {"retrieve_value", "ui_state"}}
      /\ B = {d \in D : d.required /\ d.type \in {"retrieve_value", "ui_state"}}
  BY DEF Shown, Required
<1>4. Required(E) = {} <=> Required(D) = {}
  BY <1>1, <1>2 DEF Required
<1>5. NoLess(E, D)
  BY <1>1, <1>2 DEF NoLess, NotLower
<1>6. NotLower(Verdict(Required(E)), Verdict(Required(D)))
  BY <1>5, RequiredGrow
<1>7. /\ x.status = (IF Required(E) = {} THEN "failed" ELSE Verdict(Required(E)))
      /\ y.status = (IF Required(D) = {} THEN "failed" ELSE Verdict(Required(D)))
  BY DEF Judged, aggregateStrictScore
<1>8. /\ x.score = (IF x.status = "passed" THEN Unit ELSE 0)
      /\ y.score = (IF y.status = "passed" THEN Unit ELSE 0)
  BY DEF Judged, aggregateStrictScore
<1> HIDE DEF E, D
<1>9. NotLower(x.status, y.status)
  BY <1>4, <1>6, <1>7 DEF NotLower
<1>10. \A p : Proven(x, p) => Proven(y, p)
  BY <1>1, <1>2 DEF Proven, E, D
<1>11. \A p : (\E d \in y.evaluators : d.name = p /\ d.status = "error")
                => \E d \in x.evaluators : d.name = p /\ d.status = "error"
  BY <1>1, <1>2 DEF E, D
<1>12. A = {} <=> B = {}
  BY <1>1, <1>2, <1>3
<1>13. NotLower(Verdict(A), Verdict(B))
  <2>1. (\E p \in B : p.status = "error") => \E p \in A : p.status = "error"
    BY <1>1, <1>2, <1>3
  <2>2. (\A p \in A : p.status = "passed") => \A p \in B : p.status = "passed"
    BY <1>1, <1>2, <1>3
  <2> HIDE DEF A, B
  <2> QED BY <2>1, <2>2, VerdictGrows
<1>14. IsFiniteSet(A) /\ \A d \in A : d.score \in {0, Unit}
  BY <1>3, FS_Subset DEF Strict, E
<1>15. A # {} => MeanShown(x) \in Int /\ MeanShown(y) \in Int /\ MeanShown(x) <= MeanShown(y)
  <2>1. CASE e \in A
    <3>1. B = (A \ {e}) \cup {q}
      BY <1>1, <1>2, <1>3, <2>1
    <3> HIDE DEF A, B
    <3>2. MeanOf(A) \in Int /\ MeanOf(B) \in Int /\ MeanOf(A) <= MeanOf(B)
      BY <1>1, <1>14, <2>1, <3>1, MeanGrows
    <3> QED BY <3>2, MeanShownIs DEF A, B
  <2>2. CASE e \notin A
    <3>1. B = A
      BY <1>1, <1>2, <1>3, <2>2
    <3>2. A # {} => MeanShown(x) \in Int
      BY MeanIsInt
    <3>3. MeanShown(y) = MeanShown(x)
      BY <3>1, MeanShownIs
    <3> QED BY <3>2, <3>3
  <2> QED BY <2>1, <2>2
<1> QED BY <1>8, <1>9, <1>10, <1>11, <1>12, <1>13, <1>15 DEF Fares

(* What the pipeline is given of a session. *)
WithCost(s) == [s EXCEPT !.cost = ActionCost(telemetry, s.task)]

LEMMA CostAdded ==
    ASSUME NEW s, IsSession(s)
    PROVE  SameSession(s, WithCost(s)) /\ WithCost(s).cost = ActionCost(telemetry, s.task)
<1> DEFINE cost == ActionCost(telemetry, s.task)
<1>1. WithCost(s) = [s EXCEPT !.cost = cost]
  BY DEF WithCost
<1> HIDE DEF cost
<1>2. SameSession(s, WithCost(s)) /\ WithCost(s).cost = cost
  BY <1>1 DEF IsSession, SameSession
<1> QED BY <1>2 DEF cost

LEMMA GivenIs ==
    ASSUME Scored, NEW task \in TasksOf(suite)
    PROVE  Given(task) = WithCost(SessionOf(task)) /\ IsSession(SessionOf(task))
<1>1. SessionOf(task) \in evidence /\ SessionOf(task).task = task
  BY OneOfEach
<1>2. IsSession(SessionOf(task))
  BY <1>1 DEF Scored, EvidenceInv, FirstFinished
<1>3. WithCost(SessionOf(task)) \in Costed /\ WithCost(SessionOf(task)).task = task
  BY <1>1, <1>2, CostAdded DEF Costed, WithCosts, WithCost, SameSession
<1> QED BY <1>2, <1>3, OneOfEach

LEMMA ImprovedIs ==
    ASSUME NEW s, IsSession(s), NEW e
    PROVE  LET i == Improved(s, e)
               total == aggregateStrictScore(i.evaluators)
           IN  /\ IsSession(i) /\ i.task = s.task /\ i.variant = s.variant /\ i.recovered = s.recovered
               /\ i.evaluators = (s.evaluators \ {e}) \cup {EvaluatorResult(e, "passed")}
               /\ i.status = total.status /\ i.score = total.score
<1> DEFINE results == (s.evaluators \ {e}) \cup {EvaluatorResult(e, "passed")}
           status == aggregateStrictScore(results).status
           score == aggregateStrictScore(results).score
           i == Improved(s, e)
<1>1. i = [s EXCEPT !.evaluators = results, !.status = status, !.score = score]
  BY DEF Improved
<1> HIDE DEF i, status, score, results
<1>2. i = [task |-> s.task, variant |-> s.variant, status |-> status, score |-> score,
           evaluators |-> results, recovered |-> s.recovered, cost |-> s.cost]
  BY <1>1 DEF IsSession
<1>3. /\ IsSession(i) /\ i.task = s.task /\ i.variant = s.variant /\ i.recovered = s.recovered
      /\ i.evaluators = results /\ i.status = status /\ i.score = score
  BY <1>2 DEF IsSession
<1> QED BY <1>3 DEF i, status, score, results

(* With one more evaluator passed, the sessions fare no worse.             *)
LEMMA BetterFares ==
    ASSUME Scored, ScoresInv, JudgedInv, NEW s \in evidence, NEW e \in s.evaluators
    PROVE  \E u, v : Faring(Costed, WithCosts((evidence \ {s}) \cup {Improved(s, e)}), u, v)
<1> DEFINE i == Improved(s, e)
           T == WithCosts((evidence \ {s}) \cup {i})
           u == [t \in TasksOf(suite) |-> Given(t)]
           v == [t \in TasksOf(suite) |-> IF t = s.task THEN WithCost(i) ELSE Given(t)]
<1>1. s.task \in TasksOf(suite) /\ SessionOf(s.task) = s /\ IsSession(s)
  BY OneOfEach, GivenIs
<1>2. T = {WithCost(r) : r \in (evidence \ {s}) \cup {i}}
  BY DEF WithCosts, WithCost
<1>3. /\ IsSession(i) /\ i.task = s.task /\ i.variant = s.variant /\ i.recovered = s.recovered
      /\ i.evaluators = (s.evaluators \ {e}) \cup {EvaluatorResult(e, "passed")}
      /\ i.status = aggregateStrictScore(i.evaluators).status
      /\ i.score = aggregateStrictScore(i.evaluators).score
  BY <1>1, ImprovedIs
<1> HIDE DEF i, T
<1>4. OnePerTask(Costed, u)
  BY OneOfEach DEF OnePerTask, SameSession
<1>5. OnePerTask(T, v)
  <2>1. \A t \in TasksOf(suite) : v[t].task = t
    BY <1>3, OneOfEach, CostAdded DEF SameSession
  <2>2. ASSUME NEW t \in TasksOf(suite) PROVE v[t] \in T
    <3>1. CASE t = s.task
      BY <1>2, <3>1
    <3>2. CASE t # s.task
      <4>1. SessionOf(t) \in evidence \ {s}
        BY <3>2, OneOfEach
      <4> QED BY <1>2, <3>2, <4>1, GivenIs
    <3> QED BY <3>1, <3>2
  <2>3. ASSUME NEW x \in T PROVE \E t \in TasksOf(suite) : x = v[t]
    <3>1. PICK r \in (evidence \ {s}) \cup {i} : x = WithCost(r)
      BY <1>2
    <3>2. CASE r = i
      BY <1>1, <3>1, <3>2
    <3>3. CASE r \in evidence \ {s}
      <4>1. r.task \in TasksOf(suite) /\ SessionOf(r.task) = r /\ r.task # s.task
        BY <1>1, <3>3, OneOfEach
      <4>2. v[r.task] = WithCost(r)
        BY <4>1, GivenIs
      <4> QED BY <3>1, <4>1, <4>2
    <3> QED BY <3>1, <3>2, <3>3
  <2> HIDE DEF v
  <2> QED BY <2>1, <2>2, <2>3 DEF OnePerTask
<1>6. ASSUME NEW t \in TasksOf(suite)
      PROVE  Given(t).cost \in Nat /\ Judged(Given(t)) /\ Strict(Given(t))
  <2>1. Given(t) \in Costed /\ SameSession(SessionOf(t), Given(t)) /\ SessionOf(t) \in evidence
    BY OneOfEach
  <2>2. Judged(SessionOf(t))
    BY <2>1 DEF JudgedInv
  <2>3. Judged(Given(t))
    BY <2>1, <2>2 DEF Judged, SameSession
  <2> QED BY <2>1, <2>3, CostedStrict
<1>7. ASSUME NEW t \in TasksOf(suite)
      PROVE  Fares(u[t], v[t]) /\ u[t].cost \in Nat
  <2>1. u[t] = Given(t) /\ Given(t).cost \in Nat
    BY <1>6
  <2>2. CASE t # s.task
    BY <1>6, <2>1, <2>2, FaresAsBefore
  <2>3. CASE t = s.task
    <3> DEFINE x == Given(t)
               y == WithCost(i)
    <3>1. v[t] = y /\ SameSession(s, x) /\ x = WithCost(s)
      BY <1>1, <2>3, OneOfEach, GivenIs
    <3>2. SameSession(i, y) /\ y.cost = x.cost
      BY <1>1, <1>3, <3>1, CostAdded
    <3> HIDE DEF x, y, u, v
    <3>3. /\ y.task = x.task /\ y.variant = x.variant /\ y.cost = x.cost /\ y.recovered = x.recovered
          /\ y.evaluators = (x.evaluators \ {e}) \cup {EvaluatorResult(e, "passed")}
          /\ y.status = aggregateStrictScore(y.evaluators).status
          /\ y.score = aggregateStrictScore(y.evaluators).score
          /\ e \in x.evaluators
      BY <1>3, <3>1, <3>2 DEF SameSession
    <3>4. Judged(x) /\ Strict(x)
      BY <1>6 DEF x
    <3>5. Fares(x, y)
      BY <3>3, <3>4, ImprovedFares
    <3> QED BY <2>1, <3>1, <3>5 DEF x
  <2> QED BY <2>2, <2>3
<1>8. suite \in Suites
  BY DEF Scored, EvidenceInv
<1> HIDE DEF u, v
<1>9. Faring(Costed, T, u, v)
  BY <1>4, <1>5, <1>7, <1>8 DEF Faring
<1> QED BY <1>9 DEF T, i

LEMMA BetterKept ==
    ASSUME EvidenceInv, ScoresInv, JudgedInv
    PROVE  BetterNeverHurts
<1> SUFFICES ASSUME outcome # NoOutcome, NEW s \in evidence, NEW e \in s.evaluators
             PROVE  LET better == aggregateSuiteScore(suite,
                                    WithCosts((evidence \ {s}) \cup {Improved(s, e)}), carried)
                    IN  better.score >= outcome.score /\ Rank(better.status) >= Rank(outcome.status)
  BY DEF BetterNeverHurts, Ended
<1>1. Scored /\ outcome = aggregateSuiteScore(suite, Costed, carried)
  BY DEF EvidenceInv, Scored, Costed
<1> DEFINE T == WithCosts((evidence \ {s}) \cup {Improved(s, e)})
           better == aggregateSuiteScore(suite, T, carried)
<1>2. PICK u, v : Faring(Costed, T, u, v)
  BY <1>1, BetterFares
<1> HIDE DEF T
<1>3. /\ outcome.score \in Int /\ better.score \in Int /\ outcome.score <= better.score
      /\ outcome.status \in Statuses /\ better.status \in Statuses
      /\ NotLower(outcome.status, better.status)
  BY <1>1, <1>2, SuiteFares
<1> HIDE DEF better
<1>4. Rank(outcome.status) <= Rank(better.status)
  BY <1>3, RanksGrow
<1>5. Rank(outcome.status) \in Int /\ Rank(better.status) \in Int
  BY <1>3 DEF Rank, Statuses
<1> QED BY <1>3, <1>4, <1>5 DEF better, T

=============================================================================
