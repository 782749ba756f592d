-------------------------------- MODULE Sums --------------------------------
(***************************************************************************)
(* Facts about the sums of the community modules (SumFunctionOnSet of      *)
(* Functions), that one over a finite set does not depend on the order in  *)
(* which its elements are taken, and about their factorials and binomial   *)
(* coefficients (Combinatorics).                                           *)
(*                                                                         *)
(* Induction is done here by a minimal counterexample: the strict subsets  *)
(* of a finite set are well-founded, and so are the natural numbers.       *)
(***************************************************************************)
EXTENDS FiniteSetsExt, Combinatorics, FiniteSetTheorems, WellFoundedInduction, TLAPS

\* Among the subsets of a finite set, whatever ones are asked for, there is one of which
\* no strict subset is asked for.
LEMMA MinimalSubset ==
  ASSUME NEW S, IsFiniteSet(S), NEW B \in SUBSET (SUBSET S), B # {}
  PROVE  \E T \in B : \A U \in B : U \subseteq T => U = T
  <1>1. IsWellFoundedOn(StrictSubsetOrdering(S), FiniteSubsetsOf(S))
    BY FS_StrictSubsetOrderingWellFounded
  <1>2. B \subseteq FiniteSubsetsOf(S)
    BY FS_FiniteSubsetsOfFinite
  <1>3. \E T \in B : \A U \in B : ~ (<<U, T>> \in StrictSubsetOrdering(S))
    BY <1>1, <1>2, WFMin
  <1> QED BY <1>3 DEF StrictSubsetOrdering

\* The element that a sum takes first, and the function by which it goes on.
Some(s) == CHOOSE x \in s : TRUE
Adds(g, f, S) ==
    g = [s \in SUBSET S |-> IF s = {} THEN 0 ELSE f[Some(s)] + g[s \ {Some(s)}]]

LEMMA SomeIsElement == ASSUME NEW s, s # {} PROVE Some(s) \in s
  BY DEF Some

LEMMA SumIsRecursive ==
  ASSUME NEW f, NEW S
  PROVE  SumFunctionOnSet(f, S) = (CHOOSE g : Adds(g, f, S))[S]
  BY DEF SumFunctionOnSet, FoldFunctionOnSet, MapThenFoldSet, Adds, Some

\* Two such functions agree wherever both are defined.
LEMMA AddsAgree ==
  ASSUME NEW f, NEW S, IsFiniteSet(S), NEW T, NEW g, NEW h, Adds(g, f, S), Adds(h, f, T),
         NEW s \in SUBSET S, s \in SUBSET T
  PROVE  g[s] = h[s]
  <1> DEFINE B == {u \in SUBSET S : u \in SUBSET T /\ g[u] # h[u]}
  <1>1. SUFFICES ASSUME B # {} PROVE FALSE
    OBVIOUS
  <1>2. PICK u \in B : \A v \in B : v \subseteq u => v = u
    <2>1. B \in SUBSET (SUBSET S)
      OBVIOUS
    <2> HIDE DEF B
    <2> QED BY <1>1, <2>1, MinimalSubset
  <1>3. u # {}
    BY DEF Adds
  <1>4. /\ Some(u) \in u
        /\ u \ {Some(u)} \in SUBSET S /\ u \ {Some(u)} \in SUBSET T
        /\ u \ {Some(u)} \subseteq u /\ u \ {Some(u)} # u
    BY <1>3, SomeIsElement
  <1>5. g[u \ {Some(u)}] = h[u \ {Some(u)}]
    BY <1>2, <1>4
  <1>6. g[u] = f[Some(u)] + g[u \ {Some(u)}] /\ h[u] = f[Some(u)] + h[u \ {Some(u)}]
    BY <1>3 DEF Adds
  <1> QED BY <1>5, <1>6

LEMMA AddsExists ==
  ASSUME NEW f, NEW S, IsFiniteSet(S)
  PROVE  \E g : Adds(g, f, S)
  <1> DEFINE B == {u \in SUBSET S : ~ \E g : Adds(g, f, u)}
  <1>1. SUFFICES ASSUME B # {} PROVE FALSE
    OBVIOUS
  <1>2. PICK u \in B : \A v \in B : v \subseteq u => v = u
    <2>1. B \in SUBSET (SUBSET S)
      OBVIOUS
    <2> HIDE DEF B
    <2> QED BY <1>1, <2>1, MinimalSubset
  <1> DEFINE G(v) == CHOOSE g : Adds(g, f, v)
             rest(v) == v \ {Some(v)}
             g == [s \in SUBSET u |-> IF s = {} THEN 0 ELSE f[Some(s)] + G(rest(s))[rest(s)]]
  <1>3. ASSUME NEW v \in SUBSET u, v # u
        PROVE  Adds(G(v), f, v)
    <2>1. v \notin B /\ v \in SUBSET S
      BY <1>2, <1>3
    <2>2. \E k : Adds(k, f, v)
      BY <2>1
    <2> QED BY <2>2
  <1>4. ASSUME NEW s \in SUBSET u, s # {}
        PROVE  G(rest(s))[rest(s)] = g[rest(s)]
    <2>1. Some(s) \in s /\ rest(s) \in SUBSET u /\ rest(s) # u
      BY <1>4, SomeIsElement
    <2>2. CASE rest(s) = {}
      <3>1. Adds(G(rest(s)), f, rest(s))
        BY <2>1, <1>3
      <3> HIDE DEF G
      <3>2. G(rest(s))[rest(s)] = 0
        BY <3>1, <2>2 DEF Adds
      <3> QED BY <3>2, <2>1, <2>2
    <2>3. CASE rest(s) # {}
      <3> DEFINE v == rest(s)
      <3>1. Some(v) \in v /\ rest(v) \in SUBSET u /\ rest(v) # u
        BY <2>1, <2>3, SomeIsElement
      <3>2. Adds(G(v), f, v) /\ Adds(G(rest(v)), f, rest(v))
        BY <2>1, <3>1, <1>3
      <3>3. IsFiniteSet(v)
        BY <2>1, FS_Subset
      <3> HIDE DEF G
      <3>4. G(v)[rest(v)] = G(rest(v))[rest(v)]
        <4>1. rest(v) \in SUBSET v /\ rest(v) \in SUBSET rest(v)
          OBVIOUS
        <4> HIDE DEF rest, v
        <4> QED BY <3>2, <3>3, <4>1, AddsAgree
      <3>5. G(v)[v] = f[Some(v)] + G(v)[rest(v)]
        BY <3>2, <2>3 DEF Adds
      <3>6. g[v] = f[Some(v)] + G(rest(v))[rest(v)]
        BY <2>1, <2>3
      <3> QED BY <3>4, <3>5, <3>6
    <2> QED BY <2>2, <2>3
  <1>5. Adds(g, f, u)
    <2> HIDE DEF G, g
    <2>1. g = [s \in SUBSET u |-> IF s = {} THEN 0 ELSE f[Some(s)] + G(rest(s))[rest(s)]]
      BY DEF g
    <2>2. \A s \in SUBSET u : s # {} => G(rest(s))[rest(s)] = g[s \ {Some(s)}]
      BY <1>4
    <2> QED BY <2>1, <2>2 DEF Adds
  <1> QED BY <1>2, <1>5

\* The sum over a finite set, taking its elements in the order of Some.
LEMMA SumUnfolds ==
  ASSUME NEW f, NEW S, IsFiniteSet(S), S # {}
  PROVE  SumFunctionOnSet(f, S) =
           f[Some(S)] + SumFunctionOnSet(f, S \ {Some(S)})
  <1> DEFINE G(v) == CHOOSE g : Adds(g, f, v)
             R == S \ {Some(S)}
  <1>1. IsFiniteSet(R)
    BY FS_Subset
  <1>2. Adds(G(S), f, S) /\ Adds(G(R), f, R)
    BY <1>1, AddsExists
  <1>3. SumFunctionOnSet(f, S) = G(S)[S] /\ SumFunctionOnSet(f, R) = G(R)[R]
    BY SumIsRecursive
  <1> HIDE DEF G
  <1>4. G(R)[R] = G(S)[R]
    BY <1>1, <1>2, AddsAgree
  <1>5. G(S)[S] = f[Some(S)] + G(S)[R]
    BY <1>2 DEF Adds
  <1> QED BY <1>3, <1>4, <1>5

LEMMA SumOfNone ==
  ASSUME NEW f
  PROVE  SumFunctionOnSet(f, {}) = 0
  <1>1. Adds([s \in SUBSET {} |-> 0], f, {})
    BY DEF Adds
  <1>2. Adds(CHOOSE g : Adds(g, f, {}), f, {})
    BY <1>1
  <1> QED BY <1>2, SumIsRecursive DEF Adds

\* Sums of equal terms are equal.
LEMMA SumOfSame ==
  ASSUME NEW f, NEW g, NEW S, IsFiniteSet(S), \A x \in S : f[x] = g[x]
  PROVE  SumFunctionOnSet(f, S) = SumFunctionOnSet(g, S)
  <1> DEFINE B == {u \in SUBSET S : SumFunctionOnSet(f, u) # SumFunctionOnSet(g, u)}
  <1>1. SUFFICES ASSUME B # {} PROVE FALSE
    OBVIOUS
  <1>2. PICK u \in B : \A v \in B : v \subseteq u => v = u
    <2>1. B \in SUBSET (SUBSET S)
      OBVIOUS
    <2> HIDE DEF B
    <2> QED BY <1>1, <2>1, MinimalSubset
  <1>3. u # {}
    BY SumOfNone
  <1>4. Some(u) \in u /\ u \ {Some(u)} \in SUBSET S /\ u \ {Some(u)} # u /\ IsFiniteSet(u)
    BY <1>3, SomeIsElement, FS_Subset
  <1>5. SumFunctionOnSet(f, u \ {Some(u)}) = SumFunctionOnSet(g, u \ {Some(u)})
    BY <1>2, <1>4
  <1>6. /\ SumFunctionOnSet(f, u) = f[Some(u)] + SumFunctionOnSet(f, u \ {Some(u)})
        /\ SumFunctionOnSet(g, u) = g[Some(u)] + SumFunctionOnSet(g, u \ {Some(u)})
    BY <1>3, <1>4, SumUnfolds
  <1>7. f[Some(u)] = g[Some(u)]
    BY <1>4
  <1> QED BY <1>5, <1>6, <1>7

\* The sum of integers is one, and that of natural numbers too.
LEMMA SumIsInteger ==
  ASSUME NEW f, NEW S, IsFiniteSet(S), \A x \in S : f[x] \in Int
  PROVE  SumFunctionOnSet(f, S) \in Int
  <1> DEFINE B == {u \in SUBSET S : SumFunctionOnSet(f, u) \notin Int}
  <1>1. SUFFICES ASSUME B # {} PROVE FALSE
    OBVIOUS
  <1>2. PICK u \in B : \A v \in B : v \subseteq u => v = u
    <2>1. B \in SUBSET (SUBSET S)
      OBVIOUS
    <2> HIDE DEF B
    <2> QED BY <1>1, <2>1, MinimalSubset
  <1>3. u # {}
    BY SumOfNone
  <1>4. Some(u) \in u /\ u \ {Some(u)} \in SUBSET S /\ u \ {Some(u)} # u /\ IsFiniteSet(u)
    BY <1>3, SomeIsElement, FS_Subset
  <1>5. SumFunctionOnSet(f, u \ {Some(u)}) \in Int
    BY <1>2, <1>4
  <1>6. SumFunctionOnSet(f, u) = f[Some(u)] + SumFunctionOnSet(f, u \ {Some(u)})
    BY <1>3, <1>4, SumUnfolds
  <1>7. f[Some(u)] \in Int
    BY <1>4
  <1> QED BY <1>5, <1>6, <1>7

\* Any element may be taken first.
LEMMA SumTakes ==
  ASSUME NEW f, NEW S, IsFiniteSet(S), \A x \in S : f[x] \in Int, NEW element \in S
  PROVE  SumFunctionOnSet(f, S) = f[element] + SumFunctionOnSet(f, S \ {element})
  <1> DEFINE B == {u \in SUBSET S : \E e \in u : SumFunctionOnSet(f, u)
                                                   # f[e] + SumFunctionOnSet(f, u \ {e})}
  <1>1. SUFFICES ASSUME B # {} PROVE FALSE
    OBVIOUS
  <1>2. PICK u \in B : \A v \in B : v \subseteq u => v = u
    <2>1. B \in SUBSET (SUBSET S)
      OBVIOUS
    <2> HIDE DEF B
    <2> QED BY <1>1, <2>1, MinimalSubset
  <1>3. PICK e \in u : SumFunctionOnSet(f, u) # f[e] + SumFunctionOnSet(f, u \ {e})
    OBVIOUS
  <1>4. ASSUME NEW v \in SUBSET u, v # u, NEW x \in v
        PROVE  SumFunctionOnSet(f, v) = f[x] + SumFunctionOnSet(f, v \ {x})
    BY <1>2, <1>4
  <1> DEFINE c == Some(u)
  <1>5. c \in u /\ u \in SUBSET S /\ IsFiniteSet(u)
    BY SomeIsElement, FS_Subset
  <1>6. SumFunctionOnSet(f, u) = f[c] + SumFunctionOnSet(f, u \ {c})
    BY <1>5, SumUnfolds
  <1> HIDE DEF c, B
  <1>7. c # e
    BY <1>3, <1>6
  <1> DEFINE w == (u \ {e}) \ {c}
  <1>8. SumFunctionOnSet(f, u \ {c}) = f[e] + SumFunctionOnSet(f, w)
    <2>1. u \ {c} \in SUBSET u /\ u \ {c} # u /\ e \in u \ {c}
      BY <1>5, <1>7
    <2>2. (u \ {c}) \ {e} = w
      OBVIOUS
    <2>3. SumFunctionOnSet(f, u \ {c}) = f[e] + SumFunctionOnSet(f, (u \ {c}) \ {e})
      BY <2>1, <1>4
    <2> HIDE DEF w
    <2> QED BY <2>2, <2>3
  <1>9. SumFunctionOnSet(f, u \ {e}) = f[c] + SumFunctionOnSet(f, w)
    <2>1. u \ {e} \in SUBSET u /\ u \ {e} # u /\ c \in u \ {e}
      BY <1>5, <1>7
    <2> QED BY <2>1, <1>4
  <1>10. SumFunctionOnSet(f, w) \in Int
    <2>1. IsFiniteSet(w) /\ w \subseteq S
      BY <1>5, FS_Subset
    <2>2. \A x \in w : f[x] \in Int
      BY <2>1
    <2> HIDE DEF w
    <2> QED BY <2>1, <2>2, SumIsInteger
  <1>11. f[c] \in Int /\ f[e] \in Int
    BY <1>5
  <1> HIDE DEF w
  <1> QED BY <1>3, <1>6, <1>8, <1>9, <1>10, <1>11

\* An element more.
LEMMA SumWithElement ==
  ASSUME NEW f, NEW S, IsFiniteSet(S), NEW e, e \notin S, f[e] \in Int,
         \A x \in S : f[x] \in Int
  PROVE  SumFunctionOnSet(f, S \union {e}) = SumFunctionOnSet(f, S) + f[e]
  <1> DEFINE T == S \union {e}
             R == T \ {e}
  <1>1. IsFiniteSet(T) /\ e \in T /\ R = S /\ \A x \in T : f[x] \in Int
    BY FS_AddElement
  <1> HIDE DEF T
  <1>2. SumFunctionOnSet(f, T) = f[e] + SumFunctionOnSet(f, R)
    BY <1>1, SumTakes
  <1> HIDE DEF R
  <1>3. SumFunctionOnSet(f, S) \in Int
    BY SumIsInteger
  <1>4. SumFunctionOnSet(f, T) = SumFunctionOnSet(f, S) + f[e]
    BY <1>1, <1>2, <1>3
  <1> QED BY <1>4 DEF T

\* A sum of terms from 0 to m is at most m for each of them.
LEMMA SumIsBounded ==
  ASSUME NEW f, NEW S, IsFiniteSet(S), NEW m \in Nat, \A x \in S : f[x] \in 0 .. m
  PROVE  SumFunctionOnSet(f, S) \in 0 .. m * Cardinality(S)
  <1> DEFINE B == {u \in SUBSET S : SumFunctionOnSet(f, u) \notin 0 .. m * Cardinality(u)}
  <1>1. SUFFICES ASSUME B # {} PROVE FALSE
    OBVIOUS
  <1>2. PICK u \in B : \A v \in B : v \subseteq u => v = u
    <2>1. B \in SUBSET (SUBSET S)
      OBVIOUS
    <2> HIDE DEF B
    <2> QED BY <1>1, <2>1, MinimalSubset
  <1>3. u # {}
    BY SumOfNone, FS_EmptySet
  <1>4. Some(u) \in u /\ u \ {Some(u)} \in SUBSET S /\ u \ {Some(u)} # u /\ IsFiniteSet(u)
    BY <1>3, SomeIsElement, FS_Subset
  <1> DEFINE n == Cardinality(u \ {Some(u)})
             rest == SumFunctionOnSet(f, u \ {Some(u)})
  <1>5. rest \in 0 .. m * n
    BY <1>2, <1>4
  <1>6. SumFunctionOnSet(f, u) = f[Some(u)] + rest
    BY <1>3, <1>4, SumUnfolds
  <1>7. f[Some(u)] \in 0 .. m
    BY <1>4
  <1>8. n \in Nat /\ Cardinality(u) = n + 1
    <2>1. Cardinality(u) \in Nat
      BY <1>4, FS_CardinalityType
    <2>2. IsFiniteSet(u \ {Some(u)}) /\ n = Cardinality(u) - 1
      BY <1>4, FS_RemoveElement
    <2>3. n \in Nat
      BY <2>2, FS_CardinalityType
    <2> QED BY <2>1, <2>2, <2>3
  <1>9. m * (n + 1) = m * n + m /\ m * n \in Nat
    <2> HIDE DEF n
    <2> QED BY <1>8
  <1>10. SumFunctionOnSet(f, u) \in 0 .. m * Cardinality(u)
    <2> HIDE DEF n, rest
    <2> QED BY <1>5, <1>6, <1>7, <1>8, <1>9
  <1> QED BY <1>10

\* A set of natural numbers has a least element.
LEMMA LeastNumber ==
  ASSUME NEW B \in SUBSET Nat, B # {}
  PROVE  \E n \in B : \A k \in B : n <= k
  <1>1. \E x \in B : \A y \in B : ~ (<<y, x>> \in OpToRel(<, Nat))
    BY NatLessThanWellFounded, WFMin
  <1>2. PICK x \in B : \A y \in B : ~ (<<y, x>> \in OpToRel(<, Nat))
    BY <1>1
  <1>3. ASSUME NEW y \in B PROVE x <= y
    <2>1. ~ (y < x)
      BY <1>2 DEF OpToRel
    <2> QED BY <2>1
  <1> QED BY <1>3

\* A sum in two parts.
LEMMA SumSplits ==
  ASSUME NEW f, NEW S, NEW T, IsFiniteSet(S), IsFiniteSet(T), S \intersect T = {},
         \A x \in S \union T : f[x] \in Int
  PROVE  SumFunctionOnSet(f, S \union T) = SumFunctionOnSet(f, S) + SumFunctionOnSet(f, T)
  <1> DEFINE B == {u \in SUBSET T : SumFunctionOnSet(f, S \union u)
                                      # SumFunctionOnSet(f, S) + SumFunctionOnSet(f, u)}
  <1>1. SUFFICES ASSUME B # {} PROVE FALSE
    OBVIOUS
  <1>2. PICK u \in B : \A v \in B : v \subseteq u => v = u
    <2>1. B \in SUBSET (SUBSET T)
      OBVIOUS
    <2> HIDE DEF B
    <2> QED BY <1>1, <2>1, MinimalSubset
  <1>3. SumFunctionOnSet(f, S) \in Int
    BY SumIsInteger
  <1>4. u # {}
    <2>1. ASSUME u = {} PROVE FALSE
      <3>1. S \union u = S
        BY <2>1
      <3> QED BY <1>2, <1>3, <2>1, <3>1, SumOfNone
    <2> QED BY <2>1
  <1>5. PICK e \in u : TRUE
    BY <1>4
  <1> DEFINE v == u \ {e}
  <1>6. v \in SUBSET T /\ v # u /\ v \subseteq u /\ IsFiniteSet(v) /\ IsFiniteSet(S \union v)
        /\ e \notin S \union v /\ f[e] \in Int /\ (S \union v) \union {e} = S \union u
        /\ v \union {e} = u /\ (\A x \in v : f[x] \in Int) /\ \A x \in S \union v : f[x] \in Int
    BY <1>5, FS_Subset, FS_Union
  <1>7. SumFunctionOnSet(f, S \union v) = SumFunctionOnSet(f, S) + SumFunctionOnSet(f, v)
    BY <1>2, <1>6
  <1> HIDE DEF v, B
  <1>8. SumFunctionOnSet(f, S \union u) = SumFunctionOnSet(f, S \union v) + f[e]
    <2>1. SumFunctionOnSet(f, (S \union v) \union {e}) = SumFunctionOnSet(f, S \union v) + f[e]
      BY <1>6, SumWithElement
    <2> QED BY <1>6, <2>1
  <1>9. SumFunctionOnSet(f, u) = SumFunctionOnSet(f, v) + f[e]
    <2>1. SumFunctionOnSet(f, v \union {e}) = SumFunctionOnSet(f, v) + f[e]
      BY <1>6, SumWithElement
    <2> QED BY <1>6, <2>1
  <1>10. SumFunctionOnSet(f, v) \in Int
    BY <1>6, SumIsInteger
  <1>11. SumFunctionOnSet(f, S \union u) = SumFunctionOnSet(f, S) + SumFunctionOnSet(f, u)
    BY <1>3, <1>6, <1>7, <1>8, <1>9, <1>10
  <1> QED BY <1>2, <1>11 DEF B

\* Smaller terms have a smaller sum.
LEMMA SumGrows ==
  ASSUME NEW f, NEW g, NEW S, IsFiniteSet(S),
         \A x \in S : f[x] \in Int /\ g[x] \in Int /\ f[x] <= g[x]
  PROVE  SumFunctionOnSet(f, S) <= SumFunctionOnSet(g, S)
  <1> DEFINE B == {u \in SUBSET S : ~ (SumFunctionOnSet(f, u) <= SumFunctionOnSet(g, u))}
  <1>1. SUFFICES ASSUME B # {} PROVE FALSE
    OBVIOUS
  <1>2. PICK u \in B : \A v \in B : v \subseteq u => v = u
    <2>1. B \in SUBSET (SUBSET S)
      OBVIOUS
    <2> HIDE DEF B
    <2> QED BY <1>1, <2>1, MinimalSubset
  <1>3. u # {}
    BY SumOfNone
  <1> DEFINE v == u \ {Some(u)}
  <1>4. /\ Some(u) \in u /\ v \in SUBSET S /\ v # u /\ v \subseteq u
        /\ IsFiniteSet(u) /\ IsFiniteSet(v)
        /\ \A x \in v : f[x] \in Int /\ g[x] \in Int
    BY <1>3, SomeIsElement, FS_Subset
  <1>5. SumFunctionOnSet(f, v) <= SumFunctionOnSet(g, v)
    BY <1>2, <1>4
  <1>6. /\ SumFunctionOnSet(f, u) = f[Some(u)] + SumFunctionOnSet(f, v)
        /\ SumFunctionOnSet(g, u) = g[Some(u)] + SumFunctionOnSet(g, v)
    BY <1>3, <1>4, SumUnfolds
  <1>7. f[Some(u)] \in Int /\ g[Some(u)] \in Int /\ f[Some(u)] <= g[Some(u)]
    BY <1>4
  <1> HIDE DEF v
  <1>8. SumFunctionOnSet(f, v) \in Int /\ SumFunctionOnSet(g, v) \in Int
    BY <1>4, SumIsInteger
  <1>9. SumFunctionOnSet(f, u) <= SumFunctionOnSet(g, u)
    BY <1>5, <1>6, <1>7, <1>8
  <1> QED BY <1>2, <1>9

\* The sum of natural numbers is one.
LEMMA SumIsNatural ==
  ASSUME NEW u, NEW S, IsFiniteSet(S), \A x \in S : u[x] \in Nat
  PROVE  SumFunctionOnSet(u, S) \in Int /\ SumFunctionOnSet(u, S) >= 0
  <1> DEFINE z == [x \in S |-> 0]
  <1>1. SumFunctionOnSet(z, S) \in 0 .. 0 * Cardinality(S)
    <2>1. \A x \in S : z[x] \in 0 .. 0
      OBVIOUS
    <2> HIDE DEF z
    <2> QED BY <2>1, SumIsBounded
  <1>2. \A x \in S : z[x] \in Int /\ u[x] \in Int /\ z[x] <= u[x]
    OBVIOUS
  <1> HIDE DEF z
  <1>3. SumFunctionOnSet(z, S) <= SumFunctionOnSet(u, S)
    BY <1>2, SumGrows
  <1>4. Cardinality(S) \in Nat
    BY FS_CardinalityType
  <1>5. SumFunctionOnSet(z, S) = 0
    BY <1>1, <1>4
  <1>6. SumFunctionOnSet(u, S) \in Int
    BY SumIsInteger
  <1> QED BY <1>3, <1>5, <1>6

\* One term that grows.
LEMMA OneGrows ==
  ASSUME NEW w, NEW v, NEW S, IsFiniteSet(S), NEW e \in S,
         \A j \in S : w[j] \in Int /\ v[j] \in Int /\ w[j] <= v[j], w[e] < v[e]
  PROVE  SumFunctionOnSet(w, S) + 1 <= SumFunctionOnSet(v, S)
  <1> DEFINE R == S \ {e}
  <1>1. IsFiniteSet(R) /\ (\A j \in R : w[j] \in Int) /\ (\A j \in R : v[j] \in Int)
        /\ (\A j \in R : w[j] \in Int /\ v[j] \in Int /\ w[j] <= v[j])
        /\ e \notin R /\ S = R \union {e}
    BY FS_Subset
  <1>2. w[e] \in Int /\ v[e] \in Int
    OBVIOUS
  <1> HIDE DEF R
  <1>3. /\ SumFunctionOnSet(w, R \union {e}) = SumFunctionOnSet(w, R) + w[e]
        /\ SumFunctionOnSet(v, R \union {e}) = SumFunctionOnSet(v, R) + v[e]
    BY <1>1, <1>2, SumWithElement
  <1>4. /\ SumFunctionOnSet(w, R) <= SumFunctionOnSet(v, R)
        /\ SumFunctionOnSet(w, R) \in Int /\ SumFunctionOnSet(v, R) \in Int
    BY <1>1, SumGrows, SumIsInteger
  <1> QED BY <1>1, <1>2, <1>3, <1>4

-----------------------------------------------------------------------------
(* Factorials and binomial coefficients *)

\* A table of the factorials up to n.
FactorialTable(g, n) == g = [k \in 0 .. n |-> IF k = 0 THEN 1 ELSE k * g[k - 1]]

\* Two tables agree wherever both are defined.
LEMMA TablesAgree ==
  ASSUME NEW m \in Nat, NEW n \in Nat, NEW g, NEW h, FactorialTable(g, m), FactorialTable(h, n),
         NEW k \in Nat, k <= m, k <= n
  PROVE  g[k] = h[k]
  <1> DEFINE B == {i \in Nat : i <= m /\ i <= n /\ g[i] # h[i]}
  <1>1. SUFFICES ASSUME B # {} PROVE FALSE
    OBVIOUS
  <1>2. PICK i \in B : \A l \in B : i <= l
    <2>1. B \in SUBSET Nat
      OBVIOUS
    <2> HIDE DEF B
    <2> QED BY <1>1, <2>1, LeastNumber
  <1>3. i # 0
    BY DEF FactorialTable
  <1>4. i - 1 \in Nat /\ i - 1 \notin B /\ i - 1 <= m /\ i - 1 <= n
    BY <1>2, <1>3
  <1>5. g[i - 1] = h[i - 1]
    BY <1>4
  <1>6. g[i] = i * g[i - 1] /\ h[i] = i * h[i - 1]
    BY <1>3 DEF FactorialTable
  <1> QED BY <1>5, <1>6

\* There is one for every n.
LEMMA TableExists ==
  ASSUME NEW n \in Nat
  PROVE  \E g : FactorialTable(g, n)
  <1> DEFINE B == {i \in Nat : ~ \E g : FactorialTable(g, i)}
  <1>1. SUFFICES ASSUME B # {} PROVE FALSE
    OBVIOUS
  <1>2. PICK i \in B : \A l \in B : i <= l
    <2>1. B \in SUBSET Nat
      OBVIOUS
    <2> HIDE DEF B
    <2> QED BY <1>1, <2>1, LeastNumber
  <1>3. CASE i = 0
    <2>1. FactorialTable([k \in 0 .. 0 |-> 1], 0)
      BY DEF FactorialTable
    <2> QED BY <1>3, <2>1
  <1>4. CASE i # 0
    <2>1. i - 1 \in Nat /\ i - 1 \notin B
      BY <1>2, <1>4
    <2>2. PICK g : FactorialTable(g, i - 1)
      BY <2>1
    <2> DEFINE h == [k \in 0 .. i |-> IF k = i THEN i * g[i - 1] ELSE g[k]]
    <2>3. ASSUME NEW k \in 0 .. i PROVE h[k] = IF k = 0 THEN 1 ELSE k * h[k - 1]
      <3>1. CASE k = 0
        BY <1>4, <2>2, <3>1 DEF FactorialTable
      <3>2. CASE k # 0 /\ k # i
        <4>1. h[k] = g[k] /\ h[k - 1] = g[k - 1] /\ k \in 0 .. i - 1
          BY <3>2
        <4> QED BY <2>2, <3>2, <4>1 DEF FactorialTable
      <3>3. CASE k # 0 /\ k = i
        <4>1. h[k] = i * g[i - 1] /\ h[k - 1] = g[i - 1]
          BY <3>3
        <4> QED BY <3>3, <4>1
      <3> QED BY <3>1, <3>2, <3>3
    <2>4. FactorialTable(h, i)
      <3>1. h = [k \in 0 .. i |-> h[k]]
        OBVIOUS
      <3> HIDE DEF h
      <3> QED BY <2>3, <3>1 DEF FactorialTable
    <2> QED BY <2>4
  <1> QED BY <1>3, <1>4

\* The equations that define the factorial.
LEMMA FactorialUnfolds ==
  /\ factorial[0] = 1
  /\ \A n \in Nat : factorial[n + 1] = (n + 1) * factorial[n]
  <1> DEFINE G(n) == CHOOSE g : FactorialTable(g, n)
             f == [n \in Nat |-> G(n)[n]]
  <1>1. \A n \in Nat : FactorialTable(G(n), n)
    BY TableExists
  <1>2. ASSUME NEW n \in Nat, n # 0 PROVE G(n)[n - 1] = G(n - 1)[n - 1]
    <2>1. n - 1 \in Nat /\ FactorialTable(G(n), n) /\ FactorialTable(G(n - 1), n - 1) /\ n - 1 <= n
      BY <1>1, <1>2
    <2> HIDE DEF G
    <2> QED BY <2>1, TablesAgree
  <1> HIDE DEF G
  <1>3. ASSUME NEW n \in Nat PROVE f[n] = IF n = 0 THEN 1 ELSE n * f[n - 1]
    <2>1. G(n)[n] = IF n = 0 THEN 1 ELSE n * G(n)[n - 1]
      BY <1>1 DEF FactorialTable
    <2>2. CASE n = 0
      BY <2>1, <2>2
    <2>3. CASE n # 0
      <3>1. n - 1 \in Nat
        BY <2>3
      <3> QED BY <1>2, <2>1, <2>3, <3>1
    <2> QED BY <2>2, <2>3
  <1>4. f = [n \in Nat |-> IF n = 0 THEN 1 ELSE n * f[n - 1]]
    <2>1. f = [n \in Nat |-> f[n]]
      OBVIOUS
    <2> HIDE DEF f
    <2> QED BY <1>3, <2>1
  <1> HIDE DEF f
  <1>5. factorial = [n \in Nat |-> IF n = 0 THEN 1 ELSE n * factorial[n - 1]]
    BY <1>4 DEF factorial
  <1>6. factorial[0] = 1
    BY <1>5
  <1>7. ASSUME NEW n \in Nat PROVE factorial[n + 1] = (n + 1) * factorial[n]
    <2>1. n + 1 \in Nat /\ n + 1 # 0 /\ (n + 1) - 1 = n
      OBVIOUS
    <2>2. factorial[n + 1] = (n + 1) * factorial[(n + 1) - 1]
      BY <1>5, <2>1
    <2> QED BY <2>1, <2>2
  <1> QED BY <1>6, <1>7

\* Factorials are positive.
LEMMA FactorialIsPositive == \A n \in Nat : factorial[n] \in Nat \ {0}
  <1> DEFINE B == {i \in Nat : factorial[i] \notin Nat \ {0}}
  <1>1. SUFFICES ASSUME B # {} PROVE FALSE
    OBVIOUS
  <1>2. PICK i \in B : \A l \in B : i <= l
    <2>1. B \in SUBSET Nat
      OBVIOUS
    <2> HIDE DEF B
    <2> QED BY <1>1, <2>1, LeastNumber
  <1>3. i # 0
    BY FactorialUnfolds
  <1>4. i - 1 \in Nat /\ i - 1 \notin B /\ (i - 1) + 1 = i
    BY <1>2, <1>3
  <1>5. factorial[i - 1] \in Nat \ {0}
    BY <1>4
  <1>6. factorial[i] = i * factorial[i - 1]
    <2>1. factorial[(i - 1) + 1] = ((i - 1) + 1) * factorial[i - 1]
      BY <1>4, FactorialUnfolds
    <2> QED BY <1>4, <2>1
  <1>7. ASSUME NEW a \in Nat \ {0}, NEW b \in Nat \ {0} PROVE a * b \in Nat \ {0}
    OBVIOUS
  <1>8. factorial[i] \in Nat \ {0}
    BY <1>3, <1>5, <1>6, <1>7
  <1> QED BY <1>8

\* The quotient of a product.
LEMMA ExactDivision ==
  ASSUME NEW t \in Nat, NEW b \in Nat \ {0}
  PROVE  (t * b) \div b = t
  OBVIOUS

\* The multisets of m out of i + 1 kinds of things, choose(m + i, i); and that it is a quotient without a rest.
Ways(i, m) == choose(m + i, i)
Exact(i, m) == /\ Ways(i, m) \in Nat
               /\ factorial[m + i] = Ways(i, m) * (factorial[i] * factorial[m])

\* A quotient that is one without a rest is the coefficient.
LEMMA WaysIs ==
  ASSUME NEW i \in Nat, NEW m \in Nat, NEW t \in Nat,
         factorial[m + i] = t * (factorial[i] * factorial[m])
  PROVE  Ways(i, m) = t /\ Exact(i, m)
  <1> DEFINE b == factorial[i] * factorial[m]
  <1>1. b \in Nat \ {0}
    <2>1. ASSUME NEW x \in Nat \ {0}, NEW y \in Nat \ {0} PROVE x * y \in Nat \ {0}
      OBVIOUS
    <2> QED BY <2>1, FactorialIsPositive
  <1>2. Ways(i, m) = factorial[m + i] \div b
    <2>1. (m + i) - i = m
      OBVIOUS
    <2> QED BY <2>1 DEF Ways, choose
  <1> HIDE DEF b
  <1>3. factorial[m + i] = t * b
    BY DEF b
  <1>4. Ways(i, m) = t
    BY <1>1, <1>2, <1>3, ExactDivision
  <1> QED BY <1>4 DEF Exact

\* The two sides of the triangle.
LEMMA WaysBorders ==
  ASSUME NEW n \in Nat
  PROVE  /\ Ways(0, n) = 1 /\ Exact(0, n)
         /\ Ways(n, 0) = 1 /\ Exact(n, 0)
  <1>1. factorial[n] \in Nat /\ factorial[0] = 1
    BY FactorialIsPositive, FactorialUnfolds
  <1>2. factorial[n + 0] = 1 * (factorial[0] * factorial[n])
    BY <1>1
  <1>3. factorial[0 + n] = 1 * (factorial[n] * factorial[0])
    BY <1>1
  <1> QED BY <1>2, <1>3, WaysIs

\* Pascal's rule.
LEMMA Pascal ==
  ASSUME NEW i \in Nat \ {0}, NEW m \in Nat \ {0}, Exact(i - 1, m), Exact(i, m - 1)
  PROVE  /\ Exact(i, m)
         /\ Ways(i, m) = Ways(i - 1, m) + Ways(i, m - 1)
  <1> DEFINE s == Ways(i - 1, m)
             t == Ways(i, m - 1)
             fi == factorial[i - 1]
             fm == factorial[m - 1]
             f == factorial[m + i - 1]
  <1>1. /\ i - 1 \in Nat /\ m - 1 \in Nat /\ m + i - 1 \in Nat
        /\ s \in Nat /\ t \in Nat
    BY DEF Exact
  <1>2. fi \in Nat /\ fm \in Nat /\ f \in Nat
    BY <1>1, FactorialIsPositive
  <1>3. factorial[i] = i * fi /\ factorial[m] = m * fm /\ factorial[m + i] = (m + i) * f
    <2>1. (i - 1) + 1 = i /\ (m - 1) + 1 = m /\ (m + i - 1) + 1 = m + i
      OBVIOUS
    <2> QED BY <1>1, <2>1, FactorialUnfolds
  <1>4. f = s * (fi * (m * fm)) /\ f = t * ((i * fi) * fm)
    <2>1. m + (i - 1) = m + i - 1 /\ (m - 1) + i = m + i - 1
      OBVIOUS
    <2>2. f = s * (fi * factorial[m]) /\ f = t * (factorial[i] * fm)
      BY <2>1 DEF Exact
    <2> QED BY <1>3, <2>2
  <1> HIDE DEF s, t, fi, fm, f
  <1>5. (m + i) * f = (s + t) * ((i * fi) * (m * fm))
    <2>1. i * f = s * ((i * fi) * (m * fm))
      <3>1. i * (s * (fi * (m * fm))) = s * ((i * fi) * (m * fm))
        BY <1>1, <1>2
      <3> QED BY <1>4, <3>1
    <2>2. m * f = t * ((i * fi) * (m * fm))
      <3>1. m * (t * ((i * fi) * fm)) = t * ((i * fi) * (m * fm))
        BY <1>1, <1>2
      <3> QED BY <1>4, <3>1
    <2> DEFINE p == (i * fi) * (m * fm)
    <2>3. p \in Nat
      BY <1>2
    <2> HIDE DEF p
    <2>4. (s + t) * p = s * p + t * p /\ (m + i) * f = m * f + i * f
      BY <1>1, <1>2, <2>3
    <2>5. i * f = s * p /\ m * f = t * p
      BY <2>1, <2>2 DEF p
    <2>6. (m + i) * f = (s + t) * p
      BY <1>1, <1>2, <2>3, <2>4, <2>5
    <2> QED BY <2>6 DEF p
  <1>6. factorial[m + i] = (s + t) * (factorial[i] * factorial[m])
    BY <1>3, <1>5
  <1>7. s + t \in Nat
    BY <1>1
  <1>8. Exact(i, m) /\ Ways(i, m) = s + t
    BY <1>6, <1>7, WaysIs
  <1> QED BY <1>8 DEF s, t

\* Every coefficient is a quotient without a rest.
LEMMA WaysAreExact == \A i \in Nat, m \in Nat : Exact(i, m)
  <1> DEFINE B == {n \in Nat : \E i \in Nat, m \in Nat : n = i + m /\ ~ Exact(i, m)}
  <1>1. SUFFICES ASSUME NEW j \in Nat, NEW l \in Nat, ~ Exact(j, l) PROVE FALSE
    OBVIOUS
  <1>2. PICK n \in B : \A k \in B : n <= k
    <2>1. B \in SUBSET Nat
      OBVIOUS
    <2>2. j + l \in B
      BY <1>1
    <2> HIDE DEF B
    <2> QED BY <2>1, <2>2, LeastNumber
  <1>3. PICK i \in Nat, m \in Nat : n = i + m /\ ~ Exact(i, m)
    OBVIOUS
  <1>4. i # 0 /\ m # 0
    BY <1>3, WaysBorders
  <1>5. i - 1 \in Nat /\ m - 1 \in Nat /\ (i - 1) + m = n - 1 /\ i + (m - 1) = n - 1
        /\ n - 1 \in Nat /\ ~ (n <= n - 1)
    BY <1>3, <1>4
  <1>6. n - 1 \notin B
    BY <1>2, <1>5
  <1>7. Exact(i - 1, m) /\ Exact(i, m - 1)
    BY <1>5, <1>6
  <1> QED BY <1>3, <1>4, <1>7, Pascal

\* What is used of the coefficients.
LEMMA WaysFacts ==
  /\ \A i \in Nat, m \in Nat : Ways(i, m) \in Nat
  /\ \A m \in Nat : Ways(0, m) = 1 /\ Ways(m, 0) = 1
  /\ \A i \in Nat \ {0}, m \in Nat \ {0} : Ways(i, m) = Ways(i - 1, m) + Ways(i, m - 1)
  <1>1. ASSUME NEW i \in Nat \ {0}, NEW m \in Nat \ {0}
        PROVE  Ways(i, m) = Ways(i - 1, m) + Ways(i, m - 1)
    <2>1. i - 1 \in Nat /\ m - 1 \in Nat
      OBVIOUS
    <2> QED BY <2>1, Pascal, WaysAreExact
  <1> QED BY <1>1, WaysAreExact, WaysBorders DEF Exact

\* More things have more multisets.
LEMMA WaysGrow ==
  ASSUME NEW i \in Nat, NEW n \in Nat, NEW m \in Nat, n <= m
  PROVE  Ways(i, n) <= Ways(i, m)
  <1> DEFINE B == {k \in Nat : n <= k /\ ~ (Ways(i, n) <= Ways(i, k))}
  <1>1. SUFFICES ASSUME B # {} PROVE FALSE
    OBVIOUS
  <1>2. PICK k \in B : \A l \in B : k <= l
    <2>1. B \in SUBSET Nat
      OBVIOUS
    <2> HIDE DEF B
    <2> QED BY <1>1, <2>1, LeastNumber
  <1>3. Ways(i, n) \in Nat /\ Ways(i, k) \in Nat
    BY WaysFacts
  <1>4. k # n /\ k # 0 /\ k - 1 \in Nat /\ n <= k - 1
    BY <1>3
  <1>5. Ways(i, n) <= Ways(i, k - 1)
    <2>1. k - 1 \notin B
      BY <1>2, <1>4
    <2> QED BY <1>4, <2>1
  <1>6. Ways(i, k - 1) \in Nat
    BY <1>4, WaysFacts
  <1>7. Ways(i, k - 1) <= Ways(i, k)
    <2>1. CASE i = 0
      BY <1>4, <2>1, WaysFacts
    <2>2. CASE i # 0
      <3>1. i - 1 \in Nat /\ Ways(i - 1, k) \in Nat
        BY <2>2, WaysFacts
      <3>2. Ways(i, k) = Ways(i - 1, k) + Ways(i, k - 1)
        BY <1>4, <2>2, WaysFacts
      <3> QED BY <1>6, <3>1, <3>2
    <2> QED BY <2>1, <2>2
  <1> QED BY <1>3, <1>5, <1>6, <1>7

\* The cardinality of a set is a sum of ones.
LEMMA CountIsSum ==
  ASSUME NEW S, IsFiniteSet(S), NEW f, \A x \in S : f[x] = 1
  PROVE  SumFunctionOnSet(f, S) = Cardinality(S)
  <1> DEFINE B == {u \in SUBSET S : SumFunctionOnSet(f, u) # Cardinality(u)}
  <1>1. SUFFICES ASSUME B # {} PROVE FALSE
    OBVIOUS
  <1>2. PICK u \in B : \A v \in B : v \subseteq u => v = u
    <2>1. B \in SUBSET (SUBSET S)
      OBVIOUS
    <2> HIDE DEF B
    <2> QED BY <1>1, <2>1, MinimalSubset
  <1>3. u \subseteq S /\ IsFiniteSet(u) /\ u # {}
    BY FS_Subset, SumOfNone, FS_EmptySet
  <1>4. PICK e \in u : TRUE
    BY <1>3
  <1>5. u \ {e} \subseteq u /\ e \notin u \ {e} /\ (u \ {e}) \union {e} = u /\ u \ {e} # u
    BY <1>4
  <1>6. SumFunctionOnSet(f, u \ {e}) = Cardinality(u \ {e})
    BY <1>2, <1>3, <1>5
  <1> DEFINE r == u \ {e}
  <1>7. IsFiniteSet(r) /\ Cardinality(r) \in Nat /\ f[e] \in Int /\ f[e] = 1
        /\ \A x \in r : f[x] \in Int
    BY <1>3, <1>4, FS_Subset, FS_CardinalityType
  <1> HIDE DEF r
  <1>8. SumFunctionOnSet(f, r \union {e}) = SumFunctionOnSet(f, r) + f[e]
    BY <1>5, <1>7, SumWithElement DEF r
  <1>9. Cardinality(r \union {e}) = Cardinality(r) + 1
    BY <1>5, <1>7, FS_AddElement DEF r
  <1> QED BY <1>5, <1>6, <1>7, <1>8, <1>9 DEF r

\* The sum of two functions.
LEMMA SumAdds ==
  ASSUME NEW S, IsFiniteSet(S), NEW f, NEW g, NEW h,
         \A x \in S : f[x] \in Int, \A x \in S : g[x] \in Int, \A x \in S : h[x] = f[x] + g[x]
  PROVE  SumFunctionOnSet(h, S) = SumFunctionOnSet(f, S) + SumFunctionOnSet(g, S)
  <1> DEFINE B == {u \in SUBSET S : SumFunctionOnSet(h, u)
                                      # SumFunctionOnSet(f, u) + SumFunctionOnSet(g, u)}
  <1>1. SUFFICES ASSUME B # {} PROVE FALSE
    OBVIOUS
  <1>2. PICK u \in B : \A v \in B : v \subseteq u => v = u
    <2>1. B \in SUBSET (SUBSET S)
      OBVIOUS
    <2> HIDE DEF B
    <2> QED BY <1>1, <2>1, MinimalSubset
  <1>3. u \subseteq S /\ IsFiniteSet(u) /\ u # {}
    <2>1. SumFunctionOnSet(h, {}) = 0 /\ SumFunctionOnSet(f, {}) = 0 /\ SumFunctionOnSet(g, {}) = 0
      BY SumOfNone
    <2>2. SumFunctionOnSet(h, {}) = SumFunctionOnSet(f, {}) + SumFunctionOnSet(g, {})
      BY <2>1
    <2>3. u # {}
      BY <2>2
    <2> QED BY <2>3, FS_Subset
  <1>4. PICK e \in u : TRUE
    BY <1>3
  <1> DEFINE r == u \ {e}
  <1>5. r \subseteq u /\ r \subseteq S /\ e \notin r /\ r \union {e} = u /\ r # u /\ e \in S
    BY <1>3, <1>4
  <1>6. SumFunctionOnSet(h, r) = SumFunctionOnSet(f, r) + SumFunctionOnSet(g, r)
    BY <1>2, <1>5
  <1>7. /\ IsFiniteSet(r) /\ f[e] \in Int /\ g[e] \in Int /\ h[e] \in Int /\ h[e] = f[e] + g[e]
        /\ (\A x \in r : f[x] \in Int) /\ (\A x \in r : g[x] \in Int) /\ (\A x \in r : h[x] \in Int)
    BY <1>3, <1>5, FS_Subset
  <1> HIDE DEF r
  <1>8. SumFunctionOnSet(f, r \union {e}) = SumFunctionOnSet(f, r) + f[e]
    BY <1>5, <1>7, SumWithElement
  <1>9. SumFunctionOnSet(g, r \union {e}) = SumFunctionOnSet(g, r) + g[e]
    BY <1>5, <1>7, SumWithElement
  <1>10. SumFunctionOnSet(h, r \union {e}) = SumFunctionOnSet(h, r) + h[e]
    BY <1>5, <1>7, SumWithElement
  <1>11. SumFunctionOnSet(f, r) \in Int /\ SumFunctionOnSet(g, r) \in Int
    BY <1>7, SumIsInteger
  <1>12. SumFunctionOnSet(h, u) = SumFunctionOnSet(f, u) + SumFunctionOnSet(g, u)
    <2>1. r \union {e} = u
      BY <1>5
    <2>2. SumFunctionOnSet(h, r \union {e})
            = SumFunctionOnSet(f, r \union {e}) + SumFunctionOnSet(g, r \union {e})
      BY <1>6, <1>7, <1>8, <1>9, <1>10, <1>11
    <2> QED BY <2>1, <2>2
  <1> QED BY <1>2, <1>12

\* The elements of S that h puts in one part, or in several.
Part(S, h, k) == {x \in S : h[x] = k}
InParts(S, h, K) == {x \in S : h[x] \in K}

\* The elements of S that belong to one of the parts K, taken part by part.
LEMMA SumOfParts ==
  ASSUME NEW S, IsFiniteSet(S), NEW f, \A x \in S : f[x] \in Int, NEW h, NEW K, IsFiniteSet(K),
         NEW p, \A k \in K : p[k] = SumFunctionOnSet(f, Part(S, h, k))
  PROVE  SumFunctionOnSet(p, K) = SumFunctionOnSet(f, InParts(S, h, K))
  <1> DEFINE All(u) == InParts(S, h, u)
             One(k) == Part(S, h, k)
             B == {u \in SUBSET K : SumFunctionOnSet(p, u) # SumFunctionOnSet(f, All(u))}
  <1>1. SUFFICES ASSUME B # {} PROVE FALSE
    <2>1. K \in SUBSET K
      OBVIOUS
    <2> QED BY <2>1
  <1>2. PICK u \in B : \A v \in B : v \subseteq u => v = u
    <2>1. B \in SUBSET (SUBSET K)
      OBVIOUS
    <2> HIDE DEF B
    <2> QED BY <1>1, <2>1, MinimalSubset
  <1>3. u \subseteq K /\ IsFiniteSet(u) /\ u # {}
    <2>1. All({}) = {}
      BY DEF InParts
    <2>2. SumFunctionOnSet(p, {}) = SumFunctionOnSet(f, All({}))
      BY <2>1, SumOfNone
    <2> QED BY <2>2, FS_Subset
  <1>4. PICK e \in u : TRUE
    BY <1>3
  <1> DEFINE r == u \ {e}
  <1>5. r \subseteq u /\ r \subseteq K /\ e \notin r /\ r \union {e} = u /\ r # u /\ e \in K
    BY <1>3, <1>4
  <1>6. SumFunctionOnSet(p, r) = SumFunctionOnSet(f, All(r))
    BY <1>2, <1>5
  <1>7. All(u) = All(r) \union One(e) /\ All(r) \intersect One(e) = {}
    BY <1>5 DEF InParts, Part
  <1>8. IsFiniteSet(r) /\ IsFiniteSet(All(r)) /\ IsFiniteSet(One(e))
    <2>1. All(r) \subseteq S /\ One(e) \subseteq S
      BY DEF InParts, Part
    <2> QED BY <1>3, <1>5, <2>1, FS_Subset
  <1>9. (\A k \in K : p[k] \in Int) /\ p[e] = SumFunctionOnSet(f, One(e))
    <2>1. ASSUME NEW k \in K PROVE p[k] \in Int
      <3>1. One(k) \subseteq S /\ IsFiniteSet(One(k)) /\ p[k] = SumFunctionOnSet(f, One(k))
        <4>1. One(k) \subseteq S
          BY DEF Part
        <4> QED BY <4>1, FS_Subset
      <3>2. \A x \in One(k) : f[x] \in Int
        BY <3>1
      <3> HIDE DEF One
      <3> QED BY <3>1, <3>2, SumIsInteger
    <2> QED BY <1>5, <2>1
  <1>10. \A x \in All(r) \union One(e) : f[x] \in Int
    BY DEF InParts, Part
  <1> HIDE DEF r, All, One, B
  <1>11. SumFunctionOnSet(p, r \union {e}) = SumFunctionOnSet(p, r) + p[e]
    BY <1>5, <1>8, <1>9, SumWithElement
  <1>12. SumFunctionOnSet(f, All(r) \union One(e)) = SumFunctionOnSet(f, All(r))
           + SumFunctionOnSet(f, One(e))
    BY <1>7, <1>8, <1>10, SumSplits
  <1>13. SumFunctionOnSet(p, u) = SumFunctionOnSet(f, All(u))
    BY <1>5, <1>6, <1>7, <1>9, <1>11, <1>12
  <1> QED BY <1>2, <1>13 DEF B

LEMMA CountOfParts ==
  ASSUME NEW S, IsFiniteSet(S), NEW h, NEW K, IsFiniteSet(K),
         NEW p, \A k \in K : p[k] = Cardinality(Part(S, h, k))
  PROVE  SumFunctionOnSet(p, K) = Cardinality(InParts(S, h, K))
  <1> DEFINE f == [x \in S |-> 1]
             One(k) == Part(S, h, k)
             All == InParts(S, h, K)
  <1>1. \A x \in S : f[x] \in Int /\ f[x] = 1
    OBVIOUS
  <1> HIDE DEF f
  <1>2. ASSUME NEW T \in SUBSET S PROVE SumFunctionOnSet(f, T) = Cardinality(T)
    <2>1. IsFiniteSet(T) /\ \A x \in T : f[x] = 1
      BY <1>1, FS_Subset
    <2> QED BY <2>1, CountIsSum
  <1>3. \A k \in K : p[k] = SumFunctionOnSet(f, Part(S, h, k))
    <2>1. ASSUME NEW k \in K PROVE p[k] = SumFunctionOnSet(f, One(k))
      <3>1. One(k) \in SUBSET S /\ p[k] = Cardinality(One(k))
        BY DEF Part
      <3> HIDE DEF One
      <3> QED BY <1>2, <3>1
    <2> QED BY <2>1
  <1>4. SumFunctionOnSet(p, K) = SumFunctionOnSet(f, InParts(S, h, K))
    BY <1>1, <1>3, SumOfParts
  <1>5. All \in SUBSET S
    BY DEF InParts
  <1>6. SumFunctionOnSet(f, All) = Cardinality(All)
    <2> HIDE DEF All
    <2> QED BY <1>2, <1>5
  <1> QED BY <1>4, <1>6

\* What is not more than m each.
LEMMA SumIsAtMost ==
  ASSUME NEW f, NEW S, IsFiniteSet(S), NEW m \in Nat, \A x \in S : f[x] \in Nat /\ f[x] <= m
  PROVE  /\ SumFunctionOnSet(f, S) \in Nat
         /\ SumFunctionOnSet(f, S) <= Cardinality(S) * m
  <1>1. \A x \in S : f[x] \in 0 .. m
    OBVIOUS
  <1>2. SumFunctionOnSet(f, S) \in 0 .. m * Cardinality(S)
    BY <1>1, SumIsBounded
  <1>3. Cardinality(S) \in Nat
    BY FS_CardinalityType
  <1>4. ASSUME NEW c \in Nat PROVE m * c = c * m /\ m * c \in Nat
    OBVIOUS
  <1>5. m * Cardinality(S) = Cardinality(S) * m /\ m * Cardinality(S) \in Nat
    BY <1>3, <1>4
  <1> QED BY <1>2, <1>5

=============================================================================
