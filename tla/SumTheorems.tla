----------------------------- MODULE SumTheorems -----------------------------
(***************************************************************************)
(* Facts about SumOver, proved once and cited by name.                     *)
(***************************************************************************)
EXTENDS Sums, FiniteSetTheorems, TLAPS

\* The units of a finite set of keys are finite in number (every SUM of the code runs
\* over the rows of one table).
LEMMA UnitsFinite ==
  ASSUME NEW S, IsFiniteSet(S), NEW f, \A x \in S : f[x] \in Int
  PROVE  IsFiniteSet(Units(f, S))
<1> DEFINE T == {{x} \X (1 .. f[x]) : x \in S}
           g == [x \in S |-> {x} \X (1 .. f[x])]
<1>1. g \in Surjection(S, T)
  BY DEF Surjection
<1>2. IsFiniteSet(T)
  BY <1>1, FS_Surjection
<1>3. \A U \in T : IsFiniteSet(U)
  <2>1. TAKE U \in T
  <2>2. PICK x \in S : U = {x} \X (1 .. f[x])
    OBVIOUS
  <2>3. 1 \in Int /\ f[x] \in Int
    OBVIOUS
  <2>4. IsFiniteSet(1 .. f[x])
    BY ONLY <2>3, FS_Interval
  <2>5. IsFiniteSet({x})
    BY FS_Singleton
  <2>6. QED BY <2>2, <2>4, <2>5, FS_Product
<1>4. QED BY <1>2, <1>3, FS_UNION DEF Units

\* A sum of integers over finitely many keys is an integer.
LEMMA SumType ==
  ASSUME NEW S, IsFiniteSet(S), NEW f, \A x \in S : f[x] \in Int
  PROVE  SumOver(f, S) \in Int
<1> DEFINE m == [x \in S |-> -f[x]]
<1>1. IsFiniteSet(Units(f, S))
  BY UnitsFinite
<1>2. \A x \in S : m[x] \in Int
  OBVIOUS
<1>3. IsFiniteSet(Units(m, S))
  BY <1>2, UnitsFinite
<1>4. Cardinality(Units(f, S)) \in Nat /\ Cardinality(Units(m, S)) \in Nat
  BY <1>1, <1>3, FS_CardinalityType
<1>5. QED BY <1>4 DEF SumOver

\* The units of one more key.
LEMMA UnitsStep ==
  ASSUME NEW S, IsFiniteSet(S), NEW f, NEW e, e \notin S, \A x \in S \cup {e} : f[x] \in Int
  PROVE  /\ Cardinality(Units(f, S \cup {e}))
              = Cardinality(Units(f, S)) + (IF f[e] > 0 THEN f[e] ELSE 0)
         /\ Cardinality(Units(f, S)) \in Nat
<1> DEFINE E == {e} \X (1 .. f[e])
<1>1. IsFiniteSet(Units(f, S))
  BY UnitsFinite
<1>2. IsFiniteSet(1 .. f[e]) /\ Cardinality(1 .. f[e]) = (IF f[e] > 0 THEN f[e] ELSE 0)
  <2>1. 1 \in Int /\ f[e] \in Int
    OBVIOUS
  <2>2. /\ IsFiniteSet(1 .. f[e])
        /\ Cardinality(1 .. f[e]) = IF 1 > f[e] THEN 0 ELSE f[e] - 1 + 1
    BY ONLY <2>1, FS_Interval
  <2>3. QED BY <2>1, <2>2
<1>3. IsFiniteSet(E) /\ Cardinality(E) = (IF f[e] > 0 THEN f[e] ELSE 0)
  <2>1. IsFiniteSet({e}) /\ Cardinality({e}) = 1
    BY FS_Singleton
  <2>2. IsFiniteSet(E) /\ Cardinality(E) = Cardinality({e}) * Cardinality(1 .. f[e])
    BY <1>2, <2>1, FS_Product
  <2>3. f[e] \in Int
    OBVIOUS
  <2>4. QED
    <3> HIDE DEF E
    <3> QED BY <1>2, <2>1, <2>2, <2>3
<1>4. Units(f, S \cup {e}) = Units(f, S) \cup E
  BY DEF Units
<1>5. Units(f, S) \cap E = {}
  BY DEF Units
<1>6. Cardinality(Units(f, S) \cup E) = Cardinality(Units(f, S)) + Cardinality(E) - 0
  BY <1>1, <1>3, <1>5, FS_Union, FS_EmptySet
<1>7. Cardinality(Units(f, S)) \in Nat
  BY <1>1, FS_CardinalityType
<1>8. f[e] \in Int
  OBVIOUS
<1>9. QED
  <2> HIDE DEF E
  <2>1. Cardinality(Units(f, S \cup {e})) = Cardinality(Units(f, S)) + Cardinality(E) - 0
    BY <1>4, <1>6, Zenon
  <2>2. Cardinality(E) \in Int
    BY <1>3, <1>8
  <2>3. Cardinality(Units(f, S)) + Cardinality(E) - 0 = Cardinality(Units(f, S)) + Cardinality(E)
    BY <1>7, <2>2
  <2>4. Cardinality(Units(f, S \cup {e})) = Cardinality(Units(f, S)) + Cardinality(E)
    BY <2>1, <2>3, Zenon
  <2> QED BY <1>3, <1>7, <2>4, Zenon

\* One more key adds its value to the sum.
LEMMA SumStep ==
  ASSUME NEW S, IsFiniteSet(S), NEW f, NEW e, e \notin S, \A x \in S \cup {e} : f[x] \in Int
  PROVE  SumOver(f, S \cup {e}) = SumOver(f, S) + f[e]
<1> DEFINE m == [x \in S |-> -f[x]]
           n == [x \in S \cup {e} |-> -f[x]]
<1>1. Units(m, S) = Units(n, S)
  BY DEF Units
<1>2. \A x \in S \cup {e} : n[x] \in Int
  OBVIOUS
<1>3. Cardinality(Units(n, S \cup {e}))
        = Cardinality(Units(n, S)) + (IF n[e] > 0 THEN n[e] ELSE 0)
      /\ Cardinality(Units(n, S)) \in Nat
  <2> HIDE DEF n
  <2> QED BY <1>2, UnitsStep
<1>4. Cardinality(Units(f, S \cup {e}))
        = Cardinality(Units(f, S)) + (IF f[e] > 0 THEN f[e] ELSE 0)
      /\ Cardinality(Units(f, S)) \in Nat
  BY UnitsStep
<1>5. n[e] = -f[e]
  OBVIOUS
<1>6. SumOver(f, S \cup {e})
        = Cardinality(Units(f, S \cup {e})) - Cardinality(Units(n, S \cup {e}))
  BY DEF SumOver
<1>7. SumOver(f, S) = Cardinality(Units(f, S)) - Cardinality(Units(n, S))
  BY <1>1 DEF SumOver
<1>8. f[e] \in Int
  OBVIOUS
<1>9. QED
  <2> HIDE DEF n
  <2> QED BY <1>3, <1>4, <1>5, <1>6, <1>7, <1>8

\* A sum depends on the values of its keys only.
LEMMA SumSame ==
  ASSUME NEW S, NEW f, NEW g, \A x \in S : f[x] = g[x]
  PROVE  SumOver(f, S) = SumOver(g, S)
<1>1. Units(f, S) = Units(g, S)
  BY DEF Units
<1>2. [x \in S |-> -f[x]] = [x \in S |-> -g[x]]
  OBVIOUS
<1>3. QED BY <1>1, <1>2 DEF SumOver

\* Nothing adds up to nothing.
LEMMA SumNothing ==
  ASSUME NEW S, NEW f, \A x \in S : f[x] = 0
  PROVE  SumOver(f, S) = 0
<1>1. Units(f, S) = {} /\ Units([x \in S |-> -f[x]], S) = {}
  <2>1. \A x \in S : 1 .. f[x] = {} /\ 1 .. -f[x] = {}
    OBVIOUS
  <2>2. QED BY <2>1 DEF Units
<1>2. QED BY <1>1, FS_EmptySet DEF SumOver

\* A sum without one of its keys.
LEMMA SumSplits ==
  ASSUME NEW S, IsFiniteSet(S), NEW f, NEW x \in S, \A y \in S : f[y] \in Int
  PROVE  SumOver(f, S) = SumOver(f, S \ {x}) + f[x] /\ SumOver(f, S \ {x}) \in Int
<1> DEFINE T == S \ {x}
<1>1. IsFiniteSet(T) /\ x \notin T /\ S = T \cup {x}
  BY FS_Subset
<1>2. SumOver(f, T \cup {x}) = SumOver(f, T) + f[x]
  <2> HIDE DEF T
  <2>1. \A y \in T \cup {x} : f[y] \in Int
    BY <1>1
  <2>2. QED BY <1>1, <2>1, SumStep, Zenon
<1>3. SumOver(f, T) \in Int
  BY <1>1, SumType
<1>4. QED BY <1>1, <1>2, <1>3, Zenon

\* A sum in which the value of one key changes.
LEMMA SumReplaces ==
  ASSUME NEW S, IsFiniteSet(S), NEW f, NEW g, NEW x \in S,
         \A y \in S : f[y] \in Int /\ g[y] \in Int, \A y \in S : y # x => g[y] = f[y]
  PROVE  /\ SumOver(f, S) \in Int /\ SumOver(g, S) = SumOver(f, S) - f[x] + g[x]
<1>1. SumOver(f, S) = SumOver(f, S \ {x}) + f[x] /\ SumOver(f, S \ {x}) \in Int
  BY SumSplits
<1>2. SumOver(g, S) = SumOver(g, S \ {x}) + g[x]
  BY SumSplits
<1>3. SumOver(f, S \ {x}) = SumOver(g, S \ {x})
  <2>1. \A y \in S \ {x} : f[y] = g[y]
    OBVIOUS
  <2>2. QED BY <2>1, SumSame
<1>4. f[x] \in Int /\ g[x] \in Int
  OBVIOUS
<1>5. QED BY <1>1, <1>2, <1>3, <1>4

\* A sum of values that are not negative is not negative, and greater values have a greater sum.
LEMMA SumGrows ==
  ASSUME NEW S, IsFiniteSet(S), NEW f, NEW g, \A x \in S : f[x] \in Nat /\ g[x] \in Nat /\ f[x] <= g[x]
  PROVE  /\ SumOver(f, S) \in Nat /\ SumOver(g, S) \in Nat /\ SumOver(f, S) <= SumOver(g, S)
<1>1. Units([x \in S |-> -f[x]], S) = {} /\ Units([x \in S |-> -g[x]], S) = {}
  <2>1. \A x \in S : 1 .. -f[x] = {} /\ 1 .. -g[x] = {}
    OBVIOUS
  <2>2. QED BY <2>1 DEF Units
<1>2. SumOver(f, S) = Cardinality(Units(f, S)) - 0 /\ SumOver(g, S) = Cardinality(Units(g, S)) - 0
  BY <1>1, FS_EmptySet DEF SumOver
<1>3. Units(f, S) \subseteq Units(g, S)
  <2>1. \A x \in S : 1 .. f[x] \subseteq 1 .. g[x]
    OBVIOUS
  <2>2. QED BY <2>1 DEF Units
<1>4. IsFiniteSet(Units(f, S)) /\ IsFiniteSet(Units(g, S))
  BY UnitsFinite
<1>5. /\ Cardinality(Units(f, S)) \in Nat /\ Cardinality(Units(g, S)) \in Nat
      /\ Cardinality(Units(f, S)) <= Cardinality(Units(g, S))
  BY <1>3, <1>4, FS_Subset, FS_CardinalityType
<1>6. QED BY <1>2, <1>5

\* A sum of values that are not negative is at most their sum over more keys.
LEMMA SumWithin ==
  ASSUME NEW S, IsFiniteSet(S), NEW T, T \subseteq S, NEW f, \A x \in S : f[x] \in Nat
  PROVE  SumOver(f, T) <= SumOver(f, S)
<1>1. \A x \in S : 1 .. -f[x] = {}
  OBVIOUS
<1>2. Units([x \in S |-> -f[x]], S) = {} /\ Units([x \in T |-> -f[x]], T) = {}
  BY <1>1 DEF Units
<1>3. SumOver(f, S) = Cardinality(Units(f, S)) - 0 /\ SumOver(f, T) = Cardinality(Units(f, T)) - 0
  BY <1>2, FS_EmptySet DEF SumOver
<1>4. Units(f, T) \subseteq Units(f, S)
  BY DEF Units
<1>5. IsFiniteSet(Units(f, S))
  BY UnitsFinite
<1>6. /\ Cardinality(Units(f, S)) \in Nat /\ Cardinality(Units(f, T)) \in Nat
      /\ Cardinality(Units(f, T)) <= Cardinality(Units(f, S))
  BY <1>4, <1>5, FS_Subset, FS_CardinalityType
<1>7. QED BY <1>3, <1>6

\* Keys that are renamed, no two to the same, have as many units.
LEMMA UnitsRenamed ==
  ASSUME NEW S, IsFiniteSet(S), NEW f, NEW g, NEW h, NEW T, \A x \in S : f[x] \in Int,
         \A x, y \in S : h[x] = h[y] => x = y, T = {h[x] : x \in S}, \A x \in S : g[h[x]] = f[x]
  PROVE  Cardinality(Units(g, T)) = Cardinality(Units(f, S))
<1> DEFINE b == [u \in Units(f, S) |-> <<h[u[1]], u[2]>>]
<1>1. IsFiniteSet(Units(f, S))
  BY UnitsFinite
<1>2. \A u : u \in Units(f, S) <=> \E x \in S : \E i \in 1 .. f[x] : u = <<x, i>>
  BY DEF Units
<1>3. \A u : u \in Units(g, T) <=> \E x \in S : \E i \in 1 .. f[x] : u = <<h[x], i>>
  <2>1. \A u : u \in Units(g, T) <=> \E t \in T : \E i \in 1 .. g[t] : u = <<t, i>>
    BY DEF Units
  <2>2. QED BY <2>1
<1>4. b \in [Units(f, S) -> Units(g, T)]
  <2>1. ASSUME NEW u \in Units(f, S) PROVE <<h[u[1]], u[2]>> \in Units(g, T)
    <3>1. PICK x \in S : \E i \in 1 .. f[x] : u = <<x, i>>
      BY <1>2
    <3>2. PICK i \in 1 .. f[x] : u = <<x, i>>
      BY <3>1
    <3>3. u[1] = x /\ u[2] = i
      BY <3>2
    <3>4. QED BY <1>3, <3>3
  <2>2. QED BY <2>1
<1>5. \A u, v \in Units(f, S) : b[u] = b[v] => u = v
  <2>1. SUFFICES ASSUME NEW u \in Units(f, S), NEW v \in Units(f, S), b[u] = b[v] PROVE u = v
    OBVIOUS
  <2>2. PICK x \in S : \E i \in 1 .. f[x] : u = <<x, i>>
    BY <1>2
  <2>3. PICK y \in S : \E i \in 1 .. f[y] : v = <<y, i>>
    BY <1>2
  <2>4. h[x] = h[y] /\ u[2] = v[2]
    BY <2>1, <2>2, <2>3
  <2>5. QED BY <2>2, <2>3, <2>4
<1>6. \A w \in Units(g, T) : \E u \in Units(f, S) : b[u] = w
  <2>1. TAKE w \in Units(g, T)
  <2>2. PICK x \in S : \E i \in 1 .. f[x] : w = <<h[x], i>>
    BY <1>3
  <2>3. PICK i \in 1 .. f[x] : w = <<h[x], i>>
    BY <2>2
  <2>4. <<x, i>> \in Units(f, S)
    BY <1>2
  <2>5. b[<<x, i>>] = w
    BY <2>3, <2>4
  <2>6. QED BY <2>4, <2>5
<1>7. b \in Bijection(Units(f, S), Units(g, T))
  BY <1>4, <1>5, <1>6 DEF Bijection, Injection, Surjection, IsInjective
<1>8. QED BY <1>1, <1>7, FS_Bijection DEF ExistsBijection

\* A sum over keys that are renamed, no two to the same.
LEMMA SumRenamed ==
  ASSUME NEW S, IsFiniteSet(S), NEW f, NEW g, NEW h, NEW T, \A x \in S : f[x] \in Int,
         \A x, y \in S : h[x] = h[y] => x = y, T = {h[x] : x \in S}, \A x \in S : g[h[x]] = f[x]
  PROVE  SumOver(g, T) = SumOver(f, S)
<1> DEFINE m == [x \in S |-> -f[x]]
           n == [t \in T |-> -g[t]]
<1>1. Cardinality(Units(g, T)) = Cardinality(Units(f, S))
  BY UnitsRenamed
<1>2. Cardinality(Units(n, T)) = Cardinality(Units(m, S))
  <2>1. \A x \in S : m[x] \in Int /\ n[h[x]] = m[x]
    OBVIOUS
  <2> HIDE DEF m, n
  <2>2. QED BY <2>1, UnitsRenamed
<1>3. QED BY <1>1, <1>2 DEF SumOver

\* The cost of integer quantities at integer prices is an integer (cartSubtotal).
LEMMA AmountType ==
  ASSUME NEW V, IsFiniteSet(V), NEW q \in [V -> Int], NEW p \in [V -> Int]
  PROVE  Amount(q, p) \in Int
<1> DEFINE f == [v \in V |-> q[v] * p[v]]
<1>1. \A v \in V : f[v] \in Int
  OBVIOUS
<1>2. SumOver(f, V) \in Int
  <2> HIDE DEF f
  <2> QED BY <1>1, SumType
<1>3. QED BY <1>2 DEF Amount
=============================================================================
