-------------------------------- MODULE Sums --------------------------------
(***************************************************************************)
(* Lemmas about the sum of a function's values over a finite set, which the *)
(* proofs about CPU times and about calendars need.                         *)
(***************************************************************************)
EXTENDS Integers, FiniteSets, Functions, FiniteSetTheorems, WellFoundedInduction, TLAPS

\* A nonempty set of naturals has a least element.
LEMMA LeastNat ==
  ASSUME NEW T, T \subseteq Nat, T # {} PROVE \E n \in T : \A m \in T : n <= m
<1>1. PICK n \in T : \A m \in T : ~(<<m, n>> \in OpToRel(<, Nat))
  BY NatLessThanWellFounded, WFMin
<1>2. \A m \in T : ~(m < n)
  BY <1>1 DEF OpToRel
<1> QED BY <1>2

\* Of the subsets of a finite set that lack a property, one has it without any one element.
LEMMA SmallestSubset ==
  ASSUME NEW S, IsFiniteSet(S), NEW B, B \subseteq SUBSET S, B # {}
  PROVE  \E T \in B : IsFiniteSet(T) /\ \A x \in T : T \ {x} \notin B
<1> DEFINE N == {Cardinality(T) : T \in B}
<1>1. \A T \in B : IsFiniteSet(T) /\ Cardinality(T) \in Nat
  BY FS_Subset, FS_CardinalityType
<1>2. N \subseteq Nat /\ N # {}
  BY <1>1
<1>3. PICK n \in N : \A m \in N : n <= m
  <2> HIDE DEF N
  <2> QED BY <1>2, LeastNat
<1>4. PICK T \in B : n = Cardinality(T)
  OBVIOUS
<1>5. ASSUME NEW x \in T, T \ {x} \in B PROVE FALSE
  <2>1. Cardinality(T \ {x}) = Cardinality(T) - 1
    BY <1>1, FS_RemoveElement
  <2>2. n <= Cardinality(T \ {x})
    BY <1>3, <1>5
  <2> QED BY <1>1, <1>4, <2>1, <2>2
<1> QED BY <1>1, <1>5

-----------------------------------------------------------------------------
\* The recursion of the library's fold.
Chosen(s) == CHOOSE x \in s : TRUE
Adds(g, f, S) ==
  g = [s \in SUBSET S |-> IF s = {} THEN 0 ELSE f[Chosen(s)] + g[s \ {Chosen(s)}]]

LEMMA SumIs ==
  ASSUME NEW f, NEW S PROVE SumFunctionOnSet(f, S) = (CHOOSE g : Adds(g, f, S))[S]
BY DEF SumFunctionOnSet, FoldFunctionOnSet, MapThenFoldSet, Adds, Chosen

LEMMA FirstIn == ASSUME NEW s, s # {} PROVE Chosen(s) \in s
BY DEF Chosen

LEMMA AddsAt ==
  ASSUME NEW f, NEW S, NEW g, Adds(g, f, S), NEW s \in SUBSET S
  PROVE  g[s] = IF s = {} THEN 0 ELSE f[Chosen(s)] + g[s \ {Chosen(s)}]
BY DEF Adds

\* Two such functions agree where both are defined.
LEMMA AddsUnique ==
  ASSUME NEW f, NEW S, NEW Z, NEW g, NEW h, Adds(g, f, S), Adds(h, f, Z),
         NEW s, s \in SUBSET S, s \in SUBSET Z, IsFiniteSet(s)
  PROVE  g[s] = h[s]
<1> DEFINE B == {t \in SUBSET s : g[t] # h[t]}
<1> SUFFICES ASSUME B # {} PROVE FALSE
  OBVIOUS
<1>1. PICK t \in B : \A x \in t : t \ {x} \notin B
  <2>1. B \subseteq SUBSET s
    OBVIOUS
  <2> HIDE DEF B
  <2> QED BY <2>1, SmallestSubset
<1>2. t \in SUBSET s /\ g[t] # h[t] /\ t \in SUBSET S /\ t \in SUBSET Z
  OBVIOUS
<1>3. /\ g[t] = IF t = {} THEN 0 ELSE f[Chosen(t)] + g[t \ {Chosen(t)}]
      /\ h[t] = IF t = {} THEN 0 ELSE f[Chosen(t)] + h[t \ {Chosen(t)}]
  <2> HIDE DEF B
  <2>1. Adds(g, f, S) /\ t \in SUBSET S
    BY <1>2
  <2>2. g[t] = IF t = {} THEN 0 ELSE f[Chosen(t)] + g[t \ {Chosen(t)}]
    BY <2>1 DEF Adds
  <2>3. Adds(h, f, Z) /\ t \in SUBSET Z
    BY <1>2
  <2>4. h[t] = IF t = {} THEN 0 ELSE f[Chosen(t)] + h[t \ {Chosen(t)}]
    BY <2>3 DEF Adds
  <2> QED BY <2>2, <2>4
<1>4. t # {}
  BY <1>2, <1>3
<1>5. t \ {Chosen(t)} \notin B
  BY <1>1, <1>4, FirstIn
<1>6. g[t \ {Chosen(t)}] = h[t \ {Chosen(t)}]
  BY <1>2, <1>5
<1> QED BY <1>2, <1>3, <1>4, <1>6

LEMMA AddsExists ==
  ASSUME NEW f, NEW S, IsFiniteSet(S)
  PROVE  \E g : Adds(g, f, S)
<1> DEFINE B == {t \in SUBSET S : ~\E g : Adds(g, f, t)}
<1> SUFFICES ASSUME B # {} PROVE FALSE
  OBVIOUS
<1>1. PICK t \in B : IsFiniteSet(t) /\ \A x \in t : t \ {x} \notin B
  <2>1. B \subseteq SUBSET S
    OBVIOUS
  <2> HIDE DEF B
  <2> QED BY <2>1, SmallestSubset
<1>2. t \in SUBSET S /\ \A g : ~Adds(g, f, t)
  OBVIOUS
<1> DEFINE Of(u) == SumFunctionOnSet(f, u)
           h == [s \in SUBSET t |-> IF s = {} THEN 0 ELSE f[Chosen(s)] + Of(s \ {Chosen(s)})]
<1>3. ASSUME NEW s \in SUBSET t, s # t PROVE \E g : Adds(g, f, s)
  <2>1. PICK x \in t : x \notin s
    BY <1>3
  <2>2. PICK g : Adds(g, f, t \ {x})
    BY <1>1, <1>2
  <2> DEFINE r == [u \in SUBSET s |-> g[u]]
  <2>3. ASSUME NEW u \in SUBSET s
        PROVE  r[u] = IF u = {} THEN 0 ELSE f[Chosen(u)] + r[u \ {Chosen(u)}]
    <3>1. u \in SUBSET (t \ {x})
      BY <2>1
    <3>2. g[u] = IF u = {} THEN 0 ELSE f[Chosen(u)] + g[u \ {Chosen(u)}]
      BY <2>2, <3>1 DEF Adds
    <3> QED BY <3>2
  <2>4. Adds(r, f, s)
    <3>1. r = [u \in SUBSET s |-> r[u]]
      OBVIOUS
    <3> HIDE DEF r
    <3> QED BY <2>3, <3>1 DEF Adds
  <2> QED BY <2>4
<1>4. ASSUME NEW s \in SUBSET t, s # t PROVE h[s] = Of(s)
  <2> DEFINE g == CHOOSE g : Adds(g, f, s)
             w == s \ {Chosen(s)}
             k == CHOOSE k : Adds(k, f, w)
  <2>1. Adds(g, f, s) /\ Of(s) = g[s]
    BY <1>3, <1>4, SumIs
  <2>2. CASE s = {}
    <3>1. g[s] = 0
      <4> HIDE DEF g
      <4> QED BY <2>1, <2>2, AddsAt
    <3> QED BY <2>1, <2>2, <3>1
  <2>3. CASE s # {}
    <3>1. w \in SUBSET t /\ w # t /\ w \in SUBSET s /\ IsFiniteSet(w)
      BY <1>1, <1>4, FS_Subset
    <3>2. Adds(k, f, w) /\ Of(w) = k[w]
      BY <1>3, <3>1, SumIs
    <3>3. g[w] = k[w]
      <4> HIDE DEF g, k, w
      <4> QED BY <2>1, <3>1, <3>2, AddsUnique
    <3>4. g[s] = f[Chosen(s)] + g[w]
      <4> HIDE DEF g
      <4> QED BY <2>1, <2>3, AddsAt
    <3>5. h[s] = f[Chosen(s)] + Of(w)
      BY <2>3
    <3> QED BY <2>1, <3>2, <3>3, <3>4, <3>5
  <2> QED BY <2>2, <2>3
<1>5. ASSUME NEW s \in SUBSET t
      PROVE  h[s] = IF s = {} THEN 0 ELSE f[Chosen(s)] + h[s \ {Chosen(s)}]
  <2>1. s # {} => s \ {Chosen(s)} \in SUBSET t /\ s \ {Chosen(s)} # t
    BY FirstIn
  <2>2. s # {} => h[s \ {Chosen(s)}] = Of(s \ {Chosen(s)})
    BY <1>4, <2>1
  <2> QED BY <2>2
<1>6. Adds(h, f, t)
  <2>1. h = [u \in SUBSET t |-> h[u]]
    OBVIOUS
  <2> HIDE DEF h
  <2> QED BY <1>5, <2>1 DEF Adds
<1> QED BY <1>2, <1>6

LEMMA SumFirst ==
  ASSUME NEW f, NEW S, IsFiniteSet(S)
  PROVE  SumFunctionOnSet(f, S) =
           IF S = {} THEN 0 ELSE f[Chosen(S)] + SumFunctionOnSet(f, S \ {Chosen(S)})
<1> DEFINE w == S \ {Chosen(S)}
           g == CHOOSE g : Adds(g, f, S)
           k == CHOOSE k : Adds(k, f, w)
<1>1. IsFiniteSet(w) /\ w \in SUBSET S
  BY FS_Subset
<1>2. Adds(g, f, S) /\ SumFunctionOnSet(f, S) = g[S]
  BY AddsExists, SumIs
<1>3. Adds(k, f, w) /\ SumFunctionOnSet(f, w) = k[w]
  BY <1>1, AddsExists, SumIs
<1>4. g[w] = k[w]
  <2> HIDE DEF g, k, w
  <2> QED BY <1>1, <1>2, <1>3, AddsUnique
<1>5. g[S] = IF S = {} THEN 0 ELSE f[Chosen(S)] + g[w]
  <2> HIDE DEF g
  <2> QED BY <1>2, AddsAt
<1> HIDE DEF g, k
<1> QED BY <1>2, <1>3, <1>4, <1>5

LEMMA SumEmpty == ASSUME NEW f PROVE SumFunctionOnSet(f, {}) = 0
BY SumFirst, FS_EmptySet

\* The sum of integers is one.
LEMMA SumInt ==
  ASSUME NEW f, NEW S, IsFiniteSet(S), \A x \in S : f[x] \in Int
  PROVE  SumFunctionOnSet(f, S) \in Int
<1> DEFINE B == {t \in SUBSET S : SumFunctionOnSet(f, t) \notin Int}
<1> SUFFICES ASSUME B # {} PROVE FALSE
  OBVIOUS
<1>1. PICK t \in B : IsFiniteSet(t) /\ \A x \in t : t \ {x} \notin B
  <2>1. B \subseteq SUBSET S
    OBVIOUS
  <2> HIDE DEF B
  <2> QED BY <2>1, SmallestSubset
<1>2. SumFunctionOnSet(f, t) = IF t = {} THEN 0 ELSE f[Chosen(t)] + SumFunctionOnSet(f, t \ {Chosen(t)})
  BY <1>1, SumFirst
<1>3. t # {} /\ Chosen(t) \in t
  BY <1>2, FirstIn
<1> QED BY <1>1, <1>2, <1>3

\* Any element may be taken out.
LEMMA SumOut ==
  ASSUME NEW f, NEW S, IsFiniteSet(S), \A x \in S : f[x] \in Int, NEW y \in S
  PROVE  SumFunctionOnSet(f, S) = f[y] + SumFunctionOnSet(f, S \ {y})
<1> DEFINE Of(t) == SumFunctionOnSet(f, t)
           B == {t \in SUBSET S : \E x \in t : Of(t) # f[x] + Of(t \ {x})}
<1> SUFFICES ASSUME B # {} PROVE FALSE
  OBVIOUS
<1>1. PICK t \in B : IsFiniteSet(t) /\ \A x \in t : t \ {x} \notin B
  <2>1. B \subseteq SUBSET S
    OBVIOUS
  <2> HIDE DEF B
  <2> QED BY <2>1, SmallestSubset
<1>2. PICK x \in t : Of(t) # f[x] + Of(t \ {x})
  OBVIOUS
<1> DEFINE c == Chosen(t)
           u == t \ {c}
           v == t \ {x}
           w == t \ {x, c}
<1>3. c \in t /\ Of(t) = f[c] + Of(u)
  BY <1>1, SumFirst, FirstIn
<1>4. x # c
  BY <1>2, <1>3
<1>5. u \notin B /\ v \notin B /\ u \in SUBSET S /\ v \in SUBSET S /\ w \in SUBSET S
  BY <1>1, <1>3
<1>6. x \in u /\ c \in v /\ u \ {x} = w /\ v \ {c} = w
  BY <1>3, <1>4
<1>7. Of(u) = f[x] + Of(w)
  BY <1>5, <1>6
<1>8. Of(v) = f[c] + Of(w)
  BY <1>5, <1>6
<1>9. f[x] \in Int /\ f[c] \in Int /\ Of(w) \in Int
  BY <1>3, <1>5, SumInt, FS_Subset
<1> HIDE DEF c, u, v, w, Of
<1>10. f[c] + (f[x] + Of(w)) = f[x] + (f[c] + Of(w))
  BY <1>9
<1> QED BY <1>2, <1>3, <1>7, <1>8, <1>10 DEF v

\* Sums with the same summands are the same.
LEMMA SumSame ==
  ASSUME NEW f, NEW g, NEW S, IsFiniteSet(S), \A x \in S : f[x] = g[x]
  PROVE  SumFunctionOnSet(f, S) = SumFunctionOnSet(g, S)
<1> DEFINE B == {t \in SUBSET S : SumFunctionOnSet(f, t) # SumFunctionOnSet(g, t)}
<1> SUFFICES ASSUME B # {} PROVE FALSE
  OBVIOUS
<1>1. PICK t \in B : IsFiniteSet(t) /\ \A x \in t : t \ {x} \notin B
  <2>1. B \subseteq SUBSET S
    OBVIOUS
  <2> HIDE DEF B
  <2> QED BY <2>1, SmallestSubset
<1>2. /\ SumFunctionOnSet(f, t) = IF t = {} THEN 0 ELSE f[Chosen(t)] + SumFunctionOnSet(f, t \ {Chosen(t)})
      /\ SumFunctionOnSet(g, t) = IF t = {} THEN 0 ELSE g[Chosen(t)] + SumFunctionOnSet(g, t \ {Chosen(t)})
  BY <1>1, SumFirst
<1>3. t # {} /\ Chosen(t) \in t
  BY <1>2, FirstIn
<1>4. SumFunctionOnSet(f, t \ {Chosen(t)}) = SumFunctionOnSet(g, t \ {Chosen(t)})
  BY <1>1, <1>3
<1> QED BY <1>2, <1>3, <1>4

\* The sum of differences is the difference of the sums.
LEMMA SumMinus ==
  ASSUME NEW f, NEW g, NEW h, NEW S, IsFiniteSet(S),
         \A x \in S : f[x] \in Int /\ g[x] \in Int /\ h[x] = f[x] - g[x]
  PROVE  SumFunctionOnSet(h, S) = SumFunctionOnSet(f, S) - SumFunctionOnSet(g, S)
<1> DEFINE D(t) == SumFunctionOnSet(f, t) - SumFunctionOnSet(g, t)
           B == {t \in SUBSET S : SumFunctionOnSet(h, t) # D(t)}
<1> SUFFICES ASSUME B # {} PROVE FALSE
  OBVIOUS
<1>1. PICK t \in B : IsFiniteSet(t) /\ \A x \in t : t \ {x} \notin B
  <2>1. B \subseteq SUBSET S
    OBVIOUS
  <2> HIDE DEF B
  <2> QED BY <2>1, SmallestSubset
<1>2. CASE t = {}
  BY <1>2, SumEmpty
<1>3. CASE t # {}
  <2> DEFINE x == Chosen(t)
             u == t \ {x}
  <2>1. x \in t
    BY <1>3, FirstIn
  <2>2. /\ SumFunctionOnSet(f, t) = f[x] + SumFunctionOnSet(f, u)
        /\ SumFunctionOnSet(g, t) = g[x] + SumFunctionOnSet(g, u)
        /\ SumFunctionOnSet(h, t) = h[x] + SumFunctionOnSet(h, u)
    BY <1>1, <1>3, SumFirst
  <2>3. SumFunctionOnSet(h, u) = D(u)
    BY <1>1, <2>1
  <2>4. IsFiniteSet(u) /\ SumFunctionOnSet(f, u) \in Int /\ SumFunctionOnSet(g, u) \in Int
    BY <1>1, FS_Subset, SumInt
  <2>5. f[x] \in Int /\ g[x] \in Int /\ h[x] = f[x] - g[x]
    BY <2>1
  <2>6. SumFunctionOnSet(h, t) # D(t)
    OBVIOUS
  <2> HIDE DEF x, u
  <2> QED BY <2>2, <2>3, <2>4, <2>5, <2>6
<1> QED BY <1>2, <1>3

\* Summands that are 0 do not count.
LEMMA SumZero ==
  ASSUME NEW f, NEW S, NEW Z, Z \subseteq S, IsFiniteSet(S),
         \A x \in S : f[x] \in Int, \A x \in S \ Z : f[x] = 0
  PROVE  SumFunctionOnSet(f, S) = SumFunctionOnSet(f, Z)
<1> DEFINE B == {t \in SUBSET S : SumFunctionOnSet(f, t) # SumFunctionOnSet(f, t \intersect Z)}
<1> SUFFICES ASSUME B # {} PROVE FALSE
  <2>1. S \notin B /\ S \intersect Z = Z
    OBVIOUS
  <2> QED BY <2>1
<1>1. PICK t \in B : IsFiniteSet(t) /\ \A x \in t : t \ {x} \notin B
  <2>1. B \subseteq SUBSET S
    OBVIOUS
  <2> HIDE DEF B
  <2> QED BY <2>1, SmallestSubset
<1>2. t # {}
  OBVIOUS
<1>3. PICK x \in t : TRUE
  BY <1>2
<1>4. IsFiniteSet(t \intersect Z) /\ IsFiniteSet(t \ {x})
  BY <1>1, FS_Subset
<1>5. SumFunctionOnSet(f, t) = f[x] + SumFunctionOnSet(f, t \ {x})
  BY <1>1, SumOut
<1>6. SumFunctionOnSet(f, t \ {x}) = SumFunctionOnSet(f, (t \ {x}) \intersect Z)
  BY <1>1
<1>7. CASE x \in Z
  <2>1. SumFunctionOnSet(f, t \intersect Z) = f[x] + SumFunctionOnSet(f, (t \intersect Z) \ {x})
    BY <1>4, <1>7, SumOut
  <2>2. (t \intersect Z) \ {x} = (t \ {x}) \intersect Z
    OBVIOUS
  <2> QED BY <1>5, <1>6, <2>1, <2>2
<1>8. CASE x \notin Z
  <2>1. (t \ {x}) \intersect Z = t \intersect Z /\ f[x] = 0
    BY <1>8
  <2>2. SumFunctionOnSet(f, t \ {x}) \in Int
    <3>1. \A y \in t \ {x} : f[y] \in Int
      OBVIOUS
    <3> QED BY <1>4, <3>1, SumInt
  <2>3. SumFunctionOnSet(f, t) = SumFunctionOnSet(f, t \ {x})
    BY <1>5, <2>1, <2>2
  <2>4. SumFunctionOnSet(f, t) # SumFunctionOnSet(f, t \intersect Z)
    OBVIOUS
  <2> QED BY <1>6, <2>1, <2>3, <2>4
<1> QED BY <1>7, <1>8

\* The same summand everywhere.
LEMMA SumConstant ==
  ASSUME NEW f, NEW k \in Int, NEW S, IsFiniteSet(S), \A x \in S : f[x] = k
  PROVE  SumFunctionOnSet(f, S) = Cardinality(S) * k
<1> DEFINE B == {t \in SUBSET S : SumFunctionOnSet(f, t) # Cardinality(t) * k}
<1> SUFFICES ASSUME B # {} PROVE FALSE
  OBVIOUS
<1>1. PICK t \in B : IsFiniteSet(t) /\ \A x \in t : t \ {x} \notin B
  <2>1. B \subseteq SUBSET S
    OBVIOUS
  <2> HIDE DEF B
  <2> QED BY <2>1, SmallestSubset
<1>2. CASE t = {}
  BY <1>2, SumEmpty, FS_EmptySet
<1>3. CASE t # {}
  <2> DEFINE x == Chosen(t)
             n == Cardinality(t)
  <2>1. x \in t
    BY <1>3, FirstIn
  <2>2. SumFunctionOnSet(f, t) = k + SumFunctionOnSet(f, t \ {x})
    BY <1>1, <1>3, <2>1, SumFirst
  <2>3. n \in Nat /\ Cardinality(t \ {x}) = n - 1
    BY <1>1, <2>1, FS_RemoveElement, FS_CardinalityType
  <2>4. SumFunctionOnSet(f, t \ {x}) = (n - 1) * k
    BY <1>1, <2>1, <2>3
  <2>5. SumFunctionOnSet(f, t) # n * k
    OBVIOUS
  <2> HIDE DEF n, x
  <2>6. k + (n - 1) * k = n * k
    BY <2>3
  <2> QED BY <2>2, <2>4, <2>5, <2>6
<1> QED BY <1>2, <1>3

\* A sum of naturals is one.
LEMMA SumNat ==
  ASSUME NEW f, NEW S, IsFiniteSet(S), \A x \in S : f[x] \in Nat
  PROVE  SumFunctionOnSet(f, S) \in Nat
<1> DEFINE B == {t \in SUBSET S : SumFunctionOnSet(f, t) \notin Nat}
<1> SUFFICES ASSUME B # {} PROVE FALSE
  OBVIOUS
<1>1. PICK t \in B : IsFiniteSet(t) /\ \A x \in t : t \ {x} \notin B
  <2>1. B \subseteq SUBSET S
    OBVIOUS
  <2> HIDE DEF B
  <2> QED BY <2>1, SmallestSubset
<1>2. SumFunctionOnSet(f, t) = IF t = {} THEN 0 ELSE f[Chosen(t)] + SumFunctionOnSet(f, t \ {Chosen(t)})
  BY <1>1, SumFirst
<1>3. t # {} /\ Chosen(t) \in t
  BY <1>2, FirstIn
<1> QED BY <1>1, <1>2, <1>3
=============================================================================
