-------------------------------- MODULE Sums --------------------------------
(***************************************************************************)
(* What the folds of the community modules yield when they add numbers up: *)
(* the size of a set with so many elements for each number. Sets can be    *)
(* reasoned about where a sum would need an induction every time.          *)
(***************************************************************************)
EXTENDS Integers, SequencesExt, FiniteSetTheorems, WellFoundedInduction, TLAPS

\* The units of all w[x], x in S, and how many they are.
Units(w, S)  == {z \in S \X Nat : z[2] < w[z[1]]}
Weight(w, S) == Cardinality(Units(w, S))

-----------------------------------------------------------------------------
(* Weights.                                                                *)

\* Sets of naturals have a least element, which is all the induction needed.
LEMMA LeastNumber ==
    ASSUME NEW T \in SUBSET Nat, T # {}
    PROVE  \E x \in T : \A y \in T : x <= y
  <1>1. PICK x \in T : \A y \in T : ~(<<y, x>> \in OpToRel(<, Nat))
    BY NatLessThanWellFounded, WFMin
  <1>2. \A y \in T : x <= y
    <2> TAKE y \in T
    <2>1. ~(y < x)
      BY <1>1 DEF OpToRel
    <2> QED
      BY <2>1
  <1> QED
    BY <1>2

\* The units of one element.
LEMMA UnitsOfOne ==
    ASSUME NEW x, NEW w, w[x] \in Nat
    PROVE  /\ IsFiniteSet(Units(w, {x}))
           /\ Cardinality(Units(w, {x})) = w[x]
  <1> DEFINE n == w[x]
  <1> DEFINE U == Units(w, {x})
  <1>1. IsFiniteSet(0..(n - 1)) /\ Cardinality(0..(n - 1)) = n
    <2>1. 0 \in Int /\ n - 1 \in Int /\ n \in Nat
      OBVIOUS
    <2> HIDE DEF n
    <2>2. IsFiniteSet(0..(n - 1)) /\ Cardinality(0..(n - 1)) = IF 0 > n - 1 THEN 0 ELSE (n - 1) - 0 + 1
      BY <2>1, FS_Interval
    <2> QED
      BY <2>1, <2>2
  <1> DEFINE f == [i \in 0..(n - 1) |-> <<x, i>>]
  <1>2. f \in [0..(n - 1) -> U]
    BY DEF Units
  <1>3. f \in Surjection(0..(n - 1), U)
    <2>1. ASSUME NEW z \in U PROVE \E i \in 0..(n - 1) : f[i] = z
      <3>1. z[1] = x /\ z[2] \in Nat /\ z[2] < n /\ z = <<z[1], z[2]>>
        BY DEF Units
      <3>2. z[2] \in 0..(n - 1) /\ f[z[2]] = z
        BY <3>1
      <3> QED
        BY <3>2
    <2> QED
      BY <1>2, <2>1 DEF Surjection
  <1>4. f \in Injection(0..(n - 1), U)
    <2>1. \A i, j \in 0..(n - 1) : f[i] = f[j] => i = j
      OBVIOUS
    <2> QED
      BY <1>2, <2>1 DEF Injection, IsInjective
  <1>5. IsFiniteSet(U) /\ Cardinality(U) = Cardinality(0..(n - 1))
    <2> HIDE DEF U, f
    <2> QED
      BY <1>1, <1>3, <1>4, FS_Surjection
  <1> QED
    BY <1>1, <1>5

LEMMA WeightEmpty == ASSUME NEW w PROVE IsFiniteSet(Units(w, {})) /\ Weight(w, {}) = 0
  <1>1. Units(w, {}) = {}
    BY DEF Units
  <1> QED
    BY <1>1, FS_EmptySet DEF Weight

\* One more element.
LEMMA WeightAdd ==
    ASSUME NEW S, NEW w, IsFiniteSet(Units(w, S)), NEW x, x \notin S, w[x] \in Nat
    PROVE  /\ IsFiniteSet(Units(w, S \union {x}))
           /\ Weight(w, S \union {x}) = Weight(w, S) + w[x]
  <1>1. Units(w, S \union {x}) = Units(w, S) \union Units(w, {x})
    BY DEF Units
  <1>2. Units(w, S) \intersect Units(w, {x}) = {}
    BY DEF Units
  <1>3. IsFiniteSet(Units(w, {x})) /\ Cardinality(Units(w, {x})) = w[x]
    BY UnitsOfOne
  <1>4. IsFiniteSet(Units(w, S) \union Units(w, {x}))
    BY <1>3, FS_Union
  <1>5. Cardinality(Units(w, S) \union Units(w, {x}))
          = Cardinality(Units(w, S)) + Cardinality(Units(w, {x}))
    <2>1. Cardinality(Units(w, S)) \in Nat /\ Cardinality({}) = 0
      BY FS_CardinalityType, FS_EmptySet
    <2>2. Cardinality(Units(w, S) \union Units(w, {x}))
            = Cardinality(Units(w, S)) + Cardinality(Units(w, {x}))
                - Cardinality(Units(w, S) \intersect Units(w, {x}))
      BY <1>3, FS_Union
    <2>3. Cardinality(Units(w, S) \intersect Units(w, {x})) = 0
      BY <1>2, <2>1
    <2> QED
      BY <1>3, <2>1, <2>2, <2>3
  <1> QED
    BY <1>1, <1>3, <1>4, <1>5 DEF Weight

\* Only the numbers matter.
LEMMA WeightSame ==
    ASSUME NEW S, NEW w, NEW v, \A x \in S : w[x] = v[x]
    PROVE  Units(w, S) = Units(v, S) /\ Weight(w, S) = Weight(v, S)
  <1>1. Units(w, S) = Units(v, S)
    BY DEF Units
  <1> QED
    BY <1>1 DEF Weight

\* Less of less weighs less.
LEMMA WeightLess ==
    ASSUME NEW S, NEW T \in SUBSET S, NEW w, NEW v, IsFiniteSet(Units(w, S)),
           \A x \in T : w[x] \in Nat /\ v[x] \in Nat /\ v[x] <= w[x]
    PROVE  /\ IsFiniteSet(Units(v, T))
           /\ Weight(v, T) <= Weight(w, S)
  <1>1. Units(v, T) \subseteq Units(w, S)
    BY DEF Units
  <1> QED
    BY <1>1, FS_Subset DEF Weight

\* A finite set of numbers weighs a number.
LEMMA WeightNat ==
    ASSUME NEW S, IsFiniteSet(S), NEW w, \A x \in S : w[x] \in Nat
    PROVE  IsFiniteSet(Units(w, S)) /\ Weight(w, S) \in Nat
  <1> DEFINE Bad == {n \in Nat : \E T \in SUBSET S : Cardinality(T) = n /\ ~IsFiniteSet(Units(w, T))}
  <1>1. ASSUME NEW n \in Bad, \A y \in Bad : n <= y PROVE FALSE
    <2>1. PICK T \in SUBSET S : Cardinality(T) = n /\ ~IsFiniteSet(Units(w, T))
      BY <1>1
    <2>2. T # {}
      BY <2>1, WeightEmpty
    <2>3. PICK x \in T : TRUE
      BY <2>2
    <2>4. IsFiniteSet(T) /\ Cardinality(T) \in Nat
      BY <2>1, FS_Subset, FS_CardinalityType
    <2>5. Cardinality(T \ {x}) = n - 1 /\ n - 1 \in Nat
      <3>1. Cardinality(T \ {x}) = Cardinality(T) - 1
        BY <2>3, <2>4, FS_RemoveElement
      <3>2. Cardinality(T \ {x}) \in Nat
        BY <2>4, FS_RemoveElement, FS_CardinalityType
      <3> QED
        BY <2>1, <3>1, <3>2
    <2>6. n - 1 \notin Bad
      BY <1>1, <2>5
    <2>7. IsFiniteSet(Units(w, T \ {x}))
      BY <2>5, <2>6
    <2>8. T = (T \ {x}) \union {x}
      BY <2>3
    <2>9. IsFiniteSet(Units(w, (T \ {x}) \union {x}))
      BY <2>3, <2>7, WeightAdd
    <2> QED
      BY <2>1, <2>8, <2>9
  <1>2. Bad = {}
    <2> HIDE DEF Bad
    <2>1. Bad \subseteq Nat
      BY DEF Bad
    <2> QED
      BY <1>1, <2>1, LeastNumber
  <1>3. Cardinality(S) \in Nat
    BY FS_CardinalityType
  <1>4. IsFiniteSet(Units(w, S))
    BY <1>2, <1>3
  <1> QED
    BY <1>4, FS_CardinalityType DEF Weight

\* One weight changes, and the others together are what they were.
LEMMA WeightMoves ==
    ASSUME NEW S, IsFiniteSet(S), NEW r \in S, NEW w, NEW v, \A x \in S : w[x] \in Nat /\ v[x] \in Nat,
           \A x \in S \ {r} : v[x] = w[x]
    PROVE  \E c \in Nat : Weight(w, S) = c + w[r] /\ Weight(v, S) = c + v[r]
  <1> DEFINE R == S \ {r}
  <1>1. IsFiniteSet(R) /\ S = R \union {r} /\ r \notin R
    BY FS_RemoveElement
  <1>2. \A x \in R : w[x] \in Nat /\ v[x] = w[x]
    OBVIOUS
  <1> HIDE DEF R
  <1>3. IsFiniteSet(Units(w, R)) /\ Weight(w, R) \in Nat
    BY <1>1, <1>2, WeightNat
  <1>4. IsFiniteSet(Units(v, R)) /\ Weight(v, R) = Weight(w, R)
    BY <1>2, <1>3, WeightSame
  <1>5. Weight(w, R \union {r}) = Weight(w, R) + w[r] /\ Weight(v, R \union {r}) = Weight(v, R) + v[r]
    BY <1>1, <1>3, <1>4, WeightAdd
  <1> QED
    BY <1>1, <1>3, <1>4, <1>5

-----------------------------------------------------------------------------
(* Folds.                                                                  *)

\* A function that adds the elements of its argument up, one by one.
AddsUp(h, w, c, D) ==
    /\ h[{}] = 0
    /\ \A u \in SUBSET D : u # {} =>
          \/ h[u] = w[c[u]] + h[u \ {c[u]}]
          \/ h[u] = h[u \ {c[u]}] + w[c[u]]

LEMMA AddsUpUnique ==
    ASSUME NEW D, IsFiniteSet(D), NEW w, \A x \in D : w[x] \in Nat,
           NEW c, \A u \in SUBSET D : u # {} => c[u] \in u,
           NEW h, AddsUp(h, w, c, D)
    PROVE  h[D] = Weight(w, D)
  <1> DEFINE Bad == {n \in Nat : \E u \in SUBSET D : Cardinality(u) = n /\ h[u] # Weight(w, u)}
  <1>1. ASSUME NEW n \in Bad, \A y \in Bad : n <= y PROVE FALSE
    <2>1. PICK u \in SUBSET D : Cardinality(u) = n /\ h[u] # Weight(w, u)
      BY <1>1
    <2>2. u # {}
      BY <2>1, WeightEmpty DEF AddsUp
    <2> DEFINE x == c[u]
               v == u \ {x}
    <2>3. x \in u /\ v \in SUBSET D /\ x \notin v /\ u = v \union {x} /\ w[x] \in Nat
      BY <2>2
    <2>4. IsFiniteSet(u)
      BY FS_Subset
    <2>5. Cardinality(v) = n - 1 /\ n - 1 \in Nat /\ IsFiniteSet(v)
      <3> HIDE DEF x
      <3>1. IsFiniteSet(v) /\ Cardinality(v) = Cardinality(u) - 1
        BY <2>3, <2>4, FS_RemoveElement
      <3>2. Cardinality(v) \in Nat
        BY <3>1, FS_CardinalityType
      <3> QED
        BY <2>1, <3>1, <3>2
    <2>6. n - 1 \notin Bad
      BY <1>1, <2>5
    <2>7. h[v] = Weight(w, v)
      BY <2>3, <2>5, <2>6
    <2>8. h[u] = w[x] + h[v] \/ h[u] = h[v] + w[x]
      BY <2>2 DEF AddsUp
    <2> HIDE DEF x, v
    <2>9. IsFiniteSet(Units(w, v)) /\ Weight(w, v) \in Nat
      BY <2>3, <2>5, WeightNat
    <2>10. Weight(w, u) = Weight(w, v) + w[x]
      BY <2>3, <2>9, WeightAdd
    <2> QED
      BY <2>1, <2>3, <2>7, <2>8, <2>9, <2>10
  <1>2. Bad = {}
    <2> HIDE DEF Bad
    <2>1. Bad \subseteq Nat
      BY DEF Bad
    <2> QED
      BY <1>1, <2>1, LeastNumber
  <1>3. Cardinality(D) \in Nat
    BY FS_CardinalityType
  <1> QED
    BY <1>2, <1>3

\* There is such a function.
LEMMA AddsUpExists ==
    ASSUME NEW D, IsFiniteSet(D), NEW w, \A x \in D : w[x] \in Nat,
           NEW c, \A u \in SUBSET D : u # {} => c[u] \in u
    PROVE  AddsUp([u \in SUBSET D |-> Weight(w, u)], w, c, D)
  <1> DEFINE h == [u \in SUBSET D |-> Weight(w, u)]
  <1>1. h[{}] = 0
    BY WeightEmpty
  <1>2. ASSUME NEW u \in SUBSET D, u # {}
        PROVE  h[u] = w[c[u]] + h[u \ {c[u]}]
    <2> DEFINE x == c[u]
               v == u \ {x}
    <2>1. x \in u /\ v \in SUBSET D /\ x \notin v /\ u = v \union {x} /\ w[x] \in Nat
      BY <1>2
    <2>2. IsFiniteSet(v)
      BY <2>1, FS_Subset
    <2>3. h[u] = Weight(w, u) /\ h[v] = Weight(w, v)
      BY <2>1
    <2> HIDE DEF x, v, h
    <2>4. IsFiniteSet(Units(w, v)) /\ Weight(w, v) \in Nat
      BY <2>1, <2>2, WeightNat
    <2>5. Weight(w, u) = Weight(w, v) + w[x]
      BY <2>1, <2>4, WeightAdd
    <2>6. h[u] = w[x] + h[v]
      BY <2>1, <2>3, <2>4, <2>5
    <2> QED
      BY <2>6 DEF x, v
  <1> QED
    BY <1>1, <1>2 DEF AddsUp

\* Adding up what a function has for the members of a set.
LEMMA FoldOfFunction ==
    ASSUME NEW S, IsFiniteSet(S), NEW f, \A x \in S : f[x] \in Nat
    PROVE  FoldFunctionOnSet(+, 0, f, S) = Weight(f, S)
  <1> DEFINE c == [u \in SUBSET S |-> CHOOSE x \in u : TRUE]
             H(h) == h = [u \in SUBSET S |-> IF u = {} THEN 0
                            ELSE f[CHOOSE x \in u : TRUE] + h[u \ {CHOOSE x \in u : TRUE}]]
             g == CHOOSE h : H(h)
             k == [u \in SUBSET S |-> Weight(f, u)]
  <1>1. \A u \in SUBSET S : u # {} => c[u] \in u
    OBVIOUS
  <1>2. FoldFunctionOnSet(+, 0, f, S) = g[S]
    BY DEF FoldFunctionOnSet, MapThenFoldSet
  <1>3. AddsUp(k, f, c, S)
    <2> HIDE DEF c
    <2> QED
      BY <1>1, AddsUpExists
  <1>4. H(k)
    <2>1. DOMAIN k = SUBSET S /\ k = [u \in SUBSET S |-> k[u]]
      OBVIOUS
    <2>2. \A u \in SUBSET S : k[u] = IF u = {} THEN 0 ELSE f[c[u]] + k[u \ {c[u]}]
      <3> SUFFICES ASSUME NEW u \in SUBSET S, u # {}
                   PROVE  k[u] = f[c[u]] + k[u \ {c[u]}]
        BY <1>3 DEF AddsUp
      <3>1. c[u] \in S /\ (u \ {c[u]}) \in SUBSET S
        BY <1>1
      <3>2. f[c[u]] \in Nat /\ k[u \ {c[u]}] \in Nat
        <4> HIDE DEF c
        <4>1. k[u \ {c[u]}] = Weight(f, u \ {c[u]}) /\ IsFiniteSet(u \ {c[u]})
          BY <3>1, FS_Subset
        <4> QED
          BY <3>1, <4>1, WeightNat
      <3>3. k[u] = f[c[u]] + k[u \ {c[u]}] \/ k[u] = k[u \ {c[u]}] + f[c[u]]
        <4> HIDE DEF c, k
        <4> QED
          BY <1>3 DEF AddsUp
      <3> HIDE DEF c, k
      <3> QED
        BY <3>2, <3>3
    <2>3. \A u \in SUBSET S : u # {} => c[u] = CHOOSE x \in u : TRUE
      OBVIOUS
    <2> HIDE DEF k, c
    <2> QED
      BY <2>1, <2>2, <2>3
  <1>5. H(g)
    <2> HIDE DEF H
    <2> QED
      BY <1>4
  <1>6. AddsUp(g, f, c, S)
    <2>1. \A u \in SUBSET S : g[u] = IF u = {} THEN 0 ELSE f[c[u]] + g[u \ {c[u]}]
      <3> HIDE DEF g
      <3> QED
        BY <1>5
    <2> HIDE DEF g, c
    <2> QED
      BY <2>1 DEF AddsUp
  <1> HIDE DEF g, c
  <1> QED
    BY <1>1, <1>2, <1>6, AddsUpUnique

\* The largest index of a sequence is one of them.
LEMMA MaxIsOne ==
    ASSUME NEW n \in Nat, NEW u \in SUBSET (1..n), u # {}
    PROVE  Max(u) \in u
  <1> DEFINE T == {n - i : i \in u}
  <1>1. T \subseteq Nat /\ T # {}
    <2>1. \A i \in u : n - i \in Nat
      OBVIOUS
    <2>2. PICK i \in u : TRUE
      OBVIOUS
    <2>3. n - i \in T
      OBVIOUS
    <2> QED
      BY <2>1, <2>3
  <1>2. PICK t \in T : \A y \in T : t <= y
    <2> HIDE DEF T
    <2> QED
      BY <1>1, LeastNumber
  <1>3. PICK i \in u : t = n - i
    OBVIOUS
  <1>4. \A j \in u : i >= j
    <2> TAKE j \in u
    <2>1. t <= n - j
      BY <1>2
    <2> QED
      BY <1>3, <2>1
  <1> QED
    BY <1>4 DEF Max

\* Adding up by index, the largest first, as FoldLeft does.
IndexSum(h, w, n) ==
    /\ h[{}] = 0
    /\ \A u \in SUBSET (1..n) : u # {} => h[u] = h[u \ {Max(u)}] + w[Max(u)]

LEMMA IndexSums ==
    ASSUME NEW n \in Nat, NEW w, \A i \in 1..n : w[i] \in Nat
    PROVE  /\ IndexSum([u \in SUBSET (1..n) |-> Weight(w, u)], w, n)
           /\ \A h : IndexSum(h, w, n) => h[1..n] = Weight(w, 1..n)
  <1> DEFINE D == 1..n
             c == [u \in SUBSET D |-> Max(u)]
             g == [u \in SUBSET D |-> Weight(w, u)]
  <1>1. IsFiniteSet(D) /\ \A x \in D : w[x] \in Nat
    BY FS_Interval
  <1>2. \A u \in SUBSET D : u # {} => Max(u) \in u /\ c[u] = Max(u) /\ c[u] \in u
    BY MaxIsOne
  <1>3. IndexSum(g, w, n)
    <2>1. AddsUp(g, w, c, D)
      <3> HIDE DEF D, c
      <3> QED
        BY <1>1, <1>2, AddsUpExists
    <2>2. ASSUME NEW u \in SUBSET D, u # {}
          PROVE  g[u] = g[u \ {Max(u)}] + w[Max(u)]
      <3>1. w[Max(u)] \in Nat /\ c[u] = Max(u)
        BY <1>1, <1>2, <2>2
      <3>2. g[u \ {c[u]}] \in Nat
        <4>1. u \ {c[u]} \in SUBSET D /\ g[u \ {c[u]}] = Weight(w, u \ {c[u]})
          OBVIOUS
        <4>2. IsFiniteSet(u \ {c[u]})
          BY <1>1, <4>1, FS_Subset
        <4> HIDE DEF D, c, g
        <4> QED
          BY <1>1, <4>1, <4>2, WeightNat
      <3>3. g[u] = w[c[u]] + g[u \ {c[u]}] \/ g[u] = g[u \ {c[u]}] + w[c[u]]
        <4> HIDE DEF D, c, g
        <4> QED
          BY <2>1, <2>2 DEF AddsUp
      <3> HIDE DEF D, c, g
      <3> QED
        BY <3>1, <3>2, <3>3
    <2>3. g[{}] = 0
      BY WeightEmpty
    <2> HIDE DEF g
    <2> QED
      BY <2>2, <2>3 DEF IndexSum
  <1>4. ASSUME NEW h, IndexSum(h, w, n)
        PROVE  h[1..n] = Weight(w, 1..n)
    <2>1. AddsUp(h, w, c, D)
      <3>1. \A u \in SUBSET D : u # {} => h[u] = h[u \ {c[u]}] + w[c[u]]
        BY <1>2, <1>4 DEF IndexSum
      <3> HIDE DEF c
      <3> QED
        BY <1>4, <3>1 DEF AddsUp, IndexSum
    <2> HIDE DEF c
    <2> QED
      BY <1>1, <1>2, <2>1, AddsUpUnique
  <1> QED
    BY <1>3, <1>4

\* Adding up the sizes of the records in a sequence.
LEMMA FoldOfSizes ==
    ASSUME NEW s, NEW n \in Nat, DOMAIN s = 1..n, \A i \in 1..n : s[i].size \in Nat
    PROVE  FoldLeft(LAMBDA m, x : m + x.size, 0, s) = Weight([i \in 1..n |-> s[i].size], 1..n)
  <1> DEFINE D == 1..n
             w == [i \in D |-> s[i].size]
             H(h) == h = [u \in SUBSET D |-> IF u = {} THEN 0 ELSE h[u \ {Max(u)}] + s[Max(u)].size]
             g == CHOOSE h : H(h)
             k == [u \in SUBSET D |-> Weight(w, u)]
  <1>1. \A i \in D : w[i] \in Nat
    OBVIOUS
  <1>2. \A u \in SUBSET D : u # {} => w[Max(u)] = s[Max(u)].size
    BY MaxIsOne
  <1>3. FoldLeft(LAMBDA m, x : m + x.size, 0, s) = g[D]
    BY DEF FoldLeft, MapThenFoldSet
  <1>4. H(k)
    <2>1. IndexSum(k, w, n)
      <3> HIDE DEF w
      <3> QED
        BY <1>1, IndexSums
    <2>2. DOMAIN k = SUBSET D /\ k = [u \in SUBSET D |-> k[u]]
      OBVIOUS
    <2>3. \A u \in SUBSET D : k[u] = IF u = {} THEN 0 ELSE k[u \ {Max(u)}] + s[Max(u)].size
      <3> HIDE DEF k, w
      <3> QED
        BY <1>2, <2>1 DEF IndexSum
    <2> HIDE DEF k
    <2> QED
      BY <2>2, <2>3
  <1>5. H(g)
    <2> HIDE DEF H
    <2> QED
      BY <1>4
  <1>6. IndexSum(g, w, n)
    <2> HIDE DEF g
    <2> QED
      BY <1>2, <1>5 DEF IndexSum
  <1> HIDE DEF g, w
  <1> QED
    BY <1>1, <1>3, <1>6, IndexSums DEF w

\* Adding up the sizes that a function has for the members of a sequence.
LEMMA FoldOfNamed ==
    ASSUME NEW s, NEW n \in Nat, DOMAIN s = 1..n, NEW f, \A i \in 1..n : f[s[i]].size \in Nat
    PROVE  FoldLeft(LAMBDA m, x : m + f[x].size, 0, s) = Weight([i \in 1..n |-> f[s[i]].size], 1..n)
  <1> DEFINE D == 1..n
             w == [i \in D |-> f[s[i]].size]
             H(h) == h = [u \in SUBSET D |-> IF u = {} THEN 0 ELSE h[u \ {Max(u)}] + f[s[Max(u)]].size]
             g == CHOOSE h : H(h)
             k == [u \in SUBSET D |-> Weight(w, u)]
  <1>1. \A i \in D : w[i] \in Nat
    OBVIOUS
  <1>2. \A u \in SUBSET D : u # {} => w[Max(u)] = f[s[Max(u)]].size
    BY MaxIsOne
  <1>3. FoldLeft(LAMBDA m, x : m + f[x].size, 0, s) = g[D]
    BY DEF FoldLeft, MapThenFoldSet
  <1>4. H(k)
    <2>1. IndexSum(k, w, n)
      <3> HIDE DEF w
      <3> QED
        BY <1>1, IndexSums
    <2>2. DOMAIN k = SUBSET D /\ k = [u \in SUBSET D |-> k[u]]
      OBVIOUS
    <2>3. \A u \in SUBSET D : k[u] = IF u = {} THEN 0 ELSE k[u \ {Max(u)}] + f[s[Max(u)]].size
      <3> HIDE DEF k, w
      <3> QED
        BY <1>2, <2>1 DEF IndexSum
    <2> HIDE DEF k
    <2> QED
      BY <2>2, <2>3
  <1>5. H(g)
    <2> HIDE DEF H
    <2> QED
      BY <1>4
  <1>6. IndexSum(g, w, n)
    <2> HIDE DEF g
    <2> QED
      BY <1>2, <1>5 DEF IndexSum
  <1> HIDE DEF g, w
  <1> QED
    BY <1>1, <1>3, <1>6, IndexSums DEF w

\* What one function weighs by index another one weighs by name.
LEMMA WeightMoved ==
    ASSUME NEW S, NEW T, NEW q \in Bijection(S, T), NEW w, NEW v, \A i \in S : w[i] = v[q[i]],
           IsFiniteSet(Units(w, S))
    PROVE  IsFiniteSet(Units(v, T)) /\ Weight(v, T) = Weight(w, S)
  <1> DEFINE U == Units(w, S)
             V == Units(v, T)
             b == [z \in U |-> <<q[z[1]], z[2]>>]
  <1>1. /\ \A i \in S : q[i] \in T
        /\ \A i, j \in S : q[i] = q[j] => i = j
        /\ \A t \in T : \E i \in S : q[i] = t
    BY DEF Bijection, Injection, Surjection, IsInjective
  <1>2. \A z \in U : z[1] \in S /\ z[2] \in Nat /\ z[2] < w[z[1]] /\ z = <<z[1], z[2]>>
    BY DEF Units
  <1>3. b \in [U -> V]
    <2>1. \A z \in U : <<q[z[1]], z[2]>> \in V
      BY <1>1, <1>2 DEF Units
    <2> QED
      BY <2>1
  <1>4. \A x, y \in U : b[x] = b[y] => x = y
    <2> SUFFICES ASSUME NEW x \in U, NEW y \in U, b[x] = b[y] PROVE x = y
      OBVIOUS
    <2>1. q[x[1]] = q[y[1]] /\ x[2] = y[2]
      OBVIOUS
    <2> QED
      BY <1>1, <1>2, <2>1
  <1>5. \A t \in V : \E x \in U : b[x] = t
    <2> SUFFICES ASSUME NEW t \in V PROVE \E x \in U : b[x] = t
      OBVIOUS
    <2>1. t[1] \in T /\ t[2] \in Nat /\ t[2] < v[t[1]] /\ t = <<t[1], t[2]>>
      BY DEF Units
    <2>2. PICK i \in S : q[i] = t[1]
      BY <1>1, <2>1
    <2>3. <<i, t[2]>> \in U
      BY <2>1, <2>2 DEF Units
    <2>4. b[<<i, t[2]>>] = t
      BY <2>1, <2>2, <2>3
    <2> QED
      BY <2>3, <2>4
  <1> HIDE DEF U, V, b
  <1>6. b \in Surjection(U, V) /\ b \in Injection(U, V)
    BY <1>3, <1>4, <1>5 DEF Surjection, Injection, IsInjective
  <1>7. IsFiniteSet(V) /\ Cardinality(V) = Cardinality(U)
    BY <1>6, FS_Surjection DEF U
  <1> QED
    BY <1>7 DEF U, V, Weight

\* SetToSeq lists every element once.
LEMMA SetToSeqBijection ==
    ASSUME NEW S, IsFiniteSet(S)
    PROVE  SetToSeq(S) \in Bijection(1..Cardinality(S), S) /\ Cardinality(S) \in Nat
  <1> DEFINE n == Cardinality(S)
             P(f) == f \in [1..n -> S] /\ IsInjective(f)
  <1>1. n \in Nat /\ ExistsBijection(1..n, S)
    BY FS_CardinalityType
  <1>2. \E f : P(f)
    BY <1>1 DEF ExistsBijection, Bijection, Injection
  <1>3. P(SetToSeq(S))
    <2>1. SetToSeq(S) = CHOOSE f \in [1..n -> S] : IsInjective(f)
      BY DEF SetToSeq
    <2> QED
      BY <1>2, <2>1
  <1>4. SetToSeq(S) \in Injection(1..n, S)
    BY <1>3 DEF Injection
  <1>5. Cardinality(1..n) = n
    <2> HIDE DEF n
    <2>1. Cardinality(1..n) = IF 1 > n THEN 0 ELSE n - 1 + 1
      BY <1>1, FS_Interval
    <2> QED
      BY <1>1, <2>1
  <1> QED
    BY <1>1, <1>4, <1>5, FS_Injection DEF Bijection

\* Adding up over a set, in whatever order.
LEMMA FoldOfSet ==
    ASSUME NEW S, IsFiniteSet(S), NEW f, \A x \in S : f[x].size \in Nat
    PROVE  FoldLeft(LAMBDA m, x : m + f[x].size, 0, SetToSeq(S)) = Weight([x \in S |-> f[x].size], S)
  <1> DEFINE s == SetToSeq(S)
             n == Cardinality(S)
             w == [i \in 1..n |-> f[s[i]].size]
             v == [x \in S |-> f[x].size]
  <1>1. s \in Bijection(1..n, S) /\ n \in Nat
    BY SetToSeqBijection
  <1>2. DOMAIN s = 1..n /\ \A i \in 1..n : s[i] \in S
    BY <1>1 DEF Bijection, Injection
  <1>3. FoldLeft(LAMBDA m, x : m + f[x].size, 0, s) = Weight(w, 1..n)
    <2> HIDE DEF s, n
    <2> QED
      BY <1>1, <1>2, FoldOfNamed
  <1>4. IsFiniteSet(1..n)
    BY <1>1, FS_Interval
  <1>5. \A i \in 1..n : w[i] = v[s[i]] /\ w[i] \in Nat
    BY <1>2
  <1> HIDE DEF s, n, w, v
  <1>6. IsFiniteSet(Units(w, 1..n))
    BY <1>4, <1>5, WeightNat
  <1>7. Weight(v, S) = Weight(w, 1..n)
    <2>1. \A i \in 1..n : w[i] = v[s[i]]
      BY <1>5
    <2> DEFINE I == 1..n
    <2>2. s \in Bijection(I, S) /\ (\A i \in I : w[i] = v[s[i]]) /\ IsFiniteSet(Units(w, I))
      BY <1>1, <1>6, <2>1
    <2> HIDE DEF I
    <2>3. Weight(v, S) = Weight(w, I)
      BY <2>2, WeightMoved
    <2> QED
      BY <2>3 DEF I
  <1> QED
    BY <1>3, <1>7 DEF s, v
=============================================================================
