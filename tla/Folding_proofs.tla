--------------------------- MODULE Folding_proofs ---------------------------
(***************************************************************************)
(* Facts about the operators the models are built from: sums over sets,    *)
(* folds over sets and sequences, orders, sorted and filtered sequences.   *)
(* What a fold computes takes induction over data, and every induction     *)
(* here is by a least number: among the numbers, or the finite sets, for   *)
(* which a claim fails there would be a least one, and it does not fail.   *)
(***************************************************************************)
EXTENDS Integers, Sequences, FiniteSets, FiniteSetsExt, Functions, Ordering,
        FiniteSetTheorems, WellFoundedInduction, NaturalsInduction, TLAPS

\* A set of numbers has a least one: what every induction here rests on.
LEMMA LeastNumber ==
  ASSUME NEW T, T \subseteq Nat, T # {}
  PROVE  \E m \in T : \A n \in T : m <= n
<1> DEFINE R == {ss \in Nat \X Nat : ss[1] < ss[2]}
<1>1. IsWellFoundedOn(R, Nat)
  BY NatLessThanWellFounded, Zenon DEF OpToRel
<1> HIDE DEF R
<1>2. PICK m \in T : \A n \in T : ~ (<<n, m>> \in R)
  BY <1>1, WFMin, Zenon
<1>3. \A n \in T : ~ (n < m)
  BY <1>2 DEF R
<1> QED BY <1>3

\* Induction over the numbers up to n: if Good holds 0, and with i also i + 1,
\* it holds all.
LEMMA UpwardInduction ==
  ASSUME NEW n \in Nat, NEW Good, 0 \in Good,
         \A i \in 0..(n - 1) : i \in Good => i + 1 \in Good
  PROVE  0..n \subseteq Good
<1> DEFINE Bad == {i \in 0..n : i \notin Good}
<1>1. SUFFICES ASSUME Bad # {} PROVE FALSE
  OBVIOUS
<1>2. PICK m \in Bad : \A i \in Bad : m <= i
  <2>1. Bad \subseteq Nat OBVIOUS
  <2> HIDE DEF Bad
  <2> QED BY <1>1, <2>1, LeastNumber
<1>3. m - 1 \in 0..(n - 1) /\ m - 1 \notin Bad
  <2>1. m \in 0..n /\ m # 0
    OBVIOUS
  <2>2. ~(m <= m - 1)
    BY <2>1
  <2>3. m - 1 \in 0..(n - 1)
    BY <2>1
  <2> HIDE DEF Bad
  <2> QED BY <1>2, <2>2, <2>3
<1>4. m - 1 \in Good /\ (m - 1) + 1 = m
  BY <1>3
<1> QED BY <1>3, <1>4

\* Induction over finite sets: among sets of subsets of one there is a minimal one.
LEMMA MinimalSubset ==
  ASSUME NEW S, IsFiniteSet(S), NEW B, B \subseteq SUBSET S, B # {}
  PROVE  \E s \in B : \A t \in B : t \subseteq s => t = s
<1> DEFINE Sizes == {Cardinality(s) : s \in B}
<1>1. \A s \in B : IsFiniteSet(s) /\ Cardinality(s) \in Nat
  BY FS_Subset, FS_CardinalityType
<1>2. PICK m \in Sizes : \A n \in Sizes : m <= n
  <2>1. Sizes \subseteq Nat /\ Sizes # {}
    BY <1>1
  <2> HIDE DEF Sizes
  <2> QED BY <2>1, LeastNumber
<1>3. PICK s \in B : Cardinality(s) = m
  BY <1>2
<1>4. ASSUME NEW t \in B, t \subseteq s PROVE t = s
  <2>1. Cardinality(t) <= Cardinality(s) /\ (Cardinality(s) = Cardinality(t) => s = t)
    BY <1>1, <1>4, FS_Subset
  <2>2. m <= Cardinality(t)
    BY <1>2
  <2> QED BY <1>1, <1>3, <2>1, <2>2
<1> QED BY <1>4

-----------------------------------------------------------------------------
\* c chooses an element of every nonempty subset of S.
Chooses(c, S) == \A s \in SUBSET S : s # {} => c[s] \in s

\* g is what a fold over the subsets of S comes to, H[x] being the step for x.
IsFold(g, S, base, H, c) ==
  \A s \in SUBSET S : g[s] = IF s = {} THEN base ELSE H[c[s]][g[s \ {c[s]}]]

LEMMA FoldUnique ==
  ASSUME NEW S, IsFiniteSet(S), NEW base, NEW H, NEW c, Chooses(c, S),
         NEW g, IsFold(g, S, base, H, c), NEW h, IsFold(h, S, base, H, c)
  PROVE  \A s \in SUBSET S : g[s] = h[s]
<1> DEFINE B == {s \in SUBSET S : g[s] # h[s]}
<1>1. SUFFICES ASSUME B # {} PROVE FALSE
  OBVIOUS
<1>2. PICK s \in B : \A t \in B : t \subseteq s => t = s
  <2>1. B \subseteq SUBSET S OBVIOUS
  <2> HIDE DEF B
  <2> QED BY <1>1, <2>1, MinimalSubset
<1>3. s \in SUBSET S /\ g[s] # h[s]
  OBVIOUS
<1>4. s # {}
  BY <1>3 DEF IsFold
<1>5. c[s] \in s
  BY <1>3, <1>4 DEF Chooses
<1>6. s \ {c[s]} \in SUBSET S /\ s \ {c[s]} \notin B
  BY <1>2, <1>3, <1>5
<1>7. g[s] = H[c[s]][g[s \ {c[s]}]] /\ h[s] = H[c[s]][h[s \ {c[s]}]]
  BY <1>3, <1>4 DEF IsFold
<1> QED BY <1>3, <1>6, <1>7

LEMMA FoldExists ==
  ASSUME NEW S, IsFiniteSet(S), NEW Typ, NEW base \in Typ, NEW c, Chooses(c, S),
         NEW H \in [S -> [Typ -> Typ]]
  PROVE  \E g \in [SUBSET S -> Typ] : IsFold(g, S, base, H, c)
<1> DEFINE Has(T) == \E g \in [SUBSET T -> Typ] : IsFold(g, T, base, H, c)
           B == {T \in SUBSET S : ~ Has(T)}
<1>1. SUFFICES ASSUME B # {} PROVE FALSE
  OBVIOUS
<1>2. PICK T \in B : \A t \in B : t \subseteq T => t = T
  <2>1. B \subseteq SUBSET S OBVIOUS
  <2> HIDE DEF B
  <2> QED BY <1>1, <2>1, MinimalSubset
<1>3. T \in SUBSET S /\ ~ Has(T)
  OBVIOUS
<1> DEFINE G(s) == CHOOSE g \in [SUBSET s -> Typ] : IsFold(g, s, base, H, c)
<1>4. ASSUME NEW s \in SUBSET T, s # T
      PROVE  G(s) \in [SUBSET s -> Typ] /\ IsFold(G(s), s, base, H, c)
  <2>1. s \in SUBSET S /\ s \notin B
    <3> HIDE DEF B
    <3> QED BY <1>2, <1>3, <1>4
  <2>2. \E g \in [SUBSET s -> Typ] : IsFold(g, s, base, H, c)
    BY <2>1
  <2> QED BY <2>2, Zenon
<1> HIDE DEF B, G
<1> DEFINE before(s) == s \ {c[s]}
           g == [s \in SUBSET T |->
                   IF s = {} THEN base
                   ELSE IF s # T THEN G(s)[s] ELSE H[c[s]][G(before(s))[before(s)]]]
<1>5. ASSUME NEW s \in SUBSET T, s # {}
      PROVE  c[s] \in s /\ c[s] \in S /\ before(s) \in SUBSET T /\ before(s) # T
  BY <1>3, <1>5 DEF Chooses
<1>6. \A s \in SUBSET T : s # T => g[s] = G(s)[s] /\ g[s] \in Typ
  BY <1>4 DEF IsFold
<1>7. ASSUME NEW s \in SUBSET T PROVE g[s] \in Typ
  <2>1. CASE s # T
    BY <1>6, <2>1
  <2>2. CASE s = T /\ s # {}
    <3>1. G(before(s))[before(s)] \in Typ
      <4>1. G(before(s)) \in [SUBSET before(s) -> Typ]
        BY <1>4, <1>5, <2>2
      <4> HIDE DEF before
      <4> QED BY <4>1
    <3>2. H[c[s]] \in [Typ -> Typ]
      BY <1>5, <2>2
    <3> QED BY <2>2, <3>1, <3>2
  <2> QED BY <2>1, <2>2
<1>8. ASSUME NEW s \in SUBSET T, s # {} PROVE g[s] = H[c[s]][g[before(s)]]
  <2>1. g[before(s)] = G(before(s))[before(s)]
    <3> HIDE DEF g
    <3> QED BY <1>5, <1>6, <1>8
  <2>2. CASE s = T
    BY <1>8, <2>1, <2>2
  <2>3. CASE s # T
    <3> DEFINE r == before(s)
    <3>1. IsFold(G(s), s, base, H, c) /\ IsFold(G(r), r, base, H, c)
      BY <1>4, <1>5, <1>8, <2>3
    <3>2. G(s)[r] = G(r)[r]
      <4> SUFFICES ASSUME NEW p, NEW q, IsFold(p, s, base, H, c),
                          IsFold(q, r, base, H, c)
                   PROVE  p[r] = q[r]
        BY <3>1
      <4>1. IsFold(p, r, base, H, c)
        BY DEF IsFold
      <4>2. IsFiniteSet(r) /\ Chooses(c, r)
        BY <1>3, FS_Subset DEF Chooses
      <4> HIDE DEF r
      <4>3. \A t \in SUBSET r : p[t] = q[t]
        BY <4>1, <4>2, FoldUnique
      <4> QED BY <4>3
    <3>3. G(s)[s] = H[c[s]][G(s)[r]]
      BY <1>8, <3>1 DEF IsFold
    <3>4. g[s] = G(s)[s]
      BY <1>6, <2>3
    <3> QED BY <2>1, <3>2, <3>3, <3>4
  <2> QED BY <2>2, <2>3
<1>9. g \in [SUBSET T -> Typ]
  BY <1>7
<1>10. IsFold(g, T, base, H, c)
  <2>1. g[{}] = base OBVIOUS
  <2> HIDE DEF g
  <2> QED BY <1>8, <2>1 DEF IsFold
<1> QED BY <1>3, <1>9, <1>10

-----------------------------------------------------------------------------
\* The equation that the sum of f over subsets of S solves.
IsSum(h, f, S) ==
  h = [s \in SUBSET S |->
         IF s = {} THEN 0
         ELSE f[CHOOSE x \in s : TRUE] + h[s \ {CHOOSE x \in s : TRUE}]]

LEMMA SumExists ==
  ASSUME NEW S, IsFiniteSet(S), NEW f, \A x \in S : f[x] \in Int
  PROVE  \E h : IsSum(h, f, S) /\ SumFunctionOnSet(f, S) = h[S]
<1> DEFINE c == [s \in SUBSET S |-> CHOOSE x \in s : TRUE]
           H == [x \in S |-> [a \in Int |-> f[x] + a]]
<1>1. H \in [S -> [Int -> Int]]
  OBVIOUS
<1>2. Chooses(c, S)
  BY DEF Chooses
<1>3. PICK g \in [SUBSET S -> Int] : IsFold(g, S, 0, H, c)
  <2>1. 0 \in Int OBVIOUS
  <2> HIDE DEF H, c
  <2> QED BY <1>1, <1>2, <2>1, FoldExists
<1>4. ASSUME NEW s \in SUBSET S, s # {}
      PROVE  g[s] = f[CHOOSE x \in s : TRUE] + g[s \ {CHOOSE x \in s : TRUE}]
  <2> DEFINE x == c[s]
  <2>1. x \in S /\ x = CHOOSE y \in s : TRUE
    BY <1>4
  <2>2. g[s] = H[x][g[s \ {x}]]
    BY <1>3, <1>4 DEF IsFold
  <2>3. g[s \ {x}] \in Int
    OBVIOUS
  <2>4. H[x][g[s \ {x}]] = f[x] + g[s \ {x}]
    <3> HIDE DEF x
    <3> QED BY <2>1, <2>3
  <2> QED BY <2>1, <2>2, <2>4
<1>5. IsSum(g, f, S)
  <2>1. g[{}] = 0
    BY <1>3 DEF IsFold
  <2> QED BY <1>4, <2>1 DEF IsSum
<1> DEFINE h == CHOOSE k : IsSum(k, f, S)
<1>6. IsSum(h, f, S)
  BY <1>5, Zenon
<1>7. SumFunctionOnSet(f, S) = h[S]
  BY Zenon DEF SumFunctionOnSet, FoldFunctionOnSet, MapThenFoldSet, IsSum
<1> QED BY <1>6, <1>7

LEMMA SumUnique ==
  ASSUME NEW S, IsFiniteSet(S), NEW f, NEW g, NEW h, IsSum(g, f, S),
         NEW T, S \subseteq T, IsSum(h, f, T)
  PROVE  g[S] = h[S]
<1> DEFINE B == {s \in SUBSET S : g[s] # h[s]}
<1>1. SUFFICES ASSUME B # {} PROVE FALSE
  OBVIOUS
<1>2. PICK s \in B : \A t \in B : t \subseteq s => t = s
  <2>1. B \subseteq SUBSET S OBVIOUS
  <2> HIDE DEF B
  <2> QED BY <1>1, <2>1, MinimalSubset
<1> DEFINE x == CHOOSE y \in s : TRUE
<1>3. s \in SUBSET S /\ s \in SUBSET T /\ g[s] # h[s]
  OBVIOUS
<1>4. s # {}
  BY <1>3 DEF IsSum
<1>5. x \in s
  BY <1>4
<1>6. g[s \ {x}] = h[s \ {x}]
  <2>1. s \ {x} \in SUBSET S /\ s \ {x} \notin B
    <3> HIDE DEF B
    <3> QED BY <1>2, <1>3, <1>5
  <2> QED BY <2>1
<1>7. g[s] = f[x] + g[s \ {x}] /\ h[s] = f[x] + h[s \ {x}]
  BY <1>3, <1>4 DEF IsSum
<1> QED BY <1>3, <1>6, <1>7

LEMMA SumEmpty == ASSUME NEW f PROVE SumFunctionOnSet(f, {}) = 0
<1>1. PICK h : IsSum(h, f, {}) /\ SumFunctionOnSet(f, {}) = h[{}]
  BY SumExists, FS_EmptySet
<1> QED BY <1>1 DEF IsSum

LEMMA SumChosen ==
  ASSUME NEW S, IsFiniteSet(S), NEW f, \A x \in S : f[x] \in Int, S # {}
  PROVE  LET x == CHOOSE y \in S : TRUE
         IN  /\ x \in S
             /\ SumFunctionOnSet(f, S) = f[x] + SumFunctionOnSet(f, S \ {x})
<1> DEFINE x == CHOOSE y \in S : TRUE
           r == S \ {x}
<1>1. x \in S
  OBVIOUS
<1>2. PICK h : IsSum(h, f, S) /\ SumFunctionOnSet(f, S) = h[S]
  BY SumExists
<1>3. IsFiniteSet(r) /\ r \subseteq S
  BY FS_Subset
<1>4. PICK g : IsSum(g, f, r) /\ SumFunctionOnSet(f, r) = g[r]
  <2> HIDE DEF r
  <2> QED BY <1>3, SumExists
<1>5. g[r] = h[r]
  <2> HIDE DEF r
  <2> QED BY <1>2, <1>3, <1>4, SumUnique
<1>6. h[S] = f[x] + h[r]
  BY <1>2 DEF IsSum
<1> QED BY <1>1, <1>2, <1>4, <1>5, <1>6

LEMMA SumType ==
  ASSUME NEW S, IsFiniteSet(S), NEW f, \A x \in S : f[x] \in Int
  PROVE  SumFunctionOnSet(f, S) \in Int
<1> DEFINE B == {s \in SUBSET S : SumFunctionOnSet(f, s) \notin Int}
<1>1. SUFFICES ASSUME B # {} PROVE FALSE
  OBVIOUS
<1>2. PICK s \in B : \A t \in B : t \subseteq s => t = s
  <2>1. B \subseteq SUBSET S OBVIOUS
  <2> HIDE DEF B
  <2> QED BY <1>1, <2>1, MinimalSubset
<1>3. s # {}
  BY SumEmpty
<1>4. PICK x \in s : SumFunctionOnSet(f, s) = f[x] + SumFunctionOnSet(f, s \ {x})
  <2>1. IsFiniteSet(s) /\ \A x \in s : f[x] \in Int
    BY FS_Subset
  <2> QED BY <1>3, <2>1, SumChosen
<1>5. SumFunctionOnSet(f, s \ {x}) \in Int
  <2>1. s \ {x} \in SUBSET S /\ s \ {x} \notin B
    BY <1>2
  <2> QED BY <2>1
<1> QED BY <1>4, <1>5

\* Any element may be added last.
LEMMA SumRemove ==
  ASSUME NEW S, IsFiniteSet(S), NEW f, \A x \in S : f[x] \in Int, NEW x \in S
  PROVE  SumFunctionOnSet(f, S) = f[x] + SumFunctionOnSet(f, S \ {x})
<1> DEFINE B == {s \in SUBSET S : \E y \in s :
                    SumFunctionOnSet(f, s) # f[y] + SumFunctionOnSet(f, s \ {y})}
<1>1. SUFFICES ASSUME B # {} PROVE FALSE
  OBVIOUS
<1>2. PICK s \in B : \A t \in B : t \subseteq s => t = s
  <2>1. B \subseteq SUBSET S OBVIOUS
  <2> HIDE DEF B
  <2> QED BY <1>1, <2>1, MinimalSubset
<1>3. PICK y \in s : SumFunctionOnSet(f, s) # f[y] + SumFunctionOnSet(f, s \ {y})
  OBVIOUS
<1>4. \A t \in SUBSET s : /\ IsFiniteSet(t) /\ SumFunctionOnSet(f, t) \in Int
                          /\ \A z \in t : f[z] \in Int
  BY FS_Subset, SumType
<1>5. PICK z \in s : /\ SumFunctionOnSet(f, s) = f[z] + SumFunctionOnSet(f, s \ {z})
  BY <1>4, SumChosen
<1>6. z # y
  BY <1>3, <1>5
<1>7. SumFunctionOnSet(f, s \ {z}) = f[y] + SumFunctionOnSet(f, (s \ {z}) \ {y})
  <2>1. s \ {z} \in SUBSET S /\ s \ {z} \notin B
    BY <1>2
  <2> QED BY <1>6, <2>1
<1>8. SumFunctionOnSet(f, s \ {y}) = f[z] + SumFunctionOnSet(f, (s \ {y}) \ {z})
  <2>1. s \ {y} \in SUBSET S /\ s \ {y} \notin B
    BY <1>2
  <2> QED BY <1>6, <2>1
<1>9. (s \ {y}) \ {z} = (s \ {z}) \ {y}
  OBVIOUS
<1> DEFINE rest == SumFunctionOnSet(f, (s \ {z}) \ {y})
<1>10. f[y] \in Int /\ f[z] \in Int /\ rest \in Int
  BY <1>4
<1>11. SumFunctionOnSet(f, s) = f[z] + (f[y] + rest)
  BY <1>5, <1>7
<1>12. SumFunctionOnSet(f, s \ {y}) = f[z] + rest
  BY <1>8, <1>9
<1> HIDE DEF B, rest
<1> QED BY <1>3, <1>10, <1>11, <1>12


LEMMA SumAdd ==
  ASSUME NEW S, IsFiniteSet(S), NEW x, x \notin S, NEW f, f[x] \in Int,
         \A y \in S : f[y] \in Int
  PROVE  SumFunctionOnSet(f, S \cup {x}) = f[x] + SumFunctionOnSet(f, S)
<1>1. IsFiniteSet(S \cup {x}) /\ (S \cup {x}) \ {x} = S
  BY FS_AddElement
<1>2. \A y \in S \cup {x} : f[y] \in Int
  OBVIOUS
<1>3. x \in S \cup {x}
  OBVIOUS
<1> DEFINE T == S \cup {x}
<1> HIDE DEF T
<1>4. SumFunctionOnSet(f, T) = f[x] + SumFunctionOnSet(f, T \ {x})
  BY <1>1, <1>2, <1>3, SumRemove DEF T
<1> QED BY <1>1, <1>4 DEF T

\* Induction over the subsets of a finite set, one element at a time.
LEMMA SubsetInduction ==
  ASSUME NEW S, IsFiniteSet(S), NEW Good, {} \in Good,
         \A s \in SUBSET S : \A x \in s : s \ {x} \in Good => s \in Good
  PROVE  S \in Good
<1> DEFINE B == {s \in SUBSET S : s \notin Good}
<1>1. SUFFICES ASSUME B # {} PROVE FALSE
  OBVIOUS
<1>2. PICK s \in B : \A t \in B : t \subseteq s => t = s
  <2>1. B \subseteq SUBSET S OBVIOUS
  <2> HIDE DEF B
  <2> QED BY <1>1, <2>1, MinimalSubset
<1>3. PICK x \in s : TRUE
  OBVIOUS
<1>4. s \ {x} \in SUBSET S /\ s \ {x} \notin B
  BY <1>2
<1> QED BY <1>4

\* Of finitely many there is one no other is before.
LEMMA MinimalMember ==
  ASSUME NEW S, IsFiniteSet(S), S # {}, NEW before,
         \A x \in S : <<x, x>> \notin before,
         \A x, y, z \in S : <<x, y>> \in before /\ <<y, z>> \in before => <<x, z>> \in before
  PROVE  \E x \in S : \A y \in S : <<y, x>> \notin before
<1> DEFINE First(s, x) == \A y \in s : <<y, x>> \notin before
           Good == {s \in SUBSET S : s # {} => \E x \in s : First(s, x)}
<1>1. {} \in Good
  OBVIOUS
<1>2. ASSUME NEW s \in SUBSET S, NEW x \in s, s \ {x} \in Good PROVE s \in Good
  <2> DEFINE r == s \ {x}
  <2>1. CASE r = {}
    <3>1. First(s, x)
      BY <2>1
    <3> QED BY <3>1
  <2>2. CASE r # {}
    <3>1. PICK y \in r : First(r, y)
      BY <1>2, <2>2
    <3>2. CASE <<x, y>> \in before
      <4>1. First(s, x)
        <5> SUFFICES ASSUME NEW z \in s, <<z, x>> \in before PROVE FALSE
          OBVIOUS
        <5>1. <<z, y>> \in before
          BY <3>2
        <5>2. z \in r
          OBVIOUS
        <5> QED BY <3>1, <5>1, <5>2
      <4> QED BY <4>1
    <3>3. CASE <<x, y>> \notin before
      <4>1. First(s, y)
        BY <3>1, <3>3
      <4> QED BY <4>1
    <3> QED BY <3>2, <3>3
  <2> QED BY <2>1, <2>2
<1> HIDE DEF Good
<1>3. S \in Good
  BY <1>1, <1>2, SubsetInduction
<1> QED BY <1>3 DEF Good

LEMMA SumOfSums ==
  ASSUME NEW S, IsFiniteSet(S), NEW f, NEW g, NEW h,
         \A x \in S : f[x] \in Int /\ g[x] \in Int /\ h[x] = f[x] + g[x]
  PROVE  SumFunctionOnSet(h, S) = SumFunctionOnSet(f, S) + SumFunctionOnSet(g, S)
<1> DEFINE Good == {s \in SUBSET S : SumFunctionOnSet(h, s)
                       = SumFunctionOnSet(f, s) + SumFunctionOnSet(g, s)}
<1>1. {} \in Good
  BY SumEmpty
<1>2. ASSUME NEW s \in SUBSET S, NEW x \in s, s \ {x} \in Good PROVE s \in Good
  <2> DEFINE r == s \ {x}
  <2>1. IsFiniteSet(s) /\ IsFiniteSet(r)
    BY FS_Subset
  <2>2. \A y \in s : f[y] \in Int /\ g[y] \in Int /\ h[y] \in Int
    OBVIOUS
  <2>3. /\ SumFunctionOnSet(f, s) = f[x] + SumFunctionOnSet(f, r)
        /\ SumFunctionOnSet(g, s) = g[x] + SumFunctionOnSet(g, r)
        /\ SumFunctionOnSet(h, s) = h[x] + SumFunctionOnSet(h, r)
    BY <2>1, <2>2, SumRemove
  <2>4. SumFunctionOnSet(f, r) \in Int /\ SumFunctionOnSet(g, r) \in Int
    BY <2>1, <2>2, SumType
  <2>5. SumFunctionOnSet(h, r) = SumFunctionOnSet(f, r) + SumFunctionOnSet(g, r)
    BY <1>2
  <2>6. f[x] \in Int /\ g[x] \in Int /\ h[x] = f[x] + g[x]
    OBVIOUS
  <2> HIDE DEF r
  <2>7. SumFunctionOnSet(h, s) = SumFunctionOnSet(f, s) + SumFunctionOnSet(g, s)
    BY <2>3, <2>4, <2>5, <2>6
  <2> QED BY <2>7
<1> HIDE DEF Good
<1>3. S \in Good
  BY <1>1, <1>2, SubsetInduction
<1> QED BY <1>3 DEF Good

LEMMA SumScaled ==
  ASSUME NEW S, IsFiniteSet(S), NEW f, NEW h, NEW k \in Int,
         \A x \in S : f[x] \in Int /\ h[x] = k * f[x]
  PROVE  SumFunctionOnSet(h, S) = k * SumFunctionOnSet(f, S)
<1> DEFINE Good == {s \in SUBSET S : SumFunctionOnSet(h, s) = k * SumFunctionOnSet(f, s)}
<1>1. {} \in Good
  BY SumEmpty
<1>2. ASSUME NEW s \in SUBSET S, NEW x \in s, s \ {x} \in Good PROVE s \in Good
  <2> DEFINE r == s \ {x}
  <2>1. IsFiniteSet(s) /\ IsFiniteSet(r)
    BY FS_Subset
  <2>2. \A y \in s : f[y] \in Int /\ h[y] \in Int
    OBVIOUS
  <2>3. /\ SumFunctionOnSet(f, s) = f[x] + SumFunctionOnSet(f, r)
        /\ SumFunctionOnSet(h, s) = h[x] + SumFunctionOnSet(h, r)
    BY <2>1, <2>2, SumRemove
  <2>4. SumFunctionOnSet(f, r) \in Int
    BY <2>1, <2>2, SumType
  <2>5. SumFunctionOnSet(h, r) = k * SumFunctionOnSet(f, r)
    BY <1>2
  <2>6. f[x] \in Int /\ h[x] = k * f[x]
    OBVIOUS
  <2> HIDE DEF r
  <2>7. k * (f[x] + SumFunctionOnSet(f, r)) = k * f[x] + k * SumFunctionOnSet(f, r)
    BY <2>4, <2>6
  <2>8. SumFunctionOnSet(h, s) = k * SumFunctionOnSet(f, s)
    BY <2>3, <2>5, <2>6, <2>7
  <2> QED BY <2>8
<1> HIDE DEF Good
<1>3. S \in Good
  BY <1>1, <1>2, SubsetInduction
<1> QED BY <1>3 DEF Good

LEMMA SumZero ==
  ASSUME NEW S, IsFiniteSet(S), NEW f, \A x \in S : f[x] = 0
  PROVE  SumFunctionOnSet(f, S) = 0
<1>1. \A x \in S : f[x] \in Int /\ f[x] = 0 * f[x]
  OBVIOUS
<1>2. SumFunctionOnSet(f, S) = 0 * SumFunctionOnSet(f, S) /\ SumFunctionOnSet(f, S) \in Int
  BY <1>1, SumScaled, SumType
<1> QED BY <1>2

LEMMA SumMonotone ==
  ASSUME NEW S, IsFiniteSet(S), NEW f, NEW g,
         \A x \in S : f[x] \in Int /\ g[x] \in Int /\ f[x] <= g[x]
  PROVE  SumFunctionOnSet(f, S) <= SumFunctionOnSet(g, S)
<1> DEFINE Good == {s \in SUBSET S : SumFunctionOnSet(f, s) <= SumFunctionOnSet(g, s)}
<1>1. {} \in Good
  BY SumEmpty
<1>2. ASSUME NEW s \in SUBSET S, NEW x \in s, s \ {x} \in Good PROVE s \in Good
  <2> DEFINE r == s \ {x}
  <2>1. IsFiniteSet(s) /\ IsFiniteSet(r)
    BY FS_Subset
  <2>2. \A y \in s : f[y] \in Int /\ g[y] \in Int
    OBVIOUS
  <2>3. /\ SumFunctionOnSet(f, s) = f[x] + SumFunctionOnSet(f, r)
        /\ SumFunctionOnSet(g, s) = g[x] + SumFunctionOnSet(g, r)
    BY <2>1, <2>2, SumRemove
  <2>4. SumFunctionOnSet(f, r) \in Int /\ SumFunctionOnSet(g, r) \in Int
    BY <2>1, <2>2, SumType
  <2>5. SumFunctionOnSet(f, r) <= SumFunctionOnSet(g, r)
    BY <1>2
  <2>6. f[x] \in Int /\ g[x] \in Int /\ f[x] <= g[x]
    OBVIOUS
  <2> HIDE DEF r
  <2>7. SumFunctionOnSet(f, s) <= SumFunctionOnSet(g, s)
    BY <2>3, <2>4, <2>5, <2>6
  <2> QED BY <2>7
<1> HIDE DEF Good
<1>3. S \in Good
  BY <1>1, <1>2, SubsetInduction
<1> QED BY <1>3 DEF Good

\* p maps S onto T, one to one, and f's numbers to g's.
Reindexes(p, S, f, T, g) ==
  /\ \A x, y \in S : p[x] = p[y] => x = y
  /\ \A x \in S : p[x] \in T /\ f[x] \in Int /\ g[p[x]] = f[x]
  /\ \A y \in T : \E x \in S : p[x] = y

LEMMA SumReindexed ==
  ASSUME NEW S, IsFiniteSet(S), NEW p, NEW f, NEW T, NEW g, Reindexes(p, S, f, T, g)
  PROVE  SumFunctionOnSet(f, S) = SumFunctionOnSet(g, T)
<1> USE DEF Reindexes
<1> DEFINE Image(s) == {p[x] : x \in s}
           Good == {s \in SUBSET S : /\ IsFiniteSet(Image(s))
                                     /\ SumFunctionOnSet(f, s) = SumFunctionOnSet(g, Image(s))}
<1>1. {} \in Good
  <2>1. Image({}) = {}
    OBVIOUS
  <2> QED BY <2>1, SumEmpty, FS_EmptySet
<1>2. ASSUME NEW s \in SUBSET S, NEW x \in s, s \ {x} \in Good PROVE s \in Good
  <2> DEFINE r == s \ {x}
  <2>1. IsFiniteSet(s) /\ IsFiniteSet(Image(r))
    BY <1>2, FS_Subset
  <2>2. SumFunctionOnSet(f, s) = f[x] + SumFunctionOnSet(f, r)
    BY <2>1, SumRemove
  <2>3. Image(s) = Image(r) \cup {p[x]} /\ p[x] \notin Image(r)
    OBVIOUS
  <2>4. g[p[x]] = f[x] /\ g[p[x]] \in Int /\ \A y \in Image(r) : g[y] \in Int
    OBVIOUS
  <2>5. IsFiniteSet(Image(s))
    <3> DEFINE J == Image(r)
    <3>1. IsFiniteSet(J)
      BY <2>1
    <3>2. Image(s) = J \cup {p[x]}
      BY <2>3
    <3> HIDE DEF J, Image
    <3> QED BY <3>1, <3>2, FS_AddElement
  <2>6. SumFunctionOnSet(g, Image(s)) = g[p[x]] + SumFunctionOnSet(g, Image(r))
    <3> DEFINE q == p[x]
               J == Image(r)
    <3>1. IsFiniteSet(J) /\ q \notin J /\ g[q] \in Int /\ \A y \in J : g[y] \in Int
      BY <2>1, <2>3, <2>4
    <3>2. Image(s) = J \cup {q}
      BY <2>3
    <3> HIDE DEF q, J
    <3>3. SumFunctionOnSet(g, J \cup {q}) = g[q] + SumFunctionOnSet(g, J)
      BY <3>1, SumAdd
    <3> QED BY <3>2, <3>3 DEF q, J
  <2>7. SumFunctionOnSet(f, r) = SumFunctionOnSet(g, Image(r))
    BY <1>2
  <2> HIDE DEF r, Image
  <2> QED BY <2>2, <2>4, <2>5, <2>6, <2>7
<1> HIDE DEF Good
<1>3. S \in Good
  BY <1>1, <1>2, SubsetInduction
<1>4. Image(S) = T
  OBVIOUS
<1> QED BY <1>3, <1>4 DEF Good

LEMMA SumSame ==
  ASSUME NEW S, IsFiniteSet(S), NEW f, NEW g,
         \A x \in S : f[x] \in Int /\ g[x] = f[x]
  PROVE  SumFunctionOnSet(f, S) = SumFunctionOnSet(g, S)
<1> DEFINE p == [x \in S |-> x]
<1>1. Reindexes(p, S, f, S, g)
  BY DEF Reindexes
<1> HIDE DEF p
<1> QED BY <1>1, SumReindexed

LEMMA SumSplit ==
  ASSUME NEW S, IsFiniteSet(S), NEW f, \A x \in S : f[x] \in Int, NEW T \in SUBSET S
  PROVE  SumFunctionOnSet(f, S) = SumFunctionOnSet(f, T) + SumFunctionOnSet(f, S \ T)
<1> DEFINE Good == {t \in SUBSET T : SumFunctionOnSet(f, S)
                       = SumFunctionOnSet(f, t) + SumFunctionOnSet(f, S \ t)}
<1>1. {} \in Good
  <2>1. S \ {} = S OBVIOUS
  <2> QED BY <2>1, SumEmpty, SumType
<1>2. ASSUME NEW t \in SUBSET T, NEW x \in t, t \ {x} \in Good PROVE t \in Good
  <2> DEFINE u == t \ {x}
  <2>1. IsFiniteSet(t) /\ IsFiniteSet(u) /\ IsFiniteSet(S \ t) /\ IsFiniteSet(S \ u)
    BY FS_Subset
  <2>2. SumFunctionOnSet(f, t) = f[x] + SumFunctionOnSet(f, u)
    BY <2>1, SumRemove
  <2>3. SumFunctionOnSet(f, S \ u) = f[x] + SumFunctionOnSet(f, (S \ u) \ {x})
    BY <2>1, SumRemove
  <2>4. (S \ u) \ {x} = S \ t
    OBVIOUS
  <2>5. f[x] \in Int /\ SumFunctionOnSet(f, u) \in Int /\ SumFunctionOnSet(f, S \ t) \in Int
    BY <2>1, SumType
  <2>6. SumFunctionOnSet(f, S) = SumFunctionOnSet(f, u) + SumFunctionOnSet(f, S \ u)
    BY <1>2
  <2>7. SumFunctionOnSet(f, S \ u) = f[x] + SumFunctionOnSet(f, S \ t)
    BY <2>3, <2>4
  <2> HIDE DEF u
  <2>8. SumFunctionOnSet(f, S) = SumFunctionOnSet(f, t) + SumFunctionOnSet(f, S \ t)
    BY <2>2, <2>5, <2>6, <2>7
  <2> QED BY <2>8
<1> HIDE DEF Good
<1>3. IsFiniteSet(T)
  BY FS_Subset
<1>4. T \in Good
  BY <1>1, <1>2, <1>3, SubsetInduction
<1> QED BY <1>4 DEF Good

-----------------------------------------------------------------------------
\* before is a strict order of S in which any two members are comparable.
StrictTotal(S, before) ==
  /\ \A x, y \in S : <<x, y>> \in before => <<y, x>> \notin before
  /\ \A x, y, z \in S : <<x, y>> \in before /\ <<y, z>> \in before => <<x, z>> \in before
  /\ \A x, y \in S : x # y => <<x, y>> \in before \/ <<y, x>> \in before

\* Every member has its place: the one after those before it.
LEMMA EnumeratedLists ==
  ASSUME NEW S, IsFiniteSet(S), NEW before, StrictTotal(S, before),
         NEW e, e = Enumerated(S, before), NEW n, n = Cardinality(S)
  PROVE  /\ n \in Nat /\ e \in [1..n -> S]
         /\ \A i, j \in 1..n : i < j => <<e[i], e[j]>> \in before
         /\ \A i, j \in 1..n : e[i] = e[j] => i = j
         /\ \A x \in S : \E i \in 1..n : e[i] = x
<1> DEFINE Under(x) == {y \in S : <<y, x>> \in before}
           rank == [x \in S |-> Cardinality(Under(x))]
<1>1. n \in Nat
  BY FS_CardinalityType
<1>2. \A x \in S : IsFiniteSet(Under(x)) /\ rank[x] \in Nat
  BY FS_Subset, FS_CardinalityType
<1>0. \A x \in S : rank[x] \in Nat
  BY <1>2
<1>3. ASSUME NEW x \in S PROVE rank[x] < n
  <2>1. x \notin Under(x)
    BY DEF StrictTotal
  <2>2. Under(x) \in SUBSET S /\ Under(x) # S
    BY <2>1
  <2>3. Cardinality(Under(x)) <= n /\ (n = Cardinality(Under(x)) => S = Under(x))
    <3> HIDE DEF Under
    <3> QED BY <2>2, FS_Subset
  <2> QED BY <1>1, <1>2, <2>2, <2>3
<1>4. ASSUME NEW x \in S, NEW y \in S, <<x, y>> \in before PROVE rank[x] < rank[y]
  <2>1. Under(x) \subseteq Under(y)
    BY <1>4 DEF StrictTotal
  <2>2. x \in Under(y) /\ x \notin Under(x)
    BY <1>4 DEF StrictTotal
  <2>3. /\ Cardinality(Under(x)) <= Cardinality(Under(y))
        /\ Cardinality(Under(y)) = Cardinality(Under(x)) => Under(y) = Under(x)
    <3>1. IsFiniteSet(Under(y)) /\ Under(x) \in SUBSET Under(y)
      BY <1>2, <2>1
    <3> HIDE DEF Under
    <3> QED BY <3>1, FS_Subset
  <2>4. rank[x] = Cardinality(Under(x)) /\ rank[y] = Cardinality(Under(y))
    OBVIOUS
  <2>5. Under(y) # Under(x)
    BY <2>2
  <2>6. rank[x] \in Nat /\ rank[y] \in Nat
    BY <1>2
  <2> HIDE DEF Under, rank
  <2> QED BY <2>3, <2>4, <2>5, <2>6
<1>5. \A x, y \in S : rank[x] = rank[y] => x = y
  <2> SUFFICES ASSUME NEW x \in S, NEW y \in S, x # y PROVE rank[x] # rank[y]
    OBVIOUS
  <2>1. <<x, y>> \in before \/ <<y, x>> \in before
    BY DEF StrictTotal
  <2>2. rank[x] < rank[y] \/ rank[y] < rank[x]
    <3> HIDE DEF rank
    <3> QED BY <1>4, <2>1
  <2> HIDE DEF rank
  <2> QED BY <1>0, <2>2
<1>6. rank \in [S -> 0..(n - 1)]
  <2>1. \A x \in S : rank[x] \in 0..(n - 1)
    <3> HIDE DEF rank
    <3> QED BY <1>1, <1>0, <1>3
  <2> QED BY <2>1
<1>7. \A k \in 0..(n - 1) : \E x \in S : rank[x] = k
  <2>1. IsFiniteSet(0..(n - 1)) /\ Cardinality(0..(n - 1)) = n
    <3>1. 0 \in Int /\ n - 1 \in Int /\ (IF 0 > n - 1 THEN 0 ELSE (n - 1) - 0 + 1) = n
      BY <1>1
    <3> QED BY <3>1, FS_Interval
  <2> HIDE DEF rank
  <2>2. rank \in Injection(S, 0..(n - 1))
    BY <1>5, <1>6 DEF Injection, IsInjective
  <2>3. rank \in Surjection(S, 0..(n - 1))
    BY <2>1, <2>2, FS_Injection
  <2> QED BY <2>3 DEF Surjection
<1> DEFINE pick(k) == CHOOSE x \in S : rank[x] = k - 1
<1>8. \A k \in 1..n : pick(k) \in S /\ rank[pick(k)] = k - 1
  <2> SUFFICES ASSUME NEW k \in 1..n PROVE \E x \in S : rank[x] = k - 1
    <3> HIDE DEF rank
    <3> QED OBVIOUS
  <2>1. k - 1 \in 0..(n - 1)
    BY <1>1
  <2> HIDE DEF rank
  <2> QED BY <1>7, <2>1
<1>9. e = [k \in 1..n |-> pick(k)]
  <2>1. \A x \in S : Cardinality({y \in S : <<y, x>> \in before}) = rank[x]
    OBVIOUS
  <2>2. \A k \in 1..n : pick(k) = CHOOSE x \in S : Cardinality({y \in S : <<y, x>> \in before}) = k - 1
    BY <2>1
  <2> QED BY <2>2 DEF Enumerated
<1>13. e \in [1..n -> S] /\ \A k \in 1..n : rank[e[k]] = k - 1
  <2> HIDE DEF pick, rank
  <2> QED BY <1>8, <1>9
<1> HIDE DEF pick, rank
<1>10. \A i, j \in 1..n : e[i] = e[j] => i = j
  <2> SUFFICES ASSUME NEW i \in 1..n, NEW j \in 1..n, e[i] = e[j] PROVE i = j
    OBVIOUS
  <2>1. i - 1 = j - 1
    BY <1>13
  <2> QED BY <1>1, <2>1
<1>11. \A i, j \in 1..n : i < j => <<e[i], e[j]>> \in before
  <2> SUFFICES ASSUME NEW i \in 1..n, NEW j \in 1..n, i < j PROVE <<e[i], e[j]>> \in before
    OBVIOUS
  <2>1. e[i] # e[j]
    BY <1>1, <1>10
  <2>2. <<e[i], e[j]>> \in before \/ <<e[j], e[i]>> \in before
    BY <1>13, <2>1 DEF StrictTotal
  <2>3. ~ (rank[e[j]] < rank[e[i]])
    BY <1>1, <1>13
  <2> QED BY <1>4, <1>13, <2>2, <2>3
<1>12. \A x \in S : \E i \in 1..n : e[i] = x
  <2> SUFFICES ASSUME NEW x \in S PROVE \E i \in 1..n : e[i] = x
    OBVIOUS
  <2>1. rank[x] + 1 \in 1..n /\ (rank[x] + 1) - 1 = rank[x]
    BY <1>0, <1>1, <1>3
  <2>2. rank[e[rank[x] + 1]] = rank[x] /\ e[rank[x] + 1] \in S
    BY <1>13, <2>1
  <2> QED BY <1>5, <2>1, <2>2
<1> QED BY <1>1, <1>13, <1>10, <1>11, <1>12

LEMMA AscendingIsTotal ==
  ASSUME NEW I, I \subseteq Int PROVE StrictTotal(I, Ascending(I))
BY DEF StrictTotal, Ascending

\* place tells where in seq the elements of its subsequence at I come from.
KeepsPlaces(place, seq, I, n) ==
  /\ place \in [1..n -> I]
  /\ Subsequence(seq, I) = [k \in 1..n |-> seq[place[k]]]
  /\ \A i, j \in 1..n : i < j => place[i] < place[j]
  /\ \A i, j \in 1..n : place[i] = place[j] => i = j
  /\ \A i \in I : \E k \in 1..n : place[k] = i

\* A subsequence keeps what is at the places, once each and in their order.
LEMMA SubsequenceKeeps ==
  ASSUME NEW seq, NEW I, I \subseteq Int, IsFiniteSet(I), NEW n, n = Cardinality(I)
  PROVE  n \in Nat /\ \E place : KeepsPlaces(place, seq, I, n)
<1> DEFINE place == Enumerated(I, Ascending(I))
<1>1. /\ n \in Nat /\ place \in [1..n -> I]
      /\ \A i, j \in 1..n : i < j => <<place[i], place[j]>> \in Ascending(I)
      /\ \A i, j \in 1..n : place[i] = place[j] => i = j
      /\ \A i \in I : \E k \in 1..n : place[k] = i
  <2>1. StrictTotal(I, Ascending(I))
    BY AscendingIsTotal
  <2> HIDE DEF place
  <2>2. place = Enumerated(I, Ascending(I))
    BY DEF place
  <2> QED BY <2>1, <2>2, EnumeratedLists
<1>2. Subsequence(seq, I) = [k \in 1..n |-> seq[place[k]]]
  BY DEF Subsequence
<1> HIDE DEF place
<1>3. \A i, j \in 1..n : i < j => place[i] < place[j]
  BY <1>1 DEF Ascending
<1>4. KeepsPlaces(place, seq, I, n)
  BY <1>1, <1>2, <1>3 DEF KeepsPlaces
<1> QED BY <1>1, <1>4

\* A function of the elements sums up over a subsequence as over its places.
LEMMA SumOfSubsequence ==
  ASSUME NEW seq, NEW I, I \subseteq Int, IsFiniteSet(I),
         NEW n, n = Cardinality(I), NEW f, NEW g, \A i \in I : f[i] \in Int,
         \A k \in 1..n, i \in I : Subsequence(seq, I)[k] = seq[i] => g[k] = f[i]
  PROVE  SumFunctionOnSet(g, 1..n) = SumFunctionOnSet(f, I)
<1>1. n \in Nat
  BY FS_CardinalityType
<1>2. PICK place : KeepsPlaces(place, seq, I, n)
  BY SubsequenceKeeps
<1>3. IsFiniteSet(1..n)
  BY <1>1, FS_Interval
<1>4. \A k \in 1..n : g[k] \in Int /\ f[place[k]] = g[k]
  <2> SUFFICES ASSUME NEW k \in 1..n PROVE g[k] = f[place[k]] /\ place[k] \in I
    OBVIOUS
  <2>1. place[k] \in I /\ Subsequence(seq, I)[k] = seq[place[k]]
    BY <1>2 DEF KeepsPlaces
  <2> QED BY <2>1
<1> DEFINE S == 1..n
<1>5. Reindexes(place, S, g, I, f)
  BY <1>2, <1>4 DEF KeepsPlaces, Reindexes
<1>6. IsFiniteSet(S)
  BY <1>3
<1> HIDE DEF S
<1>7. SumFunctionOnSet(g, S) = SumFunctionOnSet(f, I)
  BY <1>5, <1>6, SumReindexed
<1> QED BY <1>7 DEF S

\* A subsequence of a sequence is one, of the same elements.
LEMMA SubsequenceType ==
  ASSUME NEW T, NEW seq \in Seq(T), NEW I, I \subseteq DOMAIN seq
  PROVE  /\ IsFiniteSet(I) /\ Cardinality(I) \in Nat
         /\ Subsequence(seq, I) \in Seq(T)
         /\ DOMAIN Subsequence(seq, I) = 1..Cardinality(I)
         /\ \A k \in DOMAIN Subsequence(seq, I) : \E i \in I : Subsequence(seq, I)[k] = seq[i]
<1>1. I \subseteq Int /\ IsFiniteSet(I)
  <2>1. IsFiniteSet(1..Len(seq)) /\ DOMAIN seq = 1..Len(seq)
    BY FS_Interval
  <2> QED BY <2>1, FS_Subset
<1>2. PICK n : n = Cardinality(I)
  OBVIOUS
<1>3. n \in Nat /\ \E place : KeepsPlaces(place, seq, I, n)
  BY <1>1, <1>2, SubsequenceKeeps
<1>4. PICK place : KeepsPlaces(place, seq, I, n)
  BY <1>3
<1>5. \A k \in 1..n : place[k] \in I /\ seq[place[k]] \in T
  BY <1>4 DEF KeepsPlaces
<1> DEFINE sub == [k \in 1..n |-> seq[place[k]]]
<1>6. sub \in Seq(T) /\ DOMAIN sub = 1..n /\ \A k \in 1..n : \E i \in I : sub[k] = seq[i]
  BY <1>3, <1>5
<1>7. Subsequence(seq, I) = sub
  BY <1>4 DEF KeepsPlaces
<1> HIDE DEF sub
<1> QED BY <1>1, <1>2, <1>3, <1>6, <1>7

LEMMA SequenceOf ==
  ASSUME NEW S, NEW T, NEW seq \in Seq(S), \A k \in DOMAIN seq : seq[k] \in T
  PROVE  seq \in Seq(T)
OBVIOUS

\* The last or the first of n + 1 numbers is added to the sum of the others.
LEMMA SumLast ==
  ASSUME NEW n \in Nat, NEW f, NEW g, f[n + 1] \in Int,
         \A i \in 1..n : f[i] \in Int /\ g[i] = f[i]
  PROVE  SumFunctionOnSet(f, 1..(n + 1)) = SumFunctionOnSet(g, 1..n) + f[n + 1]
<1> DEFINE S == 1..n
           x == n + 1
<1>1. IsFiniteSet(S) /\ x \notin S /\ 1..(n + 1) = S \cup {x}
  <2>1. IsFiniteSet(S)
    BY FS_Interval
  <2> QED BY <2>1
<1>2. f[x] \in Int /\ \A i \in S : f[i] \in Int /\ g[i] = f[i]
  OBVIOUS
<1>3. SumFunctionOnSet(f, S \cup {x}) = f[x] + SumFunctionOnSet(f, S)
  <2> HIDE DEF S, x
  <2> QED BY <1>1, <1>2, SumAdd
<1>4. SumFunctionOnSet(f, S) = SumFunctionOnSet(g, S) /\ SumFunctionOnSet(g, S) \in Int
  <2> HIDE DEF S, x
  <2> QED BY <1>1, <1>2, SumSame, SumType
<1>5. SumFunctionOnSet(f, S \cup {x}) = SumFunctionOnSet(g, S) + f[x]
  <2> SUFFICES ASSUME NEW a \in Int, NEW b \in Int, NEW c, c = b + a PROVE c = a + b
    BY <1>2, <1>3, <1>4
  <2> QED OBVIOUS
<1>6. SumFunctionOnSet(f, 1..(n + 1)) = SumFunctionOnSet(f, S \cup {x})
  BY <1>1, Zenon
<1> QED BY <1>5, <1>6

LEMMA SumFirst ==
  ASSUME NEW n \in Nat, NEW f, NEW g, f[1] \in Int,
         \A i \in 1..n : g[i] \in Int /\ f[i + 1] = g[i]
  PROVE  SumFunctionOnSet(f, 1..(n + 1)) = f[1] + SumFunctionOnSet(g, 1..n)
<1> DEFINE S == 1..n
           T == 2..(n + 1)
           p == [i \in S |-> i + 1]
<1>1. IsFiniteSet(S) /\ IsFiniteSet(T)
  <2>1. n \in Int /\ 1 \in Int /\ 2 \in Int /\ n + 1 \in Int
    OBVIOUS
  <2> QED BY <2>1, FS_Interval
<1>2. Reindexes(p, S, g, T, f)
  <2>1. \A y \in T : y - 1 \in S /\ p[y - 1] = y
    OBVIOUS
  <2>2. \A y \in T : \E i \in S : p[i] = y
    <3> HIDE DEF S, T, p
    <3> QED BY <2>1
  <2>3. \A i \in S : p[i] \in T /\ g[i] \in Int /\ f[p[i]] = g[i]
    OBVIOUS
  <2>4. \A i, j \in S : p[i] = p[j] => i = j
    OBVIOUS
  <2> HIDE DEF S, T, p
  <2> QED BY <2>2, <2>3, <2>4 DEF Reindexes
<1>3. SumFunctionOnSet(g, S) = SumFunctionOnSet(f, T)
  <2> HIDE DEF S, T, p
  <2> QED BY <1>1, <1>2, SumReindexed
<1>4. 1 \notin T /\ 1..(n + 1) = T \cup {1} /\ \A i \in T : f[i] \in Int
  <2>1. \A i \in T : i - 1 \in S /\ f[(i - 1) + 1] = g[i - 1] /\ (i - 1) + 1 = i
    OBVIOUS
  <2>2. \A i \in T : f[i] \in Int
    BY <2>1
  <2> QED BY <2>2
<1>5. SumFunctionOnSet(f, T \cup {1}) = f[1] + SumFunctionOnSet(f, T)
  <2> HIDE DEF S, T, p
  <2> QED BY <1>1, <1>4, SumAdd
<1> HIDE DEF S, T
<1> QED BY <1>3, <1>4, <1>5 DEF S

-----------------------------------------------------------------------------
LEMMA PrefixMax ==
  ASSUME NEW n \in Nat, NEW i \in 1..n
  PROVE  /\ Max(1..i) = i /\ (1..i) \ {i} = 1..(i - 1)
         /\ 1..i \in SUBSET (1..n) /\ 1..i # {} /\ 1..(i - 1) \in SUBSET (1..n)
<1>1. Max(1..i) = i
  BY DEF Max
<1> QED BY <1>1

\* The greatest of a set of numbers up to n is one of them.
LEMMA GreatestIsMember ==
  ASSUME NEW n \in Nat, NEW s \in SUBSET (1..n), s # {}
  PROVE  Max(s) \in s /\ \A x \in s : x <= Max(s)
<1> DEFINE T == {n - x : x \in s}
<1>1. T \subseteq Nat /\ T # {}
  <2>1. \A x \in 1..n : n - x \in Nat
    OBVIOUS
  <2> QED BY <2>1
<1>2. PICK m \in T : \A k \in T : m <= k
  <2> HIDE DEF T
  <2> QED BY <1>1, LeastNumber
<1>3. PICK x \in s : m = n - x
  BY <1>2
<1>4. \A y \in s : y <= x
  <2> SUFFICES ASSUME NEW y \in s PROVE y <= x
    OBVIOUS
  <2>1. n - x <= n - y
    BY <1>2, <1>3
  <2> QED BY <2>1
<1>5. \E y \in s : \A z \in s : y >= z
  BY <1>4
<1>6. Max(s) \in s /\ \A z \in s : Max(s) >= z
  BY <1>5 DEF Max
<1> QED BY <1>6

\* g is what a fold from the left comes to, H[i] being the step for the i-th of
\* a sequence of n; such a fold exists.
IsLeftFold(g, n, base, H) ==
  \A s \in SUBSET (1..n) : g[s] = IF s = {} THEN base ELSE H[Max(s)][g[s \ {Max(s)}]]

LEMMA LeftFoldExists ==
  ASSUME NEW n \in Nat, NEW Typ, NEW base \in Typ, NEW H \in [1..n -> [Typ -> Typ]]
  PROVE  \E g \in [SUBSET (1..n) -> Typ] : IsLeftFold(g, n, base, H)
<1> DEFINE c == [s \in SUBSET (1..n) |-> Max(s)]
<1>1. IsFiniteSet(1..n)
  BY FS_Interval
<1>2. ASSUME NEW s \in SUBSET (1..n), s # {} PROVE Max(s) \in s
  BY <1>2, GreatestIsMember
<1>3. Chooses(c, 1..n)
  BY <1>2 DEF Chooses
<1>4. PICK g \in [SUBSET (1..n) -> Typ] : IsFold(g, 1..n, base, H, c)
  <2> HIDE DEF c
  <2> QED BY <1>1, <1>3, FoldExists
<1> QED BY <1>4 DEF IsFold, IsLeftFold
\* part[s] is what x comes to in the group of key s; of[s] is x in it and 0 outside.
Groups(I, x, key, S, part, of) ==
  /\ \A i \in I : x[i] \in Int /\ key[i] \in S
  /\ \A s \in S : part[s] = SumFunctionOnSet(of[s], I)
  /\ \A s \in S, i \in I : of[s][i] = IF key[i] = s THEN x[i] ELSE 0

\* A sum by groups.
LEMMA SumByGroup ==
  ASSUME NEW I, IsFiniteSet(I), NEW S, IsFiniteSet(S), NEW x, NEW key, NEW part, NEW of,
         Groups(I, x, key, S, part, of)
  PROVE  SumFunctionOnSet(x, I) = SumFunctionOnSet(part, S)
<1> DEFINE Of(T) == {i \in I : key[i] \in T}
           Good == {T \in SUBSET S : SumFunctionOnSet(part, T) = SumFunctionOnSet(x, Of(T))}
<1> USE DEF Groups
<1>1. ASSUME NEW s \in S
      PROVE  part[s] \in Int /\ part[s] = SumFunctionOnSet(x, Of({s}))
  <2> DEFINE f == of[s]
             J == Of({s})
  <2>1. /\ \A i \in I : f[i] \in Int
        /\ \A i \in J : x[i] \in Int /\ f[i] = x[i]
        /\ \A i \in I \ J : f[i] = 0
        /\ J \in SUBSET I
    OBVIOUS
  <2>2. IsFiniteSet(J) /\ IsFiniteSet(I \ J)
    BY <2>1, FS_Subset
  <2>3. part[s] = SumFunctionOnSet(f, I)
    OBVIOUS
  <2> HIDE DEF f, J
  <2>4. SumFunctionOnSet(f, I) = SumFunctionOnSet(f, J) + SumFunctionOnSet(f, I \ J)
    BY <2>1, SumSplit
  <2>5. SumFunctionOnSet(f, I \ J) = 0
    BY <2>1, <2>2, SumZero
  <2>6. SumFunctionOnSet(x, J) = SumFunctionOnSet(f, J) /\ SumFunctionOnSet(f, J) \in Int
    BY <2>1, <2>2, SumSame, SumType
  <2> QED BY <2>3, <2>4, <2>5, <2>6 DEF J
<1>2. {} \in Good
  <2>1. Of({}) = {}
    OBVIOUS
  <2> QED BY <2>1, SumEmpty
<1>3. ASSUME NEW T \in SUBSET S, NEW s \in T, T \ {s} \in Good PROVE T \in Good
  <2> DEFINE R == T \ {s}
  <2>1. /\ Of({s}) \in SUBSET Of(T) /\ Of(T) \ Of({s}) = Of(R) /\ Of(T) \in SUBSET I
    OBVIOUS
  <2>2. IsFiniteSet(Of(T)) /\ \A i \in Of(T) : x[i] \in Int
    BY <2>1, FS_Subset
  <2>3. SumFunctionOnSet(x, Of(T)) = SumFunctionOnSet(x, Of({s})) + SumFunctionOnSet(x, Of(R))
    <3> DEFINE A == Of(T)
               B == Of({s})
    <3>1. IsFiniteSet(A) /\ B \in SUBSET A /\ (\A i \in A : x[i] \in Int) /\ A \ B = Of(R)
      BY <2>1, <2>2
    <3> HIDE DEF A, B
    <3>2. SumFunctionOnSet(x, A) = SumFunctionOnSet(x, B) + SumFunctionOnSet(x, A \ B)
      BY <3>1, SumSplit
    <3> QED BY <3>1, <3>2 DEF A, B
  <2>4. IsFiniteSet(T) /\ \A t \in T : part[t] \in Int
    BY <1>1, FS_Subset
  <2>5. SumFunctionOnSet(part, T) = part[s] + SumFunctionOnSet(part, R)
    BY <2>4, SumRemove
  <2>6. SumFunctionOnSet(part, R) = SumFunctionOnSet(x, Of(R))
    BY <1>3
  <2> QED BY <1>1, <2>3, <2>5, <2>6
<1>4. S \in Good
  <2> HIDE DEF Good
  <2> QED BY <1>2, <1>3, SubsetInduction
<1>5. Of(S) = I
  OBVIOUS
<1> QED BY <1>4, <1>5

\* The sum of n equal numbers.
LEMMA SumConstant ==
  ASSUME NEW n \in Nat, NEW k \in Int, NEW f, \A i \in 1..n : f[i] = k
  PROVE  SumFunctionOnSet(f, 1..n) = n * k
<1> DEFINE Good == {m \in 0..n : SumFunctionOnSet(f, 1..m) = m * k}
<1>1. 0 \in Good
  <2>1. 1..0 = {} /\ 0 * k = 0
    OBVIOUS
  <2> QED BY <2>1, SumEmpty
<1>2. ASSUME NEW m \in 0..(n - 1), m \in Good PROVE m + 1 \in Good
  <2>1. m \in Nat /\ m + 1 \in 0..n /\ \A i \in 1..m : f[i] \in Int /\ f[i] = f[i]
        /\ f[m + 1] \in Int /\ f[m + 1] = k
    OBVIOUS
  <2>2. SumFunctionOnSet(f, 1..(m + 1)) = SumFunctionOnSet(f, 1..m) + f[m + 1]
    BY <2>1, SumLast
  <2>3. SumFunctionOnSet(f, 1..m) = m * k
    BY <1>2
  <2>4. (m + 1) * k = m * k + k
    BY <2>1
  <2> QED BY <2>1, <2>2, <2>3, <2>4
<1>3. 0..n \subseteq Good
  <2> HIDE DEF Good
  <2> QED BY <1>1, <1>2, UpwardInduction
<1> QED BY <1>3

\* One number of a sum changed.
Updates(g, f, x, S) == g[x] \in Int /\ \A y \in S \ {x} : g[y] = f[y]

LEMMA SumUpdated ==
  ASSUME NEW S, IsFiniteSet(S), NEW f, NEW g, NEW x \in S, Updates(g, f, x, S),
         \A y \in S : f[y] \in Int
  PROVE  SumFunctionOnSet(g, S) = SumFunctionOnSet(f, S) - f[x] + g[x]
<1> DEFINE r == S \ {x}
<1>1. /\ IsFiniteSet(r) /\ \A y \in S : f[y] \in Int /\ g[y] \in Int
      /\ \A y \in r : f[y] \in Int /\ g[y] = f[y]
  BY FS_Subset DEF Updates
<1>2. SumFunctionOnSet(g, S) = g[x] + SumFunctionOnSet(g, r)
  BY <1>1, SumRemove
<1>3. SumFunctionOnSet(f, S) = f[x] + SumFunctionOnSet(f, r)
  BY <1>1, SumRemove
<1> HIDE DEF r
<1>4. SumFunctionOnSet(f, r) = SumFunctionOnSet(g, r) /\ SumFunctionOnSet(f, r) \in Int
  BY <1>1, SumSame, SumType
<1> QED BY <1>1, <1>2, <1>3, <1>4

LEMMA SumPlaced ==
  ASSUME NEW n \in Nat, NEW w \in [1..n -> Int], NEW k \in 1..n, NEW v \in Int
  PROVE  SumFunctionOnSet([w EXCEPT ![k] = v], 1..n) = SumFunctionOnSet(w, 1..n) - w[k] + v
<1> DEFINE S == 1..n
           u == [w EXCEPT ![k] = v]
<1>1. IsFiniteSet(S)
  <2>1. 1 \in Int /\ n \in Int
    OBVIOUS
  <2> QED BY <2>1, FS_Interval
<1>2. k \in S /\ u[k] = v /\ \A z \in S : w[z] \in Int
  OBVIOUS
<1>3. Updates(u, w, k, S)
  BY DEF Updates
<1> HIDE DEF S, u
<1>4. SumFunctionOnSet(u, S) = SumFunctionOnSet(w, S) - w[k] + u[k]
  BY <1>1, <1>2, <1>3, SumUpdated, ZenonT(30)
<1> QED BY <1>2, <1>4 DEF S, u

\* The places of a sequence in the order of its keys are all of them, once each.
ListsPlaces(e, key, n) ==
  /\ e \in [1..n -> 1..n]
  /\ \A i, j \in 1..n : i < j => key[e[i]] <= key[e[j]]
  /\ \A i, j \in 1..n : e[i] = e[j] => i = j
  /\ \A x \in 1..n : \E i \in 1..n : e[i] = x

LEMMA SortedPlacesList ==
  ASSUME NEW n \in Nat, NEW key \in [1..n -> Int], NEW e, e = SortedPlaces(key)
  PROVE  ListsPlaces(e, key, n)
<1> DEFINE I == 1..n
           before == {p \in I \X I : key[p[1]] < key[p[2]]
                                     \/ (key[p[1]] = key[p[2]] /\ p[1] < p[2])}
<1>1. e = Enumerated(I, before)
  BY DEF SortedPlaces
<1>2. StrictTotal(I, before)
  <2>1. \A i, j \in I : <<i, j>> \in before <=> key[i] < key[j] \/ (key[i] = key[j] /\ i < j)
    OBVIOUS
  <2>2. \A i \in I : i \in Int /\ key[i] \in Int
    OBVIOUS
  <2> HIDE DEF before, I
  <2> QED BY <2>1, <2>2 DEF StrictTotal
<1>3. IsFiniteSet(I) /\ n = Cardinality(I)
  <2>1. 1 \in Int /\ n \in Int
    OBVIOUS
  <2> QED BY <2>1, FS_Interval
<1>4. \A i, j \in I : <<i, j>> \in before => key[i] <= key[j]
  OBVIOUS
<1> HIDE DEF before
<1>5. /\ e \in [1..n -> I]
      /\ \A i, j \in 1..n : i < j => <<e[i], e[j]>> \in before
      /\ \A i, j \in 1..n : e[i] = e[j] => i = j
      /\ \A x \in I : \E i \in 1..n : e[i] = x
  <2> HIDE DEF I
  <2> QED BY <1>1, <1>2, <1>3, EnumeratedLists
<1>6. \A i, j \in 1..n : i < j => key[e[i]] <= key[e[j]]
  BY <1>4, <1>5
<1> QED BY <1>5, <1>6 DEF ListsPlaces
=============================================================================
