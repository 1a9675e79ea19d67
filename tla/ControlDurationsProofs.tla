----------------------- MODULE ControlDurationsProofs -----------------------
(* The accounting of the durations, proved for every set of devices, every *)
(* recovery window and any number of deaths of the process.  DurationsInv  *)
(* says of each side of a device what the rows are still good for at each  *)
(* statement of InitDB.  COALESCE(SUM(f), 0) is a fold, which takes the    *)
(* elements in an arbitrary order: the first part proves, from induction   *)
(* over the subsets of a finite set, that the order does not matter.       *)
EXTENDS ControlDurations, FiniteSetTheorems, WellFoundedInduction, TLAPS

-----------------------------------------------------------------------------
(* Sums.                                                                   *)

\* Induction over the subsets of a finite set: all are in T if each is that has every smaller
\* subset of it in T.
LEMMA SubsetInduction ==
  ASSUME NEW S, IsFiniteSet(S), NEW T \in SUBSET SUBSET S,
         \A u \in SUBSET S : (\A v \in SUBSET u : v # u => v \in T) => u \in T
  PROVE  T = SUBSET S
<1> SUFFICES ASSUME T # SUBSET S PROVE FALSE
  OBVIOUS
<1> DEFINE R == StrictSubsetOrdering(S)
           bad == (SUBSET S) \ T
<1>1. IsWellFoundedOn(R, FiniteSubsetsOf(S))
  BY FS_StrictSubsetOrderingWellFounded
<1>2. bad \in SUBSET FiniteSubsetsOf(S) /\ bad # {}
  BY FS_Subset DEF FiniteSubsetsOf
<1> HIDE DEF R
<1>3. PICK m \in bad : \A s \in bad : ~ (<<s, m>> \in R)
  <2> HIDE DEF bad
  <2> QED
    BY <1>1, <1>2, WFMin
<1>4. ASSUME NEW v \in SUBSET m, v # m PROVE v \in T
  <2>1. <<v, m>> \in R
    BY <1>4 DEF R, StrictSubsetOrdering
  <2> QED
    BY <1>3, <1>4, <2>1
<1> QED
  BY <1>4

\* Likewise if T has the empty set, and with a set that set with one more element.
LEMMA OneMoreInduction ==
  ASSUME NEW S, IsFiniteSet(S), NEW T \in SUBSET SUBSET S,
         {} \in T, \A s \in T : \A x \in S \ s : s \cup {x} \in T
  PROVE  S \in T
<1>1. ASSUME NEW u \in SUBSET S, \A v \in SUBSET u : v # u => v \in T PROVE u \in T
  <2>1. CASE u # {}
    <3>1. PICK x \in u : TRUE
      BY <2>1
    <3>2. u \ {x} \in T /\ x \in S \ (u \ {x}) /\ (u \ {x}) \cup {x} = u
      BY <1>1, <3>1
    <3> QED
      BY <3>2
  <2> QED
    BY <2>1
<1>2. T = SUBSET S
  BY <1>1, SubsetInduction
<1> QED
  BY <1>2

\* The element that a sum takes first.
Some(s) == CHOOSE x \in s : TRUE

\* What an entry of the fold over the subsets of S is.
Entry(f, g, s) == IF s = {} THEN 0 ELSE f[Some(s)] + g[s \ {Some(s)}]

\* The function that the fold over S defines.
IsFold(f, g, S) == g = [s \in SUBSET S |-> Entry(f, g, s)]

\* The recursion of the fold has a solution.
LEMMA FoldExists ==
  ASSUME NEW S, IsFiniteSet(S), NEW f, \A x \in S : f[x] \in Nat
  PROVE  \E g \in [SUBSET S -> Nat] : IsFold(f, g, S)
<1> DEFINE Sub(n) == {u \in SUBSET S : Cardinality(u) <= n}
           Fits(g, n) == g \in [Sub(n) -> Nat] /\ \A u \in Sub(n) : g[u] = Entry(f, g, u)
           T == {s \in SUBSET S : \E g : Fits(g, Cardinality(s))}
<1>1. \A u \in SUBSET S : IsFiniteSet(u) /\ Cardinality(u) \in Nat
  BY FS_Subset, FS_CardinalityType
<1>2. {} \in T
  <2>1. \A u \in Sub(0) : u = {}
    BY <1>1, FS_EmptySet
  <2>2. Fits([u \in Sub(0) |-> 0], 0)
    BY <2>1 DEF Entry
  <2> HIDE DEF Fits
  <2> QED
    BY <2>2, FS_EmptySet
<1>3. ASSUME NEW s \in T, NEW x \in S \ s PROVE s \cup {x} \in T
  <2> DEFINE n == Cardinality(s)
  <2>1. s \in SUBSET S /\ n \in Nat /\ Cardinality(s \cup {x}) = n + 1
    BY <1>1, FS_AddElement
  <2>2. PICK g : Fits(g, n)
    OBVIOUS
  <2> HIDE DEF n
  <2> DEFINE h == [u \in Sub(n + 1) |-> IF Cardinality(u) = n + 1 THEN Entry(f, g, u) ELSE g[u]]
  <2>3. \A u \in Sub(n + 1) : Cardinality(u) = n + 1 \/ u \in Sub(n)
    BY <1>1, <2>1
  <2>4. ASSUME NEW u \in Sub(n + 1), u # {}
        PROVE  Some(u) \in S /\ u \ {Some(u)} \in Sub(n) /\ u \ {Some(u)} \in Sub(n + 1)
    <3>1. Some(u) \in u
      BY <2>4 DEF Some
    <3>2. u \ {Some(u)} \in SUBSET S /\ Cardinality(u \ {Some(u)}) = Cardinality(u) - 1
      BY <1>1, <3>1, FS_RemoveElement
    <3> QED
      BY <1>1, <2>1, <3>1, <3>2
  <2>5. \A u \in Sub(n) : Cardinality(u) # n + 1 /\ u \in Sub(n + 1)
    BY <1>1, <2>1
  <2>6. \A u \in Sub(n) : g[u] \in Nat /\ g[u] = Entry(f, g, u) /\ h[u] = g[u]
    BY <2>2, <2>5
  <2>7. \A u \in Sub(n + 1) : Entry(f, h, u) = Entry(f, g, u)
    <3> HIDE DEF h, Sub
    <3> QED
      BY <2>4, <2>6 DEF Entry
  <2>8. ASSUME NEW u \in Sub(n + 1) PROVE Entry(f, g, u) \in Nat
    <3>1. CASE u = {}
      BY <3>1 DEF Entry
    <3>2. CASE u # {}
      <4>1. f[Some(u)] \in Nat /\ g[u \ {Some(u)}] \in Nat
        BY <2>4, <2>6, <3>2
      <4> QED
        BY <3>2, <4>1 DEF Entry
    <3> QED
      BY <3>1, <3>2
  <2>9. \A u \in Sub(n + 1) : h[u] = Entry(f, g, u)
    <3>1. \A u \in Sub(n + 1) : h[u] = IF Cardinality(u) = n + 1 THEN Entry(f, g, u) ELSE g[u]
      OBVIOUS
    <3> HIDE DEF h, Sub
    <3> QED
      BY <2>3, <2>6, <3>1
  <2>10. Fits(h, n + 1)
    <3>1. h = [u \in Sub(n + 1) |-> Entry(f, g, u)]
      BY <2>9
    <3> HIDE DEF h, Sub
    <3> QED
      BY <2>7, <2>8, <2>9, <3>1
  <2> HIDE DEF Fits
  <2> QED
    BY <2>1, <2>10
<1>4. S \in T
  <2>1. T \in SUBSET SUBSET S /\ S \in SUBSET S
    OBVIOUS
  <2> HIDE DEF T
  <2>2. \A s \in T : \A x \in S \ s : s \cup {x} \in T
    BY <1>3
  <2> QED
    BY <1>2, <2>1, <2>2, OneMoreInduction
<1>5. PICK g : Fits(g, Cardinality(S))
  BY <1>4
<1>6. Sub(Cardinality(S)) = SUBSET S
  BY FS_Subset
<1> QED
  BY <1>5, <1>6 DEF IsFold

\* It is the only one, on each subset, whatever the set that the fold began with.
LEMMA FoldUnique ==
  ASSUME NEW S, IsFiniteSet(S), NEW f,
         NEW g, IsFold(f, g, S), NEW R \in SUBSET S, NEW h, IsFold(f, h, R)
  PROVE  \A u \in SUBSET R : g[u] = h[u]
<1> DEFINE T == {u \in SUBSET R : g[u] = h[u]}
<1>1. ASSUME NEW u \in SUBSET R, \A v \in SUBSET u : v # u => v \in T PROVE u \in T
  <2>1. g[u] = Entry(f, g, u) /\ h[u] = Entry(f, h, u)
    BY DEF IsFold
  <2>2. CASE u = {}
    BY <2>1, <2>2 DEF Entry
  <2>3. CASE u # {}
    <3>1. Some(u) \in u
      BY <2>3 DEF Some
    <3>2. u \ {Some(u)} \in T
      BY <1>1, <3>1
    <3>3. g[u \ {Some(u)}] = h[u \ {Some(u)}]
      BY <3>2
    <3> QED
      BY <2>1, <2>3, <3>3 DEF Entry
  <2> QED
    BY <2>2, <2>3
<1>2. T = SUBSET R
  <2>1. IsFiniteSet(R) /\ T \in SUBSET SUBSET R
    BY FS_Subset
  <2> HIDE DEF T
  <2> QED
    BY <1>1, <2>1, SubsetInduction
<1> QED
  BY <1>2

LEMMA SumIsFold ==
  ASSUME NEW S, IsFiniteSet(S), NEW f, \A x \in S : f[x] \in Nat
  PROVE  \E g \in [SUBSET S -> Nat] : IsFold(f, g, S) /\ SumOver(f, S) = g[S]
<1>1. PICK h \in [SUBSET S -> Nat] : IsFold(f, h, S)
  BY FoldExists
<1> DEFINE g == CHOOSE g : IsFold(f, g, S)
<1>2. SumOver(f, S) = g[S]
  BY DEF SumOver, MapThenSumSet, MapThenFoldSet, IsFold, Entry, Some
<1>3. IsFold(f, g, S)
  BY <1>1
<1> HIDE DEF g
<1>4. \A u \in SUBSET S : g[u] = h[u]
  <2>1. S \in SUBSET S
    OBVIOUS
  <2> QED
    BY <1>1, <1>3, <2>1, FoldUnique
<1>5. g \in [SUBSET S -> Nat]
  <2>1. g = [s \in SUBSET S |-> Entry(f, g, s)]
    BY <1>3 DEF IsFold
  <2> QED
    BY <1>1, <1>4, <2>1
<1> QED
  BY <1>2, <1>3, <1>5

\* The sum over a finite set, element by element, whichever is taken first.
LEMMA SumOfNone ==
  ASSUME NEW f
  PROVE  SumOver(f, {}) = 0
<1>1. PICK g : IsFold(f, g, {}) /\ SumOver(f, {}) = g[{}]
  BY SumIsFold, FS_EmptySet
<1>2. g[{}] = Entry(f, g, {})
  BY <1>1 DEF IsFold
<1> QED
  BY <1>1, <1>2 DEF Entry

LEMMA SumTakesSome ==
  ASSUME NEW S, IsFiniteSet(S), NEW f, \A x \in S : f[x] \in Nat
  PROVE  /\ SumOver(f, S) \in Nat
         /\ S # {} => SumOver(f, S) = f[Some(S)] + SumOver(f, S \ {Some(S)})
<1>1. PICK g \in [SUBSET S -> Nat] : IsFold(f, g, S) /\ SumOver(f, S) = g[S]
  BY SumIsFold
<1>2. SumOver(f, S) \in Nat
  BY <1>1
<1>3. ASSUME S # {} PROVE SumOver(f, S) = f[Some(S)] + SumOver(f, S \ {Some(S)})
  <2> DEFINE R == S \ {Some(S)}
  <2>1. R \in SUBSET S /\ IsFiniteSet(R)
    BY FS_Subset
  <2>2. PICK h \in [SUBSET R -> Nat] : IsFold(f, h, R) /\ SumOver(f, R) = h[R]
    BY <2>1, SumIsFold
  <2> HIDE DEF R
  <2>3. \A u \in SUBSET R : g[u] = h[u]
    BY <1>1, <2>1, <2>2, FoldUnique
  <2>4. g[R] = SumOver(f, R)
    BY <2>2, <2>3
  <2>5. g[S] = f[Some(S)] + g[R]
    <3>1. g[S] = Entry(f, g, S)
      BY <1>1 DEF IsFold
    <3> QED
      BY <1>3, <3>1 DEF Entry, R
  <2> QED
    BY <1>1, <2>4, <2>5 DEF R
<1> QED
  BY <1>2, <1>3

LEMMA SumTakes ==
  ASSUME NEW S, IsFiniteSet(S), NEW f, \A x \in S : f[x] \in Nat, NEW x \in S
  PROVE  SumOver(f, S) = f[x] + SumOver(f, S \ {x})
<1> DEFINE Takes(u) == \A y \in u : SumOver(f, u) = f[y] + SumOver(f, u \ {y})
           T == {u \in SUBSET S : Takes(u)}
<1>1. \A u \in SUBSET S : IsFiniteSet(u) /\ SumOver(f, u) \in Nat
  BY FS_Subset, SumTakesSome
<1>2. ASSUME NEW u \in SUBSET S, \A v \in SUBSET u : v # u => v \in T PROVE u \in T
  <2> SUFFICES ASSUME NEW y \in u PROVE SumOver(f, u) = f[y] + SumOver(f, u \ {y})
    OBVIOUS
  <2> DEFINE z == Some(u)
  <2>1. z \in u /\ IsFiniteSet(u)
    BY <1>1 DEF Some
  <2>2. SumOver(f, u) = f[z] + SumOver(f, u \ {z})
    BY <2>1, SumTakesSome
  <2> HIDE DEF z
  <2>3. CASE y # z
    <3>1. u \ {z} \in T /\ y \in u \ {z} /\ u \ {y} \in T /\ z \in u \ {y}
      BY <1>2, <2>1, <2>3
    <3>2. SumOver(f, u \ {z}) = f[y] + SumOver(f, (u \ {z}) \ {y})
      BY <3>1
    <3>3. SumOver(f, u \ {y}) = f[z] + SumOver(f, (u \ {y}) \ {z})
      BY <3>1
    <3>4. (u \ {z}) \ {y} = (u \ {y}) \ {z}
      OBVIOUS
    <3>5. f[y] \in Nat /\ f[z] \in Nat /\ SumOver(f, (u \ {y}) \ {z}) \in Nat
      BY <1>1, <2>1
    <3> HIDE DEF T, Takes
    <3> QED
      BY <2>2, <3>2, <3>3, <3>4, <3>5
  <2> QED
    BY <2>2, <2>3
<1>3. T = SUBSET S
  <2>1. T \in SUBSET SUBSET S
    OBVIOUS
  <2> HIDE DEF T
  <2> QED
    BY <1>2, <2>1, SubsetInduction
<1> QED
  BY <1>3

LEMMA SumType ==
  ASSUME NEW S, IsFiniteSet(S), NEW f, \A x \in S : f[x] \in Nat
  PROVE  SumOver(f, S) \in Nat
  BY SumTakesSome

\* A set with one more element.
LEMMA SumWith ==
  ASSUME NEW S, IsFiniteSet(S), NEW f, \A x \in S : f[x] \in Nat,
         NEW s \in SUBSET S, NEW y \in S \ s
  PROVE  /\ SumOver(f, s \cup {y}) = f[y] + SumOver(f, s)
         /\ SumOver(f, s) \in Nat /\ f[y] \in Nat
<1>1. IsFiniteSet(s) /\ IsFiniteSet(s \cup {y}) /\ (s \cup {y}) \ {y} = s
  BY FS_Subset
<1>2. \A x \in s \cup {y} : f[x] \in Nat
  OBVIOUS
<1> QED
  BY <1>1, <1>2, SumTakes, SumType

LEMMA SumGrows ==
  ASSUME NEW S, IsFiniteSet(S), NEW f, NEW g,
         \A x \in S : f[x] \in Nat /\ g[x] \in Nat /\ f[x] <= g[x]
  PROVE  SumOver(f, S) <= SumOver(g, S)
<1> DEFINE T == {s \in SUBSET S : SumOver(f, s) <= SumOver(g, s)}
<1>1. {} \in T
  BY SumOfNone
<1>2. ASSUME NEW s \in T, NEW y \in S \ s PROVE s \cup {y} \in T
  <2>1. /\ SumOver(f, s \cup {y}) = f[y] + SumOver(f, s)
        /\ SumOver(f, s) \in Nat /\ f[y] \in Nat
        /\ SumOver(g, s \cup {y}) = g[y] + SumOver(g, s)
        /\ SumOver(g, s) \in Nat /\ g[y] \in Nat
    BY SumWith
  <2>2. f[y] <= g[y] /\ SumOver(f, s) <= SumOver(g, s)
    OBVIOUS
  <2> QED
    BY <2>1, <2>2
<1>3. S \in T
  <2>1. T \in SUBSET SUBSET S
    OBVIOUS
  <2> HIDE DEF T
  <2>2. \A s \in T : \A y \in S \ s : s \cup {y} \in T
    BY <1>2
  <2> QED
    BY <1>1, <2>1, <2>2, OneMoreInduction
<1> QED
  BY <1>3

LEMMA SumSame ==
  ASSUME NEW S, IsFiniteSet(S), NEW f, NEW g,
         \A x \in S : f[x] \in Nat /\ f[x] = g[x]
  PROVE  SumOver(f, S) = SumOver(g, S)
<1>1. SumOver(f, S) <= SumOver(g, S) /\ SumOver(g, S) <= SumOver(f, S)
  <2>1. \A x \in S : g[x] \in Nat /\ f[x] <= g[x] /\ g[x] <= f[x]
    OBVIOUS
  <2> QED
    BY <2>1, SumGrows
<1>2. SumOver(f, S) \in Nat /\ SumOver(g, S) \in Nat
  BY SumType
<1> QED
  BY <1>1, <1>2

LEMMA SumPlus ==
  ASSUME NEW S, IsFiniteSet(S), NEW f, NEW g, NEW h,
         \A x \in S : f[x] \in Nat /\ g[x] \in Nat /\ h[x] = f[x] + g[x]
  PROVE  SumOver(h, S) = SumOver(f, S) + SumOver(g, S)
<1> DEFINE T == {s \in SUBSET S : SumOver(h, s) = SumOver(f, s) + SumOver(g, s)}
<1>1. {} \in T
  BY SumOfNone
<1>2. ASSUME NEW s \in T, NEW y \in S \ s PROVE s \cup {y} \in T
  <2>1. /\ SumOver(f, s \cup {y}) = f[y] + SumOver(f, s)
        /\ SumOver(f, s) \in Nat /\ f[y] \in Nat
        /\ SumOver(g, s \cup {y}) = g[y] + SumOver(g, s)
        /\ SumOver(g, s) \in Nat /\ g[y] \in Nat
    BY SumWith
  <2>2. SumOver(h, s \cup {y}) = h[y] + SumOver(h, s)
    <3>1. \A x \in S : h[x] \in Nat
      OBVIOUS
    <3> QED
      BY <3>1, SumWith
  <2>3. h[y] = f[y] + g[y] /\ SumOver(h, s) = SumOver(f, s) + SumOver(g, s)
    OBVIOUS
  <2> QED
    BY <2>1, <2>2, <2>3
<1>3. S \in T
  <2>1. T \in SUBSET SUBSET S
    OBVIOUS
  <2> HIDE DEF T
  <2>2. \A s \in T : \A y \in S \ s : s \cup {y} \in T
    BY <1>2
  <2> QED
    BY <1>1, <2>1, <2>2, OneMoreInduction
<1> QED
  BY <1>3

LEMMA SumOfZeros ==
  ASSUME NEW S, IsFiniteSet(S), NEW f, \A x \in S : f[x] = 0
  PROVE  SumOver(f, S) = 0
<1>1. PICK n \in Nat : n = SumOver(f, S)
  BY SumType
<1>2. n = n + n
  BY <1>1, SumPlus
<1>3. n = 0
  BY <1>2
<1> QED
  BY <1>1, <1>3

\* What one element changes, the sum changes by.
LEMMA SumChanges ==
  ASSUME NEW S, IsFiniteSet(S), NEW f, NEW g, NEW y \in S,
         \A x \in S : f[x] \in Nat /\ g[x] \in Nat /\ (x # y => f[x] = g[x])
  PROVE  SumOver(f, S) + g[y] = SumOver(g, S) + f[y]
<1> DEFINE R == S \ {y}
<1>1. IsFiniteSet(R)
  BY FS_RemoveElement
<1>2. SumOver(f, S) = f[y] + SumOver(f, R) /\ SumOver(g, S) = g[y] + SumOver(g, R)
  BY SumTakes
<1>3. SumOver(f, R) \in Nat /\ SumOver(f, R) = SumOver(g, R)
  BY <1>1, SumType, SumSame
<1> HIDE DEF R
<1> QED
  BY <1>2, <1>3

\* A sum is the sum over the parts, where p tells the part of each element.
LEMMA SumOfParts ==
  ASSUME NEW S, IsFiniteSet(S), NEW P, IsFiniteSet(P), NEW p, \A x \in S : p[x] \in P,
         NEW f, \A x \in S : f[x] \in Nat
  PROVE  SumOver([d \in P |-> SumOver(f, {x \in S : p[x] = d})], P) = SumOver(f, S)
<1> DEFINE part(s, d) == {x \in s : p[x] = d}
           parts(s) == [d \in P |-> SumOver(f, part(s, d))]
           T == {s \in SUBSET S : SumOver(parts(s), P) = SumOver(f, s)}
<1>1. ASSUME NEW s \in SUBSET S, NEW d \in P PROVE IsFiniteSet(part(s, d)) /\ parts(s)[d] \in Nat
  <2>1. IsFiniteSet(part(s, d)) /\ \A x \in part(s, d) : f[x] \in Nat
    <3>1. part(s, d) \in SUBSET S
      OBVIOUS
    <3> QED
      BY <3>1, FS_Subset
  <2>2. SumOver(f, part(s, d)) \in Nat
    BY <2>1, SumType
  <2> QED
    BY <2>1, <2>2
<1>2. {} \in T
  <2>1. \A d \in P : parts({})[d] = 0
    <3>1. \A d \in P : part({}, d) = {}
      OBVIOUS
    <3> HIDE DEF part
    <3> QED
      BY <3>1, SumOfNone
  <2> HIDE DEF parts
  <2>2. SumOver(parts({}), P) = 0
    BY <2>1, SumOfZeros
  <2> QED
    BY <2>2, SumOfNone
<1>3. ASSUME NEW s \in T, NEW y \in S \ s PROVE s \cup {y} \in T
  <2> DEFINE r == s \cup {y}
             e == p[y]
  <2>1. r \in SUBSET S /\ e \in P /\ s \in SUBSET S
    OBVIOUS
  <2>2. \A d \in P : d # e => parts(r)[d] = parts(s)[d]
    <3>1. \A d \in P : d # e => part(r, d) = part(s, d)
      OBVIOUS
    <3> HIDE DEF part
    <3> QED
      BY <3>1
  <2>3. parts(r)[e] = f[y] + parts(s)[e]
    <3>1. part(r, e) = part(s, e) \cup {y} /\ part(s, e) \in SUBSET S /\ y \in S \ part(s, e)
      OBVIOUS
    <3>2. PICK q \in SUBSET S : q = part(s, e)
      BY <3>1
    <3>3. part(r, e) = q \cup {y} /\ y \in S \ q
      BY <3>1, <3>2
    <3>4. SumOver(f, q \cup {y}) = f[y] + SumOver(f, q)
      BY <3>3, SumWith
    <3> HIDE DEF part, r, e
    <3> QED
      BY <2>1, <3>2, <3>3, <3>4
  <2>4. SumOver(f, r) = f[y] + SumOver(f, s) /\ SumOver(f, s) \in Nat /\ f[y] \in Nat
    BY <2>1, SumWith
  <2>5. \A d \in P : parts(r)[d] \in Nat /\ parts(s)[d] \in Nat
    BY <1>1, <2>1
  <2>6. SumOver(parts(s), P) = SumOver(f, s)
    OBVIOUS
  <2> HIDE DEF parts, r, e
  <2>7. SumOver(parts(r), P) + parts(s)[e] = SumOver(parts(s), P) + parts(r)[e]
    BY <2>1, <2>2, <2>5, SumChanges
  <2>8. SumOver(parts(r), P) \in Nat /\ parts(s)[e] \in Nat /\ parts(r)[e] \in Nat
    BY <2>1, <2>5, SumType
  <2>9. SumOver(parts(r), P) = SumOver(f, r)
    BY <2>3, <2>4, <2>6, <2>7, <2>8
  <2> QED
    BY <2>1, <2>9 DEF r
<1>4. S \in T
  <2>1. T \in SUBSET SUBSET S
    OBVIOUS
  <2> HIDE DEF T
  <2>2. \A s \in T : \A y \in S \ s : s \cup {y} \in T
    BY <1>3
  <2> QED
    BY <1>2, <2>1, <2>2, OneMoreInduction
<1> QED
  BY <1>4

-----------------------------------------------------------------------------
(* What the rows amount to, as a function of the column.                   *)

OngoingOf(f, K, t) == SumOver([k \in Keys |-> Elapsed(f[k], t)], K)

LEMMA Finite ==
  /\ IsFiniteSet(Keys) /\ IsFiniteSet(Devices)
  /\ \A K \in SUBSET Keys : IsFiniteSet(K)
<1>1. IsFiniteSet(Ids \X Ids)
  BY DurationsAssumption, FS_Product
<1>2. IsFiniteSet(Keys) /\ \A K \in SUBSET Keys : IsFiniteSet(K)
  BY <1>1, FS_Subset, DurationsAssumption
<1>3. IsFiniteSet(Devices)
  BY DurationsAssumption, FS_Subset DEF Devices
<1> QED
  BY <1>2, <1>3

LEMMA ElapsedType ==
  ASSUME NEW from \in Nat, NEW t \in Nat
  PROVE  Elapsed(from, t) \in Nat
  BY DEF Elapsed

LEMMA ElapsedGrows ==
  ASSUME NEW from \in Nat, NEW t \in Nat, NEW u \in Nat, t <= u
  PROVE  Elapsed(from, t) <= Elapsed(from, u)
  BY DEF Elapsed

LEMMA OngoingType ==
  ASSUME NEW f \in [Keys -> Nat], NEW K \in SUBSET Keys, NEW t \in Nat
  PROVE  OngoingOf(f, K, t) \in Nat
<1> DEFINE e == [k \in Keys |-> Elapsed(f[k], t)]
<1>1. \A k \in K : e[k] \in Nat
  BY ElapsedType
<1> HIDE DEF e
<1>2. SumOver(e, K) \in Nat
  BY <1>1, Finite, SumType
<1> QED
  BY <1>2 DEF OngoingOf, e

LEMMA OngoingGrows ==
  ASSUME NEW f \in [Keys -> Nat], NEW K \in SUBSET Keys, NEW t \in Nat, NEW u \in Nat, t <= u
  PROVE  OngoingOf(f, K, t) <= OngoingOf(f, K, u)
<1> DEFINE e == [k \in Keys |-> Elapsed(f[k], t)]
           g == [k \in Keys |-> Elapsed(f[k], u)]
<1>1. \A k \in K : e[k] \in Nat /\ g[k] \in Nat /\ e[k] <= g[k]
  BY ElapsedType, ElapsedGrows
<1> HIDE DEF e, g
<1>2. SumOver(e, K) <= SumOver(g, K)
  BY <1>1, Finite, SumGrows
<1> QED
  BY <1>2 DEF OngoingOf, e, g

\* A row that begins now amounts to nothing yet, and to nothing at an earlier time.
LEMMA OngoingStarts ==
  ASSUME NEW f \in [Keys -> Nat], NEW K \in SUBSET Keys, NEW t \in Nat,
         NEW n \in Nat, t <= n, NEW g \in [Keys -> Nat],
         \A x \in Keys : g[x] = f[x] \/ (f[x] = 0 /\ g[x] = n)
  PROVE  OngoingOf(g, K, t) = OngoingOf(f, K, t)
<1> DEFINE e == [x \in Keys |-> Elapsed(f[x], t)]
           h == [x \in Keys |-> Elapsed(g[x], t)]
<1>1. \A x \in K : e[x] \in Nat /\ e[x] = h[x]
  BY DEF Elapsed
<1> HIDE DEF e, h
<1>2. SumOver(e, K) = SumOver(h, K)
  BY <1>1, Finite, SumSame
<1> QED
  BY <1>2 DEF OngoingOf, e, h

\* What the row with key k adds to the sum over K.
Share(f, k, K, t) == IF k \in K THEN Elapsed(f[k], t) ELSE 0

\* A row that ends takes its share out of the sum.
LEMMA OngoingEnds ==
  ASSUME NEW f \in [Keys -> Nat], NEW K \in SUBSET Keys, NEW t \in Nat, NEW k \in Keys,
         NEW g \in [Keys -> Nat], \A x \in Keys : g[x] = IF x = k THEN 0 ELSE f[x]
  PROVE  OngoingOf(f, K, t) = OngoingOf(g, K, t) + Share(f, k, K, t)
<1> DEFINE e == [x \in Keys |-> Elapsed(f[x], t)]
           h == [x \in Keys |-> Elapsed(g[x], t)]
<1>1. \A x \in K : e[x] \in Nat /\ h[x] \in Nat /\ (x # k => e[x] = h[x])
  BY ElapsedType
<1>2. e[k] = Elapsed(f[k], t) /\ h[k] = 0 /\ e[k] \in Nat
  BY ElapsedType DEF Elapsed
<1> HIDE DEF e, h
<1>3. SumOver(e, K) \in Nat /\ SumOver(h, K) \in Nat
  BY <1>1, Finite, SumType
<1>4. SumOver(e, K) = SumOver(h, K) + Share(f, k, K, t)
  <2>1. CASE k \in K
    <3>1. SumOver(e, K) + h[k] = SumOver(h, K) + e[k]
      BY <1>1, <2>1, Finite, SumChanges
    <3> QED
      BY <1>2, <1>3, <2>1, <3>1 DEF Share
  <2>2. CASE k \notin K
    <3>1. SumOver(e, K) = SumOver(h, K)
      BY <1>1, <2>2, Finite, SumSame
    <3> QED
      BY <1>3, <2>2, <3>1 DEF Share
  <2> QED
    BY <2>1, <2>2
<1> QED
  BY <1>4 DEF OngoingOf, e, h

\* The rows in column f live for one more tick: m is what l becomes.
OneTickMore(f, l, m) == \A k \in Keys : m[k] = IF f[k] # 0 THEN l[k] + 1 ELSE l[k]

\* A tick of the clock adds as much to the rows as to the time they have lived.
LEMMA OngoingTicks ==
  ASSUME NEW f \in [Keys -> Nat], NEW n \in Nat, \A k \in Keys : f[k] <= n,
         NEW K \in SUBSET Keys, NEW l \in [Keys -> Nat], NEW m \in [Keys -> Nat],
         OneTickMore(f, l, m)
  PROVE  /\ OngoingOf(f, K, n + 1) + SumOver(l, K) = OngoingOf(f, K, n) + SumOver(m, K)
         /\ SumOver(l, K) \in Nat /\ SumOver(m, K) \in Nat /\ SumOver(l, K) <= SumOver(m, K)
<1> DEFINE e == [k \in Keys |-> Elapsed(f[k], n)]
           h == [k \in Keys |-> Elapsed(f[k], n + 1)]
           one == [k \in Keys |-> IF f[k] # 0 THEN 1 ELSE 0]
<1>1. \A k \in K : e[k] \in Nat /\ one[k] \in Nat /\ l[k] \in Nat
  BY ElapsedType
<1>2. \A k \in K : h[k] = e[k] + one[k]
  BY DEF Elapsed
<1>3. \A k \in K : m[k] = l[k] + one[k]
  BY DEF OneTickMore
<1> HIDE DEF e, h, one
<1>4. SumOver(h, K) = SumOver(e, K) + SumOver(one, K)
  BY <1>1, <1>2, Finite, SumPlus
<1>5. SumOver(m, K) = SumOver(l, K) + SumOver(one, K)
  BY <1>1, <1>3, Finite, SumPlus
<1>6. SumOver(e, K) \in Nat /\ SumOver(one, K) \in Nat /\ SumOver(l, K) \in Nat
  BY <1>1, Finite, SumType
<1>7. OngoingOf(f, K, n + 1) = SumOver(h, K) /\ OngoingOf(f, K, n) = SumOver(e, K)
  BY DEF OngoingOf, e, h
<1> QED
  BY <1>4, <1>5, <1>6, <1>7

LEMMA OngoingNone ==
  ASSUME NEW K \in SUBSET Keys, NEW t \in Nat
  PROVE  OngoingOf([k \in Keys |-> 0], K, t) = 0
<1> DEFINE e == [x \in Keys |-> Elapsed([k \in Keys |-> 0][x], t)]
<1>1. \A k \in K : e[k] = 0
  BY DEF Elapsed
<1> HIDE DEF e
<1>2. SumOver(e, K) = 0
  BY <1>1, Finite, SumOfZeros
<1> QED
  BY <1>2 DEF OngoingOf, e

\* Both ways of dividing the keys among the devices give the same total.
LEMMA OngoingDivides ==
  ASSUME NEW f \in [Keys -> Nat], NEW t \in Nat
  PROVE  SumOver([d \in Devices |-> OngoingOf(f, AsGuest(d), t)], Devices)
           = SumOver([d \in Devices |-> OngoingOf(f, AsHost(d), t)], Devices)
<1> DEFINE e == [k \in Keys |-> Elapsed(f[k], t)]
           guest == [k \in Keys |-> Base[k[2]]]
           host == [k \in Keys |-> Base[k[1]]]
<1>1. \A k \in Keys : e[k] \in Nat
  BY ElapsedType
<1>2. \A k \in Keys : guest[k] \in Devices /\ host[k] \in Devices
  BY DurationsAssumption DEF Devices
<1>3. \A d \in Devices : AsGuest(d) = {k \in Keys : guest[k] = d}
  BY DEF AsGuest
<1>4. \A d \in Devices : AsHost(d) = {k \in Keys : host[k] = d}
  BY DEF AsHost
<1>5. \A K \in SUBSET Keys : OngoingOf(f, K, t) = SumOver(e, K)
  BY DEF OngoingOf
<1>6. \A d \in Devices : AsGuest(d) \in SUBSET Keys /\ AsHost(d) \in SUBSET Keys
  BY DEF AsGuest, AsHost
<1> HIDE DEF e, guest, host
<1>7. SumOver([d \in Devices |-> SumOver(e, {k \in Keys : guest[k] = d})], Devices) = SumOver(e, Keys)
  BY <1>1, <1>2, Finite, SumOfParts
<1>8. SumOver([d \in Devices |-> SumOver(e, {k \in Keys : host[k] = d})], Devices) = SumOver(e, Keys)
  BY <1>1, <1>2, Finite, SumOfParts
<1>9. [d \in Devices |-> OngoingOf(f, AsGuest(d), t)]
        = [d \in Devices |-> SumOver(e, {k \in Keys : guest[k] = d})]
  BY <1>3, <1>5, <1>6
<1>10. [d \in Devices |-> OngoingOf(f, AsHost(d), t)]
        = [d \in Devices |-> SumOver(e, {k \in Keys : host[k] = d})]
  BY <1>4, <1>5, <1>6
<1> QED
  BY <1>7, <1>8, <1>9, <1>10

-----------------------------------------------------------------------------
(* The inductive invariant.                                                *)

\* What is known of one side of a device, controlling or controlled: its total, the keys of its
\* rows, and what a reader saw at the last heartbeat.  What was seen is kept although the rows are
\* credited up to the heartbeat only, and kept by the total alone when they are about to be deleted.
\* As long as no start was interrupted, the total and the rows are time that was lived; between the
\* credit of stale rows and their deletion the total is, without the rows.
Side(total, K, was) ==
  /\ was <= total + Ongoing(K, lastSeen)
  /\ stage = "delete" => was <= total
  /\ lastSeen = 0 => was = 0
  /\ startCrashes = 0 =>
       IF stage = "delete" THEN total <= SumOver(lived, K)
       ELSE total + Ongoing(K, now) <= SumOver(lived, K)

Sides ==
  \A d \in Devices :
    /\ Side(control[d], AsGuest(d), seen.control[d])
    /\ Side(controlled[d], AsHost(d), seen.controlled[d])

\* Likewise for the time online.
OnlineKept ==
  \A d \in Devices : seen.online[d] <= onlineTotal[d] + Elapsed(since[d], lastSeen)

\* InitDB credits up to the last heartbeat, and no row is older than the clock.
Clocks ==
  /\ stage \in {"finalize", "delete", "reset"} => cutoff = lastSeen
  /\ \A k \in Keys : lived[k] < now

DurationsInv == TypeOK /\ Clocks /\ ControlBalances /\ Sides /\ OnlineKept

LEMMA KeysOfDevices ==
  \A d \in Devices : AsGuest(d) \in SUBSET Keys /\ AsHost(d) \in SUBSET Keys
  BY DEF AsGuest, AsHost

LEMMA TypeFacts ==
  ASSUME TypeOK
  PROVE  /\ now \in Nat /\ lastSeen \in Nat /\ cutoff \in Nat
         /\ cutoff <= lastSeen /\ lastSeen <= now
         /\ startedAt \in [Keys -> Nat] /\ lived \in [Keys -> Nat] /\ since \in [Devices -> Nat]
         /\ control \in [Devices -> Nat] /\ controlled \in [Devices -> Nat]
         /\ onlineTotal \in [Devices -> Nat]
         /\ \A d \in Devices :
              /\ seen.control[d] \in Nat /\ seen.controlled[d] \in Nat /\ seen.online[d] \in Nat
         /\ \A K \in SUBSET Keys : \A t \in Nat :
              /\ Ongoing(K, t) = OngoingOf(startedAt, K, t) /\ Ongoing(K, t) \in Nat
              /\ SumOver(lived, K) \in Nat
<1>1. now \in Nat /\ lastSeen \in Nat /\ cutoff \in Nat /\ cutoff <= lastSeen /\ lastSeen <= now
  BY DurationsAssumption DEF TypeOK
<1>2. startedAt \in [Keys -> Nat] /\ lived \in [Keys -> Nat] /\ since \in [Devices -> Nat]
  BY DurationsAssumption, <1>1 DEF TypeOK
<1>3. \A d \in Devices :
         seen.control[d] \in Nat /\ seen.controlled[d] \in Nat /\ seen.online[d] \in Nat
  BY DEF TypeOK
<1>4. ASSUME NEW K \in SUBSET Keys, NEW t \in Nat
      PROVE  /\ Ongoing(K, t) = OngoingOf(startedAt, K, t) /\ Ongoing(K, t) \in Nat
             /\ SumOver(lived, K) \in Nat
  <2>1. Ongoing(K, t) = OngoingOf(startedAt, K, t)
    BY DEF Ongoing, OngoingOf
  <2>2. \A k \in K : lived[k] \in Nat
    BY <1>2
  <2>3. SumOver(lived, K) \in Nat
    BY <2>2, Finite, SumType
  <2> QED
    BY <1>2, <2>1, <2>3, OngoingType
<1> QED
  BY <1>1, <1>2, <1>3, <1>4 DEF TypeOK

LEMMA InitInv == Init => DurationsInv
<1> SUFFICES ASSUME Init PROVE DurationsInv
  OBVIOUS
<1>1. TypeOK
  BY DurationsAssumption DEF Init, TypeOK, Zero
<1>2. Clocks
  BY DEF Init, Clocks
<1>3. ControlBalances
  BY DEF Init, ControlBalances
<1>4. ASSUME NEW K \in SUBSET Keys PROVE Side(0, K, 0)
  <2>1. Ongoing(K, now) = 0 /\ Ongoing(K, lastSeen) = 0
    <3>1. startedAt = [k \in Keys |-> 0]
      BY DEF Init
    <3>2. now \in Nat /\ lastSeen \in Nat
      BY DEF Init
    <3>3. \A t \in Nat : Ongoing(K, t) = OngoingOf(startedAt, K, t)
      BY <1>1, TypeFacts
    <3> QED
      BY <3>1, <3>2, <3>3, OngoingNone
  <2>2. SumOver(lived, K) \in Nat
    BY <1>1, TypeFacts
  <2> QED
    BY <2>1, <2>2 DEF Init, Side
<1>5. Sides
  <2> SUFFICES ASSUME NEW d \in Devices
               PROVE  /\ Side(control[d], AsGuest(d), seen.control[d])
                      /\ Side(controlled[d], AsHost(d), seen.controlled[d])
    BY DEF Sides
  <2>1. control[d] = 0 /\ controlled[d] = 0 /\ seen.control[d] = 0 /\ seen.controlled[d] = 0
    BY DEF Init, Zero
  <2> QED
    BY <1>4, <2>1, KeysOfDevices
<1>6. OnlineKept
  BY DEF Init, OnlineKept, Zero, Elapsed
<1> QED
  BY <1>1, <1>2, <1>3, <1>5, <1>6 DEF DurationsInv

-----------------------------------------------------------------------------
(* The types, the clocks and the time online.                              *)

LEMMA TotalsType ==
  ASSUME TypeOK
  PROVE  /\ DOMAIN Totals = {"control", "controlled", "online"}
         /\ \A c \in DOMAIN Totals : Totals[c] \in [Devices -> Nat]
<1>1. \A d \in Devices : Ongoing(AsGuest(d), now) \in Nat /\ Ongoing(AsHost(d), now) \in Nat
  BY TypeFacts, KeysOfDevices
<1>2. \A d \in Devices : Elapsed(since[d], now) \in Nat
  BY TypeFacts, ElapsedType
<1>3. /\ Totals.control \in [Devices -> Nat] /\ Totals.controlled \in [Devices -> Nat]
      /\ Totals.online \in [Devices -> Nat]
  BY <1>1, <1>2, TypeFacts DEF Totals
<1> QED
  BY <1>3 DEF Totals

LEMMA TypeStep == TypeOK /\ Clocks /\ [Next]_vars => TypeOK'
<1> SUFFICES ASSUME TypeOK, Clocks, [Next]_vars PROVE TypeOK'
  OBVIOUS
<1> USE DurationsAssumption
<1>1. ASSUME NEW k \in Keys, StartRemoteControlSession(k) PROVE TypeOK'
  BY <1>1 DEF TypeOK, StartRemoteControlSession
<1>2. ASSUME NEW k \in Keys, EndRemoteControlSession(k) PROVE TypeOK'
  <2>1. Base[k[1]] \in Devices /\ Base[k[2]] \in Devices /\ Elapsed(startedAt[k], now) \in Nat
    BY TypeFacts, ElapsedType DEF Devices
  <2>2. control' \in [Devices -> Nat] /\ controlled' \in [Devices -> Nat]
    BY <1>2, <2>1 DEF TypeOK, EndRemoteControlSession
  <2> QED
    BY <1>2, <2>2 DEF TypeOK, EndRemoteControlSession
<1>3. ASSUME NEW d \in Tracked, SetDeviceOnline(d) PROVE TypeOK'
  <2>1. now \in 0..now /\ d \in Devices
    BY DEF TypeOK, Devices
  <2>2. since' \in [Devices -> 0..now]
    BY <1>3, <2>1 DEF TypeOK, SetDeviceOnline
  <2> QED
    BY <1>3, <2>2 DEF TypeOK, SetDeviceOnline
<1>4. ASSUME NEW d \in Tracked, SetDeviceOffline(d) PROVE TypeOK'
  <2>1. d \in Devices /\ Elapsed(since[d], now) \in Nat
    BY TypeFacts, ElapsedType DEF Devices
  <2>2. onlineTotal' \in [Devices -> Nat]
    BY <1>4, <2>1 DEF TypeOK, SetDeviceOffline
  <2> QED
    BY <1>4, <2>2 DEF TypeOK, SetDeviceOffline
<1>5. ASSUME RecordRuntimeHeartbeat PROVE TypeOK'
  <2>1. /\ DOMAIN seen' = {"control", "controlled", "online"}
        /\ \A c \in DOMAIN seen' : seen'[c] \in [Devices -> Nat]
    BY <1>5, TotalsType DEF RecordRuntimeHeartbeat
  <2>2. lastSeen' \in 0..now' /\ cutoff' \in 0..lastSeen'
    BY <1>5 DEF TypeOK, RecordRuntimeHeartbeat
  <2> QED
    BY <1>5, <2>1, <2>2 DEF TypeOK, RecordRuntimeHeartbeat, columns
<1>6. ASSUME Boot PROVE TypeOK'
  BY <1>6 DEF TypeOK, Boot, columns
<1>7. ASSUME FinalizeStaleSessions PROVE TypeOK'
  <2>1. \A d \in Devices : Ongoing(AsGuest(d), cutoff) \in Nat /\ Ongoing(AsHost(d), cutoff) \in Nat
    BY TypeFacts, KeysOfDevices
  <2>2. control' \in [Devices -> Nat] /\ controlled' \in [Devices -> Nat]
    BY <1>7, <2>1, TypeFacts DEF FinalizeStaleSessions
  <2> QED
    BY <1>7, <2>2 DEF TypeOK, FinalizeStaleSessions
<1>8. ASSUME DeleteStaleSessions PROVE TypeOK'
  BY <1>8 DEF TypeOK, DeleteStaleSessions
<1>9. ASSUME ResetPresence PROVE TypeOK'
  <2>1. \A d \in Devices : Elapsed(since[d], cutoff) \in Nat
    BY TypeFacts, ElapsedType
  <2>2. onlineTotal' \in [Devices -> Nat]
    BY <1>9, <2>1, TypeFacts DEF ResetPresence
  <2> QED
    BY <1>9, <2>2 DEF TypeOK, ResetPresence, Zero
<1>10. ASSUME Tick PROVE TypeOK'
  <2>1. now' \in 1..MaxTime /\ lastSeen' \in 0..now'
    BY <1>10 DEF TypeOK, Tick
  <2>2. lived' \in [Keys -> 0..MaxTime]
    BY <1>10 DEF TypeOK, Tick, Clocks
  <2>3. startedAt' \in [Keys -> 0..now'] /\ since' \in [Devices -> 0..now']
    BY <1>10 DEF TypeOK, Tick, columns
  <2> QED
    BY <1>10, <2>1, <2>2, <2>3 DEF TypeOK, Tick, columns
<1>11. ASSUME Crash PROVE TypeOK'
  BY <1>11 DEF TypeOK, Crash, columns
<1>12. ASSUME UNCHANGED vars PROVE TypeOK'
  BY <1>12 DEF TypeOK, vars, columns
<1> QED
  BY <1>1, <1>2, <1>3, <1>4, <1>5, <1>6, <1>7, <1>8, <1>9, <1>10, <1>11, <1>12 DEF Next

LEMMA ClocksStep == TypeOK /\ Clocks /\ [Next]_vars => Clocks'
<1> SUFFICES ASSUME TypeOK, Clocks, [Next]_vars PROVE Clocks'
  OBVIOUS
<1>1. CASE Tick
  BY <1>1 DEF TypeOK, Tick, Clocks
<1>2. CASE Boot
  BY <1>2 DEF Boot, Clocks
<1> QED
  BY <1>1, <1>2 DEF Next, Clocks, vars, StartRemoteControlSession, EndRemoteControlSession,
     SetDeviceOnline, SetDeviceOffline, RecordRuntimeHeartbeat, FinalizeStaleSessions,
     DeleteStaleSessions, ResetPresence, Crash

LEMMA OnlineStep == TypeOK /\ Clocks /\ OnlineKept /\ [Next]_vars => OnlineKept'
<1> SUFFICES ASSUME TypeOK, Clocks, OnlineKept, [Next]_vars, NEW d \in Devices
             PROVE  seen'.online[d] <= onlineTotal'[d] + Elapsed(since'[d], lastSeen')
  BY DEF OnlineKept
<1> DEFINE was == seen.online[d]
           total == onlineTotal[d]
           from == since[d]
<1>1. /\ was \in Nat /\ total \in Nat /\ from \in Nat /\ now \in Nat /\ lastSeen \in Nat
      /\ lastSeen <= now /\ was <= total + Elapsed(from, lastSeen)
  BY TypeFacts DEF OnlineKept
<1>2. /\ Elapsed(from, lastSeen) \in Nat /\ Elapsed(from, now) \in Nat
      /\ Elapsed(from, lastSeen) <= Elapsed(from, now)
  BY <1>1, ElapsedType, ElapsedGrows
<1> DEFINE Goal == seen'.online[d] <= onlineTotal'[d] + Elapsed(since'[d], lastSeen')
<1>3. ASSUME NEW c \in Tracked, SetDeviceOnline(c) PROVE Goal
  <2>1. /\ seen'.online[d] = was /\ onlineTotal'[d] = total /\ lastSeen' = lastSeen
        /\ since'[d] = from \/ (from = 0 /\ since'[d] = now)
    BY <1>1, <1>3, TypeFacts DEF SetDeviceOnline
  <2> QED
    BY <1>1, <2>1 DEF Elapsed
<1>4. ASSUME NEW c \in Tracked, SetDeviceOffline(c) PROVE Goal
  <2>1. /\ seen'.online[d] = was /\ lastSeen' = lastSeen
        /\ \/ onlineTotal'[d] = total /\ since'[d] = from
           \/ onlineTotal'[d] = total + Elapsed(from, now) /\ since'[d] = 0
    BY <1>4, TypeFacts DEF SetDeviceOffline
  <2>2. Elapsed(0, lastSeen) = 0
    BY DEF Elapsed
  <2> QED
    BY <1>1, <1>2, <2>1, <2>2
<1>5. ASSUME RecordRuntimeHeartbeat PROVE Goal
  <2>1. /\ seen'.online[d] = total + Elapsed(from, now) /\ lastSeen' = now
        /\ onlineTotal'[d] = total /\ since'[d] = from
    BY <1>5 DEF RecordRuntimeHeartbeat, Totals, columns
  <2> QED
    BY <1>1, <1>2, <2>1
<1>6. ASSUME ResetPresence PROVE Goal
  <2>1. /\ seen'.online[d] = was /\ lastSeen' = lastSeen /\ cutoff = lastSeen
        /\ onlineTotal'[d] = total + Elapsed(from, lastSeen) /\ since'[d] = 0
    BY <1>6 DEF ResetPresence, Clocks, Zero
  <2>2. Elapsed(0, lastSeen) = 0
    BY DEF Elapsed
  <2> QED
    BY <1>1, <1>2, <2>1, <2>2
<1>7. ASSUME UNCHANGED <<seen, onlineTotal, since, lastSeen>> PROVE Goal
  BY <1>1, <1>7
<1> HIDE DEF Goal
<1> QED
  BY <1>3, <1>4, <1>5, <1>6, <1>7 DEF Next, vars, columns, StartRemoteControlSession,
     EndRemoteControlSession, Boot, FinalizeStaleSessions, DeleteStaleSessions, Tick, Crash, Goal

-----------------------------------------------------------------------------
(* The balance.                                                            *)

LEMMA BalanceStep == TypeOK /\ ControlBalances /\ [Next]_vars => ControlBalances'
<1> SUFFICES ASSUME TypeOK, ControlBalances, [Next]_vars PROVE ControlBalances'
  OBVIOUS
<1>1. /\ \A d \in Devices : control[d] \in Nat /\ controlled[d] \in Nat
      /\ SumOver(control, Devices) = SumOver(controlled, Devices)
  BY TypeFacts DEF ControlBalances
<1>2. SumOver(control, Devices) \in Nat /\ SumOver(controlled, Devices) \in Nat
  BY <1>1, Finite, SumType
<1>3. ASSUME NEW k \in Keys, EndRemoteControlSession(k) PROVE ControlBalances'
  <2> DEFINE guest == Base[k[2]]
             host == Base[k[1]]
             credit == Elapsed(startedAt[k], now)
  <2>1. guest \in Devices /\ host \in Devices /\ credit \in Nat
    BY DurationsAssumption, TypeFacts, ElapsedType DEF Devices
  <2>2. /\ control' = [control EXCEPT ![guest] = @ + credit]
        /\ controlled' = [controlled EXCEPT ![host] = @ + credit]
    BY <1>3 DEF EndRemoteControlSession
  <2> HIDE DEF guest, host, credit
  <2>3. \A d \in Devices : control'[d] \in Nat /\ (d # guest => control'[d] = control[d])
    BY <1>1, <2>1, <2>2, TypeFacts
  <2>4. \A d \in Devices : controlled'[d] \in Nat /\ (d # host => controlled'[d] = controlled[d])
    BY <1>1, <2>1, <2>2, TypeFacts
  <2>5. control'[guest] = control[guest] + credit /\ controlled'[host] = controlled[host] + credit
    BY <2>1, <2>2, TypeFacts
  <2>6. SumOver(control', Devices) + control[guest] = SumOver(control, Devices) + control'[guest]
    BY <1>1, <2>1, <2>3, Finite, SumChanges
  <2>7. SumOver(controlled', Devices) + controlled[host]
          = SumOver(controlled, Devices) + controlled'[host]
    BY <1>1, <2>1, <2>4, Finite, SumChanges
  <2>8. SumOver(control', Devices) \in Nat /\ SumOver(controlled', Devices) \in Nat
    BY <2>3, <2>4, Finite, SumType
  <2>9. SumOver(control', Devices) = SumOver(controlled', Devices)
    BY <1>1, <1>2, <2>1, <2>5, <2>6, <2>7, <2>8
  <2> QED
    BY <2>9 DEF ControlBalances
<1>4. ASSUME FinalizeStaleSessions PROVE ControlBalances'
  <2> DEFINE guests == [d \in Devices |-> OngoingOf(startedAt, AsGuest(d), cutoff)]
             hosts == [d \in Devices |-> OngoingOf(startedAt, AsHost(d), cutoff)]
  <2>1. \A d \in Devices : guests[d] \in Nat /\ hosts[d] \in Nat
    BY TypeFacts, KeysOfDevices
  <2>2. \A d \in Devices :
           control'[d] = control[d] + guests[d] /\ controlled'[d] = controlled[d] + hosts[d]
    BY <1>4, TypeFacts, KeysOfDevices DEF FinalizeStaleSessions
  <2>3. SumOver(guests, Devices) = SumOver(hosts, Devices)
    BY TypeFacts, OngoingDivides
  <2> HIDE DEF guests, hosts
  <2>4. SumOver(control', Devices) = SumOver(control, Devices) + SumOver(guests, Devices)
    BY <1>1, <2>1, <2>2, Finite, SumPlus
  <2>5. SumOver(controlled', Devices) = SumOver(controlled, Devices) + SumOver(hosts, Devices)
    BY <1>1, <2>1, <2>2, Finite, SumPlus
  <2> QED
    BY <1>1, <2>3, <2>4, <2>5 DEF ControlBalances
<1>5. ASSUME UNCHANGED <<control, controlled>> PROVE ControlBalances'
  BY <1>5 DEF ControlBalances
<1> QED
  BY <1>3, <1>4, <1>5 DEF Next, vars, columns, StartRemoteControlSession, SetDeviceOnline,
     SetDeviceOffline, RecordRuntimeHeartbeat, Boot, DeleteStaleSessions, ResetPresence, Tick, Crash

-----------------------------------------------------------------------------
(* One side of a device.                                                   *)

\* What a step does to one side: to its total and to what is remembered of it.
SideNext(total, total2, K, was, was2) ==
  \/ /\ \E k \in Keys :
          EndRemoteControlSession(k) /\ total2 = total + Share(startedAt, k, K, now)
     /\ was2 = was
  \/ FinalizeStaleSessions /\ total2 = total + Ongoing(K, cutoff) /\ was2 = was
  \/ RecordRuntimeHeartbeat /\ total2 = total /\ was2 = total + Ongoing(K, now)
  \/ /\ \/ \E k \in Keys : StartRemoteControlSession(k)
        \/ \E d \in Tracked : SetDeviceOnline(d) \/ SetDeviceOffline(d)
        \/ Boot \/ DeleteStaleSessions \/ ResetPresence \/ Tick \/ Crash \/ UNCHANGED vars
     /\ total2 = total /\ was2 = was

\* Every step is such a step of both sides of every device.
LEMMA StepIsOnSides ==
  ASSUME TypeOK, [Next]_vars, NEW d \in Devices
  PROVE  /\ SideNext(control[d], control'[d], AsGuest(d), seen.control[d], seen'.control[d])
         /\ SideNext(controlled[d], controlled'[d], AsHost(d), seen.controlled[d],
                     seen'.controlled[d])
<1> DEFINE Goal ==
      /\ SideNext(control[d], control'[d], AsGuest(d), seen.control[d], seen'.control[d])
      /\ SideNext(controlled[d], controlled'[d], AsHost(d), seen.controlled[d],
                  seen'.controlled[d])
<1>1. ASSUME NEW k \in Keys, EndRemoteControlSession(k) PROVE Goal
  <2>1. /\ control' = [control EXCEPT ![Base[k[2]]] = @ + Elapsed(startedAt[k], now)]
        /\ controlled' = [controlled EXCEPT ![Base[k[1]]] = @ + Elapsed(startedAt[k], now)]
        /\ seen' = seen
    BY <1>1 DEF EndRemoteControlSession
  <2>2. control[d] \in Nat /\ controlled[d] \in Nat
    BY TypeFacts
  <2>3. control'[d] = control[d] + Share(startedAt, k, AsGuest(d), now)
    BY <2>1, <2>2, TypeFacts DEF Share, AsGuest
  <2>4. controlled'[d] = controlled[d] + Share(startedAt, k, AsHost(d), now)
    BY <2>1, <2>2, TypeFacts DEF Share, AsHost
  <2> QED
    BY <1>1, <2>1, <2>3, <2>4 DEF SideNext
<1>2. ASSUME FinalizeStaleSessions PROVE Goal
  BY <1>2 DEF SideNext, FinalizeStaleSessions
<1>3. ASSUME RecordRuntimeHeartbeat PROVE Goal
  BY <1>3 DEF SideNext, RecordRuntimeHeartbeat, Totals, columns
<1>4. ASSUME \/ \E k \in Keys : StartRemoteControlSession(k)
             \/ \E c \in Tracked : SetDeviceOnline(c) \/ SetDeviceOffline(c)
             \/ Boot \/ DeleteStaleSessions \/ ResetPresence \/ Tick \/ Crash \/ UNCHANGED vars
      PROVE  Goal
  <2>1. UNCHANGED <<control, controlled, seen>>
    BY <1>4 DEF vars, columns, StartRemoteControlSession, SetDeviceOnline, SetDeviceOffline, Boot,
       DeleteStaleSessions, ResetPresence, Tick, Crash
  <2> QED
    BY <1>4, <2>1 DEF SideNext
<1> HIDE DEF Goal
<1>5. Goal
  BY <1>1, <1>2, <1>3, <1>4 DEF Next
<1> QED
  BY <1>5 DEF Goal

LEMMA RowsTick ==
  ASSUME TypeOK, NEW K \in SUBSET Keys, NEW m \in [Keys -> Nat], OneTickMore(startedAt, lived, m)
  PROVE  /\ OngoingOf(startedAt, K, now + 1) + SumOver(lived, K)
              = OngoingOf(startedAt, K, now) + SumOver(m, K)
         /\ SumOver(m, K) \in Nat /\ SumOver(lived, K) <= SumOver(m, K)
<1>1. PICK f \in [Keys -> Nat], n \in Nat, l \in [Keys -> Nat] :
        f = startedAt /\ n = now /\ l = lived
  BY TypeFacts
<1>2. \A k \in Keys : f[k] <= n
  BY <1>1 DEF TypeOK
<1>3. OneTickMore(f, l, m)
  BY <1>1
<1>4. /\ OngoingOf(f, K, n + 1) + SumOver(l, K) = OngoingOf(f, K, n) + SumOver(m, K)
      /\ SumOver(l, K) \in Nat /\ SumOver(m, K) \in Nat /\ SumOver(l, K) <= SumOver(m, K)
  BY <1>2, <1>3, OngoingTicks
<1> QED
  BY <1>1, <1>4

\* It keeps what is known of the side.
LEMMA SideStep ==
  ASSUME TypeOK, Clocks, NEW K \in SUBSET Keys, NEW total \in Nat, NEW was \in Nat,
         NEW total2, NEW was2, Side(total, K, was), SideNext(total, total2, K, was, was2)
  PROVE  Side(total2, K, was2)'
<1> DEFINE held == Ongoing(K, lastSeen)
           live == Ongoing(K, now)
           age == SumOver(lived, K)
<1>1. /\ held \in Nat /\ live \in Nat /\ age \in Nat /\ held <= live
      /\ held = OngoingOf(startedAt, K, lastSeen) /\ live = OngoingOf(startedAt, K, now)
      /\ now \in Nat /\ lastSeen \in Nat /\ lastSeen <= now /\ startedAt \in [Keys -> Nat]
  BY TypeFacts, OngoingGrows
<1>2. /\ was <= total + held /\ (stage = "delete" => was <= total) /\ (lastSeen = 0 => was = 0)
      /\ startCrashes = 0 =>
           IF stage = "delete" THEN total <= age ELSE total + live <= age
  BY DEF Side
<1> DEFINE held2 == SumOver([k \in Keys |-> Elapsed(startedAt'[k], lastSeen')], K)
           live2 == SumOver([k \in Keys |-> Elapsed(startedAt'[k], now')], K)
           age2 == SumOver(lived', K)
           Goal == /\ was2 <= total2 + held2
                   /\ stage' = "delete" => was2 <= total2
                   /\ lastSeen' = 0 => was2 = 0
                   /\ startCrashes' = 0 =>
                        IF stage' = "delete" THEN total2 <= age2 ELSE total2 + live2 <= age2
<1>3. /\ held2 = OngoingOf(startedAt', K, lastSeen') /\ live2 = OngoingOf(startedAt', K, now')
      /\ (startedAt' = startedAt /\ lastSeen' = lastSeen => held2 = held)
      /\ (startedAt' = startedAt /\ now' = now => live2 = live)
      /\ (lived' = lived => age2 = age)
  BY DEF OngoingOf, Ongoing
<1> HIDE DEF held, live, age, held2, live2, age2
<1>4. ASSUME NEW k \in Keys, EndRemoteControlSession(k),
             total2 = total + Share(startedAt, k, K, now), was2 = was
      PROVE  Goal
  <2>1. /\ startedAt' = [startedAt EXCEPT ![k] = 0] /\ stage = "up"
        /\ UNCHANGED <<now, stage, lastSeen, startCrashes, lived>>
    BY <1>4 DEF EndRemoteControlSession
  <2>2. /\ startedAt' \in [Keys -> Nat]
        /\ \A x \in Keys : startedAt'[x] = IF x = k THEN 0 ELSE startedAt[x]
    BY <1>1, <2>1
  <2>3. /\ held = held2 + Share(startedAt, k, K, lastSeen)
        /\ live = live2 + Share(startedAt, k, K, now)
    <3>1. PICK g : g = startedAt'
      OBVIOUS
    <3>2. g \in [Keys -> Nat] /\ \A x \in Keys : g[x] = IF x = k THEN 0 ELSE startedAt[x]
      BY <2>2, <3>1
    <3>3. \A t \in Nat : OngoingOf(startedAt, K, t) = OngoingOf(g, K, t) + Share(startedAt, k, K, t)
      BY <1>1, <3>2, OngoingEnds
    <3> QED
      BY <1>1, <1>3, <2>1, <3>1, <3>3
  <2>4. held2 \in Nat /\ live2 \in Nat
    BY <1>1, <1>3, <2>1, <2>2, OngoingType
  <2>5. /\ Share(startedAt, k, K, lastSeen) \in Nat /\ Share(startedAt, k, K, now) \in Nat
        /\ Share(startedAt, k, K, lastSeen) <= Share(startedAt, k, K, now)
    BY <1>1, ElapsedType, ElapsedGrows DEF Share
  <2> QED
    BY <1>1, <1>2, <1>3, <1>4, <2>1, <2>3, <2>4, <2>5
<1>5. ASSUME FinalizeStaleSessions, total2 = total + Ongoing(K, cutoff), was2 = was PROVE Goal
  <2>1. /\ stage = "finalize" /\ stage' = "delete" /\ cutoff = lastSeen
        /\ UNCHANGED <<now, lastSeen, startCrashes, startedAt, lived>>
    BY <1>5 DEF FinalizeStaleSessions, Clocks
  <2>2. total2 = total + held
    BY <1>5, <2>1 DEF held
  <2> QED
    BY <1>1, <1>2, <1>3, <1>5, <2>1, <2>2
<1>6. ASSUME RecordRuntimeHeartbeat, total2 = total, was2 = total + Ongoing(K, now) PROVE Goal
  <2>1. /\ stage \in {"heartbeat", "up"} /\ stage' = "up" /\ lastSeen' = now /\ now > 0
        /\ UNCHANGED <<now, startCrashes, startedAt, lived>>
    BY <1>6 DEF RecordRuntimeHeartbeat, columns, TypeOK
  <2>2. was2 = total + live
    BY <1>6 DEF live
  <2>3. held2 = live /\ live2 = live
    BY <1>1, <1>3, <2>1
  <2> QED
    BY <1>1, <1>2, <1>3, <1>6, <2>1, <2>2, <2>3
<1>7. ASSUME NEW k \in Keys, StartRemoteControlSession(k), total2 = total, was2 = was PROVE Goal
  <2>1. /\ startedAt' = [startedAt EXCEPT ![k] = IF @ = 0 THEN now ELSE @]
        /\ UNCHANGED <<now, stage, lastSeen, startCrashes, lived>>
    BY <1>7 DEF StartRemoteControlSession
  <2>2. /\ startedAt' \in [Keys -> Nat]
        /\ \A x \in Keys :
             startedAt'[x] = startedAt[x] \/ (startedAt[x] = 0 /\ startedAt'[x] = now)
    BY <1>1, <2>1
  <2>3. held2 = held /\ live2 = live
    <3>1. PICK g : g = startedAt'
      OBVIOUS
    <3>2. /\ g \in [Keys -> Nat]
          /\ \A x \in Keys : g[x] = startedAt[x] \/ (startedAt[x] = 0 /\ g[x] = now)
      BY <2>2, <3>1
    <3>3. ASSUME NEW t \in Nat, t <= now PROVE OngoingOf(g, K, t) = OngoingOf(startedAt, K, t)
      BY <1>1, <3>2, <3>3, OngoingStarts
    <3>4. /\ OngoingOf(g, K, lastSeen) = OngoingOf(startedAt, K, lastSeen)
          /\ OngoingOf(g, K, now) = OngoingOf(startedAt, K, now)
      BY <1>1, <3>3
    <3> QED
      BY <1>1, <1>3, <2>1, <3>1, <3>4
  <2> QED
    BY <1>1, <1>2, <1>3, <1>7, <2>1, <2>3
<1>8. ASSUME DeleteStaleSessions, total2 = total, was2 = was PROVE Goal
  <2>1. /\ stage = "delete" /\ stage' = "reset" /\ startedAt' = [k \in Keys |-> 0]
        /\ UNCHANGED <<now, lastSeen, startCrashes, lived>>
    BY <1>8 DEF DeleteStaleSessions
  <2>2. held2 = 0 /\ live2 = 0
    BY <1>1, <1>3, <2>1, OngoingNone
  <2> QED
    BY <1>1, <1>2, <1>3, <1>8, <2>1, <2>2
<1>9. ASSUME Tick, total2 = total, was2 = was PROVE Goal
  <2>1. /\ now' = now + 1 /\ UNCHANGED <<stage, lastSeen, startCrashes, startedAt>>
        /\ lived' = [k \in Keys |-> IF startedAt[k] # 0 THEN lived[k] + 1 ELSE lived[k]]
    BY <1>9 DEF Tick, columns
  <2>2. /\ \A k \in Keys : startedAt[k] <= now
        /\ lived \in [Keys -> Nat] /\ lived' \in [Keys -> Nat]
    BY <2>1, TypeFacts DEF TypeOK
  <2>3. live2 + age = live + age2 /\ age2 \in Nat /\ age <= age2
    <3>1. PICK m : m = lived'
      OBVIOUS
    <3>2. m \in [Keys -> Nat] /\ OneTickMore(startedAt, lived, m)
      BY <2>1, <2>2, <3>1 DEF OneTickMore
    <3>3. /\ OngoingOf(startedAt, K, now + 1) + SumOver(lived, K)
              = OngoingOf(startedAt, K, now) + SumOver(m, K)
          /\ SumOver(m, K) \in Nat /\ SumOver(lived, K) <= SumOver(m, K)
      BY <3>2, RowsTick
    <3>4. live2 = OngoingOf(startedAt, K, now + 1) /\ age = SumOver(lived, K) /\ age2 = SumOver(m, K)
      BY <1>3, <2>1, <3>1 DEF age, age2
    <3> QED
      BY <1>1, <3>3, <3>4
  <2>4. live2 \in Nat
    BY <1>1, <1>3, <2>1, OngoingType
  <2> QED
    BY <1>1, <1>2, <1>3, <1>9, <2>1, <2>3, <2>4
<1>10. ASSUME \/ \E d \in Tracked : SetDeviceOnline(d) \/ SetDeviceOffline(d)
              \/ Boot \/ ResetPresence \/ Crash \/ UNCHANGED vars,
              total2 = total, was2 = was
       PROVE  Goal
  <2>1. UNCHANGED <<startedAt, lastSeen, now, lived>>
    BY <1>10 DEF vars, columns, SetDeviceOnline, SetDeviceOffline, Boot, ResetPresence, Crash
  <2>2. /\ stage' = "delete" => stage = "delete" \/ lastSeen = 0
        /\ startCrashes' = 0 => startCrashes = 0 /\ (stage = "delete" => stage' = "delete")
    <3>1. CASE \E d \in Tracked : SetDeviceOnline(d) \/ SetDeviceOffline(d)
      BY <3>1 DEF SetDeviceOnline, SetDeviceOffline
    <3>2. CASE Boot
      BY <1>1, <3>2 DEF Boot
    <3>3. CASE ResetPresence
      BY <3>3 DEF ResetPresence
    <3>4. CASE Crash
      BY <3>4 DEF Crash, TypeOK
    <3>5. CASE UNCHANGED vars
      BY <3>5 DEF vars
    <3> QED
      BY <1>10, <3>1, <3>2, <3>3, <3>4, <3>5
  <2> QED
    BY <1>1, <1>2, <1>3, <1>10, <2>1, <2>2
<1>11. Goal
  <2> HIDE DEF Goal
  <2> QED
    BY <1>4, <1>5, <1>6, <1>7, <1>8, <1>9, <1>10 DEF SideNext
<1> QED
  BY <1>11 DEF Side, Ongoing, held2, live2, age2

LEMMA SidesStep == TypeOK /\ Clocks /\ Sides /\ [Next]_vars => Sides'
<1> SUFFICES ASSUME TypeOK, Clocks, Sides, [Next]_vars, NEW d \in Devices
             PROVE  /\ Side(control[d], AsGuest(d), seen.control[d])'
                    /\ Side(controlled[d], AsHost(d), seen.controlled[d])'
  BY DEF Sides
<1>1. /\ control[d] \in Nat /\ controlled[d] \in Nat
      /\ seen.control[d] \in Nat /\ seen.controlled[d] \in Nat
  BY TypeFacts
<1>2. /\ Side(control[d], AsGuest(d), seen.control[d])
      /\ Side(controlled[d], AsHost(d), seen.controlled[d])
  BY DEF Sides
<1>3. Side(control[d], AsGuest(d), seen.control[d])'
  BY <1>1, <1>2, KeysOfDevices, StepIsOnSides, SideStep DEF Side
<1>4. Side(controlled[d], AsHost(d), seen.controlled[d])'
  BY <1>1, <1>2, KeysOfDevices, StepIsOnSides, SideStep DEF Side
<1> QED
  BY <1>3, <1>4

-----------------------------------------------------------------------------
(* The theorems.                                                           *)

LEMMA DurationsInvHolds == Spec => []DurationsInv
<1>1. Init => DurationsInv
  BY InitInv
<1>2. DurationsInv /\ [Next]_vars => DurationsInv'
  BY TypeStep, ClocksStep, BalanceStep, SidesStep, OnlineStep DEF DurationsInv
<1> QED
  BY <1>1, <1>2, PTL DEF Spec

\* The columns hold times of their types, InitDB never credits beyond the last heartbeat, and every
\* second of control that is credited to a controlling device is credited to a controlled one
\* (EndRemoteControlSession, and the statement of InitDB that finalises stale sessions), whichever
\* statement the process dies after.
THEOREM TablesHold == Spec => []TablesInv
<1>1. DurationsInv => TablesInv
  BY DEF DurationsInv, TablesInv
<1> QED
  BY <1>1, DurationsInvHolds, PTL

\* What GetOnlineDurationStats could report at the last heartbeat, it can always report: the death
\* of the process, the recovery window, the finalisation of stale sessions and the reset of the
\* presence (InitDB) take none of it away.
THEOREM TotalsAreKept == Spec => []TotalsSurvive
<1>1. ASSUME DurationsInv PROVE TotalsSurvive
  <2> USE DEF DurationsInv
  <2>1. /\ now \in Nat /\ lastSeen \in Nat /\ lastSeen <= now
        /\ startedAt \in [Keys -> Nat] /\ since \in [Devices -> Nat]
    BY <1>1, TypeFacts
  <2>2. ASSUME NEW K \in SUBSET Keys, NEW total \in Nat, NEW was \in Nat, Side(total, K, was)
        PROVE  was <= total + Ongoing(K, now)
    <3>1. Ongoing(K, lastSeen) \in Nat /\ Ongoing(K, now) \in Nat
      BY <1>1, <2>1, TypeFacts
    <3>2. Ongoing(K, lastSeen) <= Ongoing(K, now)
      <4>1. /\ Ongoing(K, lastSeen) = OngoingOf(startedAt, K, lastSeen)
            /\ Ongoing(K, now) = OngoingOf(startedAt, K, now)
        BY <1>1, <2>1, TypeFacts
      <4> QED
        BY <2>1, <4>1, OngoingGrows
    <3>3. was <= total + Ongoing(K, lastSeen)
      BY <2>2 DEF Side
    <3> QED
      BY <3>1, <3>2, <3>3
  <2>3. ASSUME NEW d \in Devices
        PROVE  /\ Totals.control[d] >= seen.control[d] /\ Totals.controlled[d] >= seen.controlled[d]
               /\ Totals.online[d] >= seen.online[d]
    <3>1. /\ control[d] \in Nat /\ controlled[d] \in Nat /\ onlineTotal[d] \in Nat
          /\ seen.control[d] \in Nat /\ seen.controlled[d] \in Nat /\ seen.online[d] \in Nat
      BY <1>1, TypeFacts
    <3>2. seen.control[d] <= control[d] + Ongoing(AsGuest(d), now)
      BY <1>1, <2>2, <3>1, KeysOfDevices DEF Sides
    <3>3. seen.controlled[d] <= controlled[d] + Ongoing(AsHost(d), now)
      BY <1>1, <2>2, <3>1, KeysOfDevices DEF Sides
    <3>4. /\ Elapsed(since[d], lastSeen) \in Nat /\ Elapsed(since[d], now) \in Nat
          /\ Elapsed(since[d], lastSeen) <= Elapsed(since[d], now)
      BY <2>1, ElapsedType, ElapsedGrows
    <3>5. seen.online[d] <= onlineTotal[d] + Elapsed(since[d], now)
      BY <1>1, <3>1, <3>4 DEF OnlineKept
    <3>6. Ongoing(AsGuest(d), now) \in Nat /\ Ongoing(AsHost(d), now) \in Nat
      BY <1>1, <2>1, TypeFacts, KeysOfDevices
    <3> QED
      BY <3>1, <3>2, <3>3, <3>4, <3>5, <3>6 DEF Totals
  <2> QED
    BY <2>3 DEF TotalsSurvive
<1> QED
  BY <1>1, DurationsInvHolds, PTL

\* However often the process dies while it serves and recovers, a device is credited with no more
\* controlling and controlled time than its rows in remote_control_sessions have existed, as long
\* as the process never died between two statements of InitDB.
THEOREM NoSecondTwice == Spec => []CreditedTimeIsReal
<1>1. ASSUME DurationsInv, startCrashes = 0, stage = "up", NEW d \in Devices
      PROVE  /\ Totals.control[d] <= SumOver(lived, AsGuest(d))
             /\ Totals.controlled[d] <= SumOver(lived, AsHost(d))
  BY <1>1 DEF DurationsInv, Sides, Side, Totals
<1>2. DurationsInv => CreditedTimeIsReal
  BY <1>1 DEF CreditedTimeIsReal, CreditedOnce
<1> QED
  BY <1>2, DurationsInvHolds, PTL
=============================================================================
