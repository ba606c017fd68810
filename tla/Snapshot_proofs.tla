--------------------------- MODULE Snapshot_proofs ----------------------------
(***************************************************************************)
(* What the placement algorithms rest on, for any number of devices and    *)
(* links: sorted lists, the snapshot Build makes of a topology spec, the   *)
(* devices a policy accepts, and the arithmetic of the score.              *)
(*                                                                         *)
(* The loops and recursions of the model are functions chosen by their     *)
(* recursion.  That a loop has a run, and one only (LoopExists,            *)
(* RecursionExists, LoopUnique), comes first; every later fact about a     *)
(* loop is an invariant of its rounds, by RoundInduction.                  *)
(***************************************************************************)
EXTENDS Combinations, FiniteSetTheorems, WellFoundedInduction, TLAPS

-------------------------------------------------------------------------------
\* Loops and sorted lists.

\* A set of numbers has a least element.
LEMMA SmallestOf ==
  ASSUME NEW T \in SUBSET Nat, T # {}
  PROVE  \E n \in T : \A m \in T : n <= m
<1> DEFINE R == OpToRel(<, Nat)
<1>1. IsWellFoundedOn(R, Nat)
  BY NatLessThanWellFounded, Zenon
<1>2. PICK n \in T : \A m \in T : <<m, n>> \notin R
  <2> HIDE DEF R
  <2> QED BY <1>1, WFMin, Zenon
<1>3. \A m \in T : ~(m < n)
  BY <1>2, Zenon DEF OpToRel
<1> QED BY <1>3

\* Induction over the rounds of a loop, for a set of numbers.
LEMMA RoundInduction ==
  ASSUME NEW N \in Nat, NEW S, 0 \in S,
         \A n \in 1..N : n - 1 \in S => n \in S
  PROVE  0..N \subseteq S
<1> SUFFICES ASSUME NEW b \in 0..N, b \notin S
             PROVE  FALSE
  OBVIOUS
<1> DEFINE T == {n \in 0..N : n \notin S}
<1>1. T \in SUBSET Nat /\ T # {}
  OBVIOUS
<1>2. PICK n \in T : \A m \in T : n <= m
  BY <1>1, SmallestOf, Zenon
<1>3. n # 0
  BY <1>2
<1>4. n - 1 \in 0..N /\ n - 1 \notin T
  BY <1>2, <1>3
<1> QED BY <1>2, <1>3, <1>4

\* The rounds of a loop: round n takes the state x to g[x, n].  f is the run of
\* the loop from a.
Rounds(V, N) == [V \X (1..N) -> V]

Runs(f, N, V, a, g) ==
  /\ f \in [0..N -> V]
  /\ f[0] = a
  /\ \A n \in 1..N : f[n] = g[<<f[n - 1], n>>]

Follows(h, N, V, a, g) ==
  /\ h[0] = a
  /\ \A n \in 1..N : h[n - 1] \in V => h[n] = g[<<h[n - 1], n>>]

\* A loop of N rounds has a run.
LEMMA LoopExists ==
  ASSUME NEW N \in Nat, NEW V, NEW a \in V, NEW g \in Rounds(V, N)
  PROVE  \E f : Runs(f, N, V, a, g)
<1> USE DEF Rounds
<1> DEFINE Good(f, m) == f[0] = a /\ \A n \in 1..m : f[n] = g[<<f[n - 1], n>>]
           S == {m \in 0..N : \E f \in [0..N -> V] : Good(f, m)}
<1>1. 0 \in S
  <2> DEFINE f == [n \in 0..N |-> a]
  <2>1. f \in [0..N -> V] /\ Good(f, 0)
    OBVIOUS
  <2> HIDE DEF f, Good
  <2> QED BY <2>1
<1>2. ASSUME NEW n \in 1..N, n - 1 \in S
      PROVE  n \in S
  <2>1. PICK f \in [0..N -> V] : Good(f, n - 1)
    BY <1>2
  <2> DEFINE v == g[<<f[n - 1], n>>]
             h == [f EXCEPT ![n] = v]
  <2>2. v \in V
    OBVIOUS
  <2> HIDE DEF v
  <2>3. h \in [0..N -> V] /\ h[n] = v /\ \A i \in 0..N : i # n => h[i] = f[i]
    BY <2>2
  <2> HIDE DEF h
  <2>4. h[0] = a
    BY <2>1, <2>3
  <2>5. ASSUME NEW i \in 1..n
        PROVE  h[i] = g[<<h[i - 1], i>>]
    <3>1. CASE i = n
      <4>1. n - 1 \in 0..N /\ n - 1 # n
        OBVIOUS
      <4>2. h[n - 1] = f[n - 1]
        BY <4>1, <2>3
      <4> QED BY <3>1, <4>2, <2>3 DEF v
    <3>2. CASE i # n
      BY <3>2, <2>1, <2>3
    <3> QED BY <3>1, <3>2
  <2>6. Good(h, n)
    BY <2>4, <2>5
  <2> QED BY <2>3, <2>6
<1> HIDE DEF S
<1>3. N \in S
  BY <1>1, <1>2, RoundInduction
<1> QED BY <1>3 DEF S, Runs

\* A loop has only one run.
LEMMA LoopUnique ==
  ASSUME NEW N \in Nat, NEW V, NEW a, NEW g, NEW f, Runs(f, N, V, a, g), NEW h,
         Follows(h, N, V, a, g)
  PROVE  \A n \in 0..N : h[n] = f[n]
<1> USE DEF Runs, Follows
<1> DEFINE Same == {n \in 0..N : h[n] = f[n]}
<1>1. 0 \in Same
  OBVIOUS
<1>2. ASSUME NEW n \in 1..N, n - 1 \in Same
      PROVE  n \in Same
  <2>1. h[n - 1] = f[n - 1] /\ f[n - 1] \in V
    BY <1>2
  <2>2. h[n] = g[<<f[n - 1], n>>] /\ f[n] = g[<<f[n - 1], n>>]
    BY <2>1, Zenon
  <2> QED BY <2>2
<1> HIDE DEF Same
<1>3. 0..N \subseteq Same
  BY <1>1, <1>2, RoundInduction, Zenon
<1> QED BY <1>3 DEF Same

\* The same for a recursion whose value at n may use all values before n.
Agree(s, t, n) == \A m \in 0..(n - 1) : s[m] = t[m]

Recursion(G, N, V) ==
  /\ G \in [[0..N -> V] \X (0..N) -> V]
  /\ \A s, t \in [0..N -> V], n \in 0..N : Agree(s, t, n) => G[<<s, n>>] = G[<<t, n>>]

Recurs(f, G, N, V) == f \in [0..N -> V] /\ \A n \in 0..N : f[n] = G[<<f, n>>]

\* Such a recursion has a solution.
LEMMA RecursionExists ==
  ASSUME NEW N \in Nat, NEW V, V # {}, NEW G, Recursion(G, N, V)
  PROVE  \E f : Recurs(f, G, N, V)
<1>g. G \in [[0..N -> V] \X (0..N) -> V]
  BY DEF Recursion
<1>l. \A s, t \in [0..N -> V], n \in 0..N :
        (\A m \in 0..(n - 1) : s[m] = t[m]) => G[<<s, n>>] = G[<<t, n>>]
  BY Zenon DEF Recursion, Agree
<1> DEFINE Good(f, m) == \A n \in 0..m : f[n] = G[<<f, n>>]
           S == {m \in 0..N : \E f \in [0..N -> V] : Good(f, m)}
<1>0. ASSUME NEW n \in 0..N, NEW f \in [0..N -> V], \A i \in 0..(n - 1) : f[i] = G[<<f, i>>]
      PROVE  n \in S
  <2> DEFINE v == G[<<f, n>>]
             h == [f EXCEPT ![n] = v]
  <2>2. v \in V
    BY <1>g
  <2> HIDE DEF v
  <2>3. h \in [0..N -> V] /\ h[n] = v /\ \A i \in 0..N : i # n => h[i] = f[i]
    BY <2>2
  <2> HIDE DEF h
  <2>5. ASSUME NEW i \in 0..n
        PROVE  h[i] = G[<<h, i>>]
    <3>0. i \in 0..N /\ \A m \in 0..(i - 1) : f[m] = h[m]
      BY <2>3
    <3>1. G[<<f, i>>] = G[<<h, i>>]
      BY <3>0, <2>3, <1>l
    <3>2. CASE i = n
      BY <3>1, <3>2, <2>3 DEF v
    <3>3. CASE i # n
      <4>1. i \in 0..(n - 1) /\ i \in 0..N
        BY <3>3
      <4> QED BY <3>1, <3>3, <4>1, <2>3, <1>0
    <3> QED BY <3>2, <3>3
  <2>6. Good(h, n)
    BY <2>5
  <2> QED BY <2>3, <2>6
<1>1. 0 \in S
  <2> PICK v \in V : TRUE
    OBVIOUS
  <2> DEFINE f == [n \in 0..N |-> v]
  <2>1. f \in [0..N -> V] /\ 0 \in 0..N /\ 0..(0 - 1) = {}
    OBVIOUS
  <2> HIDE DEF f, S
  <2> QED BY <2>1, <1>0
<1>2. ASSUME NEW n \in 1..N, n - 1 \in S
      PROVE  n \in S
  <2>1. PICK f \in [0..N -> V] : Good(f, n - 1)
    BY <1>2
  <2>2. n \in 0..N
    OBVIOUS
  <2> HIDE DEF S
  <2> QED BY <1>0, <2>1, <2>2
<1> HIDE DEF S
<1>3. N \in S
  BY <1>1, <1>2, RoundInduction
<1> QED BY <1>3 DEF S, Recurs

\* Injective functions on 1..n, and how many elements they reach.
Distinct(s) == \A i, j \in DOMAIN s : s[i] = s[j] => i = j

\* A list has at most as many elements as places, and as many exactly when it
\* repeats none.
LEMMA RangeCardinality ==
  ASSUME NEW T, NEW n \in Nat, NEW s \in [1..n -> T]
  PROVE  /\ IsFiniteSet(Range(s)) /\ Range(s) \subseteq T
         /\ Cardinality(Range(s)) \in 0..n
         /\ Cardinality(Range(s)) = n <=> Distinct(s)
<1>1. s \in Surjection(1..n, Range(s))
  BY DEF Surjection, Range
<1>2. IsFiniteSet(1..n) /\ Cardinality(1..n) = n
  BY FS_Interval
<1>3. /\ IsFiniteSet(Range(s))
      /\ Cardinality(Range(s)) <= n
      /\ Cardinality(Range(s)) = n <=> s \in Injection(1..n, Range(s))
  BY <1>1, <1>2, FS_Surjection
<1>4. Cardinality(Range(s)) \in Nat
  BY <1>3, FS_CardinalityType
<1>5. s \in Injection(1..n, Range(s)) <=> Distinct(s)
  BY <1>1 DEF Injection, IsInjective, Surjection, Distinct
<1>6. Range(s) \subseteq T
  BY DEF Range
<1> QED BY <1>3, <1>4, <1>5, <1>6

\* Sets that correspond element by element have the same size.
OneToOne(f, S, T) ==
  /\ f \in [S -> T]
  /\ \A x, y \in S : f[x] = f[y] => x = y
  /\ \A z \in T : \E x \in S : f[x] = z

\* One-to-one sets have equally many elements.
LEMMA SameSize ==
  ASSUME NEW S, NEW T, NEW f, IsFiniteSet(S), OneToOne(f, S, T)
  PROVE  IsFiniteSet(T) /\ Cardinality(T) = Cardinality(S)
<1>1. /\ f \in [S -> T]
      /\ \A x, y \in S : f[x] = f[y] => x = y
      /\ \A z \in T : \E x \in S : f[x] = z
  BY DEF OneToOne
<1>2. f \in Surjection(S, T)
  BY <1>1, Zenon DEF Surjection
<1>3. f \in Injection(S, T)
  BY <1>1 DEF Injection, IsInjective
<1> QED BY <1>2, <1>3, FS_Surjection

\* The range of a list of the elements of S.
LEMMA RangeOnto ==
  ASSUME NEW S, NEW n, NEW s \in [1..n -> S], \A x \in S : \E k \in 1..n : s[k] = x
  PROVE  Range(s) = S
BY DEF Range

\* A strict total order of S, as a set of pairs.
Orders(before, S) ==
  /\ \A x \in S : <<x, x>> \notin before
  /\ \A x, y, z \in S : <<x, y>> \in before /\ <<y, z>> \in before => <<x, z>> \in before
  /\ \A x, y \in S : x # y => <<x, y>> \in before \/ <<y, x>> \in before

\* How many elements of S come before x.
Rank(S, before, x) == Cardinality({y \in S : <<y, x>> \in before})

\* Ranks are below the number of elements and grow along the order.
LEMMA RankGrows ==
  ASSUME NEW S, NEW before, IsFiniteSet(S), Orders(before, S)
  PROVE  /\ \A x \in S : Rank(S, before, x) \in 0..(Cardinality(S) - 1)
         /\ \A x, y \in S : <<x, y>> \in before => Rank(S, before, x) < Rank(S, before, y)
<1> DEFINE below(x) == {y \in S : <<y, x>> \in before}
<1>1. \A x \in S : IsFiniteSet(below(x)) /\ Cardinality(below(x)) \in Nat
  <2> TAKE x \in S
  <2>1. below(x) \in SUBSET S
    OBVIOUS
  <2> QED BY <2>1, FS_Subset, FS_CardinalityType, Zenon
<1>2. ASSUME NEW x \in S
      PROVE  Cardinality(below(x)) < Cardinality(S)
  <2>1. below(x) \in SUBSET S /\ below(x) # S
    BY Zenon DEF Orders
  <2>2. Cardinality(below(x)) <= Cardinality(S) /\ Cardinality(S) # Cardinality(below(x))
    BY <2>1, FS_Subset, Zenon
  <2>3. Cardinality(S) \in Nat
    BY FS_CardinalityType
  <2> QED BY <1>1, <2>2, <2>3
<1>3. ASSUME NEW x \in S, NEW y \in S, <<x, y>> \in before
      PROVE  Cardinality(below(x)) < Cardinality(below(y))
  <2>1. below(x) \in SUBSET below(y)
    BY <1>3 DEF Orders
  <2>2. x \in below(y) /\ x \notin below(x)
    BY <1>3 DEF Orders
  <2>3. /\ Cardinality(below(x)) <= Cardinality(below(y))
        /\ Cardinality(below(y)) # Cardinality(below(x))
    BY <1>1, <2>1, <2>2, FS_Subset, Zenon
  <2> QED BY <1>1, <2>3, SMTT(30)
<1>4. Cardinality(S) \in Nat
  BY FS_CardinalityType
<1>5. \A x \in S : Rank(S, before, x) = Cardinality(below(x))
  BY DEF Rank
<1> HIDE DEF below
<1> QED BY <1>1, <1>2, <1>3, <1>4, <1>5

\* What inOrder returns: every element once, in order, at the place its rank
\* says.
InOrder(S, before, s) ==
  /\ s \in [1..Cardinality(S) -> S]
  /\ \A x \in S : Rank(S, before, x) + 1 \in 1..Cardinality(S)
                  /\ s[Rank(S, before, x) + 1] = x
  /\ \A k \in 1..Cardinality(S) : Rank(S, before, s[k]) = k - 1
  /\ \A k, l \in 1..Cardinality(S) : <<s[k], s[l]>> \in before <=> k < l
  /\ \A k, l \in 1..Cardinality(S) : s[k] = s[l] => k = l

\* inOrder, the model of sort.Slice, sorts any finite set along any total order.
LEMMA InOrderSorts ==
  ASSUME NEW S, NEW before, IsFiniteSet(S), Orders(before, S)
  PROVE  InOrder(S, before, inOrder(S, before)) /\ Cardinality(S) \in Nat
<1> DEFINE n == Cardinality(S)
           rank == [x \in S |-> Rank(S, before, x)]
           s == inOrder(S, before)
<1>0. n \in Nat
  BY FS_CardinalityType
<1>1. /\ \A x \in S : Rank(S, before, x) \in 0..(n - 1)
      /\ \A x, y \in S : <<x, y>> \in before => Rank(S, before, x) < Rank(S, before, y)
  BY RankGrows
<1>2. ASSUME NEW x \in S, NEW y \in S, Rank(S, before, x) = Rank(S, before, y)
      PROVE  x = y
  <2>1. <<x, y>> \notin before /\ <<y, x>> \notin before
    BY <1>1, <1>2
  <2> QED BY <2>1 DEF Orders
<1> HIDE DEF n
<1>3. rank \in Injection(S, 0..(n - 1))
  BY <1>1, <1>2 DEF Injection, IsInjective
<1>4. IsFiniteSet(0..(n - 1)) /\ Cardinality(0..(n - 1)) = n
  BY <1>0, FS_Interval
<1>5. rank \in Surjection(S, 0..(n - 1))
  BY <1>3, <1>4, FS_Injection, Zenon DEF n
<1>6. \A k \in 1..n : \E x \in S : Rank(S, before, x) = k - 1
  <2> TAKE k \in 1..n
  <2>1. k - 1 \in 0..(n - 1)
    BY <1>0
  <2> QED BY <1>5, <2>1, Zenon DEF Surjection
<1>7. s = [k \in 1..n |-> CHOOSE x \in S : Rank(S, before, x) = k - 1]
  BY DEF inOrder, Rank, n
<1> HIDE DEF s
<1>8. \A k \in 1..n : s[k] \in S /\ Rank(S, before, s[k]) = k - 1
  BY <1>6, <1>7
<1>9. s \in [1..n -> S]
  BY <1>7, <1>8
<1>10. \A x \in S : Rank(S, before, x) + 1 \in 1..n
                    /\ s[Rank(S, before, x) + 1] = x
  <2> TAKE x \in S
  <2>1. Rank(S, before, x) + 1 \in 1..n /\ (Rank(S, before, x) + 1) - 1 = Rank(S, before, x)
    BY <1>0, <1>1
  <2> QED BY <2>1, <1>2, <1>8
<1>11. \A k, l \in 1..n : s[k] = s[l] => k = l
  BY <1>8
<1>12. \A k, l \in 1..n : <<s[k], s[l]>> \in before <=> k < l
  <2> TAKE k, l \in 1..n
  <2>1. ASSUME <<s[k], s[l]>> \in before
        PROVE  k < l
    BY <2>1, <1>1, <1>8
  <2>2. ASSUME k < l
        PROVE  <<s[k], s[l]>> \in before
    <3>1. s[k] \in S /\ s[l] \in S /\ s[k] # s[l]
      BY <1>8, <1>11, <2>2
    <3>2. ~(<<s[l], s[k]>> \in before)
      BY <1>1, <1>8, <2>2
    <3> QED BY <3>1, <3>2 DEF Orders
  <2> QED BY <2>1, <2>2
<1> QED BY <1>0, <1>8, <1>9, <1>10, <1>11, <1>12 DEF InOrder, n, s

\* A finite set of numbers in ascending order.
LEMMA AscendingSorts ==
  ASSUME NEW S \in SUBSET Int, IsFiniteSet(S)
  PROVE  /\ Cardinality(S) \in Nat
         /\ ascending(S) \in [1..Cardinality(S) -> S]
         /\ Range(ascending(S)) = S
         /\ \A k, l \in 1..Cardinality(S) : k < l <=> ascending(S)[k] < ascending(S)[l]
         /\ \A k, l \in 1..Cardinality(S) : ascending(S)[k] = ascending(S)[l] => k = l
<1> DEFINE before == {p \in S \X S : p[1] < p[2]}
<1>1. \A x, y \in S : <<x, y>> \in before <=> x < y
  OBVIOUS
<1>2. ascending(S) = inOrder(S, before)
  BY DEF ascending
<1> HIDE DEF before
<1>3. Orders(before, S)
  BY <1>1 DEF Orders
<1>4. InOrder(S, before, ascending(S)) /\ Cardinality(S) \in Nat
  BY <1>2, <1>3, InOrderSorts
<1>5. ascending(S) \in [1..Cardinality(S) -> S]
  BY <1>4, Zenon DEF InOrder
<1>6. \A x \in S : \E k \in 1..Cardinality(S) : ascending(S)[k] = x
  BY <1>4, Zenon DEF InOrder
<1>7. Range(ascending(S)) = S
  BY <1>5, <1>6 DEF Range
<1>8. \A k, l \in 1..Cardinality(S) : <<ascending(S)[k], ascending(S)[l]>> \in before <=> k < l
  BY <1>4, Zenon DEF InOrder
<1>9. \A k, l \in 1..Cardinality(S) : ascending(S)[k] = ascending(S)[l] => k = l
  BY <1>4, Zenon DEF InOrder
<1> QED BY <1>1, <1>4, <1>5, <1>7, <1>8, <1>9, Zenon

\* t has elements of s at places in I, in the same order.
SameOrder(t, s, I, c) ==
  \A k, l \in 1..c : k < l => \E i, j \in I : i < j /\ t[k] = s[i] /\ t[l] = s[j]

Kept(t, s, T, I, n, c) ==
  /\ c \in 0..n
  /\ t \in [1..c -> T]
  /\ Range(t) = {s[i] : i \in I}
  /\ SameOrder(t, s, I, c)
  /\ Distinct(s) => Distinct(t)

\* keep returns the elements at the kept places, in the same order.
LEMMA KeepKeeps ==
  ASSUME NEW T, NEW n \in Nat, NEW s \in [1..n -> T], NEW I \in SUBSET (1..n)
  PROVE  Kept(keep(s, I), s, T, I, n, Cardinality(I))
<1> DEFINE a == ascending(I)
           m == Cardinality(I)
<1>1. IsFiniteSet(I) /\ m <= n
  <2>1. IsFiniteSet(1..n) /\ Cardinality(1..n) = n
    BY FS_Interval
  <2>2. IsFiniteSet(I) /\ Cardinality(I) <= Cardinality(1..n)
    BY <2>1, FS_Subset, Zenon
  <2> QED BY <2>1, <2>2
<1>2. /\ m \in Nat
      /\ a \in [1..m -> I]
      /\ Range(a) = I
      /\ \A k, l \in 1..m : k < l <=> a[k] < a[l]
      /\ \A k, l \in 1..m : a[k] = a[l] => k = l
  <2>1. I \in SUBSET Int
    OBVIOUS
  <2> QED BY <1>1, <2>1, AscendingSorts
<1> HIDE DEF a, m
<1>3. keep(s, I) = [k \in 1..m |-> s[a[k]]]
  BY <1>2 DEF keep, a
<1> DEFINE t == keep(s, I)
<1> HIDE DEF t
<1>4. t \in [1..m -> T] /\ \A k \in 1..m : t[k] = s[a[k]] /\ a[k] \in I
  <2>1. \A k \in 1..m : a[k] \in I /\ s[a[k]] \in T
    BY <1>2, Zenon
  <2> QED BY <2>1, <1>3 DEF t
<1>5. Range(t) = {s[i] : i \in I}
  <2>1. \A i \in I : \E k \in 1..m : a[k] = i
    BY <1>2 DEF Range
  <2>2. Range(t) = {t[k] : k \in 1..m}
    BY <1>4 DEF Range
  <2>3. \A i \in I : \E k \in 1..m : t[k] = s[i]
    BY <1>4, <2>1
  <2>4. \A k \in 1..m : \E i \in I : t[k] = s[i]
    BY <1>4, Zenon
  <2>5. ASSUME NEW x
        PROVE  x \in Range(t) <=> x \in {s[i] : i \in I}
    <3>1. x \in Range(t) <=> \E k \in 1..m : x = t[k]
      BY <2>2
    <3>2. x \in {s[i] : i \in I} <=> \E i \in I : x = s[i]
      OBVIOUS
    <3> QED BY <3>1, <3>2, <2>3, <2>4, Zenon
  <2> QED BY <2>5, Zenon
<1>6. \A k, l \in 1..m : k < l => \E i, j \in I : i < j /\ t[k] = s[i] /\ t[l] = s[j]
  BY <1>2, <1>4, ZenonT(30)
<1>7. Distinct(s) => Distinct(t)
  <2> SUFFICES ASSUME Distinct(s), NEW k \in 1..m, NEW l \in 1..m, t[k] = t[l]
               PROVE  k = l
    BY <1>4 DEF Distinct
  <2>1. s[a[k]] = s[a[l]] /\ a[k] \in 1..n /\ a[l] \in 1..n
    BY <1>4, Zenon
  <2>2. a[k] = a[l]
    BY <2>1 DEF Distinct
  <2> QED BY <2>2, <1>2
<1>8. SameOrder(t, s, I, m)
  BY <1>6 DEF SameOrder
<1>9. Kept(t, s, T, I, n, m)
  BY <1>1, <1>2, <1>4, <1>5, <1>7, <1>8 DEF Kept
<1> QED BY <1>9 DEF t, m

\* A function on 1..n is a list of length n.
LEMMA ListOf ==
  ASSUME NEW T, NEW n \in Nat, NEW s \in [1..n -> T]
  PROVE  s \in Seq(T) /\ Len(s) = n /\ DOMAIN s = 1..n
OBVIOUS

\* Appending an element.
LEMMA AppendAdds ==
  ASSUME NEW T, NEW s \in Seq(T), NEW e \in T
  PROVE  /\ Append(s, e) \in Seq(T) /\ Len(Append(s, e)) = Len(s) + 1
         /\ Range(Append(s, e)) = Range(s) \cup {e}
         /\ Distinct(s) /\ e \notin Range(s) => Distinct(Append(s, e))
<1> DEFINE t == Append(s, e)
<1>1. /\ t \in Seq(T) /\ Len(t) = Len(s) + 1 /\ Len(s) \in Nat
      /\ DOMAIN s = 1..Len(s) /\ DOMAIN t = 1..(Len(s) + 1)
      /\ \A i \in 1..Len(s) : t[i] = s[i]
      /\ t[Len(s) + 1] = e
  OBVIOUS
<1> HIDE DEF t
<1>2. ASSUME NEW x
      PROVE  x \in Range(t) <=> x \in Range(s) \/ x = e
  <2>1. x \in Range(t) <=> \E i \in 1..(Len(s) + 1) : x = t[i]
    BY <1>1 DEF Range
  <2>2. x \in Range(s) <=> \E i \in 1..Len(s) : x = s[i]
    BY <1>1 DEF Range
  <2>3. \A i \in 1..(Len(s) + 1) : i \in 1..Len(s) \/ i = Len(s) + 1
    BY <1>1
  <2>4. Len(s) + 1 \in 1..(Len(s) + 1) /\ \A i \in 1..Len(s) : i \in 1..(Len(s) + 1)
    BY <1>1
  <2> QED BY <1>1, <2>1, <2>2, <2>3, <2>4
<1>3. ASSUME Distinct(s), e \notin Range(s), NEW i \in DOMAIN t, NEW j \in DOMAIN t, t[i] = t[j]
      PROVE  i = j
  <2>1. \A k \in 1..Len(s) : t[k] # e
    BY <1>1, <1>3 DEF Range
  <2>2. CASE i \in 1..Len(s) /\ j \in 1..Len(s)
    BY <2>2, <1>1, <1>3 DEF Distinct
  <2>3. CASE ~(i \in 1..Len(s) /\ j \in 1..Len(s))
    BY <2>1, <2>3, <1>1, <1>3
  <2> QED BY <2>2, <2>3
<1> QED BY <1>1, <1>2, <1>3 DEF Distinct, t

\* The least element of a set of numbers.
LEMMA MinOf ==
  ASSUME NEW T \in SUBSET Nat, T # {}
  PROVE  Min(T) \in T /\ \A n \in T : Min(T) <= n
<1>1. \E n \in T : \A m \in T : n <= m
  BY SmallestOf
<1> QED BY <1>1, Zenon DEF Min

\* The elements of a list after its head is taken off.
LEMMA TailKeeps ==
  ASSUME NEW T, NEW q \in Seq(T), q # <<>>
  PROVE  /\ Head(q) \in T /\ Tail(q) \in Seq(T)
         /\ Range(q) = Range(Tail(q)) \cup {Head(q)}
         /\ Distinct(q) => Distinct(Tail(q)) /\ Head(q) \notin Range(Tail(q))
<1> DEFINE h == Head(q)
           t == Tail(q)
           n == Len(q)
<1>1. /\ n \in Nat \ {0} /\ h \in T /\ t \in Seq(T) /\ h = q[1]
      /\ DOMAIN q = 1..n /\ DOMAIN t = 1..(n - 1)
      /\ \A i \in 1..(n - 1) : t[i] = q[i + 1] /\ i + 1 \in 1..n
  OBVIOUS
<1> HIDE DEF h, t, n
<1>2. \A i \in 1..n : i = 1 \/ (i - 1 \in 1..(n - 1) /\ q[i] = t[i - 1])
  <2> SUFFICES ASSUME NEW i \in 1..n, i # 1
               PROVE  i - 1 \in 1..(n - 1) /\ q[i] = t[i - 1]
    OBVIOUS
  <2>1. i - 1 \in 1..(n - 1) /\ (i - 1) + 1 = i
    BY <1>1
  <2> QED BY <2>1, <1>1
<1>3. ASSUME NEW x
      PROVE  x \in Range(q) <=> x \in Range(t) \/ x = h
  <2>1. x \in Range(q) <=> \E i \in 1..n : x = q[i]
    BY <1>1 DEF Range
  <2>2. x \in Range(t) <=> \E i \in 1..(n - 1) : x = t[i]
    BY <1>1 DEF Range
  <2>3. 1 \in 1..n
    BY <1>1
  <2> QED BY <1>1, <1>2, <2>1, <2>2, <2>3
<1>4. ASSUME Distinct(q)
      PROVE  Distinct(t) /\ h \notin Range(t)
  <2>1. \A i, j \in 1..n : q[i] = q[j] => i = j
    BY <1>1, <1>4, Zenon DEF Distinct
  <2>2. \A i, j \in 1..(n - 1) : t[i] = t[j] => i = j
    BY <1>1, <2>1
  <2>3. \A i \in 1..(n - 1) : t[i] # h
    BY <1>1, <2>1
  <2> QED BY <2>2, <2>3, <1>1 DEF Distinct, Range
<1> QED BY <1>1, <1>3, <1>4 DEF h, t

\* Two lists one after the other.
LEMMA ConcatKeeps ==
  ASSUME NEW T, NEW s \in Seq(T), NEW t \in Seq(T)
  PROVE  /\ s \o t \in Seq(T)
         /\ Range(s \o t) = Range(s) \cup Range(t)
         /\ Distinct(s) /\ Distinct(t) /\ Range(s) \cap Range(t) = {} => Distinct(s \o t)
<1> DEFINE u == s \o t
           m == Len(s)
           n == Len(t)
<1>1. /\ m \in Nat /\ n \in Nat /\ u \in Seq(T)
      /\ DOMAIN s = 1..m /\ DOMAIN t = 1..n /\ DOMAIN u = 1..(m + n)
      /\ \A i \in 1..m : u[i] = s[i] /\ i \in 1..(m + n)
      /\ \A i \in 1..n : u[m + i] = t[i] /\ m + i \in 1..(m + n)
  OBVIOUS
<1> HIDE DEF u, m, n
<1>2. \A i \in 1..(m + n) : i \in 1..m \/ (i - m \in 1..n /\ u[i] = t[i - m])
  <2> SUFFICES ASSUME NEW i \in 1..(m + n), i \notin 1..m
               PROVE  i - m \in 1..n /\ u[i] = t[i - m]
    OBVIOUS
  <2>1. i - m \in 1..n /\ m + (i - m) = i
    BY <1>1
  <2> QED BY <2>1, <1>1
<1>3. ASSUME NEW x
      PROVE  x \in Range(u) <=> x \in Range(s) \/ x \in Range(t)
  <2>1. x \in Range(u) <=> \E i \in 1..(m + n) : x = u[i]
    BY <1>1, Zenon DEF Range
  <2>2. x \in Range(s) <=> \E i \in 1..m : x = s[i]
    BY <1>1 DEF Range
  <2>3. x \in Range(t) <=> \E i \in 1..n : x = t[i]
    BY <1>1, Zenon DEF Range
  <2> QED BY <1>1, <1>2, <2>1, <2>2, <2>3
<1>4. ASSUME Distinct(s), Distinct(t), Range(s) \cap Range(t) = {}
      PROVE  Distinct(u)
  <2>1. /\ \A i, j \in 1..m : s[i] = s[j] => i = j
        /\ \A i, j \in 1..n : t[i] = t[j] => i = j
        /\ \A i \in 1..m, j \in 1..n : s[i] # t[j]
    <3>1. \A i, j \in 1..m : s[i] = s[j] => i = j
      BY <1>1, <1>4, Zenon DEF Distinct
    <3>2. \A i, j \in 1..n : t[i] = t[j] => i = j
      BY <1>1, <1>4, Zenon DEF Distinct
    <3>3. \A i \in 1..m, j \in 1..n : s[i] \in Range(s) /\ t[j] \in Range(t)
      BY <1>1, Zenon DEF Range
    <3>4. \A i \in 1..m, j \in 1..n : s[i] # t[j]
      BY <1>4, <3>3
    <3> QED BY <3>1, <3>2, <3>4
  <2>2. ASSUME NEW i \in 1..(m + n), NEW j \in 1..(m + n), u[i] = u[j]
        PROVE  i = j
    <3>1. CASE i \in 1..m /\ j \in 1..m
      BY <3>1, <2>1, <2>2, <1>1
    <3>2. CASE i \in 1..m /\ j \notin 1..m
      BY <3>2, <2>1, <2>2, <1>1, <1>2
    <3>3. CASE i \notin 1..m /\ j \in 1..m
      BY <3>3, <2>1, <2>2, <1>1, <1>2
    <3>4. CASE i \notin 1..m /\ j \notin 1..m
      <4>1. i - m = j - m
        BY <3>4, <2>1, <2>2, <1>2
      <4> QED BY <4>1, <1>1
    <3> QED BY <3>1, <3>2, <3>3, <3>4
  <2> QED BY <2>2, <1>1 DEF Distinct
<1> QED BY <1>1, <1>3, <1>4 DEF u

\* The largest element of a bounded set of numbers.
LEMMA MaxOf ==
  ASSUME NEW n \in Nat, NEW T \in SUBSET (0..n), T # {}
  PROVE  Max(T) \in T /\ \A x \in T : x <= Max(T)
<1> DEFINE U == {n - x : x \in T}
<1>1. U \in SUBSET Nat /\ U # {}
  <2>1. \A x \in T : n - x \in Nat
    OBVIOUS
  <2>2. PICK x \in T : TRUE
    BY Zenon
  <2>3. n - x \in U
    OBVIOUS
  <2> QED BY <2>1, <2>3
<1>2. PICK u \in U : \A v \in U : u <= v
  BY <1>1, SmallestOf, Zenon
<1>3. PICK y \in T : u = n - y
  OBVIOUS
<1>4. \A x \in T : y >= x
  <2> SUFFICES ASSUME NEW x \in T
               PROVE  y >= x
    OBVIOUS
  <2>1. n - y <= n - x
    BY <1>2, <1>3, Zenon
  <2>2. x \in Nat /\ y \in Nat
    OBVIOUS
  <2> QED BY <2>1, <2>2
<1>5. Max(T) \in T /\ \A x \in T : Max(T) >= x
  BY <1>4, Zenon DEF Max
<1>6. \A x \in T : x \in Nat
  OBVIOUS
<1> QED BY <1>5, <1>6

\* The ordered pairs of a set of numbers.
Ordered(K) == {p \in K \X K : p[1] < p[2]}

\* A set of k numbers has k(k - 1) / 2 ordered pairs.
LEMMA OrderedCount ==
  ASSUME NEW m \in Nat, NEW K \in SUBSET (1..m)
  PROVE  /\ IsFiniteSet(K) /\ Cardinality(K) \in 0..m
         /\ IsFiniteSet(Ordered(K)) /\ Cardinality(Ordered(K)) \in Nat
         /\ 2 * Cardinality(Ordered(K)) = Cardinality(K) * (Cardinality(K) - 1)
<1>0. IsFiniteSet(1..m) /\ Cardinality(1..m) = m
  <2>1. 1 \in Int /\ m \in Int
    OBVIOUS
  <2> QED BY <2>1, FS_Interval
<1>1. \A L \in SUBSET (1..m) : /\ IsFiniteSet(L) /\ Cardinality(L) \in 0..m
                               /\ IsFiniteSet(Ordered(L)) /\ Cardinality(Ordered(L)) \in Nat
  <2> TAKE L \in SUBSET (1..m)
  <2>1. IsFiniteSet(L) /\ Cardinality(L) <= m
    BY <1>0, FS_Subset, Zenon
  <2>2. Cardinality(L) \in Nat
    BY <2>1, FS_CardinalityType
  <2>3. IsFiniteSet(L \X L)
    BY <2>1, FS_Product
  <2>4. IsFiniteSet(Ordered(L))
    BY <2>3, FS_Subset DEF Ordered
  <2> QED BY <2>1, <2>2, <2>4, FS_CardinalityType
<1> DEFINE Right(L) == 2 * Cardinality(Ordered(L)) = Cardinality(L) * (Cardinality(L) - 1)
           S == {k \in 0..m : \A L \in SUBSET (1..m) : Cardinality(L) = k => Right(L)}
<1>2. 0 \in S
  <2> SUFFICES ASSUME NEW L \in SUBSET (1..m), Cardinality(L) = 0
               PROVE  Right(L)
    OBVIOUS
  <2>1. L = {}
    BY <1>1, FS_EmptySet
  <2>2. Ordered(L) = {}
    BY <2>1 DEF Ordered
  <2>3. Cardinality(Ordered(L)) = 0
    BY <2>2, FS_EmptySet
  <2> QED BY <2>3
<1>3. ASSUME NEW k \in 1..m, k - 1 \in S
      PROVE  k \in S
  <2> SUFFICES ASSUME NEW L \in SUBSET (1..m), Cardinality(L) = k
               PROVE  Right(L)
    OBVIOUS
  <2> DEFINE x == Max(L)
             M == L \ {x}
             X == {p \in Ordered(L) : p[2] = x}
             f == [y \in M |-> <<y, x>>]
  <2>1. x \in L /\ \A y \in L : y <= x
    <3>1. L # {}
      BY FS_EmptySet
    <3>2. L \in SUBSET (0..m)
      OBVIOUS
    <3> QED BY <3>1, <3>2, MaxOf, Zenon
  <2> HIDE DEF x
  <2>2. \A y \in L : y \in Nat /\ (y # x => y < x)
    BY <2>1
  <2>3. IsFiniteSet(M) /\ Cardinality(M) = k - 1 /\ M \in SUBSET (1..m)
    BY <1>1, <2>1, FS_RemoveElement
  <2>4. OneToOne(f, M, X)
    <3>1. \A y \in M : <<y, x>> \in X
      BY <2>1, <2>2 DEF Ordered
    <3>2. \A p \in X : p[1] \in M /\ p = <<p[1], x>>
      <4> TAKE p \in X
      <4>1. p[1] \in L /\ p[2] = x /\ p[1] < p[2] /\ p = <<p[1], p[2]>>
        BY DEF Ordered
      <4>2. p[1] # x
        BY <2>2, <4>1
      <4> QED BY <4>1, <4>2
    <3> HIDE DEF M, X
    <3> QED BY <3>1, <3>2 DEF OneToOne
  <2>5. IsFiniteSet(X) /\ Cardinality(X) = k - 1
    <3> HIDE DEF M, X, f
    <3> QED BY <2>3, <2>4, SameSize
  <2>6. Ordered(L) = Ordered(M) \cup X
    <3>1. ASSUME NEW p \in Ordered(L) PROVE p \in Ordered(M) \cup X
      <4>1. p[1] \in L /\ p[2] \in L /\ p[1] < p[2] /\ p = <<p[1], p[2]>>
        BY DEF Ordered
      <4>2. p[1] # x
        BY <2>1, <2>2, <4>1
      <4> QED BY <4>1, <4>2 DEF Ordered
    <3> QED BY <3>1 DEF Ordered
  <2>7. Ordered(M) \cap X = {}
    BY DEF Ordered
  <2>8. 2 * Cardinality(Ordered(M)) = (k - 1) * (k - 2)
    <3>1. Right(M)
      BY <1>3, <2>3
    <3>2. Cardinality(M) - 1 = k - 2
      BY <2>3
    <3> QED BY <2>3, <3>1, <3>2
  <2> HIDE DEF M, X
  <2>9. Cardinality(Ordered(L)) = Cardinality(Ordered(M)) + (k - 1)
    <3>1. IsFiniteSet(Ordered(M)) /\ Cardinality(Ordered(M)) \in Nat
      BY <1>1, <2>3
    <3>2. Cardinality(Ordered(M) \cap X) = 0
      BY <2>7, FS_EmptySet
    <3>3. Cardinality(Ordered(M) \cup X)
            = Cardinality(Ordered(M)) + Cardinality(X) - Cardinality(Ordered(M) \cap X)
      BY <2>5, <3>1, FS_Union
    <3> QED BY <2>5, <2>6, <3>1, <3>2, <3>3
  <2>10. Cardinality(Ordered(M)) \in Nat
    BY <1>1, <2>3
  <2>11. 2 * Cardinality(Ordered(L)) = (k - 1) * (k - 2) + 2 * (k - 1)
    BY <2>8, <2>9, <2>10
  <2>12. (k - 1) * (k - 2) + 2 * (k - 1) = k * (k - 1)
    OBVIOUS
  <2> QED BY <2>11, <2>12
<1>4. 0..m \subseteq S
  <2> HIDE DEF S
  <2> QED BY <1>2, <1>3, RoundInduction
<1>5. Right(K)
  BY <1>1, <1>4
<1> QED BY <1>1, <1>5

\* Half of a product of neighbours.
LEMMA HalfOf ==
  ASSUME NEW c \in Nat, NEW k \in Nat, 2 * c = k * (k - 1)
  PROVE  (k * (k - 1)) \div 2 = c
<1> DEFINE x == k * (k - 1)
<1>1. x = 2 * c
  OBVIOUS
<1> HIDE DEF x
<1>2. x \div 2 = c
  BY <1>1
<1> QED BY <1>2 DEF x

-------------------------------------------------------------------------------
\* The snapshot.

\* The types of links are ordered by four numbers.
LEMMA TypeOrderType == \A t \in LinkTypes : TypeOrder[t] \in 1..4
BY DEF TypeOrder, LinkTypes

\* A link seen from its other end differs in nothing else.
LEMMA FlippedLink ==
  ASSUME NEW l \in Link
  PROVE  /\ flipped(l) \in Link
         /\ flipped(l).source = l.target /\ flipped(l).target = l.source
         /\ flipped(l).type = l.type /\ flipped(l).bandwidth = l.bandwidth
         /\ flipped(l).hops = l.hops /\ flipped(l).health = l.health
         /\ flipped(l).wellFormed = l.wellFormed
         /\ flipped(flipped(l)) = l
<1>1. /\ flipped(l) \in Link
         /\ flipped(l).source = l.target /\ flipped(l).target = l.source
         /\ flipped(l).type = l.type /\ flipped(l).bandwidth = l.bandwidth
         /\ flipped(l).hops = l.hops /\ flipped(l).health = l.health
         /\ flipped(l).wellFormed = l.wellFormed
  BY Zenon DEF Link, flipped
<1>2. flipped(flipped(l)) = l
  BY Zenon DEF Link, flipped
<1> QED BY <1>1, <1>2

\* The answer for no link is not a link.
LEMMA NoLinkIsNone == NoLink \notin Link
BY DEF NoLink, Link, LinkTypes

\* The key of a link, which is the same from both ends.
LEMMA KeyType ==
  ASSUME NEW l \in Link
  PROVE  /\ linkKey(l) \in Nat \X Nat \X (1..4)
         /\ linkKey(flipped(l)) = linkKey(l)
<1>1. /\ l.source \in Nat /\ l.target \in Nat /\ l.type \in LinkTypes
  BY DEF Link
<1>2. TypeOrder[l.type] \in 1..4
  BY <1>1, TypeOrderType
<1>3. linkKey(l) \in Nat \X Nat \X (1..4)
  BY <1>1, <1>2 DEF linkKey
<1>4. linkKey(flipped(l)) = linkKey(l)
  BY <1>1, FlippedLink DEF linkKey
<1> QED BY <1>3, <1>4

\* Links by key.
LEMMA KeysOrdered ==
  ASSUME NEW L \in SUBSET Link, IsFiniteSet(L),
         \A l, m \in L : linkKey(l) = linkKey(m) => l = m
  PROVE  Orders({p \in L \X L : KeyBefore(linkKey(p[1]), linkKey(p[2]))}, L)
<1> DEFINE before == {p \in L \X L : KeyBefore(linkKey(p[1]), linkKey(p[2]))}
<1>1. \A l, m \in L : <<l, m>> \in before <=> KeyBefore(linkKey(l), linkKey(m))
  OBVIOUS
<1> HIDE DEF before
<1>2. \A l \in L : linkKey(l) \in Nat \X Nat \X (1..4)
  BY KeyType
<1>3. \A k, j, i \in Nat \X Nat \X (1..4) :
         /\ ~KeyBefore(k, k)
         /\ KeyBefore(k, j) /\ KeyBefore(j, i) => KeyBefore(k, i)
         /\ k # j => KeyBefore(k, j) \/ KeyBefore(j, k)
  BY DEF KeyBefore
<1>4. Orders(before, L)
  BY <1>1, <1>2, <1>3 DEF Orders
<1> QED BY <1>4 DEF before

\* A valid spec repeats no ID, hence no device, and no key, hence no link.
LEMMA ValidSpec ==
  ASSUME NEW topo \in TopologySpec, Valid(topo)
  PROVE  /\ Len(topo.devices) \in Nat \ {0}
         /\ topo.devices \in [1..Len(topo.devices) -> Device] /\ Distinct(topo.devices)
         /\ IsFiniteSet(Range(topo.devices)) /\ Range(topo.devices) \subseteq Device
         /\ Cardinality(Range(topo.devices)) = Len(topo.devices)
         /\ IDs(topo.devices) = {d.id : d \in Range(topo.devices)}
         /\ \A d, e \in Range(topo.devices) : d.id = e.id => d = e
         /\ \A d \in Range(topo.devices) : validateDevice(d)
<1> DEFINE devices == topo.devices
           n == Len(devices)
           f == [i \in 1..n |-> devices[i].id]
<1>1. n \in Nat /\ n # 0 /\ devices \in [1..n -> Device] /\ DOMAIN devices = 1..n
  BY DEF TopologySpec, Valid
<1>2. Cardinality(IDs(devices)) = n
  BY DEF Valid
<1> HIDE DEF devices, n
<1>3. \A i \in 1..n : f[i] = devices[i].id /\ f[i] \in Nat
  BY <1>1 DEF Device
<1>4. f \in [1..n -> Nat] /\ Range(f) = IDs(devices)
  <2>1. Range(f) = {f[i] : i \in 1..n}
    BY DEF Range
  <2>2. IDs(devices) = {devices[i].id : i \in 1..n}
    BY <1>1 DEF IDs
  <2> QED BY <1>3, <2>1, <2>2
<1> HIDE DEF f
<1>5. \A i, j \in 1..n : devices[i].id = devices[j].id => i = j
  <2>1. Distinct(f)
    BY <1>1, <1>2, <1>4, RangeCardinality, Zenon
  <2>2. DOMAIN f = 1..n
    BY <1>4
  <2> QED BY <2>1, <2>2, <1>3 DEF Distinct
<1>6. Distinct(devices)
  BY <1>1, <1>5 DEF Distinct
<1>7. IsFiniteSet(Range(devices)) /\ Range(devices) \subseteq Device /\ Cardinality(Range(devices)) = n
  BY <1>1, <1>6, RangeCardinality
<1>8. Range(devices) = {devices[i] : i \in 1..n}
  BY <1>1 DEF Range
<1>9. IDs(devices) = {d.id : d \in Range(devices)}
  BY <1>1, <1>8 DEF IDs
<1>10. \A d, e \in Range(devices) : d.id = e.id => d = e
  BY <1>5, <1>8
<1>11. \A d \in Range(devices) : validateDevice(d)
  BY <1>1, <1>8 DEF Valid, devices
<1> QED BY <1>1, <1>6, <1>7, <1>9, <1>10, <1>11 DEF devices, n

\* The devices of a snapshot: those of the spec, in the order of their IDs.
LEMMA DevicesInOrder ==
  ASSUME NEW topo \in TopologySpec, Valid(topo), NEW n, n = Len(topo.devices),
         NEW devices, devices = byID(Range(topo.devices))
  PROVE  /\ n \in Nat /\ devices \in [1..n -> Device] /\ Len(devices) = n
         /\ Range(devices) = Range(topo.devices)
         /\ \A k, l \in 1..n : devices[k].id < devices[l].id <=> k < l
<1> DEFINE D == Range(topo.devices)
           before == {p \in D \X D : p[1].id < p[2].id}
<1>1. /\ n \in Nat /\ IsFiniteSet(D) /\ D \subseteq Device /\ Cardinality(D) = n
      /\ \A d, e \in D : d.id = e.id => d = e
  BY ValidSpec
<1>2. \A d, e \in D : <<d, e>> \in before <=> d.id < e.id
  OBVIOUS
<1>3. devices = inOrder(D, before)
  BY DEF byID
<1> HIDE DEF D, before
<1>4. \A d \in D : d.id \in Nat
  BY <1>1 DEF Device
<1>5. Orders(before, D)
  BY <1>1, <1>2, <1>4 DEF Orders
<1>6. InOrder(D, before, devices)
  BY <1>1, <1>3, <1>5, InOrderSorts
<1>7. /\ devices \in [1..n -> D]
      /\ \A x \in D : \E k \in 1..n : devices[k] = x
      /\ \A k, l \in 1..n : <<devices[k], devices[l]>> \in before <=> k < l
  BY <1>1, <1>6, Zenon DEF InOrder
<1>8. Range(devices) = D
  BY <1>7, Zenon DEF Range
<1>9. devices \in [1..n -> Device] /\ Len(devices) = n
  <2>1. devices \in [1..n -> Device]
    BY <1>1, <1>7
  <2> QED BY <1>1, <2>1
<1>10. \A k, l \in 1..n : devices[k].id < devices[l].id <=> k < l
  BY <1>2, <1>7, Zenon
<1> QED BY <1>1, <1>8, <1>9, <1>10 DEF D

\* byKey lists links in the order of their keys.
Keyed(links, L, n) ==
  /\ n \in Nat /\ links \in [1..n -> L] /\ Range(links) = L
  /\ \A k, l \in 1..n : KeyBefore(linkKey(links[k]), linkKey(links[l])) <=> k < l

\* byKey sorts links whose keys differ.
LEMMA ByKeySorts ==
  ASSUME NEW L \in SUBSET Link, IsFiniteSet(L),
         \A l, m \in L : linkKey(l) = linkKey(m) => l = m
  PROVE  Keyed(byKey(L), L, Cardinality(L))
<1> DEFINE before == {p \in L \X L : KeyBefore(linkKey(p[1]), linkKey(p[2]))}
           links == byKey(L)
           n == Cardinality(L)
<1>5. Orders(before, L)
  BY KeysOrdered
<1>6. links = inOrder(L, before)
  BY DEF byKey
<1>7. \A l, m \in L : <<l, m>> \in before <=> KeyBefore(linkKey(l), linkKey(m))
  OBVIOUS
<1> HIDE DEF before, links
<1>8. InOrder(L, before, links) /\ n \in Nat
  BY <1>5, <1>6, InOrderSorts
<1>9. /\ links \in [1..n -> L]
      /\ \A x \in L : \E k \in 1..n : links[k] = x
      /\ \A k, l \in 1..n : <<links[k], links[l]>> \in before <=> k < l
  BY <1>8, Zenon DEF InOrder
<1> HIDE DEF n
<1>10. Range(links) = L
  <2>1. links \in [1..n -> L]
    BY <1>9
  <2>2. \A x \in L : \E k \in 1..n : links[k] = x
    BY <1>9
  <2> QED BY <2>1, <2>2, RangeOnto, ZenonT(30)
<1>11. \A k \in 1..n : links[k] \in L
  BY <1>9
<1>12. \A k, l \in 1..n : KeyBefore(linkKey(links[k]), linkKey(links[l])) <=> k < l
  BY <1>7, <1>9, <1>11, Zenon
<1>13. Keyed(links, L, n)
  BY <1>8, <1>9, <1>10, <1>12, Zenon DEF Keyed
<1> QED BY <1>13 DEF links, n

\* The links of a valid spec.
LEMMA ValidLinks ==
  ASSUME NEW topo \in TopologySpec, Valid(topo)
  PROVE  /\ IsFiniteSet(Range(topo.links)) /\ Range(topo.links) \subseteq Link
         /\ \A l, m \in Range(topo.links) : linkKey(l) = linkKey(m) => l = m
         /\ \A l \in Range(topo.links) : validateLink(l, IDs(topo.devices))
         /\ Keyed(byKey(Range(topo.links)), Range(topo.links), Cardinality(Range(topo.links)))
<1>1. topo.links \in [1..Len(topo.links) -> Link] /\ Len(topo.links) \in Nat
  BY DEF TopologySpec
<1>2. IsFiniteSet(Range(topo.links)) /\ Range(topo.links) \subseteq Link
  BY <1>1, RangeCardinality, Zenon
<1>3. \A l, m \in Range(topo.links) : linkKey(l) = linkKey(m) => l = m
  BY DEF Valid, Range
<1>4. \A l \in Range(topo.links) : validateLink(l, IDs(topo.devices))
  BY DEF Valid, Range
<1>5. Keyed(byKey(Range(topo.links)), Range(topo.links), Cardinality(Range(topo.links)))
  BY <1>2, <1>3, ByKeySorts
<1> QED BY <1>2, <1>3, <1>4, <1>5

\* The link joins a and b, in either direction.
Joins(link, a, b) ==
  (link.source = a /\ link.target = b) \/ (link.source = b /\ link.target = a)

\* The link from a to b that is stored for the link l.
StoredFor(link, l, a, b) ==
  /\ link \in Link /\ link \in {l, flipped(l)}
  /\ link.source = a /\ link.target = b

\* The index after n links: for every pair the last link that joins it.
Indexed(adj, ids, links, n) ==
  /\ adj \in [ids \X ids -> Link \cup {NoLink}]
  /\ \A a, b \in ids :
       \/ adj[<<a, b>>] = NoLink /\ \A k \in 1..n : ~Joins(links[k], a, b)
       \/ \E k \in 1..n : /\ Joins(links[k], a, b)
                          /\ StoredFor(adj[<<a, b>>], links[k], a, b)
                          /\ \A j \in 1..n : Joins(links[j], a, b) => j <= k

\* A run of the loop that indexes the links.
IndexRun(f, ids, N, links) ==
  /\ f \in [0..N -> [ids \X ids -> Link \cup {NoLink}]]
  /\ f[0] = [pair \in ids \X ids |-> NoLink]
  /\ \A n \in 1..N : f[n] = indexLink(f[n - 1], links[n])
  /\ adjacencyOf(ids, links) = f[N]

\* adjacencyOf runs indexLink over the links, one after the other.
LEMMA IndexLoop ==
  ASSUME NEW ids, NEW N \in Nat, NEW links \in [1..N -> Link]
  PROVE  \E f : IndexRun(f, ids, N, links)
<1> DEFINE V == [ids \X ids -> Link \cup {NoLink}]
           base == [pair \in ids \X ids |-> NoLink]
           g == [x \in V \X (1..N) |-> indexLink(x[1], links[x[2]])]
           Loop(f) == f = [n \in 0..N |-> IF n = 0 THEN base ELSE indexLink(f[n - 1], links[n])]
           after == CHOOSE f : Loop(f)
<1>0. Len(links) = N
  OBVIOUS
<1>1. adjacencyOf(ids, links) = after[N]
  BY <1>0 DEF adjacencyOf
<1>2. ASSUME NEW x \in V, NEW n \in 1..N
      PROVE  indexLink(x, links[n]) \in V
  <2>1. links[n] \in Link /\ flipped(links[n]) \in Link
    BY FlippedLink
  <2> QED BY <2>1, Zenon DEF indexLink
<1>3. base \in V
  OBVIOUS
<1> HIDE DEF V, base
<1>4. g \in Rounds(V, N)
  BY <1>2 DEF Rounds
<1>g. ASSUME NEW x \in V, NEW n \in 1..N
      PROVE  g[<<x, n>>] = indexLink(x, links[n])
  OBVIOUS
<1> HIDE DEF g
<1>5. PICK f : Runs(f, N, V, base, g)
  BY <1>3, <1>4, LoopExists, Zenon
<1>r. f \in [0..N -> V] /\ f[0] = base
  BY <1>5 DEF Runs
<1>6. ASSUME NEW n \in 1..N
      PROVE  f[n] = indexLink(f[n - 1], links[n])
  <2>1. n - 1 \in 0..N
    OBVIOUS
  <2>2. f[n - 1] \in V
    BY <2>1, <1>r
  <2>3. f[n] = g[<<f[n - 1], n>>]
    BY <1>5 DEF Runs
  <2> QED BY <2>2, <2>3, <1>g, Zenon
<1>7. Loop(after)
  <2>1. \A n \in 0..N : f[n] = IF n = 0 THEN base ELSE indexLink(f[n - 1], links[n])
    BY <1>r, <1>6
  <2>2. Loop(f)
    BY <2>1, <1>r
  <2> HIDE DEF Loop
  <2> QED BY <2>2
<1> HIDE DEF after
<1>8. after[0] = base
  BY <1>7
<1>h. ASSUME NEW n \in 1..N, after[n - 1] \in V
      PROVE  after[n] = g[<<after[n - 1], n>>]
  <2>1. after[n] = indexLink(after[n - 1], links[n])
    BY <1>7
  <2> QED BY <2>1, <1>h, <1>g, Zenon
<1>9. after[N] = f[N]
  <2>0. Follows(after, N, V, base, g)
    BY <1>8, <1>h, Zenon DEF Follows
  <2>1. \A n \in 0..N : after[n] = f[n]
    BY <1>5, <2>0, LoopUnique, SMT
  <2> QED BY <2>1
<1> QED BY <1>1, <1>r, <1>6, <1>9, SMTT(30) DEF V, base, IndexRun

\* One link more in the index.
LEMMA IndexStep ==
  ASSUME NEW ids, NEW N \in Nat, NEW links \in [1..N -> Link], NEW n \in 1..N,
         links[n].source # links[n].target,
         links[n].source \in ids, links[n].target \in ids,
         NEW adj, Indexed(adj, ids, links, n - 1)
  PROVE  Indexed(indexLink(adj, links[n]), ids, links, n)
<1> DEFINE l == links[n]
           s == l.source
           t == l.target
           new == indexLink(adj, l)
<1>1. l \in Link /\ flipped(l) \in Link /\ flipped(l).source = t /\ flipped(l).target = s
  BY FlippedLink
<1>2. adj \in [ids \X ids -> Link \cup {NoLink}]
  BY DEF Indexed
<1>3. s \in ids /\ t \in ids /\ s # t
  OBVIOUS
<1>4. new = [adj EXCEPT ![<<s, t>>] = l, ![<<t, s>>] = flipped(l)]
  BY DEF indexLink
<1> HIDE DEF l, s, t, new
<1>5. new \in [ids \X ids -> Link \cup {NoLink}]
  BY <1>1, <1>2, <1>4, Zenon
<1>6. new[<<s, t>>] = l /\ new[<<t, s>>] = flipped(l)
  BY <1>2, <1>3, <1>4
<1>7. ASSUME NEW a \in ids, NEW b \in ids, <<a, b>> # <<s, t>>, <<a, b>> # <<t, s>>
      PROVE  new[<<a, b>>] = adj[<<a, b>>]
  BY <1>2, <1>4, <1>7
<1>8. ASSUME NEW a \in ids, NEW b \in ids
      PROVE  \/ new[<<a, b>>] = NoLink /\ \A k \in 1..n : ~Joins(links[k], a, b)
             \/ \E k \in 1..n : /\ Joins(links[k], a, b)
                                /\ StoredFor(new[<<a, b>>], links[k], a, b)
                                /\ \A j \in 1..n : Joins(links[j], a, b) => j <= k
  <2>1. CASE Joins(l, a, b)
    <3>1. (a = s /\ b = t) \/ (a = t /\ b = s)
      BY <2>1 DEF Joins, s, t
    <3>2. StoredFor(new[<<a, b>>], l, a, b)
      BY <3>1, <1>1, <1>6 DEF StoredFor, s, t
    <3> QED BY <2>1, <3>2 DEF l
  <2>2. CASE ~Joins(l, a, b)
    <3>1. new[<<a, b>>] = adj[<<a, b>>]
      BY <2>2, <1>7 DEF Joins, s, t
    <3>2. \/ adj[<<a, b>>] = NoLink /\ \A k \in 1..(n - 1) : ~Joins(links[k], a, b)
          \/ \E k \in 1..(n - 1) : /\ Joins(links[k], a, b)
                                   /\ StoredFor(adj[<<a, b>>], links[k], a, b)
                                   /\ \A j \in 1..(n - 1) : Joins(links[j], a, b) => j <= k
      BY DEF Indexed
    <3>3. \A k \in 1..n : k \in 1..(n - 1) \/ k = n
      OBVIOUS
    <3>4. \A k \in 1..(n - 1) : k \in 1..n
      OBVIOUS
    <3> QED BY <2>2, <3>1, <3>2, <3>3, <3>4, Zenon DEF l
  <2> QED BY <2>1, <2>2
<1>9. Indexed(new, ids, links, n)
  BY <1>5, <1>8, Zenon DEF Indexed
<1> QED BY <1>9 DEF new, l

\* After all links the index has the last one of every pair.
LEMMA AdjacencyIndexed ==
  ASSUME NEW ids, NEW N \in Nat, NEW links \in [1..N -> Link],
         \A k \in 1..N : /\ links[k].source # links[k].target
                         /\ links[k].source \in ids /\ links[k].target \in ids
  PROVE  Indexed(adjacencyOf(ids, links), ids, links, N)
<1>1. PICK f : IndexRun(f, ids, N, links)
  BY IndexLoop, Zenon
<1> DEFINE S == {n \in 0..N : Indexed(f[n], ids, links, n)}
<1>2. 0 \in S
  <2>1. f[0] = [pair \in ids \X ids |-> NoLink]
    BY <1>1 DEF IndexRun
  <2>2. \A a, b \in ids : f[0][<<a, b>>] = NoLink
    BY <2>1
  <2>3. f[0] \in [ids \X ids -> Link \cup {NoLink}]
    BY <2>1
  <2>4. Indexed(f[0], ids, links, 0)
    BY <2>2, <2>3 DEF Indexed
  <2> QED BY <2>4
<1>3. ASSUME NEW n \in 1..N, n - 1 \in S
      PROVE  n \in S
  <2>1. Indexed(f[n - 1], ids, links, n - 1)
    BY <1>3
  <2>2. f[n] = indexLink(f[n - 1], links[n])
    BY <1>1 DEF IndexRun
  <2>3. Indexed(f[n], ids, links, n)
    BY <2>1, <2>2, IndexStep
  <2> QED BY <2>3
<1> HIDE DEF S
<1>4. 0..N \subseteq S
  BY <1>2, <1>3, RoundInduction, SMTT(30)
<1>5. Indexed(f[N], ids, links, N)
  BY <1>4 DEF S
<1> QED BY <1>1, <1>5 DEF IndexRun

\* What LinkBetween returns for two devices of a valid spec: nothing when no link
\* joins them, else the one with the last type, from the first to the second.
Governs(link, L, a, b) ==
  \/ link = NoLink /\ \A l \in L : ~Joins(l, a, b)
  \/ \E l \in L : /\ Joins(l, a, b) /\ StoredFor(link, l, a, b)
                  /\ \A m \in L : Joins(m, a, b) => TypeOrder[m.type] <= TypeOrder[l.type]

\* normalised changes at most the direction of a link.
LEMMA NormalisedLink ==
  ASSUME NEW l \in Link, NEW a, NEW b
  PROVE  /\ normalised(l) \in Link /\ normalised(l) \in {l, flipped(l)}
         /\ flipped(normalised(l)) \in {l, flipped(l)}
         /\ Joins(normalised(l), a, b) <=> Joins(l, a, b)
BY FlippedLink DEF normalised, Joins

\* Of two links that join the same devices, the one whose key comes first has
\* the smaller type.
LEMMA JoinedKeys ==
  ASSUME NEW l \in Link, NEW m \in Link, NEW a, NEW b, Joins(l, a, b), Joins(m, a, b)
  PROVE  /\ KeyBefore(linkKey(l), linkKey(m)) => TypeOrder[l.type] <= TypeOrder[m.type]
         /\ TypeOrder[l.type] = TypeOrder[m.type] => linkKey(l) = linkKey(m)
<1>1. /\ l.source \in Nat /\ l.target \in Nat /\ TypeOrder[l.type] \in 1..4
      /\ m.source \in Nat /\ m.target \in Nat /\ TypeOrder[m.type] \in 1..4
  BY TypeOrderType DEF Link
<1>2. \/ l.source = m.source /\ l.target = m.target
      \/ l.source = m.target /\ l.target = m.source
  BY DEF Joins
<1>3. PICK p \in Nat, q \in Nat : linkKey(l) = <<p, q, TypeOrder[l.type]>>
                                  /\ linkKey(m) = <<p, q, TypeOrder[m.type]>>
  BY <1>1, <1>2 DEF linkKey
<1> QED BY <1>1, <1>3 DEF KeyBefore

\* LinkBetween answers so for every two devices of a valid spec.
THEOREM LinkBetweenGoverns ==
  ASSUME NEW topo \in TopologySpec, Valid(topo),
         NEW a \in IDs(topo.devices), NEW b \in IDs(topo.devices)
  PROVE  Governs(LinkBetween(Build(topo), a, b), Range(topo.links), a, b)
<1> DEFINE L == Range(topo.links)
           N == Cardinality(L)
           links == byKey(L)
           norm == [i \in DOMAIN links |-> normalised(links[i])]
           ids == IDs(topo.devices)
           adj == adjacencyOf(ids, norm)
<1>1. Build(topo).adjacency = adj
  BY DEF Build
<1>2. /\ L \subseteq Link
      /\ \A l \in L : validateLink(l, ids)
      /\ Keyed(links, L, N)
  BY ValidLinks
<1> HIDE DEF L, N, links, ids
<1>3. /\ N \in Nat /\ links \in [1..N -> L] /\ Range(links) = L
      /\ \A k, l \in 1..N : KeyBefore(linkKey(links[k]), linkKey(links[l])) <=> k < l
  BY <1>2, Zenon DEF Keyed
<1>4. DOMAIN links = 1..N /\ \A k \in 1..N : links[k] \in L /\ links[k] \in Link
  BY <1>2, <1>3
<1>5. norm \in [1..N -> Link] /\ \A k \in 1..N : norm[k] = normalised(links[k])
  BY <1>4, NormalisedLink
<1> HIDE DEF norm
<1>6. ASSUME NEW k \in 1..N
      PROVE  /\ norm[k].source # norm[k].target
             /\ norm[k].source \in ids /\ norm[k].target \in ids
  <2>1. validateLink(links[k], ids)
    BY <1>2, <1>4
  <2>2. norm[k] = links[k] \/ norm[k] = flipped(links[k])
    BY <1>4, <1>5, NormalisedLink
  <2> QED BY <2>1, <2>2, <1>4, FlippedLink DEF validateLink
<1>7. Indexed(adj, ids, norm, N)
  BY <1>3, <1>5, <1>6, AdjacencyIndexed
<1> HIDE DEF adj
<1>8. LinkBetween(Build(topo), a, b) = adj[<<a, b>>]
  <2>1. adj \in [ids \X ids -> Link \cup {NoLink}] /\ a \in ids /\ b \in ids
    BY <1>7 DEF Indexed, ids
  <2>2. <<a, b>> \in DOMAIN adj
    BY <2>1
  <2> QED BY <1>1, <2>2 DEF LinkBetween
<1>9. \A k \in 1..N : Joins(norm[k], a, b) <=> Joins(links[k], a, b)
  BY <1>4, <1>5, NormalisedLink
<1>10. \A l \in L : \E k \in 1..N : links[k] = l
  BY <1>3, <1>4 DEF Range
<1>11. CASE adj[<<a, b>>] = NoLink /\ \A k \in 1..N : ~Joins(norm[k], a, b)
  BY <1>8, <1>9, <1>10, <1>11 DEF Governs, L
<1>12. ASSUME NEW k \in 1..N, Joins(norm[k], a, b), StoredFor(adj[<<a, b>>], norm[k], a, b),
              \A j \in 1..N : Joins(norm[j], a, b) => j <= k
       PROVE  Governs(adj[<<a, b>>], L, a, b)
  <2>1. links[k] \in L /\ links[k] \in Link /\ Joins(links[k], a, b)
    BY <1>4, <1>9, <1>12
  <2>2. StoredFor(adj[<<a, b>>], links[k], a, b)
    <3>1. norm[k] \in {links[k], flipped(links[k])} /\ flipped(norm[k]) \in {links[k], flipped(links[k])}
      BY <2>1, <1>5, NormalisedLink
    <3> QED BY <1>12, <3>1 DEF StoredFor
  <2>3. ASSUME NEW m \in L, Joins(m, a, b)
        PROVE  TypeOrder[m.type] <= TypeOrder[links[k].type]
    <3>1. PICK j \in 1..N : links[j] = m
      BY <1>10
    <3>2. j <= k
      BY <1>9, <1>12, <2>3, <3>1
    <3>3. m \in Link /\ TypeOrder[m.type] \in 1..4
      BY <1>2, TypeOrderType DEF Link
    <3>4. CASE j = k
      BY <3>1, <3>3, <3>4
    <3>5. CASE j < k
      BY <3>1, <3>3, <3>5, <1>3, <2>1, <2>3, JoinedKeys
    <3> QED BY <3>2, <3>4, <3>5
  <2> QED BY <2>1, <2>2, <2>3 DEF Governs
<1> QED BY <1>7, <1>8, <1>11, <1>12, a \in ids, b \in ids DEF Indexed, L, ids

\* What the snapshot answers for devices a and b, from both ends.
Mirrored(link, back) ==
  \/ link = NoLink /\ back = NoLink
  \/ /\ link \in Link /\ back \in Link
     /\ link.type = back.type /\ link.health = back.health
     /\ link.bandwidth = back.bandwidth /\ link.hops = back.hops

\* LinkBetween answers alike in both directions.
LEMMA LinkBetweenMirrored ==
  ASSUME NEW topo \in TopologySpec, Valid(topo),
         NEW a \in IDs(topo.devices), NEW b \in IDs(topo.devices)
  PROVE  Mirrored(LinkBetween(Build(topo), a, b), LinkBetween(Build(topo), b, a))
<1> DEFINE L == Range(topo.links)
           link == LinkBetween(Build(topo), a, b)
           back == LinkBetween(Build(topo), b, a)
<1>1. Governs(link, L, a, b) /\ Governs(back, L, b, a)
  BY LinkBetweenGoverns
<1>2. L \subseteq Link /\ \A l, m \in L : linkKey(l) = linkKey(m) => l = m
  BY ValidLinks
<1> HIDE DEF L, link, back
<1> SUFFICES Mirrored(link, back)
  BY DEF link, back
<1>3. \A l \in L : Joins(l, a, b) <=> Joins(l, b, a)
  BY DEF Joins
<1>4. CASE \A l \in L : ~Joins(l, a, b)
  BY <1>1, <1>3, <1>4 DEF Governs, Mirrored
<1>5. CASE \E l \in L : Joins(l, a, b)
  <2>1. PICK l \in L : /\ Joins(l, a, b) /\ StoredFor(link, l, a, b)
                       /\ \A m \in L : Joins(m, a, b) => TypeOrder[m.type] <= TypeOrder[l.type]
    BY <1>1, <1>5 DEF Governs
  <2>2. PICK k \in L : /\ Joins(k, b, a) /\ StoredFor(back, k, b, a)
                       /\ \A m \in L : Joins(m, b, a) => TypeOrder[m.type] <= TypeOrder[k.type]
    BY <1>1, <1>3, <1>5 DEF Governs
  <2>3. TypeOrder[l.type] <= TypeOrder[k.type] /\ TypeOrder[k.type] <= TypeOrder[l.type]
    BY <2>1, <2>2, <1>3
  <2>4. l \in Link /\ k \in Link /\ TypeOrder[l.type] \in 1..4 /\ TypeOrder[k.type] \in 1..4
    BY <1>2, TypeOrderType DEF Link
  <2>5. TypeOrder[l.type] = TypeOrder[k.type]
    BY <2>3, <2>4
  <2>6. linkKey(l) = linkKey(k)
    BY <2>1, <2>2, <2>4, <2>5, <1>3, JoinedKeys
  <2>7. l = k
    BY <2>6, <1>2
  <2> QED BY <2>1, <2>2, <2>4, <2>7, FlippedLink DEF StoredFor, Mirrored
<1> QED BY <1>4, <1>5

\* The snapshot knows no other devices.
LEMMA LinkBetweenOthers ==
  ASSUME NEW topo \in TopologySpec, Valid(topo), NEW a, NEW b,
         a \notin IDs(topo.devices) \/ b \notin IDs(topo.devices)
  PROVE  LinkBetween(Build(topo), a, b) = NoLink
<1> DEFINE L == Range(topo.links)
           N == Cardinality(L)
           links == byKey(L)
           norm == [i \in DOMAIN links |-> normalised(links[i])]
           ids == IDs(topo.devices)
           adj == adjacencyOf(ids, norm)
<1>1. Build(topo).adjacency = adj
  BY DEF Build
<1>2. L \subseteq Link /\ Keyed(links, L, N)
  BY ValidLinks
<1> HIDE DEF L, N, links, ids
<1>3. N \in Nat /\ links \in [1..N -> L]
  BY <1>2, Zenon DEF Keyed
<1>4. norm \in [1..N -> Link]
  <2>1. DOMAIN links = 1..N /\ \A k \in 1..N : links[k] \in Link
    BY <1>2, <1>3
  <2> QED BY <2>1, NormalisedLink
<1> HIDE DEF norm
<1>5. PICK f : IndexRun(f, ids, N, norm)
  BY <1>3, <1>4, IndexLoop
<1>6. N \in 0..N /\ f \in [0..N -> [ids \X ids -> Link \cup {NoLink}]] /\ adj = f[N]
  BY <1>3, <1>5 DEF IndexRun
<1> HIDE DEF adj
<1>7. DOMAIN adj = ids \X ids
  BY <1>6
<1>8. <<a, b>> \notin DOMAIN adj
  BY <1>7 DEF ids
<1> QED BY <1>1, <1>8 DEF LinkBetween

\* A link and the same link from the other end.
LEMMA EitherEnd ==
  ASSUME NEW l \in Link, NEW m \in {l, flipped(l)}
  PROVE  /\ m \in Link /\ l \in {m, flipped(m)}
         /\ linkKey(m) = linkKey(l) /\ normalised(m) = normalised(l)
         /\ \A ids : validateLink(m, ids) <=> validateLink(l, ids)
         /\ m.bandwidth = l.bandwidth /\ m.hops = l.hops /\ m.type = l.type /\ m.health = l.health
         /\ {m.source, m.target} = {l.source, l.target}
<1> DEFINE f == flipped(l)
<1>1. /\ f \in Link
      /\ f.source = l.target /\ f.target = l.source
      /\ f.type = l.type /\ f.bandwidth = l.bandwidth
      /\ f.hops = l.hops /\ f.health = l.health
      /\ f.wellFormed = l.wellFormed
      /\ flipped(f) = l
  BY FlippedLink
<1>2. linkKey(f) = linkKey(l)
  BY KeyType
<1>3. l.source \in Nat /\ l.target \in Nat
  BY DEF Link
<1>4. l.source = l.target => f = l
  BY Zenon DEF flipped, Link
<1> HIDE DEF f
<1>5. normalised(f) = normalised(l)
  BY <1>1, <1>3, <1>4 DEF normalised, f
<1>6. \A ids : validateLink(f, ids) <=> validateLink(l, ids)
  BY <1>1 DEF validateLink
<1> QED BY <1>1, <1>2, <1>5, <1>6 DEF f

-------------------------------------------------------------------------------
\* Lists of devices, and what a mode asks of them.

\* A list of m devices in the order of their IDs.
Listed(devices, m) ==
  /\ m \in Nat /\ devices \in [1..m -> Device]
  /\ \A k, l \in 1..m : devices[k].id < devices[l].id <=> k < l

\* Devices in the order of their IDs do not repeat an ID.
LEMMA ListedFacts ==
  ASSUME NEW devices, NEW m, Listed(devices, m)
  PROVE  /\ m \in Nat /\ Len(devices) = m /\ DOMAIN devices = 1..m
         /\ \A k \in 1..m : devices[k] \in Device /\ devices[k].id \in Nat
         /\ \A k, l \in 1..m : devices[k].id = devices[l].id => k = l
         /\ IDs(devices) = {devices[k].id : k \in 1..m}
         /\ Range(devices) = {devices[k] : k \in 1..m}
<1>1. m \in Nat /\ devices \in [1..m -> Device]
  BY DEF Listed
<1>2. Len(devices) = m /\ DOMAIN devices = 1..m
  BY <1>1
<1>3. \A k \in 1..m : devices[k] \in Device /\ devices[k].id \in Nat
  BY <1>1 DEF Device
<1>4. \A k, l \in 1..m : devices[k].id < devices[l].id <=> k < l
  BY DEF Listed
<1>5. \A k, l \in 1..m : devices[k].id = devices[l].id => k = l
  BY <1>1, <1>3, <1>4
<1> QED BY <1>1, <1>2, <1>3, <1>5 DEF IDs, Range

\* Keeping some of the devices keeps their order.
LEMMA KeepListed ==
  ASSUME NEW devices, NEW m, Listed(devices, m), NEW I \in SUBSET (1..m)
  PROVE  /\ Listed(keep(devices, I), Cardinality(I))
         /\ Range(keep(devices, I)) = {devices[i] : i \in I}
<1> DEFINE c == Cardinality(I)
           t == keep(devices, I)
<1>1. m \in Nat /\ devices \in [1..m -> Device]
  BY DEF Listed
<1>k. Kept(t, devices, Device, I, m, c)
  BY <1>1, KeepKeeps
<1>2. /\ c \in 0..m
      /\ t \in [1..c -> Device]
      /\ Range(t) = {devices[i] : i \in I}
      /\ SameOrder(t, devices, I, c)
  BY <1>k DEF Kept
<1> HIDE DEF c, t
<1>3. \A k, l \in 1..m : devices[k].id < devices[l].id <=> k < l
  BY DEF Listed
<1>4. ASSUME NEW k \in 1..c, NEW l \in 1..c, k < l
      PROVE  t[k].id < t[l].id
  <2>1. PICK i \in I, j \in I : i < j /\ t[k] = devices[i] /\ t[l] = devices[j]
    BY <1>2, <1>4, SMTT(30) DEF SameOrder
  <2>2. i \in 1..m /\ j \in 1..m
    OBVIOUS
  <2> QED BY <2>1, <2>2, <1>3
<1>5. \A k \in 1..c : t[k].id \in Nat
  BY <1>2 DEF Device
<1>6. \A k, l \in 1..c : t[k].id < t[l].id <=> k < l
  BY <1>2, <1>4, <1>5
<1> QED BY <1>2, <1>6 DEF Listed, t, c

\* The devices of the snapshot that a policy accepts, without the reserved ones.
Offered(devices, topo, policy, reserved) ==
  /\ Listed(devices, Len(devices))
  /\ Range(devices) = {d \in Range(topo.devices) : Eligible(d, policy) /\ d.id \notin reserved}

\* The devices of a snapshot are those of the spec, in order.
LEMMA BuildDevices ==
  ASSUME NEW topo \in TopologySpec, Valid(topo)
  PROVE  /\ Listed(Build(topo).devices, Len(topo.devices))
         /\ Range(Build(topo).devices) = Range(topo.devices)
         /\ \A d, e \in Range(topo.devices) : d.id = e.id => d = e
<1>1. Build(topo).devices = byID(Range(topo.devices))
  BY DEF Build
<1> QED BY <1>1, DevicesInOrder, ValidSpec DEF Listed

\* eligibleDevices offers the devices that the policy accepts.
LEMMA EligibleOffered ==
  ASSUME NEW topo \in TopologySpec, Valid(topo), NEW policy
  PROVE  Offered(eligibleDevices(Build(topo), policy), topo, policy, {})
<1> DEFINE devices == Build(topo).devices
           m == Len(topo.devices)
           I == {i \in DOMAIN devices : Eligible(devices[i], policy)}
<1>1. Listed(devices, m) /\ Range(devices) = Range(topo.devices)
  BY BuildDevices
<1>2. DOMAIN devices = 1..m /\ Range(devices) = {devices[k] : k \in 1..m}
  BY <1>1, ListedFacts
<1>3. eligibleDevices(Build(topo), policy) = keep(devices, I)
  BY DEF eligibleDevices
<1> HIDE DEF devices, m
<1>4. I \in SUBSET (1..m)
  BY <1>2
<1>5. Listed(keep(devices, I), Cardinality(I)) /\ Range(keep(devices, I)) = {devices[i] : i \in I}
  BY <1>1, <1>4, KeepListed
<1>6. Len(keep(devices, I)) = Cardinality(I)
  BY <1>5, ListedFacts
<1>7. {devices[i] : i \in I} = {d \in Range(topo.devices) : Eligible(d, policy) /\ d.id \notin {}}
  BY <1>1, <1>2
<1> QED BY <1>3, <1>5, <1>6, <1>7 DEF Offered

\* excludeReservedDevices takes the reserved ones off.
LEMMA ExcludedOffered ==
  ASSUME NEW topo \in TopologySpec, Valid(topo), NEW policy, NEW reserved
  PROVE  Offered(excludeReservedDevices(eligibleDevices(Build(topo), policy), reserved),
                 topo, policy, reserved)
<1> DEFINE devices == eligibleDevices(Build(topo), policy)
           m == Len(devices)
           I == {i \in DOMAIN devices : devices[i].id \notin reserved}
<1>1. /\ Listed(devices, m)
      /\ Range(devices) = {d \in Range(topo.devices) : Eligible(d, policy) /\ d.id \notin {}}
  BY EligibleOffered DEF Offered
<1>2. DOMAIN devices = 1..m /\ Range(devices) = {devices[k] : k \in 1..m}
  BY <1>1, ListedFacts
<1>3. excludeReservedDevices(devices, reserved) = keep(devices, I)
  BY DEF excludeReservedDevices
<1> HIDE DEF devices, m
<1>4. I \in SUBSET (1..m)
  BY <1>2
<1>5. Listed(keep(devices, I), Cardinality(I)) /\ Range(keep(devices, I)) = {devices[i] : i \in I}
  BY <1>1, <1>4, KeepListed
<1>6. Len(keep(devices, I)) = Cardinality(I)
  BY <1>5, ListedFacts
<1>7. ASSUME NEW d
      PROVE  d \in {devices[i] : i \in I}
             <=> d \in {e \in Range(topo.devices) : Eligible(e, policy) /\ e.id \notin reserved}
  <2>1. d \in {devices[i] : i \in I} <=> d \in Range(devices) /\ d.id \notin reserved
    BY <1>2
  <2> QED BY <2>1, <1>1
<1>8. {devices[i] : i \in I} = {e \in Range(topo.devices) : Eligible(e, policy) /\ e.id \notin reserved}
  BY <1>7
<1> QED BY <1>3, <1>5, <1>6, <1>8 DEF Offered, devices

\* The devices that a list offers, by their IDs.
LEMMA OfferedFacts ==
  ASSUME NEW s \in TopologySpec, Valid(s), NEW policy, NEW reserved, NEW devices,
         Offered(devices, s, policy, reserved)
  PROVE  /\ Listed(devices, Len(devices)) /\ Len(devices) \in Nat
         /\ Range(devices) \subseteq Range(s.devices)
         /\ IDs(devices) = {d.id : d \in Range(devices)}
         /\ IDs(devices) = IDs(eligibleDevices(Build(s), policy)) \ reserved
         /\ IDs(devices) \subseteq IDs(s.devices)
         /\ \A d \in Range(s.devices) :
              (CHOOSE e \in Range(Build(s).devices) : e.id = d.id) = d
<1>1. /\ Listed(devices, Len(devices))
      /\ Range(devices) = {d \in Range(s.devices) : Eligible(d, policy) /\ d.id \notin reserved}
  BY DEF Offered
<1>2. /\ Len(devices) \in Nat /\ DOMAIN devices = 1..Len(devices)
      /\ IDs(devices) = {devices[k].id : k \in 1..Len(devices)}
      /\ Range(devices) = {devices[k] : k \in 1..Len(devices)}
  BY <1>1, ListedFacts
<1>3. IDs(devices) = {d.id : d \in Range(devices)}
  BY <1>2
<1> DEFINE eligible == eligibleDevices(Build(s), policy)
<1>4. /\ Listed(eligible, Len(eligible))
      /\ Range(eligible) = {d \in Range(s.devices) : Eligible(d, policy) /\ d.id \notin {}}
  BY EligibleOffered DEF Offered
<1> HIDE DEF eligible
<1>5. /\ IDs(eligible) = {eligible[k].id : k \in 1..Len(eligible)}
      /\ Range(eligible) = {eligible[k] : k \in 1..Len(eligible)}
  BY <1>4, ListedFacts
<1>6. IDs(eligible) = {d.id : d \in Range(eligible)}
  BY <1>5
<1>7. ASSUME NEW x
      PROVE  x \in IDs(devices) <=> x \in IDs(eligible) \ reserved
  <2>1. x \in IDs(devices) <=> \E d \in Range(devices) : x = d.id
    BY <1>3
  <2>2. x \in IDs(eligible) <=> \E d \in Range(eligible) : x = d.id
    BY <1>6
  <2>3. \A d : d \in Range(devices) <=> d \in Range(eligible) /\ d.id \notin reserved
    BY <1>1, <1>4
  <2> QED BY <2>1, <2>2, <2>3
<1>8. IDs(devices) = IDs(eligible) \ reserved
  BY <1>7
<1>9. IDs(s.devices) = {d.id : d \in Range(s.devices)}
  BY ValidSpec
<1>10. IDs(devices) \subseteq IDs(s.devices)
  BY <1>1, <1>3, <1>9
<1>11. ASSUME NEW d \in Range(s.devices)
       PROVE  (CHOOSE e \in Range(Build(s).devices) : e.id = d.id) = d
  <2>1. Range(Build(s).devices) = Range(s.devices) /\ \A e, f \in Range(s.devices) : e.id = f.id => e = f
    BY BuildDevices
  <2> QED BY <2>1
<1> QED BY <1>1, <1>2, <1>3, <1>8, <1>10, <1>11 DEF eligible

Linking(snapshot, policy, S) ==
  \A a, b \in S : a # b => Linked(snapshot, policy, a, b)

\* Every proper part of S is linked with the rest of it.
Joined(snapshot, policy, S) ==
  \A P \in (SUBSET S) \ {{}, S} : \E a \in P, b \in S \ P : Linked(snapshot, policy, a, b)

\* The devices of one value of a field.
Alike(s, allowUnknown, key, S) ==
  \A d, e \in Range(s.devices) : d.id \in S /\ e.id \in S =>
    d[key] = e[key] /\ (d[key] # Unknown \/ allowUnknown)

\* What a mode asks of devices of the spec.
LEMMA SatisfiesFacts ==
  ASSUME NEW s \in TopologySpec, Valid(s), NEW policy, NEW S \in SUBSET IDs(s.devices)
  PROVE  /\ policy.mode = "best-effort" => Satisfies(Build(s), policy, S)
         /\ policy.mode = "single-numa" =>
              (Satisfies(Build(s), policy, S) <=> Alike(s, policy.allowUnknown, "numaNode", S))
         /\ policy.mode = "same-pcie-root" =>
              (Satisfies(Build(s), policy, S) <=> Alike(s, policy.allowUnknown, "pcieRoot", S))
         /\ policy.mode = "fabric-clique" =>
              (Satisfies(Build(s), policy, S) <=> Linking(Build(s), policy, S))
         /\ policy.mode = "fabric-connected" =>
              (Satisfies(Build(s), policy, S) <=> Joined(Build(s), policy, S))
<1> DEFINE D == Range(Build(s).devices)
           device(id) == CHOOSE d \in D : d.id = id
           Together(key) == \A a, b \in S :
             /\ device(a)[key] = device(b)[key]
             /\ device(a)[key] # Unknown \/ policy.allowUnknown
<1>1. D = Range(s.devices) /\ \A d, e \in D : d.id = e.id => d = e
  BY BuildDevices
<1>2. IDs(s.devices) = {d.id : d \in D}
  BY <1>1, ValidSpec
<1> HIDE DEF D
<1>3. \A d \in D : device(d.id) = d
  BY <1>1
<1>4. \A a \in S : \E d \in D : a = d.id
  BY <1>2
<1> HIDE DEF device
<1>5. ASSUME NEW key
      PROVE  Together(key) <=> Alike(s, policy.allowUnknown, key, S)
  <2>1. ASSUME Together(key)
        PROVE  Alike(s, policy.allowUnknown, key, S)
    BY <1>1, <1>3, <2>1 DEF Alike
  <2>2. ASSUME Alike(s, policy.allowUnknown, key, S)
        PROVE  Together(key)
    <3> SUFFICES ASSUME NEW a \in S, NEW b \in S
                 PROVE  /\ device(a)[key] = device(b)[key]
                        /\ device(a)[key] # Unknown \/ policy.allowUnknown
      OBVIOUS
    <3>1. PICK d \in D : a = d.id
      BY <1>4
    <3>2. PICK e \in D : b = e.id
      BY <1>4
    <3> QED BY <1>1, <1>3, <2>2, <3>1, <3>2 DEF Alike
  <2> QED BY <2>1, <2>2
<1>6. policy.mode = "best-effort" => Satisfies(Build(s), policy, S)
  BY DEF Satisfies
<1>7. policy.mode = "single-numa" => (Satisfies(Build(s), policy, S) <=> Together("numaNode"))
  BY DEF Satisfies, device, D
<1>8. policy.mode = "same-pcie-root" => (Satisfies(Build(s), policy, S) <=> Together("pcieRoot"))
  BY DEF Satisfies, device, D
<1>9. policy.mode = "fabric-clique" => (Satisfies(Build(s), policy, S) <=> Linking(Build(s), policy, S))
  BY DEF Satisfies, Linking
<1>10. policy.mode = "fabric-connected" => (Satisfies(Build(s), policy, S) <=> Joined(Build(s), policy, S))
  BY DEF Satisfies, Joined
<1> HIDE DEF Together
<1> QED BY <1>5, <1>6, <1>7, <1>8, <1>9, <1>10

-------------------------------------------------------------------------------
\* The score.

Features == [locality : 0..100, fabric : 0..100, fragmentation : 0..100, headroom : 0..100]

Weights == [locality : Int, fabric : Int, fragmentation : Int, headroom : Int]

\* A feature is a percentage whatever the counts are, negative ones included
\* (remaining - requested in scoreFeatures).
LEMMA PercentageBounds ==
  ASSUME NEW numerator \in Int, NEW denominator \in Int
  PROVE  percentage(numerator, denominator) \in 0..100
<1>1. CASE numerator <= 0 \/ denominator <= 0
  BY <1>1 DEF percentage
<1>2. CASE numerator > 0 /\ denominator > 0
  <2> DEFINE q == (numerator * 100) \div denominator
  <2>1. numerator * 100 \in Nat /\ denominator \in Nat \ {0}
    BY <1>2
  <2>2. q \in Nat
    BY <2>1
  <2> HIDE DEF q
  <2>3. percentage(numerator, denominator) = IF q > 100 THEN 100 ELSE q
    BY <1>2 DEF percentage, q
  <2> QED BY <2>2, <2>3
<1> QED BY <1>1, <1>2

\* What a product of a percentage and a weight is.
Bounded(f, w) ==
  /\ f * w \in Int
  /\ 0 <= f * w
  /\ f * w <= 100 * w
  /\ f * w = 100 * w <=> f = 100 \/ w = 0

\* Every feature times its weight is bounded by the weight.
LEMMA ProductBounds ==
  ASSUME NEW f \in 0..100, NEW w \in Int, w >= 0
  PROVE  Bounded(f, w)
<1>1. f \in Int /\ 100 - f \in Nat /\ w \in Nat
  OBVIOUS
<1>2. (100 - f) * w = 100 * w - f * w
  BY <1>1
<1>3. (100 - f) * w >= 0 /\ ((100 - f) * w = 0 => 100 - f = 0 \/ w = 0)
  BY <1>1
<1>4. f = 100 \/ w = 0 => f * w = 100 * w
  BY <1>1
<1>5. f * w \in Int /\ 0 <= f * w
  BY <1>1
<1> QED BY <1>1, <1>2, <1>3, <1>4, <1>5 DEF Bounded

\* A sum of bounded terms reaches the sum of the bounds only at every bound.
LEMMA SumAtBound ==
  ASSUME NEW a \in Int, NEW b \in Int, NEW c \in Int, NEW d \in Int,
         NEW p \in Int, NEW q \in Int, NEW r \in Int, NEW s \in Int,
         a <= p, b <= q, c <= r, d <= s
  PROVE  a + b + c + d = p + q + r + s <=> a = p /\ b = q /\ c = r /\ d = s
OBVIOUS

\* Under weights that validatePolicy accepts, the clamp in weightedScore never
\* acts: the score is the weighted mean, a legal framework score.
THEOREM ScoreNeverClamped ==
  ASSUME NEW features \in Features, NEW weights \in Weights, ValidWeights(weights)
  PROVE  /\ weightedScore(features, weights) = weightedMean(features, weights)
         /\ weightedScore(features, weights) \in MinNodeScore..MaxNodeScore
<1> DEFINE sum == weightedSum(features, weights)
<1>1. sum \in Int /\ 0 <= sum /\ sum <= 10000
  <2> DEFINE a == features.locality * weights.locality
             b == features.fabric * weights.fabric
             c == features.fragmentation * weights.fragmentation
             d == features.headroom * weights.headroom
  <2>1. a \in Int /\ 0 <= a /\ a <= 100 * weights.locality
    BY ProductBounds DEF Features, Weights, ValidWeights, Bounded
  <2>2. b \in Int /\ 0 <= b /\ b <= 100 * weights.fabric
    BY ProductBounds DEF Features, Weights, ValidWeights, Bounded
  <2>3. c \in Int /\ 0 <= c /\ c <= 100 * weights.fragmentation
    BY ProductBounds DEF Features, Weights, ValidWeights, Bounded
  <2>4. d \in Int /\ 0 <= d /\ d <= 100 * weights.headroom
    BY ProductBounds DEF Features, Weights, ValidWeights, Bounded
  <2>5. sum = a + b + c + d
    BY DEF weightedSum
  <2> HIDE DEF a, b, c, d, sum
  <2> QED BY <2>1, <2>2, <2>3, <2>4, <2>5 DEF Weights, ValidWeights
<1>2. weightedMean(features, weights) = sum \div 100
  BY DEF weightedMean
<1> HIDE DEF sum
<1>3. sum \div 100 \in 0..100
  BY <1>1
<1> QED BY <1>2, <1>3 DEF weightedScore, MinNodeScore, MaxNodeScore

\* A node gets the maximal score exactly when every feature that has weight is
\* at 100: rounding never lifts an imperfect node to the top of the ranking.
THEOREM PerfectScore ==
  ASSUME NEW features \in Features, NEW weights \in Weights, ValidWeights(weights)
  PROVE  weightedScore(features, weights) = MaxNodeScore
           <=> /\ features.locality = 100 \/ weights.locality = 0
               /\ features.fabric = 100 \/ weights.fabric = 0
               /\ features.fragmentation = 100 \/ weights.fragmentation = 0
               /\ features.headroom = 100 \/ weights.headroom = 0
<1> DEFINE a == features.locality * weights.locality
           b == features.fabric * weights.fabric
           c == features.fragmentation * weights.fragmentation
           d == features.headroom * weights.headroom
           sum == weightedSum(features, weights)
<1>0. /\ features.locality \in 0..100 /\ weights.locality \in Int /\ weights.locality >= 0
      /\ features.fabric \in 0..100 /\ weights.fabric \in Int /\ weights.fabric >= 0
      /\ features.fragmentation \in 0..100
      /\ weights.fragmentation \in Int /\ weights.fragmentation >= 0
      /\ features.headroom \in 0..100 /\ weights.headroom \in Int /\ weights.headroom >= 0
  BY DEF Features, Weights, ValidWeights
<1>1. /\ Bounded(features.locality, weights.locality)
      /\ Bounded(features.fabric, weights.fabric)
      /\ Bounded(features.fragmentation, weights.fragmentation)
      /\ Bounded(features.headroom, weights.headroom)
  BY <1>0, ProductBounds
<1>2. /\ a \in Int /\ a <= 100 * weights.locality
      /\ b \in Int /\ b <= 100 * weights.fabric
      /\ c \in Int /\ c <= 100 * weights.fragmentation
      /\ d \in Int /\ d <= 100 * weights.headroom
  BY <1>1, Zenon DEF Bounded
<1>3. /\ a = 100 * weights.locality <=> features.locality = 100 \/ weights.locality = 0
      /\ b = 100 * weights.fabric <=> features.fabric = 100 \/ weights.fabric = 0
      /\ c = 100 * weights.fragmentation
           <=> features.fragmentation = 100 \/ weights.fragmentation = 0
      /\ d = 100 * weights.headroom <=> features.headroom = 100 \/ weights.headroom = 0
  BY <1>1, Zenon DEF Bounded
<1>5. sum = a + b + c + d
  BY DEF weightedSum
<1>6. weightedScore(features, weights) = sum \div 100
  BY ScoreNeverClamped DEF weightedMean
<1> HIDE DEF a, b, c, d, sum
<1>7. sum \in Int /\ sum <= 10000
  BY <1>2, <1>5 DEF Weights, ValidWeights
<1>8. sum \div 100 = 100 <=> sum = 10000
  BY <1>7
<1> DEFINE p == 100 * weights.locality
           q == 100 * weights.fabric
           r == 100 * weights.fragmentation
           s == 100 * weights.headroom
<1>9. p \in Int /\ q \in Int /\ r \in Int /\ s \in Int /\ p + q + r + s = 10000
  BY DEF Weights, ValidWeights
<1>10. sum = 10000 <=> a = p /\ b = q /\ c = r /\ d = s
  <2>1. a <= p /\ b <= q /\ c <= r /\ d <= s
    BY <1>2
  <2> HIDE DEF p, q, r, s
  <2> QED BY <1>2, <1>5, <1>9, <2>1, SumAtBound
<1> QED BY <1>3, <1>6, <1>8, <1>10 DEF MaxNodeScore

\* Division rounds down.
LEMMA DivisionBounds ==
  ASSUME NEW a \in Nat, NEW n \in Nat \ {0}
  PROVE  /\ a \div n \in Nat
         /\ n * (a \div n) <= a /\ a < n * (a \div n) + n
OBVIOUS

\* Division is monotone in the dividend.
LEMMA DivisionMonotone ==
  ASSUME NEW a \in Nat, NEW b \in Nat, a <= b, NEW n \in Nat \ {0}
  PROVE  a \div n <= b \div n
<1> DEFINE x == a \div n
           y == b \div n
<1>1. x \in Nat /\ n * x <= a /\ a < n * x + n
  BY DivisionBounds
<1>2. y \in Nat /\ n * y <= b /\ b < n * y + n
  BY DivisionBounds
<1> HIDE DEF x, y
<1>3. SUFFICES ASSUME x >= y + 1 PROVE FALSE
  BY <1>1, <1>2 DEF x, y
<1>4. PICK z \in Nat : x = y + 1 + z
  BY <1>1, <1>2, <1>3
<1>5. n * x = n * y + n + n * z /\ n * z \in Nat /\ n * y \in Nat /\ n * x \in Nat
  BY <1>2, <1>4
<1> QED BY <1>1, <1>2, <1>5

\* So is percentage, clamp and rounding included.
LEMMA PercentageMonotone ==
  ASSUME NEW a \in Int, NEW b \in Int, a <= b, NEW n \in Int
  PROVE  percentage(a, n) <= percentage(b, n)
<1>1. percentage(b, n) \in 0..100
  BY PercentageBounds, SMTT(30)
<1>2. CASE a <= 0 \/ n <= 0
  <2>1. percentage(a, n) = 0
    BY <1>2 DEF percentage
  <2> QED BY <1>1, <2>1
<1>3. CASE a > 0 /\ n > 0
  <2> DEFINE x == (a * 100) \div n
             y == (b * 100) \div n
  <2>1. a * 100 \in Nat /\ b * 100 \in Nat /\ a * 100 <= b * 100 /\ n \in Nat \ {0}
    BY <1>3
  <2>2. x <= y /\ x \in Nat /\ y \in Nat
    BY <2>1, DivisionMonotone, DivisionBounds
  <2>3. /\ percentage(a, n) = IF x > 100 THEN 100 ELSE x
        /\ percentage(b, n) = IF y > 100 THEN 100 ELSE y
    BY <1>3 DEF percentage
  <2> HIDE DEF x, y
  <2> QED BY <2>2, <2>3
<1> QED BY <1>2, <1>3

\* Only the whole is a hundred percent.
LEMMA WholePercentage ==
  ASSUME NEW a \in Int, NEW n \in Int, percentage(a, n) = 100
  PROVE  n > 0 /\ a >= n
<1>1. a > 0 /\ n > 0
  BY DEF percentage
<1> DEFINE x == (a * 100) \div n
<1>2. x >= 100
  BY <1>1 DEF percentage
<1>3. a * 100 \in Nat /\ n \in Nat \ {0}
  BY <1>1
<1>4. x \in Nat /\ n * x <= a * 100
  BY <1>3, DivisionBounds
<1> HIDE DEF x
<1>5. PICK z \in Nat : x = 100 + z
  BY <1>2, <1>4
<1>6. n * x = n * 100 + n * z /\ n * z \in Nat
  BY <1>3, <1>5
<1>7. n * 100 <= a * 100
  BY <1>3, <1>4, <1>6
<1> QED BY <1>1, <1>7
===============================================================================
