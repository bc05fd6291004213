------------------------------ MODULE ListsProofs ------------------------------
(***************************************************************************)
(* Induction and recursion over numbers, and what the lists of Lists are.  *)
(***************************************************************************)
EXTENDS Lists, FunctionTheorems, FiniteSetTheorems, SequenceTheorems, WellFoundedInduction, TLAPS

(***************************************************************************)
(* Induction and recursion over numbers.  The library's theorems of both   *)
(* are about an operator, which no prover here can instantiate: these are  *)
(* about sets and functions.                                               *)
(***************************************************************************)

\* A set of natural numbers that is not empty has a least one.
LEMMA LeastNumber ==
    ASSUME NEW S \in SUBSET Nat, S # {} PROVE \E n \in S : \A m \in S : n <= m
<1> DEFINE R == OpToRel(<, Nat)
<1>1. IsWellFoundedOn(R, Nat)
  BY NatLessThanWellFounded
<1>2. \A m, n \in Nat : m < n => <<m, n>> \in R
  BY DEF OpToRel
<1> HIDE DEF R
<1>3. PICK n \in S : \A m \in S : ~(<<m, n>> \in R)
  BY <1>1, WFMin
<1>4. ASSUME NEW m \in S PROVE n <= m
  <2>1. ~(<<m, n>> \in R) /\ m \in Nat /\ n \in Nat
    BY <1>3
  <2>2. ~(m < n)
    BY <1>2, <2>1, Zenon
  <2> QED BY <2>1, <2>2
<1> QED BY <1>4

\* Functions with the same values are the same.
LEMMA SameFunction ==
    ASSUME NEW S, NEW T, NEW f \in [S -> T], NEW g \in [S -> T], \A x \in S : f[x] = g[x]
    PROVE  f = g
OBVIOUS

\* A sequence of elements of S is one of elements of more than S.
LEMMA SeqOfMore ==
    ASSUME NEW S, NEW T, S \subseteq T, NEW list \in Seq(S) PROVE list \in Seq(T)
OBVIOUS

LEMMA LenOfConcat ==
    ASSUME NEW S, NEW s \in Seq(S), NEW t \in Seq(S) PROVE Len(s \o t) = Len(s) + Len(t)
OBVIOUS

\* Induction up to N.
LEMMA Induction ==
    ASSUME NEW N \in Nat, NEW S, 0 \in S, \A k \in 1..N : k - 1 \in S => k \in S
    PROVE  0..N \subseteq S
<1> DEFINE T == (0..N) \ S
<1> SUFFICES ASSUME T # {} PROVE FALSE
  OBVIOUS
<1>1. T \in SUBSET Nat
  OBVIOUS
<1>2. PICK n \in T : \A m \in T : n <= m
  BY <1>1, LeastNumber
<1>3. n \in 1..N /\ n - 1 \in 0..N /\ n - 1 < n
  BY <1>2
<1>4. n - 1 \in S
  BY <1>2, <1>3
<1> QED BY <1>2, <1>3, <1>4

\* Recursion up to N: there is a function that begins with a, and takes the step G[k]
\* from k - 1 to k.
Follows(N, V, a, G, f) ==
    f \in [0..N -> V] /\ f[0] = a /\ \A k \in 1..N : f[k] = G[k][f[k - 1]]

LEMMA Recursion ==
    ASSUME NEW N \in Nat, NEW V, NEW a \in V, NEW G \in [1..N -> [V -> V]]
    PROVE  \E f : Follows(N, V, a, G, f)
<1> DEFINE Upto(n) == \E f \in [0..n -> V] : f[0] = a /\ \A k \in 1..n : f[k] = G[k][f[k - 1]]
           S == {n \in 0..N : Upto(n)}
<1>1. 0 \in S
  <2> DEFINE f == [k \in 0..0 |-> a]
  <2>1. f \in [0..0 -> V] /\ f[0] = a /\ \A k \in 1..0 : f[k] = G[k][f[k - 1]]
    OBVIOUS
  <2>2. Upto(0)
    BY <2>1
  <2> QED BY <2>2
<1>2. ASSUME NEW n \in 1..N, n - 1 \in S PROVE n \in S
  <2>1. PICK f \in [0..n - 1 -> V] : f[0] = a /\ \A k \in 1..n - 1 : f[k] = G[k][f[k - 1]]
    BY <1>2
  <2> DEFINE g == [k \in 0..n |-> IF k = n THEN G[n][f[n - 1]] ELSE f[k]]
  <2>2. g \in [0..n -> V]
    <3>1. G[n][f[n - 1]] \in V
      OBVIOUS
    <3> HIDE DEF S
    <3> QED BY <3>1
  <2>3. g[0] = a
    BY <2>1
  <2>4. ASSUME NEW k \in 1..n PROVE g[k] = G[k][g[k - 1]]
    <3>1. CASE k = n
      BY <3>1
    <3>2. CASE k # n
      <4>1. k \in 1..n - 1
        BY <3>2
      <4> QED BY <2>1, <3>2, <4>1
    <3> QED BY <3>1, <3>2
  <2> HIDE DEF g
  <2>5. Upto(n)
    BY <2>2, <2>3, <2>4
  <2> QED BY <2>5
<1> HIDE DEF S
<1>3. 0..N \subseteq S
  BY <1>1, <1>2, Induction
<1>4. N \in S
  BY <1>3
<1> QED BY <1>4 DEF S, Follows

(* Lists of the members of a set. *)

\* A strict and total order.
Orders(S, before) ==
    /\ IsFiniteSet(S)
    /\ \A x \in S : <<x, x>> \notin before
    /\ \A x, y \in S : x # y => <<x, y>> \in before \/ <<y, x>> \in before
    /\ \A x, y, z \in S : <<x, y>> \in before /\ <<y, z>> \in before => <<x, z>> \in before

Preceding(S, before, x) == {y \in S : <<y, x>> \in before}

\* Each member is there once, after those that are before it.
Enumerates(S, before, list) ==
    /\ list \in [1..Cardinality(S) -> S]
    /\ \A x \in S : \E k \in 1..Cardinality(S) : list[k] = x
    /\ \A i, j \in 1..Cardinality(S) : i < j => <<list[i], list[j]>> \in before

LEMMA PartsAreFinite ==
    ASSUME NEW S, IsFiniteSet(S), NEW T \in SUBSET S
    PROVE  /\ IsFiniteSet(T) /\ Cardinality(T) \in Nat /\ Cardinality(S) \in Nat
           /\ Cardinality(T) <= Cardinality(S)
           /\ Cardinality(T) = Cardinality(S) => T = S
BY FS_Subset, FS_CardinalityType

\* Fewer are ahead of the first of two.
LEMMA FewerPrecede ==
    ASSUME NEW S, NEW before, Orders(S, before), NEW x \in S, NEW y \in S, <<x, y>> \in before
    PROVE  Cardinality(Preceding(S, before, x)) < Cardinality(Preceding(S, before, y))
<1> DEFINE ax == Preceding(S, before, x)
           ay == Preceding(S, before, y)
<1>1. ax \in SUBSET ay /\ x \in ay /\ x \notin ax /\ ay \in SUBSET S
  BY DEF Preceding, Orders
<1>2. IsFiniteSet(ay)
  BY <1>1, PartsAreFinite DEF Orders
<1> HIDE DEF ax, ay
<1>3. /\ Cardinality(ax) \in Nat /\ Cardinality(ay) \in Nat /\ Cardinality(ax) <= Cardinality(ay)
      /\ Cardinality(ax) = Cardinality(ay) => ax = ay
  BY <1>1, <1>2, PartsAreFinite
<1>4. ax # ay
  BY <1>1
<1>5. Cardinality(ax) < Cardinality(ay)
  BY <1>3, <1>4
<1> QED BY <1>5 DEF ax, ay

\* Each number below the size of a set is how many are ahead of one of its members.
LEMMA RanksAreAll ==
    ASSUME NEW S, NEW before, Orders(S, before), NEW k \in 1..Cardinality(S)
    PROVE  \E x \in S : Cardinality(Preceding(S, before, x)) = k - 1
<1> DEFINE n == Cardinality(S)
           rank(x) == Cardinality(Preceding(S, before, x)) + 1
           r == [x \in S |-> rank(x)]
<1>1. IsFiniteSet(S) /\ n \in Nat
  BY FS_CardinalityType DEF Orders
<1>2. ASSUME NEW x \in S PROVE Cardinality(Preceding(S, before, x)) \in Nat /\ rank(x) \in 1..n
  <2> DEFINE ax == Preceding(S, before, x)
  <2>1. ax \in SUBSET S /\ x \notin ax
    BY DEF Preceding, Orders
  <2> HIDE DEF ax
  <2>2. /\ Cardinality(ax) \in Nat /\ Cardinality(ax) <= n
        /\ Cardinality(ax) = n => ax = S
    BY <1>1, <2>1, PartsAreFinite
  <2>3. ax # S
    BY <2>1
  <2>4. Cardinality(ax) + 1 \in 1..n
    BY <1>1, <2>2, <2>3
  <2> QED BY <2>2, <2>4 DEF ax
<1>3. ASSUME NEW x \in S, NEW y \in S, rank(x) = rank(y) PROVE x = y
  <2> DEFINE cx == Cardinality(Preceding(S, before, x))
             cy == Cardinality(Preceding(S, before, y))
  <2>1. cx \in Nat /\ cy \in Nat /\ cx + 1 = cy + 1
    BY <1>2, <1>3
  <2>2. (<<x, y>> \in before => cx < cy) /\ (<<y, x>> \in before => cy < cx)
    BY FewerPrecede
  <2>3. x # y => <<x, y>> \in before \/ <<y, x>> \in before
    BY DEF Orders
  <2> HIDE DEF cx, cy
  <2> QED BY <2>1, <2>2, <2>3
<1>4. IsFiniteSet(1..n) /\ Cardinality(1..n) = n
  BY <1>1, FS_Interval
<1>5. r \in Injection(S, 1..n)
  BY <1>2, <1>3 DEF Injection, IsInjective
<1> HIDE DEF r
<1>6. r \in Surjection(S, 1..n)
  BY <1>1, <1>4, <1>5, FS_Injection
<1>7. PICK x \in S : r[x] = k
  BY <1>6 DEF Surjection
<1>8. rank(x) = k
  BY <1>7 DEF r
<1> QED BY <1>2, <1>8

LEMMA InOrderLists ==
    ASSUME NEW S, NEW before, Orders(S, before)
    PROVE  Enumerates(S, before, InOrder(S, before)) /\ Cardinality(S) \in Nat
<1> DEFINE n == Cardinality(S)
           b == InOrder(S, before)
           e(k) == CHOOSE x \in S : Cardinality({y \in S : <<y, x>> \in before}) = k - 1
           rank(x) == Cardinality(Preceding(S, before, x))
<1>1. IsFiniteSet(S) /\ n \in Nat
  BY FS_CardinalityType DEF Orders
<1>2. b = [k \in 1..n |-> e(k)]
  BY DEF InOrder
<1>3. ASSUME NEW k \in 1..n PROVE e(k) \in S /\ rank(e(k)) = k - 1
  <2>1. e(k) = CHOOSE x \in S : rank(x) = k - 1
    BY DEF Preceding
  <2>2. \E x \in S : rank(x) = k - 1
    BY RanksAreAll
  <2> HIDE DEF rank, e
  <2> QED BY <2>1, <2>2
<1> HIDE DEF b, e, n
<1>4. b \in [1..n -> S]
  BY <1>2, <1>3
<1>5. \A k \in 1..n : b[k] \in S /\ rank(b[k]) = k - 1
  BY <1>2, <1>3
<1>6. ASSUME NEW i \in 1..n, NEW j \in 1..n, i < j PROVE <<b[i], b[j]>> \in before
  <2>1. rank(b[i]) = i - 1 /\ rank(b[j]) = j - 1 /\ b[i] \in S /\ b[j] \in S
    BY <1>5
  <2>2. <<b[j], b[i]>> \in before => rank(b[j]) < rank(b[i])
    BY <2>1, FewerPrecede
  <2> HIDE DEF rank
  <2>3. b[i] # b[j] /\ <<b[j], b[i]>> \notin before
    BY <1>1, <1>6, <2>1, <2>2
  <2> QED BY <2>1, <2>3 DEF Orders
<1>7. ASSUME NEW x \in S PROVE \E k \in 1..n : b[k] = x
  <2>1. IsFiniteSet(1..n) /\ Cardinality(1..n) = n
    BY <1>1, FS_Interval
  <2>2. ASSUME NEW i \in 1..n, NEW j \in 1..n, b[i] = b[j] PROVE i = j
    <3>1. i - 1 = j - 1
      BY <1>5, <2>2
    <3> QED BY <1>1, <3>1
  <2>3. b \in Injection(1..n, S)
    BY <1>4, <2>2 DEF Injection, IsInjective
  <2>4. b \in Surjection(1..n, S)
    BY <1>1, <2>1, <2>3, FS_Injection DEF n
  <2> QED BY <2>4 DEF Surjection
<1>8. Enumerates(S, before, b)
  BY <1>4, <1>6, <1>7 DEF Enumerates, n
<1> QED BY <1>1, <1>8 DEF b, n

\* Each number is there once, after those that are less.
Rises(numbers, list) ==
    /\ list \in [1..Cardinality(numbers) -> numbers] /\ Cardinality(numbers) \in Nat
    /\ \A x \in numbers : \E k \in 1..Cardinality(numbers) : list[k] = x
    /\ \A i, j \in 1..Cardinality(numbers) : i < j => list[i] < list[j]

LEMMA SortedLists ==
    ASSUME NEW numbers \in SUBSET Int, IsFiniteSet(numbers)
    PROVE  Rises(numbers, Sorted(numbers))
<1>1. Orders(numbers, Ascending(numbers))
  <2>1. \A x, y \in numbers : <<x, y>> \in Ascending(numbers) <=> x < y
    BY DEF Ascending
  <2> QED BY <2>1 DEF Orders
<1>2. Enumerates(numbers, Ascending(numbers), Sorted(numbers)) /\ Cardinality(numbers) \in Nat
  BY <1>1, InOrderLists DEF Sorted
<1> QED BY <1>2 DEF Enumerates, Ascending, Rises

\* The elements of s at some of its places, in the order they have there: `at` says where
\* each was.
Keeps(s, places, t, at) ==
    /\ DOMAIN at = 1..Cardinality(places) /\ Cardinality(places) \in Nat
    /\ \A k \in DOMAIN at : at[k] \in places
    /\ \A x \in places : \E k \in DOMAIN at : at[k] = x
    /\ \A i, j \in DOMAIN at : i < j => at[i] < at[j]
    /\ DOMAIN t = DOMAIN at
    /\ \A k \in DOMAIN at : t[k] = s[at[k]]

LEMMA AtKeeps ==
    ASSUME NEW s, NEW n \in Nat, NEW places \in SUBSET (1..n)
    PROVE  \E at : Keeps(s, places, At(s, places), at)
<1> DEFINE at == Sorted(places)
<1>1. IsFiniteSet(1..n) /\ places \subseteq Int
  BY FS_Interval
<1>2. IsFiniteSet(places)
  BY <1>1, FS_Subset
<1>3. Rises(places, at)
  BY <1>1, <1>2, SortedLists
<1>4. At(s, places) = [k \in DOMAIN at |-> s[at[k]]]
  BY DEF At
<1> HIDE DEF at
<1>5. Keeps(s, places, At(s, places), at)
  BY <1>3, <1>4 DEF Keeps, Rises
<1> QED BY <1>5

LEMMA AtIs ==
    ASSUME NEW S, NEW s \in Seq(S), NEW places \in SUBSET (DOMAIN s)
    PROVE  /\ At(s, places) \in Seq(S) /\ Len(At(s, places)) = Cardinality(places)
           /\ \E at : Keeps(s, places, At(s, places), at)
<1> DEFINE t == At(s, places)
<1>1. Len(s) \in Nat /\ DOMAIN s = 1..Len(s)
  OBVIOUS
<1>2. PICK at : Keeps(s, places, t, at)
  BY <1>1, AtKeeps
<1>3. t = [k \in DOMAIN t |-> t[k]]
  BY DEF At
<1> HIDE DEF t
<1>4. DOMAIN t = 1..Cardinality(places) /\ Cardinality(places) \in Nat
  BY <1>2 DEF Keeps
<1>5. \A k \in DOMAIN t : t[k] \in S
  <2>1. \A k \in DOMAIN t : at[k] \in DOMAIN s /\ t[k] = s[at[k]]
    BY <1>2 DEF Keeps
  <2> QED BY <2>1
<1>6. t \in [1..Cardinality(places) -> S]
  BY <1>3, <1>4, <1>5
<1>7. t \in Seq(S) /\ Len(t) = Cardinality(places)
  BY <1>4, <1>6
<1> QED BY <1>2, <1>7 DEF t
(* Lists of lists. *)

SeqsOf(S, seqs) == Len(seqs) \in Nat /\ \A k \in 1..Len(seqs) : seqs[k] \in Seq(S)

\* What flat is: one sequence after the other.
Joins(S, seqs, f) ==
    /\ f[0] = <<>> /\ \A k \in 1..Len(seqs) : f[k] = f[k - 1] \o seqs[k]
    /\ \A k \in 0..Len(seqs) : f[k] \in Seq(S)
    /\ Flat(seqs) = f[Len(seqs)]

LEMMA FlatJoins == ASSUME NEW S, NEW seqs, SeqsOf(S, seqs) PROVE Joins(S, seqs, flat(seqs))
<1> DEFINE N == Len(seqs)
           V == Seq(S)
           f == flat(seqs)
           G == [k \in 1..N |-> [t \in V |-> t \o seqs[k]]]
           Is(g) == g = [k \in 0..N |-> IF k = 0 THEN <<>> ELSE g[k - 1] \o seqs[k]]
<1>1. N \in Nat /\ <<>> \in V /\ \A k \in 1..N, t \in V : t \o seqs[k] \in V
  BY ConcatProperties DEF SeqsOf
<1>2. f = CHOOSE g : Is(g)
  BY DEF flat
<1>3. Flat(seqs) = f[N]
  BY DEF Flat
<1> HIDE DEF N, V, f
<1>4. G \in [1..N -> [V -> V]] /\ \A k \in 1..N, t \in V : G[k][t] = t \o seqs[k]
  BY <1>1
<1> HIDE DEF G
<1>5. PICK h : h \in [0..N -> V] /\ h[0] = <<>> /\ \A k \in 1..N : h[k] = G[k][h[k - 1]]
  <2>1. \E h : Follows(N, V, <<>>, G, h)
    BY <1>1, <1>4, Recursion
  <2> QED BY <2>1 DEF Follows
<1>6. ASSUME NEW k \in 1..N PROVE h[k] = h[k - 1] \o seqs[k]
  <2>1. h[k - 1] \in V
    BY <1>1, <1>5
  <2> QED BY <1>4, <1>5, <2>1
<1>7. Is(h)
  <2> DEFINE e(k) == IF k = 0 THEN <<>> ELSE h[k - 1] \o seqs[k]
  <2>1. \A k \in 0..N : h[k] = e(k)
    <3>1. \A k \in 0..N : k = 0 \/ k \in 1..N
      BY <1>1
    <3> QED BY <1>5, <1>6, <3>1
  <2> HIDE DEF e
  <2>2. h = [k \in 0..N |-> e(k)]
    BY <1>5, <2>1
  <2> QED BY <2>2 DEF e
<1>8. Is(f)
  <2> HIDE DEF Is
  <2> QED BY <1>2, <1>7
<1>9. f[0] = <<>>
  BY <1>1, <1>8
<1>10. ASSUME NEW k \in 1..N PROVE f[k] = f[k - 1] \o seqs[k]
  <2>1. k \in 0..N /\ k # 0
    BY <1>1
  <2> QED BY <1>8, <2>1
<1> DEFINE P == {k \in 0..N : f[k] \in V}
<1>11. 0 \in P
  BY <1>1, <1>9
<1>12. ASSUME NEW k \in 1..N, k - 1 \in P PROVE k \in P
  <2>1. f[k - 1] \in V /\ k \in 0..N
    BY <1>1, <1>12
  <2> QED BY <1>1, <1>10, <2>1
<1> HIDE DEF P
<1>13. 0..N \subseteq P
  BY <1>1, <1>11, <1>12, Induction
<1>14. \A k \in 0..N : f[k] \in V
  BY <1>13 DEF P
<1> QED BY <1>3, <1>9, <1>10, <1>14 DEF Joins, N, V, f

LEMMA FlatIsSeq == ASSUME NEW S, NEW seqs, SeqsOf(S, seqs) PROVE Flat(seqs) \in Seq(S)
<1>1. Joins(S, seqs, flat(seqs))
  BY FlatJoins
<1>2. Len(seqs) \in 0..Len(seqs)
  BY DEF SeqsOf
<1> QED BY <1>1, <1>2 DEF Joins

\* Lists that begin alike are the same up to there.
LEMMA FlatBegins ==
    ASSUME NEW S, NEW seqs, SeqsOf(S, seqs), NEW more, SeqsOf(S, more),
           Len(seqs) <= Len(more), \A k \in 1..Len(seqs) : more[k] = seqs[k]
    PROVE  flat(more)[Len(seqs)] = Flat(seqs)
<1> DEFINE N == Len(seqs)
           f == flat(seqs)
           g == flat(more)
           P == {k \in 0..N : g[k] = f[k]}
<1>1. Joins(S, seqs, f) /\ Joins(S, more, g)
  BY FlatJoins
<1> HIDE DEF f, g
<1>2. N \in Nat /\ Len(more) \in Nat
  BY DEF SeqsOf
<1>3. 0 \in P
  BY <1>1, <1>2 DEF Joins
<1>4. ASSUME NEW k \in 1..N, k - 1 \in P PROVE k \in P
  <2>1. k \in 1..Len(more) /\ more[k] = seqs[k] /\ k \in 0..N
    BY <1>2
  <2>2. g[k] = g[k - 1] \o more[k] /\ f[k] = f[k - 1] \o seqs[k] /\ g[k - 1] = f[k - 1]
    BY <1>1, <1>4, <2>1 DEF Joins
  <2> QED BY <2>1, <2>2
<1> HIDE DEF P
<1>5. 0..N \subseteq P
  BY <1>2, <1>3, <1>4, Induction
<1>6. N \in P
  BY <1>2, <1>5
<1> QED BY <1>1, <1>6 DEF P, f, g, Joins

LEMMA SeqIsSeqs == ASSUME NEW S, NEW seqs \in Seq(Seq(S)) PROVE SeqsOf(S, seqs)
<1> DEFINE T == Seq(S)
<1>1. seqs \in Seq(T)
  OBVIOUS
<1> HIDE DEF T
<1>2. Len(seqs) \in Nat /\ \A k \in 1..Len(seqs) : seqs[k] \in T
  BY <1>1
<1> QED BY <1>2 DEF T, SeqsOf

LEMMA FlatOfNone == Flat(<<>>) = <<>>
<1> DEFINE none == <<>>
           S == {}
<1>1. Len(none) = 0
  OBVIOUS
<1> HIDE DEF none, S
<1>2. SeqsOf(S, none)
  BY <1>1 DEF SeqsOf
<1>3. Joins(S, none, flat(none))
  BY <1>2, FlatJoins
<1>4. Flat(none) = <<>>
  BY <1>1, <1>3 DEF Joins
<1> QED BY <1>4 DEF none

\* The sequences of two lists, one list after the other.
LEMMA FlatConcat ==
    ASSUME NEW S, NEW x \in Seq(Seq(S)), NEW y \in Seq(Seq(S))
    PROVE  Flat(x \o y) = Flat(x) \o Flat(y)
<1> DEFINE all == x \o y
           m == Len(x)
           n == Len(y)
           f == flat(all)
           g == flat(y)
           X == Flat(x)
           P == {k \in 0..n : f[m + k] = X \o g[k]}
<1>1. SeqsOf(S, x) /\ SeqsOf(S, y)
  BY SeqIsSeqs
<1>2. /\ m \in Nat /\ n \in Nat /\ Len(all) = m + n
      /\ \A k \in 1..m : all[k] = x[k]
      /\ \A k \in 1..n : all[m + k] = y[k]
      /\ \A k \in 1..m + n : all[k] \in Seq(S)
  <2> DEFINE T == Seq(S)
  <2>1. x \in Seq(T) /\ y \in Seq(T)
    OBVIOUS
  <2> HIDE DEF T
  <2>2. /\ x \o y \in Seq(T) /\ Len(x \o y) = Len(x) + Len(y)
        /\ \A i \in 1 .. Len(x) + Len(y) : (x \o y)[i] = IF i <= Len(x) THEN x[i] ELSE y[i - Len(x)]
    BY <2>1, ConcatProperties
  <2>3. m \in Nat /\ n \in Nat
    BY <2>1
  <2>4. \A k \in 1..m : k \in 1..m + n /\ k <= m
    BY <2>3
  <2>5. \A k \in 1..n : m + k \in 1..m + n /\ ~(m + k <= m) /\ m + k - m = k
    BY <2>3
  <2>6. \A k \in 1..m : all[k] = x[k]
    BY <2>2, <2>4
  <2>7. \A k \in 1..n : all[m + k] = y[k]
    BY <2>2, <2>5
  <2>8. \A k \in 1..m + n : all[k] \in T
    BY <2>2, <2>3
  <2> QED BY <2>2, <2>3, <2>6, <2>7, <2>8 DEF T
<1> HIDE DEF all, m, n
<1>3. SeqsOf(S, all) /\ Len(x) <= Len(all)
  BY <1>2 DEF SeqsOf, m
<1>4. Joins(S, all, f) /\ Joins(S, y, g) /\ X \in Seq(S) /\ f[m] = X
  BY <1>1, <1>2, <1>3, FlatJoins, FlatIsSeq, FlatBegins DEF m
<1> HIDE DEF X, f, g
<1>5. /\ \A k \in 1..m + n : f[k] = f[k - 1] \o all[k]
      /\ Flat(all) = f[m + n]
      /\ g[0] = <<>> /\ \A k \in 1..n : g[k] = g[k - 1] \o y[k]
      /\ \A k \in 0..n : g[k] \in Seq(S)
      /\ Flat(y) = g[n]
      /\ \A k \in 1..n : y[k] \in Seq(S)
  BY <1>1, <1>2, <1>4 DEF Joins, SeqsOf, n
<1>6. 0 \in P
  <2>1. m + 0 = m /\ 0 \in 0..n
    BY <1>2
  <2>2. X \o <<>> = X
    BY <1>4, ConcatEmptySeq
  <2> QED BY <1>4, <1>5, <2>1, <2>2
<1>7. ASSUME NEW k \in 1..n, k - 1 \in P PROVE k \in P
  <2>1. k - 1 \in 0..n /\ k \in 0..n /\ m + k \in 1..m + n /\ m + k - 1 = m + (k - 1)
    BY <1>2
  <2> DEFINE b == g[k - 1]
             c == y[k]
  <2>2. b \in Seq(S) /\ c \in Seq(S) /\ g[k] = b \o c
    BY <1>5, <2>1
  <2>3. f[m + (k - 1)] = X \o b
    BY <1>7
  <2>4. f[m + k] = f[m + (k - 1)] \o c
    <3>1. all[m + k] = c
      BY <1>2
    <3> DEFINE i == m + k
    <3>2. i \in 1..m + n /\ i - 1 = m + (k - 1)
      BY <1>2
    <3> HIDE DEF i
    <3>3. f[i] = f[i - 1] \o all[i]
      BY <1>5, <3>2
    <3>4. f[i] = f[m + (k - 1)] \o all[i]
      BY <3>2, <3>3
    <3> QED BY <3>1, <3>4 DEF i
  <2> HIDE DEF b, c
  <2>5. (X \o b) \o c = X \o (b \o c)
    BY SMTT(30), <1>4, <2>2, ConcatAssociative
  <2>6. f[m + k] = X \o g[k]
    BY <2>2, <2>3, <2>4, <2>5
  <2> QED BY <2>1, <2>6
<1> HIDE DEF P
<1>8. 0..n \subseteq P
  BY <1>2, <1>6, <1>7, Induction
<1>9. n \in P
  BY <1>2, <1>8
<1> QED BY <1>5, <1>9 DEF P, all, X

LEMMA FlatOfOne == ASSUME NEW S, NEW s \in Seq(S) PROVE Flat(<<s>>) = s
<1> DEFINE one == <<s>>
<1>1. Len(one) = 1 /\ one[1] = s
  OBVIOUS
<1> HIDE DEF one
<1>2. SeqsOf(S, one)
  BY <1>1 DEF SeqsOf
<1>3. Joins(S, one, flat(one))
  BY <1>2, FlatJoins
<1>4. Flat(one) = <<>> \o s
  <2>1. Flat(one) = flat(one)[1] /\ flat(one)[1] = flat(one)[1 - 1] \o one[1]
    BY <1>1, <1>3 DEF Joins
  <2>2. flat(one)[1 - 1] = <<>>
    BY <1>3 DEF Joins
  <2> QED BY <1>1, <2>1, <2>2
<1> QED BY <1>4, ConcatEmptySeq DEF one

\* With one more sequence at the end.
LEMMA FlatGrows ==
    ASSUME NEW S, NEW seqs \in Seq(Seq(S)), NEW s \in Seq(S)
    PROVE  Flat(Append(seqs, s)) = Flat(seqs) \o s
<1> DEFINE T == Seq(S)
           one == <<s>>
<1>1. seqs \in Seq(T) /\ s \in T
  OBVIOUS
<1> HIDE DEF T
<1>2. Append(seqs, s) = seqs \o one /\ one \in Seq(T)
  BY <1>1, AppendIsConcat
<1>3. one \in Seq(Seq(S))
  BY <1>2 DEF T
<1>4. Flat(one) = s
  BY FlatOfOne
<1> HIDE DEF one
<1>5. Flat(seqs \o one) = Flat(seqs) \o Flat(one)
  BY <1>3, FlatConcat
<1> QED BY <1>2, <1>4, <1>5

\* Rows of one length: where each element is.
RowsOfSize(S, m, n, rows) == Len(rows) = m /\ \A r \in 1..m : rows[r] \in Seq(S) /\ Len(rows[r]) = n
Lays(S, m, n, rows, t) ==
    /\ t \in Seq(S) /\ Len(t) = m * n
    /\ \A r \in 1..m, j \in 1..n :
          (r - 1) * n + j \in 1..m * n /\ t[(r - 1) * n + j] = rows[r][j]

LEMMA FlatRows ==
    ASSUME NEW S, NEW m \in Nat, NEW n \in Nat, NEW rows, RowsOfSize(S, m, n, rows)
    PROVE  Lays(S, m, n, rows, Flat(rows))
<1> DEFINE f == flat(rows)
           Laid(k) == Len(f[k]) = k * n /\ \A r \in 1..k, j \in 1..n :
                (r - 1) * n + j \in 1..k * n /\ f[k][(r - 1) * n + j] = rows[r][j]
           P == {k \in 0..m : Laid(k)}
<1>1. SeqsOf(S, rows) /\ Len(rows) = m /\ \A r \in 1..m : rows[r] \in Seq(S) /\ Len(rows[r]) = n
  BY DEF SeqsOf, RowsOfSize
<1>2. Joins(S, rows, f) /\ Flat(rows) \in Seq(S)
  BY <1>1, FlatJoins, FlatIsSeq
<1> HIDE DEF f
<1>3. /\ f[0] = <<>> /\ \A k \in 1..m : f[k] = f[k - 1] \o rows[k]
      /\ \A k \in 0..m : f[k] \in Seq(S)
      /\ Flat(rows) = f[m]
  BY <1>1, <1>2 DEF Joins
<1>4. 0 \in P
  BY <1>3
<1>5. ASSUME NEW k \in 1..m, k - 1 \in P PROVE k \in P
  <2> DEFINE q == (k - 1) * n
             old == f[k - 1]
             row == rows[k]
  <2>1. q \in Nat /\ k * n = q + n
    OBVIOUS
  <2>2. old \in Seq(S) /\ row \in Seq(S) /\ Len(row) = n
    <3>1. k - 1 \in 0..m
      OBVIOUS
    <3> QED BY <1>1, <1>3, <3>1
  <2>3. Len(old) = q /\ \A r \in 1..k - 1, j \in 1..n :
            (r - 1) * n + j \in 1..q /\ old[(r - 1) * n + j] = rows[r][j]
    BY <1>5
  <2>4. f[k] = old \o row
    BY <1>3
  <2> HIDE DEF q, old, row
  <2>5. /\ Len(f[k]) = q + n
        /\ \A i \in 1..q : f[k][i] = old[i]
        /\ \A j \in 1..n : f[k][q + j] = row[j]
    <3> DEFINE all == old \o row
    <3>1. /\ Len(old \o row) = Len(old) + Len(row)
          /\ \A i \in 1 .. Len(old) + Len(row) :
                (old \o row)[i] = IF i <= Len(old) THEN old[i] ELSE row[i - Len(old)]
      BY <2>2, ConcatProperties
    <3>2. /\ Len(all) = q + n
          /\ \A i \in 1..q + n : all[i] = IF i <= q THEN old[i] ELSE row[i - q]
      BY <2>2, <2>3, <3>1
    <3> HIDE DEF all
    <3>3. \A i \in 1..q : i \in 1..q + n /\ i <= q
      BY <2>1
    <3>4. \A i \in 1..q : all[i] = old[i]
      BY <3>2, <3>3
    <3>5. ASSUME NEW j \in 1..n PROVE all[q + j] = row[j]
      <4> DEFINE i == q + j
      <4>1. i \in 1..q + n /\ ~(i <= q) /\ i - q = j
        BY <2>1
      <4> HIDE DEF i
      <4>2. all[i] = row[i - q]
        BY <3>2, <4>1
      <4>3. all[i] = row[j]
        BY <4>1, <4>2
      <4> QED BY <4>3 DEF i
    <3>6. f[k] = all
      BY <2>4 DEF all
    <3> QED BY <3>2, <3>4, <3>5, <3>6
  <2>6. ASSUME NEW r \in 1..k, NEW j \in 1..n
        PROVE  (r - 1) * n + j \in 1..k * n /\ f[k][(r - 1) * n + j] = rows[r][j]
    <3>1. CASE r = k
      <4>1. (r - 1) * n + j = q + j
        BY <3>1 DEF q
      <4>2. q + j \in 1..q + n
        BY <2>1
      <4> QED BY <2>1, <2>5, <3>1, <4>1, <4>2 DEF row
    <3>2. CASE r # k
      <4>1. r \in 1..k - 1
        BY <3>2
      <4> DEFINE i == (r - 1) * n + j
      <4>2. i \in 1..q /\ old[i] = rows[r][j]
        BY <2>3, <4>1
      <4> HIDE DEF i
      <4>3. i \in 1..q + n /\ f[k][i] = rows[r][j]
        BY <2>1, <2>5, <4>2
      <4> QED BY <2>1, <4>3 DEF i
    <3> QED BY <3>1, <3>2
  <2>7. Laid(k) /\ k \in 0..m
    BY <2>1, <2>5, <2>6
  <2> QED BY <2>7
<1> HIDE DEF Laid, P
<1>6. 0..m \subseteq P
  BY <1>4, <1>5, Induction
<1>7. Laid(m)
  BY <1>6 DEF P
<1> QED BY <1>2, <1>3, <1>7 DEF Laid, Lays

\* What is at the places between two, in order.
LEMMA AtInterval ==
    ASSUME NEW S, NEW s \in Seq(S), NEW i \in 1..Len(s) + 1, NEW j \in i - 1..Len(s)
    PROVE  At(s, i..j) = SubSeq(s, i, j)
<1> DEFINE n == j - i + 1
           at == Sorted(i..j)
<1>1. Len(s) \in Nat /\ i \in Int /\ j \in Int /\ n \in Nat
  OBVIOUS
<1>2. Cardinality(i..j) = n
  <2>1. Cardinality(i..j) = IF i > j THEN 0 ELSE j - i + 1
    BY <1>1, FS_Interval
  <2> QED BY <1>1, <2>1
<1>3. ASSUME NEW x \in i..j PROVE Cardinality({y \in i..j : <<y, x>> \in Ascending(i..j)}) = x - i
  <2>1. {y \in i..j : <<y, x>> \in Ascending(i..j)} = i..x - 1
    BY <1>1 DEF Ascending
  <2>2. Cardinality(i..x - 1) = IF i > x - 1 THEN 0 ELSE x - 1 - i + 1
    BY <1>1, FS_Interval
  <2>3. Cardinality(i..x - 1) = x - i
    BY <1>1, <2>2
  <2> QED BY <2>1, <2>3
<1>4. /\ DOMAIN at = 1..n
      /\ \A k \in 1..n : at[k] = CHOOSE x \in i..j :
            Cardinality({y \in i..j : <<y, x>> \in Ascending(i..j)}) = k - 1
  BY <1>2 DEF Sorted, InOrder
<1> HIDE DEF at
<1>5. ASSUME NEW k \in 1..n PROVE at[k] = i + k - 1
  <2> DEFINE rank(x) == Cardinality({y \in i..j : <<y, x>> \in Ascending(i..j)})
  <2>1. at[k] = CHOOSE x \in i..j : rank(x) = k - 1
    BY <1>4
  <2>2. \A x \in i..j : rank(x) = x - i
    BY <1>3
  <2> HIDE DEF rank
  <2>3. i + k - 1 \in i..j /\ i + k - 1 - i = k - 1
    BY <1>1
  <2>4. \E x \in i..j : rank(x) = k - 1
    <3> DEFINE x == i + k - 1
    <3>1. x \in i..j /\ x - i = k - 1
      BY <2>3
    <3> HIDE DEF x
    <3>2. rank(x) = k - 1
      BY <2>2, <3>1
    <3> QED BY <3>1, <3>2
  <2>5. at[k] \in i..j /\ rank(at[k]) = k - 1
    BY <2>1, <2>4
  <2> QED BY SMTT(30), <1>1, <2>2, <2>5
<1>6. At(s, i..j) = [k \in 1..n |-> s[at[k]]]
  BY <1>4 DEF At, at
<1>7. SubSeq(s, i, j) = [k \in 1..n |-> s[i + k - 1]]
  BY <1>1
<1>8. \A k \in 1..n : s[at[k]] = s[i + k - 1]
  BY <1>5
<1> QED BY <1>6, <1>7, <1>8

\* Sequences of one element each.
LEMMA FlatOfEach ==
    ASSUME NEW S, NEW m \in Nat, NEW e \in [1..m -> S]
    PROVE  Flat([i \in 1..m |-> <<e[i]>>]) = e /\ e \in Seq(S) /\ Len(e) = m
<1> DEFINE rows == [i \in 1..m |-> <<e[i]>>]
           t == Flat(rows)
<1>1. \A i \in 1..m : <<e[i]>> \in Seq(S) /\ Len(<<e[i]>>) = 1 /\ <<e[i]>>[1] = e[i]
  <2> SUFFICES ASSUME NEW i \in 1..m
               PROVE  <<e[i]>> \in Seq(S) /\ Len(<<e[i]>>) = 1 /\ <<e[i]>>[1] = e[i]
    OBVIOUS
  <2> DEFINE x == e[i]
  <2>1. x \in S
    OBVIOUS
  <2> HIDE DEF x
  <2>2. <<x>> \in Seq(S) /\ Len(<<x>>) = 1 /\ <<x>>[1] = x
    BY <2>1
  <2> QED BY <2>2 DEF x
<1>2. Len(rows) = m /\ \A i \in 1..m : rows[i] = <<e[i]>>
  OBVIOUS
<1> HIDE DEF rows
<1>3. RowsOfSize(S, m, 1, rows) /\ \A i \in 1..m : rows[i][1] = e[i]
  BY <1>1, <1>2 DEF RowsOfSize
<1>4. Lays(S, m, 1, rows, t)
  BY <1>3, FlatRows
<1> HIDE DEF t
<1>5. t \in Seq(S) /\ Len(t) = m * 1 /\ \A i \in 1..m, j \in 1..1 : t[(i - 1) * 1 + j] = rows[i][j]
  BY <1>4 DEF Lays
<1>6. ASSUME NEW i \in 1..m PROVE t[i] = e[i]
  <2>1. t[(i - 1) * 1 + 1] = rows[i][1]
    BY <1>5
  <2>2. (i - 1) * 1 + 1 = i
    OBVIOUS
  <2> QED BY <1>3, <2>1, <2>2
<1>7. e \in Seq(S) /\ Len(e) = m /\ m * 1 = m
  OBVIOUS
<1>8. t = e
  BY <1>5, <1>6, <1>7, SeqEqual
<1> QED BY <1>7, <1>8 DEF t, rows
=============================================================================
