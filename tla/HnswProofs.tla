----------------------------- MODULE HnswProofs -----------------------------
(***************************************************************************)
(* What holds of the vector index for any vectors and distances, any       *)
(* limits, and any number of inserts and removals; and that a graph which  *)
(* changes as LayeredGraph says is sound.                                  *)
(***************************************************************************)
EXTENDS Hnsw, LayeredGraph, ListsProofs

(***************************************************************************)
(* The order of candidates.                                                *)
(***************************************************************************)

\* Those of a set that are nearer to a point than an id is.
Ahead(vs, q, ids, x) == {y \in ids : nearer(vs, q, y, x)}

\* Vectors, a point, and ids of some of the vectors.
Ids(vs, q, ids) == vs \in Seq(Points) /\ q \in Points /\ ids \subseteq 1..Len(vs)

\* The order is a strict and total one.
LEMMA NearerIsOrder ==
    ASSUME NEW vs \in Seq(Points), NEW q \in Points,
           NEW x \in 1..Len(vs), NEW y \in 1..Len(vs), NEW z \in 1..Len(vs)
    PROVE  /\ ~nearer(vs, q, x, x)
           /\ x # y => nearer(vs, q, x, y) \/ nearer(vs, q, y, x)
           /\ nearer(vs, q, x, y) /\ nearer(vs, q, y, z) => nearer(vs, q, x, z)
<1>1. vs[x] \in Points /\ vs[y] \in Points /\ vs[z] \in Points
  OBVIOUS
<1>2. \A p \in Points : Distance[q][p] \in Int
  BY DistanceAssumption
<1> DEFINE dx == Distance[q][vs[x]]
           dy == Distance[q][vs[y]]
           dz == Distance[q][vs[z]]
<1>3. dx \in Int /\ dy \in Int /\ dz \in Int
  BY <1>1, <1>2
<1>4. /\ nearer(vs, q, x, x) <=> (dx < dx \/ (dx = dx /\ x < x))
      /\ nearer(vs, q, x, y) <=> (dx < dy \/ (dx = dy /\ x < y))
      /\ nearer(vs, q, y, x) <=> (dy < dx \/ (dy = dx /\ y < x))
      /\ nearer(vs, q, y, z) <=> (dy < dz \/ (dy = dz /\ y < z))
      /\ nearer(vs, q, x, z) <=> (dx < dz \/ (dx = dz /\ x < z))
  BY DEF nearer
<1> HIDE DEF dx, dy, dz
<1> QED BY <1>3, <1>4

LEMMA IdsAreFinite ==
    ASSUME NEW vs, NEW q, NEW ids, Ids(vs, q, ids)
    PROVE  IsFiniteSet(ids) /\ Cardinality(ids) \in Nat
<1>1. Len(vs) \in Nat
  BY DEF Ids
<1>2. IsFiniteSet(1..Len(vs))
  BY <1>1, FS_Interval
<1>3. IsFiniteSet(ids)
  BY <1>2, FS_Subset DEF Ids
<1> QED BY <1>3, FS_CardinalityType

\* Fewer are ahead of the nearer of two.
LEMMA FewerAreAhead ==
    ASSUME NEW vs, NEW q, NEW ids, Ids(vs, q, ids), NEW x \in ids, NEW y \in ids,
           nearer(vs, q, x, y)
    PROVE  Cardinality(Ahead(vs, q, ids, x)) < Cardinality(Ahead(vs, q, ids, y))
<1> DEFINE ax == Ahead(vs, q, ids, x)
           ay == Ahead(vs, q, ids, y)
<1>1. \A z \in ids : z \in 1..Len(vs)
  BY DEF Ids
<1>2. ax \subseteq ay /\ x \in ay /\ x \notin ax /\ ay \subseteq ids
  BY <1>1, NearerIsOrder DEF Ahead, Ids
<1>3. IsFiniteSet(ay)
  BY <1>2, IdsAreFinite, FS_Subset
<1> HIDE DEF ax, ay
<1>4. ax \in SUBSET ay
  BY <1>2
<1>5. Cardinality(ax) <= Cardinality(ay) /\ Cardinality(ax) # Cardinality(ay) /\ IsFiniteSet(ax)
  BY <1>2, <1>3, <1>4, FS_Subset
<1>6. Cardinality(ax) \in Nat /\ Cardinality(ay) \in Nat
  BY <1>3, <1>5, FS_CardinalityType
<1>7. Cardinality(ax) < Cardinality(ay)
  BY <1>5, <1>6
<1> QED BY <1>7 DEF ax, ay

\* Each number below the size of a set is how many are ahead of one of its ids.
LEMMA RanksAreTaken ==
    ASSUME NEW vs, NEW q, NEW ids, Ids(vs, q, ids), NEW k \in 1..Cardinality(ids)
    PROVE  \E x \in ids : Cardinality(Ahead(vs, q, ids, x)) = k - 1
<1> DEFINE n == Cardinality(ids)
           rank(x) == Cardinality(Ahead(vs, q, ids, x)) + 1
           r == [x \in ids |-> rank(x)]
<1>1. IsFiniteSet(ids) /\ n \in Nat
  BY IdsAreFinite
<1>2. ASSUME NEW x \in ids PROVE rank(x) \in 1..n
  <2> DEFINE ax == Ahead(vs, q, ids, x)
  <2>1. ax \in SUBSET ids
    BY DEF Ahead
  <2>2. x \notin ax
    BY NearerIsOrder DEF Ahead, Ids
  <2> HIDE DEF ax
  <2>3. IsFiniteSet(ax) /\ Cardinality(ax) <= n /\ Cardinality(ax) # n
    BY <1>1, <2>1, <2>2, FS_Subset
  <2>4. Cardinality(ax) \in Nat
    BY <2>3, FS_CardinalityType
  <2>5. Cardinality(ax) + 1 \in 1..n
    BY <1>1, <2>3, <2>4
  <2> QED BY <2>5 DEF ax
<1>3. ASSUME NEW x \in ids, NEW y \in ids, rank(x) = rank(y) PROVE x = y
  <2> DEFINE cx == Cardinality(Ahead(vs, q, ids, x))
             cy == Cardinality(Ahead(vs, q, ids, y))
  <2>1. cx + 1 \in 1..n /\ cy + 1 \in 1..n
    BY <1>2
  <2>2. nearer(vs, q, x, y) => cx < cy
    BY FewerAreAhead
  <2>3. nearer(vs, q, y, x) => cy < cx
    BY FewerAreAhead
  <2>4. x # y => nearer(vs, q, x, y) \/ nearer(vs, q, y, x)
    BY NearerIsOrder DEF Ids
  <2>5. cx + 1 = cy + 1
    BY <1>3
  <2>6. cx \in Nat /\ cy \in Nat
    <3>1. \A S : S \subseteq ids => Cardinality(S) \in Nat
      BY <1>1, FS_Subset, FS_CardinalityType
    <3> QED BY <3>1 DEF Ahead
  <2> HIDE DEF cx, cy
  <2>7. cx = cy
    BY <2>5, <2>6
  <2> QED BY <2>2, <2>3, <2>4, <2>6, <2>7
<1>4. IsFiniteSet(1..n) /\ Cardinality(1..n) = n
  BY <1>1, FS_Interval
<1>5. r \in Injection(ids, 1..n)
  BY <1>2, <1>3 DEF Injection, IsInjective
<1> HIDE DEF r
<1>6. r \in Surjection(ids, 1..n)
  BY <1>4, <1>5, FS_Injection
<1>7. PICK x \in ids : r[x] = k
  BY <1>6 DEF Surjection
<1>8. rank(x) = k
  BY <1>7 DEF r
<1>9. Cardinality(Ahead(vs, q, ids, x)) \in Nat
  <2>1. Ahead(vs, q, ids, x) \subseteq ids
    BY DEF Ahead
  <2> QED BY <1>1, <2>1, FS_Subset, FS_CardinalityType
<1>10. Cardinality(Ahead(vs, q, ids, x)) = k - 1
  BY <1>8, <1>9
<1> QED BY <1>10

\* ByDistance lists the ids of a set once each, the nearest first.
Lists(vs, q, ids, list) ==
    /\ list \in [1..Cardinality(ids) -> ids]
    /\ \A x \in ids : \E k \in 1..Cardinality(ids) : list[k] = x
    /\ \A i, j \in 1..Cardinality(ids) : i < j => nearer(vs, q, list[i], list[j])

LEMMA ByDistanceLists ==
    ASSUME NEW vs, NEW q, NEW ids, Ids(vs, q, ids)
    PROVE  Lists(vs, q, ids, ByDistance(vs, q, ids))
<1> DEFINE n == Cardinality(ids)
           b == ByDistance(vs, q, ids)
           rank(x) == Cardinality(Ahead(vs, q, ids, x))
<1>1. ASSUME NEW k \in 1..n PROVE b[k] \in ids /\ rank(b[k]) = k - 1
  <2>1. b[k] = CHOOSE x \in ids : rank(x) = k - 1
    BY DEF ByDistance, Ahead
  <2>2. \E x \in ids : rank(x) = k - 1
    BY RanksAreTaken
  <2> HIDE DEF rank, b
  <2> QED BY <2>1, <2>2
<1>2. b \in [1..n -> ids]
  <2> DEFINE e(k) == CHOOSE x \in ids : Cardinality({y \in ids : nearer(vs, q, y, x)}) = k - 1
  <2>1. b = [k \in 1..n |-> e(k)]
    BY DEF ByDistance
  <2> HIDE DEF b, e, n
  <2>2. \A k \in 1..n : e(k) \in ids
    BY <1>1, <2>1
  <2> QED BY <2>1, <2>2
<1>3. n \in Nat /\ \A x \in ids : x \in 1..Len(vs)
  BY IdsAreFinite DEF Ids
<1>4. ASSUME NEW i \in 1..n, NEW j \in 1..n, i < j PROVE nearer(vs, q, b[i], b[j])
  <2>1. rank(b[i]) = i - 1 /\ rank(b[j]) = j - 1 /\ b[i] \in ids /\ b[j] \in ids
    BY <1>1
  <2>2. nearer(vs, q, b[j], b[i]) => rank(b[j]) < rank(b[i])
    BY <2>1, FewerAreAhead
  <2> HIDE DEF rank, b
  <2>3. b[i] # b[j] /\ ~nearer(vs, q, b[j], b[i])
    BY <1>3, <1>4, <2>1, <2>2
  <2> QED BY <1>3, <2>1, <2>3, NearerIsOrder DEF Ids
<1>5. ASSUME NEW x \in ids PROVE \E k \in 1..n : b[k] = x
  <2>1. IsFiniteSet(ids) /\ IsFiniteSet(1..n) /\ Cardinality(1..n) = n
    BY <1>3, IdsAreFinite, FS_Interval
  <2>2. ASSUME NEW i \in 1..n, NEW j \in 1..n, b[i] = b[j] PROVE i = j
    <3>1. i - 1 = j - 1
      BY <1>1, <2>2
    <3> QED BY <1>3, <3>1
  <2> HIDE DEF b
  <2>3. b \in Injection(1..n, ids)
    BY <1>2, <2>2 DEF Injection, IsInjective
  <2>4. b \in Surjection(1..n, ids)
    BY <2>1, <2>3, FS_Injection
  <2> QED BY <2>4 DEF Surjection
<1> QED BY <1>2, <1>4, <1>5 DEF Lists

\* There is one such list.
LEMMA OneList ==
    ASSUME NEW vs, NEW q, NEW ids, Ids(vs, q, ids), NEW list, Lists(vs, q, ids, list)
    PROVE  list = ByDistance(vs, q, ids)
<1> DEFINE n == Cardinality(ids)
           b == ByDistance(vs, q, ids)
           S == {k \in 0..n : \A i \in 1..k : list[i] = b[i]}
<1>1. n \in Nat /\ \A x \in ids : x \in 1..Len(vs)
  BY IdsAreFinite DEF Ids
<1>2. Lists(vs, q, ids, b)
  BY ByDistanceLists
<1> HIDE DEF b, n
<1>3. /\ list \in [1..n -> ids] /\ b \in [1..n -> ids]
      /\ \A x \in ids : (\E k \in 1..n : list[k] = x) /\ (\E k \in 1..n : b[k] = x)
      /\ \A i, j \in 1..n : i < j => nearer(vs, q, list[i], list[j]) /\ nearer(vs, q, b[i], b[j])
  BY <1>2 DEF Lists, n
<1>4. 0 \in S
  BY <1>1
<1>5. ASSUME NEW k \in 1..n, k - 1 \in S PROVE k \in S
  <2>1. \A i \in 1..k - 1 : list[i] = b[i]
    BY <1>5
  <2>2. ASSUME NEW x \in ids PROVE ~nearer(vs, q, x, x)
    BY <1>1, NearerIsOrder DEF Ids
  <2>3. ASSUME NEW x \in ids, NEW y \in ids, nearer(vs, q, x, y) PROVE ~nearer(vs, q, y, x)
    BY <1>1, <2>2, <2>3, NearerIsOrder DEF Ids
  <2>4. PICK i \in 1..n : list[i] = b[k]
    BY <1>3
  <2>5. PICK j \in 1..n : b[j] = list[k]
    BY <1>3
  <2>6. i >= k
    <3>1. SUFFICES ASSUME i < k PROVE FALSE
      OBVIOUS
    <3>2. b[i] = b[k]
      BY <2>1, <2>4, <3>1
    <3> QED BY <1>3, <2>2, <3>1, <3>2
  <2>7. j >= k
    <3>1. SUFFICES ASSUME j < k PROVE FALSE
      OBVIOUS
    <3>2. list[j] = list[k]
      BY <2>1, <2>5, <3>1
    <3> QED BY <1>3, <2>2, <3>1, <3>2
  <2>8. ~(i > k /\ j > k)
    <3>1. SUFFICES ASSUME i > k, j > k PROVE FALSE
      OBVIOUS
    <3>2. nearer(vs, q, list[k], b[k]) /\ nearer(vs, q, b[k], list[k])
      BY <1>3, <2>4, <2>5, <3>1
    <3> QED BY <1>3, <2>3, <3>2
  <2>9. list[k] = b[k]
    BY <2>4, <2>5, <2>6, <2>7, <2>8
  <2> QED BY <1>1, <2>1, <2>9
<1> HIDE DEF S
<1>6. 0..n \subseteq S
  BY <1>1, <1>4, <1>5, Induction
<1>7. \A i \in 1..n : list[i] = b[i]
  BY <1>1, <1>6 DEF S
<1> DEFINE D == 1..n
<1>8. list \in [D -> ids] /\ b \in [D -> ids] /\ \A i \in D : list[i] = b[i]
  BY <1>3, <1>7
<1> HIDE DEF D
<1>9. list = b
  BY <1>8, SameFunction
<1> QED BY <1>9 DEF b

(***************************************************************************)
(* The walk over a layer.                                                  *)
(***************************************************************************)

LEMMA MaxOfTwo ==
    ASSUME NEW m \in Int, NEW n \in Int
    PROVE  Max({m, n}) = IF m >= n THEN m ELSE n
BY DEF Max

LEMMA MinOfTwo ==
    ASSUME NEW m \in Int, NEW n \in Int
    PROVE  Min({m, n}) = IF m <= n THEN m ELSE n
BY DEF Min

\* A set of ids has a nearest and a farthest one.
LEMMA SetsHaveEnds ==
    ASSUME NEW q, NEW ids, Ids(vectors, q, ids), ids # {}
    PROVE  closest(q, ids) \in ids /\ farthest(q, ids) \in ids
<1> DEFINE n == Cardinality(ids)
           b == ByDistance(vectors, q, ids)
<1>1. n \in Nat /\ n # 0
  BY IdsAreFinite, FS_EmptySet
<1>2. /\ b \in [1..n -> ids]
      /\ \A x \in ids : \E k \in 1..n : b[k] = x
      /\ \A i, j \in 1..n : i < j => nearer(vectors, q, b[i], b[j])
  BY ByDistanceLists DEF Lists
<1> HIDE DEF n, b
<1>3. \A x, y \in ids : nearer(vectors, q, x, y) => ~nearer(vectors, q, y, x)
  BY NearerIsOrder DEF Ids
<1>4. \A x \in ids : ~nearer(vectors, q, x, x)
  BY NearerIsOrder DEF Ids
<1>5. b[1] \in ids /\ b[n] \in ids
  BY <1>1, <1>2
<1>6. ASSUME NEW y \in ids PROVE ~nearer(vectors, q, y, b[1]) /\ ~nearer(vectors, q, b[n], y)
  <2>1. PICK k \in 1..n : b[k] = y
    BY <1>2
  <2>2. ~nearer(vectors, q, y, b[1])
    <3>1. CASE k = 1
      BY <1>4, <1>5, <2>1, <3>1
    <3>2. CASE k # 1
      <4>1. nearer(vectors, q, b[1], b[k])
        BY <1>1, <1>2, <3>2
      <4> QED BY <1>3, <1>5, <2>1, <4>1
    <3> QED BY <3>1, <3>2
  <2>3. ~nearer(vectors, q, b[n], y)
    <3>1. CASE k = n
      BY <1>4, <1>5, <2>1, <3>1
    <3>2. CASE k # n
      <4>1. nearer(vectors, q, b[k], b[n])
        BY <1>1, <1>2, <3>2
      <4> QED BY <1>3, <1>5, <2>1, <4>1
    <3> QED BY <3>1, <3>2
  <2> QED BY <2>2, <2>3
<1>7. \E x \in ids : \A y \in ids : ~nearer(vectors, q, y, x)
  BY <1>5, <1>6
<1>8. \E x \in ids : \A y \in ids : ~nearer(vectors, q, x, y)
  BY <1>5, <1>6
<1> QED BY <1>7, <1>8 DEF closest, farthest

\* A layer: nodes that have vectors, with links to others of them.
IsLayer(graph) ==
    /\ vectors \in Seq(Points)
    /\ DOMAIN graph \subseteq 1..Len(vectors)
    /\ \A x \in DOMAIN graph : graph[x] \in Seq(DOMAIN graph)

Linked(graph, x) == Range(graph[x])
IsClosed(graph, C) == \A x \in C : Linked(graph, x) \subseteq C

\* Links lead from a node to all that X holds.
Leads(graph, entry, X) ==
    \A C \in SUBSET DOMAIN graph : entry \in C /\ IsClosed(graph, C) => X \subseteq C

States(graph) ==
    [visited : SUBSET DOMAIN graph, to_visit : SUBSET DOMAIN graph, results : SUBSET DOMAIN graph]

\* What holds of the walk from an entry at any time.
Walks(graph, entry, ef, s) ==
    /\ s \in States(graph)
    /\ entry \in s.visited /\ s.results # {}
    /\ s.results \subseteq s.visited /\ s.to_visit \subseteq s.visited
    /\ Cardinality(s.results) <= ef
    /\ Cardinality(s.results) < ef => s.results = s.visited
    /\ Leads(graph, entry, s.visited)

Done(s) == s.visited \ s.to_visit

\* What a walk has done it keeps, and while there is room it visits what it finds.
Goes(ef, s, t) ==
    /\ s.visited \subseteq t.visited
    /\ Done(s) \subseteq Done(t)
    /\ Cardinality(s.results) <= Cardinality(t.results)
    /\ Cardinality(t.results) < ef => Done(t) \subseteq Done(s)

LEMMA LayersAreFinite ==
    ASSUME NEW graph, IsLayer(graph), NEW X \in SUBSET DOMAIN graph
    PROVE  IsFiniteSet(X) /\ Cardinality(X) \in Nat
<1>1. IsFiniteSet(1..Len(vectors))
  BY FS_Interval DEF IsLayer
<1>2. X \in SUBSET (1..Len(vectors))
  BY DEF IsLayer
<1>3. IsFiniteSet(X)
  BY <1>1, <1>2, FS_Subset
<1> QED BY <1>3, FS_CardinalityType

LEMMA VisitIsState ==
    ASSUME NEW graph, IsLayer(graph), NEW q, NEW ef, NEW s \in States(graph),
           NEW x \in DOMAIN graph
    PROVE  visit(q, ef, s, x) \in States(graph)
BY DEF visit, States

LEMMA VisitWalks ==
    ASSUME NEW graph, IsLayer(graph), NEW q \in Points, NEW entry, NEW ef \in Nat \ {0}, NEW s,
           Walks(graph, entry, ef, s), NEW x \in DOMAIN graph, Leads(graph, entry, {x})
    PROVE  /\ Walks(graph, entry, ef, visit(q, ef, s, x))
           /\ Goes(ef, s, visit(q, ef, s, x))
           /\ x \in visit(q, ef, s, x).visited
<1> DEFINE t == visit(q, ef, s, x)
           with == s.results \cup {x}
           far == farthest(q, with)
           n == Cardinality(s.results)
<1>1. s \in States(graph) /\ t \in States(graph)
  BY VisitIsState DEF Walks
<1>2. Leads(graph, entry, s.visited \cup {x})
  BY DEF Walks, Leads
<1>3. IsFiniteSet(s.results) /\ n \in Nat /\ n <= ef /\ (n < ef => s.results = s.visited)
  BY <1>1, LayersAreFinite DEF Walks, States
<1>4. CASE x \in s.visited
  <2>1. t = s
    BY <1>4 DEF visit
  <2> QED BY <1>3, <1>4, <2>1 DEF Goes
<1>5. CASE x \notin s.visited /\ (n < ef \/ farther(q, farthest(q, s.results), x))
  <2>1. /\ t.visited = s.visited \cup {x} /\ t.to_visit = s.to_visit \cup {x}
        /\ t.results = IF Cardinality(with) > ef THEN with \ {far} ELSE with
    BY <1>5 DEF visit
  <2>2. x \notin s.results /\ x \notin s.to_visit
    BY <1>5 DEF Walks
  <2>3. IsFiniteSet(with) /\ Cardinality(with) = n + 1
    BY <1>3, <2>2, FS_AddElement
  <2>4. far \in with
    <3>1. Ids(vectors, q, with) /\ with # {}
      BY <1>1 DEF Ids, IsLayer, States
    <3> QED BY <3>1, SetsHaveEnds
  <2> HIDE DEF far
  <2>5. Cardinality(with \ {far}) = n
    <3>1. Cardinality(with \ {far}) = Cardinality(with) - 1
      BY <2>3, <2>4, FS_RemoveElement
    <3> QED BY <1>3, <2>3, <3>1
  <2>6. Cardinality(t.results) = IF n + 1 > ef THEN n ELSE n + 1
    BY <2>1, <2>3, <2>5
  <2>7. t.results # {}
    <3>1. n # 0
      BY <1>3, FS_EmptySet DEF Walks
    <3>2. Cardinality(t.results) # 0
      BY <1>3, <2>6, <3>1
    <3> QED BY <3>2, FS_EmptySet
  <2>8. t.results \subseteq t.visited /\ t.to_visit \subseteq t.visited /\ entry \in t.visited
    BY <2>1 DEF Walks
  <2>9. Cardinality(t.results) <= ef /\ n <= Cardinality(t.results)
    BY <1>3, <2>6
  <2>10. Cardinality(t.results) < ef => t.results = t.visited
    <3>1. SUFFICES ASSUME Cardinality(t.results) < ef PROVE t.results = t.visited
      OBVIOUS
    <3>2. n + 1 <= ef
      BY <1>3, <2>6, <3>1
    <3>3. s.results = s.visited /\ t.results = with
      BY <1>3, <2>1, <2>3, <3>2
    <3> QED BY <2>1, <3>3
  <2>11. Done(s) = Done(t)
    BY <1>5, <2>1, <2>2 DEF Done
  <2>12. Walks(graph, entry, ef, t)
    BY <1>1, <1>2, <2>1, <2>7, <2>8, <2>9, <2>10 DEF Walks
  <2> QED BY <2>1, <2>9, <2>11, <2>12 DEF Goes
<1>6. CASE x \notin s.visited /\ ~(n < ef \/ farther(q, farthest(q, s.results), x))
  <2>1. t = [s EXCEPT !.visited = @ \cup {x}]
    BY <1>6 DEF visit
  <2>2. t.visited = s.visited \cup {x} /\ t.to_visit = s.to_visit /\ t.results = s.results
    BY <1>1, <2>1 DEF States
  <2>3. ~(Cardinality(t.results) < ef)
    BY <1>6, <2>2
  <2>4. Walks(graph, entry, ef, t)
    BY <1>1, <1>2, <1>3, <2>2, <2>3 DEF Walks
  <2> QED BY <1>3, <2>2, <2>3, <2>4 DEF Goes, Done
<1> QED BY <1>4, <1>5, <1>6

\* What visit_all is: one visit after the other.
LEMMA VisitsFollow ==
    ASSUME NEW graph, IsLayer(graph), NEW q, NEW ef, NEW s \in States(graph),
           NEW list \in Seq(DOMAIN graph)
    PROVE  /\ visit_all(q, ef, s, list)[0] = s
           /\ \A k \in 1..Len(list) :
                visit_all(q, ef, s, list)[k] = visit(q, ef, visit_all(q, ef, s, list)[k - 1], list[k])
<1> DEFINE N == Len(list)
           V == States(graph)
           G == [k \in 1..N |-> [t \in V |-> visit(q, ef, t, list[k])]]
           f == visit_all(q, ef, s, list)
           Is(g) == g = [k \in 0..N |-> IF k = 0 THEN s ELSE visit(q, ef, g[k - 1], list[k])]
<1>1. N \in Nat /\ \A k \in 1..N : list[k] \in DOMAIN graph
  OBVIOUS
<1>2. ASSUME NEW k \in 1..N, NEW t \in V PROVE visit(q, ef, t, list[k]) \in V
  BY <1>1, VisitIsState
<1>3. G \in [1..N -> [V -> V]]
  BY <1>2
<1>4. \A k \in 1..N, t \in V : G[k][t] = visit(q, ef, t, list[k])
  OBVIOUS
<1>5. f = CHOOSE g : Is(g)
  BY DEF visit_all
<1> HIDE DEF N, V, G, f
<1>6. PICK h : h \in [0..N -> V] /\ h[0] = s /\ \A k \in 1..N : h[k] = G[k][h[k - 1]]
  <2>1. s \in V
    BY DEF V
  <2>2. \E h : Follows(N, V, s, G, h)
    BY <1>1, <1>3, <2>1, Recursion
  <2> QED BY <2>2 DEF Follows
<1>7. \A k \in 1..N : k - 1 \in 0..N /\ h[k] = visit(q, ef, h[k - 1], list[k])
  BY <1>1, <1>4, <1>6
<1>8. Is(h)
  <2> DEFINE e(k) == IF k = 0 THEN s ELSE visit(q, ef, h[k - 1], list[k])
  <2>1. \A k \in 0..N : h[k] = e(k)
    <3>1. \A k \in 0..N : k = 0 \/ k \in 1..N
      BY <1>1
    <3> QED BY <1>6, <1>7, <3>1
  <2> HIDE DEF e
  <2>2. h = [k \in 0..N |-> e(k)]
    BY <1>6, <2>1
  <2> QED BY <2>2 DEF e
<1>9. Is(f)
  <2> HIDE DEF Is
  <2> QED BY <1>5, <1>8
<1>10. f[0] = s
  BY <1>1, <1>9
<1>11. ASSUME NEW k \in 1..N PROVE f[k] = visit(q, ef, f[k - 1], list[k])
  <2>1. k \in 0..N /\ k # 0
    BY <1>1
  <2> QED BY <1>9, <2>1
<1> QED BY <1>10, <1>11 DEF f, N

LEMMA GoesOn ==
    ASSUME NEW ef \in Nat, NEW s, NEW t, NEW u, Goes(ef, s, t), Goes(ef, t, u),
           Cardinality(s.results) \in Nat, Cardinality(t.results) \in Nat,
           Cardinality(u.results) \in Nat
    PROVE  Goes(ef, s, u)
<1>1. Cardinality(u.results) < ef => Cardinality(t.results) < ef
  BY DEF Goes
<1>2. Cardinality(s.results) <= Cardinality(u.results)
  BY DEF Goes
<1>3. /\ s.visited \subseteq u.visited
      /\ Done(s) \subseteq Done(u)
      /\ Cardinality(u.results) < ef => Done(u) \subseteq Done(s)
  <2> HIDE DEF Done
  <2> QED BY <1>1 DEF Goes
<1> QED BY <1>2, <1>3 DEF Goes

\* After all links of a node everything they lead to is visited.
LEMMA VisitAllWalks ==
    ASSUME NEW graph, IsLayer(graph), NEW q \in Points, NEW entry, NEW ef \in Nat \ {0}, NEW s,
           Walks(graph, entry, ef, s), NEW list \in Seq(DOMAIN graph),
           Leads(graph, entry, Range(list))
    PROVE  LET t == visit_all(q, ef, s, list)[Len(list)]
           IN  Walks(graph, entry, ef, t) /\ Goes(ef, s, t) /\ Range(list) \subseteq t.visited
<1> DEFINE N == Len(list)
           f == visit_all(q, ef, s, list)
           Ok(k) == /\ Walks(graph, entry, ef, f[k]) /\ Goes(ef, s, f[k])
                    /\ \A j \in 1..k : list[j] \in f[k].visited
           S == {k \in 0..N : Ok(k)}
<1>1. N \in Nat /\ \A k \in 1..N : list[k] \in DOMAIN graph
  OBVIOUS
<1>2. Range(list) = {list[k] : k \in 1..N}
  BY DEF Range
<1>3. \A t : Walks(graph, entry, ef, t) => Cardinality(t.results) \in Nat
  BY LayersAreFinite DEF Walks, States
<1>4. f[0] = s /\ \A k \in 1..N : f[k] = visit(q, ef, f[k - 1], list[k])
  BY VisitsFollow DEF Walks
<1> HIDE DEF f, N
<1>5. 0 \in S
  <2>1. Goes(ef, s, s)
    BY <1>3 DEF Goes
  <2>2. Ok(0)
    BY <1>4, <2>1
  <2> QED BY <1>1, <2>2
<1>6. ASSUME NEW k \in 1..N, k - 1 \in S PROVE k \in S
  <2> DEFINE t == f[k - 1]
             u == f[k]
             x == list[k]
  <2>1. k - 1 \in 0..N /\ k \in 0..N
    BY <1>1
  <2>2. Walks(graph, entry, ef, t) /\ Goes(ef, s, t) /\ \A j \in 1..k - 1 : list[j] \in t.visited
    BY <1>6
  <2>3. u = visit(q, ef, t, x) /\ x \in DOMAIN graph
    BY <1>1, <1>4
  <2>4. Leads(graph, entry, {x})
    BY <1>2 DEF Leads
  <2> HIDE DEF t, u, x
  <2>5. Walks(graph, entry, ef, u) /\ Goes(ef, t, u) /\ x \in u.visited
    BY <2>2, <2>3, <2>4, VisitWalks
  <2>6. Goes(ef, s, u)
    BY <1>3, <2>2, <2>5, GoesOn
  <2>7. \A j \in 1..k : list[j] \in u.visited
    <3>1. ASSUME NEW j \in 1..k PROVE list[j] \in u.visited
      <4>1. CASE j = k
        BY <2>5, <4>1 DEF x
      <4>2. CASE j # k
        <5>1. j \in 1..k - 1
          BY <4>2
        <5> QED BY <2>2, <2>5, <5>1 DEF Goes
      <4> QED BY <4>1, <4>2
    <3> QED BY <3>1
  <2> QED BY <2>1, <2>5, <2>6, <2>7 DEF u
<1> HIDE DEF S
<1>7. N \in S
  <2>1. 0..N \subseteq S
    BY <1>1, <1>5, <1>6, Induction
  <2> QED BY <1>1, <2>1
<1>8. Ok(N)
  BY <1>7 DEF S
<1>9. Range(list) \subseteq f[N].visited
  BY <1>2, <1>8
<1> QED BY <1>8, <1>9 DEF f, N

\* Between two turns: while there is room, what the links of the nodes that are done lead
\* to is visited.
Turns(graph, entry, ef, s) ==
    /\ Walks(graph, entry, ef, s)
    /\ Cardinality(s.results) < ef => \A x \in Done(s) : Linked(graph, x) \subseteq s.visited

TakesATurn(graph, entry, ef, s, t) ==
    /\ Turns(graph, entry, ef, t)
    /\ s.to_visit = {} => t = s
    /\ \/ t.to_visit = {}
       \/ Cardinality(Done(t)) \in Nat /\ Cardinality(Done(s)) < Cardinality(Done(t))

LEMMA StepTurns ==
    ASSUME NEW graph, IsLayer(graph), NEW q \in Points, NEW entry, NEW ef \in Nat \ {0}, NEW s,
           Turns(graph, entry, ef, s)
    PROVE  TakesATurn(graph, entry, ef, s, step(graph, q, ef, s))
<1> DEFINE t == step(graph, q, ef, s)
           c == closest(q, s.to_visit)
           u == [s EXCEPT !.to_visit = @ \ {c}]
           n == Cardinality(s.results)
<1>1. s \in States(graph) /\ Walks(graph, entry, ef, s)
  BY DEF Turns, Walks
<1>2. n \in Nat
  BY <1>1, LayersAreFinite DEF States
<1>3. CASE s.to_visit = {}
  BY <1>3 DEF step, TakesATurn
<1>4. CASE s.to_visit # {} /\ n >= ef /\ farther(q, c, farthest(q, s.results))
  <2>1. t = [s EXCEPT !.to_visit = {}]
    BY <1>4 DEF step
  <2>2. t \in States(graph) /\ t.visited = s.visited /\ t.to_visit = {} /\ t.results = s.results
    BY <1>1, <2>1 DEF States
  <2>3. Walks(graph, entry, ef, t)
    BY <1>1, <2>2 DEF Walks
  <2>4. ~(Cardinality(t.results) < ef)
    BY <1>2, <1>4, <2>2
  <2> QED BY <1>4, <2>2, <2>3, <2>4 DEF Turns, TakesATurn
<1>5. CASE s.to_visit # {} /\ ~(n >= ef /\ farther(q, c, farthest(q, s.results)))
  <2>1. t = visit_all(q, ef, u, graph[c])[Len(graph[c])]
    BY <1>5 DEF step
  <2>2. c \in s.to_visit
    <3>1. Ids(vectors, q, s.to_visit)
      BY <1>1 DEF Ids, IsLayer, States
    <3> QED BY <1>5, <3>1, SetsHaveEnds
  <2> HIDE DEF c
  <2>3. /\ u \in States(graph) /\ u.visited = s.visited /\ u.to_visit = s.to_visit \ {c}
        /\ u.results = s.results
    BY <1>1 DEF States
  <2>4. Walks(graph, entry, ef, u)
    BY <1>1, <2>3 DEF Walks
  <2>5. c \in DOMAIN graph /\ c \in s.visited /\ graph[c] \in Seq(DOMAIN graph)
    BY <1>1, <2>2 DEF Walks, States, IsLayer
  <2>6. Leads(graph, entry, Range(graph[c]))
    BY <1>1, <2>5 DEF Leads, Walks, IsClosed, Linked
  <2> HIDE DEF u, t
  <2>7. Walks(graph, entry, ef, t) /\ Goes(ef, u, t) /\ Range(graph[c]) \subseteq t.visited
    BY <2>1, <2>4, <2>5, <2>6, VisitAllWalks
  <2>8. Done(u) = Done(s) \cup {c} /\ c \notin Done(s)
    BY <2>2, <2>3, <2>5 DEF Done
  <2>9. ASSUME Cardinality(t.results) < ef, NEW x \in Done(t)
        PROVE  Linked(graph, x) \subseteq t.visited
    <3>1. n < ef
      <4>1. Cardinality(t.results) \in Nat
        BY <2>7, LayersAreFinite DEF Walks, States
      <4>2. n <= Cardinality(t.results)
        BY <2>3, <2>7 DEF Goes
      <4> QED BY <1>2, <2>9, <4>1, <4>2
    <3>2. x \in Done(s) \/ x = c
      BY <2>7, <2>8, <2>9 DEF Goes
    <3>3. s.visited \subseteq t.visited
      BY <2>3, <2>7 DEF Goes
    <3> QED BY <2>7, <3>1, <3>2, <3>3 DEF Turns, Linked
  <2>10. Turns(graph, entry, ef, t)
    BY <2>7, <2>9 DEF Turns
  <2>11. Cardinality(Done(t)) \in Nat /\ Cardinality(Done(s)) < Cardinality(Done(t))
    <3>1. Done(s) \in SUBSET DOMAIN graph /\ Done(t) \in SUBSET DOMAIN graph
      BY <1>1, <2>7 DEF Done, Walks, States
    <3>2. Done(s) \in SUBSET Done(t) /\ Done(s) # Done(t)
      BY <2>7, <2>8 DEF Goes
    <3> DEFINE ds == Done(s)
               dt == Done(t)
    <3>3. IsFiniteSet(dt) /\ Cardinality(ds) \in Nat /\ Cardinality(dt) \in Nat
      BY <3>1, LayersAreFinite
    <3> HIDE DEF ds, dt
    <3>4. Cardinality(ds) <= Cardinality(dt) /\ Cardinality(ds) # Cardinality(dt)
      <4>1. ds \in SUBSET dt /\ ds # dt
        BY <3>2 DEF ds, dt
      <4> QED BY <3>3, <4>1, FS_Subset
    <3>5. Cardinality(ds) < Cardinality(dt)
      BY <3>3, <3>4
    <3> QED BY <3>3, <3>5 DEF ds, dt
  <2> QED BY <1>5, <2>10, <2>11 DEF t, TakesATurn
<1> QED BY <1>3, <1>4, <1>5

\* What walk is: one turn after the other.
LEMMA TurnsFollow ==
    ASSUME NEW graph, IsLayer(graph), NEW q \in Points, NEW entry \in DOMAIN graph,
           NEW ef \in Nat \ {0}
    PROVE  /\ Turns(graph, entry, ef, walk(graph, q, entry, ef)[0])
           /\ \A k \in 1..Cardinality(DOMAIN graph) :
                walk(graph, q, entry, ef)[k] = step(graph, q, ef, walk(graph, q, entry, ef)[k - 1])
<1> DEFINE N == Cardinality(DOMAIN graph)
           a == [visited |-> {entry}, to_visit |-> {entry}, results |-> {entry}]
           V == {s \in States(graph) : Turns(graph, entry, ef, s)}
           G == [k \in 1..N |-> [s \in V |-> step(graph, q, ef, s)]]
           f == walk(graph, q, entry, ef)
           Is(g) == g = [k \in 0..N |-> IF k = 0 THEN a ELSE step(graph, q, ef, g[k - 1])]
<1>1. N \in Nat
  BY LayersAreFinite
<1>2. Turns(graph, entry, ef, a)
  <2>1. a \in States(graph)
    BY DEF States
  <2>2. Cardinality({entry}) = 1
    BY FS_Singleton
  <2>3. Done(a) = {}
    BY DEF Done
  <2>4. Walks(graph, entry, ef, a)
    BY <2>1, <2>2 DEF Walks, Leads
  <2> QED BY <2>3, <2>4 DEF Turns
<1>3. ASSUME NEW s \in V PROVE step(graph, q, ef, s) \in V
  <2>1. Turns(graph, entry, ef, step(graph, q, ef, s))
    BY StepTurns DEF TakesATurn
  <2> QED BY <2>1 DEF Turns, Walks
<1>4. a \in V
  BY <1>2 DEF Turns, Walks
<1>5. G \in [1..N -> [V -> V]]
  BY <1>3
<1>6. \A k \in 1..N, s \in V : G[k][s] = step(graph, q, ef, s)
  OBVIOUS
<1>7. f = CHOOSE g : Is(g)
  BY DEF walk
<1> HIDE DEF N, V, G, f, a
<1>8. PICK h : h \in [0..N -> V] /\ h[0] = a /\ \A k \in 1..N : h[k] = G[k][h[k - 1]]
  <2>1. \E h : Follows(N, V, a, G, h)
    BY <1>1, <1>4, <1>5, Recursion
  <2> QED BY <2>1 DEF Follows
<1>9. Is(h)
  <2> DEFINE e(k) == IF k = 0 THEN a ELSE step(graph, q, ef, h[k - 1])
  <2>1. \A k \in 0..N : h[k] = e(k)
    <3>1. \A k \in 0..N : k = 0 \/ k \in 1..N
      BY <1>1
    <3>2. \A k \in 1..N : k - 1 \in 0..N
      BY <1>1
    <3> QED BY <1>6, <1>8, <3>1, <3>2
  <2> HIDE DEF e
  <2>2. h = [k \in 0..N |-> e(k)]
    BY <1>8, <2>1
  <2> QED BY <2>2 DEF e
<1>10. Is(f)
  <2> HIDE DEF Is
  <2> QED BY <1>7, <1>9
<1>11. f[0] = a
  BY <1>1, <1>10
<1>12. ASSUME NEW k \in 1..N PROVE f[k] = step(graph, q, ef, f[k - 1])
  <2>1. k \in 0..N /\ k # 0
    BY <1>1
  <2> QED BY <1>10, <2>1
<1> QED BY <1>2, <1>11, <1>12 DEF f, N

\* What a walk ends with: nodes that links lead to, ef of them or all of them.
Finds(graph, entry, ef, R) ==
    /\ R \in SUBSET DOMAIN graph /\ R # {}
    /\ Cardinality(R) <= ef
    /\ Leads(graph, entry, R)
    /\ Cardinality(R) < ef => entry \in R /\ IsClosed(graph, R)

LEMMA SearchLayerFinds ==
    ASSUME NEW graph, IsLayer(graph), NEW q \in Points, NEW entry \in DOMAIN graph,
           NEW width \in Nat
    PROVE  \E R : /\ Finds(graph, entry, IF width = 0 THEN 1 ELSE width, R)
                  /\ search_layer(graph, q, entry, width) = ByDistance(vectors, q, R)
<1> DEFINE N == Cardinality(DOMAIN graph)
           ef == Max({width, 1})
           f == walk(graph, q, entry, ef)
           Ok(k) == /\ Turns(graph, entry, ef, f[k])
                    /\ \/ f[k].to_visit = {}
                       \/ Cardinality(Done(f[k])) \in Nat /\ k <= Cardinality(Done(f[k]))
           S == {k \in 0..N : Ok(k)}
<1>1. ef \in Nat \ {0} /\ ef = IF width = 0 THEN 1 ELSE width
  BY MaxOfTwo
<1>2. N \in Nat
  BY LayersAreFinite
<1>3. search_layer(graph, q, entry, width) = ByDistance(vectors, q, f[N].results)
  BY DEF search_layer
<1> HIDE DEF ef
<1>4. /\ Turns(graph, entry, ef, f[0])
      /\ \A k \in 1..N : f[k] = step(graph, q, ef, f[k - 1])
  BY <1>1, TurnsFollow
<1>5. \A s : Turns(graph, entry, ef, s) => Done(s) \in SUBSET DOMAIN graph
  BY DEF Turns, Walks, States, Done
<1> HIDE DEF f, N
<1>6. 0 \in S
  <2>1. Cardinality(Done(f[0])) \in Nat
    BY <1>4, <1>5, LayersAreFinite
  <2>2. Ok(0)
    BY <1>4, <2>1
  <2> QED BY <1>2, <2>2
<1>7. ASSUME NEW k \in 1..N, k - 1 \in S PROVE k \in S
  <2> DEFINE s == f[k - 1]
             t == f[k]
             ds == Cardinality(Done(s))
             dt == Cardinality(Done(t))
  <2>1. k - 1 \in 0..N /\ k \in 0..N
    BY <1>2
  <2>2. Turns(graph, entry, ef, s) /\ (s.to_visit = {} \/ (ds \in Nat /\ k - 1 <= ds))
    BY <1>7
  <2>3. t = step(graph, q, ef, s)
    BY <1>4
  <2> HIDE DEF s, t
  <2>4. /\ Turns(graph, entry, ef, t)
        /\ s.to_visit = {} => t = s
        /\ t.to_visit = {} \/ (dt \in Nat /\ ds < dt)
    <3>1. TakesATurn(graph, entry, ef, s, t)
      BY <1>1, <2>2, <2>3, StepTurns
    <3> QED BY <3>1 DEF TakesATurn
  <2> HIDE DEF ds, dt
  <2>5. t.to_visit = {} \/ (dt \in Nat /\ k <= dt)
    BY <2>1, <2>2, <2>4
  <2> QED BY <2>1, <2>4, <2>5 DEF t, dt
<1> HIDE DEF S
<1>8. Ok(N)
  <2>1. 0..N \subseteq S
    BY <1>2, <1>6, <1>7, Induction
  <2>2. N \in S
    BY <1>2, <2>1
  <2> QED BY <2>2 DEF S
<1> DEFINE end == f[N]
<1>9. Turns(graph, entry, ef, end) /\ Walks(graph, entry, ef, end)
  BY <1>8 DEF Turns
<1>10. end.to_visit = {}
  <2>1. SUFFICES ASSUME Cardinality(Done(end)) \in Nat, N <= Cardinality(Done(end))
                 PROVE  end.to_visit = {}
    BY <1>8
  <2> DEFINE D == Done(end)
             nodes == DOMAIN graph
  <2>2. D \in SUBSET nodes
    BY <1>5, <1>9
  <2>3. IsFiniteSet(nodes)
    BY LayersAreFinite
  <2>4. Cardinality(D) <= Cardinality(nodes) /\ (Cardinality(nodes) = Cardinality(D) => nodes = D)
    BY <2>2, <2>3, FS_Subset
  <2>5. nodes = D
    BY <1>2, <2>1, <2>4 DEF N
  <2>6. end.to_visit \subseteq nodes
    BY <1>9 DEF Walks, States
  <2> QED BY <2>5, <2>6 DEF Done
<1>11. Finds(graph, entry, ef, end.results)
  <2> HIDE DEF end
  <2>1. Cardinality(end.results) < ef => entry \in end.results /\ IsClosed(graph, end.results)
    <3>1. Done(end) = end.visited
      BY <1>10 DEF Done
    <3> QED BY <1>9, <3>1 DEF Turns, Walks, IsClosed
  <2>2. Leads(graph, entry, end.results)
    BY <1>9 DEF Walks, Leads
  <2> QED BY <1>9, <2>1, <2>2 DEF Walks, Finds, States
<1> QED BY <1>1, <1>3, <1>11

(***************************************************************************)
(* The invariant of the index, and the walk down its layers.               *)
(***************************************************************************)

\* A list of links: nodes of the layer, each once, and not too many.
LinksOk(l, x) ==
    /\ layers[l][x] \in Seq(DOMAIN layers[l])
    /\ IsInjective(layers[l][x])
    /\ Len(layers[l][x]) <= max_connections(l)

IndexInv ==
    /\ vectors \in Seq(Points) /\ deleted \subseteq DOMAIN vectors
    /\ IF vectors = <<>> THEN entry_point = None /\ max_layer = 0 /\ DOMAIN layers = {}
       ELSE /\ max_layer \in 0..MAX_LEVEL /\ DOMAIN layers = 0..max_layer
            /\ entry_point \in DOMAIN layers[max_layer] /\ DOMAIN layers[0] = DOMAIN vectors
    /\ \A l \in DOMAIN layers :
        /\ DOMAIN layers[l] \subseteq DOMAIN vectors
        /\ l > 0 => DOMAIN layers[l] \subseteq DOMAIN layers[l - 1]
        /\ \A x \in DOMAIN layers[l] : LinksOk(l, x)

LEMMA LayersAreLayers ==
    ASSUME IndexInv, vectors # <<>>, NEW l \in 0..max_layer
    PROVE  /\ IsLayer(layers[l]) /\ l \in DOMAIN layers /\ max_layer \in Nat
           /\ DOMAIN layers[l] \subseteq 1..Len(vectors)
           /\ l > 0 => DOMAIN layers[l] \subseteq DOMAIN layers[l - 1]
<1>1. DOMAIN layers = 0..max_layer /\ max_layer \in Nat /\ DOMAIN vectors = 1..Len(vectors)
  BY LimitAssumption DEF IndexInv
<1>2. /\ DOMAIN layers[l] \subseteq DOMAIN vectors
      /\ l > 0 => DOMAIN layers[l] \subseteq DOMAIN layers[l - 1]
      /\ \A x \in DOMAIN layers[l] : layers[l][x] \in Seq(DOMAIN layers[l])
  BY <1>1 DEF IndexInv, LinksOk
<1> QED BY <1>1, <1>2 DEF IsLayer, IndexInv

\* What a search of a layer returns: the nodes it found, in order.
LEMMA FoundAreNodes ==
    ASSUME NEW graph, IsLayer(graph), NEW q \in Points, NEW R \in SUBSET DOMAIN graph, R # {}
    PROVE  /\ Lists(vectors, q, R, ByDistance(vectors, q, R))
           /\ Cardinality(R) \in Nat \ {0}
           /\ ByDistance(vectors, q, R) \in Seq(R)
           /\ Len(ByDistance(vectors, q, R)) = Cardinality(R)
           /\ ByDistance(vectors, q, R)[1] \in R
<1>1. Ids(vectors, q, R)
  BY DEF Ids, IsLayer
<1> DEFINE b == ByDistance(vectors, q, R)
           n == Cardinality(R)
<1>2. Lists(vectors, q, R, b)
  BY <1>1, ByDistanceLists
<1>3. n \in Nat /\ n # 0
  BY <1>1, IdsAreFinite, FS_EmptySet
<1> HIDE DEF b
<1>4. b \in [1..n -> R]
  BY <1>2 DEF Lists
<1> HIDE DEF n
<1>5. b \in Seq(R) /\ Len(b) = n /\ b[1] \in R
  BY <1>3, <1>4
<1> QED BY <1>2, <1>3, <1>5 DEF b, n

\* The node that a search of a layer begins at, and how many it keeps.
EntryTo(found, l) == IF l = max_layer THEN entry_point ELSE found[l + 1][1]
WidthAt(level, ef, l) == IF l > level THEN 1 ELSE ef

LEMMA FoundFollows ==
    ASSUME IndexInv, vectors # <<>>, NEW q \in Points, NEW level \in Nat, NEW ef \in Nat,
           NEW l \in 0..max_layer
    PROVE  /\ EntryTo(Found(q, level, ef), l) \in DOMAIN layers[l]
           /\ Found(q, level, ef)[l] =
                search_layer(layers[l], q, EntryTo(Found(q, level, ef), l), WidthAt(level, ef, l))
<1> DEFINE N == max_layer
           W(i) == WidthAt(level, ef, i)
           V == Seq(Nat)
           found(i, entry) == search_layer(layers[i], q, entry, W(i))
           a == found(N, entry_point)
           next(k, list) == IF list[1] \in DOMAIN layers[N - k] THEN found(N - k, list[1]) ELSE <<>>
           G == [k \in 1..N |-> [list \in V |-> next(k, list)]]
           f == Found(q, level, ef)
           Is(g) == g = [i \in 0..N |-> found(i, EntryTo(g, i))]
<1>1. N \in Nat /\ entry_point \in DOMAIN layers[N]
  BY LimitAssumption DEF IndexInv
<1>2. \A i : W(i) \in Nat
  BY DEF WidthAt
<1>3. ASSUME NEW i \in 0..N, NEW entry \in DOMAIN layers[i]
      PROVE  found(i, entry) \in V /\ found(i, entry)[1] \in DOMAIN layers[i]
  <2>1. IsLayer(layers[i]) /\ DOMAIN layers[i] \subseteq 1..Len(vectors) /\ Len(vectors) \in Nat
    <3>1. vectors \in Seq(Points)
      BY DEF IndexInv
    <3>2. Len(vectors) \in Nat
      BY <3>1
    <3> QED BY <3>2, LayersAreLayers
  <2>2. PICK R : R \in SUBSET DOMAIN layers[i] /\ R # {} /\ found(i, entry) = ByDistance(vectors, q, R)
    BY <1>2, <2>1, SearchLayerFinds DEF Finds
  <2> HIDE DEF found
  <2>3. found(i, entry) \in Seq(R) /\ found(i, entry)[1] \in R
    BY <2>1, <2>2, FoundAreNodes
  <2>4. R \subseteq Nat
    BY <2>1, <2>2
  <2>5. found(i, entry) \in Seq(Nat)
    BY <2>3, <2>4, SeqOfMore
  <2> QED BY <2>2, <2>3, <2>5
<1>4. f = CHOOSE g : Is(g)
  BY DEF Found, EntryTo, WidthAt
<1> HIDE DEF found
<1>5. a \in V /\ a[1] \in DOMAIN layers[N]
  BY <1>1, <1>3
<1>6. ASSUME NEW k \in 1..N, NEW list \in V PROVE next(k, list) \in V
  <2>1. N - k \in 0..N
    BY <1>1
  <2> QED BY <1>3, <2>1
<1>7. G \in [1..N -> [V -> V]]
  <2> HIDE DEF next, V
  <2> QED BY <1>6
<1>8. \A k \in 1..N, list \in V : G[k][list] = next(k, list)
  <2> HIDE DEF next, V
  <2> QED OBVIOUS
<1> HIDE DEF N, V, G, f, a
<1>9. PICK h : h \in [0..N -> V] /\ h[0] = a /\ \A k \in 1..N : h[k] = G[k][h[k - 1]]
  <2>1. \E h : Follows(N, V, a, G, h)
    BY <1>1, <1>5, <1>7, Recursion
  <2> QED BY <2>1 DEF Follows
<1> DEFINE S == {k \in 0..N : h[k][1] \in DOMAIN layers[N - k]}
<1>10. 0 \in S
  <2>1. N - 0 = N
    BY <1>1
  <2> QED BY <1>1, <1>5, <1>9, <2>1
<1>11. ASSUME NEW k \in 1..N, k - 1 \in S
       PROVE  /\ k \in S
              /\ h[k - 1][1] \in DOMAIN layers[N - k]
              /\ h[k] = found(N - k, h[k - 1][1])
  <2>1. /\ N - (k - 1) \in 0..N /\ N - k = (N - (k - 1)) - 1 /\ N - (k - 1) > 0 /\ k - 1 \in 0..N
        /\ N - k \in 0..N /\ k \in 0..N
    BY <1>1
  <2>2. h[k - 1][1] \in DOMAIN layers[N - k]
    <3>1. h[k - 1][1] \in DOMAIN layers[N - (k - 1)]
      BY <1>11
    <3>2. DOMAIN layers[N - (k - 1)] \subseteq DOMAIN layers[(N - (k - 1)) - 1]
      BY <2>1, LayersAreLayers DEF N
    <3> QED BY <2>1, <3>1, <3>2
  <2>3. h[k - 1] \in V
    BY <1>9, <2>1
  <2>4. h[k] = next(k, h[k - 1])
    <3> HIDE DEF next
    <3> QED BY <1>8, <1>9, <2>3
  <2>5. h[k] = found(N - k, h[k - 1][1])
    BY <2>2, <2>4
  <2>6. h[k][1] \in DOMAIN layers[N - k]
    BY <1>3, <2>1, <2>2, <2>5
  <2> QED BY <2>1, <2>2, <2>5, <2>6
<1> HIDE DEF S
<1>12. 0..N \subseteq S
  BY <1>1, <1>10, <1>11, Induction
<1> DEFINE g == [i \in 0..N |-> h[N - i]]
<1>13. ASSUME NEW i \in 0..N PROVE g[i] = found(i, EntryTo(g, i))
  <2>1. N - i \in 0..N /\ N - (N - i) = i /\ g[i] = h[N - i]
    BY <1>1
  <2>2. CASE i = N
    <3>1. N - i = 0
      BY <1>1, <2>2
    <3>2. g[i] = a
      BY <1>9, <2>1, <3>1
    <3> QED BY <2>2, <3>2 DEF EntryTo, a, N
  <2>3. CASE i # N
    <3>1. i + 1 \in 0..N /\ N - (i + 1) = (N - i) - 1 /\ N - i \in 1..N /\ (N - i) - 1 \in 0..N
      BY <1>1, <2>3
    <3>2. h[N - i] = found(N - (N - i), h[(N - i) - 1][1])
      BY <1>11, <1>12, <3>1
    <3>3. g[i + 1] = h[(N - i) - 1]
      BY <3>1
    <3>4. EntryTo(g, i) = g[i + 1][1]
      BY <2>3 DEF EntryTo, N
    <3> QED BY <2>1, <3>2, <3>3, <3>4
  <2> QED BY <2>2, <2>3
<1>14. Is(g)
  <2> DEFINE e(i) == found(i, EntryTo(g, i))
  <2>1. \A i \in 0..N : g[i] = e(i)
    BY <1>13
  <2>2. g = [i \in 0..N |-> g[i]]
    OBVIOUS
  <2> HIDE DEF e, g
  <2>3. g = [i \in 0..N |-> e(i)]
    BY <2>1, <2>2
  <2> QED BY <2>3 DEF e
<1>15. Is(f)
  <2> HIDE DEF Is, g
  <2> QED BY <1>4, <1>14
<1> HIDE DEF g
<1>16. ASSUME NEW i \in 0..N PROVE f[i] = found(i, EntryTo(f, i))
  BY <1>15
<1> DEFINE T == {k \in 0..N : EntryTo(f, N - k) \in DOMAIN layers[N - k]}
<1>17. 0 \in T
  <2>1. N - 0 = N /\ 0 \in 0..N
    BY <1>1
  <2> QED BY <1>1, <2>1 DEF EntryTo, N
<1>18. ASSUME NEW k \in 1..N, k - 1 \in T PROVE k \in T
  <2> DEFINE i == N - k
  <2>1. /\ i + 1 = N - (k - 1) /\ i \in 0..N /\ i + 1 \in 0..N /\ i + 1 > 0 /\ i # N
        /\ (i + 1) - 1 = i /\ k \in 0..N
    BY <1>1
  <2>2. EntryTo(f, i + 1) \in DOMAIN layers[i + 1]
    BY <1>18, <2>1
  <2> HIDE DEF i
  <2>3. f[i + 1][1] \in DOMAIN layers[i + 1]
    BY <1>3, <1>16, <2>1, <2>2
  <2>4. DOMAIN layers[i + 1] \subseteq DOMAIN layers[i]
    <3>1. DOMAIN layers[i + 1] \subseteq DOMAIN layers[(i + 1) - 1]
      BY <2>1, LayersAreLayers DEF N
    <3> QED BY <2>1, <3>1
  <2>5. EntryTo(f, i) \in DOMAIN layers[i]
    BY <2>1, <2>3, <2>4 DEF EntryTo, N
  <2> QED BY <2>1, <2>5 DEF i
<1> HIDE DEF T
<1>19. 0..N \subseteq T
  BY <1>1, <1>17, <1>18, Induction
<1>20. EntryTo(f, l) \in DOMAIN layers[l]
  <2>1. N - l \in 0..N /\ N - (N - l) = l
    BY <1>1 DEF N
  <2> QED BY <1>19, <2>1 DEF T
<1> QED BY <1>16, <1>20 DEF f, found, N

(***************************************************************************)
(* The choice of neighbours.                                               *)
(***************************************************************************)

Selections(D) == [selected : Seq(D), rejected : Seq(D)]

LEMMA SelectionsGrow ==
    ASSUME NEW D, NEW s \in Selections(D), NEW c \in D, NEW t
    PROVE  /\ s.selected \in Seq(D) /\ s.rejected \in Seq(D)
           /\ t = [s EXCEPT !.selected = Append(@, c)] =>
                t \in Selections(D) /\ t.selected = Append(s.selected, c) /\ t.rejected = s.rejected
           /\ t = [s EXCEPT !.rejected = Append(@, c)] =>
                t \in Selections(D) /\ t.rejected = Append(s.rejected, c) /\ t.selected = s.selected
<1> DEFINE a == Append(s.selected, c)
           b == Append(s.rejected, c)
<1>1. s.selected \in Seq(D) /\ s.rejected \in Seq(D)
  BY DEF Selections
<1>2. a \in Seq(D) /\ b \in Seq(D)
  BY <1>1
<1> HIDE DEF a, b
<1>3. /\ t = [s EXCEPT !.selected = a] =>
            t \in Selections(D) /\ t.selected = a /\ t.rejected = s.rejected
      /\ t = [s EXCEPT !.rejected = b] =>
            t \in Selections(D) /\ t.rejected = b /\ t.selected = s.selected
  BY <1>1, <1>2 DEF Selections
<1> QED BY <1>1, <1>3 DEF a, b

LEMMA ConsiderIsSelection ==
    ASSUME NEW vs, NEW base, NEW max_count, NEW D, NEW s \in Selections(D), NEW c \in D
    PROVE  consider(vs, base, max_count, s, c) \in Selections(D)
<1> DEFINE t == consider(vs, base, max_count, s, c)
<1>1. \/ t = s \/ t = [s EXCEPT !.selected = Append(@, c)]
      \/ t = [s EXCEPT !.rejected = Append(@, c)]
  BY DEF consider
<1> QED BY <1>1, SelectionsGrow

\* What consider_all is: one candidate after the other.
LEMMA ConsidersFollow ==
    ASSUME NEW vs, NEW base, NEW max_count, NEW D, NEW candidates \in Seq(D)
    PROVE  /\ consider_all(vs, base, max_count, candidates)[0]
                = [selected |-> <<>>, rejected |-> <<>>]
           /\ \A k \in 1..Len(candidates) :
                consider_all(vs, base, max_count, candidates)[k] =
                    consider(vs, base, max_count,
                             consider_all(vs, base, max_count, candidates)[k - 1], candidates[k])
<1> DEFINE N == Len(candidates)
           a == [selected |-> <<>>, rejected |-> <<>>]
           V == Selections(D)
           next(k, s) == consider(vs, base, max_count, s, candidates[k])
           G == [k \in 1..N |-> [s \in V |-> next(k, s)]]
           f == consider_all(vs, base, max_count, candidates)
           Is(g) == g = [k \in 0..N |-> IF k = 0 THEN a ELSE next(k, g[k - 1])]
<1>1. N \in Nat /\ a \in V /\ \A k \in 1..N : candidates[k] \in D
  BY DEF Selections
<1>2. ASSUME NEW k \in 1..N, NEW s \in V PROVE next(k, s) \in V
  BY <1>1, ConsiderIsSelection
<1>3. f = CHOOSE g : Is(g)
  BY DEF consider_all
<1> HIDE DEF next
<1>4. G \in [1..N -> [V -> V]] /\ \A k \in 1..N, s \in V : G[k][s] = next(k, s)
  BY <1>2
<1> HIDE DEF N, V, G, f, a
<1>5. PICK h : h \in [0..N -> V] /\ h[0] = a /\ \A k \in 1..N : h[k] = G[k][h[k - 1]]
  <2>1. \E h : Follows(N, V, a, G, h)
    BY <1>1, <1>4, Recursion
  <2> QED BY <2>1 DEF Follows
<1>6. Is(h)
  <2> DEFINE e(k) == IF k = 0 THEN a ELSE next(k, h[k - 1])
  <2>1. \A k \in 0..N : h[k] = e(k)
    <3>1. \A k \in 0..N : k = 0 \/ k \in 1..N
      BY <1>1
    <3>2. \A k \in 1..N : k - 1 \in 0..N
      BY <1>1
    <3> QED BY <1>4, <1>5, <3>1, <3>2
  <2> HIDE DEF e
  <2>2. h = [k \in 0..N |-> e(k)]
    BY <1>5, <2>1
  <2> QED BY <2>2 DEF e
<1>7. Is(f)
  <2> HIDE DEF Is
  <2> QED BY <1>3, <1>6
<1>8. f[0] = a
  BY <1>1, <1>7
<1>9. ASSUME NEW k \in 1..N PROVE f[k] = next(k, f[k - 1])
  <2>1. k \in 0..N /\ k # 0
    BY <1>1
  <2> QED BY <1>7, <2>1
<1> QED BY <1>8, <1>9 DEF f, N, a, next

\* A choice among distinct candidates is of distinct ones, and of no more than asked for.
IsChoice(candidates, max_count, list) ==
    /\ list \in Seq(Range(candidates)) /\ IsInjective(list)
    /\ Len(list) <= max_count

LEMMA NeighborsAreChosen ==
    ASSUME NEW vs, NEW base, NEW max_count \in Nat, NEW T, NEW candidates \in Seq(T),
           IsInjective(candidates)
    PROVE  IsChoice(candidates, max_count, select_neighbors(vs, base, candidates, max_count))
<1> DEFINE N == Len(candidates)
           D == Range(candidates)
           f == consider_all(vs, base, max_count, candidates)
           Ok(k) == /\ f[k] \in Selections(D)
                    /\ IsInjective(f[k].selected) /\ IsInjective(f[k].rejected)
                    /\ Len(f[k].selected) <= max_count
                    /\ \A i \in DOMAIN f[k].selected, j \in DOMAIN f[k].rejected :
                        f[k].selected[i] # f[k].rejected[j]
                    /\ \A i \in DOMAIN f[k].selected : \E j \in 1..k : f[k].selected[i] = candidates[j]
                    /\ \A i \in DOMAIN f[k].rejected : \E j \in 1..k : f[k].rejected[i] = candidates[j]
           S == {k \in 0..N : Ok(k)}
<1>1. N \in Nat /\ \A k \in 1..N : candidates[k] \in D
  BY DEF Range
<1>2. candidates \in Seq(D)
  BY <1>1
<1>3. /\ f[0] = [selected |-> <<>>, rejected |-> <<>>]
      /\ \A k \in 1..N : f[k] = consider(vs, base, max_count, f[k - 1], candidates[k])
  BY <1>2, ConsidersFollow
<1> HIDE DEF f, D
<1>4. 0 \in S
  <2>1. Ok(0)
    BY <1>3 DEF Selections, IsInjective
  <2> QED BY <1>1, <2>1
<1>5. ASSUME NEW k \in 1..N, k - 1 \in S PROVE k \in S
  <2> DEFINE s == f[k - 1]
             t == f[k]
             c == candidates[k]
  <2>1. k - 1 \in 0..N /\ k \in 0..N /\ 1..k - 1 \subseteq 1..k /\ k \in 1..k
    BY <1>1
  <2>2. /\ s \in Selections(D)
        /\ IsInjective(s.selected) /\ IsInjective(s.rejected)
        /\ Len(s.selected) <= max_count
        /\ \A i \in DOMAIN s.selected, j \in DOMAIN s.rejected : s.selected[i] # s.rejected[j]
        /\ \A i \in DOMAIN s.selected : \E j \in 1..k - 1 : s.selected[i] = candidates[j]
        /\ \A i \in DOMAIN s.rejected : \E j \in 1..k - 1 : s.rejected[i] = candidates[j]
    BY <1>5
  <2>3. t = consider(vs, base, max_count, s, c) /\ c \in D
    BY <1>1, <1>3
  <2>4. ASSUME NEW j \in 1..k - 1 PROVE candidates[j] # c
    <3>1. j \in DOMAIN candidates /\ k \in DOMAIN candidates /\ j # k
      BY <1>1
    <3> QED BY <3>1 DEF IsInjective
  <2>5. s.selected \in Seq(D) /\ s.rejected \in Seq(D)
    BY <2>2 DEF Selections
  <2> HIDE DEF s, t, c
  <2>6. /\ \A i \in DOMAIN s.selected : s.selected[i] # c
        /\ \A i \in DOMAIN s.rejected : s.rejected[i] # c
    BY <2>2, <2>4
  <2>7. CASE t = s
    <3>1. Ok(k)
      BY <2>1, <2>2, <2>7 DEF t
    <3> QED BY <2>1, <3>1
  <2>8. CASE t = [s EXCEPT !.selected = Append(@, c)] /\ Len(s.selected) < max_count
    <3>1. t \in Selections(D) /\ t.selected = Append(s.selected, c) /\ t.rejected = s.rejected
      BY <2>2, <2>3, <2>8, SelectionsGrow, SMTT(30)
    <3>2. Len(t.selected) <= max_count
      BY <2>5, <2>8, <3>1
    <3>3. \A i \in DOMAIN t.selected :
            \/ i \in DOMAIN s.selected /\ t.selected[i] = s.selected[i]
            \/ i = Len(s.selected) + 1 /\ t.selected[i] = c
      BY <2>5, <3>1
    <3>4. IsInjective(t.selected)
      BY <2>2, <2>6, <3>3 DEF IsInjective
    <3>5. /\ \A i \in DOMAIN t.selected, j \in DOMAIN t.rejected : t.selected[i] # t.rejected[j]
          /\ \A i \in DOMAIN t.selected : \E j \in 1..k : t.selected[i] = candidates[j]
          /\ \A i \in DOMAIN t.rejected : \E j \in 1..k : t.rejected[i] = candidates[j]
      BY <2>1, <2>2, <2>6, <3>1, <3>3 DEF c
    <3>6. Ok(k)
      BY <2>2, <3>1, <3>2, <3>4, <3>5 DEF t
    <3> QED BY <2>1, <3>6
  <2>9. CASE t = [s EXCEPT !.rejected = Append(@, c)]
    <3>1. t \in Selections(D) /\ t.rejected = Append(s.rejected, c) /\ t.selected = s.selected
      BY <2>2, <2>3, <2>9, SelectionsGrow, SMTT(30)
    <3>3. \A i \in DOMAIN t.rejected :
            \/ i \in DOMAIN s.rejected /\ t.rejected[i] = s.rejected[i]
            \/ i = Len(s.rejected) + 1 /\ t.rejected[i] = c
      BY <2>5, <3>1
    <3>4. IsInjective(t.rejected)
      BY <2>2, <2>6, <3>3 DEF IsInjective
    <3>5. /\ \A i \in DOMAIN t.selected, j \in DOMAIN t.rejected : t.selected[i] # t.rejected[j]
          /\ \A i \in DOMAIN t.selected : \E j \in 1..k : t.selected[i] = candidates[j]
          /\ \A i \in DOMAIN t.rejected : \E j \in 1..k : t.rejected[i] = candidates[j]
      BY <2>1, <2>2, <2>6, <3>1, <3>3 DEF c
    <3>6. Ok(k)
      BY <2>2, <3>1, <3>4, <3>5 DEF t
    <3> QED BY <2>1, <3>6
  <2>10. Len(s.selected) \in Nat
    BY <2>5
  <2> QED BY <2>3, <2>7, <2>8, <2>9, <2>10 DEF consider
<1> HIDE DEF S
<1>6. Ok(N)
  <2>1. 0..N \subseteq S
    BY <1>1, <1>4, <1>5, Induction
  <2>2. N \in S
    BY <1>1, <2>1
  <2> QED BY <2>2 DEF S
<1> DEFINE s == f[N]
           free == max_count - Len(s.selected)
           m == Min({free, Len(s.rejected)})
           more == SubSeq(s.rejected, 1, m)
<1>7. /\ s.selected \in Seq(D) /\ s.rejected \in Seq(D)
      /\ IsInjective(s.selected) /\ IsInjective(s.rejected)
      /\ Len(s.selected) <= max_count
      /\ \A i \in DOMAIN s.selected, j \in DOMAIN s.rejected : s.selected[i] # s.rejected[j]
  BY <1>6 DEF Selections
<1>8. select_neighbors(vs, base, candidates, max_count) = s.selected \o more
  BY DEF select_neighbors, f
<1> HIDE DEF s
<1>9. m \in Nat /\ m <= free /\ m <= Len(s.rejected) /\ free \in Nat
  <2> DEFINE r == Len(s.rejected)
  <2>1. free \in Nat /\ r \in Nat
    BY <1>7
  <2> HIDE DEF free, r
  <2>2. m = IF free <= r THEN free ELSE r
    BY <2>1, MinOfTwo DEF r
  <2>3. m \in Nat /\ m <= free /\ m <= r
    BY <2>1, <2>2
  <2> QED BY <2>1, <2>3 DEF r
<1> HIDE DEF m
<1>10. more \in Seq(D) /\ Len(more) = m /\ \A i \in 1..m : more[i] = s.rejected[i]
  BY <1>7, <1>9
<1> HIDE DEF more
<1> DEFINE list == s.selected \o more
<1>11. list \in Seq(D) /\ Len(list) <= max_count
  BY <1>7, <1>9, <1>10
<1>12. \A i \in DOMAIN list :
         \/ i \in DOMAIN s.selected /\ list[i] = s.selected[i]
         \/ /\ i > Len(s.selected) /\ i - Len(s.selected) \in 1..m
            /\ i - Len(s.selected) \in DOMAIN s.rejected
            /\ list[i] = s.rejected[i - Len(s.selected)]
  <2>1. Len(s.selected) \in Nat /\ Len(s.rejected) \in Nat
    BY <1>7
  <2>2. Len(list) = Len(s.selected) + m /\ DOMAIN list = 1..Len(list)
    <3>1. Len(list) = Len(s.selected) + Len(more)
      BY <1>7, <1>10, LenOfConcat
    <3>2. DOMAIN list = 1..Len(list)
      BY <1>11
    <3> QED BY <1>10, <3>1, <3>2
  <2>3. /\ DOMAIN s.selected = 1..Len(s.selected) /\ DOMAIN s.rejected = 1..Len(s.rejected)
    BY <1>7
  <2>4. ASSUME NEW i \in DOMAIN list
        PROVE  \/ i \in DOMAIN s.selected /\ list[i] = s.selected[i]
               \/ /\ i > Len(s.selected) /\ i - Len(s.selected) \in 1..m
                  /\ i - Len(s.selected) \in DOMAIN s.rejected
                  /\ list[i] = s.rejected[i - Len(s.selected)]
    <3>1. CASE i <= Len(s.selected)
      BY <1>7, <1>10, <2>1, <2>2, <2>3, <3>1
    <3>2. CASE ~(i <= Len(s.selected))
      <4>1. i - Len(s.selected) \in 1..m
        BY <1>9, <2>1, <2>2, <3>2
      <4>2. list[i] = more[i - Len(s.selected)]
        BY <1>7, <1>10, <2>1, <2>2, <3>2, <4>1
      <4> QED BY <1>9, <1>10, <2>1, <2>2, <2>3, <3>2, <4>1, <4>2
    <3> QED BY <3>1, <3>2
  <2> QED BY <2>4
<1>13. IsInjective(list)
  <2> HIDE DEF list
  <2>1. \A i \in DOMAIN list : i \in Nat
    BY <1>11
  <2>2. Len(s.selected) \in Nat
    BY <1>7
  <2>3. SUFFICES ASSUME NEW i \in DOMAIN list, NEW j \in DOMAIN list, list[i] = list[j]
                 PROVE  i = j
    BY DEF IsInjective
  <2>4. CASE i \in DOMAIN s.selected /\ list[i] = s.selected[i]
    BY <1>7, <1>12, <2>3, <2>4 DEF IsInjective
  <2>5. CASE /\ i > Len(s.selected) /\ i - Len(s.selected) \in DOMAIN s.rejected
             /\ list[i] = s.rejected[i - Len(s.selected)]
    <3>1. i - Len(s.selected) = j - Len(s.selected)
      BY <1>7, <1>12, <2>3, <2>5 DEF IsInjective
    <3> QED BY <2>1, <2>2, <3>1
  <2> QED BY <1>12, <2>4, <2>5
<1> QED BY <1>8, <1>11, <1>13 DEF IsChoice, D

(***************************************************************************)
(* Inserts.                                                                *)
(***************************************************************************)

LEMMA ListsAreInjective ==
    ASSUME NEW vs, NEW q, NEW ids, Ids(vs, q, ids), NEW list, Lists(vs, q, ids, list)
    PROVE  list \in Seq(ids) /\ IsInjective(list) /\ Range(list) = ids /\ Len(list) = Cardinality(ids)
<1> DEFINE n == Cardinality(ids)
<1>1. n \in Nat /\ \A x \in ids : x \in 1..Len(vs)
  BY IdsAreFinite DEF Ids
<1> HIDE DEF n
<1>2. /\ list \in [1..n -> ids]
      /\ \A x \in ids : \E k \in 1..n : list[k] = x
      /\ \A i, j \in 1..n : i < j => nearer(vs, q, list[i], list[j])
  BY DEF Lists, n
<1>3. \A x \in ids : ~nearer(vs, q, x, x)
  BY <1>1, NearerIsOrder DEF Ids
<1>4. list \in Seq(ids) /\ Len(list) = n /\ DOMAIN list = 1..n
  BY <1>1, <1>2
<1>5. IsInjective(list)
  <2>1. SUFFICES ASSUME NEW i \in 1..n, NEW j \in 1..n, list[i] = list[j] PROVE i = j
    BY <1>4 DEF IsInjective
  <2>2. ~(i < j) /\ ~(j < i)
    BY <1>2, <1>3, <2>1
  <2> QED BY <1>1, <2>2
<1>6. Range(list) = ids
  BY <1>2, <1>4 DEF Range
<1> QED BY <1>4, <1>5, <1>6 DEF n

\* A search on the way down returns nodes of the layer, each once.
LEMMA FoundAreDistinct ==
    ASSUME IndexInv, vectors # <<>>, NEW q \in Points, NEW level \in Nat, NEW ef \in Nat,
           NEW l \in 0..max_layer
    PROVE  /\ Found(q, level, ef)[l] \in Seq(DOMAIN layers[l])
           /\ IsInjective(Found(q, level, ef)[l])
<1> DEFINE found == Found(q, level, ef)
           entry == EntryTo(found, l)
           w == WidthAt(level, ef, l)
<1>1. IsLayer(layers[l])
  BY LayersAreLayers
<1>2. entry \in DOMAIN layers[l] /\ found[l] = search_layer(layers[l], q, entry, w) /\ w \in Nat
  BY FoundFollows DEF WidthAt
<1> HIDE DEF found, entry, w
<1>3. PICK R : R \in SUBSET DOMAIN layers[l] /\ R # {} /\ found[l] = ByDistance(vectors, q, R)
  BY <1>1, <1>2, SearchLayerFinds DEF Finds
<1>4. Lists(vectors, q, R, found[l]) /\ found[l] \in Seq(R)
  BY <1>1, <1>3, FoundAreNodes
<1>5. Ids(vectors, q, R)
  BY <1>1, <1>3 DEF Ids, IsLayer
<1>6. IsInjective(found[l])
  BY <1>4, <1>5, ListsAreInjective
<1>7. found[l] \in Seq(DOMAIN layers[l])
  BY <1>3, <1>4, SeqOfMore
<1> QED BY <1>6, <1>7 DEF found

\* A choice of distinct candidates, for a new node or for one that has got a link.
LEMMA ShrinkChooses ==
    ASSUME NEW vs \in Seq(Points), NEW l \in Nat, NEW x \in 1..Len(vs),
           NEW T \in SUBSET (1..Len(vs)), NEW neighbors \in Seq(T), IsInjective(neighbors)
    PROVE  IsChoice(neighbors, max_connections(l), shrink_connections(vs, l, x, neighbors))
<1> DEFINE mc == max_connections(l)
           ids == Range(neighbors)
           sorted == ByDistance(vs, vs[x], ids)
           kept == select_neighbors(vs, vs[x], sorted, mc)
<1>1. mc \in Nat
  BY LimitAssumption DEF max_connections
<1>2. ids \subseteq T /\ Len(neighbors) \in Nat /\ neighbors \in Seq(ids)
  BY DEF Range
<1>3. Ids(vs, vs[x], ids)
  <2>1. vs[x] \in Points
    OBVIOUS
  <2>2. ids \subseteq 1..Len(vs)
    BY <1>2
  <2> HIDE DEF ids
  <2> QED BY <2>1, <2>2 DEF Ids
<1>4. sorted \in Seq(ids) /\ IsInjective(sorted) /\ Range(sorted) = ids
  BY <1>3, ByDistanceLists, ListsAreInjective
<1>5. shrink_connections(vs, l, x, neighbors) = IF Len(neighbors) <= mc THEN neighbors ELSE kept
  BY DEF shrink_connections
<1> HIDE DEF mc, ids, sorted
<1>6. IsChoice(sorted, mc, kept)
  BY <1>1, <1>4, NeighborsAreChosen
<1> HIDE DEF kept
<1>7. kept \in Seq(ids) /\ IsInjective(kept) /\ Len(kept) <= mc
  BY <1>4, <1>6 DEF IsChoice
<1>8. CASE Len(neighbors) <= mc
  BY <1>2, <1>5, <1>8 DEF IsChoice, ids, mc
<1>9. CASE ~(Len(neighbors) <= mc)
  BY <1>5, <1>7, <1>9 DEF IsChoice, ids, mc
<1> QED BY <1>8, <1>9

\* The nodes of a layer, none above the top.
Nodes(l) == IF l <= max_layer THEN DOMAIN layers[l] ELSE {}

\* What an insert does to one of the layers of the new node.
Joined(l, id) ==
    /\ DOMAIN layers'[l] = Nodes(l) \cup {id}
    /\ layers'[l][id] \in Seq(Nodes(l)) /\ IsInjective(layers'[l][id])
    /\ Len(layers'[l][id]) <= M
    /\ \A x \in Nodes(l) :
        IF x \in Range(layers'[l][id])
            THEN /\ layers'[l][x] \in Seq(Range(layers[l][x]) \cup {id})
                 /\ IsInjective(layers'[l][x])
                 /\ Len(layers'[l][x]) <= max_connections(l)
            ELSE layers'[l][x] = layers[l][x]

LEMMA InsertJoins ==
    ASSUME IndexInv, vectors # <<>>, NEW p \in Points, NEW level \in Levels, InsertNext(p, level),
           NEW l \in 0..level
    PROVE  Joined(l, Len(vectors) + 1)
<1> DEFINE id == Len(vectors) + 1
           vs == Append(vectors, p)
           found == Found(p, level, EfConstruction)
           chosen == IF l <= max_layer THEN select_neighbors(vs, p, found[l], M) ELSE <<>>
           list(x) == IF x = id THEN chosen
                      ELSE IF x \in Range(chosen)
                        THEN shrink_connections(vs, l, x, Append(layers[l][x], id))
                        ELSE layers[l][x]
<1>1. level \in Nat /\ max_layer \in Nat /\ vectors \in Seq(Points) /\ l \in Nat /\ l <= level
      /\ EfConstruction \in Nat /\ M \in Nat
  BY LimitAssumption, WidthAssumption DEF IndexInv, Levels
<1>2. Len(vectors) \in Nat /\ id \in Nat /\ vs \in Seq(Points) /\ Len(vs) = id
  BY <1>1
<1>3. l <= max_layer => l \in 0..max_layer
  BY <1>1
<1>4. layers'[l] = [x \in Nodes(l) \cup {id} |-> list(x)]
  <2>1. l \in 0..Max({level, max_layer})
    BY <1>1, MaxOfTwo
  <2> QED BY <1>1, <2>1 DEF InsertNext, Nodes
<1>5. Nodes(l) \subseteq 1..Len(vectors) /\ id \notin Nodes(l)
  BY <1>2, <1>3, LayersAreLayers DEF Nodes
<1>6. chosen \in Seq(Nodes(l)) /\ IsInjective(chosen) /\ Len(chosen) <= M
  <2>1. CASE l <= max_layer
    <3>1. found[l] \in Seq(DOMAIN layers[l]) /\ IsInjective(found[l])
      BY <1>1, <1>3, <2>1, FoundAreDistinct
    <3> HIDE DEF found, vs
    <3>2. IsChoice(found[l], M, select_neighbors(vs, p, found[l], M))
      BY <1>1, <3>1, NeighborsAreChosen
    <3>3. Range(found[l]) \subseteq DOMAIN layers[l]
      BY <3>1 DEF Range
    <3>4. chosen \in Seq(Range(found[l])) /\ IsInjective(chosen) /\ Len(chosen) <= M
      BY <2>1, <3>2 DEF IsChoice
    <3> HIDE DEF chosen
    <3>5. Nodes(l) = DOMAIN layers[l]
      BY <2>1 DEF Nodes
    <3> QED BY <3>3, <3>4, <3>5, SeqOfMore
  <2>2. CASE ~(l <= max_layer)
    BY <1>1, <2>2 DEF IsInjective
  <2> QED BY <2>1, <2>2
<1> HIDE DEF chosen, found
<1>7. layers'[l][id] = chosen
  BY <1>4
<1>8. ASSUME NEW x \in Nodes(l)
      PROVE  layers'[l][x] = IF x \in Range(chosen)
                               THEN shrink_connections(vs, l, x, Append(layers[l][x], id))
                               ELSE layers[l][x]
  <2>1. x # id
    BY <1>5
  <2> QED BY <1>4, <2>1
<1>9. ASSUME NEW x \in Nodes(l), x \in Range(chosen)
      PROVE  /\ layers'[l][x] \in Seq(Range(layers[l][x]) \cup {id})
             /\ IsInjective(layers'[l][x])
             /\ Len(layers'[l][x]) <= max_connections(l)
  <2> DEFINE old == layers[l][x]
             new == Append(old, id)
             T == Nodes(l) \cup {id}
             U == Range(old) \cup {id}
  <2>1. LinksOk(l, x) /\ Nodes(l) = DOMAIN layers[l]
    <3>1. l \in 0..max_layer
      BY <1>1 DEF Nodes
    <3>2. l \in DOMAIN layers /\ Nodes(l) = DOMAIN layers[l]
      BY <1>1, <3>1, LayersAreLayers DEF Nodes
    <3> QED BY <3>2 DEF IndexInv
  <2>2. old \in Seq(Nodes(l)) /\ IsInjective(old)
    BY <2>1 DEF LinksOk
  <2>3. T \in SUBSET (1..Len(vs)) /\ x \in 1..Len(vs)
    BY <1>2, <1>5
  <2>4. layers'[l][x] = shrink_connections(vs, l, x, new)
    BY <1>8, <1>9
  <2> HIDE DEF old
  <2>5. /\ new \in Seq(T)
        /\ \A i \in DOMAIN new : \/ i \in DOMAIN old /\ new[i] = old[i]
                                 \/ i = Len(old) + 1 /\ new[i] = id
    <3>1. old \in Seq(T) /\ id \in T
      BY <2>2, SeqOfMore
    <3> QED BY <3>1
  <2>6. IsInjective(new)
    <3>1. \A i \in DOMAIN old : old[i] # id
      BY <1>5, <2>2
    <3> HIDE DEF new, id
    <3> QED BY <2>2, <2>5, <3>1 DEF IsInjective
  <2>7. Range(new) \subseteq U
    <3> HIDE DEF new, id
    <3> QED BY <2>5 DEF Range
  <2> HIDE DEF new, T, U, vs, id
  <2>8. IsChoice(new, max_connections(l), layers'[l][x])
    BY <1>1, <1>2, <2>3, <2>4, <2>5, <2>6, ShrinkChooses
  <2>9. layers'[l][x] \in Seq(U)
    BY <2>7, <2>8, SeqOfMore DEF IsChoice
  <2> QED BY <2>8, <2>9 DEF IsChoice, U, old, id
<1>10. DOMAIN layers'[l] = Nodes(l) \cup {id}
  BY <1>4
<1> HIDE DEF vs, id
<1>11. Joined(l, id)
  BY <1>6, <1>7, <1>8, <1>9, <1>10 DEF Joined
<1> QED BY <1>11 DEF id

(***************************************************************************)
(* The invariant.                                                          *)
(***************************************************************************)

\* There is an entry point if there is a vector.
LEMMA EntryMeansVectors == IndexInv => (entry_point = None <=> vectors = <<>>)
<1> SUFFICES ASSUME IndexInv, vectors # <<>>, entry_point = None PROVE FALSE
  BY DEF IndexInv
<1>1. max_layer \in 0..max_layer /\ entry_point \in DOMAIN layers[max_layer]
  BY LimitAssumption DEF IndexInv
<1>2. DOMAIN layers[max_layer] \subseteq 1..Len(vectors)
  BY <1>1, LayersAreLayers
<1> QED BY <1>1, <1>2, LimitAssumption

LEMMA IndexInitOk == Init => IndexInv
<1> SUFFICES ASSUME Init PROVE IndexInv
  OBVIOUS
<1>1. DOMAIN layers = {}
  BY DEF Init
<1> QED BY <1>1 DEF Init, IndexInv

LEMMA FirstKeeps ==
    ASSUME IndexInv, NEW p \in Points, NEW level \in Levels, InsertFirst(p, level)
    PROVE  IndexInv'
<1>1. vectors = <<>> /\ deleted = {} /\ deleted' = {}
  BY EntryMeansVectors DEF InsertFirst, IndexInv
<1>2. /\ vectors' = <<p>> /\ vectors' # <<>> /\ vectors' \in Seq(Points) /\ DOMAIN vectors' = {1}
      /\ layers' = [l \in 0..level |-> [x \in {1} |-> <<>>]]
      /\ entry_point' = 1 /\ max_layer' = level
  BY DEF InsertFirst
<1>3. level \in 0..MAX_LEVEL /\ level \in Nat
  BY LimitAssumption DEF Levels
<1>4. \A l \in 0..level : DOMAIN layers'[l] = {1} /\ layers'[l][1] = <<>>
  BY <1>2
<1>5. ASSUME NEW l \in 0..level, NEW x \in DOMAIN layers'[l] PROVE LinksOk(l, x)'
  <2>1. layers'[l][x] = <<>> /\ x = 1
    BY <1>4
  <2>2. max_connections(l) \in Nat
    BY LimitAssumption, <1>3 DEF max_connections
  <2>3. <<>> \in Seq(DOMAIN layers'[l]) /\ IsInjective(<<>>) /\ Len(<<>>) <= max_connections(l)
    BY <2>2 DEF IsInjective
  <2> QED BY <2>1, <2>3 DEF LinksOk
<1>6. DOMAIN layers' = 0..level
  BY <1>2
<1>7. \A l \in 0..level : l > 0 => l - 1 \in 0..level
  BY <1>3
<1> QED BY <1>1, <1>2, <1>3, <1>4, <1>5, <1>6, <1>7 DEF IndexInv

\* What an insert into an index with vectors does, layer by layer.
LEMMA NextChanges ==
    ASSUME IndexInv, NEW p \in Points, NEW level \in Levels, InsertNext(p, level)
    PROVE  /\ vectors # <<>> /\ vectors \in Seq(Points) /\ vectors' = Append(vectors, p)
           /\ max_layer \in 0..MAX_LEVEL /\ level \in 0..MAX_LEVEL /\ MAX_LEVEL \in Nat
           /\ max_layer' = IF level > max_layer THEN level ELSE max_layer
           /\ DOMAIN layers' = 0..max_layer'
           /\ entry_point' = IF level > max_layer THEN Len(vectors) + 1 ELSE entry_point
           /\ deleted' = deleted
           /\ \A l \in 0..level : Joined(l, Len(vectors) + 1)
           /\ \A l \in 0..max_layer' : l > level => l \in 0..max_layer /\ layers'[l] = layers[l]
<1>1. vectors # <<>>
  BY EntryMeansVectors DEF InsertNext
<1>2. max_layer \in 0..MAX_LEVEL /\ level \in 0..MAX_LEVEL /\ MAX_LEVEL \in Nat
      /\ vectors \in Seq(Points)
  BY <1>1, LimitAssumption DEF IndexInv, Levels
<1>3. Max({level, max_layer}) = IF level > max_layer THEN level ELSE max_layer
  BY <1>2, MaxOfTwo
<1>4. \A l \in 0..level : Joined(l, Len(vectors) + 1)
  BY <1>1, InsertJoins
<1>5. max_layer' = IF level > max_layer THEN level ELSE max_layer
  BY <1>3 DEF InsertNext
<1>6. DOMAIN layers' = 0..max_layer' /\ \A l \in 0..max_layer' : l > level => layers'[l] = layers[l]
  BY DEF InsertNext
<1>7. \A l \in 0..max_layer' : l > level => l \in 0..max_layer
  BY <1>2, <1>5
<1> QED BY <1>1, <1>2, <1>4, <1>5, <1>6, <1>7 DEF InsertNext

LEMMA NextKeeps ==
    ASSUME IndexInv, NEW p \in Points, NEW level \in Levels, InsertNext(p, level)
    PROVE  IndexInv'
<1> DEFINE id == Len(vectors) + 1
           height == IF level > max_layer THEN level ELSE max_layer
<1>1. /\ vectors # <<>> /\ vectors \in Seq(Points) /\ vectors' = Append(vectors, p)
      /\ max_layer \in 0..MAX_LEVEL /\ level \in 0..MAX_LEVEL /\ MAX_LEVEL \in Nat
      /\ max_layer' = height /\ DOMAIN layers' = 0..height
      /\ entry_point' = IF level > max_layer THEN id ELSE entry_point
      /\ deleted' = deleted
      /\ \A l \in 0..level : Joined(l, id)
      /\ \A l \in 0..height : l > level => l \in 0..max_layer /\ layers'[l] = layers[l]
  BY NextChanges
<1>2. /\ vectors' # <<>> /\ vectors' \in Seq(Points) /\ Len(vectors) \in Nat
      /\ DOMAIN vectors = 1..Len(vectors) /\ DOMAIN vectors' = 1..id
  BY <1>1
<1>3. height \in 0..MAX_LEVEL /\ level \in Nat /\ max_layer \in Nat /\ level <= height /\ max_layer <= height
  BY <1>1
<1> HIDE DEF height
<1>4. /\ DOMAIN layers = 0..max_layer /\ entry_point \in DOMAIN layers[max_layer]
      /\ DOMAIN layers[0] = 1..Len(vectors) /\ deleted \subseteq 1..Len(vectors)
  BY <1>1, <1>2 DEF IndexInv
<1>5. ASSUME NEW l \in 0..max_layer
      PROVE  /\ Nodes(l) = DOMAIN layers[l] /\ Nodes(l) \subseteq 1..Len(vectors)
             /\ l > 0 => Nodes(l) \subseteq Nodes(l - 1)
             /\ \A x \in Nodes(l) : LinksOk(l, x)
  <2>1. l <= max_layer /\ (l > 0 => l - 1 <= max_layer) /\ l \in DOMAIN layers
    BY <1>3, <1>4
  <2> QED BY <1>2, <2>1 DEF Nodes, IndexInv
<1>6. ASSUME NEW l \in 0..height
      PROVE  /\ DOMAIN layers'[l] = Nodes(l) \cup (IF l <= level THEN {id} ELSE {})
             /\ Nodes(l) \subseteq 1..Len(vectors)
             /\ l > 0 => Nodes(l) \subseteq Nodes(l - 1)
  <2>1. Nodes(l) \subseteq 1..Len(vectors) /\ (l > 0 => Nodes(l) \subseteq Nodes(l - 1))
    <3>1. CASE l <= max_layer
      <4>1. l \in 0..max_layer
        BY <1>3, <3>1
      <4> QED BY <1>5, <4>1
    <3>2. CASE ~(l <= max_layer)
      BY <3>2 DEF Nodes
    <3> QED BY <3>1, <3>2
  <2>2. CASE l <= level
    <3>1. l \in 0..level
      BY <1>3, <2>2
    <3> QED BY <1>1, <2>1, <2>2, <3>1 DEF Joined
  <2>3. CASE ~(l <= level)
    <3>1. l \in 0..max_layer /\ layers'[l] = layers[l]
      BY <1>1, <1>3, <2>3
    <3> QED BY <1>5, <2>1, <2>3, <3>1
  <2> QED BY <2>2, <2>3
<1>7. ASSUME NEW l \in 0..height, NEW x \in DOMAIN layers'[l] PROVE LinksOk(l, x)'
  <2>0. /\ max_connections(l) \in Nat /\ M <= max_connections(l) /\ M \in Nat
    BY LimitAssumption DEF max_connections
  <2>1. CASE l <= level
    <3>1. Joined(l, id)
      <4>1. l \in 0..level
        BY <1>3, <2>1
      <4> QED BY <1>1, <4>1
    <3> DEFINE D == DOMAIN layers'[l]
    <3>2. D = Nodes(l) \cup {id}
      BY <3>1 DEF Joined
    <3>3. CASE x = id
      <4>1. layers'[l][x] \in Seq(Nodes(l)) /\ IsInjective(layers'[l][x]) /\ Len(layers'[l][x]) <= M
        BY <3>1, <3>3 DEF Joined
      <4> HIDE DEF D
      <4>2. layers'[l][x] \in Seq(D)
        BY <3>2, <4>1, SeqOfMore
      <4>3. Len(layers'[l][x]) \in Nat
        BY <4>1
      <4>4. Len(layers'[l][x]) <= max_connections(l)
        BY <2>0, <4>1, <4>3
      <4> QED BY <4>1, <4>2, <4>4 DEF LinksOk, D
    <3>4. CASE x # id
      <4>1. x \in Nodes(l)
        BY <3>2, <3>4
      <4>2. LinksOk(l, x) /\ Nodes(l) = DOMAIN layers[l]
        <5>1. l \in 0..max_layer
          BY <1>3, <4>1 DEF Nodes
        <5> QED BY <1>5, <4>1, <5>1
      <4>3. layers[l][x] \in Seq(Nodes(l)) /\ IsInjective(layers[l][x])
            /\ Len(layers[l][x]) <= max_connections(l)
        BY <4>2 DEF LinksOk
      <4> HIDE DEF D
      <4>4. CASE x \in Range(layers'[l][id])
        <5> DEFINE U == Range(layers[l][x]) \cup {id}
        <5>1. layers'[l][x] \in Seq(U) /\ IsInjective(layers'[l][x])
              /\ Len(layers'[l][x]) <= max_connections(l)
          BY <3>1, <4>1, <4>4 DEF Joined
        <5>2. U \subseteq D
          BY <3>2, <4>3 DEF Range
        <5> HIDE DEF U
        <5>3. layers'[l][x] \in Seq(D)
          BY <5>1, <5>2, SeqOfMore
        <5> QED BY <5>1, <5>3 DEF LinksOk, D
      <4>5. CASE x \notin Range(layers'[l][id])
        <5>1. layers'[l][x] = layers[l][x]
          BY <3>1, <4>1, <4>5 DEF Joined
        <5>2. layers'[l][x] \in Seq(D)
          BY <3>2, <4>3, <5>1, SeqOfMore
        <5> QED BY <4>3, <5>1, <5>2 DEF LinksOk, D
      <4> QED BY <4>4, <4>5
    <3> QED BY <3>3, <3>4
  <2>2. CASE ~(l <= level)
    <3>1. l \in 0..max_layer /\ layers'[l] = layers[l]
      BY <1>1, <1>3, <2>2
    <3>2. LinksOk(l, x)
      BY <1>5, <3>1
    <3> QED BY <3>1, <3>2 DEF LinksOk
  <2> QED BY <2>1, <2>2
<1>8. DOMAIN layers'[0] = 1..id
  <2>1. 0 \in 0..height /\ 0 \in 0..max_layer /\ 0 <= level
    BY <1>3
  <2>2. DOMAIN layers'[0] = Nodes(0) \cup {id} /\ Nodes(0) = 1..Len(vectors)
    BY <1>4, <1>5, <1>6, <2>1
  <2> QED BY <1>2, <2>2
<1>9. entry_point' \in DOMAIN layers'[height]
  <2>1. height \in 0..height /\ max_layer \in 0..max_layer
    BY <1>3
  <2>2. CASE level > max_layer
    <3>1. height <= level
      BY <2>2, <1>1, <1>3 DEF height
    <3> QED BY <1>1, <1>6, <2>1, <2>2, <3>1
  <2>3. CASE ~(level > max_layer)
    <3>1. height = max_layer
      BY <2>3 DEF height
    <3> QED BY <1>1, <1>4, <1>5, <1>6, <2>1, <2>3, <3>1
  <2> QED BY <2>2, <2>3
<1>10. ASSUME NEW l \in 0..height
       PROVE  /\ DOMAIN layers'[l] \subseteq 1..id
              /\ l > 0 => DOMAIN layers'[l] \subseteq DOMAIN layers'[l - 1]
  <2>1. DOMAIN layers'[l] \subseteq 1..id
    BY <1>2, <1>6
  <2>2. ASSUME l > 0 PROVE DOMAIN layers'[l] \subseteq DOMAIN layers'[l - 1]
    <3>1. l - 1 \in 0..height /\ (l <= level => l - 1 <= level)
      BY <1>3, <2>2
    <3> QED BY <1>6, <2>2, <3>1
  <2> QED BY <2>1, <2>2
<1>11. deleted' \subseteq 1..id
  BY <1>1, <1>2, <1>4
<1> QED BY <1>1, <1>2, <1>3, <1>7, <1>8, <1>9, <1>10, <1>11 DEF IndexInv

LEMMA IndexStep == IndexInv /\ [Next]_vars => IndexInv'
<1> SUFFICES ASSUME IndexInv, [Next]_vars PROVE IndexInv'
  OBVIOUS
<1>1. ASSUME NEW p \in Points, Insert(p) PROVE IndexInv'
  BY <1>1, FirstKeeps, NextKeeps DEF Insert
<1>2. ASSUME NEW id \in DOMAIN vectors, Hide(id) PROVE IndexInv'
  <2>1. UNCHANGED <<vectors, layers, entry_point, max_layer>> /\ deleted' \subseteq DOMAIN vectors
    BY <1>2 DEF Hide, IndexInv
  <2> QED BY <2>1 DEF IndexInv, LinksOk
<1>3. ASSUME UNCHANGED vars PROVE IndexInv'
  BY <1>3 DEF vars, IndexInv, LinksOk
<1> QED BY <1>1, <1>2, <1>3 DEF Next

\* The vectors, the layers over them and the removed ids keep the shape that searches and
\* the file need (HnswIndex).
THEOREM Invariance == Spec => []IndexInv
<1>1. Init => IndexInv
  BY IndexInitOk
<1>2. IndexInv /\ [Next]_vars => IndexInv'
  BY IndexStep
<1> QED BY <1>1, <1>2, PTL DEF Spec

(***************************************************************************)
(* The file, and the graph.                                                *)
(***************************************************************************)

LEMMA RangeOfList ==
    ASSUME NEW S, NEW list \in Seq(S)
    PROVE  /\ Range(list) \subseteq S
           /\ IsFiniteSet(Range(list)) /\ Cardinality(Range(list)) \in Nat
           /\ Cardinality(Range(list)) <= Len(list)
           /\ IsInjective(list) => Cardinality(Range(list)) = Len(list)
<1> DEFINE n == Len(list)
           T == Range(list)
<1>1. n \in Nat /\ T \subseteq S /\ list \in [1..n -> T] /\ \A y \in T : \E x \in 1..n : list[x] = y
  BY DEF Range
<1>2. IsFiniteSet(1..n) /\ Cardinality(1..n) = n
  BY <1>1, FS_Interval
<1> HIDE DEF n, T
<1>3. list \in Surjection(1..n, T)
  BY <1>1 DEF Surjection
<1>4. IsFiniteSet(T) /\ Cardinality(T) <= n
  BY <1>2, <1>3, FS_Surjection
<1>5. ASSUME IsInjective(list) PROVE Cardinality(T) = n
  <2>1. list \in Injection(1..n, T)
    BY <1>1, <1>5 DEF Injection
  <2> QED BY <1>2, <1>3, <2>1, FS_Surjection
<1>6. Cardinality(T) \in Nat
  BY <1>4, FS_CardinalityType
<1> QED BY <1>1, <1>4, <1>5, <1>6 DEF n, T

\* Whatever was inserted and removed, an index with a vector can be read back after it was
\* written: its numbers of layers, nodes and links are within the limits of read_from, and
\* every id in it has a vector.
THEOREM WrittenIndexLoads == Spec => []WhatIsWrittenLoads
<1>1. ASSUME IndexInv PROVE WhatIsWrittenLoads
  <2>1. SUFFICES ASSUME vectors # <<>> PROVE Loads
    BY DEF WhatIsWrittenLoads
  <2>2. /\ vectors \in Seq(Points) /\ deleted \subseteq DOMAIN vectors
        /\ max_layer \in 0..MAX_LEVEL /\ DOMAIN layers = 0..max_layer /\ MAX_LEVEL \in Nat
        /\ entry_point \in DOMAIN layers[max_layer]
    BY <1>1, <2>1, LimitAssumption DEF IndexInv
  <2> DEFINE n == Len(vectors)
  <2>3. n \in Nat /\ DOMAIN vectors = 1..n /\ IsFiniteSet(1..n) /\ Cardinality(1..n) = n
    <3>1. n \in Nat /\ DOMAIN vectors = 1..n
      BY <2>2
    <3> HIDE DEF n
    <3>2. 1 \in Int /\ n \in Int /\ (1 > n => n = 0) /\ n - 1 + 1 = n
      BY <3>1
    <3>3. IsFiniteSet(1..n) /\ Cardinality(1..n) = n
      BY <3>1, <3>2, FS_Interval
    <3> QED BY <3>1, <3>3
  <2>4. Cardinality(DOMAIN layers) = max_layer + 1
    <3>1. 0 \in Int /\ max_layer \in Int /\ ~(0 > max_layer) /\ max_layer - 0 + 1 = max_layer + 1
      BY <2>2
    <3> QED BY <2>2, <3>1, FS_Interval
  <2> HIDE DEF n
  <2>5. ASSUME NEW l \in DOMAIN layers
        PROVE  DOMAIN layers[l] \subseteq 1..n /\ IsFiniteSet(DOMAIN layers[l])
               /\ Cardinality(DOMAIN layers[l]) \in Nat /\ Cardinality(DOMAIN layers[l]) <= n
    <3> DEFINE D == DOMAIN layers[l]
    <3>1. D \in SUBSET (1..n)
      BY <1>1, <2>3 DEF IndexInv
    <3> HIDE DEF D
    <3>2. IsFiniteSet(D) /\ Cardinality(D) <= Cardinality(1..n)
      BY <2>3, <3>1, FS_Subset
    <3> QED BY <2>3, <3>1, <3>2, FS_CardinalityType DEF D
  <2>6. ASSUME NEW l \in DOMAIN layers, NEW x \in DOMAIN layers[l]
        PROVE  Len(layers[l][x]) <= n /\ Range(layers[l][x]) \subseteq 1..n
    <3> DEFINE D == DOMAIN layers[l]
               list == layers[l][x]
    <3>1. list \in Seq(D) /\ IsInjective(list)
      BY <1>1 DEF IndexInv, LinksOk
    <3>2. IsFiniteSet(D) /\ Cardinality(D) \in Nat /\ Cardinality(D) <= n /\ D \subseteq 1..n
      BY <2>5
    <3> HIDE DEF D, list
    <3>3. Range(list) \in SUBSET D /\ Cardinality(Range(list)) = Len(list)
      BY <3>1, RangeOfList
    <3>4. Cardinality(Range(list)) <= Cardinality(D)
      BY <3>2, <3>3, FS_Subset
    <3>5. Len(list) \in Nat
      BY <3>1
    <3>6. Len(list) <= n
      BY <2>3, <3>2, <3>3, <3>4, <3>5
    <3> QED BY <3>2, <3>3, <3>6 DEF list
  <2>7. entry_point \in 1..n
    <3>1. max_layer \in DOMAIN layers
      BY <2>2
    <3> QED BY <2>2, <2>5, <3>1
  <2>8. /\ Cardinality(DOMAIN layers) > 0 /\ Cardinality(DOMAIN layers) <= MAX_LEVEL + 1
        /\ max_layer < Cardinality(DOMAIN layers)
    BY <2>2, <2>4
  <2> QED BY <2>2, <2>3, <2>5, <2>6, <2>7, <2>8 DEF Loads, n
<1> QED BY <1>1, Invariance, PTL

(***************************************************************************)
(* The graph that LayeredGraph speaks of, and how it changes.              *)
(***************************************************************************)
LEMMA LinksAre ==
    /\ DOMAIN Links = DOMAIN layers
    /\ \A l \in DOMAIN layers :
        /\ DOMAIN Links[l] = DOMAIN layers[l]
        /\ \A x \in DOMAIN layers[l] : Links[l][x] = Range(layers[l][x])
BY DEF Links

LEMMA LinksAreNext ==
    /\ DOMAIN Links' = DOMAIN layers'
    /\ \A l \in DOMAIN layers' :
        /\ DOMAIN Links'[l] = DOMAIN layers'[l]
        /\ \A x \in DOMAIN layers'[l] : Links'[l][x] = Range(layers'[l][x])
BY DEF Links

\* What LayeredGraph asks of an insert.
Grows(level) ==
    LET id == Len(vectors) + 1
        height == IF level > Top THEN level ELSE Top
        old(l) == IF l <= Top THEN DOMAIN Links[l] ELSE {}
        chosen(l) == IF l <= level THEN Links'[l][id] ELSE {}
    IN  /\ Len(vectors)' = id
        /\ Top' = height
        /\ DOMAIN Links' = 0..height
        /\ \A l \in 0..height :
            /\ DOMAIN Links'[l] = old(l) \cup (IF l <= level THEN {id} ELSE {})
            /\ chosen(l) \subseteq old(l) /\ Cardinality(chosen(l)) <= M
            /\ \A x \in old(l) :
                IF x \in chosen(l)
                    THEN /\ Links'[l][x] \subseteq Links[l][x] \cup {id}
                         /\ Cardinality(Links'[l][x]) <= max_connections(l)
                    ELSE Links'[l][x] = Links[l][x]
        /\ entry_point' = IF level > Top THEN id ELSE entry_point

LEMMA SameCardinality == \A S : Graph!Cardinality(S) = Cardinality(S)
BY DEF Graph!Cardinality, Cardinality

LEMMA GrowsIsInsert == \A level : Grows(level) => Graph!GInsert(level)
<1>1. \A l : Graph!max_connections(l) = max_connections(l)
  BY DEF Graph!max_connections, max_connections
<1> QED BY <1>1, SameCardinality DEF Grows, Graph!GInsert

LEMMA FirstGrows ==
    ASSUME IndexInv, NEW p \in Points, NEW level \in Levels, InsertFirst(p, level)
    PROVE  Grows(level)
<1>1. vectors = <<>> /\ Len(vectors) = 0
  BY EntryMeansVectors DEF InsertFirst
<1>2. /\ vectors' = <<p>> /\ vectors' # <<>> /\ Len(vectors') = 1
      /\ layers' = [l \in 0..level |-> [x \in {1} |-> <<>>]]
      /\ entry_point' = 1 /\ max_layer' = level
  BY DEF InsertFirst
<1>3. level \in Nat
  BY LimitAssumption DEF Levels
<1>4. Top = -1 /\ Top' = level
  BY <1>1, <1>2 DEF Top
<1>5. DOMAIN Links' = 0..level
  BY <1>2, LinksAreNext
<1>6. ASSUME NEW l \in 0..level PROVE DOMAIN Links'[l] = {1} /\ Links'[l][1] = {}
  <2>1. DOMAIN layers'[l] = {1} /\ layers'[l][1] = <<>> /\ l \in DOMAIN layers'
    BY <1>2
  <2>2. Range(<<>>) = {}
    BY DEF Range
  <2> QED BY <2>1, <2>2, LinksAreNext
<1>7. Cardinality({}) <= M
  BY FS_EmptySet, LimitAssumption
<1>8. \A l \in 0..level : ~(l <= -1) /\ l <= level
  BY <1>3
<1>9. level > -1
  BY <1>3
<1>10. Len(vectors)' = Len(vectors) + 1 /\ entry_point' = Len(vectors) + 1
  BY <1>1, <1>2
<1> DEFINE id == Len(vectors) + 1
           height == IF level > Top THEN level ELSE Top
           old(l) == IF l <= Top THEN DOMAIN Links[l] ELSE {}
           chosen(l) == IF l <= level THEN Links'[l][id] ELSE {}
<1>11. id = 1 /\ height = level /\ \A l \in 0..level : old(l) = {} /\ chosen(l) = {}
  BY <1>1, <1>4, <1>6, <1>8, <1>9
<1> HIDE DEF id, height, old, chosen
<1>12. \A l \in 0..height :
         /\ DOMAIN Links'[l] = old(l) \cup (IF l <= level THEN {id} ELSE {})
         /\ chosen(l) \subseteq old(l) /\ Cardinality(chosen(l)) <= M
         /\ \A x \in old(l) :
             IF x \in chosen(l)
                 THEN /\ Links'[l][x] \subseteq Links[l][x] \cup {id}
                      /\ Cardinality(Links'[l][x]) <= max_connections(l)
                 ELSE Links'[l][x] = Links[l][x]
  BY <1>6, <1>7, <1>8, <1>11
<1>13. Top' = height /\ DOMAIN Links' = 0..height /\ level > Top
  BY <1>4, <1>5, <1>9, <1>11
<1> QED BY <1>10, <1>12, <1>13 DEF Grows, id, height, old, chosen

LEMMA NextGrows ==
    ASSUME IndexInv, NEW p \in Points, NEW level \in Levels, InsertNext(p, level)
    PROVE  Grows(level)
<1> DEFINE id == Len(vectors) + 1
           height == IF level > max_layer THEN level ELSE max_layer
           old(l) == IF l <= max_layer THEN DOMAIN Links[l] ELSE {}
           chosen(l) == IF l <= level THEN Links'[l][id] ELSE {}
<1>1. /\ vectors # <<>> /\ vectors \in Seq(Points) /\ vectors' = Append(vectors, p)
      /\ max_layer \in 0..MAX_LEVEL /\ level \in 0..MAX_LEVEL /\ MAX_LEVEL \in Nat
      /\ max_layer' = height /\ DOMAIN layers' = 0..height
      /\ entry_point' = IF level > max_layer THEN id ELSE entry_point
      /\ \A l \in 0..level : Joined(l, id)
      /\ \A l \in 0..height : l > level => l \in 0..max_layer /\ layers'[l] = layers[l]
  BY NextChanges
<1>2. vectors' # <<>> /\ Len(vectors') = id /\ id \in Nat /\ Len(vectors) \in Nat
  BY <1>1
<1>3. Top = max_layer /\ Top' = height
  BY <1>1, <1>2 DEF Top
<1>4. height \in Nat /\ level \in Nat /\ max_layer \in Nat /\ level <= height /\ max_layer <= height
      /\ M \in Nat
  BY <1>1, LimitAssumption
<1> HIDE DEF height
<1>5. DOMAIN layers = 0..max_layer
  BY <1>1 DEF IndexInv
<1>6. ASSUME NEW l \in 0..height
      PROVE  /\ old(l) = Nodes(l) /\ DOMAIN Links'[l] = DOMAIN layers'[l]
             /\ \A x \in old(l) : /\ Links[l][x] = Range(layers[l][x])
                                  /\ l \in DOMAIN layers /\ x \in DOMAIN layers[l]
             /\ \A x \in DOMAIN layers'[l] : Links'[l][x] = Range(layers'[l][x])
  <2>1. l <= max_layer => l \in DOMAIN layers
    BY <1>4, <1>5
  <2>2. l \in DOMAIN layers'
    BY <1>1
  <2> QED BY <2>1, <2>2, LinksAre, LinksAreNext DEF Nodes
<1> HIDE DEF old
<1>7. ASSUME NEW l \in 0..height, l <= level
      PROVE  /\ DOMAIN Links'[l] = old(l) \cup {id}
             /\ chosen(l) \subseteq old(l) /\ Cardinality(chosen(l)) <= M
             /\ \A x \in old(l) :
                 IF x \in chosen(l)
                     THEN /\ Links'[l][x] \subseteq Links[l][x] \cup {id}
                          /\ Cardinality(Links'[l][x]) <= max_connections(l)
                     ELSE Links'[l][x] = Links[l][x]
  <2>1. Joined(l, id)
    <3>1. l \in 0..level
      BY <1>4, <1>7
    <3> QED BY <1>1, <3>1
  <2>2. DOMAIN layers'[l] = old(l) \cup {id}
    BY <1>6, <2>1 DEF Joined
  <2> HIDE DEF id
  <2>3. chosen(l) = Range(layers'[l][id])
    <3>1. chosen(l) = Links'[l][id]
      BY <1>7
    <3>2. id \in DOMAIN layers'[l]
      BY <2>2
    <3>3. Links'[l][id] = Range(layers'[l][id])
      <4>1. l \in DOMAIN layers'
        BY <1>1
      <4> QED BY <3>2, <4>1, LinksAreNext
    <3> QED BY <3>1, <3>3
  <2>4. chosen(l) \subseteq old(l) /\ Cardinality(chosen(l)) <= M
    <3> DEFINE list == layers'[l][id]
    <3>1. list \in Seq(old(l)) /\ Len(list) <= M
      BY <1>6, <2>1 DEF Joined
    <3> HIDE DEF list
    <3>2. Range(list) \subseteq old(l) /\ Cardinality(Range(list)) \in Nat
          /\ Cardinality(Range(list)) <= Len(list) /\ Len(list) \in Nat
      BY <3>1, RangeOfList
    <3>3. Cardinality(Range(list)) <= M
      BY <1>4, <3>1, <3>2
    <3> QED BY <2>3, <3>2, <3>3 DEF list
  <2>5. ASSUME NEW x \in old(l), x \in chosen(l)
        PROVE  /\ Links'[l][x] \subseteq Links[l][x] \cup {id}
               /\ Cardinality(Links'[l][x]) <= max_connections(l)
    <3> DEFINE list == layers'[l][x]
               U == Range(layers[l][x]) \cup {id}
    <3>1. list \in Seq(U) /\ Len(list) <= max_connections(l)
      BY <1>6, <2>1, <2>3, <2>5 DEF Joined
    <3> HIDE DEF list, U
    <3>2. Range(list) \subseteq U /\ Cardinality(Range(list)) \in Nat
          /\ Cardinality(Range(list)) <= Len(list) /\ Len(list) \in Nat
      BY <3>1, RangeOfList
    <3>3. max_connections(l) \in Nat
      BY LimitAssumption DEF max_connections
    <3>4. Cardinality(Range(list)) <= max_connections(l)
      BY <3>1, <3>2, <3>3
    <3>5. Links'[l][x] = Range(list) /\ Links[l][x] = Range(layers[l][x])
      BY <1>6, <2>2, <2>5 DEF list
    <3> QED BY <3>2, <3>4, <3>5 DEF U
  <2>6. ASSUME NEW x \in old(l), x \notin chosen(l) PROVE Links'[l][x] = Links[l][x]
    <3>1. layers'[l][x] = layers[l][x]
      BY <1>6, <2>1, <2>3, <2>6 DEF Joined
    <3> QED BY <1>6, <2>2, <2>6, <3>1
  <2> HIDE DEF chosen
  <2> QED BY <1>6, <2>2, <2>4, <2>5, <2>6
<1>8. ASSUME NEW l \in 0..height, ~(l <= level)
      PROVE  /\ DOMAIN Links'[l] = old(l) /\ chosen(l) = {}
             /\ \A x \in old(l) : Links'[l][x] = Links[l][x]
  <2>1. l \in 0..max_layer /\ layers'[l] = layers[l]
    BY <1>1, <1>4, <1>8
  <2>2. l \in DOMAIN layers /\ Nodes(l) = DOMAIN layers[l]
    BY <1>4, <1>5, <2>1 DEF Nodes
  <2>3. DOMAIN Links'[l] = old(l) /\ \A x \in old(l) : Links'[l][x] = Links[l][x]
    BY <1>6, <2>1, <2>2
  <2> QED BY <1>8, <2>3
<1>9. Cardinality({}) <= M
  BY FS_EmptySet, <1>4
<1>10. DOMAIN Links' = 0..height
  BY <1>1, LinksAreNext
<1>11. \A l \in 0..height :
         /\ DOMAIN Links'[l] = old(l) \cup (IF l <= level THEN {id} ELSE {})
         /\ chosen(l) \subseteq old(l) /\ Cardinality(chosen(l)) <= M
         /\ \A x \in old(l) :
             IF x \in chosen(l)
                 THEN /\ Links'[l][x] \subseteq Links[l][x] \cup {id}
                      /\ Cardinality(Links'[l][x]) <= max_connections(l)
                 ELSE Links'[l][x] = Links[l][x]
  <2> SUFFICES ASSUME NEW l \in 0..height
               PROVE  /\ DOMAIN Links'[l] = old(l) \cup (IF l <= level THEN {id} ELSE {})
                      /\ chosen(l) \subseteq old(l) /\ Cardinality(chosen(l)) <= M
                      /\ \A x \in old(l) :
                          IF x \in chosen(l)
                              THEN /\ Links'[l][x] \subseteq Links[l][x] \cup {id}
                                   /\ Cardinality(Links'[l][x]) <= max_connections(l)
                              ELSE Links'[l][x] = Links[l][x]
    OBVIOUS
  <2> HIDE DEF chosen, id
  <2>1. CASE l <= level
    BY <1>7, <2>1
  <2>2. CASE ~(l <= level)
    BY <1>8, <1>9, <2>2
  <2> QED BY <2>1, <2>2
<1> QED BY <1>1, <1>2, <1>3, <1>10, <1>11 DEF Grows, old, height

\* The index changes its graph as LayeredGraph says: an insert links the new node on each of
\* its layers to at most M nodes that were there, gives each of them a link back within its
\* limit, and touches no other; a removal changes nothing in the graph (HnswIndex::insert,
\* shrink_connections, remove).
THEOREM ImplementsGraph == Spec => ImplementsLayeredGraph
<1>1. Init => Graph!GInit
  <2>1. SUFFICES ASSUME Init PROVE Graph!GInit
    OBVIOUS
  <2>2. vectors = <<>> /\ Len(vectors) = 0 /\ layers = [l \in {} |-> {}] /\ entry_point = None
    BY <2>1 DEF Init
  <2>3. DOMAIN layers = 0..-1
    BY <2>2
  <2>4. Links = [l \in 0..-1 |-> {}]
    BY <2>3 DEF Links
  <2>5. Top = -1
    BY <2>2 DEF Top
  <2> QED BY <2>2, <2>4, <2>5 DEF Graph!GInit
<1>2. ASSUME IndexInv, [Next]_vars PROVE [Graph!GNext]_(Graph!gvars)
  <2>1. ASSUME NEW p \in Points, NEW level \in Levels, InsertFirst(p, level) \/ InsertNext(p, level)
        PROVE  Graph!GNext
    <3>1. Graph!GInsert(level)
      BY <1>2, <2>1, FirstGrows, NextGrows, GrowsIsInsert
    <3> QED BY <3>1 DEF Graph!GNext, Levels
  <2>2. ASSUME UNCHANGED <<vectors, layers, entry_point, max_layer>> PROVE UNCHANGED Graph!gvars
    <3>1. Top' = Top /\ Links' = Links /\ Len(vectors)' = Len(vectors) /\ entry_point' = entry_point
      BY <2>2 DEF Top, Links
    <3> QED BY <3>1 DEF Graph!gvars
  <2> QED BY <1>2, <2>1, <2>2 DEF Next, Insert, Hide, vars
<1> QED BY <1>1, <1>2, Invariance, PTL DEF Spec, Graph!GSpec, ImplementsLayeredGraph
(***************************************************************************)
(* What a search returns.                                                  *)
(***************************************************************************)

\* Whatever the width of a search of the lowest layer, it enters it at the same node.
LEMMA OneStart ==
    ASSUME IndexInv, vectors # <<>>, NEW q \in Points, NEW ef \in Nat
    PROVE  EntryTo(Found(q, 0, ef), 0) = Start(q) /\ Start(q) \in DOMAIN layers[0]
<1> DEFINE N == max_layer
           f == Found(q, 0, ef)
           g == Found(q, 0, 1)
           S == {k \in 0..N : EntryTo(f, N - k) = EntryTo(g, N - k)}
<1>1. N \in Nat /\ 0 \in 0..N
  BY LimitAssumption DEF IndexInv
<1>2. ASSUME NEW l \in 1..N
      PROVE  /\ f[l] = search_layer(layers[l], q, EntryTo(f, l), 1)
             /\ g[l] = search_layer(layers[l], q, EntryTo(g, l), 1)
  <2>1. l \in 0..N /\ WidthAt(0, ef, l) = 1 /\ WidthAt(0, 1, l) = 1
    BY <1>1 DEF WidthAt
  <2>2. f[l] = search_layer(layers[l], q, EntryTo(f, l), WidthAt(0, ef, l))
    BY <2>1, FoundFollows
  <2>3. g[l] = search_layer(layers[l], q, EntryTo(g, l), WidthAt(0, 1, l))
    BY <2>1, FoundFollows
  <2> HIDE DEF f, g
  <2> QED BY <2>1, <2>2, <2>3
<1>3. EntryTo(g, 0) \in DOMAIN layers[0]
  BY <1>1, FoundFollows
<1> HIDE DEF f, g
<1>4. 0 \in S
  <2>1. N - 0 = N
    BY <1>1
  <2> QED BY <1>1, <2>1 DEF EntryTo
<1>5. ASSUME NEW k \in 1..N, k - 1 \in S PROVE k \in S
  <2> DEFINE l == N - (k - 1)
  <2>1. l \in 1..N /\ N - k # N /\ (N - k) + 1 = l /\ k \in 0..N
    BY <1>1
  <2>2. EntryTo(f, l) = EntryTo(g, l)
    BY <1>5
  <2> HIDE DEF l
  <2>3. f[l] = g[l]
    BY <1>2, <2>1, <2>2
  <2>4. EntryTo(f, N - k) = f[l][1] /\ EntryTo(g, N - k) = g[l][1]
    BY <2>1 DEF EntryTo
  <2> QED BY <2>1, <2>3, <2>4
<1> HIDE DEF S
<1>6. EntryTo(f, 0) = EntryTo(g, 0)
  <2>1. 0..N \subseteq S
    BY <1>1, <1>4, <1>5, Induction
  <2>2. N \in S /\ N - N = 0
    BY <1>1, <2>1
  <2> QED BY <2>2 DEF S
<1>7. Start(q) = EntryTo(g, 0)
  <2>1. 0 + 1 = 1
    OBVIOUS
  <2> QED BY <2>1 DEF Start, EntryTo, g
<1> QED BY <1>3, <1>6, <1>7 DEF f

\* A set is closed if links lead no further.
LEMMA FurtherAreNodes ==
    ASSUME NEW graph, graph = layers[0], IsLayer(graph), NEW X \in SUBSET DOMAIN graph
    PROVE  Further(X) \in SUBSET DOMAIN graph /\ (IsClosed(graph, X) => Further(X) = X)
           /\ (Further(X) = X => IsClosed(graph, X))
<1>1. \A x \in DOMAIN graph : Range(graph[x]) \subseteq DOMAIN graph
  BY DEF IsLayer, Range
<1> QED BY <1>1 DEF Further, IsClosed, Linked

LEMMA WithinFollows ==
    ASSUME vectors \in Seq(Points), IsLayer(layers[0]), NEW start \in DOMAIN layers[0]
    PROVE  /\ Within(start)[0] = {start}
           /\ \A k \in 1..Len(vectors) : Within(start)[k] = Further(Within(start)[k - 1])
<1> DEFINE N == Len(vectors)
           a == {start}
           V == SUBSET DOMAIN layers[0]
           next(X) == Further(X)
           G == [k \in 1..N |-> [X \in V |-> next(X)]]
           f == Within(start)
           Is(g) == g = [k \in 0..N |-> IF k = 0 THEN a ELSE next(g[k - 1])]
<1>1. N \in Nat /\ a \in V
  OBVIOUS
<1>2. ASSUME NEW X \in V PROVE next(X) \in V
  BY FurtherAreNodes
<1>3. f = CHOOSE g : Is(g)
  BY DEF Within
<1> HIDE DEF next
<1>4. G \in [1..N -> [V -> V]] /\ \A k \in 1..N, X \in V : G[k][X] = next(X)
  BY <1>2
<1> HIDE DEF N, V, G, f, a
<1>5. PICK h : h \in [0..N -> V] /\ h[0] = a /\ \A k \in 1..N : h[k] = G[k][h[k - 1]]
  <2>1. \E h : Follows(N, V, a, G, h)
    BY <1>1, <1>4, Recursion
  <2> QED BY <2>1 DEF Follows
<1>6. Is(h)
  <2> DEFINE e(k) == IF k = 0 THEN a ELSE next(h[k - 1])
  <2>1. \A k \in 0..N : h[k] = e(k)
    <3>1. \A k \in 0..N : k = 0 \/ k \in 1..N
      BY <1>1
    <3>2. \A k \in 1..N : k - 1 \in 0..N
      BY <1>1
    <3>3. \A k \in 1..N : h[k - 1] \in V
      BY <1>5, <3>2
    <3>4. \A k \in 1..N : h[k] = next(h[k - 1]) /\ k # 0
      BY <1>1, <1>4, <1>5, <3>3
    <3> QED BY <1>5, <3>1, <3>4
  <2> HIDE DEF e
  <2>2. h = [k \in 0..N |-> e(k)]
    BY <1>5, <2>1
  <2> QED BY <2>2 DEF e
<1>7. Is(f)
  <2> HIDE DEF Is
  <2> QED BY <1>3, <1>6
<1>8. f[0] = a
  BY <1>1, <1>7
<1>9. ASSUME NEW k \in 1..N PROVE f[k] = next(f[k - 1])
  <2>1. k \in 0..N /\ k # 0
    BY <1>1
  <2> QED BY <1>7, <2>1
<1> QED BY <1>8, <1>9 DEF f, N, a, next

\* What is within as many steps as there are vectors is all that links lead to.
LEMMA ReachedIsAll ==
    ASSUME NEW graph, graph = layers[0], IsLayer(graph), NEW start \in DOMAIN graph
    PROVE  LET C == Within(start)[Len(vectors)]
           IN  /\ C \in SUBSET DOMAIN graph /\ start \in C /\ IsClosed(graph, C)
               /\ Leads(graph, start, C)
<1> DEFINE N == Len(vectors)
           D == DOMAIN graph
           f == Within(start)
           Ok(k) == /\ f[k] \in SUBSET D /\ start \in f[k]
                    /\ Leads(graph, start, f[k])
                    /\ IsClosed(graph, f[k]) \/ k < Cardinality(f[k])
           S == {k \in 0..N : Ok(k)}
<1>1. N \in Nat /\ D \in SUBSET (1..N)
  BY DEF IsLayer
<1>2. f[0] = {start} /\ \A k \in 1..N : f[k] = Further(f[k - 1])
  BY WithinFollows DEF IsLayer
<1> HIDE DEF f
<1>3. \A X \in SUBSET D : Cardinality(X) \in Nat /\ IsFiniteSet(X)
  BY LayersAreFinite
<1>4. 0 \in S
  <2>1. Cardinality({start}) = 1
    BY FS_Singleton
  <2>2. Leads(graph, start, {start})
    BY DEF Leads
  <2>3. Ok(0)
    BY <1>2, <2>1, <2>2
  <2> QED BY <1>1, <2>3
<1>5. ASSUME NEW k \in 1..N, k - 1 \in S PROVE k \in S
  <2> DEFINE X == f[k - 1]
             Y == f[k]
  <2>1. k \in 0..N /\ k - 1 \in Nat /\ k \in Nat
    BY <1>1
  <2>2. /\ X \in SUBSET D /\ start \in X /\ Leads(graph, start, X)
        /\ IsClosed(graph, X) \/ k - 1 < Cardinality(X)
    BY <1>5
  <2>3. Y = Further(X)
    BY <1>2
  <2> HIDE DEF X, Y
  <2>4. Y \in SUBSET D /\ X \subseteq Y /\ start \in Y
    BY <2>2, <2>3, FurtherAreNodes DEF Further
  <2>5. Leads(graph, start, Y)
    <3>1. SUFFICES ASSUME NEW C \in SUBSET D, start \in C, IsClosed(graph, C) PROVE Y \subseteq C
      BY DEF Leads
    <3>2. X \subseteq C
      BY <2>2, <3>1 DEF Leads
    <3> QED BY <2>3, <3>1, <3>2 DEF Further, IsClosed, Linked
  <2>6. IsClosed(graph, Y) \/ k < Cardinality(Y)
    <3>1. CASE IsClosed(graph, X)
      <4>1. Y = X
        BY <2>2, <2>3, <3>1, FurtherAreNodes
      <4> QED BY <3>1, <4>1
    <3>2. CASE ~IsClosed(graph, X)
      <4>1. X # Y
        BY <2>2, <2>3, <3>2, FurtherAreNodes
      <4>2. X \in SUBSET Y /\ IsFiniteSet(Y)
        BY <1>3, <2>4
      <4>3. Cardinality(X) <= Cardinality(Y) /\ Cardinality(X) # Cardinality(Y)
        BY <4>1, <4>2, FS_Subset
      <4> QED BY <1>3, <2>1, <2>2, <2>4, <3>2, <4>3
    <3> QED BY <3>1, <3>2
  <2>7. Ok(k)
    BY <2>4, <2>5, <2>6 DEF Y
  <2> QED BY <2>1, <2>7
<1> HIDE DEF S
<1>6. Ok(N)
  <2>1. 0..N \subseteq S
    BY <1>1, <1>4, <1>5, Induction
  <2>2. N \in S
    BY <1>1, <2>1
  <2> QED BY <2>2 DEF S
<1>7. ~(N < Cardinality(f[N]))
  <2> DEFINE X == f[N]
  <2>1. X \in SUBSET (1..N) /\ Cardinality(X) \in Nat
    BY <1>1, <1>3, <1>6
  <2> HIDE DEF N, X
  <2>2. 1 \in Int /\ N \in Int /\ (1 > N => N = 0) /\ N - 1 + 1 = N
    BY <1>1
  <2>3. IsFiniteSet(1..N) /\ Cardinality(1..N) = N
    BY <2>2, FS_Interval
  <2>4. Cardinality(X) <= N
    BY <2>1, <2>3, FS_Subset
  <2>5. ~(N < Cardinality(X))
    BY <1>1, <2>1, <2>4
  <2> QED BY <2>5 DEF X
<1> QED BY <1>6, <1>7 DEF f, N

\* The visible ones of a list of candidates, the nearest first, are listed in that order.
LEMMA FilterFollows ==
    ASSUME NEW D, NEW candidates \in Seq(D)
    PROVE  /\ filter(candidates)[0] = <<>>
           /\ \A k \in 1..Len(candidates) :
                filter(candidates)[k] =
                    IF candidates[k] \in deleted THEN filter(candidates)[k - 1]
                    ELSE Append(filter(candidates)[k - 1], candidates[k])
<1> DEFINE N == Len(candidates)
           a == <<>>
           V == Seq(D)
           next(k, list) == IF candidates[k] \in deleted THEN list ELSE Append(list, candidates[k])
           G == [k \in 1..N |-> [list \in V |-> next(k, list)]]
           f == filter(candidates)
           Is(g) == g = [k \in 0..N |-> IF k = 0 THEN a ELSE next(k, g[k - 1])]
<1>1. N \in Nat /\ a \in V /\ \A k \in 1..N : candidates[k] \in D
  OBVIOUS
<1>2. ASSUME NEW k \in 1..N, NEW list \in V PROVE next(k, list) \in V
  BY <1>1
<1>3. f = CHOOSE g : Is(g)
  BY DEF filter
<1> HIDE DEF next
<1>4. G \in [1..N -> [V -> V]] /\ \A k \in 1..N, list \in V : G[k][list] = next(k, list)
  BY <1>2
<1> HIDE DEF N, V, G, f, a
<1>5. PICK h : h \in [0..N -> V] /\ h[0] = a /\ \A k \in 1..N : h[k] = G[k][h[k - 1]]
  <2>1. \E h : Follows(N, V, a, G, h)
    BY <1>1, <1>4, Recursion
  <2> QED BY <2>1 DEF Follows
<1>6. Is(h)
  <2> DEFINE e(k) == IF k = 0 THEN a ELSE next(k, h[k - 1])
  <2>1. \A k \in 0..N : h[k] = e(k)
    <3>1. \A k \in 0..N : k = 0 \/ k \in 1..N
      BY <1>1
    <3>2. \A k \in 1..N : k - 1 \in 0..N
      BY <1>1
    <3>3. \A k \in 1..N : h[k - 1] \in V
      BY <1>5, <3>2
    <3>4. \A k \in 1..N : h[k] = next(k, h[k - 1]) /\ k # 0
      BY <1>1, <1>4, <1>5, <3>3
    <3> QED BY <1>5, <3>1, <3>4
  <2> HIDE DEF e
  <2>2. h = [k \in 0..N |-> e(k)]
    BY <1>5, <2>1
  <2> QED BY <2>2 DEF e
<1>7. Is(f)
  <2> HIDE DEF Is
  <2> QED BY <1>3, <1>6
<1>8. f[0] = a
  BY <1>1, <1>7
<1>9. ASSUME NEW k \in 1..N PROVE f[k] = next(k, f[k - 1])
  <2>1. k \in 0..N /\ k # 0
    BY <1>1
  <2> QED BY <1>7, <2>1
<1> QED BY <1>8, <1>9 DEF f, N, a, next

\* What is listed of the first k of a list.
Visible(q, list, k, s) ==
    /\ s \in Seq(Nat)
    /\ \A j \in 1..Len(s) : \E i \in 1..k : s[j] = list[i] /\ list[i] \notin deleted
    /\ \A i \in 1..k : list[i] \notin deleted => \E j \in 1..Len(s) : s[j] = list[i]
    /\ \A i, j \in 1..Len(s) : i < j => nearer(vectors, q, s[i], s[j])

LEMMA OneMoreVisible ==
    ASSUME NEW q, NEW n \in Nat, NEW list \in [1..n -> Nat],
           \A i, j \in 1..n : i < j => nearer(vectors, q, list[i], list[j]),
           NEW k \in 1..n, NEW s, Visible(q, list, k - 1, s)
    PROVE  Visible(q, list, k, IF list[k] \in deleted THEN s ELSE Append(s, list[k]))
<1>1. \A i \in 1..k : i \in 1..k - 1 \/ i = k
  OBVIOUS
<1>2. \A i \in 1..k - 1 : i \in 1..k /\ i \in 1..n /\ i < k
  OBVIOUS
<1>3. CASE list[k] \in deleted
  <2>1. /\ s \in Seq(Nat)
        /\ \A i, j \in 1..Len(s) : i < j => nearer(vectors, q, s[i], s[j])
    BY DEF Visible
  <2>2. \A j \in 1..Len(s) : \E i \in 1..k : s[j] = list[i] /\ list[i] \notin deleted
    BY <1>2 DEF Visible
  <2>3. \A i \in 1..k : list[i] \notin deleted => \E j \in 1..Len(s) : s[j] = list[i]
    BY <1>1, <1>3 DEF Visible
  <2>4. Visible(q, list, k, s)
    BY <2>1, <2>2, <2>3 DEF Visible
  <2> QED BY <1>3, <2>4
<1>4. CASE list[k] \notin deleted
  <2> DEFINE t == Append(s, list[k])
             m == Len(s)
             y == list[k]
  <2>1. s \in Seq(Nat) /\ y \in Nat
    BY DEF Visible
  <2>2. /\ t \in Seq(Nat) /\ m \in Nat /\ Len(t) = m + 1 /\ t[m + 1] = y
        /\ \A j \in 1..m : t[j] = s[j]
    BY <2>1
  <2>3. /\ \A j \in 1..m : \E i \in 1..k - 1 : s[j] = list[i] /\ list[i] \notin deleted
        /\ \A i \in 1..k - 1 : list[i] \notin deleted => \E j \in 1..m : s[j] = list[i]
        /\ \A i, j \in 1..m : i < j => nearer(vectors, q, s[i], s[j])
    BY DEF Visible
  <2> HIDE DEF t, m
  <2>4. \A j \in 1..m + 1 : j \in 1..m \/ j = m + 1
    BY <2>2
  <2>5. \A j \in 1..m : j \in 1..m + 1 /\ j < m + 1
    BY <2>2
  <2>6. m + 1 \in 1..m + 1 /\ k \in 1..k
    BY <2>2
  <2>7. \A j \in 1..m + 1 : \E i \in 1..k : t[j] = list[i] /\ list[i] \notin deleted
    BY <1>2, <1>4, <2>2, <2>3, <2>4, <2>6, SMTT(30)
  <2>8. \A i \in 1..k : list[i] \notin deleted => \E j \in 1..m + 1 : t[j] = list[i]
    BY <1>1, <2>2, <2>3, <2>5, <2>6
  <2>9. ASSUME NEW i \in 1..m + 1, NEW j \in 1..m + 1, i < j PROVE nearer(vectors, q, t[i], t[j])
    <3>1. i \in 1..m
      BY <2>2, <2>9
    <3>2. CASE j \in 1..m
      BY <2>2, <2>3, <2>9, <3>1, <3>2
    <3>3. CASE j = m + 1
      <4>1. PICK h \in 1..k - 1 : s[i] = list[h]
        BY <2>3, <3>1
      <4>2. nearer(vectors, q, list[h], list[k])
        BY <1>2, <4>1
      <4>3. t[i] = list[h] /\ t[j] = list[k]
        BY <2>2, <3>1, <3>3, <4>1
      <4> QED BY <4>2, <4>3
    <3> QED BY <2>4, <3>2, <3>3
  <2>10. Visible(q, list, k, t)
    BY <2>2, <2>7, <2>8, <2>9 DEF Visible
  <2> QED BY <1>4, <2>10 DEF t
<1> QED BY <1>3, <1>4

LEMMA FilterLists ==
    ASSUME NEW q \in Points, vectors \in Seq(Points), NEW R \in SUBSET (1..Len(vectors))
    PROVE  LET b == ByDistance(vectors, q, R)
           IN  filter(b)[Len(b)] = ByDistance(vectors, q, R \ deleted)
<1> DEFINE b == ByDistance(vectors, q, R)
           n == Cardinality(R)
           f == filter(b)
           live == R \ deleted
           S == {k \in 0..n : Visible(q, b, k, f[k])}
<1>1. Ids(vectors, q, R) /\ Ids(vectors, q, live)
  BY DEF Ids
<1>2. Lists(vectors, q, R, b) /\ n \in Nat /\ R \subseteq Nat /\ IsFiniteSet(R)
  BY <1>1, ByDistanceLists, IdsAreFinite
<1>3. /\ b \in [1..n -> R] /\ \A x \in R : \E k \in 1..n : b[k] = x
      /\ \A i, j \in 1..n : i < j => nearer(vectors, q, b[i], b[j])
  BY <1>2 DEF Lists
<1> HIDE DEF b, n
<1>4. b \in Seq(R) /\ Len(b) = n
  BY <1>2, <1>3
<1>5. f[0] = <<>> /\ \A k \in 1..n :
        f[k] = IF b[k] \in deleted THEN f[k - 1] ELSE Append(f[k - 1], b[k])
  BY <1>4, FilterFollows
<1> HIDE DEF f
<1>6. 0 \in S
  <2>1. Visible(q, b, 0, <<>>)
    BY DEF Visible
  <2> QED BY <1>2, <1>5, <2>1
<1>7. ASSUME NEW k \in 1..n, k - 1 \in S PROVE k \in S
  <2>1. b \in [1..n -> Nat]
    BY <1>2, <1>3
  <2>2. Visible(q, b, k, IF b[k] \in deleted THEN f[k - 1] ELSE Append(f[k - 1], b[k]))
    BY <1>2, <1>3, <1>7, <2>1, OneMoreVisible
  <2>3. k \in 0..n
    BY <1>2
  <2> QED BY <1>5, <2>2, <2>3
<1> HIDE DEF S
<1>8. Visible(q, b, n, f[n])
  <2>1. 0..n \subseteq S
    BY <1>2, <1>6, <1>7, Induction
  <2>2. n \in S
    BY <1>2, <2>1
  <2> QED BY <2>2 DEF S
<1> DEFINE s == f[n]
           m == Len(s)
<1>9. /\ s \in Seq(Nat)
      /\ \A j \in 1..m : \E i \in 1..n : s[j] = b[i] /\ b[i] \notin deleted
      /\ \A i \in 1..n : b[i] \notin deleted => \E j \in 1..m : s[j] = b[i]
      /\ \A i, j \in 1..m : i < j => nearer(vectors, q, s[i], s[j])
  BY <1>8 DEF Visible
<1> HIDE DEF s, live
<1>10. m \in Nat /\ s \in [1..m -> Nat]
  BY <1>9
<1> HIDE DEF m
<1>11. \A j \in 1..m : s[j] \in live
  BY <1>3, <1>9 DEF live
<1>12. s \in [1..m -> live]
  BY <1>10, <1>11
<1>13. \A x \in live : \E j \in 1..m : s[j] = x
  BY <1>3, <1>9 DEF live
<1>14. ASSUME NEW i \in 1..m, NEW j \in 1..m, s[i] = s[j] PROVE i = j
  <2>1. \A x \in live : ~nearer(vectors, q, x, x)
    BY <1>1, NearerIsOrder DEF Ids
  <2>2. ~(i < j) /\ ~(j < i)
    BY <1>9, <1>11, <1>14, <2>1
  <2> QED BY <1>10, <2>2
<1>15. Cardinality(live) = m
  <2>1. s \in Surjection(1..m, live) /\ s \in Injection(1..m, live)
    BY <1>12, <1>13, <1>14 DEF Surjection, Injection, IsInjective
  <2>2. 1 \in Int /\ m \in Int /\ (1 > m => m = 0) /\ m - 1 + 1 = m
    BY <1>10
  <2>3. IsFiniteSet(1..m) /\ Cardinality(1..m) = m
    BY <2>2, FS_Interval
  <2> QED BY <2>1, <2>3, FS_Surjection
<1>16. Lists(vectors, q, live, s)
  BY <1>9, <1>12, <1>13, <1>15 DEF Lists
<1>17. s = ByDistance(vectors, q, live)
  BY <1>1, <1>16, OneList
<1> QED BY <1>4, <1>17 DEF s, live, f, b

\* The first of a list that lists each id once.
LEMMA FirstOfList ==
    ASSUME NEW S, NEW list \in Seq(S), NEW m \in Nat, m <= Len(list),
           \A i, j \in 1..Len(list) : list[i] = list[j] => i = j
    PROVE  /\ Len(SubSeq(list, 1, m)) = m
           /\ Range(SubSeq(list, 1, m)) \subseteq Range(list)
           /\ Cardinality(Range(SubSeq(list, 1, m))) = m
<1> DEFINE first == SubSeq(list, 1, m)
<1>1. /\ first \in Seq(S) /\ Len(first) = m /\ DOMAIN first = 1..m
      /\ \A i \in 1..m : first[i] = list[i] /\ i \in 1..Len(list)
      /\ DOMAIN list = 1..Len(list)
  OBVIOUS
<1> HIDE DEF first
<1>2. IsInjective(first)
  BY <1>1 DEF IsInjective
<1>3. Range(first) \subseteq Range(list)
  BY <1>1 DEF Range
<1>4. Cardinality(Range(first)) = m
  BY <1>1, <1>2, RangeOfList
<1> QED BY <1>1, <1>3, <1>4 DEF first

\* The ids of a set, the nearest first: each once.
LEMMA ByDistanceIsList ==
    ASSUME NEW q \in Points, vectors \in Seq(Points), NEW X \in SUBSET (1..Len(vectors))
    PROVE  LET b == ByDistance(vectors, q, X)
           IN  /\ b \in Seq(Nat) /\ Len(b) = Cardinality(X) /\ Range(b) = X
               /\ \A i, j \in 1..Len(b) : b[i] = b[j] => i = j
               /\ IsFiniteSet(X) /\ Cardinality(X) \in Nat
<1> DEFINE b == ByDistance(vectors, q, X)
           n == Cardinality(X)
<1>1. Ids(vectors, q, X) /\ X \subseteq Nat
  BY DEF Ids
<1>2. Lists(vectors, q, X, b) /\ n \in Nat /\ IsFiniteSet(X)
  BY <1>1, ByDistanceLists, IdsAreFinite
<1>3. /\ b \in [1..n -> X] /\ \A x \in X : \E k \in 1..n : b[k] = x
      /\ \A i, j \in 1..n : i < j => nearer(vectors, q, b[i], b[j])
  BY <1>2 DEF Lists
<1>4. \A x \in X : ~nearer(vectors, q, x, x)
  BY <1>1, NearerIsOrder DEF Ids
<1> HIDE DEF b, n
<1>5. b \in Seq(Nat) /\ Len(b) = n /\ DOMAIN b = 1..n
  <2>1. b \in [1..n -> Nat]
    BY <1>1, <1>3
  <2> QED BY <1>2, <2>1
<1>6. ASSUME NEW i \in 1..n, NEW j \in 1..n, b[i] = b[j] PROVE i = j
  <2>1. b[i] \in X /\ ~nearer(vectors, q, b[i], b[i])
    BY <1>3, <1>4
  <2>2. ~(i < j) /\ ~(j < i)
    BY <1>3, <1>6, <2>1
  <2> QED BY <1>2, <2>2
<1>7. Range(b) = X
  BY <1>3, <1>5 DEF Range
<1> QED BY <1>2, <1>5, <1>6, <1>7 DEF b, n

\* What a walk over the lowest layer ends with is all that links lead to, or as many as it
\* has room for, and then there is no room for every vector.
LEMMA FindsEnough ==
    ASSUME NEW graph, graph = layers[0], IsLayer(graph), NEW start \in DOMAIN graph,
           NEW W \in Nat \ {0}, NEW R, Finds(graph, start, W, R)
    PROVE  LET C == Within(start)[Len(vectors)]
           IN  /\ R \subseteq C
               /\ R = C \/ (Cardinality(R) = W /\ ~(W >= Len(vectors)))
<1> DEFINE C == Within(start)[Len(vectors)]
           n == Len(vectors)
<1>1. C \in SUBSET DOMAIN graph /\ start \in C /\ IsClosed(graph, C) /\ Leads(graph, start, C)
  BY ReachedIsAll
<1> HIDE DEF C
<1>2. R \subseteq C
  BY <1>1 DEF Finds, Leads
<1>3. n \in Nat /\ DOMAIN graph \subseteq 1..n
  BY DEF IsLayer
<1>4. IsFiniteSet(C) /\ Cardinality(C) \in Nat /\ Cardinality(R) \in Nat
  BY <1>1, <1>2, LayersAreFinite
<1> HIDE DEF n
<1>5. Cardinality(C) <= n
  <2>1. C \in SUBSET (1..n)
    BY <1>1, <1>3
  <2>2. 1 \in Int /\ n \in Int /\ (1 > n => n = 0) /\ n - 1 + 1 = n
    BY <1>3
  <2>3. IsFiniteSet(1..n) /\ Cardinality(1..n) = n
    BY <2>2, FS_Interval
  <2> QED BY <2>1, <2>3, FS_Subset
<1>6. CASE Cardinality(R) < W
  <2>1. start \in R /\ IsClosed(graph, R) /\ R \in SUBSET DOMAIN graph
    BY <1>6 DEF Finds
  <2>2. C \subseteq R
    BY <1>1, <2>1 DEF Leads
  <2> QED BY <1>2, <2>2 DEF C
<1>7. CASE ~(Cardinality(R) < W)
  <2>1. Cardinality(R) = W
    BY <1>4, <1>7 DEF Finds
  <2>2. CASE R # C
    <3>1. R \in SUBSET C
      BY <1>2
    <3>2. Cardinality(R) <= Cardinality(C) /\ Cardinality(C) # Cardinality(R)
      BY <1>4, <2>2, <3>1, FS_Subset
    <3>3. ~(W >= n)
      BY <1>3, <1>4, <1>5, <2>1, <3>2
    <3> QED BY <1>2, <2>1, <3>3 DEF C, n
  <2> QED BY <1>2, <2>2 DEF C
<1> QED BY <1>6, <1>7

\* As many as k of them are left where the removed ones, and k more, were found.
LEMMA RemovedTakeNoPlaces ==
    ASSUME NEW R, IsFiniteSet(R), NEW D, IsFiniteSet(D), NEW k \in Nat,
           Cardinality(R) >= k + Cardinality(D)
    PROVE  Cardinality(R \ D) \in Nat /\ Cardinality(R \ D) >= k
<1> DEFINE L == R \ D
           E == R \cap D
<1>1. L \in SUBSET R /\ E \in SUBSET D /\ L \cup E = R /\ L \cap E = {}
  OBVIOUS
<1> HIDE DEF L, E
<1>2. IsFiniteSet(L) /\ IsFiniteSet(E) /\ Cardinality(E) <= Cardinality(D)
  BY <1>1, FS_Subset
<1>3. Cardinality(L \cup E) = Cardinality(L) + Cardinality(E) - Cardinality(L \cap E)
  BY <1>2, FS_Union
<1>4. Cardinality(L \cap E) = 0
  BY <1>1, FS_EmptySet
<1>5. /\ Cardinality(L) \in Nat /\ Cardinality(E) \in Nat /\ Cardinality(D) \in Nat
      /\ Cardinality(R) \in Nat
  BY <1>2, FS_CardinalityType
<1>6. Cardinality(R) = Cardinality(L) + Cardinality(E)
  <2>1. Cardinality(R) = Cardinality(L) + Cardinality(E) - 0
    BY <1>1, <1>3, <1>4, Zenon
  <2> QED BY <1>5, <2>1
<1>7. Cardinality(L) >= k
  BY <1>2, <1>5, <1>6
<1> QED BY <1>5, <1>7 DEF L

\* What a search returns, of what the walk over the lowest layer found and of what links
\* lead to: k of them, the removed ones left out.
LEMMA SearchReturns ==
    ASSUME IndexInv, vectors # <<>>, NEW q \in Points, NEW k \in Nat
    PROVE  \E R : /\ R \in SUBSET (1..Len(vectors)) /\ R \subseteq Reached(q)
                  /\ R = Reached(q) \/ (Cardinality(R) = Width(k) /\ ~(Width(k) >= Len(vectors)))
                  /\ search(q, k) =
                        IF k = 0 THEN <<>>
                        ELSE LET visible == ByDistance(vectors, q, R \ deleted)
                             IN  SubSeq(visible, 1, Min({k, Len(visible)}))
<1> DEFINE W == Width(k)
           graph == layers[0]
           start == Start(q)
           f == Found(q, 0, W)
<1>1. /\ 0 \in 0..max_layer /\ vectors \in Seq(Points) /\ entry_point # None
      /\ deleted \subseteq 1..Len(vectors) /\ Len(vectors) \in Nat
  <2>1. vectors \in Seq(Points) /\ entry_point # None /\ deleted \subseteq DOMAIN vectors
    BY EntryMeansVectors DEF IndexInv
  <2>2. 0 \in 0..max_layer
    BY LimitAssumption DEF IndexInv
  <2> QED BY <2>1, <2>2
<1>2. IsLayer(graph) /\ DOMAIN graph \subseteq 1..Len(vectors)
  BY <1>1, LayersAreLayers
<1>3. W \in Nat /\ (k # 0 => W # 0)
  <2>1. Cardinality(deleted) \in Nat
    <3>1. IsFiniteSet(1..Len(vectors)) /\ deleted \in SUBSET (1..Len(vectors))
      BY <1>1, FS_Interval
    <3> QED BY <3>1, FS_Subset, FS_CardinalityType
  <2>2. Max({EfSearch, k}) \in Nat /\ (k # 0 => Max({EfSearch, k}) # 0)
    BY WidthAssumption, MaxOfTwo
  <2> QED BY <2>1, <2>2 DEF Width
<1>4. start \in DOMAIN graph /\ EntryTo(f, 0) = start
  BY <1>3, OneStart
<1>5. f[0] = search_layer(graph, q, start, W)
  <2>1. f[0] = search_layer(layers[0], q, EntryTo(f, 0), WidthAt(0, W, 0))
    BY <1>1, <1>3, FoundFollows
  <2>2. WidthAt(0, W, 0) = W
    BY DEF WidthAt
  <2> HIDE DEF f, W
  <2> QED BY <1>4, <2>1, <2>2
<1> HIDE DEF f, W, start
<1>6. PICK R : /\ Finds(graph, start, IF W = 0 THEN 1 ELSE W, R)
               /\ search_layer(graph, q, start, W) = ByDistance(vectors, q, R)
  BY <1>2, <1>3, <1>4, SearchLayerFinds
<1>7. R \in SUBSET (1..Len(vectors))
  BY <1>2, <1>6 DEF Finds
<1>8. search(q, k) =
        IF k = 0 THEN <<>>
        ELSE LET visible == ByDistance(vectors, q, R \ deleted)
             IN  SubSeq(visible, 1, Min({k, Len(visible)}))
  <2> DEFINE b == ByDistance(vectors, q, R)
             visible == filter(b)[Len(b)]
  <2>1. f[0] = b
    BY <1>5, <1>6
  <2>2. visible = ByDistance(vectors, q, R \ deleted)
    BY <1>1, <1>7, FilterLists
  <2>3. search(q, k) = IF k = 0 THEN <<>> ELSE SubSeq(visible, 1, Min({k, Len(visible)}))
    BY <1>1, <2>1 DEF search, f, W
  <2> HIDE DEF visible
  <2> QED BY <2>2, <2>3
<1>9. /\ R \subseteq Reached(q)
      /\ k # 0 => R = Reached(q) \/ (Cardinality(R) = W /\ ~(W >= Len(vectors)))
  <2>1. CASE W = 0
    <3>1. Finds(graph, start, 1, R) /\ 1 \in Nat \ {0}
      BY <1>6, <2>1
    <3>2. R \subseteq Reached(q)
      BY <1>2, <1>4, <3>1, FindsEnough DEF Reached, start
    <3> QED BY <1>3, <2>1, <3>2
  <2>2. CASE W # 0
    <3>1. Finds(graph, start, W, R) /\ W \in Nat \ {0}
      BY <1>3, <1>6, <2>2
    <3> QED BY <1>2, <1>4, <3>1, FindsEnough DEF Reached, start
  <2> QED BY <2>1, <2>2
<1>10. Reached(q) \in SUBSET (1..Len(vectors))
  BY <1>2, <1>4, ReachedIsAll DEF Reached, start
<1>11. CASE k = 0
  <2> DEFINE C == Reached(q)
  <2>1. C \in SUBSET (1..Len(vectors)) /\ C \subseteq Reached(q) /\ C = Reached(q)
    BY <1>10
  <2> HIDE DEF C
  <2>2. search(q, k) = IF k = 0 THEN <<>>
                       ELSE LET visible == ByDistance(vectors, q, C \ deleted)
                            IN  SubSeq(visible, 1, Min({k, Len(visible)}))
    BY <1>8, <1>11
  <2> QED BY <2>1, <2>2
<1>12. CASE k # 0
  BY <1>7, <1>8, <1>9, <1>12 DEF W
<1> QED BY <1>11, <1>12

\* What SearchIsRight says of one search.
SearchOk(q, k) ==
    LET live == ByDistance(vectors, q, Reached(q) \ deleted)
        found == search(q, k)
        best == SubSeq(live, 1, Min({k, Len(live)}))
    IN  /\ Len(found) = Len(best)
        /\ Range(found) \subseteq Range(live)
        /\ Cardinality(Range(found)) = Len(found)
        /\ Width(k) >= Len(vectors) => found = best

LEMMA SearchesAreOk ==
    ASSUME IndexInv, vectors # <<>>, NEW q \in Points, NEW k \in Nat PROVE SearchOk(q, k)
<1>1. PICK R : /\ R \in SUBSET (1..Len(vectors)) /\ R \subseteq Reached(q)
               /\ R = Reached(q) \/ (Cardinality(R) = Width(k) /\ ~(Width(k) >= Len(vectors)))
               /\ search(q, k) =
                     IF k = 0 THEN <<>>
                     ELSE LET visible == ByDistance(vectors, q, R \ deleted)
                          IN  SubSeq(visible, 1, Min({k, Len(visible)}))
  BY SearchReturns
<1> DEFINE C == Reached(q)
           n == Len(vectors)
           live == ByDistance(vectors, q, C \ deleted)
           visible == ByDistance(vectors, q, R \ deleted)
           most == Min({k, Len(live)})
           found == search(q, k)
<1>2. C \in SUBSET (1..n) /\ vectors \in Seq(Points) /\ n \in Nat /\ deleted \subseteq 1..n
  <2>1. 0 \in 0..max_layer
    BY LimitAssumption DEF IndexInv
  <2>2. IsLayer(layers[0]) /\ DOMAIN layers[0] \subseteq 1..n
    BY <2>1, LayersAreLayers
  <2>3. Start(q) \in DOMAIN layers[0]
    BY OneStart
  <2>4. C \in SUBSET (1..n)
    BY <2>2, <2>3, ReachedIsAll DEF Reached
  <2>5. vectors \in Seq(Points) /\ deleted \subseteq DOMAIN vectors
    BY DEF IndexInv
  <2> HIDE DEF C
  <2> QED BY <2>4, <2>5
<1> HIDE DEF C, n
<1>3. (C \ deleted) \in SUBSET (1..n) /\ (R \ deleted) \in SUBSET (C \ deleted)
      /\ (R \ deleted) \in SUBSET (1..n)
  BY <1>1, <1>2 DEF C, n
<1>4. /\ live \in Seq(Nat) /\ Len(live) = Cardinality(C \ deleted) /\ Range(live) = C \ deleted
      /\ \A i, j \in 1..Len(live) : live[i] = live[j] => i = j
      /\ IsFiniteSet(C \ deleted)
  BY <1>2, <1>3, ByDistanceIsList DEF n
<1>5. /\ visible \in Seq(Nat) /\ Len(visible) = Cardinality(R \ deleted)
      /\ Range(visible) = R \ deleted
      /\ \A i, j \in 1..Len(visible) : visible[i] = visible[j] => i = j
  BY <1>2, <1>3, ByDistanceIsList DEF n
<1>6. Len(visible) <= Len(live)
  <2>1. Cardinality(R \ deleted) <= Cardinality(C \ deleted)
    BY <1>3, <1>4, FS_Subset
  <2> HIDE DEF live, visible
  <2> QED BY <1>4, <1>5, <2>1
<1>7. found = IF k = 0 THEN <<>> ELSE SubSeq(visible, 1, Min({k, Len(visible)}))
  BY <1>1
<1>8. R = C \/ (Cardinality(R) = Width(k) /\ ~(Width(k) >= n))
  BY <1>1 DEF C, n
<1> HIDE DEF live, visible, found, most
<1>9. Len(live) \in Nat /\ Len(visible) \in Nat
  BY <1>4, <1>5
<1>10. most = (IF k <= Len(live) THEN k ELSE Len(live)) /\ most \in Nat /\ most <= Len(live)
  BY <1>9, MinOfTwo DEF most
<1>11. Min({k, Len(visible)}) = most
  <2>1. Min({k, Len(visible)}) = IF k <= Len(visible) THEN k ELSE Len(visible)
    BY <1>9, MinOfTwo
  <2>2. CASE R = C
    <3>1. visible = live
      BY <2>2 DEF visible, live
    <3> QED BY <3>1 DEF most
  <2>3. CASE Cardinality(R) = Width(k)
    <3>1. /\ IsFiniteSet(1..n) /\ IsFiniteSet(R) /\ IsFiniteSet(deleted)
      <4>1. IsFiniteSet(1..n)
        BY <1>2, FS_Interval
      <4>2. R \in SUBSET (1..n) /\ deleted \in SUBSET (1..n)
        BY <1>1, <1>2 DEF n
      <4> QED BY <4>1, <4>2, FS_Subset
    <3>2. Cardinality(deleted) \in Nat
      BY <3>1, FS_CardinalityType
    <3>3. Max({EfSearch, k}) \in Nat /\ Max({EfSearch, k}) >= k
      BY WidthAssumption, MaxOfTwo
    <3>4. Cardinality(R) >= k + Cardinality(deleted)
      BY <2>3, <3>2, <3>3 DEF Width
    <3>5. Cardinality(R \ deleted) >= k
      BY <3>1, <3>4, RemovedTakeNoPlaces
    <3>6. Len(visible) >= k
      BY <1>5, <3>5
    <3> QED BY <1>6, <1>9, <1>10, <2>1, <3>6
  <2> QED BY <1>8, <2>2, <2>3
<1>12. k = 0 => most = 0
  BY <1>9, <1>10
<1>13. found = SubSeq(visible, 1, most)
  <2>1. CASE k = 0
    <3>1. SubSeq(visible, 1, 0) = <<>>
      BY <1>5
    <3> QED BY <1>7, <1>12, <2>1, <3>1
  <2>2. CASE k # 0
    BY <1>7, <1>11, <2>2
  <2> QED BY <2>1, <2>2
<1>14. most <= Len(visible)
  <2>1. most = IF k <= Len(visible) THEN k ELSE Len(visible)
    BY <1>9, <1>11, MinOfTwo
  <2> QED BY <1>9, <2>1
<1>15. Len(SubSeq(live, 1, most)) = most
  BY <1>4, <1>10, FirstOfList
<1>16. Len(found) = most /\ Range(found) \subseteq Range(visible) /\ Cardinality(Range(found)) = most
  BY <1>5, <1>10, <1>13, <1>14, FirstOfList, ZenonT(30)
<1>17. Range(found) \subseteq Range(live)
  BY <1>3, <1>4, <1>5, <1>16
<1>18. ASSUME Width(k) >= n PROVE found = SubSeq(live, 1, most)
  <2>1. R = C
    BY <1>8, <1>18
  <2>2. visible = live
    BY <2>1 DEF visible, live
  <2> QED BY <1>13, <2>2
<1> QED BY <1>15, <1>16, <1>17, <1>18 DEF SearchOk, live, most, found, C, n

\* After any inserts and removals, a search returns as many vectors that were not removed as
\* it was asked for, if links lead to so many from where it enters the lowest layer, each
\* once; and if it has room for every vector, the nearest of those that links lead to
\* (HnswIndex::search, search_layer).
THEOREM SearchesAreRight == Spec => []SearchIsRight
<1>1. ASSUME IndexInv PROVE SearchIsRight
  <2>1. \A q \in Points : \A k \in Asked : entry_point # None => SearchOk(q, k)
    BY <1>1, EntryMeansVectors, SearchesAreOk, WidthAssumption
  <2> QED BY <2>1 DEF SearchIsRight, SearchOk
<1> QED BY <1>1, Invariance, PTL

(***************************************************************************)
(* The layered graph by itself.                                            *)
(***************************************************************************)

GInv == GTypeOK /\ Sound

\* The numbers of links are natural numbers; on layer 0 there may be twice as many.
LEMMA LinkLimits == \A l \in Nat : max_connections(l) \in Nat /\ M <= max_connections(l)
BY LimitAssumption DEF max_connections

\* An index without nodes is sound.
LEMMA EmptyGraphIsSound == GInit => GInv
BY LimitAssumption DEF GInit, GInv, GTypeOK, Sound

\* Each layer gets the new node or not, and its links stay on the layer.
LEMMA InsertKeepsSound == ASSUME GInv, NEW level \in 0..MAX_LEVEL, GInsert(level) PROVE GInv'
<1> DEFINE id == size + 1
           height == IF level > top THEN level ELSE top
           old(l) == IF l <= top THEN DOMAIN links[l] ELSE {}
           chosen(l) == IF l <= level THEN links'[l][id] ELSE {}
<1>1. size \in Nat /\ top \in -1..MAX_LEVEL /\ level \in Nat /\ level <= MAX_LEVEL /\ MAX_LEVEL \in Nat
    BY LimitAssumption DEF GInv, GTypeOK
<1>2. /\ size' = id /\ top' = height /\ DOMAIN links' = 0..height
      /\ entrance' = IF level > top THEN id ELSE entrance
    BY DEF GInsert
<1>3. ASSUME NEW l \in 0..height
      PROVE  /\ DOMAIN links'[l] = old(l) \cup (IF l <= level THEN {id} ELSE {})
             /\ chosen(l) \subseteq old(l) /\ Cardinality(chosen(l)) <= M
             /\ \A x \in old(l) :
                 IF x \in chosen(l)
                     THEN /\ links'[l][x] \subseteq links[l][x] \cup {id}
                          /\ Cardinality(links'[l][x]) <= max_connections(l)
                     ELSE links'[l][x] = links[l][x]
    BY DEF GInsert
<1>4. id \in Nat /\ height \in 0..MAX_LEVEL /\ level <= height
    BY <1>1
<1>5. ASSUME NEW l \in Nat
      PROVE  /\ old(l) \subseteq 1..size /\ id \notin old(l)
             /\ l > 0 => old(l) \subseteq old(l - 1)
             /\ \A x \in old(l) : /\ links[l][x] \subseteq old(l) \ {x}
                                  /\ Cardinality(links[l][x]) <= max_connections(l)
    <2>1. CASE l <= top
        <3>1. l \in 0..top /\ old(l) = DOMAIN links[l] /\ (l > 0 => old(l - 1) = DOMAIN links[l - 1])
            BY <1>1, <2>1
        <3>2. DOMAIN links[l] \subseteq 1..size
            BY <3>1 DEF GInv, Sound
        <3> QED BY <1>1, <3>1, <3>2 DEF GInv, Sound
    <2>2. CASE ~(l <= top)
        BY <2>2
    <2> QED BY <2>1, <2>2
<1>6. old(0) = 1..size
    BY <1>1 DEF GInv, Sound
<1> HIDE DEF id, height, old, chosen
<1>7. GTypeOK'
    <2>1. entrance' \in Nat \cup {None}
        BY <1>2, <1>4 DEF GInv, GTypeOK
    <2> QED BY <1>2, <1>4, <2>1 DEF GTypeOK
<1>8. ASSUME NEW l \in 0..height
      PROVE  /\ DOMAIN links'[l] \subseteq 1..id
             /\ l > 0 => DOMAIN links'[l] \subseteq DOMAIN links'[l - 1]
             /\ \A x \in DOMAIN links'[l] :
                 /\ links'[l][x] \subseteq DOMAIN links'[l] \ {x}
                 /\ Cardinality(links'[l][x]) <= max_connections(l)
    <2>1. l \in Nat
        BY <1>4
    <2>2. DOMAIN links'[l] \subseteq 1..id
        <3>1. 1..size \subseteq 1..id /\ id \in 1..id
            BY <1>1 DEF id
        <3> QED BY <1>3, <1>5, <2>1, <3>1
    <2>3. ASSUME l > 0 PROVE DOMAIN links'[l] \subseteq DOMAIN links'[l - 1]
        <3>1. l - 1 \in 0..height /\ (l <= level => l - 1 <= level)
            BY <1>1, <1>4, <2>1, <2>3
        <3>2. old(l) \subseteq old(l - 1)
            BY <1>5, <2>1, <2>3
        <3>3. /\ DOMAIN links'[l] = old(l) \cup (IF l <= level THEN {id} ELSE {})
              /\ DOMAIN links'[l - 1] = old(l - 1) \cup (IF l - 1 <= level THEN {id} ELSE {})
            BY <1>3, <3>1
        <3> QED BY <3>1, <3>2, <3>3
    <2>4. ASSUME NEW x \in DOMAIN links'[l]
          PROVE  /\ links'[l][x] \subseteq DOMAIN links'[l] \ {x}
                 /\ Cardinality(links'[l][x]) <= max_connections(l)
        <3>1. CASE x \in old(l) /\ x \in chosen(l)
            <4>1. x # id /\ l <= level
                BY <1>5, <2>1, <3>1 DEF chosen
            <4>2. links[l][x] \subseteq old(l) \ {x}
                BY <1>5, <2>1, <3>1
            <4>3. DOMAIN links'[l] = old(l) \cup {id}
                BY <1>3, <4>1
            <4> QED BY <1>3, <3>1, <4>1, <4>2, <4>3
        <3>2. CASE x \in old(l) /\ x \notin chosen(l)
            <4>1. links'[l][x] = links[l][x] /\ old(l) \subseteq DOMAIN links'[l]
                BY <1>3, <3>2
            <4> QED BY <1>5, <2>1, <3>2, <4>1
        <3>3. CASE x \notin old(l)
            <4>1. x = id /\ l <= level
                BY <1>3, <3>3
            <4>2. links'[l][x] = chosen(l)
                BY <4>1 DEF chosen
            <4>3. chosen(l) \subseteq old(l) /\ Cardinality(chosen(l)) <= M
                BY <1>3
            <4>4. links'[l][x] \subseteq DOMAIN links'[l] \ {x}
                BY <1>3, <3>3, <4>2, <4>3
            <4>5. Cardinality(links'[l][x]) <= max_connections(l)
                <5>1. IsFiniteSet(chosen(l))
                    <6>1. IsFiniteSet(1..size)
                        BY <1>1, FS_Interval
                    <6>2. chosen(l) \in SUBSET (1..size)
                        BY <1>5, <2>1, <4>3
                    <6> QED BY <6>1, <6>2, FS_Subset
                <5>2. Cardinality(chosen(l)) \in Nat
                    BY <5>1, FS_CardinalityType
                <5> QED BY <2>1, <4>2, <4>3, <5>2, LinkLimits, LimitAssumption
            <4> QED BY <4>4, <4>5
        <3> QED BY <3>1, <3>2, <3>3
    <2> QED BY <2>2, <2>3, <2>4
<1>9. entrance' \in DOMAIN links'[top'] /\ DOMAIN links'[0] = 1..size' /\ top' >= 0 /\ size' # 0
    <2>1. size' # 0 /\ top' >= 0
        BY <1>1, <1>2, <1>4 DEF id
    <2>2. DOMAIN links'[0] = 1..size'
        <3>1. DOMAIN links'[0] = old(0) \cup {id}
            BY <1>1, <1>3, <1>4
        <3>2. 1..id = 1..size \cup {id}
            BY <1>1 DEF id
        <3> QED BY <1>2, <1>6, <3>1, <3>2
    <2>3. CASE level > top
        <3>1. height = level /\ level \in 0..height
            BY <1>1, <2>3 DEF height
        <3>2. id \in DOMAIN links'[level]
            BY <1>1, <1>3, <3>1
        <3> QED BY <1>2, <2>1, <2>2, <2>3, <3>1, <3>2
    <2>4. CASE ~(level > top)
        <3>1. top >= 0 /\ height = top /\ top \in 0..height
            BY <1>1, <2>4 DEF height
        <3>2. entrance \in old(top)
            BY <1>1, <3>1 DEF GInv, GTypeOK, Sound, old
        <3> QED BY <1>2, <1>3, <2>1, <2>2, <2>4, <3>1, <3>2
    <2> QED BY <2>1, <2>2, <2>3, <2>4
<1>10. Sound'
    <2>1. ASSUME NEW l \in 0..top'
          PROVE  /\ DOMAIN links'[l] \subseteq 1..size'
                 /\ l > 0 => DOMAIN links'[l] \subseteq DOMAIN links'[l - 1]
                 /\ \A x \in DOMAIN links'[l] :
                     /\ links'[l][x] \subseteq DOMAIN links'[l] \ {x}
                     /\ Cardinality(links'[l][x]) <= max_connections(l)
        BY <1>2, <1>8
    <2> QED BY <1>9, <2>1 DEF Sound
<1> QED BY <1>7, <1>10 DEF GInv

-----------------------------------------------------------------------------
\* Type correctness and soundness are inductive together.
THEOREM InsertsAreInductive == GInv /\ [GNext]_gvars => GInv'
<1> SUFFICES ASSUME GInv, [GNext]_gvars PROVE GInv'
    OBVIOUS
<1>1. CASE GNext
    BY <1>1, InsertKeepsSound DEF GNext
<1>2. CASE UNCHANGED gvars
    BY <1>2 DEF gvars, GInv, GTypeOK, Sound
<1> QED BY <1>1, <1>2

\* The graph is sound in every reachable state.
THEOREM Soundness == GSpec => []Sound
<1>1. GInv => Sound
    BY DEF GInv
<1> QED BY <1>1, EmptyGraphIsSound, InsertsAreInductive, PTL DEF GSpec
=============================================================================
