-------------------------------- MODULE Hnsw --------------------------------
(***************************************************************************)
(* HnswIndex: vectors, the layered graph over them, and the ids that were  *)
(* removed.  insert finds neighbours for the new vector on each of its     *)
(* layers with the same best-first search that answers queries, links them *)
(* both ways, and prunes a node with too many links.                       *)
(*                                                                         *)
(* Abstractions.  Ids begin at 1.  A vector is a point, known by its       *)
(* distances to the others.  The level of a node is any (it is random).    *)
(* Heaps are sets of ids, with the order of Candidate: by distance, then   *)
(* by id.  The epoch of an index is modelled in RagLite.                   *)
(***************************************************************************)
EXTENDS GraphLimits, SequencesExt

CONSTANTS
    Points,          \* vectors that are inserted or asked for
    Distance,        \* the distance between two of them
    EfConstruction,  \* candidates kept while inserting
    EfSearch,        \* candidates kept while searching
    Asked,           \* how many results searches ask for
    MaxVectors,      \* bound on the vectors inserted, for TLC
    MaxRemoved       \* bound on the ids removed, for TLC

ASSUME DistanceAssumption == Distance \in [Points -> [Points -> Int]]
ASSUME WidthAssumption == EfConstruction \in Nat /\ EfSearch \in Nat /\ Asked \subseteq Nat

VARIABLES
    vectors, layers, entry_point, max_layer, deleted   \* as in HnswIndex

vars == <<vectors, layers, entry_point, max_layer, deleted>>

\* The order of Candidate: by the distance to a point, then by id.
nearer(vs, q, x, y) ==
    \/ Distance[q][vs[x]] < Distance[q][vs[y]]
    \/ (Distance[q][vs[x]] = Distance[q][vs[y]] /\ x < y)

\* The ids of a set, the nearest to a point first.
ByDistance(vs, q, ids) ==
    [k \in 1..Cardinality(ids) |->
        CHOOSE x \in ids : Cardinality({y \in ids : nearer(vs, q, y, x)}) = k - 1]

closest(q, ids) == CHOOSE x \in ids : \A y \in ids : ~nearer(vectors, q, y, x)
farthest(q, ids) == CHOOSE x \in ids : \A y \in ids : ~nearer(vectors, q, x, y)
farther(q, x, y) == Distance[q][vectors[x]] > Distance[q][vectors[y]]

(***************************************************************************)
(* search_layer: the ids that a best-first walk over one layer ends with,  *)
(* the nearest first.  The walk has visited some nodes, has some of them   *)
(* to visit yet, and keeps the results so far, ef of them at most.         *)
(***************************************************************************)
\* A link leads to node x.
visit(q, ef, s, x) ==
    LET with == s.results \cup {x}
    IN  IF x \in s.visited THEN s
        ELSE IF Cardinality(s.results) < ef \/ farther(q, farthest(q, s.results), x)
        THEN [visited |-> s.visited \cup {x},
              to_visit |-> s.to_visit \cup {x},
              results |-> IF Cardinality(with) > ef THEN with \ {farthest(q, with)} ELSE with]
        ELSE [s EXCEPT !.visited = @ \cup {x}]

\* The links of one node, one after the other.
visit_all(q, ef, s, neighbors) ==
    LET after[k \in 0..Len(neighbors)] ==
            IF k = 0 THEN s ELSE visit(q, ef, after[k - 1], neighbors[k])
    IN  after

\* One turn of the loop: the nearest node to visit.
step(graph, q, ef, s) ==
    LET c == closest(q, s.to_visit)
    IN  IF s.to_visit = {} THEN s
        ELSE IF Cardinality(s.results) >= ef /\ farther(q, c, farthest(q, s.results))
        THEN [s EXCEPT !.to_visit = {}]
        ELSE visit_all(q, ef, [s EXCEPT !.to_visit = @ \ {c}], graph[c])[Len(graph[c])]

\* A node is visited once, so as many turns as there are nodes are enough.
walk(graph, q, entry, ef) ==
    LET after[k \in 0..Cardinality(DOMAIN graph)] ==
            IF k = 0 THEN [visited |-> {entry}, to_visit |-> {entry}, results |-> {entry}]
            ELSE step(graph, q, ef, after[k - 1])
    IN  after

search_layer(graph, q, entry, width) ==
    LET end == walk(graph, q, entry, Max({width, 1}))[Cardinality(DOMAIN graph)]
    IN  ByDistance(vectors, q, end.results)

\* What a walk down the layers finds on each: one node above the level, and ef of
\* them from there on.  Each layer begins where the one above found the nearest.
Found(q, level, ef) ==
    LET found[l \in 0..max_layer] ==
            search_layer(layers[l], q, IF l = max_layer THEN entry_point ELSE found[l + 1][1],
                         IF l > level THEN 1 ELSE ef)
    IN  found

\* One candidate more: it is selected if it is nearer to the base than to any that is.
consider(vs, base, max_count, s, c) ==
    IF Len(s.selected) >= max_count THEN s
    ELSE IF \A k \in DOMAIN s.selected :
                Distance[vs[c]][vs[s.selected[k]]] > Distance[base][vs[c]]
        THEN [s EXCEPT !.selected = Append(@, c)]
        ELSE [s EXCEPT !.rejected = Append(@, c)]

consider_all(vs, base, max_count, candidates) ==
    LET after[k \in 0..Len(candidates)] ==
            IF k = 0 THEN [selected |-> <<>>, rejected |-> <<>>]
            ELSE consider(vs, base, max_count, after[k - 1], candidates[k])
    IN  after

\* select_neighbors: the selected, and then the rejected, up to max_count.
select_neighbors(vs, base, candidates, max_count) ==
    LET s == consider_all(vs, base, max_count, candidates)[Len(candidates)]
        free == max_count - Len(s.selected)
    IN  s.selected \o SubSeq(s.rejected, 1, Min({free, Len(s.rejected)}))

\* Mutant: a list is pruned when it is one too long already.
shrink_late(vs, l, x, neighbors) ==
    IF Len(neighbors) <= max_connections(l) + 1 THEN neighbors
    ELSE select_neighbors(vs, vs[x], ByDistance(vs, vs[x], Range(neighbors)), max_connections(l))

\* shrink_connections, of a node that has got a link.
shrink_connections(vs, l, x, neighbors) ==
    IF Len(neighbors) <= max_connections(l) THEN neighbors
    ELSE select_neighbors(vs, vs[x], ByDistance(vs, vs[x], Range(neighbors)), max_connections(l))
-----------------------------------------------------------------------------
Init ==
    /\ vectors = <<>> /\ layers = [l \in {} |-> {}]
    /\ entry_point = None /\ max_layer = 0 /\ deleted = {}

\* The first vector is the entry point.
InsertFirst(p, level) ==
    /\ entry_point = None
    /\ vectors' = <<p>>
    /\ layers' = [l \in 0..level |-> [x \in {1} |-> <<>>]]
    /\ entry_point' = 1 /\ max_layer' = level
    /\ UNCHANGED deleted

\* insert: the lists of neighbours are found for all layers before any changes.
InsertNext(p, level) ==
    LET id == Len(vectors) + 1
        vs == Append(vectors, p)
        found == Found(p, level, EfConstruction)
        selected == [l \in 0..level |->
            IF l <= max_layer THEN select_neighbors(vs, p, found[l], M) ELSE <<>>]
        nodes(l) == IF l <= max_layer THEN DOMAIN layers[l] ELSE {}
    IN  /\ entry_point # None /\ Len(vectors) < MaxVectors
        /\ vectors' = vs
        /\ layers' = [l \in 0..Max({level, max_layer}) |->
              IF l > level THEN layers[l]
              ELSE [x \in nodes(l) \cup {id} |->
                      IF x = id THEN selected[l]
                      ELSE IF x \in Range(selected[l])
                        THEN shrink_connections(vs, l, x, Append(layers[l][x], id))
                        ELSE layers[l][x]]]
        /\ entry_point' = IF level > max_layer THEN id ELSE entry_point
        /\ max_layer' = Max({level, max_layer})
        /\ UNCHANGED deleted

\* Mutant: a level that is one too high.
LevelsPast == 0..(MAX_LEVEL + 1)

\* random_level gives no higher level.
Levels == 0..MAX_LEVEL

Insert(p) == \E level \in Levels : InsertFirst(p, level) \/ InsertNext(p, level)

Hide(id) ==
    /\ id \in DOMAIN vectors \ deleted /\ Cardinality(deleted) < MaxRemoved
    /\ deleted' = deleted \cup {id}
    /\ UNCHANGED <<vectors, layers, entry_point, max_layer>>

Next == (\E p \in Points : Insert(p)) \/ (\E id \in DOMAIN vectors : Hide(id))

Spec == Init /\ [][Next]_vars
-----------------------------------------------------------------------------
(***************************************************************************)
(* Queries and the file.                                                   *)
(***************************************************************************)

\* Mutant: the list of candidates is not widened by the removed ids.
WidthOfTop(k) == Max({EfSearch, k})

Width(k) == Max({EfSearch, k}) + Cardinality(deleted)

\* The candidates that were not removed, in their order.
filter(candidates) ==
    LET after[k \in 0..Len(candidates)] ==
            IF k = 0 THEN <<>>
            ELSE IF candidates[k] \in deleted THEN after[k - 1]
            ELSE Append(after[k - 1], candidates[k])
    IN  after

\* search: the k nearest of the candidates that were not removed.
search(q, k) ==
    LET candidates == Found(q, 0, Width(k))[0]
        visible == filter(candidates)[Len(candidates)]
    IN  IF entry_point = None \/ k = 0 THEN <<>> ELSE SubSeq(visible, 1, Min({k, Len(visible)}))

\* What read_from asks of the file that write_to makes of the index.
Loads ==
    LET layer_count == Cardinality(DOMAIN layers)
        ids == DOMAIN vectors
    IN  /\ entry_point # None => entry_point \in ids
        /\ layer_count > 0 /\ layer_count <= MAX_LEVEL + 1 /\ max_layer < layer_count
        /\ \A l \in DOMAIN layers :
            /\ Cardinality(DOMAIN layers[l]) <= Len(vectors) /\ DOMAIN layers[l] \subseteq ids
            /\ \A x \in DOMAIN layers[l] :
                /\ Len(layers[l][x]) <= Len(vectors) /\ Range(layers[l][x]) \subseteq ids
        /\ deleted \subseteq ids
-----------------------------------------------------------------------------
(***************************************************************************)
(* Properties.                                                             *)
(***************************************************************************)

\* The node that a search enters the lowest layer at, and what links lead to from there
\* in so many steps.
Start(q) == IF max_layer = 0 THEN entry_point ELSE Found(q, 0, 1)[1][1]
Further(ids) == ids \cup UNION {Range(layers[0][x]) : x \in ids}
Within(start) ==
    LET from[k \in 0..Len(vectors)] ==
            IF k = 0 THEN {start}
            ELSE Further(from[k - 1])
    IN  from
Reached(q) == Within(Start(q))[Len(vectors)]

\* A search returns as many as it was asked for, if links lead to that many that
\* were not removed: the removed ones take no places (hnsw.rs:171).  Where the
\* list of candidates has room for every vector, they are the nearest ones.
SearchIsRight ==
    entry_point # None => \A q \in Points :
        LET live == ByDistance(vectors, q, Reached(q) \ deleted)
        IN  \A k \in Asked :
                LET found == search(q, k)
                    best == SubSeq(live, 1, Min({k, Len(live)}))
                IN  /\ Len(found) = Len(best)
                    /\ Range(found) \subseteq Range(live)
                    /\ Cardinality(Range(found)) = Len(found)
                    /\ Width(k) >= Len(vectors) => found = best

\* An index that holds a vector can be read back after it was written.
WhatIsWrittenLoads == vectors # <<>> => Loads

\* The graph that LayeredGraph speaks of.
Top == IF vectors = <<>> THEN -1 ELSE max_layer
Links == [l \in DOMAIN layers |-> [x \in DOMAIN layers[l] |-> Range(layers[l][x])]]
Graph == INSTANCE LayeredGraph WITH
    top <- Top, links <- Links, size <- Len(vectors), entrance <- entry_point

\* The graph changes as LayeredGraph says, and so is sound.
ImplementsLayeredGraph == Graph!GSpec

=============================================================================
