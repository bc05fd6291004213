---------------------------- MODULE LayeredGraph ----------------------------
(***************************************************************************)
(* What the vector index promises of its graph, whatever vectors it holds  *)
(* and however good its searches are: nodes on nested layers, a bounded    *)
(* number of links to other nodes of the layer, and an entry point on the  *)
(* top layer.  An insert links the new node to some nodes of each of its   *)
(* layers, and gives each of them a link back for which they may drop      *)
(* others.                                                                 *)
(***************************************************************************)
EXTENDS GraphLimits, FiniteSets

VARIABLES
    top,          \* the highest layer, -1 if there is none
    links,        \* links[l][x]: the nodes that x is linked to on layer l
    size,         \* how many nodes there are: they are 1..size
    entrance      \* where searches begin

gvars == <<top, links, size, entrance>>

GInit == top = -1 /\ links = [l \in 0..-1 |-> {}] /\ size = 0 /\ entrance = None

\* A new node on the layers 0..level, linked to any M nodes of each.
GInsert(level) ==
    LET id == size + 1
        height == IF level > top THEN level ELSE top
        old(l) == IF l <= top THEN DOMAIN links[l] ELSE {}
        chosen(l) == IF l <= level THEN links'[l][id] ELSE {}
    IN  /\ size' = id
        /\ top' = height
        /\ DOMAIN links' = 0..height
        /\ \A l \in 0..height :
            /\ DOMAIN links'[l] = old(l) \cup (IF l <= level THEN {id} ELSE {})
            /\ chosen(l) \subseteq old(l) /\ Cardinality(chosen(l)) <= M
            /\ \A x \in old(l) :
                IF x \in chosen(l)
                    THEN /\ links'[l][x] \subseteq links[l][x] \cup {id}
                         /\ Cardinality(links'[l][x]) <= max_connections(l)
                    ELSE links'[l][x] = links[l][x]
        /\ entrance' = IF level > top THEN id ELSE entrance

GNext == \E level \in 0..MAX_LEVEL : GInsert(level)

GSpec == GInit /\ [][GNext]_gvars
-----------------------------------------------------------------------------
(***************************************************************************)
(* Properties.                                                             *)
(***************************************************************************)

\* Every variable has its type.
GTypeOK ==
    /\ top \in -1..MAX_LEVEL
    /\ DOMAIN links = 0..top
    /\ size \in Nat
    /\ entrance \in Nat \cup {None}

\* The graph a search walks is one: it begins at a node of the top layer, a link
\* leads to another node of the layer, a node of a layer is on the layers below,
\* and no node has more links than its layer allows.
Sound ==
    /\ IF size = 0 THEN top = -1 /\ entrance = None
                   ELSE top >= 0 /\ entrance \in DOMAIN links[top] /\ DOMAIN links[0] = 1..size
    /\ \A l \in 0..top :
        /\ DOMAIN links[l] \subseteq 1..size
        /\ l > 0 => DOMAIN links[l] \subseteq DOMAIN links[l - 1]
        /\ \A x \in DOMAIN links[l] :
            /\ links[l][x] \subseteq DOMAIN links[l] \ {x}
            /\ Cardinality(links[l][x]) <= max_connections(l)
=============================================================================
