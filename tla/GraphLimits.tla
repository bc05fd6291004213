----------------------------- MODULE GraphLimits -----------------------------
(***************************************************************************)
(* The limits that HnswIndex sets to its graph.                            *)
(***************************************************************************)
EXTENDS Integers

CONSTANTS
    M,            \* links that a new node makes on a layer
    MAX_LEVEL,    \* the highest level of a node
    None          \* no node

\* An M of 1 is raised to 2 (hnsw.rs:58).
ASSUME LimitAssumption == M \in Nat \ {0, 1} /\ MAX_LEVEL \in Nat /\ None \notin Int

\* How many links a node may have on a layer.
max_connections(l) == IF l = 0 THEN 2 * M ELSE M
=============================================================================
