------------------------------- MODULE MCHnsw -------------------------------
(***************************************************************************)
(* Hnsw for TLC: points of a line.                                         *)
(***************************************************************************)
EXTENDS Hnsw

MCDistance == [p \in Points |-> [q \in Points |-> IF p < q THEN q - p ELSE p - q]]
=============================================================================
