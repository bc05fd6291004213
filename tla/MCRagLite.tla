------------------------------ MODULE MCRagLite ------------------------------
(***************************************************************************)
(* RagLite for TLC: contents of one and of two chunks, and either a new    *)
(* database or one written before the model and the epoch were recorded.   *)
(***************************************************************************)
EXTENDS RagLiteInv, TLC

CONSTANTS short, long, s1, s2, modelA, modelB, e1, e2, e3, e4

MCChunkCount == short :> 1 @@ long :> 2
SameDims == modelA :> 3 @@ modelB :> 3
NewDatabase == {[v \in {} |-> 0]}
OldDatabase ==
    NewDatabase \cup {0 :> [source |-> s, text |-> <<short, 1>>] : s \in Sources}

\* Epochs, sources and models of the same dimensions are interchangeable.
Symmetry == Permutations(Epochs) \cup Permutations(Sources) \cup Permutations(Models)
EpochSymmetry == Permutations(Epochs)
=============================================================================
