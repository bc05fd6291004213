----------------------------- MODULE ChunkStore -----------------------------
(***************************************************************************)
(* What a database promises about the chunks it holds: they are a bag that *)
(* only a completed add, replacement or removal changes, all the chunks of *)
(* a document in one step.  Opening, closing, crashing, rebuilding,        *)
(* changing the model or losing the index file change nothing.             *)
(***************************************************************************)
EXTENDS Naturals

CONSTANTS
    Sources,     \* source paths
    Texts,       \* chunk texts
    Documents    \* the sets of texts that documents are split into

VARIABLE
    chunks       \* chunks[s][t]: how many chunks of source s have text t

vars == chunks

\* add_text: one more copy of each chunk of d, beside what s has. (Its comment, raglite.rs:501,
\* says that it replaces: the run add_text_again shows that it does not.)
Add(s, d) ==
    chunks' = [chunks EXCEPT ![s] =
                 [t \in Texts |-> IF t \in d THEN @[t] + 1 ELSE @[t]]]

\* add_document: the chunks of d in the place of all that s held.
\* delete_document is the same with no chunks.
Replace(s, d) ==
    chunks' = [chunks EXCEPT ![s] =
                 [t \in Texts |-> IF t \in d THEN 1 ELSE 0]]

Init == chunks \in [Sources -> [Texts -> Nat]]

Next == \E s \in Sources :
    \/ \E d \in Documents : Add(s, d)
    \/ \E d \in Documents \cup {{}} : Replace(s, d)

Spec == Init /\ [][Next]_vars
=============================================================================
