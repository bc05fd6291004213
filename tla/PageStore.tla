------------------------------ MODULE PageStore ------------------------------
(***************************************************************************)
(* What the browser engine promises a page: chunks that change by whole    *)
(* documents (ChunkStore), that can be kept as bytes at any time, and that *)
(* are again what they were when kept bytes are loaded.                    *)
(***************************************************************************)
EXTENDS Naturals

CONSTANTS
    Sources, Texts, Documents,   \* those of ChunkStore
    None                         \* nothing is kept

VARIABLES
    chunks,                      \* that of ChunkStore
    kept                         \* the chunks that the kept bytes hold

vars == <<chunks, kept>>

Held == INSTANCE ChunkStore

Empty == [s \in Sources |-> [t \in Texts |-> 0]]

Init == chunks = Empty /\ kept = None

\* add and, with no chunks, delete.
Replace(s, d) == Held!Replace(s, d) /\ UNCHANGED kept

\* export.
Keep == kept' = chunks /\ UNCHANGED chunks

\* import, or a page that starts empty.
Restore == chunks' \in {kept, Empty} /\ chunks' # None /\ UNCHANGED kept

Next == Keep \/ Restore \/ \E s \in Sources, d \in Documents \cup {{}} : Replace(s, d)

Spec == Init /\ [][Next]_vars
=============================================================================
