----------------------------- MODULE WasmEngine -----------------------------
(***************************************************************************)
(* The browser engine: one list of chunks and two indexes over it, the     *)
(* vectors of HnswIndex and the postings of the keyword search, all in     *)
(* memory.  The position of a chunk in the list is its id, in both indexes *)
(* too; a removed chunk keeps its place and is marked.  The page computes  *)
(* the embeddings, keeps the database as bytes (export), and loads them    *)
(* into a new engine (import), which rebuilds the postings from the texts. *)
(*                                                                         *)
(* Abstractions.  Ids begin at 1.  The chunks of a content are its parts   *)
(* <<content, part>>, and the vector that the page computes for a text     *)
(* stands for that text.  The list of a term's postings is kept by chunk:  *)
(* postings[t][id] lists the counts posted for it.  The graph of the index *)
(* is not modelled, nor are scores.  The program is sequential: every      *)
(* call of the page is one step.                                           *)
(***************************************************************************)
EXTENDS Naturals, Sequences, FiniteSets

CONSTANTS
    Sources,      \* source names
    Contents,     \* contents of documents
    ChunkCount,   \* how many chunks plan makes of each content
    Terms,        \* words
    TermCount,    \* how often a term is in a text
    LengthOf,     \* how many terms a text has
    MaxChunks,    \* bound on the ids handed out, for TLC
    None          \* no bytes

ASSUME CountAssumption == ChunkCount \in [Contents -> Nat]

Texts == UNION {{<<c, i>> : i \in 1..ChunkCount[c]} : c \in Contents}

ASSUME TermAssumption ==
    /\ TermCount \in [Terms -> [Texts -> Nat]]
    /\ LengthOf \in [Texts -> Nat]

Chunk == [text : Texts, source : Sources, live : BOOLEAN]

\* What export writes, and the bags that PageStore speaks of.
Bytes == [chunks : Seq(Chunk), vectors : Seq(Texts), deleted : SUBSET Nat]
Bags == [Sources -> [Texts -> Nat]]

ASSUME NoneAssumption == None \notin Bytes \cup Bags

VARIABLES
    chunks,       \* Engine.chunks
    vectors,      \* the vectors of Engine.index
    deleted,      \* its removed ids
    postings,     \* Engine.postings
    lengths,      \* Engine.lengths
    saved,        \* the bytes the page keeps, None at first
    promised      \* bookkeeping: the answers of the engine that was exported

engine == <<chunks, vectors, deleted, postings, lengths>>
wasmVars == <<chunks, vectors, deleted, postings, lengths, saved, promised>>

IsLive(id) == chunks[id].live

\* The chunks of a content, as plan gives them to the page.
Planned(c) == [i \in 1..ChunkCount[c] |-> <<c, i>>]

\* What is posted for a text under a term: nothing, or one count.
Posted(t, x) == IF TermCount[t][x] = 0 THEN <<>> ELSE <<TermCount[t][x]>>

(***************************************************************************)
(* What a search reads: `query` the vectors it may return, `keyword` the   *)
(* postings and lengths of live chunks.  Both give back the chunk itself.  *)
(***************************************************************************)
Answers ==
    [ids |-> {id \in DOMAIN chunks : IsLive(id)},
     hits |-> [id \in {i \in DOMAIN chunks : IsLive(i)} |->
                 [text |-> chunks[id].text, source |-> chunks[id].source]],
     query |-> {<<id, vectors[id]>> : id \in DOMAIN vectors \ deleted},
     keyword |-> [id \in {i \in DOMAIN chunks : IsLive(i)} |->
                    [length |-> lengths[id],
                     counts |-> [t \in Terms |-> postings[t][id]]]]]

(***************************************************************************)
(* Actions.                                                                *)
(***************************************************************************)
Empty ==
    /\ chunks = <<>> /\ vectors = <<>> /\ deleted = {} /\ lengths = <<>>
    /\ postings = [t \in Terms |-> <<>>]

WasmInit == Empty /\ saved = None /\ promised = None

\* Engine::new: a page that begins without bytes, or whose bytes are refused.
New ==
    /\ chunks' = <<>> /\ vectors' = <<>> /\ deleted' = {} /\ lengths' = <<>>
    /\ postings' = [t \in Terms |-> <<>>]
    /\ UNCHANGED <<saved, promised>>

\* The chunks of a source, and the list and the removed ids without them.
Held(s) == {id \in DOMAIN chunks : IsLive(id) /\ chunks[id].source = s}
Marked(s) ==
    [id \in DOMAIN chunks |-> IF id \in Held(s)
        THEN [text |-> chunks[id].text, source |-> s, live |-> FALSE]
        ELSE chunks[id]]

\* Mutant: the vectors of removed chunks stay visible.
HiddenNothing(s) == deleted

Hidden(s) == deleted \cup (Held(s) \cap DOMAIN vectors)

\* Mutant: what the source had stays.
AddAgain(s, c) ==
    /\ Len(vectors) + ChunkCount[c] <= MaxChunks
    /\ chunks' = chunks \o [i \in 1..ChunkCount[c] |->
                    [text |-> Planned(c)[i], source |-> s, live |-> TRUE]]
    /\ vectors' = vectors \o Planned(c)
    /\ lengths' = lengths \o [i \in 1..ChunkCount[c] |-> LengthOf[Planned(c)[i]]]
    /\ postings' = [t \in Terms |->
                      postings[t] \o [i \in 1..ChunkCount[c] |-> Posted(t, Planned(c)[i])]]
    /\ UNCHANGED <<deleted, saved, promised>>

\* add deletes what the source has, then pushes each chunk to every list.  With
\* one vector of the right length for each chunk, insert does not fail; with
\* any other number nothing is done.
Add(s, c) ==
    /\ Len(vectors) + ChunkCount[c] <= MaxChunks
    /\ chunks' = Marked(s) \o [i \in 1..ChunkCount[c] |->
                    [text |-> Planned(c)[i], source |-> s, live |-> TRUE]]
    /\ vectors' = vectors \o Planned(c)
    /\ deleted' = Hidden(s)
    /\ lengths' = lengths \o [i \in 1..ChunkCount[c] |-> LengthOf[Planned(c)[i]]]
    /\ postings' = [t \in Terms |->
                      postings[t] \o [i \in 1..ChunkCount[c] |-> Posted(t, Planned(c)[i])]]
    /\ UNCHANGED <<saved, promised>>

\* The postings and lengths keep what they have of removed chunks.
Delete(s) ==
    /\ Held(s) # {}
    /\ chunks' = Marked(s) /\ deleted' = Hidden(s)
    /\ UNCHANGED <<vectors, postings, lengths, saved, promised>>

\* Mutant: removed chunks are left out of the header.
ExportLive ==
    /\ saved' = [chunks |-> SelectSeq(chunks, LAMBDA x : x.live),
                 vectors |-> vectors, deleted |-> deleted]
    /\ promised' = Answers
    /\ UNCHANGED engine

Export ==
    /\ saved' = [chunks |-> chunks, vectors |-> vectors, deleted |-> deleted]
    /\ promised' = Answers
    /\ UNCHANGED engine

\* read_from refuses an index without layers, that is, one that never held a
\* vector.
Importable(bytes) == bytes # None /\ bytes.vectors # <<>>

\* Mutant: only live chunks are measured.
LengthsOfLive(cs) ==
    LET live == SelectSeq(cs, LAMBDA x : x.live)
    IN  [i \in DOMAIN live |-> LengthOf[live[i].text]]

\* Every chunk is measured, and the live ones are posted.
LengthsOf(cs) == [id \in DOMAIN cs |-> LengthOf[cs[id].text]]

PostingsOf(cs) ==
    [t \in Terms |-> [id \in DOMAIN cs |->
        IF cs[id].live THEN Posted(t, cs[id].text) ELSE <<>>]]

Import ==
    /\ Importable(saved)
    /\ chunks' = saved.chunks /\ vectors' = saved.vectors /\ deleted' = saved.deleted
    /\ lengths' = LengthsOf(saved.chunks)
    /\ postings' = PostingsOf(saved.chunks)
    /\ UNCHANGED <<saved, promised>>

WasmNext ==
    \/ \E s \in Sources, c \in Contents : Add(s, c)
    \/ \E s \in Sources : Delete(s)
    \/ New \/ Export \/ Import

WasmSpec == WasmInit /\ [][WasmNext]_wasmVars
-----------------------------------------------------------------------------
(***************************************************************************)
(* Properties.                                                             *)
(***************************************************************************)
\* Every variable has its type.
WasmTypeOK ==
    /\ chunks \in Seq(Chunk)
    /\ vectors \in Seq(Texts) /\ deleted \subseteq DOMAIN vectors
    /\ lengths \in Seq(Nat)
    /\ DOMAIN postings = Terms
    /\ \A t \in Terms : postings[t] \in Seq(Seq(Nat))
    /\ saved # None =>
        /\ saved.chunks \in Seq(Chunk)
        /\ saved.vectors \in Seq(Texts) /\ saved.deleted \subseteq DOMAIN saved.vectors

\* A vector index agrees with a list of chunks: one vector for each, of its own
\* text, hidden when the chunk is removed (engine.rs:144, 220).
Agree(cs, vs, ds) ==
    /\ Len(vs) = Len(cs)
    /\ \A id \in DOMAIN cs :
        /\ vs[id] = cs[id].text
        /\ id \in ds <=> ~cs[id].live

\* query finds the live chunks, each under the vector of its text, and the
\* removed ids are those of removed chunks: search widens its list by their
\* number.  The bytes of an export are as good.
VectorsAgree ==
    /\ Agree(chunks, vectors, deleted)
    /\ saved # None => Agree(saved.chunks, saved.vectors, saved.deleted)

\* keyword reads under the id of a live chunk exactly what its text has: the
\* ids of the lists do not drift apart over replacements, exports and imports
\* that skip removed chunks (engine.rs:343-356).
KeywordsAgree ==
    /\ Len(lengths) = Len(chunks)
    /\ \A t \in Terms : Len(postings[t]) = Len(chunks)
    /\ \A id \in DOMAIN chunks : IsLive(id) =>
        /\ lengths[id] = LengthOf[chunks[id].text]
        /\ \A t \in Terms : postings[t][id] = Posted(t, chunks[id].text)

\* An imported engine answers as the exported one did, although the one has
\* postings of removed chunks and the other has not.
ImportAnswersAlike == [][Import => Answers' = promised]_wasmVars

\* The answers of an engine whose lists agree, from its chunks alone.
Live(cs) == {id \in DOMAIN cs : cs[id].live}
Right(cs) ==
    [ids |-> Live(cs),
     hits |-> [id \in Live(cs) |-> [text |-> cs[id].text, source |-> cs[id].source]],
     query |-> {<<id, cs[id].text>> : id \in Live(cs)},
     keyword |-> [id \in Live(cs) |->
                    [length |-> LengthOf[cs[id].text],
                     counts |-> [t \in Terms |-> Posted(t, cs[id].text)]]]]

\* The inductive invariant: the lists agree, and so do the bytes with what they
\* were when they were written.
EInv ==
    /\ WasmTypeOK
    /\ VectorsAgree
    /\ KeywordsAgree
    /\ saved # None => promised = Right(saved.chunks)

\* The chunks of a list, read as the bag of ChunkStore.
BagOf(cs) ==
    [s \in Sources |-> [x \in Texts |->
        Cardinality({id \in DOMAIN cs : cs[id] = [text |-> x, source |-> s, live |-> TRUE]})]]

Page == INSTANCE PageStore WITH
    Texts <- Texts,
    Documents <- {{<<c, i>> : i \in 1..ChunkCount[c]} : c \in Contents},
    chunks <- BagOf(chunks),
    kept <- IF saved = None THEN None ELSE BagOf(saved.chunks)

\* The engine implements what it promises a page: an add replaces the whole
\* document, and kept bytes bring back what was kept.
ImplementsPageStore == Page!Spec
=============================================================================
