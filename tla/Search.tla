------------------------------- MODULE Search -------------------------------
(***************************************************************************)
(* What a database answers.  The chunk table, the keyword table beside it  *)
(* and the vector index change in separate calls of three libraries, and a *)
(* query reads two of them and puts their answers together.  The           *)
(* operators with lower-case names are the query calls of RAGLite          *)
(* (raglite.rs) with what they call in hnsw.rs, metadata.rs, reranker.rs   *)
(* and eval.rs; the actions are the calls that write, the end of the       *)
(* process, and the next open.                                             *)
(*                                                                         *)
(* Abstractions.  There is one query text.  A chunk's text is a record of  *)
(* what the calls can tell about it: its similarity to the query in        *)
(* quarters, its group (texts of a group are near-duplicates, others are   *)
(* orthogonal), the strength of its keyword match (0: none), the score the *)
(* cross-encoder gives it, and its sentences.  The vector search is exact; *)
(* what the graph may miss is in Hnsw.  There is one embedding model; an   *)
(* open with another one is in RagLite.  Of epochs it matters only which   *)
(* of the two indexes has the recorded one.                                *)
(***************************************************************************)
EXTENDS Lists, SequencesExt

CONSTANTS
    Texts,            \* the texts of chunks
    Sources, Tags,    \* of their documents
    OldRows,          \* chunk tables, of older versions too, a database may have
    MaxVectors,       \* bound: length of the index, and of the row ids given out
    RRF_K,            \* 60
    RERANK_BATCH,     \* DEFAULT_BATCH_SIZE, 32
    FILTER_FACTOR, FILTER_LEAST,   \* the pool of a filtered query: 10, 100
    DIVERSE_FACTOR, DIVERSE_LEAST, \* the pool of a diverse query: 4, 20
    QUERY_WORDS,      \* 6
    NaN

VARIABLES
    rows,             \* table chunks, in the order of its row ids
    next_id,          \* AUTOINCREMENT
    fts,              \* table chunks_fts: {<<row id, text>>}
    index,            \* the index in memory: vectors by id, and the removed ids
    file,             \* hnsw.bin
    recorded,         \* which of the two has the epoch of META_INDEX_EPOCH
    unflushed,        \* whether the index has changed since it was last written
    \* Bookkeeping of the specification; no action of the code reads it.
    faults            \* what has happened to the index since the ids were last given out

db == <<rows, next_id, fts, index, file, recorded, unflushed, faults>>

\* A start offset of a row that has none.
NoOffset == 0

Rows == [id : Nat, vector_id : Nat, text : Texts, source : Sources, tags : SUBSET Tags,
         created : Nat, start : Nat]

ASSUME TextsAssumption ==
    \A t \in Texts : t.similarity \in Int /\ t.keywords \in Nat /\ t.cross \in Int

\* A table is found with its rows numbered from 1, and their vectors from 0.
ASSUME OldRowsAssumption ==
    \A table \in OldRows :
        /\ table \in Seq(Rows)
        /\ \A i \in DOMAIN table : table[i].id = i /\ table[i].vector_id = i - 1

\* No weight is the value that is not a number.
ASSUME NumbersAssumption ==
    /\ {RRF_K, FILTER_FACTOR, FILTER_LEAST, DIVERSE_FACTOR, DIVERSE_LEAST} \subseteq Nat
    /\ RERANK_BATCH \in Nat \ {0}
    /\ NaN \notin Int

Truncate(s, n) == SubSeq(s, 1, IF n < Len(s) THEN n ELSE Len(s))
Larger(m, n) == IF m < n THEN n ELSE m
RowIds(table) == {table[i].id : i \in DOMAIN table}
VectorIds(table) == {table[i].vector_id : i \in DOMAIN table}
Indexed(table) == {<<table[i].id, table[i].text>> : i \in DOMAIN table}

-----------------------------------------------------------------------------
(* HnswIndex::search, by vector id.  Equal distances go by id. *)
Similarity(ix, id) == ix.vectors[id + 1].similarity
Ids(ix) == {i - 1 : i \in DOMAIN ix.vectors}
Nearer(ix) == {p \in Ids(ix) \X Ids(ix) :
                 \/ Similarity(ix, p[1]) > Similarity(ix, p[2])
                 \/ Similarity(ix, p[1]) = Similarity(ix, p[2]) /\ p[1] < p[2]}
ByDistance(ix) == InOrder(Ids(ix), Nearer(ix))
Unremoved(ix, ids) == At(ids, {i \in DOMAIN ids : ids[i] \notin ix.removed})

\* Mutant: the removed ids keep the places they take among the nearest.
search_removed(ix, top_k) == Unremoved(ix, Truncate(ByDistance(ix), top_k))

search(ix, top_k) == Truncate(Unremoved(ix, ByDistance(ix)), top_k)

Scored(ix, ids) == [i \in DOMAIN ids |-> [id |-> ids[i], score |-> Similarity(ix, ids[i])]]

\* Ids without a row are left out.
resolve(scored) ==
    LET stored == At(scored, {i \in DOMAIN scored : scored[i].id \in VectorIds(rows)})
        row(id) == rows[SelectInSeq(rows, LAMBDA r : r.vector_id = id)]
    IN  [i \in DOMAIN stored |-> [row |-> row(stored[i].id), score |-> stored[i].score]]

query(top_k) == resolve(Scored(index, search(index, top_k)))

\* A prefix of a source path is one of its ends here: the whole path or none of it.
matches(filter, r) ==
    /\ filter.tags \subseteq r.tags
    /\ filter.source \in {"any", r.source}
    /\ r.created >= filter.since

Matching(filter, hits) == At(hits, {i \in DOMAIN hits : matches(filter, hits[i].row)})

query_filtered(top_k, filter) ==
    LET candidate_k == Larger(top_k * FILTER_FACTOR, FILTER_LEAST)
    IN  IF top_k = 0 THEN <<>> ELSE Truncate(Matching(filter, query(candidate_k)), top_k)

-----------------------------------------------------------------------------
(* Maximal marginal relevance. *)
Dot(t, u) == IF t.group = u.group THEN 4 ELSE 0
swap_remove(s, i) == [j \in 1..Len(s) - 1 |-> IF j = i THEN s[Len(s)] ELSE s[j]]

Redundancy(ix, chosen, id) ==
    Max({0} \cup {Dot(ix.vectors[id + 1], ix.vectors[chosen[i] + 1]) : i \in DOMAIN chosen})

\* The first of the best, and the first of all when no score compares (NaN).  The weight
\* is in halves, and the score in eighths.
BestPlace(ix, remaining, chosen, weight) ==
    LET score(i) == weight * Similarity(ix, remaining[i])
                        - (2 - weight) * Redundancy(ix, chosen, remaining[i])
    IN  IF weight = NaN THEN 1
        ELSE CHOOSE i \in DOMAIN remaining :
                \A j \in DOMAIN remaining : score(j) < score(i) \/ (score(j) = score(i) /\ i <= j)

Clamp(weight) == IF weight = NaN THEN NaN
                 ELSE IF weight < 0 THEN 0 ELSE IF weight > 2 THEN 2 ELSE weight

\* One of what remains goes to the chosen, if any does.
Pick(ix, s, weight) ==
    IF s.remaining = <<>> THEN s
    ELSE LET best == BestPlace(ix, s.remaining, s.chosen, Clamp(weight))
         IN  [remaining |-> swap_remove(s.remaining, best),
              chosen |-> Append(s.chosen, s.remaining[best])]

diversify(ix, candidates, top_k, weight) ==
    LET picked[n \in 0..top_k] ==
            IF n = 0 THEN [remaining |-> candidates, chosen |-> <<>>]
            ELSE Pick(ix, picked[n - 1], weight)
    IN  picked[top_k].chosen

query_diverse(top_k, weight) ==
    LET candidate_k == Larger(top_k * DIVERSE_FACTOR, DIVERSE_LEAST)
    IN  resolve(Scored(index, diversify(index, search(index, candidate_k), top_k, weight)))

-----------------------------------------------------------------------------
(* Keywords, and their fusion with the vectors. *)

\* bm25() is lower for the better match.  Ties are in any order: one of the answers.
Bm25Matches == {r \in {rows[i] : i \in DOMAIN rows} : <<r.id, r.text>> \in fts /\ r.text.keywords > 0}

OrdersBy(S, before(_, _)) ==
    {s \in [1..Cardinality(S) -> S] :
        \A i, j \in DOMAIN s : i < j => s[i] # s[j] /\ ~before(s[j], s[i])}

\* Mutant: the order is that of the numbers bm25() gives, the largest first.
bm25_search_backwards(top_k) ==
    {Truncate([i \in DOMAIN s |-> s[i].vector_id], top_k) :
        s \in OrdersBy(Bm25Matches, LAMBDA q, r : q.text.keywords < r.text.keywords)}

bm25_search(top_k) ==
    {Truncate([i \in DOMAIN s |-> s[i].vector_id], top_k) :
        s \in OrdersBy(Bm25Matches, LAMBDA q, r : q.text.keywords > r.text.keywords)}

Share(weight, list, id, whole) ==
    LET at == SelectInSeq(list, LAMBDA x : x = id)
    IN  IF at = 0 THEN 0 ELSE weight * (whole \div (RRF_K + at))

\* A common multiple of the denominators RRF_K + rank, so that shares are whole numbers.
Whole(ranks) ==
    LET product[n \in 0..ranks] == IF n = 0 THEN 1 ELSE product[n - 1] * (RRF_K + n)
    IN  product[ranks]

\* Every fusion of the two lists: equal scores are in the order of a HashMap.
Fusions(near, words, alpha) ==
    LET whole    == Whole(Larger(Len(near), Len(words)))
        score(x) == Share(alpha, near, x, whole) + Share(2 - alpha, words, x, whole)
    IN  {[i \in DOMAIN s |-> [id |-> s[i], score |-> score(s[i])]] :
            s \in OrdersBy(ToSet(near) \cup ToSet(words), LAMBDA x, y : score(x) > score(y))}

query_hybrid(top_k, weight) ==
    LET alpha == IF weight = NaN THEN 1 ELSE Clamp(weight)
        near  == search(index, 2 * top_k)
    IN  IF top_k = 0 THEN {<<>>}
        ELSE {resolve(Truncate(fused, top_k)) : fused \in
                UNION {Fusions(near, words, alpha) : words \in bm25_search(2 * top_k)}}

-----------------------------------------------------------------------------
(* The cross-encoder scores the pool batch by batch, and the scores are put back *)
(* beside the passages they belong to.                                          *)
Batches(pool) ==
    [b \in 1..(Len(pool) + RERANK_BATCH - 1) \div RERANK_BATCH |->
        SubSeq(pool, (b - 1) * RERANK_BATCH + 1,
               IF b * RERANK_BATCH < Len(pool) THEN b * RERANK_BATCH ELSE Len(pool))]

\* Mutant: the place in the batch is taken for the place in the pool.
PlaceInBatch(b, i) == i

Place(b, i) == (b - 1) * RERANK_BATCH + i

\* What the cross-encoder gave each place of the pool.
Scores(pool) ==
    UNION {{[place |-> Place(b, i), score |-> Batches(pool)[b][i].row.text.cross] :
                i \in DOMAIN Batches(pool)[b]} : b \in DOMAIN Batches(pool)}
Better(scores) == {p \in scores \X scores :
    \/ p[1].score > p[2].score
    \/ p[1].score = p[2].score /\ p[1].place < p[2].place}

rerank(pool, top_n) == Truncate(InOrder(Scores(pool), Better(Scores(pool))), top_n)

query_reranked(top_k, rerank_top_n) ==
    LET pool == query(Larger(rerank_top_n, top_k))
        best == rerank(pool, top_k)
    IN  [i \in DOMAIN best |-> [row |-> pool[best[i].place].row, score |-> best[i].score]]

-----------------------------------------------------------------------------
(* The rows around a row, in the order of the document. *)
Precedes(q, r) == q.start < r.start \/ (q.start = r.start /\ q.id < r.id)
Siblings(r, following) ==
    {q \in ToSet(rows) : /\ q.source = r.source /\ q.start # NoOffset
                         /\ IF following THEN Precedes(r, q) ELSE Precedes(q, r)}
Outward(S, following) ==
    {p \in S \X S : IF following THEN Precedes(p[1], p[2]) ELSE Precedes(p[2], p[1])}

\* Mutant: the rows before are taken from the first, and not from the nearest.
neighbor_rows_from_first(r, radius, following) ==
    Truncate(InOrder(Siblings(r, following), Outward(Siblings(r, following), TRUE)), radius)

\* Nearest first.
neighbor_rows(r, radius, following) ==
    Truncate(InOrder(Siblings(r, following), Outward(Siblings(r, following), following)), radius)

get_neighbors(id, radius) ==
    LET at == SelectInSeq(rows, LAMBDA r : r.id = id)
    IN  IF at = 0 \/ rows[at].start = NoOffset THEN <<>>
        ELSE Reverse(neighbor_rows(rows[at], radius, FALSE)) \o neighbor_rows(rows[at], radius, TRUE)

neighbors(id, radius) == get_neighbors(id, radius)

-----------------------------------------------------------------------------
(* Labelled queries from the chunks themselves, and how well they are found. *)

\* The words of the longest sentence that are long, of letters only, and new.
LexicalWords(text) ==
    LET longest == CHOOSE i \in DOMAIN text.sentences :
            \A j \in DOMAIN text.sentences :
                \/ Len(text.sentences[j]) < Len(text.sentences[i])
                \/ Len(text.sentences[j]) = Len(text.sentences[i]) /\ j <= i
        usable  == SelectSeq(text.sentences[longest], LAMBDA w : w.usable)
        add(words, w) == IF Contains(words, w.lower) THEN words ELSE Append(words, w.lower)
    IN  FoldLeft(add, <<>>, usable)

\* Spread over the sentence.
lexical_query(text) ==
    LET words == LexicalWords(text)
        picks == IF Len(words) < QUERY_WORDS THEN Len(words) ELSE QUERY_WORDS
    IN  IF Len(words) < 3 THEN <<>>
        ELSE [i \in 1..picks |-> words[((i - 1) * Len(words)) \div picks + 1]]

eval_cases(per_source) ==
    LET case(r)     == [query |-> lexical_query(r.text), expected_source |-> r.source]
        taken(cs, r) == Cardinality({i \in DOMAIN cs : cs[i].expected_source = r.source})
        add(cs, r)  == IF taken(cs, r) >= per_source \/ lexical_query(r.text) = <<>> THEN cs
                       ELSE Append(cs, case(r))
    IN  FoldLeft(add, <<>>, rows)

stats == [chunks |-> Len(rows), vectors |-> Len(index.vectors)]

\* The checks of `doctor` that read the stores.
check == [epoch      |-> "index" \in recorded,
          vector_ids |-> \A id \in VectorIds(rows) : id < Len(index.vectors),
          full_text  |-> Cardinality(fts) = Len(rows)]

-----------------------------------------------------------------------------
(* What the writes leave. *)
NoIndex == [vectors |-> <<>>, removed |-> {}]
IndexOf(table) == [vectors |-> [i \in DOMAIN table |-> table[i].text], removed |-> {}]
Renumbered(table) == [i \in DOMAIN table |-> [table[i] EXCEPT !.vector_id = i - 1]]

\* After the first open, which builds and writes the index of what rows there are.
Init ==
    /\ rows \in OldRows
    /\ next_id = Len(rows) + 1
    /\ fts = Indexed(rows)
    /\ index = IndexOf(rows)
    /\ file = index
    /\ recorded = IF rows = <<>> THEN {"index"} ELSE {"index", "file"}
    /\ unflushed = FALSE
    /\ faults = {}

Others(source) == {i \in DOMAIN rows : rows[i].source # source}

\* Mutant: the rows go first, and the keyword table is told of rows that are gone.
delete_rows_first(source) == [rows |-> At(rows, Others(source)), fts |-> fts]

delete_source_rows(source) ==
    LET old == At(rows, DOMAIN rows \ Others(source))
    IN  [rows |-> At(rows, Others(source)), fts |-> fts \ Indexed(old)]

\* Mutant: any file that is written counts as the recorded one.
RecordedWithoutEpoch == {"index", "file"}

\* Once the index is written, the file has its epoch.
RecordedAfterFlush == IF "index" \in recorded THEN {"index", "file"} ELSE {}

\* Written when enough has changed since the last time, or not yet; the write may fail,
\* which is an error of a call that has done its work.
flush_if_due(ok) ==
    LET dirty == unflushed \/ index' # index
    IN  \/ /\ dirty /\ ok
           /\ file' = index' /\ recorded' = RecordedAfterFlush /\ unflushed' = FALSE
        \/ /\ dirty \/ ok
           /\ UNCHANGED <<file, recorded>> /\ unflushed' = dirty

NewRows(w) ==
    [i \in DOMAIN w.texts |->
        [id |-> next_id + i - 1, vector_id |-> Len(index.vectors) + i - 1, text |-> w.texts[i],
         source |-> w.source, tags |-> w.tags, created |-> w.created, start |-> i]]

Room(w) == Larger(Len(index.vectors), next_id - 1) + Len(w.texts) <= MaxVectors

Ingest(w, ok) ==
    LET replace == w.how = "add_document"
        old     == IF replace THEN {r.vector_id : r \in {q \in ToSet(rows) : q.source = w.source}}
                   ELSE {}
        kept    == IF replace THEN delete_source_rows(w.source) ELSE [rows |-> rows, fts |-> fts]
    IN  /\ Room(w)
        /\ rows' = kept.rows \o NewRows(w)
        /\ fts' = kept.fts \cup Indexed(NewRows(w))
        /\ next_id' = next_id + Len(w.texts)
        /\ index' = [vectors |-> index.vectors \o w.texts, removed |-> index.removed \cup old]
        /\ flush_if_due(ok)
        /\ UNCHANGED faults

\* The transaction fails: the new vectors are hidden, and nothing else has changed.
IngestFails(w) ==
    /\ Room(w)
    /\ index' = [vectors |-> index.vectors \o w.texts,
                 removed |-> index.removed \cup {Len(index.vectors) + i - 1 : i \in DOMAIN w.texts}]
    /\ UNCHANGED <<rows, next_id, fts, file, recorded, unflushed, faults>>

Delete(source, ok) ==
    LET kept == delete_source_rows(source)
        old  == {r.vector_id : r \in {q \in ToSet(rows) : q.source = source}}
    IN  /\ rows' = kept.rows
        /\ fts' = kept.fts
        /\ index' = [index EXCEPT !.removed = @ \cup old]
        /\ flush_if_due(ok)
        /\ UNCHANGED <<next_id, faults>>

\* rebuild_index: the new index is written, the rows and the recorded epoch are moved to
\* it, the model is recorded, and the handle takes the new index.
Rebuild ==
    /\ rows' = Renumbered(rows)
    /\ index' = IndexOf(rows)
    /\ file' = index'
    /\ recorded' = {"index", "file"}
    /\ unflushed' = FALSE
    /\ faults' = {}
    /\ UNCHANGED <<next_id, fts>>

\* An error between these: the new file is there, and the rows are not moved to it ...
RebuildFailsToRemap ==
    /\ file' = IndexOf(rows)
    /\ recorded' = recorded \ {"file"}
    /\ UNCHANGED <<rows, next_id, fts, index, unflushed, faults>>

\* ... or they are, and the handle has kept the index with the ids from before.
RebuildFailsToRecord ==
    /\ rows' = Renumbered(rows)
    /\ file' = IndexOf(rows)
    /\ recorded' = {"file"}
    /\ faults' = {"remapped"}
    /\ UNCHANGED <<next_id, fts, index, unflushed>>

-----------------------------------------------------------------------------
(* The end of the process, with or without Drop, and the next open.  An open that fails *)
(* halfway is followed by one that builds the index, so only the latter is here.        *)

\* A file without a vector cannot be loaded, and one with vectors perhaps not this time.
index_is_current(disk, same_epoch, readable) ==
    /\ readable /\ disk.vectors # <<>>
    /\ same_epoch
    /\ \A id \in VectorIds(rows) : id < Len(disk.vectors)

Visible(ix) == Ids(ix) \ ix.removed

\* A crash may have left vectors in the file whose rows are gone.
OpenCurrent(disk) ==
    /\ index' = disk
    /\ recorded' = {"index", "file"}
    /\ faults' = (faults \cap {"shadowed"})
                    \cup (IF Visible(disk) = VectorIds(rows) THEN {} ELSE {"lost"})
    /\ UNCHANGED <<rows, next_id, fts>>

\* No rows: a new index, beside a file that keeps the recorded epoch if it had it.
OpenFresh(disk, same_epoch) ==
    /\ index' = NoIndex
    /\ recorded' = IF same_epoch THEN {"file"} ELSE {}
    /\ faults' = IF same_epoch /\ disk.vectors # <<>> THEN {"shadowed"} ELSE {}
    /\ UNCHANGED <<rows, next_id, fts>>

Reopen(disk, same_epoch) == \E readable \in BOOLEAN :
    IF index_is_current(disk, same_epoch, readable)
    THEN OpenCurrent(disk) /\ file' = disk /\ unflushed' = FALSE
    ELSE IF rows = <<>>
    THEN OpenFresh(disk, same_epoch) /\ file' = disk /\ unflushed' = FALSE
    ELSE Rebuild

CrashAndOpen == Reopen(file, "file" \in recorded)

\* Drop writes the index when it has changed, or fails to.
CloseAndOpen ==
    \/ unflushed /\ Reopen(index, "index" \in recorded)
    \/ CrashAndOpen
=============================================================================
