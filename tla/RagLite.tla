------------------------------- MODULE RagLite -------------------------------
(***************************************************************************)
(* One handle of the RAGLite engine (tpt-rag-core/src/raglite.rs) over one *)
(* database folder.  The folder holds two stores that no transaction       *)
(* spans: `hnsw.bin`, a file replaced as a whole by a rename, and          *)
(* `metadata.sqlite3`.  A chunk is a SQLite row whose vector_id points     *)
(* into the index that was in memory when the row was written, so every    *)
(* operation has to keep the rows, the index in memory and the file on     *)
(* disk pointing at each other through crashes, failed writes, a lost      *)
(* file, a change of model and interrupted rebuilds.                       *)
(*                                                                         *)
(* Abstractions.  A vector is the pair of the text it embeds and the model *)
(* that embedded it: everything a search can get wrong about a vector is   *)
(* there.  The HNSW graph is not here (search is taken as exhaustive over  *)
(* the ids that are not hidden).  A chunk row is keyed by its vector_id,   *)
(* which the table declares UNIQUE; the AUTOINCREMENT row id only orders   *)
(* the rows for a rebuild, and with one writer that order is the order of  *)
(* the vector ids.  A random u64 epoch is any epoch not in use.  The       *)
(* `documents` table of sync_directory has a module of its own.            *)
(***************************************************************************)
EXTENDS Integers, FiniteSets

CONSTANTS
    Sources,      \* source paths
    Contents,     \* what a document or a text can contain
    ChunkCount,   \* number of chunks each content is split into
    Models,       \* embedding models, by the name META_MODEL records
    DimOf,        \* dimensions of each model's vectors
    Epochs,       \* index epochs
    FlushEvery,   \* RagConfig::flush_every, 0 for never
    InitialRows,  \* chunk tables a database may have before its first open
    MaxVectors,   \* bound: length an index may reach
    None          \* no value recorded, or no usable index

ASSUME ChunkCountAssumption == ChunkCount \in [Contents -> Nat \ {0}]
ASSUME FlushEveryAssumption == FlushEvery \in Nat
ASSUME MaxVectorsAssumption == MaxVectors \in Nat
ASSUME NoneAssumption ==
    /\ None \notin Epochs
    /\ None \notin Models
    /\ None \notin {DimOf[m] : m \in Models}

Dims == {DimOf[m] : m \in Models}

\* The chunks of a content, each named by its place in it.
Split(c) == {<<c, i>> : i \in 1..ChunkCount[c]}
Texts == UNION {Split(c) : c \in Contents}
Chunks == [source : Sources, text : Texts]

\* model.embed(text).
Embed(m, t) == [model |-> m, text |-> t]
Vectors == [model : Models, text : Texts]

\* An index of n vectors hands out the ids 0 .. n-1.
Ids(n) == 0..(n - 1)

IsRows(r) ==
    /\ r \in [DOMAIN r -> Chunks]
    /\ DOMAIN r \subseteq Nat
    /\ IsFiniteSet(DOMAIN r)

ASSUME InitialRowsAssumption == \A r \in InitialRows : IsRows(r)

VARIABLES
    \* On disk: they survive a crash.
    disk,         \* hnsw.bin, or NoIndex when a load of it would fail
    rows,         \* table chunks: vector_id -> source and text
    metaModel,    \* META_MODEL
    metaDims,     \* META_DIMENSIONS
    metaEpoch,    \* META_INDEX_EPOCH
    \* In the process.
    phase,        \* where the handle is in open, in rebuild_index, or neither
    model,        \* the model the handle was opened with
    index,        \* the RwLock<HnswIndex>
    built,        \* what build_index returned: the index and the mapping
    unflushed,    \* changes since the last flush
    \* Bookkeeping of the specification; no action of the code reads it.
    paired,       \* the rows' ids are ids of the index in memory
    faults        \* incidents since the ids were last rebuilt

disks == <<disk, rows, metaModel, metaDims, metaEpoch>>
vars == <<disk, rows, metaModel, metaDims, metaEpoch, phase, model, index,
          built, unflushed, paired, faults>>

Opening == {"chosen", "built", "flushed", "remapped", "named", "sized"}
Rebuilding == {"rebuilt", "reflushed", "reremapped"}
Phases == {"closed", "open"} \cup Opening \cup Rebuilding

(***************************************************************************)
(* The index, as HnswIndex keeps it: vectors are only ever appended, and a *)
(* removed id joins `deleted` for good.                                    *)
(***************************************************************************)
NewIndex(e, m) ==
    [epoch |-> e, dim |-> DimOf[m], len |-> 0,
     vec |-> [v \in Ids(0) |-> None], deleted |-> {}]

NoIndex ==
    [epoch |-> None, dim |-> None, len |-> 0,
     vec |-> [v \in Ids(0) |-> None], deleted |-> {}]

NoBuild == [index |-> NoIndex, mapping |-> [v \in Ids(0) |-> 0]]

IsIndex(x) ==
    /\ x = [epoch |-> x.epoch, dim |-> x.dim, len |-> x.len,
            vec |-> x.vec, deleted |-> x.deleted]
    /\ x.epoch \in Epochs \cup {None}
    /\ x.dim \in Dims \cup {None}
    /\ x.len \in Nat
    /\ x.vec \in [Ids(x.len) -> Vectors]
    /\ x.deleted \subseteq Ids(x.len)

\* Ids a search may return.
Visible(x) == Ids(x.len) \ x.deleted

\* index.insert of each chunk of content c in turn.
InsertAll(x, m, c) ==
    LET n == x.len + ChunkCount[c]
    IN  [epoch |-> x.epoch, dim |-> x.dim, len |-> n,
         vec |-> [v \in Ids(n) |-> IF v < x.len THEN x.vec[v]
                                  ELSE Embed(m, <<c, v - x.len + 1>>)],
         deleted |-> x.deleted]

NewIds(x, c) == x.len..(x.len + ChunkCount[c] - 1)

\* index.remove of each id: an unknown id is refused.
Hide(x, ids) == [x EXCEPT !.deleted = @ \cup (ids \cap Ids(x.len))]

\* What index.flush leaves on disk.  An index that never held a vector has no
\* layers, and read_from refuses a file with a layer count of 0.
Written(x) == IF x.len = 0 THEN NoIndex ELSE x

(***************************************************************************)
(* Reading the metadata.                                                   *)
(***************************************************************************)
IdsOf(s) == {v \in DOMAIN rows : rows[v].source = s}

\* check_model_identity: no recorded model adopts the one at hand.
ModelChanged(m) ==
    metaModel # None /\ (metaModel # m \/ metaDims # DimOf[m])

\* Mutant: the check of max_vector_id is off by one.
BehindByTwo(x) == \E v \in DOMAIN rows : v > x.len

\* The index file holds fewer vectors than the rows refer to.
Behind(x) == \E v \in DOMAIN rows : v >= x.len

\* HnswIndex::load_from_disk finds an index of the right dimension; `readable`
\* is FALSE when the read fails this time or the file has another m.
Loads(m, readable) == readable /\ disk.epoch # None /\ disk.dim = DimOf[m]

\* Mutants: the epoch is not compared; the length is not compared.
IsCurrentAtAnyEpoch(m, readable) ==
    Loads(m, readable) /\ ~Behind(disk) /\ ~ModelChanged(m)

IsCurrentAtAnyLength(m, readable) ==
    Loads(m, readable) /\ metaEpoch = disk.epoch /\ ~ModelChanged(m)

\* index_is_current of open_with_config.
IsCurrent(m, readable) ==
    /\ Loads(m, readable)
    /\ metaEpoch = disk.epoch
    /\ ~Behind(disk)
    /\ ~ModelChanged(m)

\* rand::random() of HnswIndex::new.
FreshEpochs == Epochs \ {disk.epoch, metaEpoch, index.epoch}

\* The order in which all_chunk_texts lists the rows.
RowOrders ==
    {f \in [Ids(Cardinality(DOMAIN rows)) -> DOMAIN rows] :
        \A i, j \in DOMAIN f : i < j => f[i] < f[j]}

\* build_index: every chunk embedded again, in row order, into a new index.
Build(e, m, order) ==
    [index |-> [epoch |-> e, dim |-> DimOf[m], len |-> Cardinality(DOMAIN rows),
                vec |-> [v \in DOMAIN order |-> Embed(m, rows[order[v]].text)],
                deleted |-> {}],
     mapping |-> order]

Remapped(mapping) == [v \in DOMAIN mapping |-> rows[mapping[v]]]

-----------------------------------------------------------------------------
Init ==
    /\ disk = NoIndex
    /\ rows \in InitialRows
    /\ metaModel = None /\ metaDims = None /\ metaEpoch = None
    /\ phase = "closed" /\ model = None /\ index = NoIndex /\ built = NoBuild
    /\ unflushed = 0
    /\ paired = TRUE
    /\ faults = {}

(***************************************************************************)
(* open_with_config.  Refusing another model changes nothing.              *)
(***************************************************************************)
\* The checks every way of opening starts with.
Accepts(m, reembed) == phase = "closed" /\ (ModelChanged(m) => reembed)

OpenCurrent(m, readable) ==
    /\ Accepts(m, FALSE)
    /\ IsCurrent(m, readable)
    /\ phase' = "chosen" /\ model' = m /\ index' = disk
    /\ UNCHANGED <<disks, built, unflushed, paired, faults>>

\* No rows: an empty index with an epoch of its own, which is neither written
\* to disk nor recorded when an earlier epoch is.
OpenFresh(m, reembed, readable) ==
    /\ Accepts(m, reembed)
    /\ ~IsCurrent(m, readable)
    /\ DOMAIN rows = {}
    /\ \E e \in FreshEpochs : index' = NewIndex(e, m)
    /\ phase' = "chosen" /\ model' = m
    /\ faults' = IF disk.epoch # None /\ disk.epoch = metaEpoch
                 THEN faults \cup {"shadowed"} ELSE faults
    /\ UNCHANGED <<disks, built, unflushed, paired>>

OpenBuild(m, reembed, readable) ==
    /\ Accepts(m, reembed)
    /\ ~IsCurrent(m, readable)
    /\ DOMAIN rows # {}
    /\ \E e \in FreshEpochs, order \in RowOrders : built' = Build(e, m, order)
    /\ phase' = "built" /\ model' = m
    /\ UNCHANGED <<disks, index, unflushed, paired, faults>>

\* index.flush of the new index, by open and by rebuild_index.
WriteBuilt(from, to) ==
    /\ phase = from /\ phase' = to
    /\ disk' = Written(built.index)
    /\ UNCHANGED <<rows, metaModel, metaDims, metaEpoch, model, index, built,
                   unflushed, paired, faults>>

\* remap_vector_ids: the new ids and the new epoch in one transaction.
RemapIds ==
    /\ rows' = Remapped(built.mapping)
    /\ metaEpoch' = built.index.epoch
    /\ faults' = {}
    /\ UNCHANGED <<disk, metaModel, metaDims>>

OpenRemap ==
    /\ phase = "flushed" /\ phase' = "remapped"
    /\ RemapIds
    /\ index' = built.index /\ built' = NoBuild
    /\ UNCHANGED <<model, unflushed, paired>>

RecordModel ==
    /\ phase \in {"chosen", "remapped"} /\ phase' = "named"
    /\ metaModel' = model
    /\ UNCHANGED <<disk, rows, metaDims, metaEpoch, model, index, built,
                   unflushed, paired, faults>>

RecordDims ==
    /\ phase = "named" /\ phase' = "sized"
    /\ metaDims' = DimOf[model]
    /\ UNCHANGED <<disk, rows, metaModel, metaEpoch, model, index, built,
                   unflushed, paired, faults>>

RecordEpoch ==
    /\ phase = "sized" /\ phase' = "open"
    /\ metaEpoch' = IF metaEpoch = None THEN index.epoch ELSE metaEpoch
    /\ UNCHANGED <<disk, rows, metaModel, metaDims, model, index, built,
                   unflushed, paired, faults>>

\* What the process held is gone.
Forget ==
    /\ phase' = "closed" /\ model' = None /\ index' = NoIndex
    /\ built' = NoBuild /\ unflushed' = 0 /\ paired' = TRUE

\* An error of open, or a crash during it.
OpenStops ==
    /\ phase \in Opening
    /\ Forget
    /\ faults' = IF phase = "remapped" /\ metaModel # model
                 THEN faults \cup {"unrecorded"} ELSE faults
    /\ UNCHANGED disks

(***************************************************************************)
(* Writes.  The handle is not Sync, so an operation meets no other one; a  *)
(* crash inside it leaves what a crash before its SQLite transaction or    *)
(* after it does.                                                          *)
(***************************************************************************)
Due(n) == FlushEvery > 0 /\ n >= FlushEvery

\* Mutant: the counter is reset before the write that may fail.
FlushIfDueForgets(x, n, ok) ==
    IF Due(n)
    THEN disk' = (IF ok THEN Written(x) ELSE disk) /\ unflushed' = 0
    ELSE UNCHANGED disk /\ unflushed' = n

\* flush_if_due, when the write of the file succeeds (ok) and when it does not.
FlushIfDue(x, n, ok) ==
    IF Due(n) /\ ok
    THEN disk' = Written(x) /\ unflushed' = 0
    ELSE UNCHANGED disk /\ unflushed' = n

Replaced(s, replace) == IF replace THEN IdsOf(s) ELSE {}

\* Mutant: outside a transaction, only the first chunk is written.
RowsAfterTorn(old, new, s, c) ==
    [v \in (DOMAIN rows \ old) \cup {index.len} |->
        IF v \in new THEN [source |-> s, text |-> <<c, v - index.len + 1>>]
        ELSE rows[v]]

\* The rows after replace_source or insert_chunks.
RowsAfter(old, new, s, c) ==
    [v \in (DOMAIN rows \ old) \cup new |->
        IF v \in new THEN [source |-> s, text |-> <<c, v - index.len + 1>>]
        ELSE rows[v]]

\* ingest: by add_document with replace, by add_text without (line 513).
Ingest(s, c, replace, ok) ==
    LET old == Replaced(s, replace)
        new == NewIds(index, c)
        n   == unflushed + Cardinality(new) + Cardinality(old)
    IN  /\ phase = "open"
        /\ index.len + ChunkCount[c] <= MaxVectors
        /\ new \cap (DOMAIN rows \ old) = {}       \* vector_id is UNIQUE
        /\ rows' = RowsAfter(old, new, s, c)
        /\ index' = Hide(InsertAll(index, model, c), old)
        /\ FlushIfDue(index', n, ok)
        /\ UNCHANGED <<metaModel, metaDims, metaEpoch, phase, model, built,
                       paired, faults>>

\* The transaction of ingest fails: the new vectors are hidden, not counted.
IngestFails(c) ==
    /\ phase = "open"
    /\ index.len + ChunkCount[c] <= MaxVectors
    /\ index' = Hide(InsertAll(index, model, c), NewIds(index, c))
    /\ UNCHANGED <<disks, phase, model, built, unflushed, paired, faults>>

\* delete_document.
Delete(s, ok) ==
    LET ids == IdsOf(s)
        n   == unflushed + Cardinality(ids \cap Visible(index))
    IN  /\ phase = "open"
        /\ rows' = [v \in DOMAIN rows \ ids |-> rows[v]]
        /\ index' = Hide(index, ids)
        /\ FlushIfDue(index', n, ok)
        /\ UNCHANGED <<metaModel, metaDims, metaEpoch, phase, model, built,
                       paired, faults>>

Flush ==
    /\ phase = "open"
    /\ disk' = Written(index)
    /\ unflushed' = 0
    /\ UNCHANGED <<rows, metaModel, metaDims, metaEpoch, phase, model, index,
                   built, paired, faults>>

(***************************************************************************)
(* rebuild_index, under the write lock from start to end.  A step that     *)
(* fails returns its error and leaves the handle open.                     *)
(***************************************************************************)
RebuildBuild ==
    /\ phase = "open" /\ phase' = "rebuilt"
    /\ \E e \in FreshEpochs, order \in RowOrders : built' = Build(e, model, order)
    /\ UNCHANGED <<disks, model, index, unflushed, paired, faults>>

RebuildRemap ==
    /\ phase = "reflushed" /\ phase' = "reremapped"
    /\ RemapIds
    /\ paired' = FALSE
    /\ UNCHANGED <<model, index, built, unflushed>>

\* set_meta(META_MODEL) and the swap of the index.
RebuildInstall ==
    /\ phase = "reremapped" /\ phase' = "open"
    /\ metaModel' = model
    /\ index' = built.index /\ built' = NoBuild
    /\ unflushed' = 0
    /\ paired' = TRUE
    /\ UNCHANGED <<disk, rows, metaDims, metaEpoch, model, faults>>

RebuildFails ==
    /\ phase \in Rebuilding /\ phase' = "open"
    /\ built' = NoBuild
    /\ UNCHANGED <<disks, model, index, unflushed, paired, faults>>

(***************************************************************************)
(* The end of a handle, and what happens to the file between two.          *)
(***************************************************************************)
\* Drop writes the index when it holds changes; `ok` as in flush_if_due.
Close(ok) ==
    /\ phase = "open"
    /\ disk' = IF unflushed > 0 /\ ok THEN Written(index) ELSE disk
    /\ Forget
    /\ UNCHANGED <<rows, metaModel, metaDims, metaEpoch, faults>>

Crash ==
    /\ phase \in {"open"} \cup Rebuilding
    /\ Forget
    /\ UNCHANGED <<disks, faults>>

\* The index file is deleted or damaged while the database is closed.
LoseFile ==
    /\ phase = "closed"
    /\ disk' = NoIndex
    /\ UNCHANGED <<rows, metaModel, metaDims, metaEpoch, phase, model, index,
                   built, unflushed, paired, faults>>

Next ==
    \/ \E m \in Models, readable \in BOOLEAN :
        \/ OpenCurrent(m, readable)
        \/ \E reembed \in BOOLEAN :
            \/ OpenFresh(m, reembed, readable)
            \/ OpenBuild(m, reembed, readable)
    \/ WriteBuilt("built", "flushed")
    \/ OpenRemap
    \/ RecordModel
    \/ RecordDims
    \/ RecordEpoch
    \/ OpenStops
    \/ \E s \in Sources, c \in Contents, replace, ok \in BOOLEAN :
        Ingest(s, c, replace, ok)
    \/ \E c \in Contents : IngestFails(c)
    \/ \E s \in Sources, ok \in BOOLEAN : Delete(s, ok)
    \/ Flush
    \/ RebuildBuild
    \/ WriteBuilt("rebuilt", "reflushed")
    \/ RebuildRemap
    \/ RebuildInstall
    \/ RebuildFails
    \/ \E ok \in BOOLEAN : Close(ok)
    \/ Crash
    \/ LoseFile

Spec == Init /\ [][Next]_vars
-----------------------------------------------------------------------------
(***************************************************************************)
(* Properties.                                                             *)
(***************************************************************************)

\* Every variable has its type; the fields of an index agree with its length.
TypeOK ==
    /\ IsIndex(disk) /\ IsIndex(index) /\ IsIndex(built.index)
    /\ built = [index |-> built.index, mapping |-> built.mapping]
    /\ built.mapping \in [Ids(built.index.len) -> Nat]
    /\ IsRows(rows)
    /\ metaModel \in Models \cup {None} /\ model \in Models \cup {None}
    /\ metaDims \in Dims \cup {None}
    /\ metaEpoch \in Epochs \cup {None}
    /\ phase \in Phases
    /\ unflushed \in Nat
    /\ paired \in BOOLEAN
    /\ faults \subseteq {"shadowed", "unrecorded"}

\* A search can return the chunk of row v, by the vector of the row's own text.
Finds(x, v) == v \in Visible(x) /\ x.vec[v].text = rows[v].text

\* ... and that vector was made by model m.
Matches(x, v, m) == v \in Visible(x) /\ x.vec[v] = Embed(m, rows[v].text)

\* query and resolve: on an open handle every stored chunk is returned by a
\* search, under the vector its own text has in the handle's model, whatever
\* crashes, failed writes, lost files and rebuilds came before.  The two
\* incidents in `faults` and the half-done rebuild_index that clears `paired`
\* are the only ways out of it; the runs on those show each of them.
SearchFindsEveryChunk ==
    phase = "open" /\ paired /\ faults = {} =>
        \A v \in DOMAIN rows : Matches(index, v, model)

\* What open_with_config takes for current (lines 249-263) is current: a file
\* that the next open would trust serves every row.
TrustedFileIsCurrent ==
    phase = "closed" /\ faults = {} =>
        \A m \in Models : IsCurrent(m, TRUE) =>
            \A v \in DOMAIN rows : Matches(disk, v, m)

\* ingest: the id the index gives to a new vector is no row's, so the UNIQUE
\* constraint never rejects a chunk and no row is answered by another's
\* vector.  No incident is excepted.
NewIdsAreFree ==
    phase = "open" => \A v \in DOMAIN rows : v < index.len

\* Drop and flush: when the counter of changes says there is nothing to write,
\* the file of this index on disk already answers as the index in memory does.
CleanMeansSaved ==
    phase = "open" /\ unflushed = 0 /\ disk.epoch = index.epoch =>
        /\ Visible(disk) = Visible(index)
        /\ \A v \in Visible(disk) : disk.vec[v] = index.vec[v]

\* The chunks of a table, read as the bag of ChunkStore.
BagOf(r) ==
    [s \in Sources |-> [t \in Texts |->
        Cardinality({v \in DOMAIN r : r[v] = [source |-> s, text |-> t]})]]

Stored == INSTANCE ChunkStore WITH
    Documents <- {Split(c) : c \in Contents},
    chunks <- BagOf(rows)

\* insert_chunks, replace_source, delete_by_source and remap_vector_ids: the
\* stored chunks change by whole documents and by nothing else; no crash, no
\* reopening, no rebuild and no failed write loses, doubles or mixes them.  A
\* text is added to what its source has; that it is not put in its place, as
\* the comment of add_text says, is AddingAgainReplaces.
ChunksChangeByDocuments == Stored!Spec

(***************************************************************************)
(* What the documentation says and the code does not keep.                 *)
(***************************************************************************)

\* "The index file is trusted only if it is the one the metadata was written
\* against" (raglite.rs:249): a file that would be trusted finds every row.
TrustedFileFindsEveryChunk ==
    phase = "closed" => \A m \in Models : IsCurrent(m, TRUE) =>
        \A v \in DOMAIN rows : Finds(disk, v)

\* "Adding the same source again replaces its earlier chunks." (raglite.rs:501, of
\* add_text): where a write adds chunks of a source, none of its older ones stays.
AddingAgainReplaces ==
    [][(phase = "open" /\ phase' = "open") =>
           \A v \in DOMAIN rows' \ DOMAIN rows, w \in DOMAIN rows' \cap DOMAIN rows :
               rows'[v].source # rows'[w].source]_vars
=============================================================================
