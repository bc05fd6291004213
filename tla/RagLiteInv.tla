----------------------------- MODULE RagLiteInv -----------------------------
(***************************************************************************)
(* The inductive invariant behind the safety properties of RagLite.  The   *)
(* properties speak of a closed database or of an open handle; the         *)
(* invariant says what every intermediate state of an open, of a rebuild   *)
(* and of a handle with unwritten changes keeps so that they hold.         *)
(***************************************************************************)
EXTENDS RagLite

\* Phases in which the process holds an index that rows refer to.
Holding == {"chosen", "remapped", "named", "sized", "open"} \cup Rebuilding

\* The model that made the vectors of a file at the recorded epoch.  Between
\* the remap and the record of the model it is not yet the recorded one.
FileModel == IF phase = "remapped" THEN model ELSE metaModel

\* The file is one the recorded epoch vouches for.
Vouched == disk.epoch # None /\ disk.epoch = metaEpoch

\* What each phase keeps in the process.
PhaseInv ==
    /\ phase # "closed" => model \in Models
    /\ phase \in Holding => index.epoch \in Epochs
    /\ phase \notin Holding => index = NoIndex
    /\ phase \notin {"open"} \cup Rebuilding => unflushed = 0 /\ paired
    /\ phase \in {"named", "sized", "open"} \cup Rebuilding => metaModel = model

\* What build_index computed still fits the rows, each of which it has once,
\* and its epoch is new.
BuiltInv ==
    /\ phase \in {"built", "flushed", "rebuilt", "reflushed"} =>
        /\ built.index.epoch \in Epochs
        /\ built.index.epoch \notin {metaEpoch, index.epoch}
        /\ built.index.len = Cardinality(DOMAIN rows)
        /\ built.index.deleted = {}
        /\ built.mapping \in [Ids(built.index.len) -> DOMAIN rows]
        /\ \A v, w \in Ids(built.index.len) :
            built.mapping[v] = built.mapping[w] => v = w
        /\ \A v \in Ids(built.index.len) :
            built.index.vec[v] = Embed(model, rows[built.mapping[v]].text)
    /\ phase \in {"built", "rebuilt"} => built.index.epoch # disk.epoch
    /\ phase \in {"flushed", "reflushed", "reremapped"} =>
        disk = Written(built.index)

\* After the remap of rebuild_index the rows fit the built index, which the
\* handle does not answer from yet.
RemappedInv ==
    phase = "reremapped" =>
        /\ ~paired
        /\ built.index.epoch \in Epochs
        /\ metaEpoch = built.index.epoch
        /\ DOMAIN rows = Ids(built.index.len)
        /\ \A v \in DOMAIN rows : Matches(built.index, v, model)

\* The index in memory answers for every row.
MemoryInv ==
    /\ phase \in Holding => \A v \in DOMAIN rows : v < index.len
    /\ phase \in Holding /\ paired /\ faults = {} =>
        \A v \in DOMAIN rows : Matches(index, v, model)
    /\ ~paired => index.epoch # metaEpoch

\* A vouched-for file answers for every row whose id it has, even when it has
\* not got them all: a later delete may leave only those.
FileInv ==
    faults = {} /\ Vouched =>
        \A v \in DOMAIN rows : v < disk.len => Matches(disk, v, FileModel)

\* ... and it has no id that the index in memory may still hand out.
LengthInv ==
    phase \in Holding /\ faults = {} /\ Vouched => disk.len <= index.len

\* A recorded epoch goes with a recorded model, a file that was trusted is of
\* the recorded model, and an epoch about to be recorded is not the file's.
RecordInv ==
    /\ phase = "remapped" => metaEpoch # None
    /\ faults = {} /\ metaEpoch # None /\ phase # "remapped" => metaModel # None
    /\ faults = {} /\ phase = "chosen" /\ DOMAIN rows # {} => metaModel = model
    /\ phase \in {"chosen", "named", "sized"} /\ metaEpoch = None =>
        index.epoch # disk.epoch

\* The counter of changes tells the truth.
CleanInv ==
    phase \in Holding /\ unflushed = 0 /\ disk.epoch = index.epoch =>
        /\ Visible(disk) = Visible(index)
        /\ \A v \in Visible(disk) : disk.vec[v] = index.vec[v]

IInv ==
    /\ TypeOK
    /\ PhaseInv
    /\ BuiltInv
    /\ RemappedInv
    /\ MemoryInv
    /\ FileInv
    /\ LengthInv
    /\ RecordInv
    /\ CleanInv
=============================================================================
