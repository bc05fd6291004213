---------------------------- MODULE RagLiteProofs ----------------------------
(***************************************************************************)
(* IInv of RagLiteInv is inductive, and the safety properties of RagLite   *)
(* follow from it, for every choice of the constants.                      *)
(***************************************************************************)
EXTENDS RagLiteInv, FunctionTheorems, FiniteSetTheorems, TLAPS

(***************************************************************************)
(* The operators on an index.                                              *)
(***************************************************************************)

\* An index of n vectors has n ids.
LEMMA IdsFinite ==
    ASSUME NEW n \in Nat
    PROVE  /\ IsFiniteSet(Ids(n))
           /\ Cardinality(Ids(n)) = n
           /\ Ids(n) \subseteq Nat
           /\ \A v : v \in Ids(n) <=> v \in Nat /\ v < n
<1>1. IsFiniteSet(0..(n - 1)) /\ Cardinality(0..(n - 1)) = n
    BY FS_Interval
<1> QED BY <1>1 DEF Ids

\* The file that cannot be loaded is an index of no vectors.
LEMMA NoIndexType == IsIndex(NoIndex) /\ NoIndex.epoch = None /\ NoIndex.len = 0
<1>1. Ids(0) = {}
    BY DEF Ids
<1> QED BY <1>1 DEF IsIndex, NoIndex

\* Nothing built is an empty index with an empty mapping.
LEMMA NoBuildType ==
    /\ NoBuild.index = NoIndex
    /\ NoBuild = [index |-> NoBuild.index, mapping |-> NoBuild.mapping]
    /\ NoBuild.mapping \in [Ids(NoBuild.index.len) -> Nat]
BY NoIndexType DEF NoBuild

\* A new index is empty and has the epoch it was given.
LEMMA NewIndexType ==
    ASSUME NEW e \in Epochs, NEW m \in Models
    PROVE  /\ IsIndex(NewIndex(e, m))
           /\ NewIndex(e, m).epoch = e
           /\ NewIndex(e, m).len = 0
           /\ NewIndex(e, m).deleted = {}
<1>1. Ids(0) = {}
    BY DEF Ids
<1>2. DimOf[m] \in Dims
    BY DEF Dims
<1> QED BY <1>1, <1>2 DEF IsIndex, NewIndex

\* A file holds the index that was written, or cannot be loaded when it was
\* empty.
LEMMA WrittenType ==
    ASSUME NEW x, IsIndex(x)
    PROVE  /\ IsIndex(Written(x))
           /\ x.len # 0 => Written(x) = x
           /\ x.len = 0 => Written(x) = NoIndex
BY NoIndexType DEF Written

\* Hiding ids changes neither the vectors nor the ids handed out.
LEMMA HideType ==
    ASSUME NEW x, IsIndex(x), NEW S
    PROVE  /\ IsIndex(Hide(x, S))
           /\ Hide(x, S).epoch = x.epoch
           /\ Hide(x, S).len = x.len
           /\ Hide(x, S).vec = x.vec
           /\ Visible(Hide(x, S)) = Visible(x) \ S
BY DEF IsIndex, Hide, Visible

\* The texts of a content's chunks are texts.
LEMMA SplitText ==
    ASSUME NEW c \in Contents, NEW i \in 1..ChunkCount[c]
    PROVE  <<c, i>> \in Texts
BY DEF Texts, Split

\* Inserting a content appends its chunks' vectors and keeps the others.
LEMMA InsertAllType ==
    ASSUME NEW x, IsIndex(x), NEW m \in Models, NEW c \in Contents
    PROVE  LET y == InsertAll(x, m, c) IN
           /\ IsIndex(y)
           /\ y.epoch = x.epoch
           /\ y.len = x.len + ChunkCount[c]
           /\ \A v \in Ids(x.len) : y.vec[v] = x.vec[v]
           /\ \A v \in NewIds(x, c) :
                /\ v \in Ids(y.len)
                /\ y.vec[v] = Embed(m, <<c, v - x.len + 1>>)
                /\ <<c, v - x.len + 1>> \in Texts
           /\ Visible(y) = Visible(x) \cup NewIds(x, c)
           /\ Visible(x) \cap NewIds(x, c) = {}
<1> DEFINE k == ChunkCount[c]
           n == x.len + k
           y == InsertAll(x, m, c)
<1>1. k \in Nat \ {0} /\ x.len \in Nat /\ n \in Nat
    BY ChunkCountAssumption DEF IsIndex
<1>2. \A v \in NewIds(x, c) : v \in Ids(n) /\ v >= x.len
    BY <1>1 DEF NewIds, Ids
<1>3. \A v \in NewIds(x, c) : <<c, v - x.len + 1>> \in Texts
    <2> TAKE v \in NewIds(x, c)
    <2>1. v - x.len + 1 \in 1..ChunkCount[c]
        BY <1>1 DEF NewIds
    <2> QED BY <2>1, SplitText
<1>4. Ids(n) = Ids(x.len) \cup NewIds(x, c)
    BY <1>1 DEF Ids, NewIds
<1>5. \A v \in Ids(n) : v < x.len <=> v \in Ids(x.len)
    BY <1>1 DEF Ids
<1>6. y = [epoch |-> x.epoch, dim |-> x.dim, len |-> n,
           vec |-> [v \in Ids(n) |->
                      IF v < x.len THEN x.vec[v]
                      ELSE Embed(m, <<c, v - x.len + 1>>)],
           deleted |-> x.deleted]
    BY DEF InsertAll
<1>7. y.vec \in [Ids(n) -> Vectors]
    <2>1. \A v \in Ids(x.len) : x.vec[v] \in Vectors
        BY DEF IsIndex
    <2>2. \A v \in NewIds(x, c) : Embed(m, <<c, v - x.len + 1>>) \in Vectors
        BY <1>3 DEF Embed, Vectors
    <2> QED BY <1>4, <1>5, <1>6, <2>1, <2>2
<1>8. IsIndex(y)
    BY <1>1, <1>4, <1>6, <1>7 DEF IsIndex
<1>9. \A v \in Ids(x.len) : y.vec[v] = x.vec[v]
    BY <1>4, <1>5, <1>6
<1>10. \A v \in NewIds(x, c) : y.vec[v] = Embed(m, <<c, v - x.len + 1>>)
    BY <1>1, <1>2, <1>6 DEF Ids
<1>11. Visible(y) = Visible(x) \cup NewIds(x, c)
    <2>1. NewIds(x, c) \cap Ids(x.len) = {}
        BY <1>1 DEF NewIds, Ids
    <2> QED BY <2>1, <1>4, <1>6 DEF Visible, IsIndex
<1>12. Visible(x) \cap NewIds(x, c) = {}
    BY <1>1 DEF NewIds, Ids, Visible
<1>13. y.epoch = x.epoch /\ y.len = n
    BY <1>6
<1> HIDE DEF y
<1>14. /\ y.len = x.len + ChunkCount[c]
       /\ \A v \in NewIds(x, c) : v \in Ids(y.len)
    BY <1>2, <1>13
<1> QED BY <1>3, <1>8, <1>9, <1>10, <1>11, <1>12, <1>13, <1>14 DEF y

\* A content has at least one chunk, so an insert hands out at least one id.
LEMMA NewIdsFinite ==
    ASSUME NEW x, IsIndex(x), NEW c \in Contents
    PROVE  /\ IsFiniteSet(NewIds(x, c))
           /\ Cardinality(NewIds(x, c)) = ChunkCount[c]
           /\ NewIds(x, c) \subseteq Nat
           /\ \A v \in NewIds(x, c) : v >= x.len
<1>1. x.len \in Nat /\ ChunkCount[c] \in Nat \ {0}
    BY ChunkCountAssumption DEF IsIndex
<1> DEFINE last == x.len + ChunkCount[c] - 1
<1>2. x.len \in Int /\ last \in Int /\ ~(x.len > last) /\ last - x.len + 1 = ChunkCount[c]
    BY <1>1
<1> HIDE DEF last
<1>3. IsFiniteSet(x.len..last) /\ Cardinality(x.len..last) = ChunkCount[c]
    BY <1>2, FS_Interval
<1> QED BY <1>1, <1>3 DEF NewIds, last

(***************************************************************************)
(* open_with_config.                                                       *)
(***************************************************************************)

\* A trusted file holds every row under the model that opens it.
LEMMA TrustedMatches ==
    ASSUME TypeOK, FileInv, RecordInv, phase = "closed", faults = {},
           NEW m \in Models, NEW readable \in BOOLEAN, IsCurrent(m, readable)
    PROVE  \A v \in DOMAIN rows : v < disk.len /\ Matches(disk, v, m)
<1>1. Vouched
    BY DEF IsCurrent, Loads, Vouched
<1>2. \A v \in DOMAIN rows : v < disk.len
    BY DEF IsCurrent, Behind, TypeOK, IsIndex, IsRows
<1>3. metaModel = m /\ FileModel = m
    BY <1>1 DEF IsCurrent, ModelChanged, RecordInv, Vouched, FileModel
<1> QED BY <1>1, <1>2, <1>3 DEF FileInv

\* A database that has not been opened yet satisfies the invariant.
LEMMA InitInv == Init => IInv
<1> SUFFICES ASSUME Init PROVE IInv
    OBVIOUS
<1>1. TypeOK
    BY NoIndexType, NoBuildType, InitialRowsAssumption DEF Init, TypeOK, Phases
<1>2. PhaseInv
    BY DEF Init, PhaseInv, Holding, Rebuilding
<1>3. BuiltInv /\ RemappedInv
    BY DEF Init, BuiltInv, RemappedInv
<1>4. MemoryInv /\ LengthInv /\ CleanInv
    BY DEF Init, MemoryInv, LengthInv, CleanInv, Holding, Rebuilding
<1>5. FileInv /\ RecordInv
    BY NoIndexType DEF Init, FileInv, RecordInv, Vouched
<1> QED BY <1>1, <1>2, <1>3, <1>4, <1>5 DEF IInv

\* A trusted file becomes the index in memory and answers for every row.
LEMMA OpenCurrentInv ==
    ASSUME IInv, NEW m \in Models, NEW readable \in BOOLEAN,
           OpenCurrent(m, readable)
    PROVE  IInv'
<1> USE DEF OpenCurrent, Accepts, disks
<1>1. TypeOK'
    BY DEF IInv, TypeOK, Phases, Opening
<1>2. disk.epoch \in Epochs /\ metaEpoch # None
    BY DEF IInv, TypeOK, IsIndex, IsCurrent, Loads
<1>3. PhaseInv'
    BY <1>2 DEF IInv, PhaseInv, Holding, Rebuilding
<1>4. BuiltInv' /\ RemappedInv'
    BY DEF BuiltInv, RemappedInv
<1>5. MemoryInv'
    <2>1. \A v \in DOMAIN rows : v < disk.len
        BY DEF IInv, IsCurrent, Behind, TypeOK, IsIndex, IsRows
    <2>2. faults = {} => \A v \in DOMAIN rows : Matches(disk, v, m)
        BY TrustedMatches DEF IInv
    <2>3. paired
        BY DEF IInv, PhaseInv, Rebuilding
    <2> QED BY <2>1, <2>2, <2>3 DEF MemoryInv, Matches, Visible
<1>6. FileInv'
    BY DEF IInv, FileInv, Vouched, FileModel, Matches
<1>7. LengthInv'
    BY DEF IInv, TypeOK, IsIndex, LengthInv
<1>8. RecordInv'
    BY <1>2 DEF IInv, RecordInv, IsCurrent, ModelChanged
<1>9. CleanInv'
    BY DEF CleanInv, Visible
<1> QED BY <1>1, <1>3, <1>4, <1>5, <1>6, <1>7, <1>8, <1>9 DEF IInv

\* With no rows an empty index answers for all of them.
LEMMA OpenFreshInv ==
    ASSUME IInv, NEW m \in Models, NEW reembed \in BOOLEAN,
           NEW readable \in BOOLEAN, OpenFresh(m, reembed, readable)
    PROVE  IInv'
<1> USE DEF OpenFresh, Accepts, disks
<1> PICK e \in FreshEpochs : index' = NewIndex(e, m)
    OBVIOUS
<1>1. /\ e \in Epochs /\ e # disk.epoch /\ e # metaEpoch
      /\ IsIndex(index') /\ index'.epoch = e /\ index'.len = 0 /\ index'.deleted = {}
    BY NewIndexType DEF FreshEpochs
<1>2. TypeOK'
    BY <1>1 DEF IInv, TypeOK, Phases, Opening
<1>3. PhaseInv'
    BY <1>1 DEF IInv, PhaseInv, Holding, Rebuilding
<1>4. BuiltInv' /\ RemappedInv'
    BY DEF BuiltInv, RemappedInv
<1>5. MemoryInv' /\ FileInv'
    BY DEF IInv, PhaseInv, MemoryInv, FileInv, Rebuilding
<1>6. LengthInv'
    BY <1>1 DEF LengthInv, Vouched
<1>7. RecordInv'
    BY <1>1 DEF IInv, RecordInv
<1>8. CleanInv'
    BY <1>1 DEF CleanInv
<1> QED BY <1>2, <1>3, <1>4, <1>5, <1>6, <1>7, <1>8 DEF IInv

\* What build_index returns fits the rows and the model.
LEMMA BuildFits ==
    ASSUME TypeOK, NEW e \in Epochs, NEW m \in Models, NEW order \in RowOrders
    PROVE  LET b == Build(e, m, order) IN
           /\ IsIndex(b.index)
           /\ b = [index |-> b.index, mapping |-> b.mapping]
           /\ b.mapping \in [Ids(b.index.len) -> Nat]
           /\ b.index.epoch = e
           /\ b.index.len = Cardinality(DOMAIN rows)
           /\ b.index.deleted = {}
           /\ b.mapping \in [Ids(b.index.len) -> DOMAIN rows]
           /\ \A v, w \in Ids(b.index.len) : b.mapping[v] = b.mapping[w] => v = w
           /\ \A v \in Ids(b.index.len) :
                b.index.vec[v] = Embed(m, rows[b.mapping[v]].text)
<1> DEFINE n == Cardinality(DOMAIN rows)
<1>1. n \in Nat
    BY FS_CardinalityType DEF TypeOK, IsRows
<1>2. order \in [Ids(n) -> DOMAIN rows]
    BY DEF RowOrders
<1>3. \A v \in Ids(n) : Embed(m, rows[order[v]].text) \in Vectors
    BY <1>2 DEF TypeOK, IsRows, Chunks, Embed, Vectors
<1>4. DimOf[m] \in Dims
    BY DEF Dims
<1>5. Build(e, m, order) =
        [index |-> [epoch |-> e, dim |-> DimOf[m], len |-> n,
                    vec |-> [v \in Ids(n) |-> Embed(m, rows[order[v]].text)],
                    deleted |-> {}],
         mapping |-> order]
    BY <1>2 DEF Build
<1>6. order \in [Ids(n) -> Nat]
    BY <1>2 DEF TypeOK, IsRows
<1>7. \A v, w \in Ids(n) : order[v] = order[w] => v = w
    <2>1. \A v, w \in Ids(n) : v < w => order[v] < order[w]
        BY <1>2 DEF RowOrders
    <2> QED BY <1>1, <1>6, <2>1, IdsFinite
<1> HIDE DEF n
<1> QED BY <1>1, <1>2, <1>3, <1>4, <1>5, <1>6, <1>7 DEF IsIndex, n

\* open: the built index has a new epoch and fits the rows.
LEMMA OpenBuildInv ==
    ASSUME IInv, NEW m \in Models, NEW reembed \in BOOLEAN,
           NEW readable \in BOOLEAN, OpenBuild(m, reembed, readable)
    PROVE  IInv'
<1> USE DEF OpenBuild, Accepts, disks
<1> PICK e \in FreshEpochs, order \in RowOrders : built' = Build(e, m, order)
    OBVIOUS
<1>1. e \in Epochs /\ e # disk.epoch /\ e # metaEpoch /\ e # index.epoch
    BY DEF FreshEpochs
<1>2. /\ IsIndex(built'.index)
      /\ built' = [index |-> built'.index, mapping |-> built'.mapping]
      /\ built'.mapping \in [Ids(built'.index.len) -> Nat]
      /\ built'.index.epoch = e
      /\ built'.index.len = Cardinality(DOMAIN rows)
      /\ built'.index.deleted = {}
      /\ built'.mapping \in [Ids(built'.index.len) -> DOMAIN rows]
      /\ \A v, w \in Ids(built'.index.len) :
            built'.mapping[v] = built'.mapping[w] => v = w
      /\ \A v \in Ids(built'.index.len) :
            built'.index.vec[v] = Embed(m, rows[built'.mapping[v]].text)
    BY <1>1, BuildFits DEF IInv
<1>3. TypeOK'
    BY <1>2 DEF IInv, TypeOK, Phases, Opening
<1>4. PhaseInv'
    BY DEF IInv, PhaseInv, Holding, Rebuilding
<1>5. BuiltInv' /\ RemappedInv'
    BY <1>1, <1>2 DEF BuiltInv, RemappedInv
<1>6. MemoryInv' /\ LengthInv' /\ CleanInv'
    BY DEF IInv, PhaseInv, MemoryInv, LengthInv, CleanInv, Holding, Rebuilding
<1>7. FileInv'
    BY DEF IInv, FileInv, Vouched, FileModel, Matches
<1>8. RecordInv'
    BY DEF IInv, RecordInv
<1> QED BY <1>3, <1>4, <1>5, <1>6, <1>7, <1>8 DEF IInv

\* The new file has an epoch that nothing has recorded, so no property of a
\* vouched-for file is at stake.
LEMMA WriteBuiltInv ==
    ASSUME IInv,
           NEW from, NEW to,
           \/ from = "built" /\ to = "flushed"
           \/ from = "rebuilt" /\ to = "reflushed",
           WriteBuilt(from, to)
    PROVE  IInv'
<1> USE DEF WriteBuilt
<1>1. /\ IsIndex(disk')
      /\ disk'.epoch \in {None, built.index.epoch}
    BY WrittenType, NoIndexType DEF IInv, TypeOK
<1>2. built.index.epoch \in Epochs /\ built.index.epoch \notin {metaEpoch, index.epoch}
    BY DEF IInv, BuiltInv
<1>3. TypeOK'
    BY <1>1 DEF IInv, TypeOK, Phases, Opening, Rebuilding
<1>4. PhaseInv'
    BY DEF IInv, PhaseInv, Holding, Rebuilding
<1>5. BuiltInv' /\ RemappedInv'
    BY DEF IInv, BuiltInv, RemappedInv
<1>6. MemoryInv'
    BY DEF IInv, MemoryInv, Holding, Rebuilding, Matches
<1>7. FileInv' /\ LengthInv'
    BY <1>1, <1>2 DEF FileInv, LengthInv, Vouched
<1>8. RecordInv'
    BY DEF IInv, RecordInv
<1>9. CleanInv'
    BY <1>1, <1>2, NoneAssumption DEF IInv, PhaseInv, CleanInv, Holding, Rebuilding
<1> QED BY <1>3, <1>4, <1>5, <1>6, <1>7, <1>8, <1>9 DEF IInv

\* remap_vector_ids makes the rows fit the built index.
LEMMA RemapFits ==
    ASSUME IInv, phase \in {"flushed", "reflushed"}, RemapIds
    PROVE  /\ IsRows(rows')
           /\ DOMAIN rows' = Ids(built.index.len)
           /\ \A v \in Ids(built.index.len) :
                /\ v < built.index.len
                /\ v \in Visible(built.index)
                /\ built.index.vec[v] = Embed(model, rows'[v].text)
           /\ built.index.len = Cardinality(DOMAIN rows)
           /\ \/ disk = built.index
              \/ disk = NoIndex /\ built.index.len = 0
<1>1. /\ built.index.len \in Nat
      /\ built.index.deleted = {}
      /\ built.index.len = Cardinality(DOMAIN rows)
      /\ built.mapping \in [Ids(built.index.len) -> DOMAIN rows]
      /\ \A v \in Ids(built.index.len) :
            built.index.vec[v] = Embed(model, rows[built.mapping[v]].text)
    BY DEF IInv, BuiltInv, TypeOK, IsIndex
<1>2. /\ rows' = [v \in Ids(built.index.len) |-> rows[built.mapping[v]]]
      /\ DOMAIN rows' = Ids(built.index.len)
    BY <1>1 DEF RemapIds, Remapped
<1>3. IsRows(rows')
    BY <1>1, <1>2, IdsFinite DEF IInv, TypeOK, IsRows
<1>4. \A v \in Ids(built.index.len) : v < built.index.len
    BY <1>1, IdsFinite
<1>5. disk = built.index \/ (disk = NoIndex /\ built.index.len = 0)
    BY DEF IInv, BuiltInv, Written
<1> QED BY <1>1, <1>2, <1>3, <1>4, <1>5 DEF Visible

\* open: the rows move to the ids of the built index, which the file
\* already holds.
LEMMA OpenRemapInv ==
    ASSUME IInv, OpenRemap
    PROVE  IInv'
<1> USE DEF OpenRemap, RemapIds
<1>1. /\ IsRows(rows')
      /\ DOMAIN rows' = Ids(built.index.len)
      /\ \A v \in Ids(built.index.len) :
            /\ v < built.index.len
            /\ v \in Visible(built.index)
            /\ built.index.vec[v] = Embed(model, rows'[v].text)
      /\ \/ disk = built.index
         \/ disk = NoIndex /\ built.index.len = 0
    BY RemapFits
<1>2. built.index.epoch \in Epochs /\ built.index.len \in Nat
    BY DEF IInv, BuiltInv, TypeOK, IsIndex
<1>3. TypeOK'
    BY <1>1, <1>2, NoBuildType, NoIndexType DEF IInv, TypeOK, Phases, Opening
<1>4. PhaseInv'
    BY <1>2 DEF IInv, PhaseInv, Holding, Rebuilding
<1>5. BuiltInv' /\ RemappedInv'
    BY DEF BuiltInv, RemappedInv
<1>6. MemoryInv'
    BY <1>1 DEF IInv, PhaseInv, MemoryInv, Rebuilding, Matches, Visible
<1>7. FileInv'
    BY <1>1, NoIndexType DEF FileInv, Vouched, FileModel, Matches, Visible
<1>8. LengthInv'
    BY <1>1, <1>2, NoIndexType DEF LengthInv
<1>9. RecordInv'
    BY <1>2, NoneAssumption DEF RecordInv
<1>10. CleanInv'
    BY <1>1, <1>2, NoIndexType, NoneAssumption DEF CleanInv, Visible
<1> QED BY <1>3, <1>4, <1>5, <1>6, <1>7, <1>8, <1>9, <1>10 DEF IInv

\* Recording the model settles which model the file is of.
LEMMA RecordModelInv ==
    ASSUME IInv, RecordModel
    PROVE  IInv'
<1> USE DEF RecordModel
<1>1. TypeOK'
    BY DEF IInv, TypeOK, Phases, Opening
<1>2. PhaseInv'
    BY DEF IInv, PhaseInv, Holding, Rebuilding
<1>3. BuiltInv' /\ RemappedInv'
    BY DEF BuiltInv, RemappedInv
<1>4. MemoryInv'
    BY DEF IInv, MemoryInv, Holding, Matches
<1>5. FileInv'
    <2> SUFFICES ASSUME faults = {}, Vouched, NEW v \in DOMAIN rows, v < disk.len
                 PROVE  Matches(disk, v, model)
        BY DEF FileInv, Vouched, FileModel, Matches
    <2>1. CASE phase = "remapped"
        BY <2>1 DEF IInv, FileInv, FileModel
    <2>2. CASE phase = "chosen"
        BY <2>2 DEF IInv, FileInv, FileModel, RecordInv
    <2> QED BY <2>1, <2>2
<1>6. LengthInv'
    BY DEF IInv, LengthInv, Vouched, Holding
<1>7. RecordInv'
    BY NoneAssumption DEF IInv, RecordInv, PhaseInv
<1>8. CleanInv'
    BY DEF IInv, CleanInv, Holding, Visible
<1> QED BY <1>1, <1>2, <1>3, <1>4, <1>5, <1>6, <1>7, <1>8 DEF IInv

\* Recording the dimensions touches nothing the invariant speaks of.
LEMMA RecordDimsInv ==
    ASSUME IInv, RecordDims
    PROVE  IInv'
<1> USE DEF RecordDims
<1>1. TypeOK'
    BY DEF IInv, TypeOK, PhaseInv, Phases, Opening, Dims
<1>2. PhaseInv'
    BY DEF IInv, PhaseInv, Holding, Rebuilding
<1>3. BuiltInv' /\ RemappedInv'
    BY DEF BuiltInv, RemappedInv
<1>4. MemoryInv'
    BY DEF IInv, MemoryInv, Holding, Matches
<1>5. FileInv' /\ LengthInv'
    BY DEF IInv, FileInv, LengthInv, Vouched, FileModel, Matches, Holding
<1>6. RecordInv'
    BY DEF IInv, RecordInv
<1>7. CleanInv'
    BY DEF IInv, CleanInv, Holding, Visible
<1> QED BY <1>1, <1>2, <1>3, <1>4, <1>5, <1>6, <1>7 DEF IInv

\* An epoch recorded now is that of an index the file does not hold.
LEMMA RecordEpochInv ==
    ASSUME IInv, RecordEpoch
    PROVE  IInv'
<1> USE DEF RecordEpoch
<1>1. index.epoch \in Epochs /\ paired
    BY DEF IInv, PhaseInv, Holding, Rebuilding
<1>2. TypeOK'
    BY DEF IInv, TypeOK, IsIndex, Phases
<1>3. PhaseInv'
    BY DEF IInv, PhaseInv, Holding, Rebuilding
<1>4. BuiltInv' /\ RemappedInv'
    BY DEF BuiltInv, RemappedInv
<1>5. MemoryInv'
    BY <1>1 DEF IInv, MemoryInv, Holding, Matches
<1>6. FileInv' /\ LengthInv'
    BY DEF IInv, FileInv, LengthInv, RecordInv, Vouched, FileModel, Matches, Holding
<1>7. RecordInv'
    BY <1>1, NoneAssumption DEF IInv, PhaseInv, RecordInv
<1>8. CleanInv'
    BY DEF IInv, CleanInv, Holding, Visible
<1> QED BY <1>2, <1>3, <1>4, <1>5, <1>6, <1>7, <1>8 DEF IInv

(***************************************************************************)
(* The ends of a handle.                                                   *)
(***************************************************************************)

\* Forgetting what the process held keeps the parts of IInv that are about it.
LEMMA ForgetInv ==
    ASSUME IInv, Forget, UNCHANGED rows
    PROVE  /\ PhaseInv' /\ BuiltInv' /\ RemappedInv'
           /\ MemoryInv' /\ LengthInv' /\ CleanInv'
<1> USE DEF Forget
<1>1. PhaseInv'
    BY DEF PhaseInv, Holding, Rebuilding
<1>2. BuiltInv' /\ RemappedInv'
    BY DEF BuiltInv, RemappedInv
<1>3. MemoryInv' /\ LengthInv' /\ CleanInv'
    BY DEF MemoryInv, LengthInv, CleanInv, Holding, Rebuilding
<1> QED BY <1>1, <1>2, <1>3

\* Stopping between the remap and the record of another model is the incident
\* "unrecorded"; stopping anywhere else leaves the file of the recorded model.
LEMMA OpenStopsInv ==
    ASSUME IInv, OpenStops
    PROVE  IInv'
<1> USE DEF OpenStops, disks
<1>1. TypeOK'
    BY NoBuildType, NoIndexType DEF Forget, IInv, TypeOK, Phases
<1>2. phase' = "closed"
    BY DEF Forget
<1>3. CASE phase = "remapped" /\ metaModel # model
    BY <1>1, <1>2, <1>3, ForgetInv DEF IInv, FileInv, RecordInv
<1>4. CASE phase = "remapped" /\ metaModel = model
    <2>1. FileInv'
        BY <1>2, <1>4 DEF IInv, FileInv, Vouched, FileModel, Matches
    <2>2. RecordInv'
        BY <1>2, <1>4, NoneAssumption DEF IInv, RecordInv, PhaseInv
    <2> QED BY <1>1, <2>1, <2>2, ForgetInv DEF IInv
<1>5. CASE phase # "remapped"
    <2>1. FileInv'
        BY <1>2, <1>5 DEF IInv, FileInv, Vouched, FileModel, Matches
    <2>2. RecordInv'
        BY <1>2, <1>5 DEF IInv, RecordInv
    <2> QED BY <1>1, <2>1, <2>2, ForgetInv DEF IInv
<1> QED BY <1>3, <1>4, <1>5

\* A crash forgets the process; what is on disk was already consistent.
LEMMA CrashInv ==
    ASSUME IInv, Crash
    PROVE  IInv'
<1> USE DEF Crash, disks
<1>1. TypeOK'
    BY NoBuildType, NoIndexType DEF Forget, IInv, TypeOK, Phases
<1>2. phase' = "closed" /\ phase # "remapped"
    BY DEF Forget, Rebuilding
<1>3. FileInv'
    BY <1>2 DEF IInv, FileInv, Vouched, FileModel, Matches
<1>4. RecordInv'
    BY <1>2 DEF IInv, RecordInv
<1> QED BY <1>1, <1>3, <1>4, ForgetInv DEF IInv

\* The index of an open handle, once written, answers for every row.
LEMMA WrittenFits ==
    ASSUME IInv, phase = "open"
    PROVE  /\ IsIndex(Written(index))
           /\ Written(index).len <= index.len
           /\ Written(index).epoch \in {None, index.epoch}
           /\ faults = {} /\ Written(index).epoch # None /\ Written(index).epoch = metaEpoch
                => \A v \in DOMAIN rows : Matches(Written(index), v, metaModel)
<1>1. IsIndex(index) /\ index.len \in Nat
    BY DEF IInv, TypeOK, IsIndex
<1>2. \/ Written(index) = index
      \/ Written(index) = NoIndex /\ NoIndex.epoch = None /\ NoIndex.len = 0
    BY NoIndexType DEF Written
<1>3. IsIndex(Written(index))
    BY <1>1, WrittenType
<1>4. ASSUME faults = {}, Written(index).epoch # None,
             Written(index).epoch = metaEpoch
      PROVE  \A v \in DOMAIN rows : Matches(Written(index), v, metaModel)
    BY <1>2, <1>4 DEF IInv, MemoryInv, PhaseInv, Holding
<1> QED BY <1>1, <1>2, <1>3, <1>4

\* Drop leaves either the file there was or the index of the handle.
LEMMA CloseInv ==
    ASSUME IInv, NEW ok \in BOOLEAN, Close(ok)
    PROVE  IInv'
<1> USE DEF Close
<1>1. TypeOK'
    BY WrittenFits, NoBuildType, NoIndexType DEF Forget, IInv, TypeOK, Phases
<1>2. phase' = "closed" /\ phase = "open"
    BY DEF Forget
<1>3. FileInv'
    <2>1. CASE disk' = disk
        BY <1>2, <2>1 DEF IInv, FileInv, Vouched, FileModel, Matches
    <2>2. CASE disk' = Written(index)
        BY <1>2, <2>2, WrittenFits DEF FileInv, Vouched, FileModel, Matches
    <2> QED BY <2>1, <2>2
<1>4. RecordInv'
    BY <1>2 DEF IInv, RecordInv
<1> QED BY <1>1, <1>3, <1>4, ForgetInv DEF IInv

\* A lost file is never trusted.
LEMMA LoseFileInv ==
    ASSUME IInv, LoseFile
    PROVE  IInv'
<1> USE DEF LoseFile
<1>1. TypeOK'
    BY NoIndexType DEF IInv, TypeOK
<1>2. PhaseInv' /\ BuiltInv' /\ RemappedInv'
    BY DEF IInv, PhaseInv, BuiltInv, RemappedInv, Holding, Rebuilding
<1>3. MemoryInv' /\ LengthInv' /\ CleanInv'
    BY DEF IInv, PhaseInv, MemoryInv, LengthInv, CleanInv, Holding, Rebuilding
<1>4. FileInv' /\ RecordInv'
    BY NoIndexType DEF IInv, FileInv, RecordInv, Vouched
<1> QED BY <1>1, <1>2, <1>3, <1>4 DEF IInv

\* flush makes the file the index in memory.
LEMMA FlushInv ==
    ASSUME IInv, Flush
    PROVE  IInv'
<1> USE DEF Flush
<1>1. TypeOK'
    BY WrittenFits DEF IInv, TypeOK
<1>2. PhaseInv' /\ BuiltInv' /\ RemappedInv'
    BY DEF IInv, PhaseInv, BuiltInv, RemappedInv, Holding, Rebuilding
<1>3. MemoryInv'
    BY DEF IInv, MemoryInv, Matches
<1>4. FileInv' /\ LengthInv'
    BY WrittenFits DEF FileInv, LengthInv, Vouched, FileModel, Matches
<1>5. RecordInv'
    BY DEF IInv, RecordInv
<1>6. CleanInv'
    BY NoIndexType, NoneAssumption
    DEF IInv, PhaseInv, CleanInv, Written, Visible, Holding
<1> QED BY <1>1, <1>2, <1>3, <1>4, <1>5, <1>6 DEF IInv

(***************************************************************************)
(* rebuild_index.                                                          *)
(***************************************************************************)
\* rebuild_index: the built index has a new epoch and fits the rows.
LEMMA RebuildBuildInv ==
    ASSUME IInv, RebuildBuild
    PROVE  IInv'
<1> USE DEF RebuildBuild, disks
<1> PICK e \in FreshEpochs, order \in RowOrders : built' = Build(e, model, order)
    OBVIOUS
<1>1. e \in Epochs /\ e # disk.epoch /\ e # metaEpoch /\ e # index.epoch
    BY DEF FreshEpochs
<1>2. model \in Models
    BY DEF IInv, PhaseInv
<1>3. /\ IsIndex(built'.index)
      /\ built' = [index |-> built'.index, mapping |-> built'.mapping]
      /\ built'.mapping \in [Ids(built'.index.len) -> Nat]
      /\ built'.index.epoch = e
      /\ built'.index.len = Cardinality(DOMAIN rows)
      /\ built'.index.deleted = {}
      /\ built'.mapping \in [Ids(built'.index.len) -> DOMAIN rows]
      /\ \A v, w \in Ids(built'.index.len) :
            built'.mapping[v] = built'.mapping[w] => v = w
      /\ \A v \in Ids(built'.index.len) :
            built'.index.vec[v] = Embed(model, rows[built'.mapping[v]].text)
    BY <1>1, <1>2, BuildFits DEF IInv
<1>4. TypeOK'
    BY <1>3 DEF IInv, TypeOK, Phases, Rebuilding
<1>5. PhaseInv'
    BY DEF IInv, PhaseInv, Holding, Rebuilding
<1>6. BuiltInv' /\ RemappedInv'
    BY <1>1, <1>3 DEF BuiltInv, RemappedInv
<1>7. MemoryInv'
    BY DEF IInv, MemoryInv, Holding, Rebuilding, Matches
<1>8. FileInv' /\ LengthInv'
    BY DEF IInv, FileInv, LengthInv, Vouched, FileModel, Matches, Holding
<1>9. RecordInv' /\ CleanInv'
    BY DEF IInv, RecordInv, CleanInv, Holding, Visible
<1> QED BY <1>4, <1>5, <1>6, <1>7, <1>8, <1>9 DEF IInv

\* There are no more rows than the index in memory has ids, so the ids that the
\* rows move to are ids it has.
LEMMA RebuildRemapInv ==
    ASSUME IInv, RebuildRemap
    PROVE  IInv'
<1> USE DEF RebuildRemap, RemapIds
<1>1. /\ IsRows(rows')
      /\ DOMAIN rows' = Ids(built.index.len)
      /\ \A v \in Ids(built.index.len) :
            /\ v < built.index.len
            /\ v \in Visible(built.index)
            /\ built.index.vec[v] = Embed(model, rows'[v].text)
      /\ built.index.len = Cardinality(DOMAIN rows)
      /\ \/ disk = built.index
         \/ disk = NoIndex /\ built.index.len = 0
    BY RemapFits
<1>2. /\ built.index.epoch \in Epochs /\ built.index.len \in Nat
      /\ built.index.epoch # index.epoch
    BY DEF IInv, BuiltInv, TypeOK, IsIndex
<1>3. built.index.len <= index.len
    <2>1. DOMAIN rows \in SUBSET Ids(index.len)
        BY IdsFinite DEF IInv, TypeOK, IsRows, IsIndex, MemoryInv, Holding, Rebuilding
    <2>2. index.len \in Nat
        BY DEF IInv, TypeOK, IsIndex
    <2>3. IsFiniteSet(Ids(index.len)) /\ Cardinality(Ids(index.len)) = index.len
        BY <2>2, IdsFinite
    <2>4. Cardinality(DOMAIN rows) <= Cardinality(Ids(index.len))
        BY <2>1, <2>3, FS_Subset
    <2> QED BY <1>1, <2>3, <2>4
<1>4. TypeOK'
    BY <1>1, <1>2 DEF IInv, TypeOK, Phases, Rebuilding
<1>5. PhaseInv'
    BY DEF IInv, PhaseInv, Holding, Rebuilding
<1>6. BuiltInv' /\ RemappedInv'
    BY <1>1, <1>2 DEF IInv, BuiltInv, RemappedInv, Matches, Visible
<1>7. MemoryInv'
    <2>1. \A v \in Ids(built.index.len) : v < index.len
        BY <1>2, <1>3, IdsFinite DEF IInv, TypeOK, IsIndex
    <2> QED BY <1>1, <1>2, <2>1 DEF MemoryInv
<1>8. FileInv'
    BY <1>1, NoIndexType DEF IInv, PhaseInv, FileInv, Vouched, FileModel, Matches, Visible, Rebuilding
<1>9. LengthInv'
    BY <1>1, <1>3, NoIndexType DEF IInv, TypeOK, IsIndex, LengthInv
<1>10. RecordInv'
    BY <1>2, NoneAssumption DEF IInv, PhaseInv, RecordInv, Rebuilding
<1>11. CleanInv'
    BY DEF IInv, CleanInv, Holding, Rebuilding, Visible
<1> QED BY <1>4, <1>5, <1>6, <1>7, <1>8, <1>9, <1>10, <1>11 DEF IInv

\* rebuild_index: the handle answers from the index the rows were moved to.
LEMMA RebuildInstallInv ==
    ASSUME IInv, RebuildInstall
    PROVE  IInv'
<1> USE DEF RebuildInstall
<1>1. /\ IsIndex(built.index)
      /\ built.index.epoch \in Epochs /\ built.index.len \in Nat
      /\ metaEpoch = built.index.epoch
      /\ DOMAIN rows = Ids(built.index.len)
      /\ \A v \in DOMAIN rows : Matches(built.index, v, model)
      /\ \/ disk = built.index
         \/ disk = NoIndex /\ built.index.len = 0
    BY DEF IInv, TypeOK, IsIndex, BuiltInv, RemappedInv, Written
<1>2. TypeOK'
    BY <1>1, NoBuildType, NoIndexType DEF IInv, TypeOK, Phases
<1>3. PhaseInv'
    BY <1>1 DEF IInv, PhaseInv, Holding, Rebuilding
<1>4. BuiltInv' /\ RemappedInv'
    BY DEF BuiltInv, RemappedInv
<1>5. MemoryInv'
    BY <1>1, IdsFinite DEF MemoryInv, Matches
<1>6. FileInv' /\ LengthInv'
    BY <1>1, NoIndexType DEF FileInv, LengthInv, Vouched, FileModel, Matches
<1>7. RecordInv'
    BY NoneAssumption DEF IInv, PhaseInv, RecordInv
<1>8. CleanInv'
    BY <1>1, NoIndexType, NoneAssumption DEF CleanInv, Visible
<1> QED BY <1>2, <1>3, <1>4, <1>5, <1>6, <1>7, <1>8 DEF IInv

\* rebuild_index: an error keeps the index in memory as it was.
LEMMA RebuildFailsInv ==
    ASSUME IInv, RebuildFails
    PROVE  IInv'
<1> USE DEF RebuildFails, disks
<1>1. TypeOK'
    BY NoBuildType, NoIndexType DEF IInv, TypeOK, Phases
<1>2. PhaseInv'
    BY DEF IInv, PhaseInv, Holding, Rebuilding
<1>3. BuiltInv' /\ RemappedInv'
    BY DEF BuiltInv, RemappedInv
<1>4. MemoryInv'
    BY DEF IInv, MemoryInv, Holding, Matches
<1>5. FileInv' /\ LengthInv'
    BY DEF IInv, FileInv, LengthInv, Vouched, FileModel, Matches, Holding, Rebuilding
<1>6. RecordInv' /\ CleanInv'
    BY DEF IInv, RecordInv, CleanInv, Holding, Visible, Rebuilding
<1> QED BY <1>1, <1>2, <1>3, <1>4, <1>5, <1>6 DEF IInv

(***************************************************************************)
(* Writes.                                                                 *)
(***************************************************************************)

\* A write keeps IInv when the rows it keeps keep their vectors, the rows it
\* adds have vectors under ids that the index had not handed out, and it
\* counts 0 changes only when what a search may return is the same.
LEMMA WriteInv ==
    ASSUME IInv, phase = "open",
           UNCHANGED <<metaModel, metaDims, metaEpoch, phase, model, built,
                       paired, faults>>,
           NEW n \in Nat,
           \/ disk' = Written(index') /\ unflushed' = 0
           \/ disk' = disk /\ unflushed' = n,
           IsRows(rows'), IsIndex(index'),
           index'.epoch = index.epoch, index.len <= index'.len,
           \A v \in Visible(index) : index'.vec[v] = index.vec[v],
           \A v \in DOMAIN rows' :
              \/ /\ v \in DOMAIN rows /\ rows'[v] = rows[v]
                 /\ v \in Visible(index) => v \in Visible(index')
              \/ /\ v >= index.len /\ v < index'.len /\ v \in Visible(index')
                 /\ index'.vec[v] = Embed(model, rows'[v].text),
           n = 0 => unflushed = 0 /\ Visible(index') = Visible(index)
    PROVE  IInv'
<1>1. IsIndex(disk') /\ unflushed' \in Nat
    BY WrittenType DEF IInv, TypeOK
<1>2. TypeOK'
    BY <1>1 DEF IInv, TypeOK
<1>3. PhaseInv' /\ BuiltInv' /\ RemappedInv'
    BY DEF IInv, PhaseInv, BuiltInv, RemappedInv, Holding, Rebuilding
<1>4. \A v \in DOMAIN rows' : v < index'.len
    <2>1. index.len \in Nat /\ index'.len \in Nat /\ DOMAIN rows' \subseteq Nat
        BY DEF IInv, TypeOK, IsIndex, IsRows
    <2>2. \A v \in DOMAIN rows : v < index.len
        BY DEF IInv, MemoryInv, Holding
    <2> QED BY <2>1, <2>2
<1>5. paired /\ faults = {} => \A v \in DOMAIN rows' : Matches(index, v, model)'
    BY DEF IInv, MemoryInv, Holding, Matches
<1>6. MemoryInv'
    BY <1>4, <1>5 DEF IInv, MemoryInv, Matches
<1>7. CASE disk' = Written(index')
    <2>1. \/ disk' = index'
          \/ disk' = NoIndex /\ disk'.epoch = None /\ disk'.len = 0
        BY <1>7, NoIndexType DEF Written
    <2>2. FileInv'
        <3> SUFFICES ASSUME faults = {}, Vouched', NEW v \in DOMAIN rows'
                     PROVE  Matches(disk, v, FileModel)'
            BY DEF FileInv
        <3>1. disk' = index' /\ index.epoch = metaEpoch
            BY <2>1 DEF Vouched
        <3>2. paired
            BY <3>1 DEF IInv, MemoryInv
        <3>3. FileModel' = model
            BY DEF IInv, PhaseInv, FileModel
        <3> QED BY <1>5, <3>1, <3>2, <3>3 DEF Matches
    <2>3. LengthInv'
        BY <1>2, <2>1 DEF LengthInv, TypeOK, IsIndex
    <2>4. RecordInv'
        BY DEF IInv, RecordInv
    <2>5. CleanInv'
        <3>1. index'.epoch # None
            BY NoneAssumption DEF IInv, PhaseInv, Holding
        <3> QED BY <2>1, <3>1 DEF CleanInv, Visible
    <2> QED BY <1>2, <1>3, <1>6, <2>2, <2>3, <2>4, <2>5 DEF IInv
<1>8. CASE disk' = disk /\ unflushed' = n
    <2>1. index.len \in Nat /\ index'.len \in Nat /\ disk.len \in Nat
          /\ DOMAIN rows' \subseteq Nat
        BY DEF IInv, TypeOK, IsIndex, IsRows
    <2>2. FileInv'
        <3> SUFFICES ASSUME faults = {}, Vouched, NEW v \in DOMAIN rows',
                            v < disk.len
                     PROVE  Matches(disk, v, FileModel)'
            BY <1>8 DEF FileInv, Vouched
        <3>1. disk.len <= index.len
            BY DEF IInv, LengthInv, Holding
        <3>2. v \in DOMAIN rows /\ rows'[v] = rows[v]
            BY <2>1, <3>1
        <3>3. Matches(disk, v, FileModel)
            BY <3>2 DEF IInv, FileInv
        <3> QED BY <1>8, <3>2, <3>3 DEF Matches, FileModel
    <2>3. LengthInv'
        BY <1>8, <2>1 DEF IInv, LengthInv, Vouched, Holding
    <2>4. RecordInv'
        BY DEF IInv, RecordInv
    <2>5. CleanInv'
        BY <1>8 DEF IInv, CleanInv, Holding, Visible
    <2> QED BY <1>2, <1>3, <1>6, <2>2, <2>3, <2>4, <2>5 DEF IInv
<1> QED BY <1>7, <1>8

\* The ids of a source are ids of rows, and finitely many.
LEMMA IdsOfFinite ==
    ASSUME TypeOK, NEW S \in SUBSET DOMAIN rows
    PROVE  IsFiniteSet(S) /\ Cardinality(S) \in Nat
BY FS_Subset, FS_CardinalityType DEF TypeOK, IsRows

\* A chunk is added under an id that the index has just handed out, and at
\* least one is, so that the counter of changes grows.
LEMMA IngestInv ==
    ASSUME IInv, NEW s \in Sources, NEW c \in Contents, NEW replace \in BOOLEAN,
           NEW ok \in BOOLEAN, Ingest(s, c, replace, ok)
    PROVE  IInv'
<1> DEFINE old == Replaced(s, replace)
           new == NewIds(index, c)
           n   == unflushed + Cardinality(new) + Cardinality(old)
           y   == InsertAll(index, model, c)
<1>1. /\ phase = "open"
      /\ rows' = RowsAfter(old, new, s, c)
      /\ index' = Hide(y, old)
      /\ FlushIfDue(index', n, ok)
      /\ UNCHANGED <<metaModel, metaDims, metaEpoch, phase, model, built,
                     paired, faults>>
    BY DEF Ingest
<1>2. /\ IsIndex(index) /\ model \in Models /\ index.len \in Nat
      /\ \A v \in DOMAIN rows : v < index.len
    BY <1>1 DEF IInv, TypeOK, IsIndex, PhaseInv, MemoryInv, Holding
<1>3. /\ IsIndex(y) /\ y.epoch = index.epoch
      /\ y.len = index.len + ChunkCount[c]
      /\ \A v \in Ids(index.len) : y.vec[v] = index.vec[v]
      /\ \A v \in new :
            /\ v \in Ids(y.len)
            /\ y.vec[v] = Embed(model, <<c, v - index.len + 1>>)
            /\ <<c, v - index.len + 1>> \in Texts
      /\ Visible(y) = Visible(index) \cup new
    BY <1>2, InsertAllType
<1>4. /\ IsFiniteSet(new) /\ Cardinality(new) = ChunkCount[c]
      /\ new \subseteq Nat /\ \A v \in new : v >= index.len
    BY <1>2, NewIdsFinite
<1>5. ChunkCount[c] \in Nat \ {0}
    BY ChunkCountAssumption
<1>6. old \in SUBSET DOMAIN rows
    BY DEF Replaced, IdsOf
<1>7. IsFiniteSet(old) /\ Cardinality(old) \in Nat
    BY <1>6, IdsOfFinite DEF IInv
<1>8. n \in Nat /\ n # 0
    BY <1>4, <1>5, <1>7 DEF IInv, TypeOK
<1> HIDE DEF y, n, new, old
<1>9. /\ IsIndex(index') /\ index'.epoch = index.epoch
      /\ index'.len = index.len + ChunkCount[c]
      /\ index'.vec = y.vec
      /\ Visible(index') = (Visible(index) \cup new) \ old
    BY <1>1, <1>3, HideType
<1>10. index.len <= index'.len
    BY <1>2, <1>5, <1>9
<1>11. \A v \in Visible(index) : index'.vec[v] = index.vec[v]
    BY <1>3, <1>9 DEF Visible
<1>12. rows' = [v \in (DOMAIN rows \ old) \cup new |->
                  IF v \in new THEN [source |-> s, text |-> <<c, v - index.len + 1>>]
                  ELSE rows[v]]
    BY <1>1 DEF RowsAfter
<1>13. IsRows(rows')
    <2>1. \A v \in DOMAIN rows' : rows'[v] \in Chunks
        BY <1>3, <1>12 DEF IInv, TypeOK, IsRows, Chunks
    <2>2. IsFiniteSet(DOMAIN rows \ old)
        BY FS_Difference DEF IInv, TypeOK, IsRows
    <2>3. IsFiniteSet((DOMAIN rows \ old) \cup new)
        BY <1>4, <2>2, FS_Union
    <2> QED BY <1>4, <1>12, <2>1, <2>3 DEF IInv, TypeOK, IsRows
<1>14. ASSUME NEW v \in DOMAIN rows'
       PROVE  \/ /\ v \in DOMAIN rows /\ rows'[v] = rows[v]
                 /\ v \in Visible(index) => v \in Visible(index')
              \/ /\ v >= index.len /\ v < index'.len /\ v \in Visible(index')
                 /\ index'.vec[v] = Embed(model, rows'[v].text)
    <2>1. CASE v \in new
        <3>1. v \notin old
            BY <1>2, <1>4, <1>6, <2>1 DEF IInv, TypeOK, IsRows
        <3>2. v < index'.len
            <4>1. y.len \in Nat /\ v \in Ids(y.len) /\ index'.len = y.len
                BY <1>3, <1>9, <2>1 DEF IsIndex
            <4> QED BY <4>1, IdsFinite
        <3>3. rows'[v].text = <<c, v - index.len + 1>>
            BY <1>12, <2>1
        <3> QED BY <1>3, <1>4, <1>9, <2>1, <3>1, <3>2, <3>3
    <2>2. CASE v \notin new
        BY <1>9, <1>12, <2>2
    <2> QED BY <2>1, <2>2
<1>15. \/ disk' = Written(index') /\ unflushed' = 0
       \/ disk' = disk /\ unflushed' = n
    BY <1>1 DEF FlushIfDue
<1> QED BY <1>1, <1>8, <1>9, <1>10, <1>11, <1>13, <1>14, <1>15, WriteInv

\* The vectors of a refused transaction are hidden before anyone sees them.
LEMMA IngestFailsInv ==
    ASSUME IInv, NEW c \in Contents, IngestFails(c)
    PROVE  IInv'
<1> DEFINE new == NewIds(index, c)
           y   == InsertAll(index, model, c)
<1>1. /\ phase = "open"
      /\ index' = Hide(y, new)
      /\ UNCHANGED <<disks, phase, model, built, unflushed, paired, faults>>
    BY DEF IngestFails
<1>2. /\ IsIndex(index) /\ model \in Models /\ index.len \in Nat
      /\ unflushed \in Nat /\ IsRows(rows)
    BY <1>1 DEF IInv, TypeOK, IsIndex, PhaseInv
<1>3. /\ IsIndex(y) /\ y.epoch = index.epoch
      /\ y.len = index.len + ChunkCount[c]
      /\ \A v \in Ids(index.len) : y.vec[v] = index.vec[v]
      /\ Visible(y) = Visible(index) \cup new
      /\ Visible(index) \cap new = {}
    BY <1>2, InsertAllType
<1>4. ChunkCount[c] \in Nat
    BY ChunkCountAssumption
<1> HIDE DEF y, new
<1>5. /\ IsIndex(index') /\ index'.epoch = index.epoch
      /\ index'.len = index.len + ChunkCount[c]
      /\ index'.vec = y.vec
      /\ Visible(index') = Visible(index)
    BY <1>1, <1>3, HideType
<1>6. index.len <= index'.len
    BY <1>2, <1>4, <1>5
<1>7. \A v \in Visible(index) : index'.vec[v] = index.vec[v]
    BY <1>3, <1>5 DEF Visible
<1>8. rows' = rows /\ disk' = disk /\ unflushed' = unflushed
      /\ UNCHANGED <<metaModel, metaDims, metaEpoch, phase, model, built,
                     paired, faults>>
    BY <1>1 DEF disks
<1> QED BY <1>1, <1>2, <1>5, <1>6, <1>7, <1>8, WriteInv

\* A delete that counts no change hides nothing a search could return.
LEMMA DeleteInv ==
    ASSUME IInv, NEW s \in Sources, NEW ok \in BOOLEAN, Delete(s, ok)
    PROVE  IInv'
<1> DEFINE ids == IdsOf(s)
           n   == unflushed + Cardinality(ids \cap Visible(index))
<1>1. /\ phase = "open"
      /\ rows' = [v \in DOMAIN rows \ ids |-> rows[v]]
      /\ index' = Hide(index, ids)
      /\ FlushIfDue(index', n, ok)
      /\ UNCHANGED <<metaModel, metaDims, metaEpoch, phase, model, built,
                     paired, faults>>
    BY DEF Delete
<1>2. IsIndex(index) /\ index.len \in Nat /\ unflushed \in Nat
    BY DEF IInv, TypeOK, IsIndex
<1>3. ids \cap Visible(index) \in SUBSET DOMAIN rows
    BY DEF IdsOf
<1>4. /\ IsFiniteSet(ids \cap Visible(index))
      /\ Cardinality(ids \cap Visible(index)) \in Nat
    BY <1>3, IdsOfFinite DEF IInv
<1>5. /\ n \in Nat
      /\ n = 0 => unflushed = 0 /\ ids \cap Visible(index) = {}
    <2> HIDE DEF ids
    <2>1. n = 0 => unflushed = 0 /\ Cardinality(ids \cap Visible(index)) = 0
        BY <1>2, <1>4
    <2>2. Cardinality(ids \cap Visible(index)) = 0 => ids \cap Visible(index) = {}
        BY <1>4, FS_EmptySet
    <2>3. n \in Nat
        BY <1>2, <1>4
    <2> QED BY <2>1, <2>2, <2>3
<1> HIDE DEF ids, n
<1>6. /\ IsIndex(index') /\ index'.epoch = index.epoch
      /\ index'.len = index.len /\ index'.vec = index.vec
      /\ Visible(index') = Visible(index) \ ids
    BY <1>1, <1>2, HideType
<1>7. IsRows(rows')
    <2>1. IsFiniteSet(DOMAIN rows \ ids)
        BY FS_Difference DEF IInv, TypeOK, IsRows
    <2> QED BY <1>1, <2>1 DEF IInv, TypeOK, IsRows
<1>8. n = 0 => unflushed = 0 /\ Visible(index') = Visible(index)
    BY <1>5, <1>6
<1>9. \A v \in DOMAIN rows' :
         /\ v \in DOMAIN rows /\ rows'[v] = rows[v]
         /\ v \in Visible(index) => v \in Visible(index')
    BY <1>1, <1>6
<1>10. \/ disk' = Written(index') /\ unflushed' = 0
       \/ disk' = disk /\ unflushed' = n
    BY <1>1 DEF FlushIfDue
<1>11. index.len <= index'.len
    BY <1>2, <1>6
<1> QED BY <1>1, <1>5, <1>6, <1>7, <1>8, <1>9, <1>10, <1>11, WriteInv

(***************************************************************************)
(* The theorems.                                                           *)
(***************************************************************************)

\* A stuttering step changes nothing that IInv is about.
LEMMA StutterInv == IInv /\ UNCHANGED vars => IInv'
<1> SUFFICES ASSUME IInv, UNCHANGED vars PROVE IInv'
    OBVIOUS
<1> USE DEF vars
<1>1. TypeOK'
    BY DEF IInv, TypeOK
<1>2. PhaseInv' /\ BuiltInv' /\ RemappedInv'
    BY DEF IInv, PhaseInv, BuiltInv, RemappedInv, Holding, Matches, Visible
<1>3. MemoryInv' /\ FileInv' /\ LengthInv'
    BY DEF IInv, MemoryInv, FileInv, LengthInv, Vouched, FileModel, Holding, Matches, Visible
<1>4. RecordInv' /\ CleanInv'
    BY DEF IInv, RecordInv, CleanInv, Holding, Visible
<1> QED BY <1>1, <1>2, <1>3, <1>4 DEF IInv

\* Every step of the handle keeps the inductive invariant.
THEOREM Inductive == IInv /\ [Next]_vars => IInv'
<1> SUFFICES ASSUME IInv, [Next]_vars PROVE IInv'
    OBVIOUS
<1>1. ASSUME NEW m \in Models, NEW readable \in BOOLEAN, OpenCurrent(m, readable)
      PROVE  IInv'
    BY <1>1, OpenCurrentInv
<1>2. ASSUME NEW m \in Models, NEW readable \in BOOLEAN, NEW reembed \in BOOLEAN,
             OpenFresh(m, reembed, readable)
      PROVE  IInv'
    BY <1>2, OpenFreshInv
<1>3. ASSUME NEW m \in Models, NEW readable \in BOOLEAN, NEW reembed \in BOOLEAN,
             OpenBuild(m, reembed, readable)
      PROVE  IInv'
    BY <1>3, OpenBuildInv
<1>4. CASE WriteBuilt("built", "flushed")
    BY <1>4, WriteBuiltInv
<1>5. CASE WriteBuilt("rebuilt", "reflushed")
    BY <1>5, WriteBuiltInv
<1>6. CASE OpenRemap
    BY <1>6, OpenRemapInv
<1>7. CASE RecordModel \/ RecordDims \/ RecordEpoch
    BY <1>7, RecordModelInv, RecordDimsInv, RecordEpochInv
<1>8. CASE OpenStops
    BY <1>8, OpenStopsInv
<1>9. ASSUME NEW s \in Sources, NEW c \in Contents, NEW replace \in BOOLEAN,
             NEW ok \in BOOLEAN, Ingest(s, c, replace, ok)
      PROVE  IInv'
    BY <1>9, IngestInv
<1>10. ASSUME NEW c \in Contents, IngestFails(c)
       PROVE  IInv'
    BY <1>10, IngestFailsInv
<1>11. ASSUME NEW s \in Sources, NEW ok \in BOOLEAN, Delete(s, ok)
       PROVE  IInv'
    BY <1>11, DeleteInv
<1>12. CASE Flush
    BY <1>12, FlushInv
<1>13. CASE RebuildBuild
    BY <1>13, RebuildBuildInv
<1>14. CASE RebuildRemap
    BY <1>14, RebuildRemapInv
<1>15. CASE RebuildInstall
    BY <1>15, RebuildInstallInv
<1>16. CASE RebuildFails
    BY <1>16, RebuildFailsInv
<1>17. ASSUME NEW ok \in BOOLEAN, Close(ok)
       PROVE  IInv'
    BY <1>17, CloseInv
<1>18. CASE Crash \/ LoseFile
    BY <1>18, CrashInv, LoseFileInv
<1>19. CASE UNCHANGED vars
    BY <1>19, StutterInv
<1> QED BY <1>1, <1>2, <1>3, <1>4, <1>5, <1>6, <1>7, <1>8, <1>9, <1>10, <1>11,
           <1>12, <1>13, <1>14, <1>15, <1>16, <1>17, <1>18, <1>19 DEF Next

\* The inductive invariant holds of every reachable state.
THEOREM Invariance == Spec => []IInv
BY InitInv, Inductive, PTL DEF Spec

\* Every variable keeps its type, and an index keeps its fields in agreement.
THEOREM TypeCorrect == Spec => []TypeOK
<1>1. IInv => TypeOK
    BY DEF IInv
<1> QED BY <1>1, Invariance, PTL

\* An open handle finds every stored chunk, by its own text's vector in the
\* handle's model, outside the two incidents and a half-done rebuild.
THEOREM SearchIsComplete == Spec => []SearchFindsEveryChunk
<1>1. IInv => SearchFindsEveryChunk
    BY DEF IInv, MemoryInv, Holding, SearchFindsEveryChunk
<1> QED BY <1>1, Invariance, PTL

\* A file that the next open would trust answers for every row.
THEOREM TrustIsJustified == Spec => []TrustedFileIsCurrent
<1>1. IInv => TrustedFileIsCurrent
    BY TrustedMatches DEF IInv, TrustedFileIsCurrent
<1> QED BY <1>1, Invariance, PTL

\* The ids an open handle is about to hand out belong to no row.
THEOREM IdsAreFree == Spec => []NewIdsAreFree
<1>1. IInv => NewIdsAreFree
    BY DEF IInv, MemoryInv, Holding, NewIdsAreFree
<1> QED BY <1>1, Invariance, PTL

\* A handle with no unflushed change has nothing that its file has not.
THEOREM CleanIsSaved == Spec => []CleanMeansSaved
<1>1. IInv => CleanMeansSaved
    BY DEF IInv, CleanInv, Holding, CleanMeansSaved
<1> QED BY <1>1, Invariance, PTL

(***************************************************************************)
(* RagLite implements ChunkStore.  The rows that hold one text under one   *)
(* source are what BagOf counts: each step either keeps their number or    *)
(* changes it for a whole document.                                        *)
(***************************************************************************)

\* The rows of table r that hold text t under source s.
Copies(r, s, t) == {v \in DOMAIN r : r[v] = [source |-> s, text |-> t]}

\* A table's bag gives every text of every source a number.
LEMMA BagType ==
    ASSUME NEW r, IsRows(r)
    PROVE  /\ BagOf(r) \in [Sources -> [Texts -> Nat]]
           /\ \A s \in Sources, t \in Texts :
                /\ BagOf(r)[s][t] = Cardinality(Copies(r, s, t))
                /\ IsFiniteSet(Copies(r, s, t))
<1>1. ASSUME NEW s \in Sources, NEW t \in Texts
      PROVE  IsFiniteSet(Copies(r, s, t)) /\ Cardinality(Copies(r, s, t)) \in Nat
    <2>1. Copies(r, s, t) \in SUBSET DOMAIN r
        BY DEF Copies
    <2> QED BY <2>1, FS_Subset, FS_CardinalityType DEF IsRows
<1>2. BagOf(r) = [s \in Sources |-> [t \in Texts |-> Cardinality(Copies(r, s, t))]]
    BY DEF BagOf, Copies
<1> QED BY <1>1, <1>2

\* Tables with the same number of copies of every text have one bag.
LEMMA SameBag ==
    ASSUME NEW q, NEW r,
           \A s \in Sources, t \in Texts :
              Cardinality(Copies(q, s, t)) = Cardinality(Copies(r, s, t))
    PROVE  BagOf(q) = BagOf(r)
BY DEF BagOf, Copies

\* A table whose rows are the rows of another, each once, has the same bag.
LEMMA PermutedBag ==
    ASSUME NEW r, IsRows(r), NEW n \in Nat, n = Cardinality(DOMAIN r),
           NEW f \in [Ids(n) -> DOMAIN r],
           \A v, w \in Ids(n) : f[v] = f[w] => v = w
    PROVE  BagOf([v \in Ids(n) |-> r[f[v]]]) = BagOf(r)
<1> DEFINE q == [v \in Ids(n) |-> r[f[v]]]
<1>1. f \in Surjection(Ids(n), DOMAIN r)
    <2>1. f \in Injection(Ids(n), DOMAIN r)
        BY Fun_IsInj
    <2>2. Cardinality(Ids(n)) = Cardinality(DOMAIN r) /\ IsFiniteSet(DOMAIN r)
        BY IdsFinite DEF IsRows
    <2> QED BY <2>1, <2>2, FS_Injection
<1>2. ASSUME NEW s \in Sources, NEW t \in Texts
      PROVE  Cardinality(Copies(q, s, t)) = Cardinality(Copies(r, s, t))
    <2> DEFINE S == Copies(q, s, t)
               T == Copies(r, s, t)
               g == [v \in S |-> f[v]]
    <2>1. S \subseteq Ids(n) /\ IsFiniteSet(S)
        <3>1. S \in SUBSET Ids(n)
            BY DEF Copies
        <3> QED BY <3>1, FS_Subset, IdsFinite
    <2>2. g \in [S -> T]
        BY <2>1 DEF Copies
    <2>3. \A v, w \in S : g[v] = g[w] => v = w
        BY <2>1
    <2>4. \A w \in T : \E v \in S : g[v] = w
        <3> TAKE w \in T
        <3>1. PICK v \in Ids(n) : f[v] = w
            BY <1>1, Fun_SurjectionProperties DEF Copies
        <3>2. v \in S
            BY <3>1 DEF Copies
        <3> QED BY <3>1, <3>2
    <2> HIDE DEF S, T, g
    <2>5. g \in Bijection(S, T)
        BY <2>2, <2>3, <2>4, Fun_IsBij
    <2>6. ExistsBijection(S, T)
        BY <2>5 DEF ExistsBijection
    <2>7. Cardinality(T) = Cardinality(S)
        BY <2>1, <2>6, FS_Bijection
    <2> QED BY <2>7 DEF S, T
<1> HIDE DEF q
<1>3. BagOf(q) = BagOf(r)
    BY <1>2, SameBag
<1> QED BY <1>3 DEF q

\* remap_vector_ids keeps every chunk.
LEMMA RemapKeepsBag ==
    ASSUME IInv, phase \in {"flushed", "reflushed"}, RemapIds
    PROVE  BagOf(rows') = BagOf(rows)
<1> DEFINE n == built.index.len
<1>1. /\ n \in Nat /\ n = Cardinality(DOMAIN rows)
      /\ built.mapping \in [Ids(n) -> DOMAIN rows]
      /\ \A v, w \in Ids(n) : built.mapping[v] = built.mapping[w] => v = w
      /\ IsRows(rows)
    BY DEF IInv, BuiltInv, TypeOK, IsIndex
<1>2. rows' = [v \in Ids(n) |-> rows[built.mapping[v]]]
    BY <1>1 DEF RemapIds, Remapped
<1> QED BY <1>1, <1>2, PermutedBag

\* Each chunk of a content is in exactly one of the rows that an ingest of it
\* writes, and a row that it keeps is what it was.
LEMMA IngestCopies ==
    ASSUME IInv, phase = "open", NEW old \in SUBSET DOMAIN rows,
           NEW c \in Contents, NEW z \in Sources,
           NEW s \in Sources, NEW t \in Texts
    PROVE  LET new   == NewIds(index, c)
               after == RowsAfter(old, new, z, c)
           IN  /\ s # z \/ t \notin Split(c) =>
                    Copies(after, s, t) = Copies(rows, s, t) \ old
               /\ s = z /\ t \in Split(c) =>
                    \E v \in new :
                        /\ v \notin DOMAIN rows
                        /\ Copies(after, s, t) = (Copies(rows, s, t) \ old) \cup {v}
<1> DEFINE new   == NewIds(index, c)
           k     == index.len
           after == RowsAfter(old, new, z, c)
<1>1. k \in Nat /\ ChunkCount[c] \in Nat \ {0} /\ DOMAIN rows \subseteq Nat
    BY ChunkCountAssumption DEF IInv, TypeOK, IsIndex, IsRows
<1>2. \A v \in DOMAIN rows : v < k
    BY DEF IInv, MemoryInv, Holding
<1>3. new = k..(k + ChunkCount[c] - 1)
    BY DEF NewIds
<1>4. \A v \in new : v \in Nat /\ v \notin DOMAIN rows /\ <<c, v - k + 1>> \in Split(c)
    <2> TAKE v \in new
    <2>1. v \in Nat /\ v >= k /\ v - k + 1 \in 1..ChunkCount[c]
        BY <1>1, <1>3
    <2> QED BY <1>1, <1>2, <2>1 DEF Split
<1>5. after = [v \in (DOMAIN rows \ old) \cup new |->
                 IF v \in new THEN [source |-> z, text |-> <<c, v - k + 1>>]
                 ELSE rows[v]]
    BY DEF RowsAfter
<1> HIDE DEF after
<1>6. Copies(after, s, t) =
        (Copies(rows, s, t) \ old) \cup
        {v \in new : [source |-> z, text |-> <<c, v - k + 1>>] = [source |-> s, text |-> t]}
    BY <1>4, <1>5 DEF Copies
<1>7. ASSUME s # z \/ t \notin Split(c)
      PROVE  Copies(after, s, t) = Copies(rows, s, t) \ old
    <2>1. \A v \in new :
             [source |-> z, text |-> <<c, v - k + 1>>] # [source |-> s, text |-> t]
        BY <1>4, <1>7
    <2> QED BY <1>6, <2>1
<1>8. ASSUME s = z, t \in Split(c)
      PROVE  \E v \in new :
                /\ v \notin DOMAIN rows
                /\ Copies(after, s, t) = (Copies(rows, s, t) \ old) \cup {v}
    <2>1. PICK i \in 1..ChunkCount[c] : t = <<c, i>>
        BY <1>8 DEF Split
    <2> DEFINE w == k + i - 1
    <2>2. w \in new /\ w - k + 1 = i
        BY <1>1, <1>3
    <2>3. \A v \in new : <<c, v - k + 1>> = t <=> v = w
        BY <1>1, <1>4, <2>1
    <2> HIDE DEF w
    <2>4. {v \in new : [source |-> z, text |-> <<c, v - k + 1>>] =
                         [source |-> s, text |-> t]} = {w}
        BY <1>8, <2>2, <2>3
    <2> QED BY <1>4, <1>6, <2>2, <2>4
<1> QED BY <1>7, <1>8 DEF after

\* add_text adds one copy of each chunk of the text; add_document puts the
\* chunks of the document in the place of what its source had.
LEMMA IngestBag ==
    ASSUME IInv, IInv', NEW z \in Sources, NEW c \in Contents,
           NEW replace \in BOOLEAN, NEW ok \in BOOLEAN, Ingest(z, c, replace, ok)
    PROVE  Stored!Next
<1> DEFINE old == Replaced(z, replace)
           new == NewIds(index, c)
<1>1. phase = "open" /\ rows' = RowsAfter(old, new, z, c)
    BY DEF Ingest
<1>2. old \in SUBSET DOMAIN rows
    BY DEF Replaced, IdsOf
<1>3. IsRows(rows) /\ IsRows(rows')
    BY DEF IInv, TypeOK
<1>4. ASSUME NEW s \in Sources, NEW t \in Texts
      PROVE  /\ s # z \/ t \notin Split(c) =>
                    Copies(rows', s, t) = Copies(rows, s, t) \ old
             /\ s = z /\ t \in Split(c) =>
                    \E v : /\ v \notin DOMAIN rows
                           /\ Copies(rows', s, t) = (Copies(rows, s, t) \ old) \cup {v}
    BY <1>1, <1>2, IngestCopies
<1>5. \A s \in Sources, t \in Texts :
        /\ BagOf(rows)[s][t] = Cardinality(Copies(rows, s, t))
        /\ BagOf(rows')[s][t] = Cardinality(Copies(rows', s, t))
        /\ IsFiniteSet(Copies(rows, s, t))
    BY <1>3, BagType
<1>6. /\ BagOf(rows) \in [Sources -> [Texts -> Nat]]
      /\ BagOf(rows') \in [Sources -> [Texts -> Nat]]
    BY <1>3, BagType
<1>7. CASE replace = FALSE
    <2>1. old = {}
        BY <1>7 DEF Replaced
    <2>2. ASSUME NEW s \in Sources, NEW t \in Texts
          PROVE  BagOf(rows')[s][t] =
                    IF s = z /\ t \in Split(c) THEN BagOf(rows)[s][t] + 1
                    ELSE BagOf(rows)[s][t]
        <3>1. CASE s = z /\ t \in Split(c)
            <4>1. PICK v : /\ v \notin DOMAIN rows
                           /\ Copies(rows', s, t) = Copies(rows, s, t) \cup {v}
                BY <1>4, <2>1, <3>1
            <4>2. v \notin Copies(rows, s, t)
                BY <4>1 DEF Copies
            <4> QED BY <1>5, <3>1, <4>1, <4>2, FS_AddElement
        <3>2. CASE ~(s = z /\ t \in Split(c))
            BY <1>4, <1>5, <2>1, <3>2
        <3> QED BY <3>1, <3>2
    <2>3. BagOf(rows') =
            [BagOf(rows) EXCEPT ![z] =
                [t \in Texts |-> IF t \in Split(c) THEN @[t] + 1 ELSE @[t]]]
        BY <1>6, <2>2
    <2>4. Stored!Add(z, Split(c))
        BY <2>3 DEF Stored!Add
    <2> QED BY <2>4 DEF Stored!Next
<1>8. CASE replace = TRUE
    <2>1. old = IdsOf(z)
        BY <1>8 DEF Replaced
    <2>2. ASSUME NEW s \in Sources, NEW t \in Texts
          PROVE  Copies(rows, s, t) \ old = IF s = z THEN {} ELSE Copies(rows, s, t)
        BY <2>1 DEF Copies, IdsOf
    <2>3. ASSUME NEW s \in Sources, NEW t \in Texts
          PROVE  BagOf(rows')[s][t] =
                    IF s = z THEN IF t \in Split(c) THEN 1 ELSE 0
                    ELSE BagOf(rows)[s][t]
        <3>1. CASE s = z /\ t \in Split(c)
            <4>1. Copies(rows, s, t) \ old = {}
                BY <2>2, <3>1
            <4>2. PICK v : Copies(rows', s, t) = (Copies(rows, s, t) \ old) \cup {v}
                BY <1>4, <3>1, ZenonT(30)
            <4>3. Copies(rows', s, t) = {v}
                BY <4>1, <4>2
            <4>4. Cardinality(Copies(rows', s, t)) = 1
                BY <4>3, FS_Singleton
            <4> QED BY <1>5, <3>1, <4>4
        <3>2. CASE s = z /\ t \notin Split(c)
            <4>1. Copies(rows', s, t) = {}
                BY <1>4, <2>2, <3>2
            <4> QED BY <1>5, <3>2, <4>1, FS_EmptySet
        <3>3. CASE s # z
            <4>1. Copies(rows, s, t) \ old = Copies(rows, s, t)
                BY <2>2, <3>3
            <4>2. Copies(rows', s, t) = Copies(rows, s, t)
                BY <1>4, <3>3, <4>1
            <4> QED BY <1>5, <3>3, <4>2
        <3> QED BY <3>1, <3>2, <3>3
    <2>4. BagOf(rows') =
            [BagOf(rows) EXCEPT ![z] =
                [t \in Texts |-> IF t \in Split(c) THEN 1 ELSE 0]]
        BY <1>6, <2>3
    <2>5. Stored!Replace(z, Split(c))
        BY <2>4 DEF Stored!Replace
    <2> QED BY <2>5 DEF Stored!Next
<1> QED BY <1>7, <1>8

\* delete_document leaves its source with no chunks.
LEMMA DeleteBag ==
    ASSUME IInv, IInv', NEW z \in Sources, NEW ok \in BOOLEAN, Delete(z, ok)
    PROVE  Stored!Next
<1>1. rows' = [v \in DOMAIN rows \ IdsOf(z) |-> rows[v]]
    BY DEF Delete
<1>2. IsRows(rows) /\ IsRows(rows')
    BY DEF IInv, TypeOK
<1>3. ASSUME NEW s \in Sources, NEW t \in Texts
      PROVE  Copies(rows', s, t) = IF s = z THEN {} ELSE Copies(rows, s, t)
    BY <1>1 DEF Copies, IdsOf
<1>4. ASSUME NEW s \in Sources, NEW t \in Texts
      PROVE  BagOf(rows')[s][t] = IF s = z THEN 0 ELSE BagOf(rows)[s][t]
    BY <1>2, <1>3, BagType, FS_EmptySet
<1>5. /\ BagOf(rows) \in [Sources -> [Texts -> Nat]]
      /\ BagOf(rows') \in [Sources -> [Texts -> Nat]]
    BY <1>2, BagType
<1>6. BagOf(rows') =
        [BagOf(rows) EXCEPT ![z] = [t \in Texts |-> IF t \in {} THEN 1 ELSE 0]]
    BY <1>4, <1>5
<1>7. Stored!Replace(z, {})
    BY <1>6 DEF Stored!Replace
<1> QED BY <1>7 DEF Stored!Next

\* A step of the handle is a step of ChunkStore or changes no chunk.
LEMMA StepBag == IInv /\ IInv' /\ [Next]_vars => [Stored!Next]_(Stored!vars)
<1> SUFFICES ASSUME IInv, IInv', [Next]_vars
             PROVE  Stored!Next \/ BagOf(rows') = BagOf(rows)
    BY DEF Stored!vars
<1>1. ASSUME NEW m \in Models, NEW readable \in BOOLEAN,
             \/ OpenCurrent(m, readable)
             \/ \E reembed \in BOOLEAN :
                  \/ OpenFresh(m, reembed, readable)
                  \/ OpenBuild(m, reembed, readable)
      PROVE  rows' = rows
    BY <1>1 DEF OpenCurrent, OpenFresh, OpenBuild, disks
<1>2. CASE \/ WriteBuilt("built", "flushed") \/ WriteBuilt("rebuilt", "reflushed")
           \/ RecordModel \/ RecordDims \/ RecordEpoch \/ OpenStops
    BY <1>2 DEF WriteBuilt, RecordModel, RecordDims, RecordEpoch, OpenStops, disks
<1>3. CASE OpenRemap \/ RebuildRemap
    BY <1>3, RemapKeepsBag DEF OpenRemap, RebuildRemap
<1>4. CASE \E s \in Sources, c \in Contents, replace, ok \in BOOLEAN :
                Ingest(s, c, replace, ok)
    BY <1>4, IngestBag
<1>5. CASE \E s \in Sources, ok \in BOOLEAN : Delete(s, ok)
    BY <1>5, DeleteBag
<1>6. CASE (\E c \in Contents : IngestFails(c)) \/ Flush \/ RebuildBuild
           \/ RebuildInstall \/ RebuildFails
    BY <1>6 DEF IngestFails, Flush, RebuildBuild, RebuildInstall, RebuildFails, disks
<1>7. CASE (\E ok \in BOOLEAN : Close(ok)) \/ Crash \/ LoseFile
    BY <1>7 DEF Close, Crash, LoseFile, disks
<1>8. CASE UNCHANGED vars
    BY <1>8 DEF vars
<1> QED BY <1>1, <1>2, <1>3, <1>4, <1>5, <1>6, <1>7, <1>8 DEF Next

\* The stored chunks change by whole documents and by nothing else: no crash,
\* reopening, rebuild or failed write loses, doubles or mixes them.
THEOREM ImplementsChunkStore == Spec => ChunksChangeByDocuments
<1>1. Init => Stored!Init
    <2> SUFFICES ASSUME Init PROVE BagOf(rows) \in [Sources -> [Texts -> Nat]]
        BY DEF Stored!Init
    <2> QED BY InitialRowsAssumption, BagType DEF Init
<1> QED BY <1>1, StepBag, Invariance, PTL DEF Spec, ChunksChangeByDocuments, Stored!Spec
=============================================================================
