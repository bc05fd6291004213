------------------------- MODULE SyncDirectoryProofs -------------------------
(***************************************************************************)
(* SInv of SyncDirectoryInv is inductive, and the safety properties of     *)
(* SyncDirectory follow from it, for every choice of the constants.        *)
(***************************************************************************)
EXTENDS SyncDirectoryInv, TLAPS

\* Every content is a positive number and none is None.
LEMMA ContentIsNat ==
    /\ Contents \subseteq Nat /\ Parsable \subseteq Nat
    /\ None \notin Contents /\ None \notin Parsable
    /\ 0 \in Nat /\ 0 \notin Contents
BY ContentsAssumption

(***************************************************************************)
(* One lemma per action.                                                   *)
(***************************************************************************)
\* A new content of a file is above all it has had, or the file may revert.
LEMMA WriteKeeps ==
    ASSUME SInv, NEW f \in Files, NEW c \in Contents, Write(f, c)
    PROVE  SInv'
<1> USE DEF Write, Changes, disk, pass
<1>1. TypeOK'
    BY DEF SInv, TypeOK
<1>2. ControlInv'
    BY DEF SInv, ControlInv
<1>3. AddInv'
    BY DEF SInv, TypeOK, AddInv
<1>4. HashesVouch' /\ HashesHaveChunks'
    BY DEF SInv, HashesVouch, HashesHaveChunks
<1>5. OrderInv'
    <2>1. /\ \A g \in Files : g # f => files'[g] = files[g] /\ newest'[g] = newest[g]
          /\ files'[f] = c /\ c # None /\ c \in Nat
          /\ newest'[f] = IF c > newest[f] THEN c ELSE newest[f]
          /\ f \notin Reverts => c > newest[f]
        BY ContentIsNat DEF SInv, TypeOK
    <2>2. /\ \A g \in Files : newest[g] \in Nat
          /\ \A g \in Files : hashes[g] # None => hashes[g] \in Nat
          /\ seen # None => seen \in Nat
        BY ContentIsNat DEF SInv, TypeOK
    <2>3. ASSUME NEW g \in Files \ Reverts
          PROVE  /\ files'[g] # None => files'[g] <= newest'[g]
                 /\ hashes[g] # None => hashes[g] <= newest'[g]
                 /\ files'[g] # None /\ hashes[g] = files'[g] => stored[g] = files'[g]
        BY <2>1, <2>2 DEF SInv, OrderInv
    <2>4. ASSUME pc \in Adding, folder # None, file \notin Reverts
          PROVE  /\ seen <= newest'[file]
                 /\ pc # "read" /\ files'[file] = seen => stored[file] = seen
        <3>1. file \in Files /\ seen # None /\ seen <= newest[file]
            BY <2>4 DEF SInv, TypeOK, ControlInv, OrderInv, Adding
        <3> QED BY <2>1, <2>2, <2>4, <3>1 DEF SInv, OrderInv
    <2> QED BY <2>3, <2>4 DEF OrderInv
<1>6. PassInv'
    BY DEF PassInv
<1> QED BY <1>1, <1>2, <1>3, <1>4, <1>5, <1>6 DEF SInv

\* A file that is gone is equal to no hash.
LEMMA RemoveKeeps ==
    ASSUME SInv, NEW f \in Files, Remove(f)
    PROVE  SInv'
<1> USE DEF Remove, Changes, disk, pass
<1>1. TypeOK'
    BY DEF SInv, TypeOK
<1>2. ControlInv'
    BY DEF SInv, ControlInv
<1>3. AddInv'
    BY DEF SInv, TypeOK, AddInv
<1>4. HashesVouch'
    BY DEF SInv, HashesVouch
<1>5. HashesHaveChunks'
    BY DEF SInv, HashesHaveChunks
<1>6. OrderInv'
    BY DEF SInv, ControlInv, OrderInv
<1>7. PassInv'
    BY DEF PassInv, Deceptive
<1> QED BY <1>1, <1>2, <1>3, <1>4, <1>5, <1>6, <1>7 DEF SInv

\* Calm changes nothing that is stored.
LEMMA CalmDownKeeps ==
    ASSUME SInv, CalmDown
    PROVE  SInv'
<1> USE DEF CalmDown, disk, pass, torns
<1>1. TypeOK'
    BY DEF SInv, TypeOK
<1>2. ControlInv'
    BY DEF SInv, ControlInv
<1>3. AddInv'
    BY DEF SInv, AddInv
<1>4. HashesVouch'
    BY DEF SInv, HashesVouch
<1>5. HashesHaveChunks'
    BY DEF SInv, HashesHaveChunks
<1>6. OrderInv'
    BY DEF SInv, OrderInv
<1>7. PassInv'
    BY DEF SInv, PassInv, Deceptive
<1> QED BY <1>1, <1>2, <1>3, <1>4, <1>5, <1>6, <1>7 DEF SInv

\* Opening a handle begins no pass.
LEMMA OpenKeeps ==
    ASSUME SInv, Open
    PROVE  SInv'
<1> USE DEF Open, disk, pass, torns
<1>1. TypeOK'
    BY DEF SInv, TypeOK
<1>2. ControlInv'
    BY DEF SInv, ControlInv, Passing, Adding
<1>3. AddInv'
    BY DEF AddInv
<1>4. HashesVouch'
    BY DEF SInv, HashesVouch
<1>5. HashesHaveChunks'
    BY DEF SInv, HashesHaveChunks
<1>6. OrderInv'
    BY DEF SInv, OrderInv, Adding
<1>7. PassInv'
    BY DEF SInv, PassInv, Deceptive
<1> QED BY <1>1, <1>2, <1>3, <1>4, <1>5, <1>6, <1>7 DEF SInv

\* At the start of a pass nothing is behind it.
LEMMA StartKeeps ==
    ASSUME SInv, NEW d \in Folders, Start(d)
    PROVE  SInv'
<1>1. /\ pc = "idle" /\ pc' = "walk" /\ folder' = d /\ d # None
      /\ present' = {f \in Under[d] : files[f] # None}
      /\ todo' = present' /\ failed' = {} /\ gone' = {} /\ quiet' = TRUE
      /\ UNCHANGED <<files, newest, stored, hashes, file, seen, calm, raced, torn>>
    BY FoldersAssumption DEF Start, disk, torns
<1>2. present' \in SUBSET Under[d]
    BY <1>1
<1>3. TypeOK'
    BY <1>1, <1>2 DEF SInv, TypeOK, Passing
<1>4. ControlInv'
    <2>1. gone' \cap present' = {}
        BY <1>1
    <2> QED BY <1>1, <2>1 DEF SInv, ControlInv, Passing, Adding
<1>5. AddInv'
    BY <1>1 DEF AddInv
<1>6. HashesVouch' /\ HashesHaveChunks'
    BY <1>1 DEF SInv, HashesVouch, HashesHaveChunks
<1>7. OrderInv'
    BY <1>1 DEF SInv, OrderInv, Adding
<1>8. PassInv'
    BY <1>1 DEF PassInv
<1> QED BY <1>3, <1>4, <1>5, <1>6, <1>7, <1>8 DEF SInv

\* A file that cannot be read counts as failed.
LEMMA ReadFailsKeeps ==
    ASSUME SInv, NEW f \in Files, ReadFails(f)
    PROVE  SInv'
<1> USE DEF ReadFails, disk, torns
<1>1. TypeOK'
    BY DEF SInv, TypeOK
<1>2. ControlInv'
    BY DEF SInv, ControlInv, Adding
<1>3. AddInv'
    BY DEF AddInv
<1>4. HashesVouch'
    BY DEF SInv, HashesVouch
<1>5. HashesHaveChunks'
    BY DEF SInv, HashesHaveChunks
<1>6. OrderInv'
    BY DEF SInv, OrderInv
<1>7. PassInv'
    BY DEF SInv, PassInv, Deceptive
<1> QED BY <1>1, <1>2, <1>3, <1>4, <1>5, <1>6, <1>7 DEF SInv

\* A file with the recorded hash is stored: by order, or because its hash vouches.
LEMMA SkipKeeps ==
    ASSUME SInv, NEW f \in Files, Skip(f)
    PROVE  SInv'
<1> USE DEF Skip, disk, torns
<1>1. TypeOK'
    BY DEF SInv, TypeOK
<1>2. ControlInv'
    BY DEF SInv, ControlInv, Adding
<1>3. AddInv'
    BY DEF AddInv
<1>4. HashesVouch'
    BY DEF SInv, HashesVouch
<1>5. HashesHaveChunks'
    BY DEF SInv, HashesHaveChunks
<1>6. OrderInv'
    BY DEF SInv, OrderInv
<1>7. PassInv'
    BY DEF SInv, PassInv, HashesVouch, OrderInv, Deceptive
<1> QED BY <1>1, <1>2, <1>3, <1>4, <1>5, <1>6, <1>7 DEF SInv

\* The hash in hand is that of the file, until it changes.
LEMMA TakeKeeps ==
    ASSUME SInv, NEW f \in Files, Take(f)
    PROVE  SInv'
<1> USE DEF Take, disk, pass
<1>1. TypeOK'
    BY FoldersAssumption, FilesAssumption DEF SInv, TypeOK, Passing
<1>2. ControlInv'
    BY DEF SInv, ControlInv, Passing, Adding
<1>3. AddInv'
    BY DEF AddInv
<1>4. HashesVouch'
    BY DEF SInv, HashesVouch
<1>5. HashesHaveChunks'
    BY DEF SInv, HashesHaveChunks
<1>6. OrderInv'
    BY DEF SInv, OrderInv
<1>7. PassInv'
    BY DEF SInv, PassInv, Deceptive
<1> QED BY <1>1, <1>2, <1>3, <1>4, <1>5, <1>6, <1>7 DEF SInv

\* add_document outside a pass has no hash in hand.
LEMMA AddKeeps ==
    ASSUME SInv, NEW f \in Files, Add(f)
    PROVE  SInv'
<1> USE DEF Add, disk, pass, torns
<1>1. TypeOK'
    BY FoldersAssumption, FilesAssumption DEF SInv, TypeOK, Passing
<1>2. ControlInv'
    BY DEF SInv, ControlInv, Passing, Adding
<1>3. AddInv'
    BY DEF SInv, ControlInv, AddInv, Passing
<1>4. HashesVouch'
    BY DEF SInv, HashesVouch
<1>5. HashesHaveChunks'
    BY DEF SInv, HashesHaveChunks
<1>6. OrderInv'
    BY DEF SInv, ControlInv, OrderInv, Passing
<1>7. PassInv'
    BY DEF SInv, PassInv, Deceptive
<1> QED BY <1>1, <1>2, <1>3, <1>4, <1>5, <1>6, <1>7 DEF SInv

\* A failed add changes nothing that is stored.
LEMMA AddFailsKeeps ==
    ASSUME SInv, AddFails
    PROVE  SInv'
<1> USE DEF AddFails, AddReturnsError, disk
<1>1. TypeOK'
    BY DEF SInv, TypeOK, ControlInv, Passing
<1>2. ControlInv'
    BY DEF SInv, ControlInv, Passing, Adding
<1>3. AddInv'
    BY DEF AddInv
<1>4. HashesVouch'
    BY DEF SInv, HashesVouch
<1>5. HashesHaveChunks'
    BY DEF SInv, HashesHaveChunks
<1>6. OrderInv'
    BY DEF SInv, OrderInv, Adding
<1>7. PassInv'
    BY DEF SInv, PassInv, Deceptive
<1> QED BY <1>1, <1>2, <1>3, <1>4, <1>5, <1>6, <1>7 DEF SInv

\* The chunks of the file are stored; its old hash is excused until it is forgotten.
LEMMA IngestKeeps ==
    ASSUME SInv, Ingest
    PROVE  SInv'
<1> USE DEF Ingest, pass, torns
<1>1. TypeOK'
    BY DEF SInv, TypeOK, Passing
<1>2. ControlInv'
    BY ContentIsNat DEF SInv, TypeOK, ControlInv, Passing, Adding
<1>3. AddInv'
    BY DEF SInv, TypeOK, AddInv
<1>4. HashesVouch'
    BY DEF SInv, HashesVouch
<1>5. HashesHaveChunks'
    BY ContentIsNat DEF SInv, HashesHaveChunks
<1>6. OrderInv'
    BY DEF SInv, TypeOK, ControlInv, OrderInv
<1>7. PassInv'
    BY DEF SInv, TypeOK, PassInv, Deceptive
<1> QED BY <1>1, <1>2, <1>3, <1>4, <1>5, <1>6, <1>7 DEF SInv

\* An add cut short by an error leaves the file among the torn.
LEMMA LateAddFailsKeeps ==
    ASSUME SInv, LateAddFails
    PROVE  SInv'
<1> USE DEF LateAddFails, AddReturnsError, disk
<1>1. TypeOK'
    BY DEF SInv, TypeOK, ControlInv, Passing
<1>2. ControlInv'
    BY DEF SInv, ControlInv, Passing, Adding
<1>3. AddInv'
    BY DEF AddInv
<1>4. HashesVouch'
    BY DEF SInv, HashesVouch
<1>5. HashesHaveChunks'
    BY DEF SInv, HashesHaveChunks
<1>6. OrderInv'
    BY DEF SInv, OrderInv, Adding
<1>7. PassInv'
    BY DEF SInv, PassInv, Deceptive
<1> QED BY <1>1, <1>2, <1>3, <1>4, <1>5, <1>6, <1>7 DEF SInv

\* Without a hash a file is neither skipped nor vouched for.
LEMMA ForgetHashKeeps ==
    ASSUME SInv, ForgetHash
    PROVE  SInv'
<1> USE DEF ForgetHash, pass
<1>1. TypeOK'
    BY DEF SInv, TypeOK, Passing
<1>2. ControlInv'
    BY DEF SInv, TypeOK, ControlInv, Passing, Adding
<1>3. AddInv'
    BY DEF SInv, AddInv
<1>4. HashesVouch'
    BY DEF SInv, TypeOK, HashesVouch
<1>5. HashesHaveChunks'
    BY DEF SInv, HashesHaveChunks
<1>6. OrderInv'
    BY DEF SInv, TypeOK, ControlInv, OrderInv
<1>7. PassInv'
    BY DEF SInv, PassInv, Deceptive
<1> QED BY <1>1, <1>2, <1>3, <1>4, <1>5, <1>6, <1>7 DEF SInv

\* The new hash is that of the stored chunks, or the file is torn.
LEMMA SetHashKeeps ==
    ASSUME SInv, SetHash
    PROVE  SInv'
<1> USE DEF SetHash
<1>1. TypeOK'
    BY DEF SInv, TypeOK, Passing
<1>2. ControlInv'
    BY DEF SInv, ControlInv, Passing, Adding
<1>3. AddInv'
    BY DEF SInv, AddInv
<1>4. HashesVouch'
    BY DEF SInv, ControlInv, AddInv, HashesVouch
<1>5. HashesHaveChunks'
    BY DEF SInv, ControlInv, HashesHaveChunks
<1>6. OrderInv'
    BY DEF SInv, ControlInv, OrderInv, Adding
<1>7. PassInv'
    BY ContentIsNat, FoldersAssumption DEF SInv, PassInv, OrderInv, Deceptive
<1> QED BY <1>1, <1>2, <1>3, <1>4, <1>5, <1>6, <1>7 DEF SInv

\* What is taken for gone was not listed.
LEMMA SweepKeeps ==
    ASSUME SInv, Sweep
    PROVE  SInv'
<1> USE DEF Sweep, disk, torns
<1>1. TypeOK'
    BY DEF SInv, TypeOK, ControlInv, Passing
<1>2. ControlInv'
    BY DEF SInv, ControlInv, Passing, Adding
<1>3. AddInv'
    BY DEF AddInv
<1>4. HashesVouch'
    BY ContentIsNat DEF SInv, TypeOK, ControlInv, AddInv, HashesVouch
<1>5. HashesHaveChunks'
    BY DEF SInv, HashesHaveChunks
<1>6. OrderInv'
    BY DEF SInv, OrderInv, Adding
<1>7. PassInv'
    BY DEF SInv, PassInv, Deceptive
<1> QED BY <1>1, <1>2, <1>3, <1>4, <1>5, <1>6, <1>7 DEF SInv

\* What is removed was not listed, and keeps no hash.
LEMMA RemoveGoneKeeps ==
    ASSUME SInv, NEW f \in Files, RemoveGone(f)
    PROVE  SInv'
<1> USE DEF RemoveGone, Forgotten
<1>1. TypeOK'
    BY DEF SInv, TypeOK
<1>2. ControlInv'
    BY DEF SInv, ControlInv
<1>3. AddInv'
    BY DEF AddInv
<1>4. HashesVouch'
    BY DEF SInv, TypeOK, HashesVouch
<1>5. HashesHaveChunks'
    BY DEF SInv, TypeOK, HashesHaveChunks
<1>6. OrderInv'
    BY DEF SInv, TypeOK, ControlInv, OrderInv
<1>7. PassInv'
    BY DEF SInv, ControlInv, PassInv, Deceptive
<1> QED BY <1>1, <1>2, <1>3, <1>4, <1>5, <1>6, <1>7 DEF SInv

\* After a pass its variables are empty.
LEMMA FinishKeeps ==
    ASSUME SInv, Finish
    PROVE  SInv'
<1> USE DEF Finish, EndPass, disk, torns
<1>1. TypeOK'
    BY DEF SInv, TypeOK
<1>2. ControlInv'
    BY DEF ControlInv
<1>3. AddInv'
    BY DEF AddInv
<1>4. HashesVouch'
    BY DEF SInv, HashesVouch
<1>5. HashesHaveChunks'
    BY DEF SInv, HashesHaveChunks
<1>6. OrderInv'
    BY DEF SInv, OrderInv
<1>7. PassInv'
    BY DEF PassInv, Deceptive
<1> QED BY <1>1, <1>2, <1>3, <1>4, <1>5, <1>6, <1>7 DEF SInv

\* Chunks and hash go together.
LEMMA DeleteKeeps ==
    ASSUME SInv, NEW f \in Files, Delete(f)
    PROVE  SInv'
<1> USE DEF Delete, Forgotten, pass
<1>1. TypeOK'
    BY DEF SInv, TypeOK
<1>2. ControlInv'
    BY DEF SInv, ControlInv
<1>3. AddInv'
    BY DEF AddInv
<1>4. HashesVouch'
    BY DEF SInv, TypeOK, HashesVouch
<1>5. HashesHaveChunks'
    BY DEF SInv, TypeOK, HashesHaveChunks
<1>6. OrderInv'
    BY DEF SInv, TypeOK, OrderInv, Adding
<1>7. PassInv'
    BY DEF SInv, ControlInv, PassInv, Deceptive, Passing
<1> QED BY <1>1, <1>2, <1>3, <1>4, <1>5, <1>6, <1>7 DEF SInv

\* An error ends a pass between two adds.
LEMMA PassFailsKeeps ==
    ASSUME SInv, PassFails
    PROVE  SInv'
<1> USE DEF PassFails, EndPass, disk, torns
<1>1. TypeOK'
    BY DEF SInv, TypeOK
<1>2. ControlInv'
    BY DEF ControlInv
<1>3. AddInv'
    BY DEF AddInv
<1>4. HashesVouch'
    BY DEF SInv, HashesVouch
<1>5. HashesHaveChunks'
    BY DEF SInv, HashesHaveChunks
<1>6. OrderInv'
    BY DEF SInv, OrderInv
<1>7. PassInv'
    BY DEF PassInv, Deceptive
<1> QED BY <1>1, <1>2, <1>3, <1>4, <1>5, <1>6, <1>7 DEF SInv

\* An add that a crash cuts short leaves its file among the torn.
LEMMA CrashKeeps ==
    ASSUME SInv, Crash
    PROVE  SInv'
<1> USE DEF Crash, EndPass, disk
<1>1. TypeOK'
    BY DEF SInv, TypeOK
<1>2. ControlInv'
    BY DEF ControlInv
<1>3. AddInv'
    BY DEF AddInv
<1>4. HashesVouch'
    BY DEF SInv, HashesVouch
<1>5. HashesHaveChunks'
    BY DEF SInv, HashesHaveChunks
<1>6. OrderInv'
    BY DEF SInv, OrderInv
<1>7. PassInv'
    BY DEF PassInv, Deceptive
<1> QED BY <1>1, <1>2, <1>3, <1>4, <1>5, <1>6, <1>7 DEF SInv

\* A state that no step changes keeps everything.
LEMMA StutterKeeps ==
    ASSUME SInv, UNCHANGED vars
    PROVE  SInv'
<1> USE DEF vars
<1>1. TypeOK' /\ ControlInv' /\ AddInv'
    BY DEF SInv, TypeOK, ControlInv, AddInv
<1>2. HashesVouch' /\ HashesHaveChunks' /\ OrderInv'
    BY DEF SInv, HashesVouch, HashesHaveChunks, OrderInv
<1>3. PassInv'
    BY DEF SInv, PassInv, Deceptive
<1> QED BY <1>1, <1>2, <1>3 DEF SInv

\* Nothing is stored and no pass runs at first.
LEMMA InitKeeps ==
    ASSUME Init
    PROVE  SInv
<1> USE DEF Init
<1>1. TypeOK
    BY DEF TypeOK
<1>2. ControlInv /\ AddInv /\ PassInv
    BY DEF ControlInv, AddInv, PassInv
<1>3. HashesVouch /\ HashesHaveChunks
    BY DEF HashesVouch, HashesHaveChunks
<1>4. OrderInv
    <2>1. \A f \in Files : hashes[f] = None
        OBVIOUS
    <2>2. ASSUME NEW f \in Files, files[f] # None
          PROVE  files[f] <= newest[f]
        <3>1. files[f] \in Nat /\ newest[f] = files[f]
            BY <2>2, ContentIsNat
        <3> QED BY <3>1
    <2> QED BY <2>1, <2>2 DEF OrderInv, Adding
<1> QED BY <1>1, <1>2, <1>3, <1>4 DEF SInv

(***************************************************************************)
(* The theorems.                                                           *)
(***************************************************************************)
\* SInv is inductive.
THEOREM Inductive == SInv /\ [Next]_vars => SInv'
<1> SUFFICES ASSUME SInv, [Next]_vars PROVE SInv'
    OBVIOUS
<1>1. CASE UNCHANGED vars
    BY <1>1, StutterKeeps
<1>2. CASE \E f \in Files, c \in Contents : Write(f, c)
    BY <1>2, WriteKeeps
<1>3. CASE \E f \in Files : Remove(f)
    BY <1>3, RemoveKeeps
<1>4. CASE CalmDown \/ Open \/ \E d \in Folders : Start(d)
    BY <1>4, CalmDownKeeps, OpenKeeps, StartKeeps
<1>5. CASE \E f \in Files : ReadFails(f) \/ Skip(f) \/ Take(f) \/ RemoveGone(f)
    BY <1>5, ReadFailsKeeps, SkipKeeps, TakeKeeps, RemoveGoneKeeps
<1>6. CASE \E f \in Files : Add(f) \/ Delete(f)
    BY <1>6, AddKeeps, DeleteKeeps
<1>7. CASE AddFails \/ Ingest \/ LateAddFails \/ ForgetHash \/ SetHash
    BY <1>7, AddFailsKeeps, IngestKeeps, LateAddFailsKeeps, ForgetHashKeeps, SetHashKeeps
<1>8. CASE Sweep \/ Finish \/ PassFails \/ Crash
    BY <1>8, SweepKeeps, FinishKeeps, PassFailsKeeps, CrashKeeps
<1> QED
    BY <1>1, <1>2, <1>3, <1>4, <1>5, <1>6, <1>7, <1>8 DEF Next

\* The invariant holds in every reachable state: what holds between the
\* statements of an add and within a pass of sync_directory.
THEOREM Invariance == Spec => []SInv
<1>1. Init => SInv
    BY InitKeeps
<1> QED BY <1>1, Inductive, PTL DEF Spec

\* A recorded hash is that of the stored chunks, but for the files of an add cut
\* short or raced (raglite.rs:398, 450).
THEOREM HashesAreTrue == Spec => []HashesVouch
<1>1. SInv => HashesVouch
    BY DEF SInv
<1> QED BY <1>1, Invariance, PTL

\* What a hash is recorded for is stored.
THEOREM NoHashAlone == Spec => []HashesHaveChunks
<1>1. SInv => HashesHaveChunks
    BY DEF SInv
<1> QED BY <1>1, Invariance, PTL

\* A pass skips only a file whose contents are stored: contents that do not come
\* back are told apart by their order, others by a hash that vouches.
THEOREM SkipIsSafe == Spec => []SkipsOnlyWhatIsStored
<1>1. SInv => SkipsOnlyWhatIsStored
    <2> SUFFICES ASSUME SInv, pc = "walk",
                        NEW f \in todo \ Deceptive, files[f] # None, hashes[f] = files[f]
                 PROVE  stored[f] = files[f]
        BY DEF SkipsOnlyWhatIsStored
    <2>1. f \in Files
        BY FoldersAssumption DEF SInv, TypeOK
    <2>2. CASE f \notin Reverts
        BY <2>1, <2>2 DEF SInv, OrderInv
    <2>3. CASE f \notin torn
        BY <2>1, <2>3 DEF SInv, HashesVouch
    <2> QED BY <2>2, <2>3 DEF Deceptive
<1> QED BY <1>1, Invariance, PTL

\* A pass over a folder that did not change leaves what could be ingested stored
\* as it is.
THEOREM PassIsComplete == Spec => []PassMirrors
<1>1. SInv => PassMirrors
    BY DEF SInv, ControlInv, PassInv, PassMirrors
<1> QED BY <1>1, Invariance, PTL

\* A pass removes no chunks of a file that has been in its folder since it began,
\* nor of another folder.
THEOREM SweepIsSafe == Spec => PassKeepsWhatIsThere
<1> DEFINE Kept ==
        \A f \in Files :
            folder # None /\ folder' = folder /\ stored[f] # None /\ stored'[f] = None =>
                f \in Under[folder] /\ (quiet => files[f] = None)
<1>1. SInv /\ [Next]_vars => Kept
    <2> SUFFICES ASSUME SInv, [Next]_vars, NEW f \in Files,
                        folder # None, stored[f] # None, stored'[f] = None
                 PROVE  f \in Under[folder] /\ (quiet => files[f] = None)
        OBVIOUS
    <2>1. stored' # stored
        OBVIOUS
    <2>2. pc # "idle"
        BY DEF SInv, ControlInv, Passing
    <2>3. ~Ingest
        <3> SUFFICES ASSUME Ingest PROVE FALSE
            OBVIOUS
        <3>1. stored' = [stored EXCEPT ![file] = files[file]] /\ files[file] # None
            BY ContentIsNat DEF Ingest
        <3> QED BY <3>1 DEF SInv, TypeOK
    <2>4. \E g \in Files : RemoveGone(g)
        BY <2>1, <2>2, <2>3
        DEF Next, vars, disk, Write, Remove, CalmDown, Open, Start, ReadFails,
            Skip, Take, Add, Delete, AddFails, AddReturnsError, LateAddFails,
            ForgetHash, SetHash, Sweep, Finish, PassFails, Crash
    <2>5. f \in gone
        BY <2>4 DEF RemoveGone, Forgotten
    <2> QED BY <2>5 DEF SInv, TypeOK, ControlInv, PassInv
<1>2. PassKeepsWhatIsThere <=> [][Kept]_vars
    BY DEF PassKeepsWhatIsThere
<1> HIDE DEF Kept
<1>3. SInv /\ [Next]_vars => [Kept]_vars
    BY <1>1
<1> QED BY <1>2, <1>3, Invariance, PTL DEF Spec
=============================================================================
