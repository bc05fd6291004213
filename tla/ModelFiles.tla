------------------------------ MODULE ModelFiles ------------------------------
(***************************************************************************)
(* The folder of models: `raglite models pull` (bin/raglite/models.rs),    *)
(* which any number of processes may run, and stop in, at once; and what   *)
(* an open of a database finds there, if it looks there (find_model,       *)
(* find_reranker in raglite.rs, load_model in embedding.rs).               *)
(*                                                                         *)
(* Abstractions.  A file is a name for an inode, and an open file stays    *)
(* one when its name goes to another.  Contents are the halves that are    *)
(* written of the pinned contents, or Other: those of another version.     *)
(***************************************************************************)
EXTENDS Naturals

CONSTANTS
    Pulls,        \* processes that pull
    MaxInodes,    \* bound: inodes that one file uses at a time
    NoFile

\* MODEL_FILES, in order.
FilesInOrder == <<"model", "vocab", "reranker">>
ModelFile == {FilesInOrder[i] : i \in 1..3}

Halves == {"first", "second"}
Pinned == Halves
Other == {"other"}
FileContents == (SUBSET Halves) \cup {Other}

\* An inode is named for the file it is made for.
Inodes == ModelFile \X (0..MaxInodes)

ASSUME ModelFilesAssumption == MaxInodes \in Nat \ {0} /\ NoFile \notin Inodes

VARIABLES
    name,       \* name[f]: the inode of the file f under its real name, or NoFile
    temporary,  \* temporary[f]: that of .f.download
    data,       \* what is in each inode
    pull,       \* where each pull is: the step, and its place in FilesInOrder
    open,       \* the inode that a pull has open for writing, also after it stopped
    together    \* whether a pull ran while another one did

filesVars == <<name, temporary, data, pull, open, together>>

File(p) == FilesInOrder[pull[p].at]
IsAt(p, step) == pull[p].step = step
Over == {"ready", "done", "failed", "stopped"}
Runs(p) == pull[p].step \notin Over

\* A folder with no files, with some of another version or pinned ones, and what an
\* interrupted pull left of a temporary file.
FilesInit ==
    /\ \E holds \in [ModelFile -> {NoFile, Pinned, Other}], left \in SUBSET ModelFile :
          /\ name = [f \in ModelFile |-> IF holds[f] = NoFile THEN NoFile ELSE <<f, 0>>]
          /\ temporary = [f \in ModelFile |-> IF f \in left THEN <<f, 1>> ELSE NoFile]
          /\ data = [i \in Inodes |->
                       IF i[2] = 0 /\ holds[i[1]] # NoFile THEN holds[i[1]]
                       ELSE IF i[2] = 1 /\ i[1] \in left THEN {"first"} ELSE {}]
    /\ pull = [p \in Pulls |-> [step |-> "ready", at |-> 1]]
    /\ open = [p \in Pulls |-> NoFile]
    /\ together = FALSE

To(p, step) == pull' = [pull EXCEPT ![p].step = step]

Start(p) ==
    /\ IsAt(p, "ready")
    /\ To(p, "check")
    /\ together' = (together \/ \E q \in Pulls : Runs(q))
    /\ UNCHANGED <<name, temporary, data, open>>

Past(p) ==
    pull' = [pull EXCEPT ![p] = IF pull[p].at = 3 THEN [step |-> "done", at |-> 3]
                                ELSE [step |-> "check", at |-> pull[p].at + 1]]

\* Mutant: a file that is there is kept.
KeepAny(p) ==
    /\ IsAt(p, "check")
    /\ name[File(p)] # NoFile
    /\ Past(p)
    /\ UNCHANGED <<name, temporary, data, open, together>>

\* The file is there and has the pinned hash.
Matches(file) == IF name[file] = NoFile THEN FALSE ELSE data[name[file]] = Pinned

Keep(p) ==
    /\ IsAt(p, "check")
    /\ Matches(File(p))
    /\ Past(p)
    /\ UNCHANGED <<name, temporary, data, open, together>>

\* The download fails, is interrupted, has another hash, or is right.
Download(p) ==
    /\ IsAt(p, "check")
    /\ ~Matches(File(p))
    /\ To(p, "write") \/ To(p, "failed")
    /\ UNCHANGED <<name, temporary, data, open, together>>

Named == {name[f] : f \in ModelFile} \cup {temporary[f] : f \in ModelFile}
Unused(f) == {i \in {f} \X (0..MaxInodes) : i \notin Named /\ \A p \in Pulls : open[p] # i}
NewInode(f) == IF Unused(f) = {} THEN {} ELSE {CHOOSE i \in Unused(f) : TRUE}

\* Mutant: the download is written under the real name.
CreateInPlace(p) ==
    /\ IsAt(p, "write")
    /\ \E i \in IF name[File(p)] = NoFile THEN NewInode(File(p)) ELSE {name[File(p)]} :
          /\ name' = [name EXCEPT ![File(p)] = i]
          /\ data' = [data EXCEPT ![i] = {}]
          /\ open' = [open EXCEPT ![p] = i]
    /\ To(p, "first")
    /\ UNCHANGED <<temporary, together>>

\* std::fs::write begins: the temporary file is made, or the one there is emptied.
Create(p) ==
    /\ IsAt(p, "write")
    /\ \E i \in IF temporary[File(p)] = NoFile THEN NewInode(File(p)) ELSE {temporary[File(p)]} :
          /\ temporary' = [temporary EXCEPT ![File(p)] = i]
          /\ data' = [data EXCEPT ![i] = {}]
          /\ open' = [open EXCEPT ![p] = i]
    /\ To(p, "first")
    /\ UNCHANGED <<name, together>>

Write(p, half, next) ==
    /\ IsAt(p, half)
    /\ data' = [data EXCEPT ![open[p]] = (@ \ Other) \cup {half}]
    /\ open' = IF half = "second" THEN [open EXCEPT ![p] = NoFile] ELSE open
    /\ To(p, next)
    /\ UNCHANGED <<name, temporary, together>>

Rename(p) ==
    /\ IsAt(p, "rename")
    /\ temporary[File(p)] # NoFile
    /\ name' = [name EXCEPT ![File(p)] = temporary[File(p)]]
    /\ temporary' = [temporary EXCEPT ![File(p)] = NoFile]
    /\ Past(p)
    /\ UNCHANGED <<data, open, together>>

\* The temporary file cannot be made or written, or another pull has renamed it.
WriteFails(p) ==
    /\ pull[p].step \in {"write", "first", "second", "rename"}
    /\ To(p, "failed")
    /\ UNCHANGED <<name, temporary, data, open, together>>

\* The process ends wherever it is.
Stops(p) ==
    /\ Runs(p)
    /\ To(p, "stopped")
    /\ UNCHANGED <<name, temporary, data, open, together>>

FilesNext == \E p \in Pulls :
    \/ Start(p) \/ Keep(p) \/ Download(p) \/ Create(p)
    \/ Write(p, "first", "second") \/ Write(p, "second", "rename")
    \/ Rename(p) \/ WriteFails(p) \/ Stops(p)

FilesSpec == FilesInit /\ [][FilesNext]_filesVars

-----------------------------------------------------------------------------
(* Opening a database.  A pull writes to the folder it is given, ./models if to none,  *)
(* and an open looks there in two cases: the configuration or the environment names    *)
(* the file there, or that folder is <db>/models (`here`).  `places` tells what is     *)
(* named for the model and for the reranker ("other": a file elsewhere; "missing": one *)
(* that is not there), and whether the database has files of its `own` instead.        *)

Places == [model : {"none", "pulled", "other", "missing"},
           reranker : {"none", "pulled", "other", "missing"},
           own : BOOLEAN, here : BOOLEAN, embedded : BOOLEAN]

find(file, named, places) ==
    IF named # "none" THEN named
    ELSE IF places.own THEN "other"
    ELSE IF places.here /\ name[file] # NoFile THEN "pulled" ELSE "none"

find_model(places) == find("model", places.model, places)
find_reranker(places) == find("reranker", places.reranker, places)

\* The runtime takes whole files only; a vocabulary is read as it is.  A file of the
\* user's loads, with the vocabulary that is next to it.
Error == [error |-> "Model"]
load_model(file, found) ==
    IF found = "missing" THEN Error
    ELSE IF found # "pulled" THEN [file |-> found, vocab |-> found]
    ELSE IF name[file] = NoFile \/ name["vocab"] = NoFile THEN Error
    ELSE IF data[name[file]] \notin {Pinned, Other} THEN Error
    ELSE [file |-> data[name[file]], vocab |-> data[name["vocab"]]]

\* `embedded`: whether a model was compiled in.
default_model(embedded) ==
    IF embedded THEN [file |-> "embedded", vocab |-> "embedded"] ELSE Error

model_at_open(places) ==
    IF find_model(places) = "none" THEN default_model(places.embedded)
    ELSE load_model("model", find_model(places))

\* No reranker is no error: reranked queries are refused.
reranker_at_open(places) ==
    IF find_reranker(places) = "none" THEN NoFile
    ELSE load_model("reranker", find_reranker(places))

-----------------------------------------------------------------------------
(* Properties. *)

FilesTypeOK ==
    /\ name \in [ModelFile -> Inodes \cup {NoFile}]
    /\ temporary \in [ModelFile -> Inodes \cup {NoFile}]
    /\ data \in [Inodes -> FileContents]
    /\ pull \in [Pulls -> [step : Over \cup {"check", "write", "first", "second", "rename"},
                          at : 1..3]]
    /\ open \in [Pulls -> Inodes \cup {NoFile}]
    /\ together \in BOOLEAN

\* "An interrupted write never leaves a partial file under the real name" (models.rs:91),
\* as far as it goes: only a pull that ran with another one and has the file open, or had
\* when it stopped, leaves a file that is neither the pinned nor an earlier one.
DownloadsAreWhole ==
    \A f \in ModelFile : name[f] # NoFile /\ data[name[f]] \notin {Pinned, Other} =>
        together /\ \E p \in Pulls : open[p] = name[f]

\* An open looks in the folder of the pulls when a variable names it or it is <db>/models.
LooksThere(named, places) ==
    \/ named = "pulled"
    \/ named = "none" /\ places.here /\ ~places.own

\* After a pull that reported no error an open that looks in its folder gets the pinned
\* model, vocabulary and reranker, unless another pull was cut off in one of them.  An
\* open does not look in ./models, the default of a pull, unless it is told to.
\* (models_command, pull, fetch, find_model, find_reranker, load_model)
PulledModelsOpen ==
    (\E p \in Pulls : IsAt(p, "done")) /\ (\A p \in Pulls, f \in ModelFile : open[p] # name[f]) =>
        \A places \in Places :
            /\ LooksThere(places.model, places) =>
                  model_at_open(places) = [file |-> Pinned, vocab |-> Pinned]
            /\ LooksThere(places.reranker, places) =>
                  reranker_at_open(places) = [file |-> Pinned, vocab |-> Pinned]
=============================================================================
