---------------------------- MODULE SyncDirectory ----------------------------
(***************************************************************************)
(* RAGLite::sync_directory: bringing the stored documents in line with a   *)
(* folder whose files change while the pass runs.  The table `documents`   *)
(* keeps the content hash of each file a pass has ingested.  A pass reads  *)
(* a file to hash it, add_document reads it again to ingest it, and the    *)
(* chunks, the removal of the old hash and the new hash are three          *)
(* statements of SQLite.  A program may also add and remove the same files *)
(* itself, an operation may fail or the process end between any two steps, *)
(* and the watch loop of the command line runs passes for ever.            *)
(*                                                                         *)
(* Abstractions.  A content stands for its bytes, for its hash (no two     *)
(* contents collide) and for the chunks it is split into; the chunks of a  *)
(* source are replaced and removed as a whole (ChunkStore).  The files of  *)
(* a pass are taken in any order.  SQLite keeps what is committed; the     *)
(* index file is the matter of RagLite.                                    *)
(***************************************************************************)
EXTENDS Naturals

CONSTANTS
    Files,        \* files that may exist, by path
    Folders,      \* folders that may be synced
    Under,        \* the files under each folder
    Watched,      \* the folder of the watch loop
    Contents,     \* what a file may contain, in the order it can be written
    Parsable,     \* contents that add_document accepts
    Reverts,      \* files that may contain again what they contained before
    None          \* no file, no chunks, no hash, no pass

ASSUME ContentsAssumption ==
    /\ Contents \subseteq Nat \ {0} /\ Parsable \subseteq Contents
    /\ None \notin Contents
ASSUME FoldersAssumption ==
    /\ Watched \in Folders /\ None \notin Folders
    /\ Under \in [Folders -> SUBSET Files]
ASSUME FilesAssumption == Reverts \subseteq Files /\ None \notin Files

VARIABLES
    \* The folder.
    files,        \* what each file contains
    newest,       \* the last content each file has had
    \* On disk: they survive the process.
    stored,       \* the content whose chunks are stored for each file
    hashes,       \* table documents
    \* In the process.
    pc,           \* where it is
    folder,       \* the folder of the pass, None outside one
    present,      \* files that the pass has listed
    todo,         \* ... and has not come to yet
    file, seen,   \* the file being added, and its content when it was hashed
    failed,       \* report.failed
    gone,         \* sources still to be removed
    \* Bookkeeping of the specification.
    calm,         \* from here on only the watch loop runs, and nothing fails
    quiet,        \* no file has changed since the pass began
    raced,        \* the file being added has changed since it was hashed
    torn          \* files whose last add was cut short or raced

disk == <<stored, hashes>>
pass == <<folder, present, todo, failed, gone>>
torns == <<raced, torn>>
vars == <<files, newest, stored, hashes, pc, folder, present, todo, file, seen,
          failed, gone, calm, quiet, raced, torn>>

Passing == {"walk", "read", "ingested", "forgotten", "sweep"}

Init ==
    /\ files \in [Files -> {None} \cup Contents]
    /\ newest = [f \in Files |-> IF files[f] = None THEN 0 ELSE files[f]]
    /\ stored = [f \in Files |-> None] /\ hashes = [f \in Files |-> None]
    /\ pc = "closed" /\ folder = None
    /\ present = {} /\ todo = {} /\ failed = {} /\ gone = {}
    /\ file = None /\ seen = None
    /\ calm = FALSE /\ quiet = FALSE /\ raced = FALSE /\ torn = {}

(***************************************************************************)
(* The world: editors, and the last change there will be.                  *)
(***************************************************************************)
Changes(f) ==
    /\ quiet' = FALSE
    /\ raced' = (raced \/ (pc = "read" /\ file = f))

Write(f, c) ==
    /\ ~calm
    /\ files[f] # c
    /\ f \in Reverts \/ c > newest[f]
    /\ files' = [files EXCEPT ![f] = c]
    /\ newest' = [newest EXCEPT ![f] = IF c > @ THEN c ELSE @]
    /\ Changes(f)
    /\ UNCHANGED <<disk, pc, pass, file, seen, calm, torn>>

Remove(f) ==
    /\ ~calm
    /\ files[f] # None
    /\ files' = [files EXCEPT ![f] = None]
    /\ Changes(f)
    /\ UNCHANGED <<newest, disk, pc, pass, file, seen, calm, torn>>

CalmDown ==
    /\ ~calm /\ calm' = TRUE
    /\ UNCHANGED <<files, newest, disk, pc, pass, file, seen, quiet, torns>>

(***************************************************************************)
(* A pass.                                                                 *)
(***************************************************************************)
Open ==
    /\ pc \in {"closed", "ended"} /\ pc' = "idle"
    /\ UNCHANGED <<files, newest, disk, pass, file, seen, calm, quiet, torns>>

\* collect_files lists the folder.
Start(d) ==
    /\ pc = "idle" /\ pc' = "walk"
    /\ calm => d = Watched
    /\ folder' = d
    /\ present' = {f \in Under[d] : files[f] # None}
    /\ todo' = present'
    /\ failed' = {} /\ gone' = {}
    /\ quiet' = TRUE
    /\ UNCHANGED <<files, newest, disk, file, seen, calm, torns>>

\* Mutant: a file that cannot be read is tried again in the same pass.
ReadFailsRetried(f) ==
    /\ pc = "walk" /\ f \in todo
    /\ files[f] = None \/ ~calm
    /\ failed' = failed \cup {f}
    /\ UNCHANGED <<files, newest, disk, pc, folder, present, todo, gone, file, seen,
                   calm, quiet, torns>>

\* The file is gone by now, or cannot be read this time.
ReadFails(f) ==
    /\ pc = "walk" /\ f \in todo
    /\ files[f] = None \/ ~calm
    /\ failed' = failed \cup {f}
    /\ todo' = todo \ {f}
    /\ UNCHANGED <<files, newest, disk, pc, folder, present, gone, file, seen,
                   calm, quiet, torns>>

\* Mutant: a file that has a hash is taken for unchanged.
SkipKnown(f) ==
    /\ pc = "walk" /\ f \in todo
    /\ files[f] # None /\ hashes[f] # None
    /\ todo' = todo \ {f}
    /\ UNCHANGED <<files, newest, disk, pc, folder, present, failed, gone, file,
                   seen, calm, quiet, torns>>

\* The file has the recorded hash.
Skip(f) ==
    /\ pc = "walk" /\ f \in todo
    /\ files[f] # None /\ hashes[f] = files[f]
    /\ todo' = todo \ {f}
    /\ UNCHANGED <<files, newest, disk, pc, folder, present, failed, gone, file,
                   seen, calm, quiet, torns>>

\* The file is new or has another hash: the pass calls add_document.
Take(f) ==
    /\ pc = "walk" /\ pc' = "read" /\ f \in todo
    /\ files[f] # None /\ hashes[f] # files[f]
    /\ file' = f /\ seen' = files[f]
    /\ raced' = FALSE
    /\ UNCHANGED <<files, newest, disk, pass, calm, quiet, torn>>

(***************************************************************************)
(* add_document, called by a pass or by the program.                       *)
(***************************************************************************)
Add(f) ==
    /\ pc = "idle" /\ pc' = "read" /\ ~calm
    /\ file' = f
    /\ UNCHANGED <<files, newest, disk, pass, seen, calm, quiet, torns>>

\* An error of add_document: a pass goes on with the next file.
AddReturnsError ==
    /\ pc' = IF folder = None THEN "idle" ELSE "walk"
    /\ failed' = IF folder = None THEN failed ELSE failed \cup {file}
    /\ todo' = todo \ {file}
    /\ file' = None /\ seen' = None
    /\ UNCHANGED <<files, newest, disk, folder, present, gone, calm, quiet,
                   raced>>

\* The file is gone or has no text, or the model or the transaction fails.
AddFails ==
    /\ pc = "read"
    /\ files[file] \notin Parsable \/ ~calm
    /\ AddReturnsError
    /\ UNCHANGED torn

\* parse_document reads the file again; replace_source commits its chunks.
Ingest ==
    /\ pc = "read" /\ pc' = "ingested"
    /\ files[file] \in Parsable
    /\ stored' = [stored EXCEPT ![file] = files[file]]
    /\ UNCHANGED <<files, newest, hashes, pass, file, seen, calm, quiet, torns>>

\* flush_if_due or forget_document_hash fails, after the chunks are committed.
LateAddFails ==
    /\ pc = "ingested" /\ ~calm
    /\ AddReturnsError
    /\ torn' = torn \cup {file}

\* Mutant: add_document leaves the hash of the earlier content.
KeepHash ==
    /\ pc = "ingested"
    /\ IF folder = None
       THEN pc' = "idle" /\ file' = None /\ seen' = None
       ELSE pc' = "forgotten" /\ UNCHANGED <<file, seen>>
    /\ torn' = torn \ {file}
    /\ UNCHANGED <<files, newest, disk, pass, calm, quiet, raced>>

\* forget_document_hash, the last statement of add_document.
ForgetHash ==
    /\ pc = "ingested"
    /\ hashes' = [hashes EXCEPT ![file] = None]
    /\ IF folder = None
       THEN pc' = "idle" /\ file' = None /\ seen' = None
       ELSE pc' = "forgotten" /\ UNCHANGED <<file, seen>>
    /\ torn' = torn \ {file}
    /\ UNCHANGED <<files, newest, stored, pass, calm, quiet, raced>>

\* Mutant: the hash is taken from the file after it was ingested.
SetLateHash ==
    /\ pc = "forgotten" /\ pc' = "walk"
    /\ hashes' = [hashes EXCEPT ![file] = files[file]]
    /\ todo' = todo \ {file}
    /\ file' = None /\ seen' = None
    /\ torn' = IF raced THEN torn \cup {file} ELSE torn
    /\ UNCHANGED <<files, newest, stored, folder, present, failed, gone, calm, quiet,
                   raced>>

\* set_document_hash, back in the pass, with the hash of the first read.
SetHash ==
    /\ pc = "forgotten" /\ pc' = "walk"
    /\ hashes' = [hashes EXCEPT ![file] = seen]
    /\ todo' = todo \ {file}
    /\ file' = None /\ seen' = None
    /\ torn' = IF raced THEN torn \cup {file} ELSE torn
    /\ UNCHANGED <<files, newest, stored, folder, present, failed, gone, calm, quiet,
                   raced>>

(***************************************************************************)
(* The second half of a pass: files that are gone.                         *)
(***************************************************************************)
\* Mutant: every tracked file of the folder is taken for gone.
SweepAll ==
    /\ pc = "walk" /\ pc' = "sweep" /\ todo = {}
    /\ gone' = {f \in Under[folder] : hashes[f] # None}
    /\ UNCHANGED <<files, newest, disk, folder, present, todo, failed, file, seen,
                   calm, quiet, torns>>

\* document_sources is read once, after the files have been dealt with.
Sweep ==
    /\ pc = "walk" /\ pc' = "sweep" /\ todo = {}
    /\ gone' = {f \in Under[folder] \ present : hashes[f] # None}
    /\ UNCHANGED <<files, newest, disk, folder, present, todo, failed, file, seen,
                   calm, quiet, torns>>

\* Mutant: the chunks only.
ForgottenChunks(f) ==
    /\ stored' = [stored EXCEPT ![f] = None]
    /\ torn' = torn \ {f}
    /\ UNCHANGED hashes

\* delete_by_source: the chunks and the hash in one transaction.
Forgotten(f) ==
    /\ stored' = [stored EXCEPT ![f] = None]
    /\ hashes' = [hashes EXCEPT ![f] = None]
    /\ torn' = torn \ {f}

RemoveGone(f) ==
    /\ pc = "sweep" /\ f \in gone
    /\ Forgotten(f)
    /\ gone' = gone \ {f}
    /\ UNCHANGED <<files, newest, pc, folder, present, todo, failed, file, seen,
                   calm, quiet, raced>>

EndPass ==
    /\ folder' = None /\ present' = {} /\ todo' = {} /\ failed' = {} /\ gone' = {}
    /\ file' = None /\ seen' = None

Finish ==
    /\ pc = "sweep" /\ pc' = "idle" /\ gone = {}
    /\ EndPass
    /\ UNCHANGED <<files, newest, disk, calm, quiet, torns>>

(***************************************************************************)
(* delete_document by the program, errors, and the end of the process.     *)
(***************************************************************************)
Delete(f) ==
    /\ pc = "idle" /\ ~calm
    /\ Forgotten(f)
    /\ UNCHANGED <<files, newest, pc, pass, file, seen, calm, quiet, raced>>

\* An error that sync_directory returns, of the store or of a flush: a program
\* may go on with the handle, the watch loop ends.
PassFails ==
    /\ pc \in {"walk", "forgotten", "sweep"} /\ ~calm
    /\ pc' \in {"idle", "ended"}
    /\ EndPass
    /\ UNCHANGED <<files, newest, disk, calm, quiet, torns>>

\* An add cut short after its chunks are committed keeps the old hash.
Crash ==
    /\ pc \notin {"closed", "ended"} /\ ~calm
    /\ pc' = "closed"
    /\ EndPass
    /\ torn' = IF pc = "ingested" THEN torn \cup {file} ELSE torn
    /\ UNCHANGED <<files, newest, disk, calm, quiet, raced>>

\* What the watch loop does by itself.
Watch ==
    \/ Start(Watched)
    \/ \E f \in Files : ReadFails(f) \/ Skip(f) \/ Take(f) \/ RemoveGone(f)
    \/ AddFails \/ Ingest \/ ForgetHash \/ SetHash
    \/ Sweep \/ Finish

Next ==
    \/ \E f \in Files, c \in Contents : Write(f, c)
    \/ \E f \in Files : Remove(f)
    \/ CalmDown
    \/ Open
    \/ \E d \in Folders : Start(d)
    \/ \E f \in Files : ReadFails(f) \/ Skip(f) \/ Take(f) \/ RemoveGone(f)
    \/ \E f \in Files : Add(f) \/ Delete(f)
    \/ AddFails \/ Ingest \/ LateAddFails \/ ForgetHash \/ SetHash
    \/ Sweep \/ Finish \/ PassFails \/ Crash

Spec == Init /\ [][Next]_vars

\* `watch` sleeps and calls sync_directory again, for ever.
FairSpec == Spec /\ WF_vars(Watch)
-----------------------------------------------------------------------------
(***************************************************************************)
(* Properties.                                                             *)
(***************************************************************************)

\* Every variable has its type, and a pass works on files of its folder.
TypeOK ==
    /\ files \in [Files -> {None} \cup Contents]
    /\ newest \in [Files -> {0} \cup Contents]
    /\ stored \in [Files -> {None} \cup Parsable]
    /\ hashes \in [Files -> {None} \cup Contents]
    /\ pc \in {"closed", "ended", "idle"} \cup Passing
    /\ folder \in {None} \cup Folders
    /\ todo \subseteq present /\ failed \subseteq present
    /\ folder # None => present \cup gone \subseteq Under[folder]
    /\ folder = None => present = {} /\ gone = {}
    /\ file \in {None} \cup Files /\ seen \in {None} \cup Contents
    /\ pc \in {"read", "ingested", "forgotten"} => file # None
    /\ calm \in BOOLEAN /\ quiet \in BOOLEAN
    /\ raced \in BOOLEAN /\ torn \subseteq Files

\* A recorded hash is that of the content whose chunks are stored, unless the
\* last add of the file was cut short between its statements or the file changed
\* between its two reads.  Nothing else parts the two.
HashesVouch ==
    \A f \in Files \ torn :
        hashes[f] \in {None, stored[f]} \/ (pc = "ingested" /\ file = f)

\* Files whose mismatch does not heal: only one that comes back to what it was
\* when it was hashed can be mistaken for unchanged.
Deceptive == Reverts \cap torn

\* sync_directory skips a file whose hash is the recorded one (line 458): the
\* chunks that are stored are then those of the file.
SkipsOnlyWhatIsStored ==
    pc = "walk" => \A f \in todo \ Deceptive :
        files[f] # None /\ hashes[f] = files[f] => stored[f] = files[f]

\* The end of a pass in a folder that did not change meanwhile: what could be
\* ingested is stored as it is, whatever earlier passes left half done.
PassMirrors ==
    pc = "sweep" /\ gone = {} /\ quiet =>
        \A f \in Under[folder] \ (failed \cup Deceptive) :
            files[f] # None => stored[f] = files[f]

\* What a hash is recorded for is stored: the sweep can remove it.
HashesHaveChunks ==
    \A f \in Files : hashes[f] # None => stored[f] # None

\* A pass removes nothing that has been in its folder since it began, nor
\* anything of another folder: replacing and sweeping keep out of each other's
\* way.
PassKeepsWhatIsThere ==
    [][\A f \in Files :
        folder # None /\ folder' = folder /\ stored[f] # None /\ stored'[f] = None =>
            f \in Under[folder] /\ (quiet => files[f] = None)]_vars

Mirrored ==
    \A f \in Under[Watched] \ Deceptive :
        /\ files[f] \in Parsable => stored[f] = files[f] /\ hashes[f] = files[f]
        /\ files[f] = None => hashes[f] = None

\* The watch loop (bin/raglite.rs:398): once files stop changing and nothing
\* fails any more, the folder is mirrored and stays so.
WatchMirrors == calm /\ pc \notin {"closed", "ended"} ~> []Mirrored
=============================================================================
