-------------------------- MODULE SyncDirectoryInv --------------------------
(***************************************************************************)
(* The inductive invariant behind the safety properties of SyncDirectory:  *)
(* what holds between the statements of an add and within a pass.          *)
(***************************************************************************)
EXTENDS SyncDirectory

Adding == {"read", "ingested", "forgotten"}

\* The places of the program agree with what it holds.
ControlInv ==
    /\ pc \notin Passing => folder = None
    /\ pc \in {"walk", "forgotten", "sweep"} => folder # None
    /\ pc \in Adding /\ folder # None => file \in todo /\ seen # None
    /\ pc \notin Adding => file = None
    /\ pc = "forgotten" => hashes[file] = None
    /\ pc \in {"ingested", "forgotten"} => stored[file] # None
    /\ pc = "sweep" => todo = {}
    /\ gone \cap present = {}

\* An add that no change raced has stored what it hashed.
AddInv ==
    folder # None /\ ~raced =>
        /\ pc = "read" => files[file] = seen
        /\ pc \in {"ingested", "forgotten"} => stored[file] = seen

\* Contents that never come back are told apart by their order, and a hash
\* that is the file's is that of the stored chunks.
OrderInv ==
    /\ \A f \in Files \ Reverts :
        /\ files[f] # None => files[f] <= newest[f]
        /\ hashes[f] # None => hashes[f] <= newest[f]
        /\ files[f] # None /\ hashes[f] = files[f] => stored[f] = files[f]
    /\ pc \in Adding /\ folder # None /\ file \notin Reverts =>
        /\ seen <= newest[file]
        /\ pc # "read" /\ files[file] = seen => stored[file] = seen

\* In a folder that has not changed, the files behind the pass are stored.
PassInv ==
    quiet /\ folder # None =>
        /\ present = {f \in Under[folder] : files[f] # None}
        /\ pc \in {"ingested", "forgotten"} => stored[file] = files[file]
        /\ \A f \in present \ (todo \cup failed \cup Deceptive) : stored[f] = files[f]

SInv ==
    /\ TypeOK
    /\ ControlInv
    /\ AddInv
    /\ HashesVouch
    /\ HashesHaveChunks
    /\ OrderInv
    /\ PassInv
=============================================================================
