------------------------------ MODULE MCBindings ------------------------------
(***************************************************************************)
(* The parts of the system around the engine, for TLC: a C program, a      *)
(* Python program, processes that pull the models, processes that open a   *)
(* database of any version, and the engine in a web page.  They share      *)
(* nothing, so each behaviour is one of a single part; the others stay as  *)
(* they are, in one of their initial states.                               *)
(*                                                                         *)
(* The page has a content of two chunks, one of one, and one of none, with *)
(* a word that both chunks have and one that is in one of them.            *)
(***************************************************************************)
EXTENDS CBinding, PythonBinding, ModelFiles, Migrations, WasmEngine, TLC

CONSTANTS
    t1, t2, p1, p2, p3, d1, d2, q1, q2, o1, o2, o3,
    long, short, blank, sun, rain, s1, s2

VARIABLE part

parts == <<cVars, pyVars, filesVars, migrationsVars, wasmVars>>
allVars == <<parts, part>>

MCChunkCount == long :> 2 @@ short :> 1 @@ blank :> 0

MCTermCount ==
    sun :> (<<long, 1>> :> 1 @@ <<long, 2>> :> 2 @@ <<short, 1>> :> 1) @@
    rain :> (<<long, 1>> :> 0 @@ <<long, 2>> :> 1 @@ <<short, 1>> :> 0)

MCLengthOf == <<long, 1>> :> 1 @@ <<long, 2>> :> 3 @@ <<short, 1>> :> 2

NoFiles == name = [f \in ModelFile |-> NoFile] /\ temporary = [f \in ModelFile |-> NoFile]

BindingsInit ==
    /\ part \in {"C", "Python", "pull", "open", "page"}
    /\ CInit /\ PyInit /\ FilesInit /\ MigrationsInit /\ WasmInit
    /\ part # "pull" => NoFiles
    /\ part # "open" => tables = {}

AllIsOver ==
    /\ part = "C" => calls = MaxCalls /\ \A t \in Threads : call[t] = Idle
    /\ part = "Python" => pyCalls = MaxPyCalls /\ \A t \in PyThreads : at[t] = "out"
    /\ part = "pull" => \A p \in Pulls : pull[p].step \in Over \ {"ready"}
    /\ part \notin {"open", "page"}

BindingsNext ==
    \/ part = "C" /\ CNext /\ UNCHANGED <<pyVars, filesVars, migrationsVars, wasmVars, part>>
    \/ part = "Python" /\ PyNext /\ UNCHANGED <<cVars, filesVars, migrationsVars, wasmVars, part>>
    \/ part = "pull" /\ FilesNext /\ UNCHANGED <<cVars, pyVars, migrationsVars, wasmVars, part>>
    \/ part = "open" /\ MigrationsNext /\ UNCHANGED <<cVars, pyVars, filesVars, wasmVars, part>>
    \/ part = "page" /\ WasmNext /\ UNCHANGED <<cVars, pyVars, filesVars, migrationsVars, part>>
    \/ AllIsOver /\ UNCHANGED allVars

BindingsSpec == BindingsInit /\ [][BindingsNext]_allVars

Symmetry == Permutations(PyThreads)
=============================================================================
