----------------------------- MODULE Migrations -----------------------------
(***************************************************************************)
(* Opening the metadata store: MetadataStore::open brings a database of    *)
(* any earlier library to the latest schema, one transaction for each      *)
(* step, and refuses one of a later library.  Any process may open the     *)
(* folder, also while another does, and any of them may stop anywhere.     *)
(*                                                                         *)
(* Abstractions.  Of the tables and columns only those that a step creates *)
(* are named; the full-text index and the indexes come with table chunks.  *)
(* A transaction of SQLite takes effect at once or not at all: a step is   *)
(* one action.  A version record that cannot be read as a number is one of *)
(* a later library, as it is for the program.                              *)
(***************************************************************************)
EXTENDS Naturals

CONSTANTS
    Openers,      \* processes that open the folder
    Unrecorded    \* no version record

ASSUME OpenersAssumption == Unrecorded \notin Nat

LATEST_SCHEMA_VERSION == 4

VARIABLES
    tables,       \* the tables there are
    columns,      \* the columns that were added to table chunks
    version,      \* the version record, Unrecorded if there is none
    pc,           \* where each opener is
    current,      \* the version each opener takes the database to be at
    reverted      \* bookkeeping: a step was taken on a database already beyond it

db == <<tables, columns, version>>
migrationsVars == <<tables, columns, version, pc, current, reverted>>

\* What a database of each version has.
TablesAt(v) == {"meta"} \cup (IF v >= 1 THEN {"chunks"} ELSE {})
                        \cup (IF v >= 4 THEN {"documents"} ELSE {})
ColumnsAt(v) == (IF v >= 2 THEN {"offsets"} ELSE {}) \cup (IF v >= 3 THEN {"section"} ELSE {})

\* What current_version returns.  Without a record, table chunks tells.
CurrentVersion ==
    IF version # Unrecorded THEN version ELSE IF "chunks" \in tables THEN 1 ELSE 0

\* A new folder, a database from before versions were recorded (with table meta
\* or without), and one of each version up to a later library's.
MigrationsInit ==
    /\ \/ tables \in SUBSET {"meta"} /\ columns = {} /\ version = Unrecorded
       \/ tables \in {{"chunks"}, {"chunks", "meta"}} /\ columns = {} /\ version = Unrecorded
       \/ \E v \in 1..(LATEST_SCHEMA_VERSION + 1) :
            tables = TablesAt(v) /\ columns = ColumnsAt(v) /\ version = v
    /\ pc = [p \in Openers |-> "closed"]
    /\ current = [p \in Openers |-> 0]
    /\ reverted = FALSE

\* MetadataStore::open begins by creating table meta if it is not there.
CreateMeta(p) ==
    /\ pc[p] = "closed"
    /\ tables' = tables \cup {"meta"}
    /\ pc' = [pc EXCEPT ![p] = "record"]
    /\ UNCHANGED <<columns, version, current, reverted>>

\* Mutant: a version of a later library is taken for the latest.
RefuseNothing(p) ==
    /\ pc[p] = "record" /\ version # Unrecorded
    /\ current' = [current EXCEPT ![p] = IF version > LATEST_SCHEMA_VERSION
                                            THEN LATEST_SCHEMA_VERSION ELSE version]
    /\ pc' = [pc EXCEPT ![p] = "migrate"]
    /\ UNCHANGED <<tables, columns, version, reverted>>

\* The record is there: the database is refused if it is of a later library.
ReadRecord(p) ==
    /\ pc[p] = "record" /\ version # Unrecorded
    /\ current' = [current EXCEPT ![p] = version]
    /\ pc' = [pc EXCEPT ![p] =
                IF version > LATEST_SCHEMA_VERSION THEN "closed" ELSE "migrate"]
    /\ UNCHANGED <<tables, columns, version, reverted>>

\* The record is not there, and the tables are looked at in another statement.
NoRecord(p) ==
    /\ pc[p] = "record" /\ version = Unrecorded
    /\ pc' = [pc EXCEPT ![p] = "tables"]
    /\ UNCHANGED <<tables, columns, version, current, reverted>>

LookForTables(p) ==
    /\ pc[p] = "tables"
    /\ current' = [current EXCEPT ![p] = IF "chunks" \in tables THEN 1 ELSE 0]
    /\ pc' = [pc EXCEPT ![p] = "migrate"]
    /\ UNCHANGED <<tables, columns, version, reverted>>

\* ALTER TABLE needs the table and refuses a column that is there; the tables
\* are created if they are not there.
Applies(v) ==
    CASE v = 2 -> "chunks" \in tables /\ "offsets" \notin columns
      [] v = 3 -> "chunks" \in tables /\ "section" \notin columns
      [] OTHER -> TRUE

\* Mutant: the version is recorded ahead of the step, and not with it.
RecordFirst(p) ==
    LET v == current[p] + 1
    IN  /\ pc[p] = "migrate" /\ current[p] < LATEST_SCHEMA_VERSION
        /\ \/ Applies(v) /\ tables' = tables \cup TablesAt(v) /\ columns' = columns \cup ColumnsAt(v)
           \/ UNCHANGED <<tables, columns>>
        /\ version' = v
        /\ current' = [current EXCEPT ![p] = v]
        /\ reverted' = (reverted \/ CurrentVersion > v)
        /\ UNCHANGED pc

\* The next step and its version, in one transaction.
Migrate(p) ==
    LET v == current[p] + 1
    IN  /\ pc[p] = "migrate" /\ current[p] < LATEST_SCHEMA_VERSION
        /\ Applies(v)
        /\ tables' = tables \cup (CASE v = 1 -> {"chunks", "meta"}
                                    [] v = 4 -> {"documents"}
                                    [] OTHER -> {})
        /\ columns' = columns \cup (CASE v = 2 -> {"offsets"}
                                      [] v = 3 -> {"section"}
                                      [] OTHER -> {})
        /\ version' = v
        /\ current' = [current EXCEPT ![p] = v]
        /\ reverted' = (reverted \/ CurrentVersion > v)
        /\ UNCHANGED pc

Opened(p) ==
    /\ pc[p] = "migrate" /\ current[p] = LATEST_SCHEMA_VERSION
    /\ pc' = [pc EXCEPT ![p] = "open"]
    /\ UNCHANGED <<tables, columns, version, current, reverted>>

\* A step that does not apply, any other error, a crash, or the store is closed.
Stop(p) ==
    /\ pc[p] # "closed"
    /\ pc' = [pc EXCEPT ![p] = "closed"]
    /\ UNCHANGED <<tables, columns, version, current, reverted>>

MigrationsNext == \E p \in Openers :
    \/ CreateMeta(p) \/ ReadRecord(p) \/ NoRecord(p) \/ LookForTables(p)
    \/ Migrate(p) \/ Opened(p) \/ Stop(p)

MigrationsSpec == MigrationsInit /\ [][MigrationsNext]_migrationsVars
-----------------------------------------------------------------------------
(***************************************************************************)
(* Properties.                                                             *)
(***************************************************************************)

\* Every variable has its type.
MigrationsTypeOK ==
    /\ tables \subseteq {"meta", "chunks", "documents"}
    /\ columns \subseteq {"offsets", "section"}
    /\ version \in (1..(LATEST_SCHEMA_VERSION + 1)) \cup {Unrecorded}
    /\ pc \in [Openers -> {"closed", "record", "tables", "migrate", "open"}]
    /\ current \in [Openers -> 0..(LATEST_SCHEMA_VERSION + 1)]
    /\ reverted \in BOOLEAN

\* A store that opened has every table and column the library uses, whoever else
\* opened or migrated it meanwhile, and is not of a later library
\* (metadata.rs:461, "refused before anything is changed").
OpenIsComplete ==
    \A p \in Openers : pc[p] = "open" =>
        /\ TablesAt(LATEST_SCHEMA_VERSION) \subseteq tables
        /\ ColumnsAt(LATEST_SCHEMA_VERSION) \subseteq columns
        /\ version \in 1..LATEST_SCHEMA_VERSION

\* The version is that of the schema there is, so that the next open takes the
\* steps that are missing and no other, after any failures, unless two
\* processes opened a new folder at once (`reverted`).
VersionIsTrue ==
    ~reverted =>
        /\ tables \ {"meta"} = TablesAt(CurrentVersion) \ {"meta"}
        /\ columns = ColumnsAt(CurrentVersion)

\* A step can take the version back only to one whose schema is there.
SchemaIsThere ==
    IF version = Unrecorded
        THEN ~reverted /\ columns = {} /\ "documents" \notin tables
        ELSE TablesAt(version) \subseteq tables /\ ColumnsAt(version) \subseteq columns

\* What an opener has seen to be there stays there.
OpenersAreRight ==
    \A p \in Openers :
        /\ pc[p] # "closed" => "meta" \in tables
        /\ pc[p] \notin {"closed", "record"} /\ version # Unrecorded =>
                version <= LATEST_SCHEMA_VERSION
        /\ pc[p] \in {"migrate", "open"} =>
            /\ current[p] <= LATEST_SCHEMA_VERSION
            /\ TablesAt(current[p]) \subseteq tables
            /\ ColumnsAt(current[p]) \subseteq columns
            /\ current[p] >= 2 => version # Unrecorded
        /\ pc[p] = "open" => current[p] = LATEST_SCHEMA_VERSION

\* The inductive invariant.
MInv == MigrationsTypeOK /\ VersionIsTrue /\ SchemaIsThere /\ OpenersAreRight
=============================================================================
