--------------------------- MODULE MCSyncDirectory ---------------------------
(***************************************************************************)
(* SyncDirectory for TLC: two files, a folder and a folder inside it.      *)
(***************************************************************************)
EXTENDS SyncDirectoryInv, TLC

CONSTANTS f1, f2, notes, sub

Nested == notes :> {f1, f2} @@ sub :> {f2}
=============================================================================
