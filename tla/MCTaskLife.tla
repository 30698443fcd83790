------------------------------ MODULE MCTaskLife ------------------------------
(***************************************************************************)
(* TaskLife with a few task slots; Task::maxCount is 256.                   *)
(***************************************************************************)
EXTENDS TaskLife
=============================================================================
