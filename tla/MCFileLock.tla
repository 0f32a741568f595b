----------------------------- MODULE MCFileLock -----------------------------
(* FileLock with three processes, some of which may die.                   *)
EXTENDS FileLock
=============================================================================
