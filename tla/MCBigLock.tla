----------------------------- MODULE MCBigLock -----------------------------
(* The boot thread and one other thread, operations nested two deep. *)
EXTENDS BigLock

CONSTANTS boot, t1
=============================================================================
