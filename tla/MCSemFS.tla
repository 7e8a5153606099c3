------------------------------ MODULE MCSemFS ------------------------------
(* SemFS for TLC: three processes, the first of them the boot thread. *)
EXTENDS SemFS, TLC

CONSTANTS p1, p2, p3, a, b

(* The other processes, and the names, are alike. *)
Symm == Permutations({p2, p3}) \cup Permutations({a, b})
=============================================================================
