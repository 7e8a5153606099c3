----------------------------- MODULE MCThreads -----------------------------
(* Instance of Threads: two CPUs, whose boot threads are t0 and t1, and the
   structures of further threads. *)
EXTENDS Threads, TLC

CONSTANTS t0, t1, t2, t3

Symm == Permutations({t2, t3})

MCBootThread == 0 :> t0 @@ 1 :> t1
=============================================================================
