------------------------------ MODULE BigLock ------------------------------
(***************************************************************************)
(* vfs_biglock of kern/vfs/vfslist.c, the lock all VFS and file system     *)
(* operations run under, made recursive with lock_do_i_hold of             *)
(* kern/thread/synch.c.  A thread runs an operation that takes the big     *)
(* lock and calls, up to Depth deep, others that take it too.  The lock    *)
(* itself is the one step lock_acquire and lock_release amount to (Lock).  *)
(***************************************************************************)
EXTENDS Naturals

CONSTANTS Thread,
          Creator,     \* the boot thread, which runs vfs_bootstrap
          Depth        \* bound on the nesting of operations

VARIABLES lock_count, lock_thread,   \* struct lock
          vfs_biglock_depth,
          inside,                    \* how many operations deep each thread is
          pc                         \* "op", or where in the three functions

vars == <<lock_count, lock_thread, vfs_biglock_depth, inside, pc>>

(* vfs_bootstrap; lock_create notes the thread that creates the lock. *)
Init ==
  /\ lock_count = 1 /\ lock_thread = Creator
  /\ vfs_biglock_depth = 0
  /\ inside = [t \in Thread |-> 0]
  /\ pc = [t \in Thread |-> "op"]

lock_do_i_hold(t) == lock_count # 1 /\ t = lock_thread

(* vfs_biglock_acquire: the test, lock_acquire, the count. *)
AcquireTest(t) ==
  /\ pc[t] = "op" /\ inside[t] < Depth
  /\ pc' = [pc EXCEPT ![t] = IF lock_do_i_hold(t) THEN "enter" ELSE "acquire"]
  /\ UNCHANGED <<lock_count, lock_thread, vfs_biglock_depth, inside>>

lock_acquire(t) ==
  /\ pc[t] = "acquire" /\ lock_count > 0
  /\ lock_count' = lock_count - 1
  /\ pc' = [pc EXCEPT ![t] = "enter"]
  /\ UNCHANGED <<lock_thread, vfs_biglock_depth, inside>>

AcquireEnter(t) ==
  /\ pc[t] = "enter"
  /\ vfs_biglock_depth' = vfs_biglock_depth + 1
  /\ inside' = [inside EXCEPT ![t] = @ + 1]
  /\ pc' = [pc EXCEPT ![t] = "op"]
  /\ UNCHANGED <<lock_count, lock_thread>>

(* vfs_biglock_release, with its assertions. *)
vfs_biglock_release(t) ==
  /\ pc[t] = "op" /\ inside[t] > 0
  /\ IF lock_do_i_hold(t) /\ vfs_biglock_depth > 0
     THEN /\ vfs_biglock_depth' = vfs_biglock_depth - 1
          /\ inside' = [inside EXCEPT ![t] = @ - 1]
          /\ lock_count' = IF vfs_biglock_depth' = 0 THEN lock_count + 1 ELSE lock_count
          /\ UNCHANGED pc
     ELSE /\ pc' = [pc EXCEPT ![t] = "panic"]
          /\ UNCHANGED <<lock_count, vfs_biglock_depth, inside>>
  /\ UNCHANGED lock_thread

Next == \E t \in Thread :
  AcquireTest(t) \/ lock_acquire(t) \/ AcquireEnter(t) \/ vfs_biglock_release(t)

Spec == Init /\ [][Next]_vars
-----------------------------------------------------------------------------
(* "The big lock for all FS ops": no two threads are inside operations. *)
OneThreadInside == \A t, u \in Thread : inside[t] > 0 /\ inside[u] > 0 => t = u
=============================================================================
