-------------------------------- MODULE Lock --------------------------------
(***************************************************************************)
(* struct lock of kern/thread/synch.c.  lock_acquire and lock_release are  *)
(* P and V over again, on lock_count, lock_lock and lock_wchan with the    *)
(* count starting at 1, so their steps are those of Semaphore.  holder is  *)
(* not in the code: lock_thread names the creator and never changes.       *)
(* Callers keep to what synch.h asks: a thread releases what it holds and  *)
(* acquires what it does not hold.                                         *)
(***************************************************************************)
EXTENDS Naturals, Sequences, FiniteSets, ThreadList

CONSTANTS LockThread,
          LockCountMax, \* lock_count is unsigned: LockCountMax + 1 wraps
          NOHOLDER

VARIABLES lock_count, lock_lock, lock_wchan, lock_pc,
          holder        \* the threads between lock_acquire and lock_release

lockVars == <<lock_count, lock_lock, lock_wchan, lock_pc, holder>>

ASSUME LockAssumption ==
  /\ NOHOLDER \notin LockThread
  /\ IsFiniteSet(LockThread)
  /\ LockCountMax \in Nat \ {0}

S == INSTANCE Semaphore WITH Thread <- LockThread, Handler <- {}, InitCount <- 1,
                             CountMax <- LockCountMax, NONE <- NOHOLDER,
                             sem_count <- lock_count, sem_lock <- lock_lock,
                             sem_wchan <- lock_wchan, pc <- lock_pc

LockTypeOK == S!TypeOK /\ holder \in SUBSET LockThread

(* lock_create *)
LockInit == S!Init /\ holder = {}

lock_acquire(t) ==
  \/ t \notin holder /\ S!P_enter(t) /\ UNCHANGED holder
  \/ (S!P_acquire(t) \/ S!P_sleep(t) \/ S!P_reacquire(t)) /\ UNCHANGED holder
  \/ S!P_take(t) /\ holder' = holder \cup {t}

lock_release(t) ==
  \/ t \in holder /\ S!V_enter(t) /\ UNCHANGED holder
  \/ S!V_inc(t) /\ holder' = holder \ {t}
  \/ (S!V_acquire(t) \/ S!V_wake(t)) /\ UNCHANGED holder

LockNext == \E t \in LockThread : lock_acquire(t) \/ lock_release(t)

LockSpec == LockInit /\ [][LockNext]_lockVars

(* A thread that holds the lock gives it back; in lock_acquire and lock_release
   threads run, and get the spinlock if it is free again and again. *)
LockFairness ==
  \A t \in LockThread : /\ WF_lockVars(t \in holder /\ S!V_enter(t) /\ UNCHANGED holder)
                        /\ WF_lockVars(S!P_sleep(t) /\ UNCHANGED holder)
                        /\ WF_lockVars(S!P_take(t) /\ holder' = holder \cup {t})
                        /\ WF_lockVars(S!V_inc(t) /\ holder' = holder \ {t})
                        /\ WF_lockVars(S!V_wake(t) /\ UNCHANGED holder)
                        /\ SF_lockVars((S!P_acquire(t) \/ S!P_reacquire(t) \/ S!V_acquire(t)) /\ UNCHANGED holder)

LockFairSpec == LockSpec /\ LockFairness
-----------------------------------------------------------------------------
(* Mutual exclusion, through lock_count: it is 1 when nobody holds the lock and
   0 when one thread does; lock_count never wraps, so lock_release never panics. *)
MutualExclusion ==
  /\ \A t, u \in holder : t = u
  /\ lock_count = IF holder = {} THEN 1 ELSE 0
  /\ \A t \in LockThread : lock_pc[t] # "panic"

(* Where a thread is says whether it holds the lock. *)
HolderPc ==
  \A t \in LockThread : /\ lock_pc[t] \in {"V_lock", "V_inc"} => t \in holder
                        /\ lock_pc[t] \in {"P_lock", "P_test", "asleep", "woken", "V_wake"} => t \notin holder

(* lock_wchan has the sleeping threads on it, each once. *)
Sleepers == NoDup(lock_wchan) /\ \A t \in Members(lock_wchan) : lock_pc[t] = "asleep"

(* The inductive invariant of the proofs. *)
LockIInv == LockTypeOK /\ MutualExclusion /\ HolderPc /\ Sleepers

(* No deadlock among the users of one lock: while a thread waits for it, some
   thread comes to hold it. *)
SomebodyGets == (\E t \in LockThread : lock_pc[t] \in {"P_lock", "asleep", "woken"}) ~> holder # {}
=============================================================================
