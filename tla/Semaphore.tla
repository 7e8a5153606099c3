------------------------------ MODULE Semaphore ------------------------------
(***************************************************************************)
(* One counting semaphore of kern/thread/synch.c: sem_count protected by   *)
(* the spinlock sem_lock, and the wait channel sem_wchan protected by the  *)
(* same spinlock.  A step is what an actor does between two points where   *)
(* another CPU can get in: taking the spinlock, and each section under it. *)
(* wchan_sleep queues the caller and drops the spinlock in one step, as    *)
(* thread_switch does; the scheduler behind it is the Threads module.      *)
(***************************************************************************)
EXTENDS Naturals, Sequences, FiniteSets, ThreadList

CONSTANTS Thread,     \* threads: call P and V
          Handler,    \* interrupt handlers: call V only (P asserts it)
          InitCount,  \* the initial_count argument of sem_create
          CountMax,   \* largest value of the unsigned sem_count
          NONE        \* nobody holds the spinlock

ASSUME SemaphoreAssumption ==
  /\ Thread \cap Handler = {}
  /\ NONE \notin Thread \cup Handler
  /\ IsFiniteSet(Thread)
  /\ CountMax \in Nat
  /\ InitCount \in 0..CountMax

Actor == Thread \cup Handler

VARIABLES sem_count,  \* sem->sem_count
          sem_lock,   \* holder of sem->sem_lock
          sem_wchan,  \* sem->sem_wchan, head first
          pc          \* where each actor is inside P or V

vars == <<sem_count, sem_lock, sem_wchan, pc>>

Locations == {"out", "P_lock", "P_test", "asleep", "woken",
              "V_lock", "V_inc", "V_wake", "panic"}

Init ==
  /\ sem_count = InitCount
  /\ sem_lock = NONE
  /\ sem_wchan = threadlist_init
  /\ pc = [a \in Actor |-> "out"]

Goto(a, l) == pc' = [pc EXCEPT ![a] = l]

(* spinlock_acquire(&sem->sem_lock) by a, which goes on to l. *)
Acquire(a, l) ==
  /\ sem_lock = NONE
  /\ sem_lock' = a
  /\ Goto(a, l)
  /\ UNCHANGED <<sem_count, sem_wchan>>

(* Thread t calls P; it spins for the spinlock. *)
P_enter(t) == pc[t] = "out" /\ Goto(t, "P_lock") /\ UNCHANGED <<sem_count, sem_lock, sem_wchan>>
P_acquire(t) == pc[t] = "P_lock" /\ Acquire(t, "P_test")

(* The loop test fails: wchan_sleep queues t and releases the spinlock. *)
P_sleep(t) ==
  /\ pc[t] = "P_test"
  /\ sem_count = 0
  /\ sem_wchan' = threadlist_addtail(sem_wchan, t)
  /\ sem_lock' = NONE
  /\ Goto(t, "asleep")
  /\ UNCHANGED sem_count

(* Bug for the checks: "if" for P's "while", a woken thread takes a unit
   without testing for one. *)
BugP_reacquire(t) ==
  /\ pc[t] = "woken"
  /\ sem_lock = NONE
  /\ sem_count' = (sem_count + CountMax) % (CountMax + 1)
  /\ Goto(t, "out")
  /\ UNCHANGED <<sem_lock, sem_wchan>>

(* wchan_sleep returns after a wakeup: the spinlock is taken again and the
   loop test is made again. *)
P_reacquire(t) == pc[t] = "woken" /\ Acquire(t, "P_test")

(* Bug for the checks: the loop test is gone. *)
BugP_take(t) ==
  /\ pc[t] = "P_test"
  /\ sem_count' = sem_count - 1
  /\ sem_lock' = NONE
  /\ Goto(t, "out")
  /\ UNCHANGED sem_wchan

(* The loop test succeeds: take a unit, release the spinlock, return. *)
P_take(t) ==
  /\ pc[t] = "P_test"
  /\ sem_count > 0
  /\ sem_count' = sem_count - 1
  /\ sem_lock' = NONE
  /\ Goto(t, "out")
  /\ UNCHANGED sem_wchan

V_enter(a) == pc[a] = "out" /\ Goto(a, "V_lock") /\ UNCHANGED <<sem_count, sem_lock, sem_wchan>>
V_acquire(a) == pc[a] = "V_lock" /\ Acquire(a, "V_inc")

(* Bug for the checks: wake somebody only when the count was zero. *)
BugV_inc(a) ==
  /\ pc[a] = "V_inc"
  /\ sem_count' = (sem_count + 1) % (CountMax + 1)
  /\ IF sem_count = 0 THEN Goto(a, "V_wake") /\ UNCHANGED sem_lock
     ELSE Goto(a, "out") /\ sem_lock' = NONE
  /\ UNCHANGED sem_wchan

(* sem_count++; the assertion that follows stops the kernel on wraparound. *)
V_inc(a) ==
  /\ pc[a] = "V_inc"
  /\ sem_count' = (sem_count + 1) % (CountMax + 1)
  /\ Goto(a, IF sem_count' > 0 THEN "V_wake" ELSE "panic")
  /\ UNCHANGED <<sem_lock, sem_wchan>>

(* Bugs for the checks: V without the wakeone, and a wakeone that leaves the
   thread on the channel. *)
NoWakeV_wake(a) ==
  pc[a] = "V_wake" /\ sem_lock' = NONE /\ Goto(a, "out") /\ UNCHANGED <<sem_count, sem_wchan>>

PeekV_wake(a) ==
  /\ pc[a] = "V_wake"
  /\ sem_lock' = NONE
  /\ IF threadlist_isempty(sem_wchan)
     THEN Goto(a, "out")
     ELSE pc' = [pc EXCEPT ![a] = "out", ![threadlist_head(sem_wchan)] = "woken"]
  /\ UNCHANGED <<sem_count, sem_wchan>>

(* wchan_wakeone takes the head of the channel, if there is one, and makes it
   runnable; then the spinlock is released. *)
V_wake(a) ==
  /\ pc[a] = "V_wake"
  /\ sem_lock' = NONE
  /\ IF threadlist_isempty(sem_wchan)
     THEN Goto(a, "out") /\ UNCHANGED sem_wchan
     ELSE /\ pc' = [pc EXCEPT ![a] = "out", ![threadlist_head(sem_wchan)] = "woken"]
          /\ sem_wchan' = threadlist_remhead(sem_wchan)
  /\ UNCHANGED sem_count

P(t) == P_enter(t) \/ P_acquire(t) \/ P_sleep(t) \/ P_reacquire(t) \/ P_take(t)
V(a) == V_enter(a) \/ V_acquire(a) \/ V_inc(a) \/ V_wake(a)

Next == (\E t \in Thread : P(t)) \/ (\E a \in Actor : V(a))

Spec == Init /\ [][Next]_vars

(***************************************************************************)
(* Fairness.  A thread that has entered P or V runs again (the scheduler's *)
(* promise, see Threads) and a CPU that spins for a spinlock that is       *)
(* released again and again gets it.  Nobody is obliged to call P or V.    *)
(***************************************************************************)
Fairness ==
  /\ \A t \in Thread : /\ WF_vars(P_sleep(t) \/ P_take(t))
                       /\ SF_vars(P_acquire(t))
                       /\ SF_vars(P_reacquire(t))
  /\ \A a \in Actor : /\ WF_vars(V_inc(a) \/ V_wake(a))
                      /\ SF_vars(V_acquire(a))

FairSpec == Spec /\ Fairness
-----------------------------------------------------------------------------
(* Type invariant: values the variables of struct semaphore can have. *)
TypeOK ==
  /\ sem_count \in 0..CountMax
  /\ sem_lock \in Actor \cup {NONE}
  /\ sem_wchan \in Seq(Thread)
  /\ pc \in [Actor -> Locations]

(* The actors inside the section of P or V that sem_lock protects. *)
Holding == {"P_test", "V_inc", "V_wake", "panic"}

(* The threads that will look at sem_count (again) before they can sleep. *)
Awake == {t \in Thread : pc[t] \in {"woken", "P_test"}}

(* An actor has counted its unit and not yet called wchan_wakeone. *)
WakeDue == \E a \in Actor : pc[a] = "V_wake"

(* No lost wakeup: while threads sleep on the channel, every unit of sem_count
   has a thread awake that is about to test for it, or is one that V is about
   to wake somebody for.  This is what V's count-then-wakeone under sem_lock
   and P's test-then-sleep under the same lock are for. *)
NoLostWakeup ==
  sem_wchan # <<>> =>
    sem_count <= Cardinality(Awake) + (IF WakeDue THEN 1 ELSE 0)

(* The spinlock and the channel agree with where the actors are: at most the
   holder of sem_lock is between acquire and release, and a thread is on the
   channel, once, exactly while it sleeps. *)
QueueInv ==
  /\ \A a \in Actor : pc[a] \in Holding <=> sem_lock = a
  /\ \A t \in Thread : pc[t] = "asleep" <=> t \in Members(sem_wchan)
  /\ NoDup(sem_wchan)
  /\ \A h \in Handler : pc[h] \in {"out", "V_lock", "V_inc", "V_wake", "panic"}

(* Only a wraparound of sem_count stops the kernel in V. *)
PanicInv == (\E a \in Actor : pc[a] = "panic") => sem_count = 0

(* The inductive invariant of the proofs. *)
IInv == TypeOK /\ QueueInv /\ PanicInv /\ NoLostWakeup

(* The semaphore of synch.c implements the abstract one: P's unit is taken by
   P_take, V's is added by V_inc.  When the count wraps, the abstract count is
   CountMax + 1 and the kernel has stopped in V's assertion. *)
AbsCount == IF \E a \in Actor : pc[a] = "panic" THEN CountMax + 1 ELSE sem_count
InP == {t \in Thread : pc[t] \in {"P_lock", "P_test", "asleep", "woken"}}
Abs == INSTANCE AbstractSemaphore WITH count <- AbsCount, inP <- InP
AbsSpec == Abs!ASpec

(* Units and sleepers do not stay together: with a unit to take and a thread
   asleep, the unit is taken or the channel is emptied. *)
WakeupHonoured ==
  (sem_count > 0 /\ sem_wchan # <<>>) ~>
    (sem_count = 0 \/ sem_wchan = <<>> \/ \E a \in Actor : pc[a] = "panic")
=============================================================================
