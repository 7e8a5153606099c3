---------------------------- MODULE SemVfsProofs ----------------------------
(***************************************************************************)
(* Semaphores and the VFS layer, two components whose counts are exact.    *)
(*                                                                         *)
(* The semaphore of kern/thread/synch.c, for every set of threads and      *)
(* handlers, every initial count and every width of the count.             *)
(***************************************************************************)
EXTENDS Semaphore, Vfs, FiniteSetTheorems, ThreadListProofs

(* Awake is a finite set, so its size is a number. *)
LEMMA AwakeFinite ==
  /\ IsFiniteSet(Awake)
  /\ Cardinality(Awake) \in Nat
<1>1. Awake \in SUBSET Thread
  BY Zenon DEF Awake
<1>2. IsFiniteSet(Thread)
  BY Zenon, SemaphoreAssumption
<1> QED
  BY Zenon, <1>1, <1>2, FS_Subset, FS_CardinalityType

(* Initially the semaphore has its initial count, no sleeper and no holder. *)
LEMMA InitIInv == Init => IInv
<1> SUFFICES ASSUME Init PROVE IInv
  BY Zenon
<1> USE SemaphoreAssumption DEF Init
<1>1. TypeOK
  BY Zenon, EmptyList DEF TypeOK, Actor, Locations
<1>2. QueueInv
  BY Zenon, EmptyList DEF QueueInv, Actor, Holding
<1>3. PanicInv
  BY Zenon DEF PanicInv
<1>4. NoLostWakeup
  BY Zenon DEF NoLostWakeup, threadlist_init
<1> QED
  BY Zenon, <1>1, <1>2, <1>3, <1>4 DEF IInv

(* Every step of P and V keeps the variables in their types. *)
LEMMA TypeStep == IInv /\ [Next]_vars => TypeOK'
<1> SUFFICES ASSUME IInv, [Next]_vars PROVE TypeOK'
  BY Zenon
<1> USE SemaphoreAssumption DEF TypeOK, Actor, Locations, Goto
<1>0. TypeOK
  BY Zenon DEF IInv
<1>1. ASSUME NEW t \in Thread, P_enter(t) PROVE TypeOK'
  BY Zenon, <1>0, <1>1 DEF P_enter
<1>2. ASSUME NEW t \in Thread, P_acquire(t) PROVE TypeOK'
  BY Zenon, <1>0, <1>2 DEF P_acquire, Acquire
<1>3. ASSUME NEW t \in Thread, P_sleep(t) PROVE TypeOK'
  BY Zenon, <1>0, <1>3, AddTail DEF P_sleep
<1>4. ASSUME NEW t \in Thread, P_reacquire(t) PROVE TypeOK'
  BY Zenon, <1>0, <1>4 DEF P_reacquire, Acquire
<1>5. ASSUME NEW t \in Thread, P_take(t) PROVE TypeOK'
  BY <1>0, <1>5 DEF P_take
<1>6. ASSUME NEW a \in Actor, V_enter(a) PROVE TypeOK'
  BY Zenon, <1>0, <1>6 DEF V_enter
<1>7. ASSUME NEW a \in Actor, V_acquire(a) PROVE TypeOK'
  BY Zenon, <1>0, <1>7 DEF V_acquire, Acquire
<1>8. ASSUME NEW a \in Actor, V_inc(a) PROVE TypeOK'
  <2>1. sem_count' \in 0..CountMax
    BY <1>0, <1>8 DEF V_inc
  <2> QED
    BY Zenon, <1>0, <1>8, <2>1 DEF V_inc
<1>9. ASSUME NEW a \in Actor, V_wake(a) PROVE TypeOK'
  <2>1. CASE sem_wchan = <<>>
    BY Zenon, <1>0, <1>9, <2>1 DEF V_wake, threadlist_isempty
  <2>2. CASE sem_wchan # <<>>
    <3>1. threadlist_remhead(sem_wchan) \in Seq(Thread)
      BY Zenon, <1>0, <2>2, RemHead
    <3> QED
      BY Zenon, <1>0, <1>9, <2>2, <3>1 DEF V_wake, threadlist_isempty
  <2> QED
    BY Zenon, <2>1, <2>2
<1>10. CASE UNCHANGED vars
  BY Zenon, <1>0, <1>10 DEF vars
<1> QED
  BY Zenon, <1>1, <1>2, <1>3, <1>4, <1>5, <1>6, <1>7, <1>8, <1>9, <1>10 DEF Next, P, V

(* Every step keeps the spinlock and the channel in agreement with the actors. *)
LEMMA QueueStep == IInv /\ [Next]_vars => QueueInv'
<1> SUFFICES ASSUME IInv, [Next]_vars PROVE QueueInv'
  BY Zenon
<1> USE SemaphoreAssumption DEF QueueInv, Actor, Goto, Holding
<1>0. TypeOK /\ QueueInv
  BY Zenon DEF IInv
<1>1. ASSUME NEW t \in Thread, P_enter(t) PROVE QueueInv'
  BY Zenon, <1>0, <1>1 DEF P_enter, TypeOK
<1>2. ASSUME NEW t \in Thread, P_acquire(t) PROVE QueueInv'
  BY Zenon, <1>0, <1>2 DEF P_acquire, Acquire, TypeOK
<1>3. ASSUME NEW t \in Thread, P_sleep(t) PROVE QueueInv'
  <2>1. t \notin Members(sem_wchan)
    BY Zenon, <1>0, <1>3 DEF P_sleep
  <2>2. NoDup(sem_wchan') /\ Members(sem_wchan') = Members(sem_wchan) \cup {t}
    BY Zenon, <1>0, <1>3, <2>1, AddTail DEF P_sleep, TypeOK
  <2> QED
    BY Zenon, <1>0, <1>3, <2>2 DEF P_sleep, TypeOK
<1>4. ASSUME NEW t \in Thread, P_reacquire(t) PROVE QueueInv'
  BY Zenon, <1>0, <1>4 DEF P_reacquire, Acquire, TypeOK
<1>5. ASSUME NEW t \in Thread, P_take(t) PROVE QueueInv'
  BY Zenon, <1>0, <1>5 DEF P_take, TypeOK
<1>6. ASSUME NEW a \in Actor, V_enter(a) PROVE QueueInv'
  BY Zenon, <1>0, <1>6 DEF V_enter, TypeOK
<1>7. ASSUME NEW a \in Actor, V_acquire(a) PROVE QueueInv'
  BY Zenon, <1>0, <1>7 DEF V_acquire, Acquire, TypeOK
<1>8. ASSUME NEW a \in Actor, V_inc(a) PROVE QueueInv'
  BY Zenon, <1>0, <1>8 DEF V_inc, TypeOK
<1>9. ASSUME NEW a \in Actor, V_wake(a) PROVE QueueInv'
  <2>1. CASE sem_wchan = <<>>
    BY Zenon, <1>0, <1>9, <2>1 DEF V_wake, TypeOK, threadlist_isempty
  <2>2. CASE sem_wchan # <<>>
    <3> DEFINE h == threadlist_head(sem_wchan)
    <3>1. /\ h \in Thread /\ h \in Members(sem_wchan)
          /\ Members(sem_wchan) = Members(sem_wchan') \cup {h}
          /\ NoDup(sem_wchan') /\ h \notin Members(sem_wchan')
      BY <1>0, <1>9, <2>2, RemHead DEF V_wake, TypeOK, threadlist_isempty
    <3>2. /\ pc[a] = "V_wake" /\ sem_lock = a /\ sem_lock' = NONE
          /\ pc' = [pc EXCEPT ![a] = "out", ![h] = "woken"]
      BY Zenon, <1>0, <1>9, <2>2 DEF V_wake, TypeOK, threadlist_isempty
    <3> HIDE DEF h
    <3>3. pc[h] = "asleep" /\ h # a
      BY Zenon, <1>0, <3>1, <3>2
    <3> QED
      BY Zenon, <1>0, <3>1, <3>2, <3>3 DEF TypeOK
  <2> QED
    BY Zenon, <2>1, <2>2
<1>10. CASE UNCHANGED vars
  BY Zenon, <1>0, <1>10 DEF vars
<1> QED
  BY Zenon, <1>1, <1>2, <1>3, <1>4, <1>5, <1>6, <1>7, <1>8, <1>9, <1>10 DEF Next, P, V

(* Once V has stopped the kernel nobody gets the spinlock, so the count stays. *)
LEMMA PanicStep == IInv /\ [Next]_vars => PanicInv'
<1> SUFFICES ASSUME IInv, [Next]_vars PROVE PanicInv'
  BY Zenon
<1> USE SemaphoreAssumption DEF PanicInv, Actor, Goto, Holding
<1>0. TypeOK /\ QueueInv /\ PanicInv
  BY Zenon DEF IInv
<1>1. ASSUME NEW t \in Thread, P_enter(t) \/ P_acquire(t) \/ P_reacquire(t) PROVE PanicInv'
  BY Zenon, <1>0, <1>1 DEF P_enter, P_acquire, P_reacquire, Acquire, TypeOK
<1>2. ASSUME NEW t \in Thread, P_sleep(t) \/ P_take(t) PROVE PanicInv'
  BY Zenon, <1>0, <1>2 DEF P_sleep, P_take, TypeOK, QueueInv
<1>3. ASSUME NEW a \in Actor, V_enter(a) \/ V_acquire(a) PROVE PanicInv'
  BY Zenon, <1>0, <1>3 DEF V_enter, V_acquire, Acquire, TypeOK
<1>4. ASSUME NEW a \in Actor, V_inc(a) PROVE PanicInv'
  <2>1. sem_count' \in Nat
    BY <1>0, <1>4 DEF V_inc, TypeOK
  <2>2. \A b \in Actor : b # a => pc[b] # "panic" /\ pc'[b] = pc[b]
    BY Zenon, <1>0, <1>4 DEF V_inc, TypeOK, QueueInv
  <2>3. pc'[a] = "panic" => sem_count' = 0
    BY <1>0, <1>4, <2>1 DEF V_inc, TypeOK
  <2> QED
    BY Zenon, <2>2, <2>3
<1>5. ASSUME NEW a \in Actor, V_wake(a) PROVE PanicInv'
  BY Zenon, <1>0, <1>5 DEF V_wake, TypeOK
<1>6. CASE UNCHANGED vars
  BY Zenon, <1>0, <1>6 DEF vars
<1> QED
  BY Zenon, <1>1, <1>2, <1>3, <1>4, <1>5, <1>6 DEF Next, P, V

(* Every step preserves: a unit that a sleeper could have has a taker awake. *)
LEMMA WakeupStep == IInv /\ [Next]_vars => NoLostWakeup'
<1> SUFFICES ASSUME IInv, [Next]_vars PROVE NoLostWakeup'
  BY Zenon
<1> USE SemaphoreAssumption DEF Actor, Goto, Holding
<1>0. TypeOK /\ QueueInv /\ NoLostWakeup
  BY Zenon DEF IInv
<1>a. IsFiniteSet(Awake) /\ Cardinality(Awake) \in Nat
  BY Zenon, AwakeFinite
<1>b. IsFiniteSet(Awake') /\ Cardinality(Awake') \in Nat
  BY Zenon, SemaphoreAssumption, FS_Subset, FS_CardinalityType DEF Awake
<1>c. sem_count \in Nat
  BY <1>0 DEF TypeOK
<1>1. ASSUME NEW t \in Thread, P_enter(t) \/ P_reacquire(t) PROVE NoLostWakeup'
  <2>1. Awake' = Awake /\ (WakeDue' <=> WakeDue)
    BY Zenon, <1>0, <1>1 DEF P_enter, P_reacquire, Acquire, Awake, WakeDue, TypeOK
  <2> QED
    BY Zenon, <1>0, <1>1, <2>1 DEF NoLostWakeup, P_enter, P_reacquire, Acquire
<1>2. ASSUME NEW t \in Thread, P_acquire(t) PROVE NoLostWakeup'
  <2>1. Awake' = Awake \cup {t} /\ (WakeDue' <=> WakeDue)
    BY Zenon, <1>0, <1>2 DEF P_acquire, Acquire, Awake, WakeDue, TypeOK
  <2>2. Cardinality(Awake') >= Cardinality(Awake)
    BY Zenon, <1>b, <2>1, FS_Subset
  <2> QED
    BY <1>0, <1>2, <1>a, <1>b, <1>c, <2>1, <2>2 DEF NoLostWakeup, P_acquire, Acquire
<1>3. ASSUME NEW t \in Thread, P_sleep(t) PROVE NoLostWakeup'
  BY <1>3, <1>b DEF NoLostWakeup, P_sleep
<1>4. ASSUME NEW t \in Thread, P_take(t) PROVE NoLostWakeup'
  <2>1. Awake' = Awake \ {t} /\ t \in Awake /\ (WakeDue' <=> WakeDue)
    BY Zenon, <1>0, <1>4 DEF P_take, Awake, WakeDue, TypeOK
  <2>2. Cardinality(Awake') = Cardinality(Awake) - 1
    BY Zenon, <1>a, <2>1, FS_RemoveElement
  <2> QED
    BY <1>0, <1>4, <1>a, <1>b, <1>c, <2>1, <2>2 DEF NoLostWakeup, P_take
<1>5. ASSUME NEW a \in Actor, V_enter(a) \/ V_acquire(a) PROVE NoLostWakeup'
  <2>1. Awake' = Awake /\ (WakeDue' <=> WakeDue)
    BY Zenon, <1>0, <1>5 DEF V_enter, V_acquire, Acquire, Awake, WakeDue, TypeOK
  <2> QED
    BY Zenon, <1>0, <1>5, <2>1 DEF NoLostWakeup, V_enter, V_acquire, Acquire
<1>6. ASSUME NEW a \in Actor, V_inc(a) PROVE NoLostWakeup'
  <2>1. Awake' = Awake
    BY Zenon, <1>0, <1>6 DEF V_inc, Awake, TypeOK
  <2>2. ~WakeDue
    BY Zenon, <1>0, <1>6 DEF V_inc, WakeDue, QueueInv
  <2>3. sem_count' \in Nat /\ sem_count' <= sem_count + 1
    BY <1>0, <1>6 DEF V_inc, TypeOK
  <2>4. sem_count' > 0 => WakeDue'
    BY Zenon, <1>0, <1>6 DEF V_inc, WakeDue, TypeOK
  <2>5. sem_wchan' = sem_wchan
    BY Zenon, <1>6 DEF V_inc
  <2> QED
    BY <1>0, <1>a, <1>c, <2>1, <2>2, <2>3, <2>4, <2>5 DEF NoLostWakeup
<1>7. ASSUME NEW a \in Actor, V_wake(a) PROVE NoLostWakeup'
  <2>1. CASE sem_wchan = <<>>
    BY Zenon, <1>7, <2>1 DEF V_wake, NoLostWakeup, threadlist_isempty
  <2>2. CASE sem_wchan # <<>>
    <3> DEFINE h == threadlist_head(sem_wchan)
    <3>1. h \in Thread /\ h \in Members(sem_wchan)
      BY Zenon, <1>0, <2>2, RemHead DEF TypeOK
    <3>2. /\ pc[a] = "V_wake" /\ sem_count' = sem_count
          /\ pc' = [pc EXCEPT ![a] = "out", ![h] = "woken"]
      BY Zenon, <1>0, <1>7, <2>2 DEF V_wake, threadlist_isempty
    <3> HIDE DEF h
    <3>3. pc[h] = "asleep" /\ h # a
      BY Zenon, <1>0, <3>1, <3>2 DEF QueueInv
    <3>4. Awake' = Awake \cup {h} /\ h \notin Awake
      BY Zenon, <1>0, <3>1, <3>2, <3>3 DEF Awake, TypeOK
    <3>5. Cardinality(Awake') = Cardinality(Awake) + 1
      BY Zenon, <1>a, <3>4, FS_AddElement
    <3>6. sem_count <= Cardinality(Awake) + 1
      BY <1>0, <1>a, <1>c, <2>2 DEF NoLostWakeup
    <3> QED
      BY <1>b, <1>c, <3>2, <3>5, <3>6 DEF NoLostWakeup
  <2> QED
    BY Zenon, <2>1, <2>2
<1>8. CASE UNCHANGED vars
  <2>1. Awake' = Awake /\ (WakeDue' <=> WakeDue)
    BY Zenon, <1>8 DEF vars, Awake, WakeDue
  <2> QED
    BY Zenon, <1>0, <1>8, <2>1 DEF vars, NoLostWakeup
<1> QED
  BY Zenon, <1>1, <1>2, <1>3, <1>4, <1>5, <1>6, <1>7, <1>8 DEF Next, P, V

(* The inductive invariant holds in every reachable state. *)
THEOREM Invariance == Spec => []IInv
<1>1. IInv /\ [Next]_vars => IInv'
  BY Zenon, TypeStep, QueueStep, PanicStep, WakeupStep DEF IInv
<1> QED
  BY InitIInv, <1>1, PTL DEF Spec

(* Type correctness of struct semaphore. *)
THEOREM TypeCorrect == Spec => []TypeOK
<1>1. IInv => TypeOK
  BY Zenon DEF IInv
<1> QED
  BY Invariance, <1>1, PTL

(* P and V lose no wakeup, for any number of threads and handlers. *)
THEOREM LosesNoWakeup == Spec => []NoLostWakeup
<1>1. IInv => NoLostWakeup
  BY Zenon DEF IInv
<1> QED
  BY Invariance, <1>1, PTL

(* Every step of P and V is a step of the counting semaphore or a stutter. *)
LEMMA AbsStep == IInv /\ [Next]_vars => [Abs!ANext]_<<AbsCount, InP>>
<1> SUFFICES ASSUME IInv, [Next]_vars PROVE [Abs!ANext]_<<AbsCount, InP>>
  BY Zenon
<1> USE SemaphoreAssumption DEF Actor, Goto, Holding
<1>0. TypeOK /\ QueueInv /\ PanicInv
  BY Zenon DEF IInv
<1> DEFINE Stopped == \E a \in Actor : pc[a] = "panic"
<1>1. ASSUME NEW t \in Thread, P_enter(t) PROVE Abs!ACallP(t)
  <2>1. t \notin InP /\ InP' = InP \cup {t}
    BY Zenon, <1>0, <1>1 DEF P_enter, InP, TypeOK
  <2>2. Stopped' <=> Stopped
    BY Zenon, <1>0, <1>1 DEF P_enter, TypeOK
  <2> QED
    BY Zenon, <1>1, <2>1, <2>2 DEF Abs!ACallP, AbsCount, P_enter
<1>2. ASSUME NEW t \in Thread, P_acquire(t) \/ P_sleep(t) \/ P_reacquire(t)
      PROVE UNCHANGED <<AbsCount, InP>>
  <2>1. InP' = InP
    BY Zenon, <1>0, <1>2 DEF P_acquire, P_sleep, P_reacquire, Acquire, InP, TypeOK
  <2>2. Stopped' <=> Stopped
    BY Zenon, <1>0, <1>2 DEF P_acquire, P_sleep, P_reacquire, Acquire, TypeOK
  <2> QED
    BY Zenon, <1>2, <2>1, <2>2 DEF AbsCount, P_acquire, P_sleep, P_reacquire, Acquire
<1>3. ASSUME NEW t \in Thread, P_take(t) PROVE Abs!ATake(t)
  <2>1. t \in InP /\ InP' = InP \ {t}
    BY Zenon, <1>0, <1>3 DEF P_take, InP, TypeOK
  <2>2. ~Stopped /\ ~Stopped'
    BY Zenon, <1>0, <1>3 DEF P_take, TypeOK, QueueInv
  <2> QED
    BY Zenon, <1>3, <2>1, <2>2 DEF Abs!ATake, AbsCount, P_take
<1>4. ASSUME NEW a \in Actor, V_enter(a) \/ V_acquire(a) PROVE UNCHANGED <<AbsCount, InP>>
  <2>1. InP' = InP
    BY Zenon, <1>0, <1>4 DEF V_enter, V_acquire, Acquire, InP, TypeOK
  <2>2. Stopped' <=> Stopped
    BY Zenon, <1>0, <1>4 DEF V_enter, V_acquire, Acquire, TypeOK
  <2> QED
    BY Zenon, <1>4, <2>1, <2>2 DEF AbsCount, V_enter, V_acquire, Acquire
<1>5. ASSUME NEW a \in Actor, V_inc(a) PROVE Abs!AV
  <2>1. InP' = InP
    BY Zenon, <1>0, <1>5 DEF V_inc, InP, TypeOK
  <2>2. ~Stopped
    BY Zenon, <1>0, <1>5 DEF V_inc, TypeOK, QueueInv
  <2>3. Stopped' <=> sem_count' = 0
    <3>1. sem_count' \in Nat
      BY <1>0, <1>5 DEF V_inc, TypeOK
    <3>2. pc'[a] = "panic" <=> sem_count' = 0
      BY <1>0, <1>5, <3>1 DEF V_inc, TypeOK
    <3>3. \A b \in Actor : b # a => pc'[b] # "panic"
      BY Zenon, <1>0, <1>5, <2>2 DEF V_inc, TypeOK
    <3> QED
      BY Zenon, <3>2, <3>3
  <2>4. IF sem_count = CountMax THEN sem_count' = 0 ELSE sem_count' = sem_count + 1
    BY <1>0, <1>5 DEF V_inc, TypeOK
  <2>5. sem_count \in 0..CountMax
    BY Zenon, <1>0 DEF TypeOK
  <2>6. AbsCount = sem_count
    BY Zenon, <2>2 DEF AbsCount
  <2>7. CASE sem_count = CountMax
    <3>1. AbsCount' = CountMax + 1
      BY Zenon, <2>3, <2>4, <2>7 DEF AbsCount
    <3> QED
      BY Zenon, <2>1, <2>6, <2>7, <3>1 DEF Abs!AV
  <2>8. CASE sem_count # CountMax
    <3>1. sem_count' = sem_count + 1 /\ sem_count' # 0
      BY <2>4, <2>5, <2>8
    <3>2. AbsCount' = sem_count'
      BY Zenon, <2>3, <3>1 DEF AbsCount
    <3> QED
      BY Zenon, <2>1, <2>6, <3>1, <3>2 DEF Abs!AV
  <2> QED
    BY Zenon, <2>7, <2>8
<1>6. ASSUME NEW a \in Actor, V_wake(a) PROVE UNCHANGED <<AbsCount, InP>>
  <2>1. CASE sem_wchan = <<>>
    <3>1. InP' = InP /\ (Stopped' <=> Stopped)
      BY Zenon, <1>0, <1>6, <2>1 DEF V_wake, InP, TypeOK, threadlist_isempty
    <3> QED
      BY Zenon, <1>6, <3>1 DEF V_wake, AbsCount
  <2>2. CASE sem_wchan # <<>>
    <3> DEFINE h == threadlist_head(sem_wchan)
    <3>1. h \in Thread /\ h \in Members(sem_wchan)
      BY Zenon, <1>0, <2>2, RemHead DEF TypeOK
    <3>2. /\ pc[a] = "V_wake" /\ sem_count' = sem_count
          /\ pc' = [pc EXCEPT ![a] = "out", ![h] = "woken"]
      BY Zenon, <1>6, <2>2 DEF V_wake, threadlist_isempty
    <3> HIDE DEF h
    <3>3. pc[h] = "asleep" /\ h # a
      BY Zenon, <1>0, <3>1, <3>2 DEF QueueInv
    <3>4. InP' = InP /\ (Stopped' <=> Stopped)
      BY Zenon, <1>0, <3>1, <3>2, <3>3 DEF InP, TypeOK
    <3> QED
      BY Zenon, <3>2, <3>4 DEF AbsCount
  <2> QED
    BY Zenon, <2>1, <2>2
<1>7. CASE UNCHANGED vars
  BY Zenon, <1>7 DEF vars, AbsCount, InP
<1> QED
  BY Zenon, <1>1, <1>2, <1>3, <1>4, <1>5, <1>6, <1>7 DEF Next, P, V, Abs!ANext

(* The semaphore of synch.c implements the abstract counting semaphore: up to
   the wraparound that stops the kernel, P takes one unit and V adds one, each
   at one instant. *)
THEOREM Refinement == Spec => AbsSpec
<1>1. Init => Abs!AInit
  BY Zenon, SemaphoreAssumption DEF Init, Abs!AInit, AbsCount, InP, Actor
<1>2. IInv /\ [Next]_vars => [Abs!ANext]_(Abs!avars)
  BY Zenon, AbsStep DEF Abs!avars
<1> QED
  BY <1>1, <1>2, Invariance, PTL DEF Spec, AbsSpec, Abs!ASpec

(* The threads on the semaphore's wait channel are, each once, the ones asleep
   in P, for any number of threads and handlers. *)
THEOREM ChannelExact == Spec => []QueueInv
<1>1. IInv => QueueInv
  BY Zenon DEF IInv
<1> QED
  BY Invariance, <1>1, PTL

-----------------------------------------------------------------------------
(***************************************************************************)
(* The reference counts of the VFS layer are exact and shutdown leaves no  *)
(* volume mounted without a reason, for any devices, volumes, programs and *)
(* paths.                                                                  *)
(***************************************************************************)
Known(name)   == \E i \in 1 .. Len(knowndevs) : knowndevs[i].name = name
Mounted(name) == \E i \in 1 .. Len(knowndevs) : knowndevs[i].name = name /\ knowndevs[i].fs

(* The entries of knowndevs, no two with one name. *)
DevsOK ==
  /\ knowndevs \in Seq([name : DevNames, raw : STRING, fs : BOOLEAN, vol : Volnames \cup {NoName}])
  /\ \A i, j \in 1 .. Len(knowndevs) : knowndevs[i].name = knowndevs[j].name => i = j

(* Directories that a current directory or bootfs_vnode may be. *)
Start(v) == v \in Vnodes /\ IsDir(v) /\ Mounted(v[1])

(* The counts of the vnode state s are those that n gives, and one more for a
   vnode whose VOP_RECLAIM failed. *)
VnState == [rc : [Vnodes -> Nat], lost : SUBSET Vnodes, bad : BOOLEAN]
Counted(s, n) ==
  /\ s \in VnState /\ ~s.bad /\ n \in [Vnodes -> Nat]
  /\ \A v \in Vnodes : s.rc[v] = n[v] + (IF v \in s.lost THEN 1 ELSE 0)
  /\ \A v \in s.lost : Known(v[1])

(* The holders of each vnode, for the current directories c and the boot file
   system b. *)
Is(v, w) == IF v = w THEN 1 ELSE 0
Count(c, b) == [v \in Vnodes |-> Permanent(v) + Cardinality({p \in Processes : c[p] = v}) + Is(v, b)]
HeldBy == Count(p_cwd, bootfs_vnode)

Plus(n, w)  == [v \in Vnodes |-> n[v] + Is(v, w)]
Minus(n, w) == [v \in Vnodes |-> n[v] - Is(v, w)]

(* A device that shutdown has passed, with the reason why it is still mounted. *)
Reason(i) ==
  knowndevs[i].raw # NoName /\ knowndevs[i].fs =>
      \/ knowndevs[i].name \in gaveup
      \/ \E p \in Processes \ {shutter} : p_cwd[p][1] = knowndevs[i].name
      \/ \E v \in vn.lost : v[1] = knowndevs[i].name

DownInv ==
  /\ vfsphase \in {"run", "clearcurdir", "unmountall", "off"}
  /\ vfsphase # "run" => bootfs_vnode = NoVnode
  /\ vfsphase \in {"unmountall", "off"} => p_cwd[shutter] = NoVnode
  /\ shutter \in Processes /\ unmounting \in Nat \ {0}
  /\ vfsphase \in {"run", "clearcurdir"} => unmounting = 1
  /\ \A i \in 1 .. Len(knowndevs) : i < unmounting => Reason(i)
  /\ vfsphase = "off" => unmounting > Len(knowndevs)

(* The inductive invariant. *)
VfsInv ==
  /\ attached \in Nat /\ DevsOK
  /\ p_cwd \in [Processes -> Vnodes \cup {NoVnode}]
  /\ \A p \in Processes : p_cwd[p] = NoVnode \/ Start(p_cwd[p])
  /\ bootfs_vnode = NoVnode \/ Start(bootfs_vnode)
  /\ started \subseteq Programs /\ \A p \in Programs \ started : p_cwd[p] = NoVnode
  /\ Counted(vn, HeldBy)
  /\ DownInv
-----------------------------------------------------------------------------
(* The vnode operations and the counts. *)
LEMMA Vnodes2 == NoVnode \notin Vnodes /\ \A v \in Vnodes : v[1] \in DevNames /\ v[1] # NoName
<1>1. ASSUME NEW v \in Vnodes PROVE v \in DevNames \X {"device", "root", "dir", "file"}
  BY Zenon DEF Vnodes
<1>2. \A d \in DevNames : d # NoName
  <2> SUFFICES ASSUME NEW i \in 1 .. Len(Attach) PROVE Attach[i].name # NoName
    BY Zenon DEF DevNames
  <2> DEFINE S == STRING \ {NoName}
             T == [name : S, raw : STRING, fs : BOOLEAN]
  <2>1. Attach \in Seq(T)
    BY Zenon, VfsAssumption
  <2> HIDE DEF T
  <2>2. Attach[i] \in T
    BY <2>1
  <2>3. Attach[i].name \in S
    BY Zenon, <2>2 DEF T
  <2> QED
    BY Zenon, <2>3
<1>3. NoVnode \notin Vnodes
  BY Zenon, <1>1 DEF NoVnode
<1> QED
  BY Zenon, <1>1, <1>2, <1>3

LEMMA PlusMinus ==
  ASSUME NEW n \in [Vnodes -> Nat], NEW w
  PROVE  /\ Plus(n, w) \in [Vnodes -> Nat]
         /\ \A v \in Vnodes : Plus(n, w)[v] = n[v] + Is(v, w)
         /\ Plus(n, NoVnode) = n
         /\ (w \in Vnodes => n[w] >= 1) => Minus(n, w) \in [Vnodes -> Nat]
         /\ \A v \in Vnodes : Minus(n, w)[v] = n[v] - Is(v, w)
<1>1. Plus(n, w) \in [Vnodes -> Nat] /\ \A v \in Vnodes : Plus(n, w)[v] = n[v] + Is(v, w)
  BY DEF Plus, Is
<1>2. Plus(n, NoVnode) = n
  BY Vnodes2 DEF Plus, Is
<1>3. /\ (w \in Vnodes => n[w] >= 1) => Minus(n, w) \in [Vnodes -> Nat]
      /\ \A v \in Vnodes : Minus(n, w)[v] = n[v] - Is(v, w)
  BY DEF Minus, Is
<1> QED
  BY Zenon, <1>1, <1>2, <1>3

LEMMA Incref ==
  ASSUME NEW s, NEW n, Counted(s, n), NEW v \in Vnodes
  PROVE  Counted(vnode_incref(s, v), Plus(n, v)) /\ vnode_incref(s, v).lost = s.lost
<1> DEFINE q == vnode_incref(s, v)
<1>1. s \in VnState /\ n \in [Vnodes -> Nat]
  BY Zenon DEF Counted
<1>2. q \in VnState /\ q.lost = s.lost /\ q.bad = s.bad /\ \A u \in Vnodes : q.rc[u] = s.rc[u] + Is(u, v)
  BY <1>1 DEF vnode_incref, VnState, Is
<1>3. Plus(n, v) \in [Vnodes -> Nat] /\ \A u \in Vnodes : Plus(n, v)[u] = n[u] + Is(u, v)
  BY Zenon, <1>1, PlusMinus
<1> HIDE DEF q
<1>4. ASSUME NEW u \in Vnodes PROVE q.rc[u] = Plus(n, v)[u] + (IF u \in q.lost THEN 1 ELSE 0)
  BY <1>1, <1>2, <1>3 DEF Counted, Is
<1> QED
  BY Zenon, <1>1, <1>2, <1>3, <1>4 DEF Counted, q

(* A reference that is counted can be let go: the assertions of vnode_decref hold,
   and VOP_RECLAIM keeps the counts when it fails too. *)
LEMMA Decref ==
  ASSUME NEW s, NEW n, Counted(s, n), NEW v \in Vnodes, n[v] >= 1, v[2] = "device" => n[v] >= 2,
         Known(v[1]), NEW f
  PROVE  Counted(vnode_decref(s, v, f), Minus(n, v)) /\ s.lost \subseteq vnode_decref(s, v, f).lost
<1> DEFINE q == vnode_decref(s, v, f)
<1>1. /\ s \in VnState /\ ~s.bad /\ n \in [Vnodes -> Nat] /\ s.rc[v] \in Nat /\ n[v] \in Nat
      /\ \A u \in Vnodes : s.rc[u] = n[u] + (IF u \in s.lost THEN 1 ELSE 0)
      /\ \A u \in s.lost : Known(u[1])
  BY Zenon DEF Counted, VnState
<1>2. Minus(n, v) \in [Vnodes -> Nat] /\ \A u \in Vnodes : Minus(n, v)[u] = n[u] - Is(u, v)
  BY Zenon, <1>1, PlusMinus
<1>3. CASE s.rc[v] > 1
  <2>1. q = [s EXCEPT !.rc[v] = @ - 1]
    BY <1>3 DEF vnode_decref
  <2>2. /\ q \in VnState /\ q.lost = s.lost /\ q.bad = s.bad
        /\ \A u \in Vnodes : q.rc[u] = s.rc[u] - Is(u, v)
    BY <1>1, <1>3, <2>1 DEF VnState, Is
  <2> HIDE DEF q
  <2>3. ASSUME NEW u \in Vnodes PROVE q.rc[u] = Minus(n, v)[u] + (IF u \in q.lost THEN 1 ELSE 0)
    BY <1>1, <1>2, <2>2 DEF Is
  <2> QED
    BY Zenon, <1>1, <1>2, <2>2, <2>3 DEF Counted, q
<1>4. CASE ~(s.rc[v] > 1)
  <2>1. s.rc[v] = 1 /\ n[v] = 1 /\ v \notin s.lost /\ v[2] # "device"
    BY <1>1, <1>4
  <2>2. CASE f # "reclaim"
    <3>1. q = [s EXCEPT !.rc[v] = 0]
      BY <2>1, <2>2 DEF vnode_decref
    <3>2. /\ q \in VnState /\ q.lost = s.lost /\ q.bad = s.bad
          /\ \A u \in Vnodes : q.rc[u] = s.rc[u] - Is(u, v)
      BY <1>1, <2>1, <3>1 DEF VnState, Is
    <3> HIDE DEF q
    <3>3. ASSUME NEW u \in Vnodes PROVE q.rc[u] = Minus(n, v)[u] + (IF u \in q.lost THEN 1 ELSE 0)
      BY <1>1, <1>2, <3>2 DEF Is
    <3> QED
      BY Zenon, <1>1, <1>2, <3>2, <3>3 DEF Counted, q
  <2>3. CASE f = "reclaim"
    <3>1. q = [s EXCEPT !.lost = @ \cup {v}]
      BY <2>1, <2>3 DEF vnode_decref
    <3>2. q \in VnState /\ q.lost = s.lost \cup {v} /\ q.bad = s.bad /\ q.rc = s.rc
      BY Zenon, <1>1, <3>1 DEF VnState
    <3> HIDE DEF q
    <3>3. ASSUME NEW u \in Vnodes PROVE q.rc[u] = Minus(n, v)[u] + (IF u \in q.lost THEN 1 ELSE 0)
      BY <1>1, <1>2, <2>1, <3>2 DEF Is
    <3> QED
      BY Zenon, <1>1, <1>2, <3>2, <3>3 DEF Counted, q
  <2> QED
    BY Zenon, <2>2, <2>3
<1> QED
  BY Zenon, <1>3, <1>4
-----------------------------------------------------------------------------
(* The holders, as the current directories and the boot file system change. *)
LEMMA Cwds ==
  ASSUME NEW c, NEW v
  PROVE  /\ IsFiniteSet({p \in Processes : c[p] = v})
         /\ Cardinality({p \in Processes : c[p] = v}) \in Nat
<1>1. IsFiniteSet(Processes)
  BY Zenon, VfsAssumption, FS_AddElement DEF Processes
<1> QED
  BY Zenon, <1>1, FS_Subset, FS_CardinalityType

LEMMA CountType ==
  ASSUME NEW c, NEW b
  PROVE  /\ Count(c, b) \in [Vnodes -> Nat]
         /\ \A v \in Vnodes : Count(c, b)[v] >= Permanent(v)
         /\ b \in Vnodes => Count(c, b)[b] >= Permanent(b) + 1
<1>1. \A v : Is(v, b) \in Nat /\ Permanent(v) \in Nat /\ Cardinality({p \in Processes : c[p] = v}) \in Nat
  BY Zenon, Cwds DEF Is, Permanent
<1> QED
  BY <1>1 DEF Count, Is

LEMMA CwdHeld ==
  ASSUME NEW c \in [Processes -> Vnodes \cup {NoVnode}], NEW b, NEW q \in Processes, c[q] \in Vnodes
  PROVE  Count(c, b)[c[q]] >= Permanent(c[q]) + 1
<1> DEFINE Who == {p \in Processes : c[p] = c[q]}
<1>1. IsFiniteSet(Who) /\ Cardinality(Who) \in Nat /\ Who # {}
  BY Zenon, Cwds
<1>2. Cardinality(Who) >= 1
  BY <1>1, FS_EmptySet
<1>3. Count(c, b)[c[q]] = Permanent(c[q]) + Cardinality(Who) + Is(c[q], b)
  BY Zenon DEF Count
<1>4. Permanent(c[q]) \in Nat /\ Is(c[q], b) \in Nat
  BY Zenon DEF Permanent, Is
<1> HIDE DEF Who
<1> QED
  BY <1>1, <1>2, <1>3, <1>4

LEMMA CountBoot ==
  ASSUME NEW c, NEW b, NEW a
  PROVE  \A v \in Vnodes : Count(c, a)[v] = Count(c, b)[v] + Is(v, a) - Is(v, b)
<1>1. \A v : Permanent(v) \in Nat /\ Cardinality({p \in Processes : c[p] = v}) \in Nat
  BY Zenon, Cwds DEF Permanent
<1> QED
  BY <1>1 DEF Count, Is

Moves(c, d, q, w) ==
  /\ c \in [Processes -> Vnodes \cup {NoVnode}] /\ q \in Processes /\ w \in Vnodes \cup {NoVnode}
  /\ d = [c EXCEPT ![q] = w]

LEMMA CountCwd ==
  ASSUME NEW c, NEW d, NEW q, NEW w, NEW b, Moves(c, d, q, w)
  PROVE  \A v \in Vnodes : Count(d, b)[v] = Count(c, b)[v] + Is(v, w) - Is(v, c[q])
<1> USE DEF Moves
<1> DEFINE Who(v) == {p \in Processes : c[p] = v}
           Q(v) == {p \in Processes : d[p] = v}
<1>1. ASSUME NEW v PROVE Cardinality(Q(v)) = Cardinality(Who(v)) + Is(v, w) - Is(v, c[q])
  <2>1. IsFiniteSet(Who(v)) /\ Cardinality(Who(v)) \in Nat
    BY Zenon, Cwds
  <2>2. CASE w = v
    <3>1. Q(v) = Who(v) \cup {q}
      BY Zenon, <2>2
    <3>2. q \in Who(v) <=> c[q] = v
      BY Zenon
    <3>3. Cardinality(Who(v) \cup {q}) = IF q \in Who(v) THEN Cardinality(Who(v)) ELSE Cardinality(Who(v)) + 1
      BY Zenon, <2>1, FS_AddElement
    <3> HIDE DEF Who, Q
    <3> QED
      BY <2>1, <2>2, <3>1, <3>2, <3>3 DEF Is
  <2>3. CASE w # v
    <3>1. Q(v) = Who(v) \ {q}
      BY Zenon, <2>3
    <3>2. q \in Who(v) <=> c[q] = v
      BY Zenon
    <3>3. Cardinality(Who(v) \ {q}) = IF q \in Who(v) THEN Cardinality(Who(v)) - 1 ELSE Cardinality(Who(v))
      BY Zenon, <2>1, FS_RemoveElement
    <3> HIDE DEF Who, Q
    <3> QED
      BY <2>1, <2>3, <3>1, <3>2, <3>3 DEF Is
  <2> QED
    BY Zenon, <2>2, <2>3
<1>2. \A v : Permanent(v) \in Nat /\ Cardinality(Who(v)) \in Nat /\ Is(v, b) \in Nat
  BY Zenon, Cwds DEF Permanent, Is
<1>3. Count(d, b) = [v \in Vnodes |-> Permanent(v) + Cardinality(Q(v)) + Is(v, b)]
  BY Zenon DEF Count
<1>4. Count(c, b) = [v \in Vnodes |-> Permanent(v) + Cardinality(Who(v)) + Is(v, b)]
  BY Zenon DEF Count
<1> HIDE DEF Who, Q
<1>6. ASSUME NEW v \in Vnodes PROVE Count(d, b)[v] = Count(c, b)[v] + Is(v, w) - Is(v, c[q])
  <2>1. Is(v, w) \in Nat /\ Is(v, c[q]) \in Nat
    BY Zenon DEF Is
  <2> QED
    BY <1>1, <1>2, <1>3, <1>4, <2>1
<1> QED
  BY Zenon, <1>6
-----------------------------------------------------------------------------
(* A set of numbers has a least one. *)
LEMMA SmallestOf ==
    ASSUME NEW H \in SUBSET Nat, H # {}
    PROVE  \E i \in H : \A j \in H : i <= j
<1> DEFINE R == OpToRel(<, Nat)
<1>1. IsWellFoundedOn(R, Nat)
  BY Zenon, NatLessThanWellFounded
<1>2. R = {ss \in Nat \X Nat : ss[1] < ss[2]}
  BY Zenon DEF OpToRel
<1> HIDE DEF R
<1>3. PICK i \in H : \A j \in H : ~(<<j, i>> \in R)
  BY Zenon, <1>1, WFMin
<1>4. ASSUME NEW j \in H PROVE i <= j
  <2>1. i \in Nat /\ j \in Nat
    BY Zenon
  <2>2. <<j, i>> \in Nat \X Nat /\ <<j, i>>[1] = j /\ <<j, i>>[2] = i
    BY Zenon, <2>1
  <2>3. ~(j < i)
    BY Zenon, <1>2, <1>3, <2>2
  <2> QED
    BY <2>1, <2>3
<1> QED
  BY Zenon, <1>4

(* A result of a lookup: the vnode has one more reference, it belongs to a known
   device, and a directory to a mounted one. *)
Got(r) ==
  \/ r.v = NoVnode /\ Counted(r.s, HeldBy)
  \/ /\ r.v \in Vnodes /\ Known(r.v[1]) /\ (IsDir(r.v) => Mounted(r.v[1]))
     /\ r.v[2] = "device" => HeldBy[r.v] >= 1
     /\ Counted(r.s, Plus(HeldBy, r.v))

LEMMA GotNone ==
  ASSUME NEW s, Counted(s, HeldBy) PROVE Got(Error(s))
BY Zenon DEF Got, Error, Result

LEMMA GotOne ==
  ASSUME NEW s, Counted(s, HeldBy), NEW v \in Vnodes, Known(v[1]), IsDir(v) => Mounted(v[1]),
         v[2] = "device" => HeldBy[v] >= 1
  PROVE  Got(Taken(s, v)) /\ Taken(s, v).v = v
<1>1. Counted(vnode_incref(s, v), Plus(HeldBy, v))
  BY Zenon, Incref
<1>2. Taken(s, v).s = vnode_incref(s, v) /\ Taken(s, v).v = v
  BY Zenon DEF Taken, Result
<1> QED
  BY Zenon, <1>1, <1>2 DEF Got

LEMMA StartKnown ==
  ASSUME NEW v, Start(v) PROVE v \in Vnodes /\ Known(v[1]) /\ Mounted(v[1]) /\ IsDir(v) /\ v[2] # "device"
BY Zenon DEF Start, Known, Mounted, IsDir

LEMMA DevOf ==
  ASSUME DevsOK, NEW i \in 1 .. Len(knowndevs)
  PROVE  /\ knowndevs[i].name \in DevNames /\ knowndevs[i].raw \in STRING /\ knowndevs[i].fs \in BOOLEAN
         /\ \A x \in {"device", "root", "dir", "file"} : <<knowndevs[i].name, x>> \in Vnodes
         /\ Known(knowndevs[i].name) /\ (knowndevs[i].fs => Mounted(knowndevs[i].name))
         /\ Permanent(<<knowndevs[i].name, "device">>) = 1
         /\ knowndevs[i].raw # NoName => \A x \in {"root", "dir", "file"} : Permanent(<<knowndevs[i].name, x>>) = 0
<1> DEFINE T == [name : DevNames, raw : STRING, fs : BOOLEAN, vol : Volnames \cup {NoName}]
<1>1. knowndevs[i] \in T
  <2>1. knowndevs \in Seq(T)
    BY Zenon DEF DevsOK
  <2> HIDE DEF T
  <2> QED
    BY <2>1
<1>2. knowndevs[i].name \in DevNames /\ knowndevs[i].raw \in STRING /\ knowndevs[i].fs \in BOOLEAN
  BY Zenon, <1>1
<1>3. \A x \in {"device", "root", "dir", "file"} : <<knowndevs[i].name, x>> \in Vnodes
  BY Zenon, <1>2 DEF Vnodes
<1>4. Known(knowndevs[i].name) /\ (knowndevs[i].fs => Mounted(knowndevs[i].name))
  BY Zenon DEF Known, Mounted
<1>5. Permanent(<<knowndevs[i].name, "device">>) = 1
  BY Zenon DEF Permanent
<1>6. ASSUME knowndevs[i].raw # NoName, NEW x \in {"root", "dir", "file"}
      PROVE  Permanent(<<knowndevs[i].name, x>>) = 0
  <2>1. \A j \in 1 .. Len(knowndevs) : knowndevs[j].name = knowndevs[i].name => knowndevs[j].raw # NoName
    BY Zenon, <1>6 DEF DevsOK
  <2> QED
    BY Zenon, <1>6, <2>1 DEF Permanent
<1> QED
  BY Zenon, <1>2, <1>3, <1>4, <1>5, <1>6

LEMMA GetrootGot ==
  ASSUME DevsOK, NEW s, Counted(s, HeldBy), NEW name, NEW f
  PROVE  Got(vfs_getroot(s, name, f))
<1> DEFINE i == CHOOSE i \in Fits(name) : \A j \in Fits(name) : i <= j
           kd == knowndevs[i]
<1>1. CASE Fits(name) = {}
  BY Zenon, <1>1, GotNone DEF vfs_getroot
<1>2. CASE Fits(name) # {}
  <2>1. i \in 1 .. Len(knowndevs)
    <3>1. Fits(name) \subseteq 1 .. Len(knowndevs) /\ Len(knowndevs) \in Nat
      BY DEF Fits, DevsOK
    <3>2. \E m \in Fits(name) : \A j \in Fits(name) : m <= j
      <4>1. Fits(name) \in SUBSET Nat
        BY <3>1
      <4> QED
        BY Zenon, <1>2, <4>1, SmallestOf
    <3> QED
      BY Zenon, <3>1, <3>2
  <2> HIDE DEF i
  <2>2. /\ kd.fs \in BOOLEAN /\ <<kd.name, "root">> \in Vnodes /\ <<kd.name, "device">> \in Vnodes
        /\ Known(kd.name) /\ (kd.fs => Mounted(kd.name)) /\ Permanent(<<kd.name, "device">>) = 1
    BY Zenon, <2>1, DevOf
  <2>3. HeldBy[<<kd.name, "device">>] >= 1
    BY Zenon, <2>2, CountType DEF HeldBy
  <2>4. Got(Taken(s, <<kd.name, "device">>)) /\ Got(Error(s))
    BY Zenon, <2>2, <2>3, GotOne, GotNone DEF IsDir
  <2>5. kd.fs => Got(FSOP_GETROOT(s, kd.name, f))
    <3>1. kd.fs => Got(Taken(s, <<kd.name, "root">>))
      BY Zenon, <2>2, GotOne DEF IsDir
    <3> QED
      BY Zenon, <2>4, <3>1 DEF FSOP_GETROOT
  <2>6. \/ kd.fs /\ vfs_getroot(s, name, f) = FSOP_GETROOT(s, kd.name, f)
        \/ vfs_getroot(s, name, f) = Error(s)
        \/ vfs_getroot(s, name, f) = Taken(s, <<kd.name, "device">>)
    BY Zenon, <1>2 DEF vfs_getroot, i
  <2> QED
    BY Zenon, <2>4, <2>5, <2>6
<1> QED
  BY Zenon, <1>1, <1>2

(* The reference to where a lookup started is let go, whatever it found. *)
LEMMA LetGo ==
  ASSUME NEW n \in [Vnodes -> Nat], NEW a \in Vnodes, Known(a[1]), a[2] = "device" => n[a] >= 1,
         NEW b, NEW s, Counted(s, Plus(Plus(n, a), b)), NEW f
  PROVE  Counted(vnode_decref(s, a, f), Plus(n, b))
<1> DEFINE m == Plus(Plus(n, a), b)
<1>1. /\ m \in [Vnodes -> Nat] /\ \A v \in Vnodes : m[v] = n[v] + Is(v, a) + Is(v, b)
  <2>1. Plus(n, a) \in [Vnodes -> Nat] /\ \A v \in Vnodes : Plus(n, a)[v] = n[v] + Is(v, a)
    BY Zenon, PlusMinus
  <2>2. m \in [Vnodes -> Nat] /\ \A v \in Vnodes : m[v] = Plus(n, a)[v] + Is(v, b)
    BY Zenon, <2>1, PlusMinus
  <2> QED
    BY Zenon, <2>1, <2>2
<1>2. \A v \in Vnodes : Is(v, a) \in Nat /\ Is(v, b) \in Nat
  BY Zenon DEF Is
<1>3. m[a] >= n[a] + 1
  BY <1>1, <1>2 DEF Is
<1> HIDE DEF m
<1>4. m[a] >= 1 /\ (a[2] = "device" => m[a] >= 2)
  BY <1>3, <1>1
<1>5. Counted(vnode_decref(s, a, f), Minus(m, a))
  BY Zenon, <1>4, Decref DEF m
<1>6. Minus(m, a) = Plus(n, b)
  BY <1>1, <1>2 DEF Minus, Plus
<1> QED
  BY Zenon, <1>5, <1>6

LEMMA GetdeviceGot ==
  ASSUME VfsInv, NEW s, Counted(s, HeldBy), NEW path, NEW f,
         path.kind \in {"device", "slash", "colon", "relative"}
  PROVE  Got(getdevice(s, path, f))
<1> DEFINE here == vfs_getcurdir(s)
           w == p_cwd["kproc"]
           root == FSOP_GETROOT(here.s, here.v[1], f)
<1>1. DevsOK /\ (w = NoVnode \/ Start(w)) /\ (bootfs_vnode = NoVnode \/ Start(bootfs_vnode))
  BY Zenon DEF VfsInv, Processes
<1>2. Got(Error(s))
  BY Zenon, GotNone
<1>3. ASSUME NEW v, Start(v) PROVE Got(Taken(s, v)) /\ Taken(s, v).v = v
  BY Zenon, <1>3, StartKnown, GotOne
<1>4. Got(here) /\ here.v = w
  BY Zenon, <1>1, <1>2, <1>3 DEF vfs_getcurdir, Error, Result
<1>5. CASE path.kind = "device"
  BY Zenon, <1>1, <1>5, GetrootGot DEF getdevice
<1>6. CASE path.kind = "slash"
  BY Zenon, <1>1, <1>2, <1>3, <1>6 DEF getdevice
<1>7. CASE path.kind = "relative" \/ (path.kind = "colon" /\ here.v = NoVnode)
  BY Zenon, <1>4, <1>7 DEF getdevice
<1>8. CASE path.kind = "colon" /\ here.v # NoVnode
  <2> DEFINE g == [root.s EXCEPT !.bad = @ \/ here.v[2] = "device"]
  <2>1. getdevice(s, path, f) = Result(vnode_decref(g, here.v, f), root.v)
    BY Zenon, <1>8 DEF getdevice
  <2>2. Start(w) /\ w \in Vnodes /\ Known(w[1]) /\ Mounted(w[1]) /\ w[2] # "device"
    BY Zenon, <1>1, <1>4, <1>8, StartKnown
  <2>3. HeldBy \in [Vnodes -> Nat]
    BY Zenon, CountType DEF HeldBy
  <2>4. Counted(here.s, Plus(HeldBy, w))
    BY Zenon, <1>4, <1>8 DEF Got
  <2>5. <<w[1], "root">> \in Vnodes
    BY Zenon, <2>2 DEF Vnodes
  <2> HIDE DEF here, w
  <2>6. /\ Counted(root.s, Plus(Plus(HeldBy, w), root.v))
        /\ root.v = NoVnode \/ root.v = <<w[1], "root">>
    <3>1. CASE f # "lookup"
      <4>1. root.s = vnode_incref(here.s, <<w[1], "root">>) /\ root.v = <<w[1], "root">>
        BY Zenon, <1>4, <3>1 DEF FSOP_GETROOT, Taken, Result
      <4> QED
        BY Zenon, <2>4, <2>5, <4>1, Incref
    <3>2. CASE f = "lookup"
      <4>1. root.s = here.s /\ root.v = NoVnode
        BY Zenon, <3>2 DEF FSOP_GETROOT, Error, Result
      <4>2. Plus(Plus(HeldBy, w), NoVnode) = Plus(HeldBy, w)
        BY Zenon, <2>3, PlusMinus
      <4> QED
        BY Zenon, <2>4, <4>1, <4>2
    <3> QED
      BY Zenon, <3>1, <3>2
  <2>7. g = root.s
    BY Zenon, <1>4, <2>2, <2>6 DEF Counted, VnState
  <2> HIDE DEF root, g
  <2>8. Counted(vnode_decref(g, w, f), Plus(HeldBy, root.v))
    BY Zenon, <2>2, <2>3, <2>6, <2>7, LetGo
  <2>9. Plus(HeldBy, NoVnode) = HeldBy
    BY Zenon, <2>3, PlusMinus
  <2> QED
    BY <1>4, <2>1, <2>2, <2>5, <2>6, <2>8, <2>9, Vnodes2 DEF Got, Result
<1> QED
  BY Zenon, <1>5, <1>6, <1>7, <1>8

LEMMA LookupGot ==
  ASSUME VfsInv, NEW path, path.kind \in {"device", "slash", "colon", "relative"},
         NEW to \in {"dir", "file"}, NEW f
  PROVE  Got(vfs_lookup(vn, path, to, f))
<1> DEFINE start == getdevice(vn, path, f)
           found == IF IsDir(start.v) /\ f # "lookup"
                    THEN Taken(start.s, <<start.v[1], to>>) ELSE Error(start.s)
<1>1. Got(start)
  BY GetdeviceGot DEF VfsInv
<1> HIDE DEF start
<1>2. CASE start.v = NoVnode \/ ~path.sub
  BY Zenon, <1>1, <1>2 DEF vfs_lookup, start
<1>3. CASE start.v # NoVnode /\ path.sub
  <2>1. vfs_lookup(vn, path, to, f) = Result(vnode_decref(found.s, start.v, f), found.v)
    BY Zenon, <1>3 DEF vfs_lookup, start
  <2>2. /\ start.v \in Vnodes /\ Known(start.v[1]) /\ (IsDir(start.v) => Mounted(start.v[1]))
        /\ start.v[2] = "device" => HeldBy[start.v] >= 1
        /\ Counted(start.s, Plus(HeldBy, start.v))
    BY Zenon, <1>1, <1>3 DEF Got
  <2>3. HeldBy \in [Vnodes -> Nat]
    BY Zenon, CountType DEF HeldBy
  <2>4. <<start.v[1], to>> \in Vnodes
    BY Zenon, <2>2 DEF Vnodes
  <2>5. /\ Counted(found.s, Plus(Plus(HeldBy, start.v), found.v))
        /\ found.v = NoVnode \/ (found.v = <<start.v[1], to>> /\ Mounted(start.v[1]))
    <3>1. CASE IsDir(start.v) /\ f # "lookup"
      <4>1. found.s = vnode_incref(start.s, <<start.v[1], to>>) /\ found.v = <<start.v[1], to>>
        BY Zenon, <3>1 DEF Taken, Result
      <4> QED
        BY Zenon, <2>2, <2>4, <3>1, <4>1, Incref
    <3>2. CASE ~(IsDir(start.v) /\ f # "lookup")
      <4>1. found.s = start.s /\ found.v = NoVnode
        BY Zenon, <3>2 DEF Error, Result
      <4>2. Plus(Plus(HeldBy, start.v), NoVnode) = Plus(HeldBy, start.v)
        BY Zenon, <2>3, PlusMinus
      <4> QED
        BY Zenon, <2>2, <4>1, <4>2
    <3> QED
      BY Zenon, <3>1, <3>2
  <2> HIDE DEF found
  <2>6. Counted(vnode_decref(found.s, start.v, f), Plus(HeldBy, found.v))
    BY Zenon, <2>2, <2>3, <2>5, LetGo
  <2>7. Plus(HeldBy, NoVnode) = HeldBy
    BY Zenon, <2>3, PlusMinus
  <2> QED
    BY <2>1, <2>2, <2>4, <2>5, <2>6, <2>7 DEF Got, Result
<1> QED
  BY Zenon, <1>2, <1>3

LEMMA Drop ==
  ASSUME NEW s, NEW n, Counted(s, n), NEW w, w = NoVnode \/ (Start(w) /\ n[w] >= 1), NEW f
  PROVE  /\ Counted(DropRef(s, w, f), Minus(n, w)) /\ s.lost \subseteq DropRef(s, w, f).lost
         /\ Minus(n, w) \in [Vnodes -> Nat]
<1>0. n \in [Vnodes -> Nat]
  BY Zenon DEF Counted
<1>1. CASE w = NoVnode
  <2>1. Minus(n, w) = n
    BY <1>0, <1>1, Vnodes2 DEF Minus, Is
  <2> QED
    BY Zenon, <1>0, <1>1, <2>1 DEF DropRef
<1>2. CASE w # NoVnode
  <2>1. w \in Vnodes /\ Known(w[1]) /\ w[2] # "device" /\ n[w] >= 1
    BY Zenon, <1>2, StartKnown
  <2>2. DropRef(s, w, f) = vnode_decref(s, w, f)
    BY Zenon, <1>2 DEF DropRef
  <2> QED
    BY <1>0, <2>1, <2>2, Decref, PlusMinus
<1> QED
  BY Zenon, <1>1, <1>2

(* vfs_setcurdir and the release after it leave one reference for the new current
   directory and take back the one for the old. *)
LEMMA Setcurdir ==
  ASSUME VfsInv, NEW r, Got(r), NEW f
  PROVE  LET c == vfs_setcurdir(r, f) IN
         /\ c.cwd = NoVnode \/ Start(c.cwd)
         /\ Counted(c.s, Count([p_cwd EXCEPT !["kproc"] = c.cwd], bootfs_vnode))
         /\ r.v # NoVnode /\ IsDir(r.v) => c.cwd = r.v
<1> DEFINE c == vfs_setcurdir(r, f)
           w == p_cwd["kproc"]
<1>1. /\ p_cwd \in [Processes -> Vnodes \cup {NoVnode}] /\ "kproc" \in Processes
      /\ w = NoVnode \/ Start(w)
  BY Zenon DEF VfsInv, Processes
<1>2. HeldBy \in [Vnodes -> Nat]
  BY Zenon, CountType DEF HeldBy
<1>3. CASE r.v = NoVnode \/ ~IsDir(r.v)
  <2>1. c.s = DropRef(r.s, r.v, f) /\ c.cwd = w
    BY Zenon, <1>3 DEF vfs_setcurdir
  <2>2. [p_cwd EXCEPT !["kproc"] = w] = p_cwd
    BY Zenon, <1>1
  <2>3. Counted(DropRef(r.s, r.v, f), HeldBy)
    <3>1. CASE r.v = NoVnode
      BY Zenon, <3>1, Vnodes2 DEF DropRef, Got
    <3>2. CASE r.v # NoVnode
      <4>1. /\ r.v \in Vnodes /\ Known(r.v[1]) /\ (r.v[2] = "device" => HeldBy[r.v] >= 1)
            /\ Counted(r.s, Plus(HeldBy, r.v))
        BY Zenon, <3>2 DEF Got
      <4>2. Plus(Plus(HeldBy, r.v), NoVnode) = Plus(HeldBy, r.v) /\ Plus(HeldBy, NoVnode) = HeldBy
        BY Zenon, <1>2, PlusMinus
      <4>3. Counted(vnode_decref(r.s, r.v, f), Plus(HeldBy, NoVnode))
        BY Zenon, <1>2, <4>1, <4>2, LetGo
      <4> QED
        BY Zenon, <3>2, <4>2, <4>3 DEF DropRef
    <3> QED
      BY Zenon, <3>1, <3>2
  <2> QED
    BY Zenon, <1>1, <1>3, <2>1, <2>2, <2>3 DEF HeldBy
<1>4. CASE r.v # NoVnode /\ IsDir(r.v)
  <2> DEFINE v == r.v
             n1 == Plus(HeldBy, v)
             n2 == Plus(n1, v)
             n3 == Minus(n2, w)
             s2 == vnode_incref(r.s, v)
             s3 == DropRef(s2, w, f)
  <2>1. c.s = vnode_decref(s3, v, f) /\ c.cwd = v
    BY Zenon, <1>4 DEF vfs_setcurdir
  <2>2. v \in Vnodes /\ Known(v[1]) /\ Mounted(v[1]) /\ Counted(r.s, n1)
    BY Zenon, <1>4 DEF Got
  <2>3. Start(v) /\ v[2] # "device"
    BY Zenon, <1>4, <2>2 DEF Start, IsDir
  <2>4. n1 \in [Vnodes -> Nat] /\ \A u \in Vnodes : n1[u] = HeldBy[u] + Is(u, v)
    BY Zenon, <1>2, PlusMinus
  <2> HIDE DEF n1, c, w
  <2>5. n2 \in [Vnodes -> Nat] /\ \A u \in Vnodes : n2[u] = n1[u] + Is(u, v)
    BY Zenon, <2>4, PlusMinus
  <2>6. Counted(s2, n2)
    BY Zenon, <2>2, Incref
  <2>7. \A u \in Vnodes : Is(u, v) \in Nat /\ Is(u, w) \in Nat /\ Is(u, w) <= 1 /\ Is(v, v) = 1
    BY DEF Is
  <2>8. w \in Vnodes => HeldBy[w] >= 1
    <3>1. w \in Vnodes => HeldBy[w] >= Permanent(w) + 1
      BY Zenon, <1>1, CwdHeld DEF HeldBy, w
    <3>2. Permanent(w) \in Nat
      BY Zenon DEF Permanent
    <3> QED
      BY <1>2, <3>1, <3>2
  <2> HIDE DEF n2, v
  <2>9. w = NoVnode \/ (Start(w) /\ n2[w] >= 1)
    <3>1. Start(w) => w \in Vnodes
      BY Zenon, StartKnown
    <3> QED
      BY <1>1, <1>2, <2>4, <2>5, <2>7, <2>8, <3>1 DEF w
  <2>10. Counted(s3, n3) /\ n3 \in [Vnodes -> Nat]
    BY Zenon, <2>6, <2>9, Drop
  <2>11. \A u \in Vnodes : n3[u] = n2[u] - Is(u, w)
    BY Zenon, <2>5, PlusMinus
  <2> HIDE DEF n3, s3
  <2>12. n3[v] >= 1
    BY <1>2, <2>2, <2>4, <2>5, <2>7, <2>11 DEF v
  <2>13. Counted(c.s, Minus(n3, v))
    BY Zenon, <2>1, <2>2, <2>3, <2>10, <2>12, Decref DEF v
  <2>14. Minus(n3, v) = [u \in Vnodes |-> HeldBy[u] + Is(u, v) - Is(u, w)]
    <3>1. ASSUME NEW u \in Vnodes PROVE n3[u] - Is(u, v) = HeldBy[u] + Is(u, v) - Is(u, w)
      <4>1. HeldBy[u] \in Nat /\ Is(u, v) \in Nat /\ Is(u, w) \in Nat
        BY Zenon, <1>2, <2>7
      <4>2. n1[u] = HeldBy[u] + Is(u, v) /\ n2[u] = n1[u] + Is(u, v) /\ n3[u] = n2[u] - Is(u, w)
        BY Zenon, <2>4, <2>5, <2>11
      <4> QED
        BY <4>1, <4>2
    <3> QED
      BY Zenon, <3>1 DEF Minus
  <2>15. Count([p_cwd EXCEPT !["kproc"] = v], bootfs_vnode) = [u \in Vnodes |-> HeldBy[u] + Is(u, v) - Is(u, w)]
    <3> DEFINE d == [p_cwd EXCEPT !["kproc"] = v]
    <3>1. Moves(p_cwd, d, "kproc", v) /\ d = [p_cwd EXCEPT !["kproc"] = v]
      BY Zenon, <1>1, <2>2 DEF v, Moves
    <3> HIDE DEF d
    <3>2. \A u \in Vnodes : Count(d, bootfs_vnode)[u] = HeldBy[u] + Is(u, v) - Is(u, w)
      BY SMT, <3>1, CountCwd DEF HeldBy, w
    <3>3. Count(d, bootfs_vnode) = [u \in Vnodes |-> Count(d, bootfs_vnode)[u]]
      BY Zenon, CountType
    <3> QED
      BY Zenon, <3>1, <3>2, <3>3
  <2> QED
    BY Zenon, <2>1, <2>3, <2>13, <2>14, <2>15 DEF v, c
<1> QED
  BY Zenon, <1>3, <1>4
-----------------------------------------------------------------------------
(* One step of the VFS layer. *)
LEMMA SameDevs ==
  ASSUME VfsInv, knowndevs' = knowndevs, attached' = attached, started' \subseteq Programs,
         \A p \in Programs \ started' : p_cwd'[p] = NoVnode,
         p_cwd' \in [Processes -> Vnodes \cup {NoVnode}],
         \A p \in Processes : p_cwd'[p] = NoVnode \/ Start(p_cwd'[p]),
         bootfs_vnode' = NoVnode \/ Start(bootfs_vnode'),
         Counted(vn', Count(p_cwd', bootfs_vnode')), DownInv'
  PROVE  VfsInv'
<1>1. DevsOK'
  BY Zenon DEF VfsInv, DevsOK
<1>2. HeldBy' = Count(p_cwd', bootfs_vnode')
  BY Zenon DEF HeldBy, Count, Permanent
<1>3. Counted(vn, HeldBy)'
  BY Zenon, <1>2 DEF Counted, Known
<1>4. /\ \A p \in Processes : p_cwd'[p] = NoVnode \/ Start(p_cwd[p])'
      /\ bootfs_vnode' = NoVnode \/ Start(bootfs_vnode)'
  BY Zenon DEF Start, Mounted
<1> QED
  BY Zenon, <1>1, <1>3, <1>4 DEF VfsInv

LEMMA RunDown ==
  ASSUME VfsInv, vfsphase = "run", UNCHANGED down
  PROVE  DownInv'
BY DEF VfsInv, DownInv, down

LEMMA ChdirStep ==
  ASSUME VfsInv, NEW path \in Paths, NEW to \in {"dir", "file"}, NEW f, vfs_chdir(path, to, f)
  PROVE  VfsInv'
<1> DEFINE r == vfs_lookup(vn, path, to, f)
           c == vfs_setcurdir(r, f)
<1>1. Got(r)
  BY LookupGot, VfsAssumption
<1>2. /\ vn' = c.s /\ p_cwd' = [p_cwd EXCEPT !["kproc"] = c.cwd] /\ vfsphase = "run"
      /\ UNCHANGED <<attached, knowndevs, bootfs_vnode, started, down>>
  BY Zenon DEF vfs_chdir, Menu_ready
<1> HIDE DEF r
<1>3. /\ c.cwd = NoVnode \/ Start(c.cwd)
      /\ Counted(c.s, Count([p_cwd EXCEPT !["kproc"] = c.cwd], bootfs_vnode))
  BY Zenon, <1>1, Setcurdir
<1>4. DownInv'
  BY Zenon, <1>2, RunDown
<1> HIDE DEF c
<1>5. /\ p_cwd' \in [Processes -> Vnodes \cup {NoVnode}]
      /\ \A p \in Processes : p_cwd'[p] = NoVnode \/ Start(p_cwd'[p])
  BY Zenon, <1>2, <1>3, StartKnown DEF VfsInv
<1>6. Counted(vn', Count(p_cwd', bootfs_vnode'))
  BY Zenon, <1>2, <1>3
<1>7. (bootfs_vnode' = NoVnode \/ Start(bootfs_vnode')) /\ started' \subseteq Programs /\ (\A p \in Programs \ started' : p_cwd'[p] = NoVnode)
  BY Zenon, <1>2, VfsAssumption DEF VfsInv, Processes
<1> QED
  BY Zenon, <1>2, <1>4, <1>5, <1>6, <1>7, SameDevs

LEMMA SetbootfsStep ==
  ASSUME VfsInv, NEW name, NEW f, vfs_setbootfs(name, f)
  PROVE  VfsInv'
<1> DEFINE r == vfs_lookup(vn, [kind |-> "device", name |-> name, sub |-> FALSE], "dir", f)
           c == vfs_setcurdir(r, f)
           cw == [p_cwd EXCEPT !["kproc"] = c.cwd]
           went == r.v # NoVnode /\ IsDir(r.v)
<1>1. Got(r)
  BY LookupGot
<1>2. /\ p_cwd' = cw /\ vfsphase = "run" /\ UNCHANGED <<attached, knowndevs, started, down>>
      /\ IF went
         THEN bootfs_vnode' = c.cwd /\ vn' = DropRef(vnode_incref(c.s, c.cwd), bootfs_vnode, f)
         ELSE bootfs_vnode' = bootfs_vnode /\ vn' = c.s
  BY Zenon DEF vfs_setbootfs, Menu_ready
<1> HIDE DEF r
<1>3. /\ c.cwd = NoVnode \/ Start(c.cwd)
      /\ Counted(c.s, Count(cw, bootfs_vnode))
      /\ went => c.cwd = r.v
  BY Zenon, <1>1, Setcurdir
<1>4. DownInv'
  BY Zenon, <1>2, RunDown
<1> HIDE DEF c
<1>5. /\ cw \in [Processes -> Vnodes \cup {NoVnode}]
      /\ \A p \in Processes : cw[p] = NoVnode \/ Start(cw[p])
  BY Zenon, <1>3, StartKnown DEF VfsInv
<1> HIDE DEF cw
<1>6. bootfs_vnode = NoVnode \/ Start(bootfs_vnode)
  BY Zenon DEF VfsInv
<1>7. CASE ~went
  <2>1. Counted(vn', Count(p_cwd', bootfs_vnode'))
    BY Zenon, <1>2, <1>3, <1>7
  <2>2. started' \subseteq Programs /\ (\A p \in Programs \ started' : p_cwd'[p] = NoVnode)
    BY Zenon, <1>2, VfsAssumption DEF VfsInv, Processes, cw
  <2> QED
    BY Zenon, <1>2, <1>4, <1>5, <1>6, <1>7, <2>1, <2>2, SameDevs
<1>8. CASE went
  <2> DEFINE n == Count(cw, bootfs_vnode)
             m == Plus(n, c.cwd)
  <2>1. c.cwd \in Vnodes /\ Start(c.cwd)
    BY Zenon, <1>3, <1>8, StartKnown
  <2>2. Counted(vnode_incref(c.s, c.cwd), m)
    BY Zenon, <1>3, <2>1, Incref
  <2>3. n \in [Vnodes -> Nat] /\ (bootfs_vnode \in Vnodes => n[bootfs_vnode] >= 1)
    <3>1. n \in [Vnodes -> Nat] /\ (bootfs_vnode \in Vnodes => n[bootfs_vnode] >= Permanent(bootfs_vnode) + 1)
      BY Zenon, CountType
    <3>2. Permanent(bootfs_vnode) \in Nat
      BY Zenon DEF Permanent
    <3> HIDE DEF n
    <3> QED
      BY <3>1, <3>2
  <2>4. m \in [Vnodes -> Nat] /\ \A v \in Vnodes : m[v] = n[v] + Is(v, c.cwd)
    BY Zenon, <2>3, PlusMinus
  <2> HIDE DEF n, m
  <2>5. \A v \in Vnodes : Is(v, c.cwd) \in Nat
    BY Zenon DEF Is
  <2>6. bootfs_vnode = NoVnode \/ (Start(bootfs_vnode) /\ m[bootfs_vnode] >= 1)
    BY <1>6, <2>3, <2>4, <2>5, StartKnown
  <2>7. Counted(vn', Minus(m, bootfs_vnode))
    BY Zenon, <1>2, <1>8, <2>2, <2>6, Drop
  <2>8. Minus(m, bootfs_vnode) = [v \in Vnodes |-> n[v] + Is(v, c.cwd) - Is(v, bootfs_vnode)]
    <3>1. \A v \in Vnodes : m[v] - Is(v, bootfs_vnode) = n[v] + Is(v, c.cwd) - Is(v, bootfs_vnode)
      <4> SUFFICES ASSUME NEW v \in Vnodes
                   PROVE  m[v] - Is(v, bootfs_vnode) = n[v] + Is(v, c.cwd) - Is(v, bootfs_vnode)
        OBVIOUS
      <4>1. m[v] = n[v] + Is(v, c.cwd) /\ n[v] \in Nat
        BY Zenon, <2>3, <2>4
      <4>2. Is(v, c.cwd) \in Nat /\ Is(v, bootfs_vnode) \in Nat
        BY DEF Is
      <4> QED
        BY SMT, <4>1, <4>2
    <3> QED
      BY Zenon, <3>1 DEF Minus
  <2>9. Count(cw, c.cwd) = [v \in Vnodes |-> n[v] + Is(v, c.cwd) - Is(v, bootfs_vnode)]
    <3>1. \A v \in Vnodes : Count(cw, c.cwd)[v] = n[v] + Is(v, c.cwd) - Is(v, bootfs_vnode)
      BY SMT, CountBoot DEF n
    <3>2. Count(cw, c.cwd) = [v \in Vnodes |-> Count(cw, c.cwd)[v]]
      BY Zenon, CountType
    <3> QED
      BY Zenon, <3>1, <3>2
  <2>10. Counted(vn', Count(p_cwd', bootfs_vnode'))
    BY Zenon, <1>2, <1>8, <2>7, <2>8, <2>9
  <2>11. started' \subseteq Programs /\ (\A p \in Programs \ started' : p_cwd'[p] = NoVnode)
    BY Zenon, <1>2, VfsAssumption DEF VfsInv, Processes, cw
  <2> QED
    BY Zenon, <1>2, <1>4, <1>5, <1>8, <2>1, <2>10, <2>11, SameDevs
<1> QED
  BY Zenon, <1>7, <1>8

LEMMA GetcwdStep ==
  ASSUME VfsInv, vfs_getcwd
  PROVE  VfsInv'
<1> DEFINE v == p_cwd["kproc"]
           named == \E i \in 1 .. Len(knowndevs) : knowndevs[i].name = v[1] /\ knowndevs[i].fs
<1>1. /\ v # NoVnode /\ vn' = [vn EXCEPT !.bad = @ \/ v[2] = "device" \/ ~named] /\ vfsphase = "run"
      /\ UNCHANGED <<attached, knowndevs, p_cwd, bootfs_vnode, started, down>>
  BY Zenon DEF vfs_getcwd, Menu_ready
<1>2. v[2] # "device" /\ named
  BY Zenon, <1>1, StartKnown DEF VfsInv, Processes, Mounted
<1>3. vn' = vn
  <2>1. vn \in VnState /\ ~vn.bad
    BY Zenon DEF VfsInv, Counted
  <2> QED
    BY Zenon, <1>1, <1>2, <2>1 DEF VnState
<1>4. DownInv'
  BY Zenon, <1>1, RunDown
<1>5. /\ Counted(vn', Count(p_cwd', bootfs_vnode')) /\ started' \subseteq Programs
      /\ \A p \in Programs \ started' : p_cwd'[p] = NoVnode
      /\ p_cwd' \in [Processes -> Vnodes \cup {NoVnode}]
      /\ \A p \in Processes : p_cwd'[p] = NoVnode \/ Start(p_cwd'[p])
      /\ bootfs_vnode' = NoVnode \/ Start(bootfs_vnode')
  BY Zenon, <1>1, <1>3 DEF VfsInv, HeldBy
<1> QED
  BY Zenon, <1>1, <1>4, <1>5, SameDevs

LEMMA RunprogramStep ==
  ASSUME VfsInv, NEW p \in Programs, NEW forked \in BOOLEAN, NEW f,
         proc_create_runprogram(p, forked, f)
  PROVE  VfsInv'
<1> DEFINE v == p_cwd["kproc"]
           s == IF v = NoVnode THEN vn ELSE vnode_incref(vn, v)
<1>1. /\ vfsphase = "run" /\ UNCHANGED <<attached, knowndevs, bootfs_vnode, down>>
      /\ IF forked
         THEN vn' = s /\ p_cwd' = [p_cwd EXCEPT ![p] = v] /\ started' = started \cup {p}
         ELSE vn' = DropRef(s, v, f) /\ UNCHANGED <<p_cwd, started>>
  BY Zenon DEF proc_create_runprogram, Menu_ready
<1>2. /\ p_cwd \in [Processes -> Vnodes \cup {NoVnode}] /\ "kproc" \in Processes /\ p \in Processes
      /\ \A q \in Processes : p_cwd[q] = NoVnode \/ Start(p_cwd[q])
      /\ bootfs_vnode = NoVnode \/ Start(bootfs_vnode)
      /\ started \subseteq Programs /\ Counted(vn, HeldBy)
  BY Zenon DEF VfsInv, Processes
<1>3. v \in Vnodes \cup {NoVnode} /\ (v = NoVnode \/ Start(v)) /\ (v = NoVnode \/ v \in Vnodes)
  BY Zenon, <1>2
<1>4. HeldBy \in [Vnodes -> Nat] /\ Plus(HeldBy, NoVnode) = HeldBy
  BY Zenon, CountType, PlusMinus DEF HeldBy
<1>5. Counted(s, Plus(HeldBy, v))
  BY Zenon, <1>2, <1>3, <1>4, Incref
<1>6. DownInv'
  BY Zenon, <1>1, RunDown
<1>7. p_cwd[p] = NoVnode
  BY Zenon DEF proc_create_runprogram, VfsInv
<1> HIDE DEF s, v
<1>8. CASE forked
  <2>1. Count([p_cwd EXCEPT ![p] = v], bootfs_vnode) = [u \in Vnodes |-> HeldBy[u] + Is(u, v) - Is(u, NoVnode)]
    <3> DEFINE d == [p_cwd EXCEPT ![p] = v]
    <3>1. Moves(p_cwd, d, p, v) /\ d = [p_cwd EXCEPT ![p] = v]
      BY Zenon, <1>2, <1>3 DEF Moves
    <3> HIDE DEF d
    <3>2. \A u \in Vnodes : Count(d, bootfs_vnode)[u] = HeldBy[u] + Is(u, v) - Is(u, NoVnode)
      BY SMT, <1>7, <3>1, CountCwd DEF HeldBy
    <3>3. Count(d, bootfs_vnode) = [u \in Vnodes |-> Count(d, bootfs_vnode)[u]]
      BY Zenon, CountType
    <3> QED
      BY Zenon, <3>1, <3>2, <3>3
  <2>2. Count([p_cwd EXCEPT ![p] = v], bootfs_vnode) = Plus(HeldBy, v)
    <3>1. \A u \in Vnodes : Is(u, NoVnode) = 0 /\ Is(u, v) \in Nat /\ HeldBy[u] \in Nat
      BY Zenon, <1>4, Vnodes2 DEF Is
    <3>2. \A u \in Vnodes : HeldBy[u] + Is(u, v) - Is(u, NoVnode) = HeldBy[u] + Is(u, v)
      BY <3>1
    <3> QED
      BY Zenon, <2>1, <3>2 DEF Plus
  <2>3. Counted(vn', Count(p_cwd', bootfs_vnode'))
    BY Zenon, <1>1, <1>5, <1>8, <2>2
  <2>4. /\ p_cwd' \in [Processes -> Vnodes \cup {NoVnode}] /\ started' \subseteq Programs /\ (\A q \in Programs \ started' : p_cwd'[q] = NoVnode)
        /\ \A q \in Processes : p_cwd'[q] = NoVnode \/ Start(p_cwd'[q])
        /\ bootfs_vnode' = NoVnode \/ Start(bootfs_vnode')
    BY Zenon, <1>1, <1>2, <1>3, <1>8 DEF VfsInv, Processes
  <2> QED
    BY Zenon, <1>1, <1>6, <2>3, <2>4, SameDevs
<1>9. CASE ~forked
  <2>1. Counted(DropRef(s, v, f), HeldBy)
    <3>1. CASE v = NoVnode
      BY Zenon, <1>4, <1>5, <3>1 DEF DropRef
    <3>2. CASE v # NoVnode
      <4>1. v \in Vnodes /\ Known(v[1]) /\ v[2] # "device"
        BY Zenon, <1>3, <3>2, StartKnown
      <4>2. Plus(Plus(HeldBy, v), NoVnode) = Plus(HeldBy, v)
        BY Zenon, <1>4, PlusMinus
      <4>3. Counted(vnode_decref(s, v, f), Plus(HeldBy, NoVnode))
        BY Zenon, <1>4, <1>5, <4>1, <4>2, LetGo
      <4> QED
        BY Zenon, <1>4, <3>2, <4>3 DEF DropRef
    <3> QED
      BY Zenon, <3>1, <3>2
  <2>2. Counted(vn', Count(p_cwd', bootfs_vnode'))
    BY Zenon, <1>1, <1>9, <2>1 DEF HeldBy
  <2>3. /\ p_cwd' \in [Processes -> Vnodes \cup {NoVnode}] /\ started' \subseteq Programs /\ (\A q \in Programs \ started' : p_cwd'[q] = NoVnode)
        /\ \A q \in Processes : p_cwd'[q] = NoVnode \/ Start(p_cwd'[q])
        /\ bootfs_vnode' = NoVnode \/ Start(bootfs_vnode')
    BY Zenon, <1>1, <1>2, <1>9 DEF VfsInv
  <2> QED
    BY Zenon, <1>1, <1>6, <2>2, <2>3, SameDevs
<1> QED
  BY Zenon, <1>8, <1>9

(* A mount or an unmount: one entry, of a device with a raw name. *)
LEMMA Remount ==
  ASSUME VfsInv, NEW i \in 1 .. Len(knowndevs), NEW on \in BOOLEAN, NEW vol \in Volnames \cup {NoName},
         knowndevs[i].raw # NoName, on \/ ~Busy(knowndevs[i].name), DownInv',
         knowndevs' = [knowndevs EXCEPT ![i].fs = on, ![i].vol = vol],
         UNCHANGED <<attached, vn, p_cwd, bootfs_vnode, started>>
  PROVE  VfsInv'
<1> DEFINE T == [name : DevNames, raw : STRING, fs : BOOLEAN, vol : Volnames \cup {NoName}]
<1>1. knowndevs \in Seq(T) /\ DevsOK
  BY Zenon DEF VfsInv, DevsOK
<1>2. /\ Len(knowndevs') = Len(knowndevs)
      /\ \A j \in 1 .. Len(knowndevs) :
            /\ knowndevs'[j].name = knowndevs[j].name /\ knowndevs'[j].raw = knowndevs[j].raw
            /\ knowndevs'[j].fs = IF j = i THEN on ELSE knowndevs[j].fs
            /\ knowndevs'[j] \in T
  <2> DEFINE a == [knowndevs[i] EXCEPT !.fs = on]
             k == [knowndevs EXCEPT ![i] = a]
             b == [a EXCEPT !.vol = vol]
  <2>1. \A j \in 1 .. Len(knowndevs) : knowndevs[j] \in T
    <3> HIDE DEF T
    <3> QED
      BY <1>1
  <2>2. a \in T /\ a.name = knowndevs[i].name /\ a.raw = knowndevs[i].raw /\ a.fs = on
    BY Zenon, <2>1
  <2>3. DOMAIN knowndevs = 1 .. Len(knowndevs) /\ Len(knowndevs) \in Nat
    BY <1>1
  <2>4. k[i] = a /\ DOMAIN k = DOMAIN knowndevs
    BY Zenon, <2>3
  <2>5. knowndevs' = [k EXCEPT ![i] = [k[i] EXCEPT !.vol = vol]]
    BY Zenon
  <2>6. knowndevs' = [k EXCEPT ![i] = b]
    BY Zenon, <2>4, <2>5
  <2> HIDE DEF a
  <2>7. b \in T /\ b.name = a.name /\ b.raw = a.raw /\ b.fs = a.fs
    BY Zenon, <2>2
  <2> HIDE DEF b
  <2>8. /\ DOMAIN knowndevs' = 1 .. Len(knowndevs)
        /\ \A j \in 1 .. Len(knowndevs) : knowndevs'[j] = IF j = i THEN b ELSE knowndevs[j]
    BY Zenon, <2>3, <2>4, <2>6
  <2>9. knowndevs' \in Seq(T)
    BY <1>1, <2>2, <2>6, <2>7
  <2>10. Len(knowndevs') = Len(knowndevs)
    BY <2>3, <2>8, <2>9
  <2> QED
    BY Zenon, <2>1, <2>2, <2>7, <2>8, <2>10
<1>3. DevsOK'
  <2>1. knowndevs' \in Seq(T)
    BY <1>1, <1>2
  <2> QED
    BY <1>1, <1>2, <2>1 DEF DevsOK
<1> HIDE DEF T
<1>4. \A v : Permanent(v)' = Permanent(v) /\ Known(v[1])' = Known(v[1])
  BY <1>2 DEF Permanent, Known
<1>5. HeldBy' = HeldBy
  <2>1. \A v \in Vnodes : Permanent(v)' = Permanent(v)
    BY Zenon, <1>4
  <2> QED
    BY Zenon, <2>1 DEF HeldBy, Count
<1>6. Counted(vn, HeldBy)'
  BY Zenon, <1>4, <1>5 DEF VfsInv, Counted
<1>7. ASSUME NEW v, Start(v), HeldBy[v] >= 1 PROVE Start(v)'
  <2>1. v \in Vnodes /\ v[2] \in {"root", "dir"}
    BY Zenon, <1>7 DEF Start, IsDir
  <2>2. PICK j \in 1 .. Len(knowndevs) : knowndevs[j].name = v[1] /\ knowndevs[j].fs
    BY Zenon, <1>7 DEF Start, Mounted
  <2>3. vn.rc[v] > 0
    <3>1. /\ HeldBy[v] \in Nat /\ vn.rc[v] \in Nat
          /\ vn.rc[v] = HeldBy[v] + (IF v \in vn.lost THEN 1 ELSE 0)
      BY Zenon, <2>1, CountType DEF VfsInv, Counted, VnState, HeldBy
    <3> QED
      BY <1>7, <3>1
  <2>4. v[1] = knowndevs[i].name => Busy(knowndevs[i].name)
    <3>1. v = <<v[1], v[2]>>
      BY <2>1 DEF Vnodes
    <3> QED
      BY Zenon, <2>1, <2>3, <3>1 DEF Busy
  <2>5. knowndevs'[j].fs /\ knowndevs'[j].name = v[1]
    BY Zenon, <1>2, <2>2, <2>4
  <2> QED
    BY Zenon, <1>2, <1>7, <2>5 DEF Start, Mounted
<1>8. \A p \in Processes : p_cwd'[p] = NoVnode \/ Start(p_cwd[p])'
  <2> SUFFICES ASSUME NEW p \in Processes, p_cwd[p] # NoVnode PROVE Start(p_cwd[p])'
    BY Zenon
  <2>1. p_cwd \in [Processes -> Vnodes \cup {NoVnode}] /\ Start(p_cwd[p]) /\ p_cwd[p] \in Vnodes
    BY Zenon DEF VfsInv
  <2>2. HeldBy[p_cwd[p]] >= Permanent(p_cwd[p]) + 1 /\ HeldBy[p_cwd[p]] \in Nat
    BY Zenon, <2>1, CwdHeld, CountType DEF HeldBy
  <2>3. Permanent(p_cwd[p]) \in Nat
    BY Zenon DEF Permanent
  <2>4. HeldBy[p_cwd[p]] >= 1
    BY <2>2, <2>3
  <2> DEFINE v == p_cwd[p]
  <2>5. Start(v) /\ HeldBy[v] >= 1 /\ v' = v
    BY Zenon, <2>1, <2>4
  <2> QED
    BY <1>2, <1>7, <2>5 DEF Start, Mounted
<1>9. bootfs_vnode' = NoVnode \/ Start(bootfs_vnode)'
  <2> SUFFICES ASSUME bootfs_vnode # NoVnode PROVE Start(bootfs_vnode)'
    BY Zenon
  <2>1. Start(bootfs_vnode) /\ bootfs_vnode \in Vnodes
    BY Zenon DEF VfsInv, Start
  <2>2. HeldBy[bootfs_vnode] >= Permanent(bootfs_vnode) + 1 /\ HeldBy[bootfs_vnode] \in Nat
    BY Zenon, <2>1, CountType DEF HeldBy
  <2>3. Permanent(bootfs_vnode) \in Nat
    BY Zenon DEF Permanent
  <2>4. HeldBy[bootfs_vnode] >= 1
    BY <2>2, <2>3
  <2> QED
    BY Zenon, <1>7, <2>1, <2>4 DEF Start, Mounted
<1>10. /\ attached' \in Nat /\ p_cwd' \in [Processes -> Vnodes \cup {NoVnode}]
       /\ started' \subseteq Programs /\ \A p \in Programs \ started' : p_cwd'[p] = NoVnode
  BY Zenon DEF VfsInv
<1> QED
  BY Zenon, <1>3, <1>6, <1>8, <1>9, <1>10 DEF VfsInv

LEMMA MountStep ==
  ASSUME VfsInv, NEW name, NEW vol \in Volnames, vfs_mount(name, vol)
  PROVE  VfsInv'
<1>1. DownInv'
  BY Zenon, RunDown DEF vfs_mount, Menu_ready
<1> QED
  BY Zenon, <1>1, Remount DEF vfs_mount, findmount

LEMMA UnmountStep ==
  ASSUME VfsInv, NEW name, vfs_unmount(name)
  PROVE  VfsInv'
<1>1. DownInv'
  BY Zenon, RunDown DEF vfs_unmount, Menu_ready
<1>2. PICK i \in 1 .. Len(knowndevs) :
         /\ knowndevs[i].raw # NoName /\ ~Busy(knowndevs[i].name)
         /\ knowndevs' = [knowndevs EXCEPT ![i].fs = FALSE, ![i].vol = NoName]
         /\ UNCHANGED <<attached, vn, p_cwd, bootfs_vnode, started>>
  BY Zenon DEF vfs_unmount, findmount, Unmounted
<1> QED
  BY Zenon, <1>1, <1>2, Remount

(* Shutdown. *)
LEMMA ClearbootfsStep ==
  ASSUME VfsInv, NEW q \in Processes, NEW f, vfs_clearbootfs(q, f)
  PROVE  VfsInv'
<1>1. /\ vn' = DropRef(vn, bootfs_vnode, f) /\ bootfs_vnode' = NoVnode /\ vfsphase = "run"
      /\ vfsphase' = "clearcurdir" /\ shutter' = q
      /\ UNCHANGED <<attached, knowndevs, p_cwd, started, unmounting, gaveup>>
  BY Zenon DEF vfs_clearbootfs, Menu_ready
<1>2. DownInv'
  BY <1>1 DEF VfsInv, DownInv
<1>3. Counted(vn, HeldBy) /\ HeldBy \in [Vnodes -> Nat]
  BY Zenon, CountType DEF VfsInv, HeldBy
<1>4. bootfs_vnode = NoVnode \/ (Start(bootfs_vnode) /\ HeldBy[bootfs_vnode] >= 1)
  <2> SUFFICES ASSUME bootfs_vnode # NoVnode PROVE Start(bootfs_vnode) /\ HeldBy[bootfs_vnode] >= 1
    BY Zenon
  <2>1. Start(bootfs_vnode) /\ bootfs_vnode \in Vnodes
    BY Zenon DEF VfsInv, Start
  <2>2. HeldBy[bootfs_vnode] >= Permanent(bootfs_vnode) + 1 /\ Permanent(bootfs_vnode) \in Nat
    BY Zenon, <2>1, CountType DEF HeldBy, Permanent
  <2> QED
    BY <1>3, <2>1, <2>2
<1>5. Counted(vn', Minus(HeldBy, bootfs_vnode))
  BY Zenon, <1>1, <1>3, <1>4, Drop
<1>6. Minus(HeldBy, bootfs_vnode) = Count(p_cwd, NoVnode)
  <2>1. \A v \in Vnodes : Count(p_cwd, NoVnode)[v] = HeldBy[v] + Is(v, NoVnode) - Is(v, bootfs_vnode)
    BY Zenon, CountBoot DEF HeldBy
  <2>2. \A v \in Vnodes : Is(v, NoVnode) = 0 /\ Is(v, bootfs_vnode) \in Nat /\ HeldBy[v] \in Nat
    BY Zenon, <1>3, Vnodes2 DEF Is
  <2>3. \A v \in Vnodes : Count(p_cwd, NoVnode)[v] = HeldBy[v] - Is(v, bootfs_vnode)
    BY <2>1, <2>2
  <2>4. Count(p_cwd, NoVnode) = [v \in Vnodes |-> Count(p_cwd, NoVnode)[v]]
    BY Zenon, CountType
  <2> QED
    BY Zenon, <2>3, <2>4 DEF Minus
<1>7. Counted(vn', Count(p_cwd', bootfs_vnode'))
  BY Zenon, <1>1, <1>5, <1>6
<1>8. /\ p_cwd' \in [Processes -> Vnodes \cup {NoVnode}] /\ started' \subseteq Programs
      /\ \A p \in Programs \ started' : p_cwd'[p] = NoVnode
      /\ \A p \in Processes : p_cwd'[p] = NoVnode \/ Start(p_cwd'[p])
  BY Zenon, <1>1 DEF VfsInv
<1> QED
  BY Zenon, <1>1, <1>2, <1>7, <1>8, SameDevs

LEMMA ClearcurdirStep ==
  ASSUME VfsInv, NEW f, vfs_clearcurdir(f)
  PROVE  VfsInv'
<1> DEFINE w == p_cwd[shutter]
<1>1. /\ vn' = DropRef(vn, w, f) /\ p_cwd' = [p_cwd EXCEPT ![shutter] = NoVnode]
      /\ vfsphase = "clearcurdir" /\ vfsphase' = "unmountall"
      /\ UNCHANGED <<attached, knowndevs, bootfs_vnode, started, shutter, unmounting, gaveup>>
  BY Zenon DEF vfs_clearcurdir
<1>2. /\ p_cwd \in [Processes -> Vnodes \cup {NoVnode}] /\ shutter \in Processes
      /\ w = NoVnode \/ Start(w)
  BY Zenon DEF VfsInv, DownInv
<1>3. DownInv'
  BY <1>1, <1>2 DEF VfsInv, DownInv
<1>4. Counted(vn, HeldBy) /\ HeldBy \in [Vnodes -> Nat]
  BY Zenon, CountType DEF VfsInv, HeldBy
<1>5. w = NoVnode \/ (Start(w) /\ HeldBy[w] >= 1)
  <2> SUFFICES ASSUME w # NoVnode PROVE HeldBy[w] >= 1
    BY Zenon, <1>2
  <2>1. w \in Vnodes
    BY Zenon, <1>2 DEF Start
  <2>2. HeldBy[w] >= Permanent(w) + 1 /\ Permanent(w) \in Nat
    BY Zenon, <1>2, <2>1, CwdHeld DEF HeldBy, Permanent
  <2> QED
    BY <1>4, <2>1, <2>2
<1>6. Counted(vn', Minus(HeldBy, w))
  BY Zenon, <1>1, <1>4, <1>5, Drop
<1>7. Minus(HeldBy, w) = Count(p_cwd', bootfs_vnode)
  <2> DEFINE d == [p_cwd EXCEPT ![shutter] = NoVnode]
  <2>1. Moves(p_cwd, d, shutter, NoVnode)
    BY Zenon, <1>2 DEF Moves
  <2> HIDE DEF d
  <2>2. \A v \in Vnodes : Count(d, bootfs_vnode)[v] = HeldBy[v] + Is(v, NoVnode) - Is(v, w)
    BY SMT, <2>1, CountCwd DEF HeldBy
  <2>3. \A v \in Vnodes : Is(v, NoVnode) = 0 /\ Is(v, w) \in Nat /\ HeldBy[v] \in Nat
    BY Zenon, <1>4, Vnodes2 DEF Is
  <2>4. \A v \in Vnodes : Count(d, bootfs_vnode)[v] = HeldBy[v] - Is(v, w)
    BY <2>2, <2>3
  <2>5. Count(d, bootfs_vnode) = [v \in Vnodes |-> Count(d, bootfs_vnode)[v]]
    BY Zenon, CountType
  <2>6. Count(d, bootfs_vnode) = Minus(HeldBy, w)
    BY Zenon, <2>4, <2>5 DEF Minus
  <2> QED
    BY Zenon, <1>1, <2>6 DEF d
<1>8. Counted(vn', Count(p_cwd', bootfs_vnode'))
  BY Zenon, <1>1, <1>6, <1>7
<1>9. /\ p_cwd' \in [Processes -> Vnodes \cup {NoVnode}] /\ started' \subseteq Programs
      /\ \A p \in Programs \ started' : p_cwd'[p] = NoVnode
      /\ \A p \in Processes : p_cwd'[p] = NoVnode \/ Start(p_cwd'[p])
      /\ bootfs_vnode' = NoVnode \/ Start(bootfs_vnode')
  BY Zenon, <1>1, <1>2 DEF VfsInv, Processes
<1> QED
  BY Zenon, <1>1, <1>3, <1>8, <1>9, SameDevs

(* An entry after an unmount. *)
LEMMA UnmountedDev ==
  ASSUME DevsOK, NEW i \in 1 .. Len(knowndevs), NEW k, k = Unmounted(i)
  PROVE  /\ Len(k) = Len(knowndevs) /\ ~k[i].fs
         /\ \A j \in 1 .. Len(knowndevs) : j # i => k[j] = knowndevs[j]
<1> DEFINE T == [name : DevNames, raw : STRING, fs : BOOLEAN, vol : Volnames \cup {NoName}]
<1>1. knowndevs \in Seq(T)
  BY Zenon DEF DevsOK
<1>2. knowndevs[i] \in T
  <2> HIDE DEF T
  <2> QED
    BY <1>1
<1> DEFINE a == [knowndevs[i] EXCEPT !.fs = FALSE]
           h == [knowndevs EXCEPT ![i] = a]
           b == [a EXCEPT !.vol = NoName]
<1>3. a \in T /\ ~a.fs
  BY Zenon, <1>2
<1>4. DOMAIN knowndevs = 1 .. Len(knowndevs) /\ Len(knowndevs) \in Nat
  BY <1>1
<1>5. h[i] = a /\ DOMAIN h = DOMAIN knowndevs
  BY Zenon, <1>4
<1>6. k = [h EXCEPT ![i] = [h[i] EXCEPT !.vol = NoName]]
  BY Zenon DEF Unmounted
<1>7. k = [h EXCEPT ![i] = b]
  BY Zenon, <1>5, <1>6
<1> HIDE DEF a
<1>8. ~b.fs /\ b \in T
  BY Zenon, <1>3
<1> HIDE DEF b
<1>9. k[i] = b /\ \A j \in 1 .. Len(knowndevs) : j # i => k[j] = knowndevs[j]
  BY Zenon, <1>4, <1>5, <1>7
<1>10. Len(k) = Len(knowndevs)
  BY <1>1, <1>3, <1>7, <1>8
<1> QED
  BY Zenon, <1>8, <1>9, <1>10

(* A volume that refuses has a holder: the counts are exact, and neither the
   kernel nor the process that shuts down holds one of its vnodes. *)
LEMMA BusyHeld ==
  ASSUME VfsInv, vfsphase = "unmountall", NEW i \in 1 .. Len(knowndevs), knowndevs[i].raw # NoName,
         Busy(knowndevs[i].name)
  PROVE  \/ \E p \in Processes \ {shutter} : p_cwd[p][1] = knowndevs[i].name
         \/ \E v \in vn.lost : v[1] = knowndevs[i].name
<1>1. PICK x \in {"root", "dir", "file"} : vn.rc[<<knowndevs[i].name, x>>] > 0
  BY Zenon DEF Busy
<1> DEFINE v == <<knowndevs[i].name, x>>
           Who == {p \in Processes : p_cwd[p] = v}
<1>2. v \in Vnodes /\ Permanent(v) = 0 /\ v[1] = knowndevs[i].name
  BY Zenon, DevOf DEF VfsInv
<1>3. bootfs_vnode = NoVnode /\ p_cwd[shutter] = NoVnode /\ v # NoVnode
  BY Zenon, <1>2, Vnodes2 DEF VfsInv, DownInv
<1>4. vn.rc[v] = HeldBy[v] + (IF v \in vn.lost THEN 1 ELSE 0)
  BY Zenon, <1>2 DEF VfsInv, Counted
<1> HIDE DEF v
<1>5. HeldBy[v] = Permanent(v) + Cardinality(Who) + Is(v, bootfs_vnode) /\ Is(v, bootfs_vnode) = 0
  BY Zenon, <1>2, <1>3 DEF HeldBy, Count, Is
<1> SUFFICES ASSUME v \notin vn.lost PROVE \E p \in Processes \ {shutter} : p_cwd[p][1] = knowndevs[i].name
  BY Zenon, <1>2
<1>6. Cardinality(Who) \in Nat /\ IsFiniteSet(Who)
  BY Zenon, Cwds
<1>7. Who # {}
  <2>1. Cardinality(Who) > 0
    <3> HIDE DEF Who
    <3> QED
      BY <1>1, <1>2, <1>4, <1>5, <1>6 DEF v
  <2> QED
    BY <1>6, <2>1, FS_EmptySet
<1>8. PICK p \in Processes : p_cwd[p] = v
  BY Zenon, <1>7
<1>9. p # shutter
  BY Zenon, <1>3, <1>8
<1> QED
  BY Zenon, <1>2, <1>8, <1>9

LEMMA UnmountallStep ==
  ASSUME VfsInv, NEW ok \in BOOLEAN, vfs_unmountall(ok)
  PROVE  VfsInv'
<1> SUFFICES ASSUME NEW i, i = unmounting PROVE VfsInv'
  BY Zenon
<1> DEFINE kd == knowndevs[i]
<1>1. /\ vfsphase = "unmountall" /\ i \in Nat /\ i \in 1 .. Len(knowndevs) /\ unmounting' = i + 1
      /\ UNCHANGED <<attached, vn, p_cwd, bootfs_vnode, started, vfsphase, shutter>>
  <2>1. Len(knowndevs) \in Nat
    BY DEF VfsInv, DevsOK
  <2> QED
    BY <2>1 DEF vfs_unmountall, VfsInv, DownInv
<1>2. DownInv /\ DevsOK
  BY Zenon DEF VfsInv
<1>3. CASE knowndevs' = knowndevs
  <2>1. gaveup \subseteq gaveup'
    BY Zenon, <1>3 DEF vfs_unmountall
  <2>2. Reason(i)'
    <3>1. CASE kd.raw = NoName \/ ~kd.fs
      BY Zenon, <1>1, <1>3, <3>1 DEF Reason
    <3>2. CASE kd.raw # NoName /\ kd.fs /\ ~ok
      BY Zenon, <1>1, <1>3, <3>2 DEF Reason, vfs_unmountall
    <3>3. CASE kd.raw # NoName /\ kd.fs /\ ok /\ Busy(kd.name)
      BY Zenon, <1>1, <1>3, <3>3, BusyHeld DEF Reason
    <3>4. CASE kd.raw # NoName /\ kd.fs /\ ok /\ ~Busy(kd.name)
      <4>1. knowndevs' = Unmounted(i)
        BY Zenon, <3>4 DEF vfs_unmountall
      <4>2. ~knowndevs[i].fs
        BY Zenon, <1>1, <1>2, <1>3, <4>1, UnmountedDev
      <4> QED
        BY Zenon, <3>4, <4>2
    <3> QED
      BY Zenon, <3>1, <3>2, <3>3, <3>4
  <2>3. \A j \in 1 .. Len(knowndevs) : j < i => Reason(j)'
    BY Zenon, <1>1, <1>2, <1>3, <2>1 DEF Reason, DownInv
  <2>4. \A j \in 1 .. Len(knowndevs') : j < unmounting' => Reason(j)'
    BY <1>1, <1>3, <2>2, <2>3
  <2>5. DownInv'
    BY <1>1, <1>2, <1>3, <2>4 DEF DownInv
  <2>6. /\ Counted(vn', Count(p_cwd', bootfs_vnode')) /\ started' \subseteq Programs
        /\ \A p \in Programs \ started' : p_cwd'[p] = NoVnode
        /\ p_cwd' \in [Processes -> Vnodes \cup {NoVnode}]
        /\ \A p \in Processes : p_cwd'[p] = NoVnode \/ Start(p_cwd'[p])
        /\ bootfs_vnode' = NoVnode \/ Start(bootfs_vnode')
    BY Zenon, <1>1 DEF VfsInv, HeldBy
  <2> QED
    BY Zenon, <1>1, <1>3, <2>5, <2>6, SameDevs
<1>4. CASE knowndevs' # knowndevs
  <2>1. kd.raw # NoName /\ kd.fs /\ ~Busy(kd.name) /\ knowndevs' = Unmounted(i) /\ gaveup' = gaveup
    BY Zenon, <1>4 DEF vfs_unmountall
  <2>2. /\ Len(knowndevs') = Len(knowndevs) /\ ~knowndevs'[i].fs
        /\ \A j \in 1 .. Len(knowndevs) : j # i => knowndevs'[j] = knowndevs[j]
    BY <1>1, <1>2, <2>1, UnmountedDev
  <2>3. \A j \in 1 .. Len(knowndevs) : j < i => Reason(j)'
    BY <1>1, <1>2, <2>1, <2>2 DEF Reason, DownInv
  <2>4. Reason(i)'
    BY Zenon, <1>1, <2>2 DEF Reason
  <2>5. \A j \in 1 .. Len(knowndevs') : j < unmounting' => Reason(j)'
    BY <1>1, <2>2, <2>3, <2>4
  <2>6. DownInv'
    BY <1>1, <1>2, <2>5 DEF DownInv
  <2>7. knowndevs' = [knowndevs EXCEPT ![i].fs = FALSE, ![i].vol = NoName]
    BY Zenon, <2>1 DEF Unmounted
  <2> QED
    BY Zenon, <1>1, <2>1, <2>6, <2>7, Remount
<1> QED
  BY Zenon, <1>3, <1>4

LEMMA ShutdownStep ==
  ASSUME VfsInv, thread_shutdown \/ UNCHANGED vfsVars
  PROVE  VfsInv'
<1>1. UNCHANGED <<attached, knowndevs, vn, p_cwd, bootfs_vnode, started, shutter, unmounting, gaveup>>
  BY Zenon DEF thread_shutdown, vfsVars, down
<1>2. DownInv'
  BY Zenon, <1>1 DEF VfsInv, DownInv, Reason, thread_shutdown, vfsVars, down
<1>3. /\ Counted(vn', Count(p_cwd', bootfs_vnode')) /\ started' \subseteq Programs
      /\ \A p \in Programs \ started' : p_cwd'[p] = NoVnode
      /\ p_cwd' \in [Processes -> Vnodes \cup {NoVnode}]
      /\ \A p \in Processes : p_cwd'[p] = NoVnode \/ Start(p_cwd'[p])
      /\ bootfs_vnode' = NoVnode \/ Start(bootfs_vnode')
  BY Zenon, <1>1 DEF VfsInv, HeldBy
<1> QED
  BY Zenon, <1>1, <1>2, <1>3, SameDevs

(* A device appears: its vnodes were not there before. *)
LEMMA DoaddStep ==
  ASSUME VfsInv, vfs_doadd
  PROVE  VfsInv'
<1> DEFINE d == Attach[attached + 1]
           S == STRING \ {NoName}
           U == [name : S, raw : STRING, fs : BOOLEAN]
           T == [name : DevNames, raw : STRING, fs : BOOLEAN, vol : Volnames \cup {NoName}]
<1>1. /\ vfsphase = "run" /\ attached < Len(Attach) /\ attached' = attached + 1 /\ attached \in Nat
      /\ UNCHANGED <<p_cwd, bootfs_vnode, started, down>>
  BY Zenon DEF vfs_doadd, VfsInv
<1>2. DownInv'
  BY Zenon, <1>1, RunDown
<1>3. Attach \in Seq(U) /\ Len(Attach) \in Nat /\ attached + 1 \in 1 .. Len(Attach)
  <2>1. Attach \in Seq(U)
    BY Zenon, VfsAssumption
  <2> HIDE DEF U
  <2> QED
    BY <1>1, <2>1
<1>4. d \in U /\ d.name \in DevNames /\ (d.fs => d.raw = NoName)
  <2>1. d \in U
    <3> HIDE DEF U
    <3> QED
      BY <1>3
  <2>2. d.fs => d.raw = NoName
    BY Zenon, <1>3, VfsAssumption
  <2>3. d.name \in DevNames
    BY Zenon, <1>3 DEF DevNames
  <2> QED
    BY Zenon, <2>1, <2>2, <2>3
<1> HIDE DEF d
<1>5. CASE UNCHANGED <<knowndevs, vn>>
  <2>1. DevsOK' /\ HeldBy' = HeldBy
    BY Zenon, <1>1, <1>5 DEF VfsInv, DevsOK, HeldBy, Count, Permanent
  <2>2. Counted(vn, HeldBy)'
    BY Zenon, <1>5, <2>1 DEF VfsInv, Counted, Known
  <2> QED
    BY SMTT(30), <1>1, <1>2, <1>5, <2>1, <2>2 DEF VfsInv, Start, Mounted
<1>6. CASE ~UNCHANGED <<knowndevs, vn>>
  <2> DEFINE e == [name |-> d.name, raw |-> d.raw, fs |-> d.fs, vol |-> NoName]
             rc == [v \in Vnodes |->
                      IF v = <<d.name, "device">> \/ (d.fs /\ v = <<d.name, "root">>) THEN 1 ELSE vn.rc[v]]
             n == Len(knowndevs)
  <2>1. {d.name, d.raw} \cap InUse = {} /\ knowndevs' = Append(knowndevs, e) /\ vn' = [vn EXCEPT !.rc = rc]
    BY Zenon, <1>6 DEF vfs_doadd, d
  <2>2. e \in T /\ e.name = d.name /\ e.raw = d.raw /\ e.fs = d.fs
    BY Zenon, <1>4
  <2>3. knowndevs \in Seq(T) /\ DevsOK
    BY Zenon DEF VfsInv, DevsOK
  <2> HIDE DEF e, T
  <2>4. /\ n \in Nat /\ Len(knowndevs') = n + 1 /\ knowndevs' \in Seq(T)
        /\ \A j \in 1 .. n : knowndevs'[j] = knowndevs[j]
        /\ knowndevs'[n + 1] = e
    BY <2>1, <2>2, <2>3
  <2>5. \A j \in 1 .. n : knowndevs[j].name # d.name
    <3>1. \A j \in 1 .. n : knowndevs[j].name \in NamesOf(knowndevs[j])
      BY Zenon DEF NamesOf
    <3>2. d.name # NoName
      BY Zenon, <1>4
    <3> SUFFICES ASSUME NEW j \in 1 .. n, knowndevs[j].name = d.name PROVE FALSE
      BY Zenon
    <3>3. d.name \in InUse
      <4> DEFINE W == {NamesOf(knowndevs[i]) : i \in 1 .. Len(knowndevs)}
      <4>1. NamesOf(knowndevs[j]) \in W /\ d.name \in NamesOf(knowndevs[j])
        BY Zenon, <3>1
      <4>2. InUse = (UNION W) \ {NoName}
        BY Zenon DEF InUse
      <4> HIDE DEF W
      <4> QED
        BY Zenon, <3>2, <4>1, <4>2
    <3> QED
      BY Zenon, <2>1, <3>3
  <2>6. DevsOK'
    <3>1. \A j \in 1 .. Len(knowndevs') : j = n + 1 \/ (j \in 1 .. n /\ knowndevs'[j] = knowndevs[j])
      BY <2>4
    <3>2. \A j, k \in 1 .. Len(knowndevs') : knowndevs'[j].name = knowndevs'[k].name => j = k
      BY Zenon, <2>2, <2>3, <2>4, <2>5, <3>1 DEF DevsOK
    <3> QED
      BY Zenon, <2>4, <3>2 DEF DevsOK, T
  <2>7. \A v : /\ Known(v[1]) => Known(v[1])'
               /\ Mounted(v[1]) => Mounted(v[1])'
    <3>1. \A j \in 1 .. n : j \in 1 .. Len(knowndevs')
      BY <2>4
    <3> QED
      BY Zenon, <2>4, <3>1 DEF Known, Mounted
  <2>8. ASSUME NEW v \in Vnodes, v[1] = d.name
        PROVE  vn.rc[v] = 0 /\ HeldBy[v] = 0 /\ Permanent(v) = 0 /\ v \notin vn.lost
    <3>1. ~Known(v[1])
      BY Zenon, <2>5, <2>8 DEF Known
    <3>2. v \notin vn.lost /\ bootfs_vnode # v /\ \A p \in Processes : p_cwd[p] # v
      BY Zenon, <3>1, StartKnown, Vnodes2 DEF VfsInv, Counted
    <3>3. Permanent(v) = 0
      BY Zenon, <3>1 DEF Permanent, Known
    <3>4. {p \in Processes : p_cwd[p] = v} = {}
      BY Zenon, <3>2
    <3>5. HeldBy[v] = 0
      BY <3>2, <3>3, <3>4, FS_EmptySet DEF HeldBy, Count, Is
    <3> QED
      BY <3>2, <3>3, <3>5 DEF VfsInv, Counted
  <2>9. ASSUME NEW v \in Vnodes
        PROVE  Permanent(v)' = IF v = <<d.name, "device">> \/ (d.fs /\ v = <<d.name, "root">>)
                               THEN 1 ELSE Permanent(v)
    <3>1. v = <<v[1], v[2]>>
      BY DEF Vnodes
    <3>2. CASE v[1] = d.name
      <4>1. \A j \in 1 .. Len(knowndevs') : knowndevs'[j].name = v[1] => j = n + 1
        BY <2>4, <2>5, <3>2
      <4>2. n + 1 \in 1 .. Len(knowndevs') /\ knowndevs'[n + 1] = e
        BY <2>4
      <4>3. Permanent(v)' = IF v[2] = "device" \/ (v[2] = "root" /\ d.fs /\ d.raw = NoName) THEN 1 ELSE 0
        BY Zenon, <2>2, <3>2, <4>1, <4>2 DEF Permanent
      <4>4. Permanent(v) = 0
        BY Zenon, <2>8, <3>2
      <4> QED
        BY <1>4, <3>1, <3>2, <4>3, <4>4
    <3>3. CASE v[1] # d.name
      <4>1. \A j \in 1 .. Len(knowndevs') : knowndevs'[j].name = v[1] => j \in 1 .. n /\ knowndevs'[j] = knowndevs[j]
        BY <2>2, <2>4, <3>3
      <4>2. \A j \in 1 .. n : j \in 1 .. Len(knowndevs') /\ knowndevs'[j] = knowndevs[j]
        BY <2>4
      <4>3. Permanent(v)' = Permanent(v)
        BY Zenon, <4>1, <4>2 DEF Permanent
      <4> QED
        BY <3>3, <4>3
    <3> QED
      BY Zenon, <3>2, <3>3
  <2>10. \A v \in Vnodes : HeldBy'[v] = IF v = <<d.name, "device">> \/ (d.fs /\ v = <<d.name, "root">>)
                                      THEN 1 ELSE HeldBy[v]
    <3> SUFFICES ASSUME NEW v \in Vnodes
                 PROVE  HeldBy'[v] = IF v = <<d.name, "device">> \/ (d.fs /\ v = <<d.name, "root">>)
                                   THEN 1 ELSE HeldBy[v]
      BY Zenon
    <3> DEFINE Who == {p \in Processes : p_cwd[p] = v}
    <3>1. HeldBy[v] = Permanent(v) + Cardinality(Who) + Is(v, bootfs_vnode)
      BY Zenon DEF HeldBy, Count
    <3>2. HeldBy'[v] = Permanent(v)' + Cardinality(Who) + Is(v, bootfs_vnode)
      BY Zenon, <1>1 DEF HeldBy, Count, Is
    <3>3. Permanent(v) \in Nat /\ Cardinality(Who) \in Nat /\ Is(v, bootfs_vnode) \in Nat
      BY Zenon, Cwds DEF Permanent, Is
    <3> HIDE DEF Who
    <3>4. v = <<d.name, "device">> \/ (d.fs /\ v = <<d.name, "root">>) => HeldBy[v] = 0 /\ Permanent(v) = 0
      BY <2>8
    <3> QED
      BY <2>9, <3>1, <3>2, <3>3, <3>4
  <2>11. Counted(vn, HeldBy)'
    <3>1. vn \in VnState /\ ~vn.bad /\ HeldBy \in [Vnodes -> Nat]
      BY Zenon DEF VfsInv, Counted
    <3>2. HeldBy' \in [Vnodes -> Nat]
      <4>1. HeldBy' = [v \in Vnodes |-> HeldBy'[v]]
        BY Zenon DEF HeldBy, Count
      <4>2. \A v \in Vnodes : HeldBy'[v] \in Nat
        BY <2>10, <3>1
      <4> QED
        BY Zenon, <4>1, <4>2
    <3>3. vn' \in VnState /\ ~vn'.bad /\ vn'.lost = vn.lost /\ vn'.rc = rc
      BY Zenon, <2>1, <3>1 DEF VnState
    <3>4. ASSUME NEW v \in Vnodes PROVE vn'.rc[v] = HeldBy'[v] + (IF v \in vn'.lost THEN 1 ELSE 0)
      <4>1. vn.rc[v] = HeldBy[v] + (IF v \in vn.lost THEN 1 ELSE 0)
        BY Zenon DEF VfsInv, Counted
      <4>2. v = <<d.name, "device">> \/ (d.fs /\ v = <<d.name, "root">>) => v \notin vn.lost
        BY Zenon, <2>8
      <4> QED
        BY <2>10, <3>1, <3>3, <4>1, <4>2
    <3>5. \A v \in vn'.lost : Known(v[1])'
      BY Zenon, <2>7, <3>3 DEF VfsInv, Counted
    <3> QED
      BY Zenon, <3>2, <3>3, <3>4, <3>5 DEF Counted
  <2>12. /\ \A p \in Processes : p_cwd'[p] = NoVnode \/ Start(p_cwd[p])'
         /\ bootfs_vnode' = NoVnode \/ Start(bootfs_vnode)'
    BY Zenon, <1>1, <2>7 DEF VfsInv, Start, Mounted
  <2> QED
    BY <1>1, <1>2, <2>6, <2>11, <2>12 DEF VfsInv
<1> QED
  BY Zenon, <1>5, <1>6
-----------------------------------------------------------------------------
LEMMA InitVfs ==
  ASSUME VfsInit PROVE VfsInv
<1>1. /\ attached = 0 /\ knowndevs = <<>> /\ Len(knowndevs) = 0
      /\ vn = [rc |-> [v \in Vnodes |-> 0], lost |-> {}, bad |-> FALSE]
      /\ p_cwd = [p \in Processes |-> NoVnode] /\ bootfs_vnode = NoVnode
      /\ started = {} /\ vfsphase = "run" /\ shutter = "kproc" /\ unmounting = 1 /\ gaveup = {}
  BY Zenon DEF VfsInit
<1>2. DevsOK
  BY <1>1 DEF DevsOK
<1>3. DownInv
  BY <1>1 DEF DownInv, Processes
<1>4. ASSUME NEW v \in Vnodes PROVE HeldBy[v] = 0
  <2>1. Permanent(v) = 0
    BY <1>1 DEF Permanent
  <2>2. {p \in Processes : p_cwd[p] = v} = {} /\ Is(v, bootfs_vnode) = 0
    BY Zenon, <1>1, Vnodes2 DEF Is
  <2> QED
    BY <2>1, <2>2, FS_EmptySet DEF HeldBy, Count
<1>5. Counted(vn, HeldBy)
  <2>1. HeldBy \in [Vnodes -> Nat]
    BY Zenon, CountType DEF HeldBy
  <2>2. vn \in VnState /\ ~vn.bad /\ vn.lost = {} /\ vn.rc = [v \in Vnodes |-> 0]
    BY Zenon, <1>1 DEF VnState
  <2> QED
    BY <1>4, <2>1, <2>2 DEF Counted
<1>6. /\ attached \in Nat /\ p_cwd \in [Processes -> Vnodes \cup {NoVnode}] /\ started \subseteq Programs
      /\ \A p \in Processes : p_cwd[p] = NoVnode
      /\ \A p \in Programs \ started : p_cwd[p] = NoVnode
  BY Zenon, <1>1 DEF Processes
<1> QED
  BY Zenon, <1>1, <1>2, <1>3, <1>5, <1>6 DEF VfsInv

LEMMA VfsStep ==
  ASSUME VfsInv, [VfsNext]_vfsVars PROVE VfsInv'
<1>1. ASSUME NEW path \in Paths, NEW to \in {"dir", "file"}, NEW f \in VfsFaults, vfs_chdir(path, to, f)
      PROVE  VfsInv'
  BY Zenon, <1>1, ChdirStep
<1>2. ASSUME NEW name \in DevNames \cup Volnames, NEW f \in VfsFaults, vfs_setbootfs(name, f) PROVE VfsInv'
  BY Zenon, <1>2, SetbootfsStep
<1>3. ASSUME NEW p \in Programs, NEW forked \in BOOLEAN, NEW f \in VfsFaults,
             proc_create_runprogram(p, forked, f)
      PROVE  VfsInv'
  BY Zenon, <1>3, RunprogramStep
<1>4. ASSUME NEW name \in DevNames, NEW vol \in Volnames, vfs_mount(name, vol) PROVE VfsInv'
  BY Zenon, <1>4, MountStep
<1>5. ASSUME NEW name \in DevNames, vfs_unmount(name) PROVE VfsInv'
  BY Zenon, <1>5, UnmountStep
<1>6. ASSUME NEW q \in Processes, NEW f \in VfsFaults, vfs_clearbootfs(q, f) PROVE VfsInv'
  BY Zenon, <1>6, ClearbootfsStep
<1>7. ASSUME NEW f \in VfsFaults, vfs_clearcurdir(f) PROVE VfsInv'
  BY Zenon, <1>7, ClearcurdirStep
<1>8. ASSUME NEW ok \in BOOLEAN, vfs_unmountall(ok) PROVE VfsInv'
  BY Zenon, <1>8, UnmountallStep
<1>9. CASE vfs_doadd \/ vfs_getcwd \/ thread_shutdown \/ UNCHANGED vfsVars
  BY Zenon, <1>9, DoaddStep, GetcwdStep, ShutdownStep
<1> QED
  BY Zenon, <1>1, <1>2, <1>3, <1>4, <1>5, <1>6, <1>7, <1>8, <1>9 DEF VfsNext

LEMMA VfsInvHolds == VfsSpec => []VfsInv
<1> QED
  BY InitVfs, VfsStep, PTL DEF VfsSpec

(* The reference counts of vnode.c are exact, for any devices, volumes,
   programs and paths: through vfs_chdir, vfs_setbootfs, proc_create_runprogram,
   vfs_mount, vfs_unmount and shutdown, whatever fails on the way, so that no
   directory in use goes away and no assertion of the VFS layer fails. *)
THEOREM DirectoriesStayHeld == VfsSpec => []DirectoriesHeld
<1>1. ASSUME VfsInv PROVE DirectoriesHeld
  <2>1. ASSUME NEW v \in Vnodes PROVE vn.rc[v] = Permanent(v) + Holders(v)
    <3> DEFINE Who == {p \in Processes : p_cwd[p] = v}
    <3>1. vn.rc[v] = HeldBy[v] + (IF v \in vn.lost THEN 1 ELSE 0)
      BY Zenon, <1>1 DEF VfsInv, Counted
    <3>2. HeldBy[v] = Permanent(v) + Cardinality(Who) + Is(v, bootfs_vnode)
      BY Zenon DEF HeldBy, Count
    <3>3. Holders(v) = Cardinality(Who) + (IF bootfs_vnode = v THEN 1 ELSE 0) + (IF v \in vn.lost THEN 1 ELSE 0)
      BY Zenon DEF Holders
    <3>4. Permanent(v) \in Nat /\ Cardinality(Who) \in Nat
      BY Zenon, Cwds DEF Permanent
    <3> HIDE DEF Who
    <3> QED
      BY <3>1, <3>2, <3>3, <3>4 DEF Is
  <2>2. \A v \in ({p_cwd[p] : p \in Processes} \cup {bootfs_vnode}) \ {NoVnode} : Start(v)
    BY <1>1 DEF VfsInv
  <2>3. ~vn.bad
    BY Zenon, <1>1 DEF VfsInv, Counted
  <2> QED
    BY Zenon, <2>1, <2>2, <2>3 DEF DirectoriesHeld, Start, Mounted
<1> QED
  BY <1>1, VfsInvHolds, PTL

(* shutdown leaves a volume mounted only when it could not be written, or when
   another process or a failed reclaim has a directory in it: vfs_clearbootfs
   and vfs_clearcurdir let go of everything else before vfs_unmountall runs. *)
THEOREM ShutdownUnmountsAll == VfsSpec => []ShutdownUnmounts
<1>1. ASSUME VfsInv PROVE ShutdownUnmounts
  <2>1. vfsphase = "off" => unmounting > Len(knowndevs) /\ Len(knowndevs) \in Nat /\ unmounting \in Nat
    BY <1>1 DEF VfsInv, DownInv, DevsOK
  <2>2. vfsphase = "off" => \A i \in 1 .. Len(knowndevs) : Reason(i)
    BY <1>1, <2>1 DEF VfsInv, DownInv
  <2> QED
    BY Zenon, <2>2 DEF ShutdownUnmounts, Reason
<1> QED
  BY <1>1, VfsInvHolds, PTL
=============================================================================
