---------------------------- MODULE LockVmProofs ----------------------------
(***************************************************************************)
(* Two kinds of separation: threads by struct lock, and programs by their  *)
(* address spaces.                                                         *)
(*                                                                         *)
(* A sleep lock excludes for any number of threads.  The inductive         *)
(* invariant adds to MutualExclusion where holders can be: only a thread   *)
(* outside lock_acquire and not past the increment of lock_release holds   *)
(* the lock.                                                               *)
(***************************************************************************)
EXTENDS Lock, Vm, ThreadListProofs

(* lock_create establishes the invariant. *)
LEMMA InitIInv == LockInit => LockIInv
<1> SUFFICES ASSUME LockInit PROVE LockIInv
  BY Zenon
<1> USE LockAssumption DEF LockInit, S!Init, S!Actor, S!threadlist_init, threadlist_init
<1>1. LockTypeOK
  BY EmptyList DEF LockTypeOK, S!TypeOK, S!Locations
<1>2. MutualExclusion /\ HolderPc /\ Sleepers
  BY Zenon, EmptyList DEF MutualExclusion, HolderPc, Sleepers
<1> QED
  BY Zenon, <1>1, <1>2 DEF LockIInv

(* Steps of lock_acquire. *)
LEMMA AcquireStep ==
  ASSUME LockIInv, NEW t \in LockThread, lock_acquire(t) PROVE LockIInv'
<1> USE LockAssumption DEF LockIInv, S!Goto, S!Actor, S!threadlist_addtail, S!threadlist_isempty, S!threadlist_head,
        S!threadlist_remhead, threadlist_addtail, threadlist_head, threadlist_remhead
<1>0. LockTypeOK /\ lock_count \in 0..LockCountMax /\ lock_pc \in [LockThread -> S!Locations]
  BY Zenon DEF LockTypeOK, S!TypeOK
<1>1. CASE t \notin holder /\ S!P_enter(t) /\ UNCHANGED holder
  <2>1. LockTypeOK'
    BY Zenon, <1>0, <1>1 DEF LockTypeOK, S!TypeOK, S!Locations, S!P_enter
  <2> QED
    BY <1>0, <1>1, <2>1 DEF MutualExclusion, HolderPc, Sleepers, S!P_enter
<1>2. CASE S!P_acquire(t) /\ UNCHANGED holder
  <2>1. LockTypeOK'
    BY Zenon, <1>0, <1>2 DEF LockTypeOK, S!TypeOK, S!Locations, S!P_acquire, S!Acquire
  <2> QED
    BY <1>0, <1>2, <2>1 DEF MutualExclusion, HolderPc, Sleepers, S!P_acquire, S!Acquire
<1>3. CASE S!P_sleep(t) /\ UNCHANGED holder
  <2>1. t \notin Members(lock_wchan)
    BY Zenon, <1>3 DEF Sleepers, S!P_sleep
  <2>2. lock_wchan' = threadlist_addtail(lock_wchan, t)
    BY Zenon, <1>3 DEF S!P_sleep
  <2>3. /\ lock_wchan' \in Seq(LockThread) /\ NoDup(lock_wchan')
        /\ Members(lock_wchan') = Members(lock_wchan) \cup {t}
    BY <1>0, <2>1, <2>2, AddTail DEF LockTypeOK, S!TypeOK, Sleepers
  <2>4. LockTypeOK'
    BY Zenon, <1>0, <1>3, <2>3 DEF LockTypeOK, S!TypeOK, S!Locations, S!P_sleep
  <2>5. Sleepers'
    BY <1>0, <1>3, <2>3 DEF Sleepers, S!P_sleep
  <2> QED
    BY Zenon, <1>0, <1>3, <2>4, <2>5 DEF MutualExclusion, HolderPc, S!P_sleep
<1>4. CASE S!P_reacquire(t) /\ UNCHANGED holder
  <2>1. LockTypeOK'
    BY Zenon, <1>0, <1>4 DEF LockTypeOK, S!TypeOK, S!Locations, S!P_reacquire, S!Acquire
  <2> QED
    BY <1>0, <1>4, <2>1 DEF MutualExclusion, HolderPc, Sleepers, S!P_reacquire, S!Acquire
<1>5. CASE S!P_take(t) /\ holder' = holder \cup {t}
  <2>1. LockTypeOK'
    BY <1>0, <1>5 DEF LockTypeOK, S!TypeOK, S!Locations, S!P_take
  <2>2. holder = {} /\ lock_count' = 0 /\ holder' = {t}
    BY <1>0, <1>5 DEF MutualExclusion, S!P_take
  <2>3. MutualExclusion'
    BY Zenon, <1>0, <1>5, <2>2 DEF MutualExclusion, S!P_take
  <2>4. HolderPc' /\ Sleepers'
    BY <1>0, <1>5, <2>2 DEF HolderPc, Sleepers, S!P_take
  <2> QED
    BY Zenon, <2>1, <2>3, <2>4
<1> QED
  BY Zenon, <1>1, <1>2, <1>3, <1>4, <1>5 DEF lock_acquire

(* Steps of lock_release. *)
LEMMA ReleaseStep ==
  ASSUME LockIInv, NEW t \in LockThread, lock_release(t) PROVE LockIInv'
<1> USE LockAssumption DEF LockIInv, S!Goto, S!Actor, S!threadlist_addtail, S!threadlist_isempty, S!threadlist_head,
        S!threadlist_remhead, threadlist_addtail, threadlist_head, threadlist_remhead
<1>0. LockTypeOK /\ lock_count \in 0..LockCountMax /\ lock_pc \in [LockThread -> S!Locations]
  BY Zenon DEF LockTypeOK, S!TypeOK
<1>1. CASE t \in holder /\ S!V_enter(t) /\ UNCHANGED holder
  <2>1. LockTypeOK'
    BY Zenon, <1>0, <1>1 DEF LockTypeOK, S!TypeOK, S!Locations, S!V_enter
  <2> QED
    BY <1>0, <1>1, <2>1 DEF MutualExclusion, HolderPc, Sleepers, S!V_enter
<1>2. CASE S!V_acquire(t) /\ UNCHANGED holder
  <2>1. LockTypeOK'
    BY Zenon, <1>0, <1>2 DEF LockTypeOK, S!TypeOK, S!Locations, S!V_acquire, S!Acquire
  <2> QED
    BY <1>0, <1>2, <2>1 DEF MutualExclusion, HolderPc, Sleepers, S!V_acquire, S!Acquire
<1>3. CASE S!V_inc(t) /\ holder' = holder \ {t}
  <2>1. t \in holder /\ lock_count = 0 /\ holder' = {}
    BY Zenon, <1>0, <1>3 DEF MutualExclusion, HolderPc, Sleepers, S!V_inc
  <2>2. lock_count' = 1 /\ lock_pc' = [lock_pc EXCEPT ![t] = "V_wake"]
    <3>1. \A M \in Nat \ {0} : 1 % (M + 1) = 1
      OBVIOUS
    <3>2. (0 + 1) % (LockCountMax + 1) = 1
      BY <3>1
    <3>3. /\ lock_count' = (lock_count + 1) % (LockCountMax + 1)
          /\ lock_pc' = [lock_pc EXCEPT ![t] = IF lock_count' > 0 THEN "V_wake" ELSE "panic"]
      BY Zenon, <1>3 DEF S!V_inc
    <3>4. lock_count' = 1
      BY Zenon, <2>1, <3>2, <3>3
    <3>5. (IF lock_count' > 0 THEN "V_wake" ELSE "panic") = "V_wake"
      BY <3>4
    <3> QED
      BY Zenon, <3>3, <3>4, <3>5
  <2>3. LockTypeOK'
    BY <1>0, <1>3, <2>1, <2>2 DEF LockTypeOK, S!TypeOK, S!Locations, S!V_inc
  <2>4. MutualExclusion' /\ HolderPc' /\ Sleepers'
    BY <1>0, <1>3, <2>1, <2>2 DEF MutualExclusion, HolderPc, Sleepers, S!V_inc
  <2> QED
    BY Zenon, <2>3, <2>4
<1>4. CASE S!V_wake(t) /\ UNCHANGED holder
  <2>1. CASE lock_wchan = <<>>
    <3>1. LockTypeOK'
      BY Zenon, <1>0, <1>4, <2>1 DEF LockTypeOK, S!TypeOK, S!Locations, S!V_wake
    <3>2. lock_pc' = [lock_pc EXCEPT ![t] = "out"] /\ lock_pc[t] = "V_wake"
          /\ lock_wchan' = lock_wchan /\ lock_count' = lock_count
      BY Zenon, <1>4, <2>1 DEF S!V_wake
    <3>3. MutualExclusion' /\ HolderPc'
      BY Zenon, <1>0, <1>4, <3>2 DEF MutualExclusion, HolderPc
    <3>4. Sleepers'
      BY Zenon, <1>0, <2>1, <3>2, EmptyList DEF Sleepers, threadlist_init
    <3> QED
      BY Zenon, <3>1, <3>3, <3>4
  <2>2. CASE lock_wchan # <<>>
    <3> DEFINE h == threadlist_head(lock_wchan)
    <3>1. lock_wchan' = threadlist_remhead(lock_wchan) /\ lock_lock' = NOHOLDER
      BY Zenon, <1>4, <2>2 DEF S!V_wake
    <3>2. /\ lock_pc' = [lock_pc EXCEPT ![t] = "out", ![h] = "woken"] /\ lock_pc[t] = "V_wake"
          /\ lock_count' = lock_count
      BY Zenon, <1>4, <2>2 DEF S!V_wake
    <3>3. /\ h \in LockThread /\ h \in Members(lock_wchan) /\ h \notin Members(lock_wchan')
          /\ lock_wchan' \in Seq(LockThread) /\ NoDup(lock_wchan')
          /\ Members(lock_wchan) = Members(lock_wchan') \cup {h}
      BY Zenon, <1>0, <2>2, <3>1, RemHead DEF LockTypeOK, S!TypeOK, Sleepers
    <3> HIDE DEF h
    <3>4. LockTypeOK'
      BY Zenon, <1>0, <1>4, <3>1, <3>2, <3>3 DEF LockTypeOK, S!TypeOK, S!Locations
    <3>5. h # t /\ lock_pc[h] = "asleep"
      BY Zenon, <3>2, <3>3 DEF Sleepers
    <3>6. \A u \in LockThread : lock_pc'[u] = IF u = h THEN "woken" ELSE IF u = t THEN "out" ELSE lock_pc[u]
      BY Zenon, <1>0, <3>2, <3>3, <3>5
    <3>7. MutualExclusion'
      <4>1. \A u \in LockThread : lock_pc'[u] # "panic"
        BY Zenon, <3>6 DEF MutualExclusion
      <4>2. UNCHANGED <<holder, lock_count>>
        BY Zenon, <1>4, <3>2
      <4> QED
        BY Zenon, <4>1, <4>2 DEF MutualExclusion
    <3>8. HolderPc'
      BY Zenon, <1>4, <3>5, <3>3, <3>6 DEF HolderPc
    <3>9. Members(lock_wchan') \subseteq LockThread
      BY Zenon, <3>3, ListShape
    <3>10. Sleepers'
      BY Zenon, <3>2, <3>3, <3>6, <3>9 DEF Sleepers
    <3> QED
      BY Zenon, <3>4, <3>7, <3>8, <3>10
  <2> QED
    BY Zenon, <2>1, <2>2
<1> QED
  BY Zenon, <1>1, <1>2, <1>3, <1>4 DEF lock_release

(* The inductive invariant holds in every reachable state. *)
THEOREM Invariance == LockSpec => []LockIInv
<1>1. LockIInv /\ [LockNext]_lockVars => LockIInv'
  <2> SUFFICES ASSUME LockIInv, [LockNext]_lockVars PROVE LockIInv'
    BY Zenon
  <2>1. CASE UNCHANGED lockVars
    BY Zenon, <2>1 DEF lockVars, LockIInv, LockTypeOK, S!TypeOK, S!Actor, MutualExclusion, HolderPc, Sleepers
  <2> QED
    BY Zenon, <2>1, AcquireStep, ReleaseStep DEF LockNext
<1> QED
  BY InitIInv, <1>1, PTL DEF LockSpec

(* At most one thread is between lock_acquire and lock_release, and lock_count
   tells whether one is, for any number of threads. *)
THEOREM Exclusion == LockSpec => []MutualExclusion
<1>1. LockIInv => MutualExclusion
  BY Zenon DEF LockIInv
<1> QED
  BY Invariance, <1>1, PTL

-----------------------------------------------------------------------------
(***************************************************************************)
(* Programs are isolated, for any number of them, any size of memory, of   *)
(* page and of TLB, and any executables in user space: pages and frames,   *)
(* then one lemma for each action of Vm.                                   *)
(***************************************************************************)
\* Integer division by a page.
LEMMA DivPage ==
    ASSUME NEW x \in Nat
    PROVE  /\ x \div VM_PAGE \in Nat /\ x % VM_PAGE \in 0 .. VM_PAGE - 1
           /\ x = VM_PAGE * (x \div VM_PAGE) + (x % VM_PAGE)
  BY VmAssumption

\* A product is at least its factor, and smaller for the smaller factor.
LEMMA MulPage ==
    ASSUME NEW x \in Int, NEW y \in Int, x < y
    PROVE  VM_PAGE * x + VM_PAGE <= VM_PAGE * y
<1>1. y - x - 1 \in Nat
  OBVIOUS
<1>2. VM_PAGE * (y - x - 1) >= 0
  BY <1>1, VmAssumption
<1>3. VM_PAGE * (y - x - 1) = VM_PAGE * y - VM_PAGE * x - VM_PAGE
  BY VmAssumption
<1> QED
  BY <1>2, <1>3, VmAssumption

\* A number below the modulus is its own residue.
LEMMA SmallMod ==
    ASSUME NEW x \in Nat, NEW y \in Nat, x < y
    PROVE  x % y = x
  OBVIOUS

\* A segment's region lies in user space, so that no sum wraps; it holds every
\* byte of the segment.
LEMMA RegionHolds ==
    ASSUME NEW seg \in [vaddr : Nat, memsz : Nat], seg.vaddr + seg.memsz <= VM_PAGE * USERSTACK
    PROVE  /\ RegionBase(seg) \in Nat /\ RegionPages(seg) \in 0 .. USERSTACK
           /\ seg.vaddr >= VM_PAGE => RegionBase(seg) # 0
           /\ seg.memsz > 0 => RegionPages(seg) # 0
           /\ \A b \in seg.vaddr .. seg.vaddr + seg.memsz - 1 :
                InRegion(b \div VM_PAGE, RegionBase(seg), RegionPages(seg))
<1> DEFINE v == seg.vaddr  m == seg.memsz  r == v % VM_PAGE  B == v \div VM_PAGE
           n == m + r + VM_PAGE - 1  P == n \div VM_PAGE
<1>1. v \in Nat /\ m \in Nat /\ VM_PAGE \in Nat \ {0} /\ v + m <= VM_PAGE * USERSTACK
  BY Zenon, VmAssumption
<1>a. /\ USERSTACK \in Nat /\ WORDFRAMES \in Nat /\ USERSTACK < WORDFRAMES
      /\ VM_PAGE * USERSTACK \in Nat /\ VM_PAGE * WORDFRAMES \in Nat
  BY VmAssumption
<1> HIDE DEF v, m
<1>2. B \in Nat /\ r \in 0 .. VM_PAGE - 1 /\ v = VM_PAGE * B + r
  BY Zenon, <1>1, DivPage
<1>3. n \in Nat
  BY <1>1, <1>2
<1>4. P \in Nat /\ n % VM_PAGE \in 0 .. VM_PAGE - 1 /\ n = VM_PAGE * P + (n % VM_PAGE)
  BY Zenon, <1>3, DivPage
<1>b. n = m + r + VM_PAGE - 1
  BY Zenon
<1> HIDE DEF r, B, n, P
<1>f. VM_PAGE * B \in Nat /\ VM_PAGE * P \in Nat /\ n <= v + m + VM_PAGE - 1 /\ VM_PAGE * B + n = v + m + VM_PAGE - 1
  BY <1>1, <1>2, <1>3, <1>4, <1>b
<1>c. n % (VM_PAGE * WORDFRAMES) = n
  <2>1. VM_PAGE * USERSTACK + VM_PAGE <= VM_PAGE * WORDFRAMES
    BY <1>a, MulPage
  <2>2. n < VM_PAGE * WORDFRAMES
    BY <1>1, <1>3, <1>a, <1>f, <2>1
  <2> QED
    BY Zenon, <1>3, <1>a, <2>2, SmallMod
<1>d. B + P <= USERSTACK
  <2> SUFFICES ASSUME USERSTACK < B + P PROVE FALSE
    BY <1>2, <1>4, <1>a
  <2>1. VM_PAGE * USERSTACK + VM_PAGE <= VM_PAGE * (B + P)
    BY <1>2, <1>4, <1>a, MulPage
  <2>2. VM_PAGE * (B + P) = VM_PAGE * B + VM_PAGE * P
    BY <1>1, <1>2, <1>4
  <2> QED
    BY <1>1, <1>3, <1>4, <1>a, <1>f, <2>1, <2>2
<1>e. (B + P) % WORDFRAMES = B + P
  <2>1. B + P \in Nat /\ B + P < WORDFRAMES
    BY <1>2, <1>4, <1>a, <1>d
  <2> QED
    BY Zenon, <1>a, <2>1, SmallMod
<1>5. v >= VM_PAGE => B # 0
  BY <1>1, <1>2
<1>6. VM_PAGE * P >= m + r
  BY <1>1, <1>2, <1>3, <1>4 DEF n
<1>7. m > 0 => P # 0
  BY <1>1, <1>2, <1>4, <1>6
<1>8. ASSUME NEW b \in v .. v + m - 1
      PROVE  b \div VM_PAGE >= B /\ b \div VM_PAGE < B + P
  <2> DEFINE d == b \div VM_PAGE  s == b % VM_PAGE
  <2>1. b \in Nat
    BY <1>1
  <2>2. d \in Nat /\ s \in 0 .. VM_PAGE - 1 /\ b = VM_PAGE * d + s
    BY Zenon, <2>1, DivPage
  <2> HIDE DEF d, s
  <2>3. ~(d < B)
    <3> SUFFICES ASSUME d < B PROVE FALSE
      BY Zenon
    <3>1. VM_PAGE * d + VM_PAGE <= VM_PAGE * B
      BY <1>2, <2>2, MulPage
    <3> QED
      BY <1>1, <1>2, <2>1, <2>2, <3>1
  <2>4. ~(d >= B + P)
    <3> SUFFICES ASSUME d >= B + P PROVE FALSE
      BY Zenon
    <3>1. B + P - 1 < d
      BY <1>2, <1>4, <2>2
    <3>2. VM_PAGE * (B + P - 1) + VM_PAGE <= VM_PAGE * d
      BY <1>2, <1>4, <2>2, <3>1, MulPage
    <3>3. VM_PAGE * (B + P - 1) + VM_PAGE = VM_PAGE * B + VM_PAGE * P
      BY <1>1, <1>2, <1>4
    <3>4. VM_PAGE * d >= VM_PAGE * B + m + r
      BY <1>1, <1>2, <1>4, <1>6, <2>2, <3>2, <3>3
    <3> QED
      BY <1>1, <1>2, <2>1, <2>2, <3>4
  <2>5. d >= B /\ d < B + P
    BY <1>2, <1>4, <2>2, <2>3, <2>4
  <2> QED
    BY Zenon, <2>5 DEF d
<1>9. RegionBase(seg) = B /\ RegionPages(seg) = P
  BY Zenon, <1>c DEF RegionBase, RegionPages, B, P, n, r, v, m
<1>10. P \in 0 .. USERSTACK
  BY <1>2, <1>4, <1>a, <1>d
<1> QED
  BY Zenon, <1>2, <1>5, <1>7, <1>8, <1>9, <1>10, <1>e DEF InRegion, v, m
-----------------------------------------------------------------------------
VmTypes ==
    /\ as \in [Progs -> AsType]
    /\ vcur \in [VmCpus -> VmThreads \cup {VmIdle}] /\ tlb = [c \in VmCpus |-> tlb[c]]
    /\ prog = [t \in VmThreads |-> prog[t]]

\* The frames below a mark, and those up to a later one.
LEMMA Ranges ==
    ASSUME NEW f \in Nat \ {0}, NEW g \in Nat, f <= g
    PROVE  /\ \A x \in 1 .. f - 1 : x \in 1 .. g - 1 /\ x \notin f .. g - 1
           /\ \A x \in f .. g - 1 : x \in 1 .. g - 1
  OBVIOUS

\* The TLB of a CPU whose thread and whose entries a step leaves alone.
LEMMA TlbFrame ==
    ASSUME NEW c \in VmCpus, TlbOK(c), vcur'[c] = vcur[c], tlb'[c] = tlb[c],
           vcur[c] \in Progs => prog'[vcur[c]] = prog[vcur[c]] /\ as'[vcur[c]] = as[vcur[c]]
    PROVE  TlbOK(c)'
  BY Zenon DEF TlbOK, Translate, Frames

\* The mark of the frames taken lies in memory.
LEMMA Marks ==
    ASSUME VmIInv
    PROVE  /\ firstframe \in Nat \ {0} /\ lastframe \in Nat /\ firstframe <= lastframe
           /\ firstframe \in firstframe .. lastframe
  BY VmAssumption DEF VmIInv

\* A step that changes one program's thread and memory: what it must keep.
LEMMA OneProg ==
    ASSUME VmIInv, NEW t \in Progs, VmTypes', ~vmbad',
           firstframe' \in firstframe .. lastframe,
           \A u \in Progs \ {t} : prog'[u] = prog[u] /\ as'[u] = as[u] /\ (u \in hasas' <=> u \in hasas),
           ProgType(prog'[t]), AsOK(t)',
           Frames(as'[t]) \subseteq Frames(as[t]) \cup (firstframe .. firstframe' - 1),
           \A c, d \in VmCpus : vcur'[c] = vcur'[d] /\ vcur'[c] # VmIdle => c = d,
           \A c \in VmCpus : TlbOK(c)'
    PROVE  VmIInv'
<1>1. \A u \in Progs \ {t} : AsOK(u)'
  <2> SUFFICES ASSUME NEW u \in Progs \ {t} PROVE AsOK(u)'
    BY Zenon
  <2>1. prog'[u] = prog[u] /\ as'[u] = as[u] /\ (u \in hasas' <=> u \in hasas) /\ AsOK(u)
    BY Zenon DEF VmIInv
  <2> QED
    BY Zenon, <2>1 DEF AsOK
<1>2. \A u \in Progs : ProgType(prog'[u]) /\ AsOK(u)'
  BY Zenon, <1>1 DEF VmIInv
<1>3. \A u \in Progs : Frames(as[u]) \subseteq 1 .. firstframe - 1
  BY Zenon DEF VmIInv
<1>4. /\ firstframe \in Nat \ {0} /\ firstframe' \in Nat \ {0} /\ firstframe <= firstframe'
      /\ firstframe' \in 1 .. lastframe
  BY Marks
<1>5. \A u \in Progs : Frames(as'[u]) \subseteq 1 .. firstframe' - 1
  <2>1. \A x \in 1 .. firstframe - 1 : x \in 1 .. firstframe' - 1
    BY Zenon, <1>4, Ranges
  <2>2. \A x \in firstframe .. firstframe' - 1 : x \in 1 .. firstframe' - 1
    BY Zenon, <1>4, Ranges
  <2>3. Frames(as'[t]) \subseteq 1 .. firstframe' - 1
    BY Zenon, <1>3, <2>1, <2>2
  <2>4. \A u \in Progs \ {t} : Frames(as'[u]) \subseteq 1 .. firstframe' - 1
    BY Zenon, <1>3, <2>1
  <2> QED
    BY Zenon, <2>3, <2>4
<1>6. \A u \in Progs \ {t} : Frames(as'[t]) \cap Frames(as'[u]) = {}
  <2> SUFFICES ASSUME NEW u \in Progs \ {t} PROVE Frames(as'[t]) \cap Frames(as[u]) = {}
    BY Zenon
  <2>1. Frames(as[t]) \cap Frames(as[u]) = {}
    BY Zenon DEF VmIInv
  <2>2. \A x \in 1 .. firstframe - 1 : x \notin firstframe .. firstframe' - 1
    BY Zenon, <1>4, Ranges
  <2> QED
    BY Zenon, <1>3, <2>1, <2>2
<1>7. \A p, q \in Progs : p # q => Frames(as'[p]) \cap Frames(as'[q]) = {}
  <2> SUFFICES ASSUME NEW p \in Progs, NEW q \in Progs, p # q
               PROVE  Frames(as'[p]) \cap Frames(as'[q]) = {}
    BY Zenon
  <2>1. p # t /\ q # t => Frames(as[p]) \cap Frames(as[q]) = {}
    BY Zenon DEF VmIInv
  <2> QED
    BY Zenon, <1>6, <2>1
<1> QED
  BY Zenon, <1>2, <1>4, <1>5, <1>7 DEF VmIInv, VmTypes

\* The same, for a step of the program's own thread on its CPU.
LEMMA OwnStep ==
    ASSUME VmIInv, NEW c \in VmCpus, NEW t \in Progs, vcur[c] = t,
           VmTypes', ~vmbad', vcur' = vcur, hasas \subseteq hasas', hasas' \subseteq hasas \cup {t},
           firstframe' \in firstframe .. lastframe,
           \A u \in VmThreads \ {t} : prog'[u] = prog[u],
           \A u \in Progs \ {t} : as'[u] = as[u],
           \A d \in VmCpus \ {c} : tlb'[d] = tlb[d],
           ProgType(prog'[t]), AsOK(t)', TlbOK(c)',
           Frames(as'[t]) \subseteq Frames(as[t]) \cup (firstframe .. firstframe' - 1)
    PROVE  VmIInv'
<1>1. \A d \in VmCpus \ {c} : vcur[d] # t
  BY Zenon, VmAssumption DEF VmIInv, VmIdle
<1>2. \A d \in VmCpus : TlbOK(d)'
  BY Zenon, <1>1, TlbFrame DEF VmIInv, VmThreads
<1>3. \A b, d \in VmCpus : vcur'[b] = vcur'[d] /\ vcur'[b] # VmIdle => b = d
  BY Zenon DEF VmIInv
<1> QED
  BY Zenon, <1>2, <1>3, OneProg DEF VmThreads
-----------------------------------------------------------------------------
\* A step that leaves the programs and their memory alone.
LEMMA NoProg ==
    ASSUME VmIInv, VmTypes', UNCHANGED <<firstframe, hasas, as, vmbad>>,
           \A u \in Progs : prog'[u] = prog[u],
           \A c, d \in VmCpus : vcur'[c] = vcur'[d] /\ vcur'[c] # VmIdle => c = d,
           \A c \in VmCpus : TlbOK(c)'
    PROVE  VmIInv'
<1>1. ASSUME NEW u \in Progs PROVE ProgType(prog'[u]) /\ AsOK(u)'
  <2>1. prog'[u] = prog[u] /\ AsOK(u) /\ ProgType(prog[u])
    BY Zenon DEF VmIInv
  <2> QED
    BY Zenon, <2>1 DEF AsOK
<1>2. /\ \A p \in Progs : Frames(as'[p]) \subseteq 1 .. firstframe' - 1
      /\ \A p, q \in Progs : p # q => Frames(as'[p]) \cap Frames(as'[q]) = {}
  BY Zenon DEF VmIInv
<1>3. firstframe' \in 1 .. lastframe /\ ~vmbad'
  BY Zenon DEF VmIInv
<1> QED
  BY Zenon, <1>1, <1>2, <1>3 DEF VmIInv, VmTypes

\* A kernel thread exits.
LEMMA StrayStep ==
    ASSUME VmIInv, stray_exit
    PROVE  VmIInv'
<1>1. VmTypes' /\ \A c, d \in VmCpus : vcur'[c] = vcur'[d] /\ vcur'[c] # VmIdle => c = d
  BY Zenon DEF VmIInv, VmTypes, stray_exit
<1>2. \A c \in VmCpus : TlbOK(c)'
  BY Zenon, TlbFrame DEF VmIInv, stray_exit
<1> QED
  BY Zenon, <1>1, <1>2, NoProg DEF stray_exit

\* The menu's wait ends.
LEMMA WaitStep ==
    ASSUME VmIInv, NEW c \in VmCpus, thread_wait_for_count(c)
    PROVE  VmIInv'
<1>1. \A u \in Progs : prog'[u] = prog[u]
  BY Zenon, VmAssumption DEF VmIInv, thread_wait_for_count, VmThreads
<1>2. VmTypes' /\ \A b, d \in VmCpus : vcur'[b] = vcur'[d] /\ vcur'[b] # VmIdle => b = d
  BY Zenon DEF VmIInv, VmTypes, thread_wait_for_count
<1>3. \A d \in VmCpus : TlbOK(d)'
  BY Zenon, <1>1, TlbFrame DEF VmIInv, thread_wait_for_count
<1> QED
  BY Zenon, <1>1, <1>2, <1>3, NoProg DEF thread_wait_for_count

\* A CPU turns to another thread: as_activate empties its TLB if the thread
\* has an address space, and a thread without one has no entries to trust.
LEMMA SwitchStep ==
    ASSUME VmIInv, NEW c \in VmCpus, NEW next \in VmThreads, vm_switch(c, next)
    PROVE  VmIInv'
<1>1. vcur'[c] = next /\ \A d \in VmCpus \ {c} : vcur'[d] = vcur[d] /\ vcur[d] # next
  BY Zenon DEF VmIInv, vm_switch
<1>2. \A d \in VmCpus \ {c} : tlb'[d] = tlb[d]
  BY Zenon DEF VmIInv, vm_switch, SwitchActivate, as_activate
<1>3. next \in hasas => tlb'[c] = {}
  BY Zenon DEF VmIInv, vm_switch, SwitchActivate, as_activate
<1>4. VmTypes'
  BY Zenon DEF VmIInv, VmTypes, vm_switch, SwitchActivate, as_activate
<1>5. \A b, d \in VmCpus : vcur'[b] = vcur'[d] /\ vcur'[b] # VmIdle => b = d
  BY Zenon, <1>1 DEF VmIInv
<1>6. next \in Progs /\ prog[next].at \in {"define", "prepare"} \cup Loaded => next \in hasas
  BY Zenon DEF VmIInv, AsOK
<1>7. TlbOK(c)'
  BY Zenon, <1>1, <1>3, <1>6 DEF TlbOK, vm_switch, Loaded
<1>8. \A d \in VmCpus \ {c} : TlbOK(d)'
  BY Zenon, <1>1, <1>2, TlbFrame DEF VmIInv, vm_switch
<1> QED
  BY Zenon, <1>4, <1>5, <1>7, <1>8, NoProg DEF vm_switch

\* The menu starts a program.
LEMMA ProgStep ==
    ASSUME VmIInv, NEW c \in VmCpus, NEW t \in Progs, NEW img \in Images, common_prog(c, t, img)
    PROVE  VmIInv'
<1>1. \A u \in Progs \ {t} : prog'[u] = prog[u]
  BY Zenon, VmAssumption DEF VmIInv, common_prog, VmThreads
<1>2. ProgType(prog[t]) /\ AsOK(t) /\ prog[t].at = "none" /\ t # Menu /\ t \in VmThreads
  BY Zenon, VmAssumption DEF VmIInv, common_prog, VmThreads
<1>3. prog[t] = [at |-> "none"]
  BY Zenon, <1>2 DEF ProgType
<1>4. prog'[t] = [at |-> "new", img |-> img] \/ prog'[t] = [at |-> "gone"]
  BY <1>2, <1>3 DEF VmIInv, common_prog
<1>5. ProgType(prog'[t]) /\ prog'[t].at \in {"new", "gone"}
  BY <1>4 DEF ProgType
<1>6. AsOK(t)'
  <2>1. t \notin hasas /\ as[t] = as_create /\ UNCHANGED <<hasas, as>>
    BY Zenon, <1>2 DEF AsOK, common_prog
  <2> QED
    BY Zenon, <1>5, <2>1 DEF AsOK, Loaded
<1>7. VmTypes'
  BY Zenon DEF VmIInv, VmTypes, common_prog
<1>8. \A d \in VmCpus : TlbOK(d)'
  <2> SUFFICES ASSUME NEW d \in VmCpus PROVE TlbOK(d)'
    BY Zenon
  <2>1. CASE vcur[d] = t
    BY Zenon, <1>5, <2>1 DEF TlbOK, common_prog, Loaded
  <2>2. CASE vcur[d] # t
    BY Zenon, <1>1, <2>2, TlbFrame DEF VmIInv, common_prog
  <2> QED
    BY Zenon, <2>1, <2>2
<1>9. firstframe' \in firstframe .. lastframe
  BY Marks DEF common_prog
<1>10. ~vmbad' /\ \A b, d \in VmCpus : vcur'[b] = vcur'[d] /\ vcur'[b] # VmIdle => b = d
  BY Zenon DEF VmIInv, common_prog
<1>11. Frames(as'[t]) \subseteq Frames(as[t]) \cup (firstframe .. firstframe' - 1)
  BY Zenon DEF common_prog
<1> QED
  BY Zenon, <1>1, <1>5, <1>6, <1>7, <1>8, <1>9, <1>10, <1>11, OneProg DEF common_prog
-----------------------------------------------------------------------------
\* The record of a thread is replaced.
LEMMA ProgSet ==
    ASSUME VmIInv, NEW t \in Progs, NEW r, prog' = [prog EXCEPT ![t] = r]
    PROVE  /\ prog'[t] = r /\ prog' = [u \in VmThreads |-> prog'[u]]
           /\ \A u \in VmThreads \ {t} : prog'[u] = prog[u]
  BY Zenon DEF VmIInv, VmThreads

\* The address space of a program is replaced.
LEMMA AsSet ==
    ASSUME VmIInv, NEW t \in Progs, NEW a \in AsType, as' = [as EXCEPT ![t] = a]
    PROVE  as'[t] = a /\ as' \in [Progs -> AsType] /\ \A u \in Progs \ {t} : as'[u] = as[u]
  BY Zenon DEF VmIInv

\* A load fails: no property speaks of the thread until it exits.
LEMMA FailStep ==
    ASSUME VmIInv, NEW c \in VmCpus, NEW t \in Progs, vcur[c] = t, NEW r \in [at : {"fail", "panic"}],
           prog' = [prog EXCEPT ![t] = r], ~vmbad', UNCHANGED <<firstframe, hasas, as, vcur, tlb>>
    PROVE  VmIInv'
<1>1. prog'[t] = r /\ prog' = [u \in VmThreads |-> prog'[u]]
      /\ \A u \in VmThreads \ {t} : prog'[u] = prog[u]
  BY Zenon, ProgSet
<1>2. ProgType(prog'[t]) /\ prog'[t].at \in {"fail", "panic"}
  BY Zenon, <1>1 DEF ProgType
<1>3. AsOK(t)'
  BY Zenon, <1>2 DEF AsOK, Loaded
<1>4. TlbOK(c)'
  BY Zenon, <1>2 DEF TlbOK, Loaded
<1>5. VmTypes' /\ firstframe' \in firstframe .. lastframe
  BY Zenon, <1>1, Marks DEF VmIInv, VmTypes
<1>6. Frames(as'[t]) \subseteq Frames(as[t]) \cup (firstframe .. firstframe' - 1)
  BY Zenon
<1>7. /\ hasas \subseteq hasas' /\ hasas' \subseteq hasas \cup {t} /\ vcur' = vcur
      /\ \A u \in Progs \ {t} : as'[u] = as[u]
      /\ \A d \in VmCpus \ {c} : tlb'[d] = tlb[d]
  BY Zenon
<1> QED
  BY Zenon, <1>1, <1>2, <1>3, <1>4, <1>5, <1>6, <1>7, OwnStep

\* runprogram gives the process its address space, an empty one.
LEMMA RunprogramStep ==
    ASSUME VmIInv, NEW c \in VmCpus, runprogram(c)
    PROVE  VmIInv'
<1> DEFINE t == vcur[c]
<1>1. t \in Progs /\ prog[t].at = "new" /\ ProgType(prog[t]) /\ AsOK(t)
  BY Zenon DEF VmIInv, runprogram
<1>2. t \notin hasas /\ ~vmbad' /\ as[t] = as_create
  BY Zenon, <1>1 DEF AsOK, runprogram, VmIInv
<1>3. CASE prog' = [prog EXCEPT ![t] = [at |-> "fail"]] /\ UNCHANGED <<hasas, as>>
  <2>1. [at |-> "fail"] \in [at : {"fail", "panic"}]
    BY Zenon
  <2> QED
    BY Zenon, <1>1, <1>2, <1>3, <2>1, FailStep DEF runprogram
<1>4. CASE /\ hasas' = hasas \cup {t} /\ as' = [as EXCEPT ![t] = as_create]
           /\ prog' = [prog EXCEPT ![t].at = "setas"]
  <2>1. prog[t] = [at |-> "new", img |-> prog[t].img] /\ prog[t].img \in Images
    BY Zenon, <1>1 DEF ProgType
  <2>2. prog' = [prog EXCEPT ![t] = [at |-> "setas", img |-> prog[t].img]]
    <3>1. [prog[t] EXCEPT !.at = "setas"] = [at |-> "setas", img |-> prog[t].img]
      BY <2>1
    <3> QED
      BY Zenon, <1>4, <3>1
  <2>3. /\ prog'[t] = [at |-> "setas", img |-> prog[t].img] /\ prog' = [u \in VmThreads |-> prog'[u]]
        /\ \A u \in VmThreads \ {t} : prog'[u] = prog[u]
    BY Zenon, <1>1, <2>2, ProgSet
  <2>4. as' = as
    BY Zenon, <1>1, <1>2, <1>4 DEF VmIInv
  <2>5. ProgType(prog'[t]) /\ prog'[t].at = "setas"
    BY <2>1, <2>3 DEF ProgType
  <2>6. AsOK(t)'
    BY Zenon, <1>1, <1>2, <1>4, <2>4, <2>5 DEF AsOK, Loaded, runprogram
  <2>7. TlbOK(c)'
    BY Zenon, <2>5 DEF TlbOK, Loaded, runprogram
  <2>8. VmTypes' /\ firstframe' \in firstframe .. lastframe /\ UNCHANGED <<vcur, tlb>>
    BY Zenon, <2>3, <2>4, Marks DEF VmIInv, VmTypes, runprogram
  <2>9. Frames(as'[t]) \subseteq Frames(as[t]) \cup (firstframe .. firstframe' - 1)
    BY Zenon, <2>4
  <2>10. /\ hasas \subseteq hasas' /\ hasas' \subseteq hasas \cup {t}
         /\ \A u \in Progs \ {t} : as'[u] = as[u]
         /\ \A d \in VmCpus \ {c} : tlb'[d] = tlb[d]
    BY Zenon, <1>4, <2>4, <2>8
  <2> QED
    BY Zenon, <1>1, <1>2, <2>3, <2>5, <2>6, <2>7, <2>8, <2>9, <2>10, OwnStep
<1> QED
  BY Zenon, <1>3, <1>4 DEF runprogram

\* as_activate on the way to load_elf: from here on the TLB is the program's.
LEMMA ActivateStep ==
    ASSUME VmIInv, NEW c \in VmCpus, runprogram_activate(c)
    PROVE  VmIInv'
<1> DEFINE t == vcur[c]
<1>1. t \in Progs /\ prog[t].at = "setas" /\ ProgType(prog[t]) /\ AsOK(t)
  BY Zenon DEF VmIInv, runprogram_activate
<1>2. t \in hasas /\ as[t] = as_create /\ prog[t].img \in Images
  BY Zenon, <1>1 DEF AsOK, ProgType
<1>3. prog' = [prog EXCEPT ![t] = [at |-> "define", img |-> prog[t].img, k |-> 1]]
  BY Zenon DEF runprogram_activate
<1>4. /\ prog'[t] = [at |-> "define", img |-> prog[t].img, k |-> 1] /\ prog' = [u \in VmThreads |-> prog'[u]]
      /\ \A u \in VmThreads \ {t} : prog'[u] = prog[u]
  BY Zenon, <1>1, <1>3, ProgSet
<1>5. ProgType(prog'[t]) /\ prog'[t].at = "define" /\ prog'[t].k = 1
  BY <1>2, <1>4 DEF ProgType
<1>6. tlb'[c] = {} /\ tlb' = [d \in VmCpus |-> tlb'[d]] /\ \A d \in VmCpus \ {c} : tlb'[d] = tlb[d]
  BY Zenon, <1>2 DEF VmIInv, runprogram_activate, as_activate
<1>7. AsOK(t)' /\ TlbOK(c)'
  <2>1. as'[t] = as_create /\ hasas' = hasas /\ vcur' = vcur
    BY Zenon, <1>2 DEF runprogram_activate
  <2>2. RegionsOf(as_create, prog'[t].img, prog'[t].k - 1)
    BY <1>5 DEF RegionsOf, as_create
  <2>3. as_create.pbase1 = 0 /\ as_create.pbase2 = 0 /\ as_create.stackpbase = 0
    BY Zenon DEF as_create
  <2> QED
    BY Zenon, <1>2, <1>5, <1>6, <2>1, <2>2, <2>3 DEF AsOK, TlbOK, Loaded
<1>8. VmTypes' /\ ~vmbad' /\ firstframe' \in firstframe .. lastframe
  BY Zenon, <1>4, <1>6, Marks DEF VmIInv, VmTypes, runprogram_activate
<1>9. /\ hasas \subseteq hasas' /\ hasas' \subseteq hasas \cup {t} /\ UNCHANGED <<as, vcur>>
      /\ \A u \in Progs \ {t} : as'[u] = as[u]
  BY Zenon DEF runprogram_activate
<1>10. Frames(as'[t]) \subseteq Frames(as[t]) \cup (firstframe .. firstframe' - 1)
  BY Zenon, <1>9
<1> QED
  BY Zenon, <1>1, <1>4, <1>5, <1>6, <1>7, <1>8, <1>9, <1>10, OwnStep
-----------------------------------------------------------------------------
\* The segments of an executable.
LEMMA Segment ==
    ASSUME NEW img \in Images, NEW k \in 1 .. Len(img)
    PROVE  /\ RegionBase(img[k]) \in Nat /\ RegionPages(img[k]) \in 0 .. USERSTACK
           /\ img[k].vaddr >= VM_PAGE => RegionBase(img[k]) # 0
           /\ img[k].memsz > 0 => RegionPages(img[k]) # 0
           /\ \A b \in img[k].vaddr .. img[k].vaddr + img[k].memsz - 1 :
                InRegion(b \div VM_PAGE, RegionBase(img[k]), RegionPages(img[k]))
<1>1. img \in Seq([vaddr : Nat, memsz : Nat]) /\ img[k].vaddr + img[k].memsz <= VM_PAGE * USERSTACK
  BY Zenon, UserSpaceAssumption
<1>2. img[k] \in [vaddr : Nat, memsz : Nat]
  BY Zenon, <1>1, ElementOfSeq
<1> QED
  BY Zenon, <1>1, <1>2, RegionHolds

\* The segments of an executable that dumbvm can run.
LEMMA TwoSegments ==
    ASSUME NEW img \in Images, Supported(img)
    PROVE  /\ Len(img) = 2 /\ 1 \in 1 .. Len(img) /\ 2 \in 1 .. Len(img)
           /\ RegionBase(img[1]) \in Nat \ {0} /\ RegionPages(img[1]) \in Nat \ {0}
           /\ RegionBase(img[2]) \in Nat \ {0} /\ RegionPages(img[2]) \in Nat \ {0}
<1>1. /\ Len(img) = 2 /\ img[1].vaddr >= VM_PAGE /\ img[1].memsz > 0
      /\ img[2].vaddr >= VM_PAGE /\ img[2].memsz > 0
  BY DEF Supported
<1>2. 1 \in 1 .. Len(img) /\ 2 \in 1 .. Len(img)
  BY <1>1
<1>3. /\ RegionBase(img[1]) \in Nat /\ RegionPages(img[1]) \in 0 .. USERSTACK
      /\ RegionBase(img[2]) \in Nat /\ RegionPages(img[2]) \in 0 .. USERSTACK
      /\ 0 \notin {RegionBase(img[1]), RegionPages(img[1]), RegionBase(img[2]), RegionPages(img[2])}
  BY Zenon, <1>1, <1>2, Segment
<1> QED
  BY <1>1, <1>2, <1>3

\* as_define_region keeps the type and the frames, and takes the first free region.
LEMMA DefineOne ==
    ASSUME NEW a \in AsType, NEW img \in Images, NEW k \in 1 .. Len(img)
    PROVE  LET b == as_define_region(a, img[k])
           IN  /\ b \in AsType
               /\ b.pbase1 = a.pbase1 /\ b.pbase2 = a.pbase2 /\ b.stackpbase = a.stackpbase
               /\ Supported(img) /\ RegionsOf(a, img, k - 1) => RegionsOf(b, img, k)
<1> DEFINE b == as_define_region(a, img[k])
<1> DEFINE B == RegionBase(img[k])  P == RegionPages(img[k])
<1>1. B \in Nat /\ P \in 0 .. USERSTACK
  BY Zenon, Segment
<1>2. b = IF a.vbase1 = 0 THEN [a EXCEPT !.vbase1 = B, !.npages1 = P] ELSE [a EXCEPT !.vbase2 = B, !.npages2 = P]
  BY Zenon DEF as_define_region
<1> HIDE DEF b
<1>3. CASE a.vbase1 = 0
  <2>1. b = [a EXCEPT !.vbase1 = B, !.npages1 = P]
    BY Zenon, <1>2, <1>3
  <2> HIDE DEF B, P
  <2>2. /\ b \in AsType /\ b.pbase1 = a.pbase1 /\ b.pbase2 = a.pbase2 /\ b.stackpbase = a.stackpbase
        /\ b.vbase1 = B /\ b.npages1 = P /\ b.vbase2 = a.vbase2 /\ b.npages2 = a.npages2
    BY Zenon, <1>1, <2>1 DEF AsType
  <2>3. Supported(img) /\ RegionsOf(a, img, k - 1) => k = 1
    <3> SUFFICES ASSUME Supported(img), RegionsOf(a, img, k - 1), k # 1 PROVE FALSE
      BY Zenon
    <3>1. RegionBase(img[1]) # 0
      BY TwoSegments
    <3> QED
      BY <1>3, <3>1 DEF RegionsOf
  <2>4. k = 1 /\ RegionsOf(a, img, k - 1) => RegionsOf(b, img, k)
    BY <2>2 DEF RegionsOf, B, P
  <2> QED
    BY Zenon, <2>2, <2>3, <2>4 DEF b
<1>4. CASE a.vbase1 # 0
  <2>1. b = [a EXCEPT !.vbase2 = B, !.npages2 = P]
    BY Zenon, <1>2, <1>4
  <2> HIDE DEF B, P
  <2>2. /\ b \in AsType /\ b.pbase1 = a.pbase1 /\ b.pbase2 = a.pbase2 /\ b.stackpbase = a.stackpbase
        /\ b.vbase1 = a.vbase1 /\ b.npages1 = a.npages1 /\ b.vbase2 = B /\ b.npages2 = P
    BY Zenon, <1>1, <2>1 DEF AsType
  <2>3. Supported(img) /\ RegionsOf(a, img, k - 1) => k = 2
    <3> SUFFICES ASSUME Supported(img), RegionsOf(a, img, k - 1), k # 2 PROVE FALSE
      BY Zenon
    <3>1. Len(img) = 2
      BY Zenon, TwoSegments
    <3>2. k = 1
      BY <3>1
    <3> QED
      BY <1>4, <3>2 DEF RegionsOf
  <2>4. k = 2 /\ RegionsOf(a, img, k - 1) => RegionsOf(b, img, k)
    BY <2>2 DEF RegionsOf, B, P
  <2> QED
    BY Zenon, <2>2, <2>3, <2>4 DEF b
<1> QED
  BY Zenon, <1>3, <1>4

\* The regions are defined one by one, and their frames are still to come.
LEMMA DefineStep ==
    ASSUME VmIInv, NEW c \in VmCpus, load_elf_define(c)
    PROVE  VmIInv'
<1>1. PICK t \in Progs : t = vcur[c]
  BY Zenon DEF load_elf_define
<1>2. prog[t].at = "define" /\ ProgType(prog[t]) /\ AsOK(t) /\ TlbOK(c)
  BY Zenon, <1>1 DEF VmIInv, load_elf_define
<1> DEFINE img == prog[t].img  k == prog[t].k
<1>3. /\ img \in Images /\ k \in Nat \ {0} /\ prog[t] = [at |-> "define", img |-> img, k |-> k]
      /\ t \in hasas /\ tlb[c] = {} /\ as[t] \in AsType
  BY Zenon, <1>1, <1>2 DEF AsOK, ProgType, TlbOK, VmIInv
<1>4. /\ as[t].pbase1 = 0 /\ as[t].pbase2 = 0 /\ as[t].stackpbase = 0
      /\ Supported(img) => RegionsOf(as[t], img, k - 1)
  BY Zenon, <1>2 DEF AsOK
<1>5. UNCHANGED <<firstframe, hasas, vcur, tlb, vmbad>> /\ ~vmbad' /\ firstframe' \in firstframe .. lastframe
  BY Zenon, Marks DEF load_elf_define, VmIInv
<1>6. CASE prog' = [prog EXCEPT ![t] = [at |-> "fail"]] /\ UNCHANGED as
  <2>1. [at |-> "fail"] \in [at : {"fail", "panic"}]
    BY Zenon
  <2> QED
    BY Zenon, <1>1, <1>5, <1>6, <2>1, FailStep
<1>7. ASSUME NEW b \in AsType, as' = [as EXCEPT ![t] = b],
             b.pbase1 = 0, b.pbase2 = 0, b.stackpbase = 0,
             NEW r, prog' = [prog EXCEPT ![t] = r], ProgType(r), r.at \in {"define", "prepare"}, r.img = img,
             r.at = "define" => (Supported(img) => RegionsOf(b, img, r.k - 1)),
             r.at = "prepare" => r.k = 1 /\ (Supported(img) => RegionsOf(b, img, 2))
      PROVE  VmIInv'
  <2>1. as'[t] = b /\ as' \in [Progs -> AsType] /\ \A u \in Progs \ {t} : as'[u] = as[u]
    BY Zenon, <1>7, AsSet
  <2>2. /\ prog'[t] = r /\ prog' = [u \in VmThreads |-> prog'[u]]
        /\ \A u \in VmThreads \ {t} : prog'[u] = prog[u]
    BY Zenon, <1>7, ProgSet
  <2>3. 1 < 3
    OBVIOUS
  <2>4. AsOK(t)'
    BY Zenon, <1>3, <1>5, <1>7, <2>1, <2>2, <2>3 DEF AsOK, Loaded
  <2>5. TlbOK(c)'
    BY Zenon, <1>1, <1>3, <1>5, <1>7, <2>2 DEF TlbOK, Loaded
  <2>6. VmTypes'
    BY Zenon, <1>5, <2>1, <2>2 DEF VmIInv, VmTypes
  <2>7. Frames(as'[t]) = {}
    BY Zenon, <1>7, <2>1 DEF Frames
  <2>8. /\ hasas \subseteq hasas' /\ hasas' \subseteq hasas \cup {t} /\ vcur' = vcur
        /\ \A d \in VmCpus \ {c} : tlb'[d] = tlb[d]
    BY Zenon, <1>5
  <2>9. /\ ProgType(prog'[t])
        /\ Frames(as'[t]) \subseteq Frames(as[t]) \cup (firstframe .. firstframe' - 1)
    BY Zenon, <1>7, <2>2, <2>7
  <2>10. \A u \in VmThreads \ {t} : prog'[u] = prog[u]
    BY Zenon, <2>2
  <2>11. \A u \in Progs \ {t} : as'[u] = as[u]
    BY Zenon, <2>1
  <2> HIDE DEF img, k
  <2> QED
    BY Zenon, <1>1, <1>5, <2>4, <2>5, <2>6, <2>8, <2>9, <2>10, <2>11, OwnStep
<1>8. CASE /\ k <= Len(img)
           /\ as' = [as EXCEPT ![t] = as_define_region(@, img[k])]
           /\ prog' = [prog EXCEPT ![t].k = @ + 1]
  <2> DEFINE b == as_define_region(as[t], img[k])  r == [at |-> "define", img |-> img, k |-> k + 1]
  <2>1. k \in 1 .. Len(img)
    <3>1. Len(img) \in Nat
      BY <1>3, UserSpaceAssumption
    <3> HIDE DEF img, k
    <3> QED
      BY <1>3, <1>8, <3>1
  <2>2. /\ b \in AsType /\ b.pbase1 = 0 /\ b.pbase2 = 0 /\ b.stackpbase = 0
        /\ Supported(img) => RegionsOf(b, img, k)
    <3> HIDE DEF img, k
    <3>1. as[t] \in AsType /\ img \in Images
      BY Zenon, <1>3
    <3>2. /\ b \in AsType
          /\ b.pbase1 = as[t].pbase1 /\ b.pbase2 = as[t].pbase2 /\ b.stackpbase = as[t].stackpbase
          /\ Supported(img) /\ RegionsOf(as[t], img, k - 1) => RegionsOf(b, img, k)
      BY Zenon, <2>1, <3>1, DefineOne
    <3> HIDE DEF b
    <3> QED
      BY Zenon, <1>4, <3>2
  <2>3. prog' = [prog EXCEPT ![t] = r]
    <3>1. [prog[t] EXCEPT !.k = @ + 1] = r
      BY <1>3
    <3> QED
      BY Zenon, <1>8, <3>1
  <2>4. ProgType(r) /\ r.at = "define" /\ r.img = img /\ r.k - 1 = k
    BY <1>3 DEF ProgType
  <2>5. as' = [as EXCEPT ![t] = b]
    BY Zenon, <1>8
  <2>6. r.at = "define" => (Supported(img) => RegionsOf(b, img, r.k - 1))
    BY Zenon, <2>2, <2>4
  <2>7. r.at # "prepare"
    BY <2>4
  <2> HIDE DEF b, r
  <2> QED
    BY Zenon, <1>7, <2>2, <2>3, <2>4, <2>5, <2>6, <2>7
<1>9. CASE /\ k > Len(img)
           /\ prog' = [prog EXCEPT ![t] = [at |-> "prepare", img |-> img, k |-> 1]] /\ UNCHANGED as
  <2> DEFINE r == [at |-> "prepare", img |-> img, k |-> 1]
  <2>1. ProgType(r) /\ r.at = "prepare" /\ r.img = img /\ r.k = 1
    BY <1>3 DEF ProgType
  <2>2. Supported(img) => RegionsOf(as[t], img, 2)
    <3> SUFFICES ASSUME Supported(img) PROVE RegionsOf(as[t], img, 2)
      BY Zenon
    <3>1. RegionsOf(as[t], img, k - 1) /\ Len(img) = 2
      BY Zenon, <1>3, <1>4, TwoSegments
    <3> HIDE DEF img, k
    <3>2. k - 1 >= 2 /\ k - 1 >= 1
      BY <1>3, <1>9, <3>1
    <3>3. 2 # 0 /\ 2 >= 1 /\ ~(2 < 2) /\ 2 >= 2
      OBVIOUS
    <3> QED
      BY Zenon, <3>1, <3>2, <3>3 DEF RegionsOf
  <2>3. as' = [as EXCEPT ![t] = as[t]]
    BY Zenon, <1>9 DEF VmIInv
  <2>4. prog' = [prog EXCEPT ![t] = r] /\ r.at # "define"
    BY <1>9, <2>1
  <2> HIDE DEF r
  <2> QED
    BY Zenon, <1>3, <1>4, <1>7, <2>1, <2>2, <2>3, <2>4
<1> QED
  BY Zenon, <1>1, <1>6, <1>8, <1>9 DEF load_elf_define
-----------------------------------------------------------------------------
\* The frames of one more region: they come from firstframe on.
LEMMA TakeFrames ==
    ASSUME NEW a \in AsType, NEW img, NEW f \in Nat \ {0}, NEW k \in 1 .. 3, NEW b, NEW n,
           b = CASE k = 1 -> [a EXCEPT !.pbase1 = f] [] k = 2 -> [a EXCEPT !.pbase2 = f]
                 [] OTHER -> [a EXCEPT !.stackpbase = f],
           n = CASE k = 1 -> a.npages1 [] k = 2 -> a.npages2 [] OTHER -> DUMBVM_STACKPAGES
    PROVE  /\ b \in AsType /\ (RegionsOf(a, img, 2) => RegionsOf(b, img, 2)) /\ n \in 0 .. USERSTACK
           /\ b.pbase1 = (IF k = 1 THEN f ELSE a.pbase1)
           /\ b.pbase2 = (IF k = 2 THEN f ELSE a.pbase2)
           /\ b.stackpbase = (IF k = 3 THEN f ELSE a.stackpbase)
           /\ Frames(b) \subseteq Frames(a) \cup (f .. f + n - 1)
<1>1. CASE k = 1
  <2>1. b = [a EXCEPT !.pbase1 = f] /\ n = a.npages1
    BY <1>1
  <2>2. /\ b \in AsType /\ n \in 0 .. USERSTACK /\ b.pbase1 = f /\ b.pbase2 = a.pbase2 /\ b.stackpbase = a.stackpbase
        /\ b.vbase1 = a.vbase1 /\ b.vbase2 = a.vbase2 /\ b.npages1 = n /\ b.npages2 = a.npages2
    BY Zenon, <2>1 DEF AsType
  <2> QED
    BY <1>1, <2>1, <2>2 DEF RegionsOf, Frames
<1>2. CASE k = 2
  <2>1. b = [a EXCEPT !.pbase2 = f] /\ n = a.npages2
    BY <1>2
  <2>2. /\ b \in AsType /\ n \in 0 .. USERSTACK /\ b.pbase1 = a.pbase1 /\ b.pbase2 = f /\ b.stackpbase = a.stackpbase
        /\ b.vbase1 = a.vbase1 /\ b.vbase2 = a.vbase2 /\ b.npages1 = a.npages1 /\ b.npages2 = n
    BY Zenon, <2>1 DEF AsType
  <2> QED
    BY <1>2, <2>1, <2>2 DEF RegionsOf, Frames
<1>3. CASE k = 3
  <2>1. b = [a EXCEPT !.stackpbase = f] /\ n = DUMBVM_STACKPAGES
    BY <1>3
  <2>2. /\ b \in AsType /\ n \in 0 .. USERSTACK /\ b.pbase1 = a.pbase1 /\ b.pbase2 = a.pbase2 /\ b.stackpbase = f
        /\ b.vbase1 = a.vbase1 /\ b.vbase2 = a.vbase2 /\ b.npages1 = a.npages1 /\ b.npages2 = a.npages2
    <3>1. DUMBVM_STACKPAGES \in 0 .. USERSTACK
      BY VmAssumption
    <3> QED
      BY Zenon, <2>1, <3>1 DEF AsType
  <2> QED
    BY <1>3, <2>1, <2>2 DEF RegionsOf, Frames
<1> QED
  BY <1>1, <1>2, <1>3

\* as_prepare_load gets the frames of a region, or fails.
LEMMA PrepareStep ==
    ASSUME VmIInv, NEW c \in VmCpus, as_prepare_load(c)
    PROVE  VmIInv'
<1>1. PICK t \in Progs : t = vcur[c]
  BY Zenon DEF as_prepare_load
<1>2. prog[t].at = "prepare" /\ ProgType(prog[t]) /\ AsOK(t) /\ TlbOK(c)
  BY Zenon, <1>1 DEF VmIInv, as_prepare_load
<1> DEFINE img == prog[t].img  k == prog[t].k  a == as[t]
           n == CASE k = 1 -> a.npages1 [] k = 2 -> a.npages2 [] OTHER -> DUMBVM_STACKPAGES
           b == CASE k = 1 -> [a EXCEPT !.pbase1 = firstframe] [] k = 2 -> [a EXCEPT !.pbase2 = firstframe]
                  [] OTHER -> [a EXCEPT !.stackpbase = firstframe]
           r == IF k < 3 THEN [prog[t] EXCEPT !.k = @ + 1] ELSE [at |-> "load", img |-> img]
<1>3. /\ img \in Images /\ k \in 1 .. 3 /\ prog[t] = [at |-> "prepare", img |-> img, k |-> k]
  BY Zenon, <1>2 DEF ProgType
<1>4. /\ t \in hasas /\ (Supported(img) => RegionsOf(a, img, 2)) /\ a.stackpbase = 0
      /\ (a.pbase1 = 0 <=> k = 1) /\ (a.pbase2 = 0 <=> k < 3) /\ tlb[c] = {}
  BY Zenon, <1>1, <1>2 DEF AsOK, TlbOK
<1>5. UNCHANGED <<hasas, vcur, tlb, vmbad>> /\ ~vmbad' /\ firstframe \in Nat \ {0} /\ a \in AsType
  BY Zenon, Marks DEF as_prepare_load, VmIInv
<1>6. CASE prog' = [prog EXCEPT ![t] = [at |-> "fail"]] /\ UNCHANGED <<as, firstframe>>
  <2>1. [at |-> "fail"] \in [at : {"fail", "panic"}]
    BY Zenon
  <2> QED
    BY Zenon, <1>1, <1>5, <1>6, <2>1, FailStep
<1>7. CASE /\ ~((firstframe + n) % WORDFRAMES > lastframe) /\ firstframe' = (firstframe + n) % WORDFRAMES
           /\ as' = [as EXCEPT ![t] = b] /\ prog' = [prog EXCEPT ![t] = r]
  <2>1. /\ b \in AsType /\ (RegionsOf(a, img, 2) => RegionsOf(b, img, 2)) /\ n \in 0 .. USERSTACK
        /\ b.pbase1 = (IF k = 1 THEN firstframe ELSE a.pbase1)
        /\ b.pbase2 = (IF k = 2 THEN firstframe ELSE a.pbase2)
        /\ b.stackpbase = (IF k = 3 THEN firstframe ELSE a.stackpbase)
        /\ Frames(b) \subseteq Frames(a) \cup (firstframe .. firstframe + n - 1)
    <3>1. b = CASE k = 1 -> [a EXCEPT !.pbase1 = firstframe] [] k = 2 -> [a EXCEPT !.pbase2 = firstframe]
                [] OTHER -> [a EXCEPT !.stackpbase = firstframe]
      BY Zenon
    <3>2. n = CASE k = 1 -> a.npages1 [] k = 2 -> a.npages2 [] OTHER -> DUMBVM_STACKPAGES
      BY Zenon
    <3> HIDE DEF b, n, k, a, img
    <3> QED
      BY <1>3, <1>4, <1>5, <3>1, <3>2, TakeFrames
  <2>2. r = IF k < 3 THEN [at |-> "prepare", img |-> img, k |-> k + 1] ELSE [at |-> "load", img |-> img]
    BY <1>3
  <2> HIDE DEF b, n, r
  <2>3. as'[t] = b /\ as' \in [Progs -> AsType] /\ \A u \in Progs \ {t} : as'[u] = as[u]
    BY Zenon, <1>7, <2>1, AsSet
  <2>4. /\ prog'[t] = r /\ prog' = [u \in VmThreads |-> prog'[u]]
        /\ \A u \in VmThreads \ {t} : prog'[u] = prog[u]
    BY Zenon, <1>7, ProgSet
  <2>5. k < 3 => ProgType(r) /\ r.at = "prepare" /\ r.img = img /\ r.k = k + 1
    BY <1>3, <2>2 DEF ProgType
  <2>6. ~(k < 3) => ProgType(r) /\ r.at = "load" /\ r.img = img
    BY Zenon, <1>3, <2>2 DEF ProgType
  <2> HIDE DEF k, a, img
  <2>7. a.pbase1 \in Nat /\ a.pbase2 \in Nat /\ b.pbase1 \in Nat /\ b.pbase2 \in Nat /\ b.stackpbase \in Nat
    BY Zenon, <1>5, <2>1 DEF AsType
  <2>8. AsOK(t)'
    <3>1. CASE k < 3
      <4>1. (b.pbase1 = 0 <=> r.k = 1) /\ (b.pbase2 = 0 <=> r.k < 3) /\ b.stackpbase = 0
        BY <1>3, <1>4, <1>5, <2>1, <2>5, <3>1
      <4> QED
        BY Zenon, <1>4, <1>5, <2>1, <2>3, <2>4, <2>5, <3>1, <4>1 DEF AsOK, Loaded
    <3>2. CASE ~(k < 3)
      <4>1. b.pbase1 > 0 /\ b.pbase2 > 0 /\ b.stackpbase > 0
        BY <1>3, <1>4, <1>5, <2>1, <2>7, <3>2
      <4> QED
        BY Zenon, <1>4, <1>5, <2>1, <2>3, <2>4, <2>6, <3>2, <4>1 DEF AsOK, Loaded
    <3> QED
      BY Zenon, <3>1, <3>2
  <2>9. TlbOK(c)'
    <3>1. tlb'[c] = {} /\ vcur'[c] = t /\ prog'[t].at \in {"prepare", "load"}
      BY Zenon, <1>1, <1>4, <1>5, <2>4, <2>5, <2>6
    <3> QED
      BY Zenon, <3>1 DEF TlbOK, Loaded
  <2>10. VmTypes'
    BY Zenon, <1>5, <2>3, <2>4 DEF VmIInv, VmTypes
  <2>11. firstframe' = firstframe + n /\ firstframe' \in firstframe .. lastframe
    <3>1. firstframe + n \in Nat /\ WORDFRAMES \in Nat /\ firstframe + n < WORDFRAMES
      BY <1>5, <2>1, Marks, VmAssumption
    <3>2. (firstframe + n) % WORDFRAMES = firstframe + n
      BY Zenon, <3>1, SmallMod
    <3> QED
      BY <1>5, <1>7, <2>1, <3>1, <3>2, Marks
  <2>12. Frames(as'[t]) \subseteq Frames(as[t]) \cup (firstframe .. firstframe' - 1)
    <3>1. Frames(b) \subseteq Frames(as[t]) \cup (firstframe .. firstframe + n - 1)
      BY Zenon, <2>1 DEF a
    <3>2. firstframe' - 1 = firstframe + n - 1
      BY <1>5, <2>1, <2>11
    <3> QED
      BY Zenon, <2>3, <3>1, <3>2
  <2>13. /\ hasas \subseteq hasas' /\ hasas' \subseteq hasas \cup {t} /\ vcur' = vcur
         /\ \A d \in VmCpus \ {c} : tlb'[d] = tlb[d]
    BY Zenon, <1>5
  <2>14. ProgType(prog'[t])
    BY Zenon, <2>4, <2>5, <2>6
  <2> QED
    BY Zenon, <1>1, <1>5, <2>3, <2>4, <2>8, <2>9, <2>10, <2>11, <2>12, <2>13, <2>14, OwnStep
<1> QED
  BY Zenon, <1>1, <1>6, <1>7 DEF as_prepare_load
-----------------------------------------------------------------------------
\* load_elf is done: the program goes to user mode, or its thread gives up.
LEMMA DoneStep ==
    ASSUME VmIInv, NEW c \in VmCpus, load_elf_done(c)
    PROVE  VmIInv'
<1>1. PICK t \in Progs : t = vcur[c]
  BY Zenon DEF load_elf_done
<1>2. prog[t].at = "load" /\ ProgType(prog[t]) /\ AsOK(t) /\ TlbOK(c)
  BY Zenon, <1>1 DEF VmIInv, load_elf_done
<1>3. prog[t] = [at |-> "load", img |-> prog[t].img] /\ prog[t].img \in Images
  BY Zenon, <1>2 DEF ProgType
<1>4. UNCHANGED <<firstframe, hasas, as, vcur, tlb, vmbad>> /\ ~vmbad' /\ firstframe' \in firstframe .. lastframe
  BY Zenon, Marks DEF load_elf_done, VmIInv
<1>5. CASE prog' = [prog EXCEPT ![t] = [at |-> "fail"]]
  <2>1. [at |-> "fail"] \in [at : {"fail", "panic"}]
    BY Zenon
  <2> QED
    BY Zenon, <1>1, <1>4, <1>5, <2>1, FailStep
<1>6. CASE prog' = [prog EXCEPT ![t].at = "user"]
  <2>1. [prog[t] EXCEPT !.at = "user"] = [at |-> "user", img |-> prog[t].img]
    BY <1>3
  <2>2. prog' = [prog EXCEPT ![t] = [at |-> "user", img |-> prog[t].img]]
    BY Zenon, <1>6, <2>1
  <2>3. /\ prog'[t] = [at |-> "user", img |-> prog[t].img] /\ prog' = [u \in VmThreads |-> prog'[u]]
        /\ \A u \in VmThreads \ {t} : prog'[u] = prog[u]
    BY Zenon, <2>2, ProgSet
  <2>4. ProgType(prog'[t]) /\ prog'[t].at = "user" /\ prog'[t].img = prog[t].img
    BY <1>3, <2>3 DEF ProgType
  <2>5. AsOK(t)'
    BY Zenon, <1>2, <1>4, <2>4 DEF AsOK, Loaded
  <2>6. TlbOK(c)'
    BY Zenon, <1>1, <1>2, <1>4, <2>4 DEF TlbOK, Loaded
  <2>7. VmTypes'
    BY Zenon, <1>4, <2>3 DEF VmIInv, VmTypes
  <2>8. /\ hasas \subseteq hasas' /\ hasas' \subseteq hasas \cup {t} /\ vcur' = vcur
        /\ \A d \in VmCpus \ {c} : tlb'[d] = tlb[d]
        /\ \A u \in Progs \ {t} : as'[u] = as[u]
        /\ Frames(as'[t]) \subseteq Frames(as[t]) \cup (firstframe .. firstframe' - 1)
    BY Zenon, <1>4
  <2> QED
    BY Zenon, <1>1, <1>4, <2>3, <2>4, <2>5, <2>6, <2>7, <2>8, OwnStep
<1> QED
  BY Zenon, <1>1, <1>5, <1>6 DEF load_elf_done

\* The thread of a program that could not be loaded exits.
LEMMA ExitStep ==
    ASSUME VmIInv, NEW c \in VmCpus, thread_exit(c)
    PROVE  VmIInv'
<1>1. PICK t \in Progs : t = vcur[c]
  BY Zenon DEF thread_exit
<1>2. UNCHANGED <<firstframe, hasas, as, tlb, vmbad>> /\ ~vmbad' /\ firstframe' \in firstframe .. lastframe
  BY Zenon, Marks DEF thread_exit, VmIInv
<1>3. prog' = [prog EXCEPT ![t] = [at |-> "gone"]] /\ vcur' = [vcur EXCEPT ![c] = VmIdle]
  BY Zenon, <1>1 DEF thread_exit
<1>4. /\ prog'[t] = [at |-> "gone"] /\ prog' = [u \in VmThreads |-> prog'[u]]
      /\ \A u \in VmThreads \ {t} : prog'[u] = prog[u]
  BY Zenon, <1>3, ProgSet
<1>5. ProgType(prog'[t]) /\ prog'[t].at = "gone"
  BY <1>4 DEF ProgType
<1>6. AsOK(t)'
  BY Zenon, <1>5 DEF AsOK, Loaded
<1>7. /\ vcur' \in [VmCpus -> VmThreads \cup {VmIdle}] /\ vcur'[c] = VmIdle
      /\ \A d \in VmCpus \ {c} : vcur'[d] = vcur[d]
  BY Zenon, <1>3 DEF VmIInv
<1>8. VmTypes'
  BY Zenon, <1>2, <1>4, <1>7 DEF VmIInv, VmTypes
<1>9. \A b, d \in VmCpus : vcur'[b] = vcur'[d] /\ vcur'[b] # VmIdle => b = d
  BY Zenon, <1>7 DEF VmIInv
<1>10. \A d \in VmCpus \ {c} : vcur[d] # t
  BY Zenon, <1>1, VmAssumption DEF VmIInv, VmIdle
<1>11. TlbOK(c)'
  BY Zenon, <1>7, VmAssumption DEF TlbOK, VmIdle
<1>12. \A d \in VmCpus \ {c} : TlbOK(d)'
  BY Zenon, <1>2, <1>4, <1>7, <1>10, TlbFrame DEF VmIInv, VmThreads
<1>13. /\ \A u \in Progs \ {t} : prog'[u] = prog[u] /\ as'[u] = as[u] /\ (u \in hasas' <=> u \in hasas)
       /\ Frames(as'[t]) \subseteq Frames(as[t]) \cup (firstframe .. firstframe' - 1)
  BY Zenon, <1>2, <1>4 DEF VmThreads
<1> QED
  BY Zenon, <1>2, <1>5, <1>6, <1>8, <1>9, <1>11, <1>12, <1>13, OneProg
-----------------------------------------------------------------------------
\* The frames behind vm_fault's translation.
LEMMA Mapped ==
    ASSUME NEW a \in AsType, a.pbase1 > 0, a.pbase2 > 0, a.stackpbase > 0, NEW page \in Nat
    PROVE  /\ Translate(a, page) \in Int
           /\ \/ Translate(a, page) # 0
              \/ InRegion(page, a.vbase1, a.npages1) \/ InRegion(page, a.vbase2, a.npages2)
              => Translate(a, page) \in Frames(a)
<1> DEFINE sb == USERSTACK - DUMBVM_STACKPAGES
<1>1. /\ a.vbase1 \in Nat /\ a.npages1 \in Nat /\ a.pbase1 \in Nat \ {0}
      /\ a.vbase2 \in Nat /\ a.npages2 \in Nat /\ a.pbase2 \in Nat \ {0}
      /\ a.stackpbase \in Nat \ {0} /\ sb \in Nat /\ DUMBVM_STACKPAGES \in Nat
  <2>1. /\ a.vbase1 \in Nat /\ a.npages1 \in 0 .. USERSTACK /\ a.pbase1 \in Nat
        /\ a.vbase2 \in Nat /\ a.npages2 \in 0 .. USERSTACK /\ a.pbase2 \in Nat /\ a.stackpbase \in Nat
    BY Zenon DEF AsType
  <2> QED
    BY <2>1, VmAssumption
<1> HIDE DEF sb
<1>2. ASSUME NEW base \in Nat, NEW n \in Nat, NEW f \in Nat, InRegion(page, base, n)
      PROVE  page - base + f \in f .. f + n - 1
  <2>1. (base + n) % WORDFRAMES <= base + n /\ (base + n) % WORDFRAMES \in Int
    BY <1>2, VmAssumption
  <2> QED
    BY <1>2, <2>1 DEF InRegion
<1>3. CASE InRegion(page, a.vbase1, a.npages1)
  <2>1. Translate(a, page) = page - a.vbase1 + a.pbase1
    BY Zenon, <1>3 DEF Translate
  <2>2. page - a.vbase1 + a.pbase1 \in a.pbase1 .. a.pbase1 + a.npages1 - 1
    BY Zenon, <1>1, <1>2, <1>3
  <2>3. page - a.vbase1 + a.pbase1 \in Int /\ a.pbase1 # 0
    BY <1>1
  <2> QED
    BY Zenon, <2>1, <2>2, <2>3 DEF Frames
<1>4. CASE ~InRegion(page, a.vbase1, a.npages1) /\ InRegion(page, a.vbase2, a.npages2)
  <2>1. Translate(a, page) = page - a.vbase2 + a.pbase2
    BY Zenon, <1>4 DEF Translate
  <2>2. page - a.vbase2 + a.pbase2 \in a.pbase2 .. a.pbase2 + a.npages2 - 1
    BY Zenon, <1>1, <1>2, <1>4
  <2>3. page - a.vbase2 + a.pbase2 \in Int /\ a.pbase2 # 0
    BY <1>1
  <2> QED
    BY Zenon, <2>1, <2>2, <2>3 DEF Frames
<1>5. CASE ~InRegion(page, a.vbase1, a.npages1) /\ ~InRegion(page, a.vbase2, a.npages2)
  <2>1. CASE InRegion(page, sb, DUMBVM_STACKPAGES)
    <3>1. Translate(a, page) = page - sb + a.stackpbase
      BY Zenon, <1>5, <2>1 DEF Translate, sb
    <3>2. page - sb + a.stackpbase \in a.stackpbase .. a.stackpbase + DUMBVM_STACKPAGES - 1
      BY Zenon, <1>1, <1>2, <2>1
    <3>3. page - sb + a.stackpbase \in Int /\ a.stackpbase # 0
      BY <1>1
    <3> QED
      BY Zenon, <3>1, <3>2, <3>3 DEF Frames
  <2>2. CASE ~InRegion(page, sb, DUMBVM_STACKPAGES)
    <3>1. Translate(a, page) = 0
      BY Zenon, <1>5, <2>2 DEF Translate, sb
    <3> QED
      BY <1>5, <3>1
  <2> QED
    BY Zenon, <2>1, <2>2
<1> QED
  BY Zenon, <1>3, <1>4, <1>5

\* Of an executable that dumbvm can run: vm_fault's assertions hold, and every
\* byte of its segments has a frame.
LEMMA AllMapped ==
    ASSUME NEW a \in AsType, NEW img \in Images, Supported(img), RegionsOf(a, img, 2),
           a.pbase1 > 0, a.pbase2 > 0, a.stackpbase > 0
    PROVE  /\ VmAsserts(a)
           /\ \A k \in 1 .. 2 : \A b \in img[k].vaddr .. img[k].vaddr + img[k].memsz - 1 :
                Translate(a, b \div VM_PAGE) \in Frames(a)
<1>1. /\ Len(img) = 2 /\ 1 \in 1 .. Len(img) /\ 2 \in 1 .. Len(img)
      /\ RegionBase(img[1]) # 0 /\ RegionPages(img[1]) # 0
      /\ RegionBase(img[2]) # 0 /\ RegionPages(img[2]) # 0
  BY TwoSegments
<1>2. /\ a.vbase1 = RegionBase(img[1]) /\ a.npages1 = RegionPages(img[1])
      /\ a.vbase2 = RegionBase(img[2]) /\ a.npages2 = RegionPages(img[2])
  BY DEF RegionsOf
<1>3. a.pbase1 # 0 /\ a.pbase2 # 0 /\ a.stackpbase # 0
  <2>1. a.pbase1 \in Nat /\ a.pbase2 \in Nat /\ a.stackpbase \in Nat
    BY Zenon DEF AsType
  <2> QED
    BY <2>1
<1>4. VmAsserts(a)
  BY Zenon, <1>1, <1>2, <1>3 DEF VmAsserts
<1>5. ASSUME NEW k \in 1 .. 2, NEW b \in img[k].vaddr .. img[k].vaddr + img[k].memsz - 1
      PROVE  Translate(a, b \div VM_PAGE) \in Frames(a)
  <2>1. k \in 1 .. Len(img) /\ (k = 1 \/ k = 2)
    BY <1>1
  <2>2. InRegion(b \div VM_PAGE, RegionBase(img[k]), RegionPages(img[k]))
    BY Zenon, <2>1, Segment
  <2>3. InRegion(b \div VM_PAGE, a.vbase1, a.npages1) \/ InRegion(b \div VM_PAGE, a.vbase2, a.npages2)
    BY Zenon, <1>2, <2>1, <2>2
  <2>4. b \in Nat
    <3>1. img \in Seq([vaddr : Nat, memsz : Nat])
      BY Zenon, UserSpaceAssumption
    <3>2. img[k] \in [vaddr : Nat, memsz : Nat]
      BY Zenon, <2>1, <3>1, ElementOfSeq
    <3>3. img[k].vaddr \in Nat /\ img[k].memsz \in Nat
      BY Zenon, <3>2
    <3> QED
      BY <3>3
  <2>5. b \div VM_PAGE \in Nat
    BY Zenon, <2>4, DivPage
  <2> QED
    BY Zenon, <2>3, <2>5, Mapped
<1> QED
  BY Zenon, <1>4, <1>5

\* A page fault: the system stops, loading fails, or the frame is the page's.
LEMMA FaultStep ==
    ASSUME VmIInv, NEW c \in VmCpus, NEW page \in 0 .. USERSTACK - 1, vm_fault(c, page)
    PROVE  VmIInv'
<1>1. PICK t \in Progs : t = vcur[c]
  BY Zenon DEF vm_fault
<1>2. prog[t].at \in {"load", "user"} /\ ProgType(prog[t]) /\ AsOK(t) /\ TlbOK(c)
  BY Zenon, <1>1 DEF VmIInv, vm_fault
<1> DEFINE img == prog[t].img  f == Translate(as[t], page)
           r == [at |-> "fault", img |-> img, back |-> prog[t].at, page |-> page, frame |-> f]
           g == IF ~VmAsserts(as[t]) THEN [at |-> "panic"] ELSE IF f = 0 THEN EFAULT(prog[t].at) ELSE r
<1>3. /\ prog' = [prog EXCEPT ![t] = g] /\ UNCHANGED <<firstframe, hasas, as, vcur, tlb>> /\ ~vmbad'
      /\ firstframe' \in firstframe .. lastframe
  BY Zenon, <1>1, Marks DEF vm_fault, VmIInv
<1>4. /\ img \in Images /\ (Supported(img) => RegionsOf(as[t], img, 2)) /\ as[t] \in AsType
      /\ as[t].pbase1 > 0 /\ as[t].pbase2 > 0 /\ as[t].stackpbase > 0 /\ t \in hasas
  BY Zenon, <1>2 DEF AsOK, ProgType, Loaded, VmIInv
<1>5. CASE ~VmAsserts(as[t]) \/ f = 0
  <2>1. g \in [at : {"fail", "panic"}]
    BY Zenon, <1>5 DEF EFAULT
  <2> HIDE DEF g
  <2> QED
    BY Zenon, <1>1, <1>3, <2>1, FailStep
<1>6. CASE VmAsserts(as[t]) /\ f # 0
  <2>1. f \in Int /\ f \in Frames(as[t])
    <3>1. page \in Nat
      OBVIOUS
    <3> QED
      BY Zenon, <1>4, <1>6, <3>1, Mapped
  <2>2. g = r
    BY Zenon, <1>6
  <2>3. prog'[t] = r /\ prog' = [u \in VmThreads |-> prog'[u]] /\ \A u \in VmThreads \ {t} : prog'[u] = prog[u]
    BY Zenon, <1>3, <2>2, ProgSet
  <2>4. /\ ProgType(prog'[t]) /\ prog'[t].at = "fault" /\ prog'[t].img = img /\ prog'[t].page = page
        /\ prog'[t].frame = f
    <3>1. r \in [at : {"fault"}, img : Images, back : {"load", "user"}, page : 0 .. USERSTACK - 1, frame : Int]
      BY Zenon, <1>2, <1>4, <2>1
    <3>2. ProgType(r)
      BY Zenon, <3>1 DEF ProgType
    <3>3. r.at = "fault" /\ r.img = img /\ r.page = page /\ r.frame = f
      BY Zenon
    <3> HIDE DEF r, g
    <3> QED
      BY Zenon, <2>3, <3>2, <3>3
  <2>5. AsOK(t)'
    BY Zenon, <1>3, <1>4, <2>1, <2>4 DEF AsOK, Loaded
  <2>6. TlbOK(c)'
    <3>1. /\ vcur'[c] = t /\ tlb'[c] = tlb[c] /\ as'[t] = as[t]
          /\ \A e \in tlb[c] : Translate(as[t], e[1]) = e[2] /\ e[2] \in Frames(as[t]) /\ e[1] # page
      BY Zenon, <1>1, <1>2, <1>3 DEF TlbOK, Loaded, vm_fault
    <3> QED
      BY Zenon, <2>4, <3>1 DEF TlbOK, Loaded
  <2>7. VmTypes'
    BY Zenon, <1>3, <2>3 DEF VmIInv, VmTypes
  <2>8. /\ hasas \subseteq hasas' /\ hasas' \subseteq hasas \cup {t} /\ vcur' = vcur
        /\ \A d \in VmCpus \ {c} : tlb'[d] = tlb[d]
        /\ \A u \in Progs \ {t} : as'[u] = as[u]
        /\ Frames(as'[t]) \subseteq Frames(as[t]) \cup (firstframe .. firstframe' - 1)
    BY Zenon, <1>3
  <2> QED
    BY Zenon, <1>1, <1>3, <2>3, <2>4, <2>5, <2>6, <2>7, <2>8, OwnStep
<1> QED
  BY Zenon, <1>5, <1>6

\* vm_fault writes the entry: the page has no other, however the thread came here.
LEMMA TlbStep ==
    ASSUME VmIInv, NEW c \in VmCpus, vm_fault_tlb(c)
    PROVE  VmIInv'
<1>1. PICK t \in Progs : t = vcur[c]
  BY Zenon DEF vm_fault_tlb
<1>2. prog[t].at = "fault" /\ ProgType(prog[t]) /\ AsOK(t) /\ TlbOK(c)
  BY Zenon, <1>1 DEF VmIInv, vm_fault_tlb
<1> DEFINE img == prog[t].img  back == prog[t].back  page == prog[t].page  f == prog[t].frame
<1>3. img \in Images /\ back \in {"load", "user"}
  BY Zenon, <1>2 DEF ProgType
<1>4. /\ Supported(img) => RegionsOf(as[t], img, 2)
      /\ f = Translate(as[t], page) /\ f \in Frames(as[t])
      /\ as[t].pbase1 > 0 /\ as[t].pbase2 > 0 /\ as[t].stackpbase > 0 /\ t \in hasas
  BY Zenon, <1>2 DEF AsOK, Loaded
<1>5. \A e \in tlb[c] : Translate(as[t], e[1]) = e[2] /\ e[2] \in Frames(as[t]) /\ e[1] # page
  BY Zenon, <1>1, <1>2 DEF TlbOK, Loaded
<1>6. UNCHANGED <<firstframe, hasas, as, vcur>>
  BY Zenon DEF vm_fault_tlb
<1>7. CASE Cardinality(tlb[c]) < NUM_TLB
  <2>1. /\ tlb' = [tlb EXCEPT ![c] = @ \cup {<<page, f>>}]
        /\ prog' = [prog EXCEPT ![t] = [at |-> back, img |-> img]]
        /\ vmbad' = (vmbad \/ \E e \in tlb[c] : e[1] = page)
    BY Zenon, <1>1, <1>7 DEF vm_fault_tlb
  <2>2. ~vmbad'
    BY Zenon, <1>5, <2>1 DEF VmIInv
  <2>3. /\ prog'[t] = [at |-> back, img |-> img] /\ prog' = [u \in VmThreads |-> prog'[u]]
        /\ \A u \in VmThreads \ {t} : prog'[u] = prog[u]
    BY Zenon, <2>1, ProgSet
  <2>4. ProgType(prog'[t]) /\ prog'[t].at \in {"load", "user"} /\ prog'[t].img = img
    BY <1>3, <2>3 DEF ProgType
  <2>5. AsOK(t)'
    BY Zenon, <1>4, <1>6, <2>4 DEF AsOK, Loaded
  <2>6. /\ tlb'[c] = tlb[c] \cup {<<page, f>>} /\ tlb' = [d \in VmCpus |-> tlb'[d]]
        /\ \A d \in VmCpus \ {c} : tlb'[d] = tlb[d]
    BY Zenon, <2>1 DEF VmIInv
  <2>7. \A e \in tlb'[c] : Translate(as[t], e[1]) = e[2] /\ e[2] \in Frames(as[t])
    <3>1. <<page, f>>[1] = page /\ <<page, f>>[2] = f
      BY Zenon
    <3> HIDE DEF page, f
    <3> QED
      BY Zenon, <1>4, <1>5, <2>6, <3>1
  <2>8. TlbOK(c)'
    BY Zenon, <1>1, <1>6, <2>4, <2>7 DEF TlbOK, Loaded
  <2>9. VmTypes'
    BY Zenon, <1>6, <2>3, <2>6 DEF VmIInv, VmTypes
  <2>10. /\ hasas \subseteq hasas' /\ hasas' \subseteq hasas \cup {t} /\ vcur' = vcur
         /\ \A u \in Progs \ {t} : as'[u] = as[u]
         /\ Frames(as'[t]) \subseteq Frames(as[t]) \cup (firstframe .. firstframe' - 1)
    BY Zenon, <1>6
  <2>11. firstframe' \in firstframe .. lastframe
    BY Zenon, <1>6, Marks
  <2> QED
    BY Zenon, <1>1, <2>2, <2>3, <2>4, <2>5, <2>6, <2>8, <2>9, <2>10, <2>11, OwnStep
<1>8. CASE ~(Cardinality(tlb[c]) < NUM_TLB)
  <2> DEFINE r == EFAULT(back)
  <2>1. r \in [at : {"fail", "panic"}]
    BY Zenon DEF EFAULT
  <2>2. prog' = [prog EXCEPT ![t] = r] /\ UNCHANGED <<tlb, vmbad>> /\ ~vmbad'
    BY Zenon, <1>1, <1>8 DEF vm_fault_tlb, VmIInv
  <2> HIDE DEF r
  <2> QED
    BY Zenon, <1>1, <1>6, <2>1, <2>2, FailStep
<1> QED
  BY Zenon, <1>7, <1>8
-----------------------------------------------------------------------------
LEMMA VmStart == VmInit => VmIInv
<1> SUFFICES ASSUME VmInit PROVE VmIInv
  BY Zenon
<1>1. as_create \in AsType /\ Frames(as_create) = {}
  <2>1. 0 \in 0 .. USERSTACK /\ 0 \in Nat
    BY VmAssumption
  <2> QED
    BY Zenon, <2>1 DEF as_create, AsType, Frames
<1>2. \A t \in Progs : prog[t] = [at |-> "none"] /\ as[t] = as_create /\ t \notin hasas
  BY Zenon, VmAssumption DEF VmInit, VmThreads
<1>3. \A t \in Progs : prog[t].at = "none" /\ ProgType(prog[t])
  <2>1. [at |-> "none"] \in [at : {"none", "gone", "fail", "panic"}] /\ [at |-> "none"].at = "none"
    BY Zenon
  <2>2. ProgType([at |-> "none"])
    BY Zenon, <2>1 DEF ProgType
  <2> QED
    BY Zenon, <1>2, <2>1, <2>2
<1>4. \A t \in Progs : AsOK(t)
  BY Zenon, <1>2, <1>3 DEF AsOK, Loaded
<1>5. \A c \in VmCpus : vcur[c] = VmIdle /\ VmIdle \notin Progs
  BY Zenon, VmAssumption DEF VmInit, VmIdle
<1>6. \A c \in VmCpus : TlbOK(c)
  BY Zenon, <1>5 DEF TlbOK
<1>7. /\ as \in [Progs -> AsType] /\ prog = [t \in VmThreads |-> prog[t]]
      /\ vcur \in [VmCpus -> VmThreads \cup {VmIdle}] /\ tlb = [c \in VmCpus |-> tlb[c]]
  BY Zenon, <1>1 DEF VmInit
<1>8. \A p \in Progs : Frames(as[p]) = {}
  BY Zenon, <1>1, <1>2
<1>9. firstframe \in 1 .. lastframe /\ ~vmbad
  BY VmAssumption DEF VmInit
<1> QED
  BY Zenon, <1>3, <1>4, <1>5, <1>6, <1>7, <1>8, <1>9 DEF VmIInv

\* The invariant says what the programs rely on.
LEMMA VmIInvSuffices == VmIInv => ProgramsIsolated
<1> SUFFICES ASSUME VmIInv PROVE ProgramsIsolated
  BY Zenon
<1>1. \A c \in VmCpus : vcur[c] \in Progs /\ prog[vcur[c]].at \in {"load", "user", "fault"} =>
        \A e \in tlb[c] : Translate(as[vcur[c]], e[1]) = e[2] /\ e[2] \in Frames(as[vcur[c]])
  BY Zenon DEF VmIInv, TlbOK, Loaded
<1>2. ASSUME NEW p \in Progs, prog[p].at \in {"load", "user"}, Supported(prog[p].img)
      PROVE  /\ VmAsserts(as[p])
             /\ \A k \in 1 .. 2 : \A b \in prog[p].img[k].vaddr .. prog[p].img[k].vaddr + prog[p].img[k].memsz - 1 :
                  Translate(as[p], b \div VM_PAGE) \in Frames(as[p])
  <2>1. ProgType(prog[p]) /\ AsOK(p) /\ as[p] \in AsType
    BY Zenon DEF VmIInv
  <2>2. /\ prog[p].img \in Images /\ RegionsOf(as[p], prog[p].img, 2)
        /\ as[p].pbase1 > 0 /\ as[p].pbase2 > 0 /\ as[p].stackpbase > 0
    BY Zenon, <1>2, <2>1 DEF ProgType, AsOK, Loaded
  <2> QED
    BY Zenon, <1>2, <2>1, <2>2, AllMapped
<1>3. ~vmbad
  BY Zenon DEF VmIInv
<1>4. /\ \A p \in Progs : Frames(as[p]) \subseteq 1 .. firstframe - 1
      /\ \A p, q \in Progs : p # q => Frames(as[p]) \cap Frames(as[q]) = {}
  BY Zenon DEF VmIInv
<1> QED
  BY Zenon, <1>1, <1>2, <1>3, <1>4 DEF ProgramsIsolated

(***************************************************************************)
(* Programs are isolated: a program reaches its own memory and nothing     *)
(* else, wherever its thread is preempted, resumed and faults, and no      *)
(* frame serves two processes; whatever segments the executables have, as  *)
(* long as they lie in user space.                                         *)
(***************************************************************************)
THEOREM Isolation == VmSpec => []ProgramsIsolated
<1>1. VmIInv /\ [VmNext]_vmVars => VmIInv'
  <2> SUFFICES ASSUME VmIInv, [VmNext]_vmVars PROVE VmIInv'
    BY Zenon
  <2>1. CASE UNCHANGED vmVars
    <3>1. VmTypes' /\ (\A c, d \in VmCpus : vcur'[c] = vcur'[d] /\ vcur'[c] # VmIdle => c = d)
      BY Zenon, <2>1 DEF VmIInv, VmTypes, vmVars
    <3>2. \A c \in VmCpus : TlbOK(c)'
      BY Zenon, <2>1, TlbFrame DEF VmIInv, vmVars
    <3> QED
      BY Zenon, <2>1, <3>1, <3>2, NoProg DEF vmVars
  <2>2. CASE stray_exit
    BY Zenon, <2>2, StrayStep
  <2>3. ASSUME NEW c \in VmCpus, NEW t \in Progs, NEW img \in Images, common_prog(c, t, img) PROVE VmIInv'
    BY Zenon, <2>3, ProgStep
  <2>4. ASSUME NEW c \in VmCpus, NEW next \in VmThreads, vm_switch(c, next) PROVE VmIInv'
    BY Zenon, <2>4, SwitchStep
  <2>5. ASSUME NEW c \in VmCpus, NEW page \in 0 .. USERSTACK - 1, vm_fault(c, page) PROVE VmIInv'
    BY Zenon, <2>5, FaultStep
  <2>6. ASSUME NEW c \in VmCpus,
               \/ thread_wait_for_count(c) \/ runprogram(c) \/ runprogram_activate(c) \/ load_elf_define(c)
               \/ as_prepare_load(c) \/ load_elf_done(c) \/ thread_exit(c) \/ vm_fault_tlb(c)
        PROVE  VmIInv'
    BY Zenon, <2>6, WaitStep, RunprogramStep, ActivateStep, DefineStep, PrepareStep, DoneStep, ExitStep, TlbStep
  <2> QED
    BY Zenon, <2>1, <2>2, <2>3, <2>4, <2>5, <2>6 DEF VmNext
<1> QED
  BY <1>1, VmStart, VmIInvSuffices, PTL DEF VmSpec
=============================================================================
