---------------------------- MODULE ThreadsProofs ---------------------------
(***************************************************************************)
(* The scheduler of thread.c neither loses nor doubles a thread, for any   *)
(* number of CPUs and threads.  SchedProofs follows the threads from list  *)
(* to list, and what each CPU is doing; here the two are put together, the *)
(* programs of the threads come in, and the theorems follow.               *)
(***************************************************************************)
EXTENDS SchedProofs, FiniteSetTheorems

LEMMA SwitchStep ==
  ASSUME SchedInv, NEW c \in Cpu, act[c] \notin {"wake", "migrate"}, ~c_isidle[c],
         NEW s, NEW wc, s \in {"S_READY", "S_ZOMBIE"} \/ (s = "S_SLEEP" /\ wc \in Wchan),
         thread_switch(c, s, wc), child' = child, mig' = mig
  PROVE  SchedInv'
<1>1. PlaceInv /\ c_isidle \in [Cpu -> BOOLEAN]
  BY Zenon DEF SchedInv, SchedRest
<1>2. PlaceInv'
  BY Zenon, <1>1, MigStays, SwitchPlace
<1> QED
  BY Zenon, <1>2, SwitchCpu

LEMMA YieldStep ==
  ASSUME SchedInv, NEW c \in Cpu, thread_yield(c), child' = child, mig' = mig
  PROVE  SchedInv'
<1>1. act[c] = "yield" /\ act[c] \notin {"wake", "migrate"}
  BY Zenon DEF thread_yield
<1>2. hand[c] = <<>> /\ mig[c].ph = "none" /\ mig[c].victims = <<>> /\ CpuInv(c) /\ SchedRest
  BY Zenon, <1>1, NotBusy
<1>3. ASSUME NEW a \in {"window", "thread"}, DoAct(c, a), a = "window" <=> c_isidle[c],
             UNCHANGED <<t_state, t_cpu, cpuVars, queueVars, c_runqueue_lock, chanVars>>
      PROVE  SchedInv'
  <2>1. UNCHANGED <<t_state, t_cpu, c_curthread, c_isidle, c_runqueue, c_zombies, hand, tgt, wc_threads, wc_lock,
                    c_runqueue_lock, ipi_line>>
    BY Zenon, <1>3 DEF cpuVars, queueVars, chanVars
  <2>2. act' \in [Cpu -> Acts] /\ act'[c] = a /\ \A d \in Cpu \ {c} : act'[d] = act[d]
    BY Zenon, <1>2, <1>3, DoActKeeps DEF Acts
  <2>3. SchedRest'
    BY Zenon, <1>2, <2>1, <2>2 DEF SchedRest, MigTypeOK
  <2>4. CpuInv(c)'
    BY Zenon, <1>2, <1>3, <2>1, <2>2 DEF CpuInv
  <2> QED
    BY Zenon, <2>1, <2>2, <2>3, <2>4, LocalStep
<1>4. CASE c_isidle[c]
  BY Zenon, <1>3, <1>4 DEF thread_yield
<1>5. CASE ~c_isidle[c] /\ ~thread_switch(c, "S_READY", NONE)
  BY Zenon, <1>3, <1>5 DEF thread_yield
<1>6. CASE ~c_isidle[c] /\ thread_switch(c, "S_READY", NONE)
  BY Zenon, <1>1, <1>6, SwitchStep
<1> QED
  BY Zenon, <1>4, <1>5, <1>6

LEMMA IdleLookStep ==
  ASSUME SchedInv, NEW c \in Cpu, IdleLook(c), child' = child, mig' = mig
  PROVE  SchedInv'
<1>1. PlaceInv /\ c_isidle \in [Cpu -> BOOLEAN] /\ c_isidle[c]
  BY Zenon DEF IdleLook, SchedInv, SchedRest, CpuInv
<1>2. PlaceInv'
  BY Zenon, <1>1, MigStays, IdlePlace
<1> QED
  BY Zenon, <1>2, IdleLookCpu

LEMMA WakeStep ==
  ASSUME SchedInv, NEW c \in Cpu, NEW wc \in Wchan, act[c] \notin {"wake", "migrate"},
         wchan_wakeone(c, wc) \/ wchan_wakeall(c, wc),
         UNCHANGED <<t_state, t_cpu, cpuVars, queueVars, c_runqueue_lock, child, mig>>
  PROVE  SchedInv'
<1>1. PlaceInv /\ hand[c] = <<>>
  BY Zenon, NotBusy
<1>2. UNCHANGED <<t_state, t_cpu, c_curthread, c_isidle, c_runqueue, c_zombies, child>>
  BY Zenon DEF cpuVars, queueVars
<1>3. PlaceInv'
  BY Zenon, <1>1, <1>2, MigStays, WakePlace
<1> QED
  BY Zenon, <1>3, WakeCpu

LEMMA ForkCountStep ==
  ASSUME SchedInv, NEW c \in Cpu, NEW u \in Thread, act[c] = "thread", child[c_curthread[c]] = NONE, ForkCount(c, u)
  PROVE  SchedInv'
<1>1. PlaceInv /\ hand[c] = <<>>
  BY Zenon, NotBusy
<1>2. mig' = mig
  BY Zenon DEF ForkCount
<1>3. PlaceInv'
  BY Zenon, <1>1, <1>2, MigStays, ForkPlace
<1> QED
  BY Zenon, <1>3, ForkCountCpu

LEMMA WakeTargetStep ==
  ASSUME SchedInv, NEW c \in Cpu, WakeTarget(c), child' = child, mig' = mig
  PROVE  SchedInv'
<1>1. PlaceInv /\ hand[c] # <<>> /\ tgt[c] = t_cpu[threadlist_head(hand[c])]
  BY Zenon DEF WakeTarget, SchedInv, CpuInv
<1>2. PlaceInv'
  BY Zenon, <1>1, MigStays, TargetPlace
<1> QED
  BY Zenon, <1>2, WakeTargetCpu

LEMMA ForkRunStep ==
  ASSUME SchedInv, NEW c \in Cpu, child[c_curthread[c]] # NONE, ForkRun(c)
  PROVE  SchedInv'
<1>1. PlaceInv /\ mig' = mig
  BY Zenon DEF SchedInv, ForkRun
<1>2. PlaceInv'
  BY Zenon, <1>1, MigStays, ForkRunPlace
<1> QED
  BY Zenon, <1>2, ForkRunCpu

LEMMA MigTakeStep ==
  ASSUME SchedInv, NEW c \in Cpu, MigTake(c), UNCHANGED child
  PROVE  SchedInv'
<1>1. PlaceInv /\ MigTypeOK /\ mig[c].victims = <<>> /\ mig[c].to_send <= Len(c_runqueue[c])
  BY Zenon DEF MigTake, SchedInv, SchedRest, CpuInv
<1>2. PlaceInv'
  BY Zenon, <1>1, MigTakePlace
<1> QED
  BY Zenon, <1>2, MigTakeCpu

LEMMA MigBackStep ==
  ASSUME SchedInv, NEW c \in Cpu, MigBack(c), UNCHANGED child
  PROVE  SchedInv'
<1>1. PlaceInv /\ MigTypeOK
  BY Zenon DEF SchedInv, SchedRest
<1>2. PlaceInv'
  BY Zenon, <1>1, MigBackPlace
<1> QED
  BY Zenon, <1>2, MigBackCpu

LEMMA MigSendStep ==
  ASSUME SchedInv, NEW c \in Cpu, MigSend(c), UNCHANGED child
  PROVE  SchedInv'
<1>1. /\ PlaceInv /\ MigTypeOK /\ mig[c].to_send <= Len(mig[c].victims)
      /\ mig[c].i < NumCpus /\ mig[c].i # c
  BY Zenon DEF MigSend, SchedInv, SchedRest, CpuInv
<1>2. mig[c].i \in Cpu
  <2>1. mig[c] \in MigRec
    BY Zenon, <1>1 DEF MigTypeOK, MigRec
  <2>2. mig[c].i \in 0 .. NumCpus
    BY Zenon, <2>1 DEF MigRec
  <2> QED
    BY <1>1, <2>2, SchedAssumption DEF Cpu
<1>3. PlaceInv'
  BY Zenon, <1>1, <1>2, MigSendPlace
<1> QED
  BY Zenon, <1>3, MigSendCpu
-----------------------------------------------------------------------------
LEMMA HatchingCount ==
  ASSUME NEW p
  PROVE  /\ IsFiniteSet(Hatching(p)) /\ Cardinality(Hatching(p)) \in Nat
         /\ Cardinality(Hatching(p)) = 0 <=> Hatching(p) = {}
<1>1. IsFiniteSet(Hatching(p))
  <2>1. Hatching(p) \subseteq Thread
    BY Zenon DEF Hatching
  <2> QED
    BY Zenon, <2>1, FS_Subset, SchedAssumption
<1> QED
  BY Zenon, <1>1, FS_CardinalityType, FS_EmptySet
-----------------------------------------------------------------------------
LEMMA KernelStep ==
  ASSUME Inv, NEW c \in Cpu, Kernel(c)
  PROVE  Inv'
<1>1. SchedInv /\ ProgInv /\ PlaceInv
  BY Zenon DEF Inv, SchedInv
<1>2. UNCHANGED <<pc, child, num, thread_count, sem_count>>
  BY Zenon DEF Kernel, InKernel, progVars, countVars
<1>3. ASSUME NoneDies PROVE ProgInv'
  BY Zenon, <1>1, <1>2, <1>3, ProgFrame
<1>4. ASSUME t_state' = t_state PROVE NoneDies
  BY Zenon, <1>4 DEF NoneDies
<1>5. CASE thread_yield(c) /\ mig' = mig
  <2>1. SchedInv'
    BY Zenon, <1>1, <1>2, <1>5, YieldStep
  <2>2. t_state' = t_state \/ thread_switch(c, "S_READY", NONE)
    BY Zenon, <1>5 DEF thread_yield
  <2>3. thread_switch(c, "S_READY", NONE) => NoneDies
    BY Zenon, <1>1, SwitchDead DEF NoneDies
  <2> QED
    BY Zenon, <1>3, <1>4, <2>1, <2>2, <2>3 DEF Inv
<1>6. CASE WakeTarget(c) /\ mig' = mig
  <2>1. SchedInv'
    BY Zenon, <1>1, <1>2, <1>6, WakeTargetStep
  <2>2. \E u : t_state' = [t_state EXCEPT ![u] = "S_READY"]
    BY Zenon, <1>6 DEF WakeTarget, thread_make_runnable
  <2>3. NoneDies
    BY Zenon, <1>1, <2>2, PlaceTypes DEF NoneDies, Dead
  <2> QED
    BY Zenon, <1>3, <2>1, <2>3 DEF Inv
<1>7. CASE lamebus_clear_ipi(c) /\ mig' = mig
  <2>1. SchedInv'
    BY Zenon, <1>1, <1>2, <1>7, ClearIpiStep
  <2>2. t_state' = t_state
    BY Zenon, <1>7 DEF lamebus_clear_ipi
  <2> QED
    BY Zenon, <1>3, <1>4, <2>1, <2>2 DEF Inv
<1>8. CASE thread_consider_migration(c)
  <2>1. SchedInv'
    BY Zenon, <1>1, <1>2, <1>8, MigCountStep, MigTakeStep, MigScanStep, MigSendStep, MigBackStep
       DEF thread_consider_migration
  <2>2. t_state' = t_state
    BY Zenon, <1>8 DEF thread_consider_migration, MigCount, MigTake, MigScan, MigSend, MigBack
  <2> QED
    BY Zenon, <1>3, <1>4, <2>1, <2>2 DEF Inv
<1>9. CASE IdleLook(c) /\ mig' = mig
  <2>1. SchedInv'
    BY Zenon, <1>1, <1>2, <1>9, IdleLookStep
  <2>2. Dispatch(c, c_runqueue[c], t_state, c_zombies[c]) /\ t_state \in [Thread -> TStates]
    BY Zenon, <1>1, <1>9, PlaceTypes DEF IdleLook
  <2>3. NoneDies
    BY Zenon, <1>1, <2>2, DispatchDead, ZombiesDead DEF NoneDies
  <2> QED
    BY Zenon, <1>3, <2>1, <2>3 DEF Inv
<1>10. CASE TakeIpi(c) /\ mig' = mig
  <2>1. SchedInv'
    BY Zenon, <1>1, <1>2, <1>10, TakeIpiStep
  <2>2. t_state' = t_state
    BY Zenon, <1>10 DEF TakeIpi
  <2> QED
    BY Zenon, <1>3, <1>4, <2>1, <2>2 DEF Inv
<1>11. CASE hardclock(c)
  <2>1. SchedInv'
    BY Zenon, <1>1, <1>2, <1>11, HardclockStep
  <2>2. t_state' = t_state
    BY Zenon, <1>11 DEF hardclock
  <2> QED
    BY Zenon, <1>3, <1>4, <2>1, <2>2 DEF Inv
<1> QED
  BY Zenon, <1>5, <1>6, <1>7, <1>8, <1>9, <1>10, <1>11 DEF Kernel, InKernel

LEMMA DeviceStep ==
  ASSUME Inv, DeviceInterrupt
  PROVE  Inv'
<1>1. SchedInv /\ ProgInv /\ 0 \in Cpu /\ "lbolt" \in Wchan
  BY Zenon, MenuThread DEF Inv, Wchan
<1>2. /\ act[0] \notin {"wake", "migrate"} /\ wchan_wakeall(0, "lbolt")
      /\ UNCHANGED <<t_state, t_cpu, cpuVars, queueVars, c_runqueue_lock, child, mig>>
      /\ UNCHANGED <<pc, child, num, thread_count, sem_count>>
  BY Zenon DEF DeviceInterrupt, timerclock, Interruptible, progVars, countVars
<1>3. SchedInv'
  BY Zenon, <1>1, <1>2, WakeStep
<1>4. NoneDies
  BY Zenon, <1>2 DEF NoneDies
<1>5. ProgInv'
  BY Zenon, <1>1, <1>2, <1>4, ProgFrame
<1> QED
  BY Zenon, <1>3, <1>5 DEF Inv

LEMMA CountRange ==
  /\ CountMod \in Nat \ {0} /\ 1 \in 0 .. CountMod - 1
  /\ \A n \in 0 .. CountMod - 1 : /\ (n + 1) % CountMod \in 0 .. CountMod - 1
                                  /\ (n + CountMod - 1) % CountMod \in 0 .. CountMod - 1
<1>1. CountMod \in Nat \ {0, 1}
  BY Zenon, ThreadsAssumption
<1>2. \A a \in Nat, b \in Nat \ {0} : a % b \in 0 .. b - 1
  OBVIOUS
<1>3. \A n \in 0 .. CountMod - 1 : n + 1 \in Nat /\ n + CountMod - 1 \in Nat
  BY <1>1
<1> QED
  BY <1>1, <1>2, <1>3

LEMMA BootPStep ==
  ASSUME Inv, NEW c \in Cpu, BootP(c)
  PROVE  Inv'
<1> DEFINE t == c_curthread[c]
<1>1. At(c, "boot") /\ "sem_wchan" \in Wchan /\ mig' = mig
  BY Zenon DEF BootP, P, Wchan
<1>2. /\ SchedInv /\ ProgInv /\ PlaceInv /\ act[c] \notin {"wake", "migrate"} /\ ~c_isidle[c]
      /\ t \in Thread /\ pc[t] = "boot" /\ ProgTypes /\ ThreadInv /\ BootInv(pc, num, sem_count)
  BY Zenon, <1>1, AtFacts
<1>3. CASE thread_switch(c, "S_SLEEP", "sem_wchan") /\ UNCHANGED <<progVars, countVars>>
  <2>1. UNCHANGED <<pc, child, num, thread_count, sem_count>>
    BY Zenon, <1>3 DEF progVars, countVars
  <2>2. SchedInv'
    BY Zenon, <1>1, <1>2, <1>3, <2>1, SwitchStep
  <2>3. NoneDies
    BY Zenon, <1>2, <1>3, SwitchDead DEF NoneDies
  <2> QED
    BY Zenon, <1>2, <2>1, <2>2, <2>3, ProgFrame DEF Inv
<1>4. CASE /\ sem_count > 0 /\ sem_count' = sem_count - 1
           /\ num' = [num EXCEPT ![t] = num[t] + 1] /\ UNCHANGED pc
           /\ UNCHANGED <<t_state, t_cpu, cpuVars, queueVars, c_runqueue_lock, chanVars, act, thread_count, child>>
  <2>1. SchedInv'
    BY Zenon, <1>1, <1>2, <1>4, QuietStep
  <2>2. t = Menu
    BY Zenon, <1>2 DEF ThreadInv
  <2>3. ProgTypes'
    BY <1>2, <1>4 DEF ProgTypes
  <2>4. ThreadInv'
    BY Zenon, <1>2, <1>4 DEF ThreadInv
  <2>5. num'[Menu] = num[Menu] + 1 /\ num[Menu] \in Nat /\ sem_count \in Nat
    BY Zenon, <1>2, <1>4, <2>2 DEF ProgTypes
  <2>6. BootInv(pc, num, sem_count)'
    <3>1. Hatching(pc)' = Hatching(pc) /\ pc'[Menu] = "boot"
      BY Zenon, <1>2, <1>4, <2>2 DEF Hatching
    <3>2. Cardinality(Hatching(pc)) + sem_count + num[Menu] = NumCpus - 1
      BY Zenon, <1>2, <2>2 DEF BootInv
    <3>3. PICK h \in Nat : h = Cardinality(Hatching(pc))
      BY Zenon, HatchingCount
    <3>4. h + sem_count' + num'[Menu] = NumCpus - 1
      BY <1>4, <2>5, <3>2, <3>3, SchedAssumption
    <3> QED
      BY Zenon, <3>1, <3>3, <3>4 DEF BootInv
  <2> QED
    BY Zenon, <2>1, <2>3, <2>4, <2>6 DEF Inv, ProgInv
<1> QED
  BY Zenon, <1>3, <1>4 DEF BootP, P

LEMMA BootDoneStep ==
  ASSUME Inv, NEW c \in Cpu, BootDone(c)
  PROVE  Inv'
<1> DEFINE t == c_curthread[c]
<1>1. /\ At(c, "boot") /\ num[t] = NumCpus - 1 /\ thread_count' = 1 /\ num' = [num EXCEPT ![t] = 0]
      /\ pc' = [pc EXCEPT ![t] = "body"] /\ sem_count' = sem_count /\ child' = child /\ t_state' = t_state
      /\ UNCHANGED <<t_state, t_cpu, cpuVars, queueVars, c_runqueue_lock, chanVars, act, mig, child>>
  BY Zenon DEF BootDone, Goto
<1>2. /\ SchedInv /\ t \in Thread /\ pc[t] = "boot" /\ ProgTypes /\ ThreadInv /\ BootInv(pc, num, sem_count)
      /\ t_state[t] \notin Dead
  BY Zenon, <1>1, AtFacts
<1>3. SchedInv'
  BY Zenon, <1>1, <1>2, QuietStep
<1>4. t = Menu
  BY Zenon, <1>2 DEF ThreadInv
<1>5. Hatching(pc) = {} /\ sem_count = 0
  <2>1. Cardinality(Hatching(pc)) + sem_count + num[Menu] = NumCpus - 1
    BY Zenon, <1>2, <1>4 DEF BootInv
  <2>2. PICK h \in Nat : h = Cardinality(Hatching(pc))
    BY Zenon, HatchingCount
  <2>3. h = 0 /\ sem_count = 0
    BY <1>1, <1>2, <1>4, <2>1, <2>2, SchedAssumption DEF ProgTypes
  <2> QED
    BY Zenon, <2>2, <2>3, HatchingCount
<1>6. ProgTypes'
  BY Zenon, <1>1, <1>2, CountRange DEF ProgTypes, Pcs
<1>7. ThreadInv'
  <2>1. pc'[t] = "body" /\ \A u \in Thread \ {t} : pc'[u] = pc[u]
    BY Zenon, <1>1, <1>2 DEF ProgTypes
  <2> HIDE DEF t
  <2> QED
    BY Zenon, <1>1, <1>2, <2>1 DEF ThreadInv
<1>8. BootInv(pc, num, sem_count)'
  <2>1. pc'[Menu] = "body" /\ \A u \in Thread \ {Menu} : pc'[u] = pc[u]
    BY Zenon, <1>1, <1>2, <1>4 DEF ProgTypes
  <2>2. Hatching(pc)' = {}
    BY Zenon, <1>5, <2>1 DEF Hatching
  <2> QED
    BY ZenonT(60), <1>1, <1>5, <2>1, <2>2 DEF BootInv
<1> QED
  BY Zenon, <1>3, <1>6, <1>7, <1>8 DEF Inv, ProgInv

LEMMA HatchStep ==
  ASSUME Inv, NEW c \in Cpu, cpu_hatch(c)
  PROVE  Inv'
<1> DEFINE t == c_curthread[c]
<1>1. /\ At(c, "hatch") /\ pc' = [pc EXCEPT ![t] = "exit"] /\ sem_count' = sem_count + 1
      /\ num' = num /\ thread_count' = thread_count /\ child' = child /\ t_state' = t_state
      /\ wchan_wakeone(c, "sem_wchan") /\ "sem_wchan" \in Wchan
      /\ UNCHANGED <<t_state, t_cpu, cpuVars, queueVars, c_runqueue_lock, child, mig>>
  BY Zenon DEF cpu_hatch, V, Goto, Wchan
<1>2. /\ SchedInv /\ t \in Thread /\ pc[t] = "hatch" /\ ProgTypes /\ ThreadInv /\ BootInv(pc, num, sem_count)
      /\ t_state[t] \notin Dead /\ act[c] \notin {"wake", "migrate"}
  BY Zenon, <1>1, AtFacts
<1>3. SchedInv'
  BY ZenonT(60), <1>1, <1>2, WakeStep
<1>4. pc[Menu] = "boot" /\ t # Menu
  BY Zenon, <1>2 DEF BootInv, Hatching
<1> HIDE DEF t
<1>5. pc' \in [Thread -> Pcs] /\ pc'[t] = "exit" /\ \A u \in Thread \ {t} : pc'[u] = pc[u]
  BY Zenon, <1>1, <1>2 DEF ProgTypes, Pcs
<1>6. ProgTypes'
  BY <1>1, <1>2, <1>5 DEF ProgTypes
<1>7. ThreadInv'
  BY Zenon, <1>1, <1>2, <1>5 DEF ThreadInv
<1>8. BootInv(pc, num, sem_count)'
  <2>1. Hatching(pc)' = Hatching(pc) \ {t} /\ t \in Hatching(pc)
    BY Zenon, <1>2, <1>5 DEF Hatching
  <2>2. Cardinality(Hatching(pc)') = Cardinality(Hatching(pc)) - 1
    BY Zenon, <2>1, HatchingCount, FS_RemoveElement
  <2>3. PICK h \in Nat : h = Cardinality(Hatching(pc))
    BY Zenon, HatchingCount
  <2>4. h + sem_count + num[Menu] = NumCpus - 1
    BY Zenon, <1>2, <1>4, <2>3 DEF BootInv
  <2>5. num[Menu] \in Nat /\ sem_count \in Nat
    BY Zenon, <1>2, MenuThread DEF ProgTypes
  <2>6. (h - 1) + sem_count' + num'[Menu] = NumCpus - 1
    BY SMTT(30), <1>1, <2>4, <2>5, SchedAssumption
  <2>7. pc'[Menu] = "boot"
    BY Zenon, <1>4, <1>5, MenuThread
  <2>8. Cardinality(Hatching(pc)') + sem_count' + num'[Menu] = NumCpus - 1
    BY Zenon, <2>2, <2>3, <2>6
  <2> QED
    BY Zenon, <2>7, <2>8 DEF BootInv
<1> QED
  BY Zenon, <1>3, <1>6, <1>7, <1>8 DEF Inv, ProgInv

LEMMA ForkStep ==
  ASSUME Inv, NEW c \in Cpu, NEW u \in Thread, thread_fork(c, u) \/ common_prog(c, u)
  PROVE  Inv'
<1> DEFINE t == c_curthread[c]
<1>1. ForkCount(c, u) /\ num' = num /\ \E l \in {"body", "menu"} : At(c, l)
  BY Zenon DEF thread_fork, common_prog
<1>2. /\ SchedInv /\ PlaceInv /\ t \in Thread /\ pc[t] \in {"body", "menu"} /\ ProgTypes /\ ThreadInv
      /\ BootInv(pc, num, sem_count) /\ t_state[t] \notin Dead /\ act[c] = "thread"
  BY Zenon, <1>1, AtFacts
<1>3. child[t] = NONE
  BY Zenon, <1>2 DEF ThreadInv
<1>4. SchedInv'
  BY Zenon, <1>1, <1>2, <1>3, ForkCountStep
<1>5. /\ t_state[u] = "none" /\ thread_count' = (thread_count + 1) % CountMod /\ sem_count' = sem_count
      /\ t_state' = [t_state EXCEPT ![u] = "S_READY"]
      /\ pc' = [pc EXCEPT ![t] = "fork", ![u] = "body"] /\ child' = [child EXCEPT ![t] = u]
  BY Zenon, <1>1 DEF ForkCount
<1>6. u # t /\ pc[u] = "none" /\ child[u] = NONE /\ u # NONE
  BY Zenon, <1>2, <1>5, SchedAssumption DEF ThreadInv, Dead
<1> HIDE DEF t
<1>7. /\ pc' \in [Thread -> Pcs] /\ pc'[t] = "fork" /\ pc'[u] = "body"
      /\ \A v \in Thread \ {t, u} : pc'[v] = pc[v]
  BY Zenon, <1>2, <1>5, <1>6 DEF ProgTypes, Pcs
<1>8. child'[t] = u /\ \A v \in Thread \ {t} : child'[v] = child[v]
  BY Zenon, <1>2, <1>5, PlaceTypes
<1>9. t_state'[u] = "S_READY" /\ \A v \in Thread \ {u} : t_state'[v] = t_state[v]
  BY Zenon, <1>2, <1>5, PlaceTypes
<1>10. ProgTypes'
  BY Zenon, <1>1, <1>2, <1>5, <1>7, CountRange DEF ProgTypes
<1>11. ThreadInv'
  BY <1>2, <1>6, <1>7, <1>8, <1>9 DEF ThreadInv, Dead
<1>12. BootInv(pc', num', sem_count)
  <2>1. \A v \in Thread : pc'[v] = "hatch" <=> pc[v] = "hatch"
    BY Zenon, <1>2, <1>6, <1>7
  <2>2. (pc'[Menu] = "boot" <=> pc[Menu] = "boot") /\ (pc[Menu] = "boot" => num'[Menu] = num[Menu])
    BY Zenon, <1>1, <1>2, <1>6, <1>7, MenuThread
  <2> QED
    BY Zenon, <1>2, <2>1, <2>2, BootFrame
<1>13. BootInv(pc, num, sem_count)'
  BY Zenon, <1>5, <1>12 DEF BootInv, Hatching
<1> QED
  BY Zenon, <1>4, <1>10, <1>11, <1>13 DEF Inv, ProgInv

LEMMA ForkRunInv ==
  ASSUME Inv, NEW c \in Cpu, ForkRun(c)
  PROVE  Inv'
<1> DEFINE t == c_curthread[c]
           u == child[t]
<1>1. At(c, "fork")
  BY Zenon DEF ForkRun
<1>2. /\ SchedInv /\ PlaceInv /\ t \in Thread /\ pc[t] = "fork" /\ ProgTypes /\ ThreadInv
      /\ BootInv(pc, num, sem_count) /\ t_state[t] \notin Dead
  BY ZenonT(60), <1>1, AtFacts
<1>3. child[t] # NONE
  BY Zenon, <1>2 DEF ThreadInv
<1>4. SchedInv'
  BY Zenon, <1>2, <1>3, ForkRunStep
<1>5. /\ t_state' = [t_state EXCEPT ![u] = "S_READY"] /\ child' = [child EXCEPT ![t] = NONE]
      /\ num' = num /\ thread_count' = thread_count /\ sem_count' = sem_count
      /\ \E l \in {"count", "body"} : pc' = [pc EXCEPT ![t] = l]
  <2>1. Goto(c, IF t = Menu /\ "menu" \in Calls THEN "count" ELSE "body")
    BY Zenon DEF ForkRun
  <2>2. \E l \in {"count", "body"} : pc' = [pc EXCEPT ![t] = l]
    <3>1. CASE t = Menu /\ "menu" \in Calls
      BY Zenon, <2>1, <3>1 DEF Goto
    <3>2. CASE ~(t = Menu /\ "menu" \in Calls)
      BY Zenon, <2>1, <3>2 DEF Goto
    <3> QED
      BY Zenon, <3>1, <3>2
  <2> QED
    BY Zenon, <2>2 DEF ForkRun, thread_make_runnable, countVars
<1>6. PICK l \in {"count", "body"} : pc' = [pc EXCEPT ![t] = l]
  BY Zenon, <1>5
<1> HIDE DEF t, u
<1>7. pc' \in [Thread -> Pcs] /\ pc'[t] = l /\ \A v \in Thread \ {t} : pc'[v] = pc[v]
  BY Zenon, <1>2, <1>6 DEF ProgTypes, Pcs
<1>8. child'[t] = NONE /\ \A v \in Thread \ {t} : child'[v] = child[v]
  BY Zenon, <1>2, <1>5, PlaceTypes
<1>9. \A v \in Thread : t_state'[v] = t_state[v] \/ t_state'[v] = "S_READY"
  BY Zenon, <1>2, <1>5, PlaceTypes
<1>10. ProgTypes'
  BY Zenon, <1>2, <1>5, <1>7 DEF ProgTypes
<1>11. ThreadInv'
  BY Zenon, <1>2, <1>7, <1>8, <1>9 DEF ThreadInv, Dead
<1>12. BootInv(pc', num', sem_count)
  <2>1. \A v \in Thread : pc'[v] = "hatch" <=> pc[v] = "hatch"
    BY Zenon, <1>2, <1>7
  <2>2. (pc'[Menu] = "boot" <=> pc[Menu] = "boot") /\ (pc[Menu] = "boot" => num'[Menu] = num[Menu])
    BY Zenon, <1>2, <1>5, <1>7, MenuThread
  <2> QED
    BY Zenon, <1>2, <2>1, <2>2, BootFrame
<1>13. BootInv(pc, num, sem_count)'
  BY Zenon, <1>5, <1>12 DEF BootInv, Hatching
<1> QED
  BY Zenon, <1>4, <1>10, <1>11, <1>13 DEF Inv, ProgInv

(* The steps that move a thread on in its program, neither booting nor forking. *)
LEMMA GoesOn ==
  ASSUME Inv, NEW c \in Cpu, NEW from \in {"body", "menu", "count", "exit", "exit_dec", "exit_switch", "lbolt"},
         At(c, from), NEW l \in Pcs \ {"fork", "boot", "hatch"}, Goto(c, l), SchedInv',
         child' = child, sem_count' = sem_count, thread_count' \in 0 .. CountMod - 1,
         num' = num \/ \E n \in Nat : num' = [num EXCEPT ![c_curthread[c]] = n],
         \A u \in Thread : t_state'[u] \in Dead => t_state[u] \in Dead \/ (u = c_curthread[c] /\ l = "none")
  PROVE  Inv'
<1> DEFINE t == c_curthread[c]
<1>1. /\ ProgInv /\ t \in Thread /\ pc[t] = from /\ t_state[t] \notin Dead
  BY Zenon, AtFacts
<1>2. pc[t] \notin {"fork", "boot", "hatch"} /\ pc' = [pc EXCEPT ![t] = l]
  BY Zenon, <1>1 DEF Goto
<1>3. \A u \in Thread : t_state'[u] \in Dead => IF u = t THEN l = "none" ELSE t_state[u] \in Dead
  BY Zenon, <1>1
<1>4. num' = num \/ \E n \in Nat : num' = [num EXCEPT ![t] = n]
  BY Zenon
<1> HIDE DEF t
<1>5. ProgInv'
  BY Zenon, <1>1, <1>2, <1>3, <1>4, ProgGoesOn
<1> QED
  BY ZenonT(60), <1>5 DEF Inv

LEMMA MenuReadStep ==
  ASSUME Inv, NEW c \in Cpu, MenuRead(c)
  PROVE  Inv'
<1>1. /\ At(c, "body") /\ Goto(c, "menu") /\ child' = child /\ sem_count' = sem_count /\ t_state' = t_state
      /\ thread_count' = thread_count /\ num' = [num EXCEPT ![c_curthread[c]] = thread_count]
      /\ UNCHANGED <<t_state, t_cpu, cpuVars, queueVars, c_runqueue_lock, chanVars, act, mig, child>>
  BY Zenon DEF MenuRead, countVars
<1>2. SchedInv' /\ thread_count \in 0 .. CountMod - 1
  BY Zenon, <1>1, QuietStep DEF Inv, ProgInv, ProgTypes
<1>3. thread_count \in Nat
  BY <1>2, CountRange
<1>4. "menu" \in Pcs \ {"fork", "boot", "hatch"}
  BY Zenon DEF Pcs
<1> QED
  BY Zenon, <1>1, <1>2, <1>3, <1>4, GoesOn

LEMMA WaitForCountStep ==
  ASSUME Inv, NEW c \in Cpu, thread_wait_for_count(c)
  PROVE  Inv'
<1>1. At(c, "count") /\ mig' = mig /\ "thread_count_wchan" \in Wchan
  BY Zenon DEF thread_wait_for_count, Wchan
<1>2. /\ SchedInv /\ ProgInv /\ PlaceInv /\ act[c] \notin {"wake", "migrate"} /\ ~c_isidle[c]
      /\ thread_count \in 0 .. CountMod - 1
  BY Zenon, <1>1, AtFacts DEF ProgTypes
<1>3. CASE thread_switch(c, "S_SLEEP", "thread_count_wchan") /\ UNCHANGED <<progVars, countVars>>
  <2>1. UNCHANGED <<pc, child, num, thread_count, sem_count>>
    BY Zenon, <1>3 DEF progVars, countVars
  <2>2. SchedInv'
    BY Zenon, <1>1, <1>2, <1>3, <2>1, SwitchStep
  <2>3. NoneDies
    BY Zenon, <1>2, <1>3, SwitchDead DEF NoneDies
  <2> QED
    BY Zenon, <1>2, <2>1, <2>2, <2>3, ProgFrame DEF Inv
<1>4. CASE /\ Goto(c, "body") /\ num' = [num EXCEPT ![c_curthread[c]] = 0]
           /\ UNCHANGED <<t_state, t_cpu, cpuVars, queueVars, c_runqueue_lock, chanVars, act, child, countVars>>
  <2>1. SchedInv'
    BY Zenon, <1>1, <1>2, <1>4, QuietStep
  <2>2. child' = child /\ sem_count' = sem_count /\ thread_count' = thread_count /\ t_state' = t_state
    BY Zenon, <1>4 DEF countVars
  <2>3. "body" \in Pcs \ {"fork", "boot", "hatch"} /\ 0 \in Nat
    BY Zenon DEF Pcs
  <2> QED
    BY Zenon, <1>1, <1>2, <1>4, <2>1, <2>2, <2>3, GoesOn
<1> QED
  BY Zenon, <1>3, <1>4 DEF thread_wait_for_count

LEMMA ExitStep ==
  ASSUME Inv, NEW c \in Cpu, thread_exit(c)
  PROVE  Inv'
<1>0. /\ "exit" \in Pcs \ {"fork", "boot", "hatch"} /\ "exit_dec" \in Pcs \ {"fork", "boot", "hatch"}
      /\ "exit_switch" \in Pcs \ {"fork", "boot", "hatch"} /\ "none" \in Pcs \ {"fork", "boot", "hatch"}
      /\ "thread_count_wchan" \in Wchan
  BY Zenon DEF Pcs, Wchan
<1>1. SchedInv /\ thread_count \in 0 .. CountMod - 1
  BY Zenon DEF Inv, ProgInv, ProgTypes
<1>2. CASE Exit(c) \/ ExitLook(c)
  <2>1. PICK from \in {"body", "exit"} : At(c, from)
    BY Zenon, <1>2 DEF Exit, ExitLook
  <2>2. PICK l \in {"exit", "exit_dec", "exit_switch"} : Goto(c, l)
    <3>1. CASE Exit(c)
      BY Zenon, <3>1 DEF Exit
    <3>2. CASE ExitLook(c) /\ thread_count # 0
      <4>1. Goto(c, "exit_dec")
        BY Zenon, <3>2 DEF ExitLook
      <4> QED
        BY Zenon, <4>1
    <3>3. CASE ExitLook(c) /\ thread_count = 0
      <4>1. Goto(c, "exit_switch")
        BY Zenon, <3>3 DEF ExitLook
      <4> QED
        BY Zenon, <4>1
    <3> QED
      BY Zenon, <1>2, <3>1, <3>2, <3>3
  <2>3. /\ child' = child /\ num' = num /\ sem_count' = sem_count /\ thread_count' = thread_count /\ t_state' = t_state
        /\ UNCHANGED <<t_state, t_cpu, cpuVars, queueVars, c_runqueue_lock, chanVars, act, mig, child>>
    BY Zenon, <1>2 DEF Exit, ExitLook, countVars
  <2>4. SchedInv'
    BY Zenon, <1>1, <2>3, QuietStep
  <2> QED
    BY Zenon, <1>0, <1>1, <2>1, <2>2, <2>3, <2>4, GoesOn
<1>3. CASE ExitCount(c)
  <2>1. /\ At(c, "exit_dec") /\ Goto(c, "exit_switch") /\ wchan_wakeall(c, "thread_count_wchan")
        /\ child' = child /\ num' = num /\ sem_count' = sem_count /\ t_state' = t_state
        /\ thread_count' = (thread_count + CountMod - 1) % CountMod
        /\ UNCHANGED <<t_state, t_cpu, cpuVars, queueVars, c_runqueue_lock, child, mig>>
    BY Zenon, <1>3 DEF ExitCount
  <2>2. act[c] \notin {"wake", "migrate"}
    BY Zenon, <2>1, AtFacts
  <2>3. SchedInv'
    BY Zenon, <1>0, <1>1, <2>1, <2>2, WakeStep
  <2>4. thread_count' \in 0 .. CountMod - 1
    BY Zenon, <1>1, <2>1, CountRange
  <2> QED
    BY Zenon, <1>0, <2>1, <2>3, <2>4, GoesOn
<1>4. CASE ExitSwitch(c)
  <2>1. /\ At(c, "exit_switch") /\ Goto(c, "none") /\ thread_switch(c, "S_ZOMBIE", NONE)
        /\ child' = child /\ num' = num /\ sem_count' = sem_count /\ thread_count' = thread_count /\ mig' = mig
    BY Zenon, <1>4 DEF ExitSwitch, countVars
  <2>2. act[c] \notin {"wake", "migrate"} /\ ~c_isidle[c] /\ PlaceInv
    BY ZenonT(60), <2>1, AtFacts
  <2>3. SchedInv'
    BY Zenon, <1>1, <2>1, <2>2, SwitchStep
  <2>4. \A u \in Thread : t_state'[u] \in Dead => t_state[u] \in Dead \/ u = c_curthread[c]
    BY Zenon, <2>1, <2>2, SwitchDead
  <2> QED
    BY Zenon, <1>0, <1>1, <2>1, <2>3, <2>4, GoesOn
<1> QED
  BY Zenon, <1>2, <1>3, <1>4 DEF thread_exit

LEMMA ClocksleepStep ==
  ASSUME Inv, NEW c \in Cpu, clocksleep(c)
  PROVE  Inv'
<1>0. /\ "body" \in Pcs \ {"fork", "boot", "hatch"} /\ "lbolt" \in Pcs \ {"fork", "boot", "hatch"} /\ "lbolt" \in Wchan
  BY Zenon DEF Pcs, Wchan
<1>1. SchedInv /\ thread_count \in 0 .. CountMod - 1
  BY Zenon DEF Inv, ProgInv, ProgTypes
<1>2. child' = child /\ num' = num /\ sem_count' = sem_count /\ thread_count' = thread_count /\ mig' = mig
  BY Zenon DEF clocksleep, countVars
<1>3. CASE At(c, "body") /\ thread_switch(c, "S_SLEEP", "lbolt") /\ Goto(c, "lbolt")
  <2>1. act[c] \notin {"wake", "migrate"} /\ ~c_isidle[c] /\ PlaceInv
    BY ZenonT(60), <1>3, AtFacts
  <2>2. SchedInv'
    BY Zenon, <1>0, <1>1, <1>2, <1>3, <2>1, SwitchStep
  <2>3. \A u \in Thread : t_state'[u] \in Dead => t_state[u] \in Dead
    BY Zenon, <1>3, <2>1, SwitchDead
  <2> QED
    BY Zenon, <1>0, <1>1, <1>2, <1>3, <2>2, <2>3, GoesOn
<1>4. CASE /\ At(c, "lbolt") /\ Goto(c, "body")
           /\ UNCHANGED <<t_state, t_cpu, cpuVars, queueVars, c_runqueue_lock, chanVars, act>>
  <2>1. SchedInv'
    BY Zenon, <1>1, <1>2, <1>4, QuietStep
  <2>2. t_state' = t_state
    BY Zenon, <1>4
  <2> QED
    BY Zenon, <1>0, <1>1, <1>2, <1>4, <2>1, <2>2, GoesOn
<1> QED
  BY Zenon, <1>3, <1>4 DEF clocksleep

LEMMA NextStep ==
  ASSUME Inv, [Next]_vars
  PROVE  Inv'
<1>1. ASSUME NEW c \in Cpu, Program(c) PROVE Inv'
  BY Zenon, <1>1, BootPStep, BootDoneStep, HatchStep, MenuReadStep, ForkStep, ForkRunInv, WaitForCountStep, ExitStep,
     ClocksleepStep DEF Program
<1>2. CASE UNCHANGED vars
  <2>1. /\ UNCHANGED <<t_state, t_cpu, cpuVars, queueVars, c_runqueue_lock, chanVars, act, mig, child>>
        /\ UNCHANGED <<pc, child, num, thread_count, sem_count>> /\ t_state' = t_state
    BY Zenon, <1>2 DEF vars, cpuVars, queueVars, chanVars
  <2>2. SchedInv'
    BY Zenon, <2>1, QuietStep DEF Inv
  <2>3. ProgInv'
    BY Zenon, <2>1, ProgFrame DEF Inv, NoneDies
  <2> QED
    BY Zenon, <2>2, <2>3 DEF Inv
<1> QED
  BY Zenon, <1>1, <1>2, DeviceStep, KernelStep DEF Next
-----------------------------------------------------------------------------
LEMMA InitProg ==
  ASSUME Init
  PROVE  ProgInv
<1>1. /\ pc = [t \in Thread |-> IF t = Menu THEN "boot"
                                ELSE IF \E c \in Cpu : BootThread[c] = t THEN "hatch" ELSE "none"]
      /\ child = [t \in Thread |-> NONE] /\ num = [t \in Thread |-> 0] /\ thread_count = 0 /\ sem_count = 0
      /\ t_state = [t \in Thread |-> IF \E c \in Cpu : BootThread[c] = t THEN "S_RUN" ELSE "none"]
  BY Zenon DEF Init, SchedInit
<1>2. ProgTypes
  <2>1. 0 \in 0 .. CountMod - 1
    BY CountRange
  <2> QED
    BY Zenon, <1>1, <2>1 DEF ProgTypes, Pcs
<1>3. ThreadInv
  <2>1. \E c \in Cpu : BootThread[c] = Menu
    BY Zenon, MenuThread DEF Menu
  <2> QED
    BY Zenon, <1>1, <2>1 DEF ThreadInv, Dead
<1>4. BootInv(pc, num, sem_count)
  <2> DEFINE S == 1 .. NumCpus - 1
             f == [c \in S |-> BootThread[c]]
  <2>1. NumCpus \in Nat \ {0} /\ BootThread \in [Cpu -> Thread] /\ \A c, d \in Cpu : BootThread[c] = BootThread[d] => c = d
    BY Zenon, SchedAssumption
  <2>2. S = Cpu \ {0} /\ Menu = BootThread[0] /\ Menu \in Thread /\ 0 \in Cpu
    BY <2>1, MenuThread DEF Cpu, Menu
  <2>3. Hatching(pc) = {t \in Thread : t # Menu /\ \E c \in Cpu : BootThread[c] = t}
    BY Zenon, <1>1 DEF Hatching
  <2>4. \A t \in Hatching(pc) : \E c \in S : f[c] = t
    <3>1. ASSUME NEW t \in Hatching(pc) PROVE \E c \in S : f[c] = t
      <4>1. PICK c \in Cpu : BootThread[c] = t /\ c # 0
        BY Zenon, <2>2, <2>3
      <4>2. c \in S
        BY Zenon, <2>2, <4>1
      <4> QED
        BY Zenon, <4>1, <4>2
    <3> QED
      BY Zenon, <3>1
  <2>5. \A c \in S : f[c] \in Hatching(pc)
    BY Zenon, <2>1, <2>2, <2>3
  <2>6. \A c, d \in S : f[c] = f[d] => c = d
    BY Zenon, <2>1, <2>2
  <2>7. f \in Bijection(S, Hatching(pc))
    <3>1. f \in [S -> Hatching(pc)] /\ DOMAIN f = S
      BY Zenon, <2>5
    <3> HIDE DEF f, S
    <3> QED
      BY Zenon, <2>4, <2>6, <3>1 DEF Bijection, Injection, Surjection, IsInjective
  <2> HIDE DEF f
  <2>8. Cardinality(Hatching(pc)) = Cardinality(S)
    BY <2>1, <2>7, FS_Bijection, FS_Interval DEF ExistsBijection
  <2>9. Cardinality(S) = NumCpus - 1
    BY <2>1, FS_Interval
  <2>10. pc[Menu] = "boot" /\ num[Menu] = 0
    BY Zenon, <1>1, MenuThread
  <2> QED
    BY <1>1, <2>1, <2>8, <2>9, <2>10 DEF BootInv
<1> QED
  BY Zenon, <1>2, <1>3, <1>4 DEF ProgInv

LEMMA InitInv ==
  ASSUME Init
  PROVE  Inv
<1>1. PlaceInv /\ ProgInv
  BY Zenon, InitPlace, InitProg
<1>2. /\ c_isidle = [c \in Cpu |-> FALSE] /\ ipi_line = [c \in Cpu |-> FALSE] /\ c_runqueue_lock = [c \in Cpu |-> NONE]
      /\ wc_lock = [w \in Wchan |-> NONE] /\ act = [c \in Cpu |-> "thread"] /\ tgt = [c \in Cpu |-> NONE]
      /\ mig = [c \in Cpu |-> NoMig] /\ hand = [c \in Cpu |-> <<>>]
  BY Zenon DEF Init, SchedInit, threadlist_init
<1>3. MigTypeOK
  BY Zenon, <1>2, NoMigFacts DEF MigTypeOK, MigRec
<1>4. SchedRest
  BY Zenon, <1>2, <1>3 DEF SchedRest, Acts
<1>5. \A c \in Cpu : CpuInv(c)
  BY Zenon, <1>2, NoMigFacts DEF CpuInv
<1> QED
  BY Zenon, <1>1, <1>4, <1>5 DEF Inv, SchedInv
-----------------------------------------------------------------------------
LEMMA InvTypes ==
  ASSUME Inv
  PROVE  TypeOK
<1>1. PlaceInv /\ SchedRest /\ ProgTypes /\ BootInv(pc, num, sem_count) /\ MigTypeOK
  BY Zenon DEF Inv, SchedInv, ProgInv, SchedRest
<1>2. SchedTypeOK
  BY Zenon, <1>1, PlaceTypes DEF SchedTypeOK, SchedRest, TStates
<1>3. sem_count \in 0 .. NumCpus - 1
  <2>1. CASE pc[Menu] = "boot"
    <3>1. PICK h \in Nat : h = Cardinality(Hatching(pc))
      BY Zenon, HatchingCount
    <3>2. h + sem_count + num[Menu] = NumCpus - 1 /\ num[Menu] \in Nat /\ sem_count \in Nat
      BY Zenon, <1>1, <2>1, <3>1, MenuThread DEF BootInv, ProgTypes
    <3> QED
      BY <3>2, SchedAssumption
  <2>2. CASE pc[Menu] # "boot"
    BY <1>1, <2>2, SchedAssumption DEF BootInv
  <2> QED
    BY Zenon, <2>1, <2>2
<1>4. child \in [Thread -> Thread \cup {NONE}]
  BY Zenon, <1>1, PlaceTypes
<1> QED
  BY Zenon, <1>1, <1>2, <1>3, <1>4 DEF TypeOK, ProgTypes

LEMMA InvOnePlace ==
  ASSUME Inv
  PROVE  OnePlace
<1>1. PICK k, x : /\ Lists(c_runqueue, c_zombies, hand, Victims, wc_threads, k, x)
                  /\ States(t_state, t_cpu, c_curthread, Idle, child, k, x)
  BY Zenon DEF Inv, SchedInv, PlaceInv
<1>2. c_isidle \in [Cpu -> BOOLEAN] /\ k \in [Thread -> Kinds]
  BY Zenon, <1>1 DEF Inv, SchedInv, SchedRest, Lists, PlaceType
<1>3. ASSUME NEW t \in Thread
      PROVE  LET on == {c \in Cpu : c_curthread[c] = t /\ ~c_isidle[c]}
                 new == \E p \in Thread : child[p] = t IN
             CASE t_state[t] = "S_RUN" -> Cardinality(on) = 1 /\ Places(t) = {}
               [] t_state[t] = "none" -> on = {} /\ Places(t) = {}
               [] OTHER -> /\ on = {}
                           /\ Cardinality(Places(t)) = IF new THEN 0 ELSE 1
                           /\ \A p \in Places(t) : p[1][1] \in Home[t_state[t]]
  <2> DEFINE on == {c \in Cpu : c_curthread[c] = t /\ ~c_isidle[c]}
             new == \E p \in Thread : child[p] = t
  <2>1. /\ k[t] = "none" => Places(t) = {}
        /\ k[t] # "none" => Cardinality(Places(t)) = 1
        /\ \A p \in Places(t) : p[1][1] = k[t]
    <3>1. /\ k[t] = "none" => Places(t) = {}
          /\ k[t] # "none" => \E q : Places(t) = {q}
          /\ \A p \in Places(t) : p[1][1] = k[t]
      BY Zenon, <1>1, PlacesOf
    <3> QED
      BY Zenon, <3>1, FS_Singleton
  <2>2. /\ t_state[t] \in TStates /\ k[t] \in Kinds /\ t_cpu[t] \in Cpu
        /\ k[t] \in {"runqueue", "victims"} => t_state[t] = "S_READY"
        /\ k[t] \in {"wchan", "hand"} => t_state[t] = "S_SLEEP"
        /\ k[t] = "zombies" => t_state[t] = "S_ZOMBIE"
        /\ k[t] = "none" /\ t_state[t] \notin {"none", "S_RUN"} => new
        /\ new => k[t] = "none"
    <3>1. /\ k[t] \in {"runqueue", "victims"} => t_state[t] = "S_READY"
          /\ k[t] \in {"wchan", "hand"} => t_state[t] = "S_SLEEP"
          /\ k[t] = "zombies" => t_state[t] = "S_ZOMBIE"
          /\ k[t] = "none" /\ t_state[t] \notin {"none", "S_RUN"} => new
      BY Zenon, <1>1 DEF States
    <3>2. t_state \in [Thread -> TStates] /\ t_cpu \in [Thread -> Cpu]
      BY Zenon, <1>1 DEF States
    <3>3. \A p \in Thread : child[p] # NONE => k[child[p]] = "none"
      BY Zenon, <1>1 DEF States
    <3>4. new => k[t] = "none"
      BY Zenon, <3>3, SchedAssumption
    <3> QED
      BY Zenon, <1>2, <3>1, <3>2, <3>4
  <2>3. \A c \in Cpu : c_curthread[c] = t => t_cpu[t] = c /\ (~c_isidle[c] => t_state[t] = "S_RUN")
    <3>1. \A c \in Cpu : /\ t_cpu[c_curthread[c]] = c
                         /\ c \notin Idle => t_state[c_curthread[c]] = "S_RUN"
      BY Zenon, <1>1 DEF States
    <3> QED
      BY Zenon, <3>1 DEF Idle
  <2>4. t_state[t] = "S_RUN" => c_curthread[t_cpu[t]] = t /\ ~c_isidle[t_cpu[t]]
    BY Zenon, <1>1, <2>2 DEF States, Idle
  <2>5. t_state[t] # "S_RUN" => on = {}
    BY Zenon, <2>3
  <2>6. t_state[t] = "S_RUN" => on = {t_cpu[t]}
    BY Zenon, <2>2, <2>3, <2>4
  <2>7. t_state[t] = "S_RUN" => Cardinality(on) = 1
    BY Zenon, <2>6, FS_Singleton
  <2> HIDE DEF on, new
  <2>8. CASE t_state[t] \in {"S_RUN", "none"}
    <3>1. Places(t) = {}
      BY Zenon, <2>1, <2>2, <2>8 DEF Kinds
    <3> QED
      BY Zenon, <2>5, <2>7, <2>8, <3>1 DEF on
  <2>9. CASE t_state[t] \notin {"S_RUN", "none"}
    <3>1. Cardinality({}) = 0
      BY Zenon, FS_EmptySet
    <3>2. Cardinality(Places(t)) = IF new THEN 0 ELSE 1
      BY Zenon, <2>1, <2>2, <2>9, <3>1
    <3>3. \A p \in Places(t) : p[1][1] \in Home[t_state[t]]
      <4>1. /\ Home["S_READY"] = {"runqueue", "victims"} /\ Home["S_SLEEP"] = {"wchan", "hand"}
            /\ Home["S_ZOMBIE"] = {"zombies"}
        BY Zenon DEF Home
      <4>2. k[t] # "none" => k[t] \in Home[t_state[t]]
        BY Zenon, <2>2, <4>1 DEF Kinds
      <4> QED
        BY Zenon, <2>1, <4>2
    <3> QED
      BY Zenon, <2>5, <2>9, <3>2, <3>3 DEF on, new
  <2> QED
    BY Zenon, <2>8, <2>9
<1> QED
  BY Zenon, <1>3, InvTypes DEF OnePlace
-----------------------------------------------------------------------------
(* The inductive invariant, whatever the number of CPUs and threads. *)
THEOREM Invariance == Spec => []Inv
<1>1. Init => Inv
  BY Zenon, InitInv
<1>2. Inv /\ [Next]_vars => Inv'
  BY Zenon, NextStep
<1> QED
  BY <1>1, <1>2, PTL DEF Spec

(* thread.c never loses or doubles a thread: every thread is in the one place
   its state calls for, through context switches, wakeups, migration, fork and
   exit on any number of CPUs. *)
THEOREM NoThreadLost == Spec => []OnePlace
<1>1. Inv => OnePlace
  BY Zenon, InvOnePlace
<1> QED
  BY <1>1, Invariance, PTL

(* The assertions on curcpu and curthread at the head of thread_switch hold. *)
THEOREM CurthreadExact == Spec => []CurthreadInv
<1>1. Inv => CurthreadInv
  BY Zenon, InvQueues
<1> QED
  BY <1>1, Invariance, PTL

(* A ready thread is on the run queue of the CPU its t_cpu names, although
   wchan_wakeone and wchan_wakeall read t_cpu before they lock that queue. *)
THEOREM RunqueuesExact == Spec => []RunqueueCpu
<1>1. Inv => RunqueueCpu
  BY ZenonT(60), InvQueues
<1> QED
  BY <1>1, Invariance, PTL

(* No wakeup of a CPU that waits in cpu_idle is lost. *)
THEOREM UnidleNotLost == Spec => []NoLostUnidle
<1>1. Inv => NoLostUnidle
  BY Zenon DEF Inv, SchedInv, CpuInv, NoLostUnidle
<1> QED
  BY <1>1, Invariance, PTL

(* thread_consider_migration never takes a thread off an empty list. *)
THEOREM MigrationAlwaysFits == Spec => []MigrationFits
<1>1. Inv => MigrationFits
  BY Zenon DEF Inv, SchedInv, CpuInv, MigrationFits
<1> QED
  BY <1>1, Invariance, PTL

(* A thread moves to another CPU only while it is ready and current nowhere. *)
THEOREM OnlyReadyMove == Spec => MovesOnlyReady
<1> DEFINE A == \A t \in Thread : t_cpu'[t] # t_cpu[t] /\ t_state[t] # "none" =>
                  t_state[t] = "S_READY" /\ \A c \in Cpu : c_curthread[c] # t
<1>1. Inv /\ [Next]_vars => [A]_vars
  BY Zenon, Moves
<1>2. Spec => [][A]_vars
  <2> HIDE DEF A
  <2> QED
    BY <1>1, Invariance, PTL DEF Spec
<1> QED
  BY Zenon, <1>2 DEF MovesOnlyReady
=============================================================================
