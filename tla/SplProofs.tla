----------------------------- MODULE SplProofs ------------------------------
(***************************************************************************)
(* The interrupt state is exact for any number of CPUs, threads and        *)
(* spinlocks.  First what a step of one CPU leaves alone, then the steps   *)
(* that change the level of the current thread (splraise and spllower,     *)
(* traps and interrupts), those that take or give back a spinlock, those   *)
(* of thread_switch and thread_fork, and the theorem.                      *)
(***************************************************************************)
EXTENDS Spl, FiniteSetTheorems, TLAPS

\* What a step of CPU c leaves alone: the other CPUs, the threads not in T, and
\* which locks the other CPUs hold.
Elsewhere(c, T) ==
    /\ \A d \in Cpus \ {c} : /\ cur'[d] = cur[d] /\ (d \in irq' <=> d \in irq)
                             /\ c_spinlocks'[d] = c_spinlocks[d]
                             /\ (d \in c_isidle' <=> d \in c_isidle) /\ Held(d)' = Held(d)
    /\ \A t \in SplThreads \ T :
         /\ t_curspl'[t] = t_curspl[t] /\ t_iplhigh'[t] = t_iplhigh[t] /\ at'[t] = at[t]
         /\ own'[t] = own[t] /\ want'[t] = want[t] /\ cont'[t] = cont[t]
         /\ sw'[t] = sw[t] /\ newstate'[t] = newstate[t] /\ lk'[t] = lk[t]
         /\ intr'[t] = intr[t] /\ (t \in doadjust' <=> t \in doadjust)

\* A CPU whose own state and current thread a step leaves alone stays consistent.
LEMMA CpuFrame ==
    ASSUME SplIInv, NEW c \in Cpus, NEW T, Elsewhere(c, T), NEW d \in Cpus \ {c}, cur[d] \notin T
    PROVE  CpuOK(d)'
<1>1. cur[d] \in SplThreads \ T /\ CpuOK(d)
  BY Zenon DEF SplIInv, SplTypeOK
<1> DEFINE t == cur[d]
<1>2. /\ cur'[d] = t /\ (d \in irq' <=> d \in irq) /\ c_spinlocks'[d] = c_spinlocks[d]
      /\ (d \in c_isidle' <=> d \in c_isidle) /\ Held(d)' = Held(d)
  BY Zenon DEF Elsewhere
<1>3. /\ t_curspl'[t] = t_curspl[t] /\ t_iplhigh'[t] = t_iplhigh[t] /\ at'[t] = at[t]
      /\ own'[t] = own[t] /\ want'[t] = want[t] /\ cont'[t] = cont[t]
      /\ sw'[t] = sw[t] /\ newstate'[t] = newstate[t] /\ lk'[t] = lk[t]
      /\ intr'[t] = intr[t] /\ (t \in doadjust' <=> t \in doadjust)
  BY Zenon, <1>1 DEF Elsewhere
<1>4. OwnAt(d, t) /\ LevelAt(d, t)
  BY Zenon, <1>1 DEF CpuOK
<1>5. (OwnAt(d, cur[d]))'
  BY Zenon, <1>2, <1>3, <1>4 DEF OwnAt, Waits
<1>6. (LevelAt(d, cur[d]))'
  BY Zenon, <1>2, <1>3, <1>4 DEF LevelAt, InSwitch
<1>7. Spins(d)' = Spins(d)
  BY Zenon, <1>2, <1>3 DEF Spins
<1> QED
  BY Zenon, <1>1, <1>2, <1>3, <1>5, <1>6, <1>7 DEF CpuOK

\* A thread that is not running and that a step leaves alone stays as it was switched out.
LEMMA OutFrame ==
    ASSUME SplIInv, NEW c \in Cpus, NEW T, Elsewhere(c, T), NEW t \in SplThreads \ T,
           \A d \in Cpus : cur[d] # t
    PROVE  (at[t] \notin RunPlaces /\ OutOK(t))'
<1>1. at[t] \notin RunPlaces /\ OutOK(t)
  BY Zenon DEF SplIInv
<1> QED
  BY Zenon, <1>1 DEF Elsewhere, OutOK

\* A step of c that only changes c and its current thread keeps the invariant
\* if it keeps c's part of it.
LEMMA Frame ==
    ASSUME SplIInv, NEW c \in Cpus, cur' = cur, Elsewhere(c, {cur[c]}), SplTypeOK', ~splbad', CpuOK(c)'
    PROVE  SplIInv'
<1>1. \A d \in Cpus \ {c} : cur[d] # cur[c]
  BY Zenon DEF SplIInv
<1>2. \A d \in Cpus : CpuOK(d)'
  BY <1>1, CpuFrame
<1>3. \A t \in SplThreads : (\A d \in Cpus : cur'[d] # t) => (at[t] \notin RunPlaces /\ OutOK(t))'
  BY Zenon, OutFrame
<1>4. \A d, e \in Cpus : cur'[d] = cur'[e] => d = e
  BY Zenon DEF SplIInv
<1> QED
  BY Zenon, <1>2, <1>3, <1>4 DEF SplIInv

\* The spinlocks of a thread can be counted.
LEMMA OwnFinite ==
    ASSUME NEW S, S \subseteq SplLocks
    PROVE  IsFiniteSet(S) /\ Cardinality(S) \in Nat
<1>1. IsFiniteSet(SplLocks)
  BY Zenon, SplAssumption, FS_Union DEF SplLocks
<1> QED
  BY Zenon, <1>1, FS_Subset, FS_CardinalityType

\* Facts about the current thread of a CPU that every step starts from.
LEMMA Counts ==
    ASSUME SplIInv, NEW c \in Cpus
    PROVE  /\ cur[c] \in SplThreads /\ CpuOK(c) /\ SplTypeOK /\ ~splbad
           /\ IsFiniteSet(own[cur[c]]) /\ Cardinality(own[cur[c]]) \in Nat
           /\ c_spinlocks[c] \in Nat
           /\ (own[cur[c]] = {} /\ at[cur[c]] # "spin") => c_spinlocks[c] = 0
           /\ at[cur[c]] = "spin" => c_spinlocks[c] > 0
           /\ c_spinlocks[c] = 0 => own[cur[c]] = {}
<1>1. cur[c] \in SplThreads /\ CpuOK(c) /\ SplTypeOK /\ ~splbad /\ own[cur[c]] \subseteq SplLocks
  BY Zenon DEF SplIInv, SplTypeOK
<1>2. IsFiniteSet(own[cur[c]]) /\ Cardinality(own[cur[c]]) \in Nat
  BY Zenon, <1>1, OwnFinite
<1>3. Spins(c) \in Nat /\ (at[cur[c]] = "spin" <=> Spins(c) = 1) /\ (at[cur[c]] # "spin" <=> Spins(c) = 0)
  BY DEF Spins
<1>4. own[cur[c]] = {} <=> Cardinality(own[cur[c]]) = 0
  BY Zenon, <1>2, FS_EmptySet
<1> QED
  BY <1>1, <1>2, <1>3, <1>4 DEF CpuOK

\* Who holds which lock depends on the lock words only.
LEMMA HeldFrame ==
    ASSUME splk_holder' = splk_holder
    PROVE  \A d \in Cpus : Held(d)' = Held(d)
  BY Zenon DEF Held

\* A level changes, or a trap comes or goes, and the locks stay as they are.
LEMMA Quiet ==
    ASSUME SplIInv, NEW c \in Cpus, cur' = cur, Elsewhere(c, {cur[c]}), SplTypeOK', ~splbad',
           splk_holder' = splk_holder, own' = own, c_spinlocks' = c_spinlocks,
           at[cur[c]] # "spin", at'[cur[c]] \in RunPlaces \ {"spin"},
           t_iplhigh'[cur[c]] = t_curspl'[cur[c]] + c_spinlocks[c],
           c \in irq' <=> (t_iplhigh'[cur[c]] = 0 /\ at'[cur[c]] \notin {"trap_in", "trap_out"}),
           OwnAt(c, cur[c])', LevelAt(c, cur[c])'
    PROVE  SplIInv'
<1>1. cur'[c] = cur[c] /\ CpuOK(c)
  BY Zenon, Counts
<1>2. Held(c)' = own'[cur[c]]
  BY Zenon, <1>1, HeldFrame DEF CpuOK
<1>3. c_spinlocks'[c] = Cardinality(own'[cur[c]]) + Spins(c)'
  BY Zenon, <1>1 DEF CpuOK, Spins
<1>4. CpuOK(c)'
  BY Zenon, <1>1, <1>2, <1>3 DEF CpuOK
<1> QED
  BY Zenon, <1>4, Frame

\* splhigh, spl0 and splx.
LEMMA SplSetStep ==
    ASSUME SplIInv, NEW c \in Cpus, NEW spl \in {IPL_NONE, IPL_HIGH}, SplSet(c, spl)
    PROVE  SplIInv'
<1> DEFINE t == cur[c]
<1>1. /\ CpuOK(c) /\ SplTypeOK /\ ~splbad /\ t \in SplThreads /\ c_spinlocks[c] \in Nat
      /\ (own[t] = {} /\ at[t] # "spin") => c_spinlocks[c] = 0
      /\ at[t] = "spin" => c_spinlocks[c] > 0
      /\ c_spinlocks[c] = 0 => own[t] = {}
  BY Zenon, Counts
<1>2. SplTypeOK' /\ ~splbad'
  BY <1>1 DEF SplSet, splx, splraise, spllower, SplTypeOK, CpuOK, OwnAt, LevelAt, IPL_NONE, IPL_HIGH, Places, RunPlaces,
                 SwitchPlaces, swVars, trapVars
<1>3. Elsewhere(c, {cur[c]}) /\ cur' = cur
  BY <1>1, HeldFrame DEF SplSet, splx, splraise, spllower, SplTypeOK, Elsewhere, swVars, trapVars
<1>4. /\ t_iplhigh'[t] = t_curspl'[t] + c_spinlocks[c]
      /\ c \in irq' <=> (t_iplhigh'[t] = 0 /\ at'[t] \notin {"trap_in", "trap_out"})
  BY <1>1 DEF SplSet, splx, splraise, spllower, SplTypeOK, CpuOK, OwnAt, LevelAt, InSwitch, SwitchPlaces, IPL_NONE, IPL_HIGH
<1>5. OwnAt(c, t)'
  BY Zenon, <1>1 DEF SplSet, splx, splraise, spllower, SplTypeOK, CpuOK, OwnAt, LevelAt, Waits, IPL_NONE, IPL_HIGH, swVars, trapVars
<1>6. LevelAt(c, t)'
  BY Zenon, <1>1 DEF SplSet, splx, splraise, spllower, SplTypeOK, CpuOK, LevelAt, InSwitch, SwitchPlaces, IPL_NONE, IPL_HIGH, swVars,
                 trapVars
<1>7. /\ splk_holder' = splk_holder /\ own' = own /\ c_spinlocks' = c_spinlocks /\ at[t] # "spin"
      /\ at'[t] \in RunPlaces \ {"spin"}
  BY Zenon, <1>1 DEF SplSet, splx, splraise, spllower, SplTypeOK, RunPlaces, SwitchPlaces
<1> QED
  BY Zenon, <1>2, <1>3, <1>4, <1>5, <1>6, <1>7, Quiet

\* An interrupt comes in (mips_trap with EX_IRQ, or in cpu_idle).
LEMMA InterruptStep ==
    ASSUME SplIInv, NEW c \in Cpus, Interrupt(c)
    PROVE  SplIInv'
<1> DEFINE t == cur[c]
<1>1. /\ CpuOK(c) /\ SplTypeOK /\ ~splbad /\ t \in SplThreads /\ c_spinlocks[c] \in Nat
      /\ (own[t] = {} /\ at[t] # "spin") => c_spinlocks[c] = 0
      /\ at[t] = "spin" => c_spinlocks[c] > 0
      /\ c_spinlocks[c] = 0 => own[t] = {}
  BY Zenon, Counts
<1>0. at[t] \in {"code", "idle"} /\ intr[t] = "no"
  <2>1. CASE at[t] = "idle"
    BY Zenon, <1>1, <2>1 DEF CpuOK, LevelAt, InSwitch, SwitchPlaces, SplTypeOK
  <2>2. CASE c \in irq
    <3>1. t_curspl[t] = IPL_NONE /\ at[t] # "spin" /\ at[t] \notin {"trap_in", "trap_out"}
      BY <1>1, <2>2 DEF CpuOK, SplTypeOK, IPL_NONE, IPL_HIGH
    <3> QED
      BY <1>1, <3>1 DEF CpuOK, LevelAt, InSwitch, RunPlaces, IPL_NONE, IPL_HIGH
  <2> QED
    BY Zenon, <2>1, <2>2 DEF Interrupt
<1>2. SplTypeOK' /\ ~splbad'
  BY <1>1, <1>0 DEF Interrupt, SplTypeOK, CpuOK, OwnAt, LevelAt, IPL_NONE, IPL_HIGH, Places, RunPlaces,
                 SwitchPlaces, swVars, trapVars
<1>3. Elsewhere(c, {cur[c]}) /\ cur' = cur
  BY Zenon, <1>1, HeldFrame DEF Interrupt, SplTypeOK, Elsewhere, swVars, trapVars
<1>4. /\ t_iplhigh'[t] = t_curspl'[t] + c_spinlocks[c]
      /\ c \in irq' <=> (t_iplhigh'[t] = 0 /\ at'[t] \notin {"trap_in", "trap_out"})
  BY <1>1, <1>0 DEF Interrupt, SplTypeOK, CpuOK, OwnAt, LevelAt, InSwitch, SwitchPlaces, IPL_NONE, IPL_HIGH
<1>5. OwnAt(c, t)'
  BY Zenon, <1>1, <1>0 DEF Interrupt, SplTypeOK, CpuOK, OwnAt, LevelAt, Waits, IPL_NONE, IPL_HIGH, swVars, trapVars
<1>6. LevelAt(c, t)'
  BY <1>1, <1>0 DEF Interrupt, SplTypeOK, CpuOK, LevelAt, InSwitch, SwitchPlaces, IPL_NONE, IPL_HIGH, swVars,
                 trapVars
<1>7. /\ splk_holder' = splk_holder /\ own' = own /\ c_spinlocks' = c_spinlocks /\ at[t] # "spin"
      /\ at'[t] \in RunPlaces \ {"spin"}
  BY Zenon, <1>1, <1>0 DEF Interrupt, SplTypeOK, RunPlaces, SwitchPlaces
<1> QED
  BY Zenon, <1>2, <1>3, <1>4, <1>5, <1>6, <1>7, Quiet

\* The interrupt handler returns.
LEMMA InterruptReturnStep ==
    ASSUME SplIInv, NEW c \in Cpus, InterruptReturn(c)
    PROVE  SplIInv'
<1> DEFINE t == cur[c]
<1>1. /\ CpuOK(c) /\ SplTypeOK /\ ~splbad /\ t \in SplThreads /\ c_spinlocks[c] \in Nat
      /\ (own[t] = {} /\ at[t] # "spin") => c_spinlocks[c] = 0
      /\ at[t] = "spin" => c_spinlocks[c] > 0
      /\ c_spinlocks[c] = 0 => own[t] = {}
  BY Zenon, Counts
<1>2. SplTypeOK' /\ ~splbad'
  BY <1>1 DEF InterruptReturn, SplTypeOK, CpuOK, OwnAt, LevelAt, IPL_NONE, IPL_HIGH, Places, RunPlaces,
                 SwitchPlaces, swVars, trapVars
<1>3. Elsewhere(c, {cur[c]}) /\ cur' = cur
  BY <1>1, HeldFrame DEF InterruptReturn, SplTypeOK, Elsewhere, swVars, trapVars
<1>4. /\ t_iplhigh'[t] = t_curspl'[t] + c_spinlocks[c]
      /\ c \in irq' <=> (t_iplhigh'[t] = 0 /\ at'[t] \notin {"trap_in", "trap_out"})
  BY <1>1 DEF InterruptReturn, SplTypeOK, CpuOK, OwnAt, LevelAt, InSwitch, SwitchPlaces, IPL_NONE, IPL_HIGH
<1>5. OwnAt(c, t)'
  BY Zenon, <1>1 DEF InterruptReturn, SplTypeOK, CpuOK, OwnAt, LevelAt, Waits, IPL_NONE, IPL_HIGH, swVars, trapVars
<1>6. LevelAt(c, t)'
  BY Zenon, <1>1 DEF InterruptReturn, SplTypeOK, CpuOK, LevelAt, InSwitch, SwitchPlaces, IPL_NONE, IPL_HIGH, swVars,
                 trapVars
<1>7. /\ splk_holder' = splk_holder /\ own' = own /\ c_spinlocks' = c_spinlocks /\ at[t] # "spin"
      /\ at'[t] \in RunPlaces \ {"spin"}
  BY Zenon, <1>1 DEF InterruptReturn, SplTypeOK, RunPlaces, SwitchPlaces
<1> QED
  BY Zenon, <1>2, <1>3, <1>4, <1>5, <1>6, <1>7, Quiet

\* A system call or a fault turns interrupts off.
LEMMA TrapStep ==
    ASSUME SplIInv, NEW c \in Cpus, Trap(c)
    PROVE  SplIInv'
<1> DEFINE t == cur[c]
<1>1. /\ CpuOK(c) /\ SplTypeOK /\ ~splbad /\ t \in SplThreads /\ c_spinlocks[c] \in Nat
      /\ (own[t] = {} /\ at[t] # "spin") => c_spinlocks[c] = 0
      /\ at[t] = "spin" => c_spinlocks[c] > 0
      /\ c_spinlocks[c] = 0 => own[t] = {}
  BY Zenon, Counts
<1>2. SplTypeOK' /\ ~splbad'
  BY Zenon, <1>1 DEF Trap, SplTypeOK, CpuOK, OwnAt, LevelAt, IPL_NONE, IPL_HIGH, Places, RunPlaces,
                 SwitchPlaces, swVars, trapVars
<1>3. Elsewhere(c, {cur[c]}) /\ cur' = cur
  BY Zenon, <1>1, HeldFrame DEF Trap, SplTypeOK, Elsewhere, swVars, trapVars
<1>4. /\ t_iplhigh'[t] = t_curspl'[t] + c_spinlocks[c]
      /\ c \in irq' <=> (t_iplhigh'[t] = 0 /\ at'[t] \notin {"trap_in", "trap_out"})
  BY Zenon, <1>1 DEF Trap, SplTypeOK, CpuOK, OwnAt, LevelAt, InSwitch, SwitchPlaces, IPL_NONE, IPL_HIGH
<1>5. OwnAt(c, t)'
  BY <1>1 DEF Trap, SplTypeOK, CpuOK, OwnAt, LevelAt, Waits, IPL_NONE, IPL_HIGH, swVars, trapVars
<1>6. LevelAt(c, t)'
  BY <1>1 DEF Trap, SplTypeOK, CpuOK, LevelAt, InSwitch, SwitchPlaces, IPL_NONE, IPL_HIGH, swVars,
                 trapVars
<1>7. /\ splk_holder' = splk_holder /\ own' = own /\ c_spinlocks' = c_spinlocks /\ at[t] # "spin"
      /\ at'[t] \in RunPlaces \ {"spin"}
  BY Zenon, <1>1 DEF Trap, SplTypeOK, RunPlaces, SwitchPlaces
<1> QED
  BY Zenon, <1>2, <1>3, <1>4, <1>5, <1>6, <1>7, Quiet

\* The splhigh and splx of mips_trap turn interrupts back on.
LEMMA TrapSyncStep ==
    ASSUME SplIInv, NEW c \in Cpus, TrapSync(c)
    PROVE  SplIInv'
<1> DEFINE t == cur[c]
<1>1. /\ CpuOK(c) /\ SplTypeOK /\ ~splbad /\ t \in SplThreads /\ c_spinlocks[c] \in Nat
      /\ (own[t] = {} /\ at[t] # "spin") => c_spinlocks[c] = 0
      /\ at[t] = "spin" => c_spinlocks[c] > 0
      /\ c_spinlocks[c] = 0 => own[t] = {}
  BY Zenon, Counts
<1>2. SplTypeOK' /\ ~splbad'
  BY <1>1 DEF TrapSync, SplTypeOK, CpuOK, OwnAt, LevelAt, IPL_NONE, IPL_HIGH, Places, RunPlaces,
                 SwitchPlaces, swVars, trapVars
<1>3. Elsewhere(c, {cur[c]}) /\ cur' = cur
  BY Zenon, <1>1, HeldFrame DEF TrapSync, SplTypeOK, Elsewhere, swVars, trapVars
<1>4. /\ t_iplhigh'[t] = t_curspl'[t] + c_spinlocks[c]
      /\ c \in irq' <=> (t_iplhigh'[t] = 0 /\ at'[t] \notin {"trap_in", "trap_out"})
  BY Zenon, <1>1 DEF TrapSync, SplTypeOK, CpuOK, OwnAt, LevelAt, InSwitch, SwitchPlaces, IPL_NONE, IPL_HIGH
<1>5. OwnAt(c, t)'
  BY Zenon, <1>1 DEF TrapSync, SplTypeOK, CpuOK, OwnAt, LevelAt, Waits, IPL_NONE, IPL_HIGH, swVars, trapVars
<1>6. LevelAt(c, t)'
  BY Zenon, <1>1 DEF TrapSync, SplTypeOK, CpuOK, LevelAt, InSwitch, SwitchPlaces, IPL_NONE, IPL_HIGH, swVars,
                 trapVars
<1>7. /\ splk_holder' = splk_holder /\ own' = own /\ c_spinlocks' = c_spinlocks /\ at[t] # "spin"
      /\ at'[t] \in RunPlaces \ {"spin"}
  BY Zenon, <1>1 DEF TrapSync, SplTypeOK, RunPlaces, SwitchPlaces
<1> QED
  BY Zenon, <1>2, <1>3, <1>4, <1>5, <1>6, <1>7, Quiet

\* The trap is handled and interrupts go off again.
LEMMA TrapDoneStep ==
    ASSUME SplIInv, NEW c \in Cpus, TrapDone(c)
    PROVE  SplIInv'
<1> DEFINE t == cur[c]
<1>1. /\ CpuOK(c) /\ SplTypeOK /\ ~splbad /\ t \in SplThreads /\ c_spinlocks[c] \in Nat
      /\ (own[t] = {} /\ at[t] # "spin") => c_spinlocks[c] = 0
      /\ at[t] = "spin" => c_spinlocks[c] > 0
      /\ c_spinlocks[c] = 0 => own[t] = {}
  BY Zenon, Counts
<1>2. SplTypeOK' /\ ~splbad'
  BY <1>1 DEF TrapDone, SplTypeOK, CpuOK, OwnAt, LevelAt, IPL_NONE, IPL_HIGH, Places, RunPlaces,
                 SwitchPlaces, swVars, trapVars
<1>3. Elsewhere(c, {cur[c]}) /\ cur' = cur
  BY Zenon, <1>1, HeldFrame DEF TrapDone, SplTypeOK, Elsewhere, swVars, trapVars
<1>4. /\ t_iplhigh'[t] = t_curspl'[t] + c_spinlocks[c]
      /\ c \in irq' <=> (t_iplhigh'[t] = 0 /\ at'[t] \notin {"trap_in", "trap_out"})
  BY Zenon, <1>1 DEF TrapDone, SplTypeOK, CpuOK, OwnAt, LevelAt, InSwitch, SwitchPlaces, IPL_NONE, IPL_HIGH
<1>5. OwnAt(c, t)'
  BY Zenon, <1>1 DEF TrapDone, SplTypeOK, CpuOK, OwnAt, LevelAt, Waits, IPL_NONE, IPL_HIGH, swVars, trapVars
<1>6. LevelAt(c, t)'
  BY Zenon, <1>1 DEF TrapDone, SplTypeOK, CpuOK, LevelAt, InSwitch, SwitchPlaces, IPL_NONE, IPL_HIGH, swVars,
                 trapVars
<1>7. /\ splk_holder' = splk_holder /\ own' = own /\ c_spinlocks' = c_spinlocks /\ at[t] # "spin"
      /\ at'[t] \in RunPlaces \ {"spin"}
  BY Zenon, <1>1 DEF TrapDone, SplTypeOK, RunPlaces, SwitchPlaces
<1> QED
  BY Zenon, <1>2, <1>3, <1>4, <1>5, <1>6, <1>7, Quiet

\* The return from the exception turns interrupts on.
LEMMA TrapReturnStep ==
    ASSUME SplIInv, NEW c \in Cpus, TrapReturn(c)
    PROVE  SplIInv'
<1> DEFINE t == cur[c]
<1>1. /\ CpuOK(c) /\ SplTypeOK /\ ~splbad /\ t \in SplThreads /\ c_spinlocks[c] \in Nat
      /\ (own[t] = {} /\ at[t] # "spin") => c_spinlocks[c] = 0
      /\ at[t] = "spin" => c_spinlocks[c] > 0
      /\ c_spinlocks[c] = 0 => own[t] = {}
  BY Zenon, Counts
<1>2. SplTypeOK' /\ ~splbad'
  BY Zenon, <1>1 DEF TrapReturn, SplTypeOK, CpuOK, OwnAt, LevelAt, IPL_NONE, IPL_HIGH, Places, RunPlaces,
                 SwitchPlaces, swVars, trapVars
<1>3. Elsewhere(c, {cur[c]}) /\ cur' = cur
  BY Zenon, <1>1, HeldFrame DEF TrapReturn, SplTypeOK, Elsewhere, swVars, trapVars
<1>4. /\ t_iplhigh'[t] = t_curspl'[t] + c_spinlocks[c]
      /\ c \in irq' <=> (t_iplhigh'[t] = 0 /\ at'[t] \notin {"trap_in", "trap_out"})
  BY <1>1 DEF TrapReturn, SplTypeOK, CpuOK, OwnAt, LevelAt, InSwitch, SwitchPlaces, IPL_NONE, IPL_HIGH
<1>5. OwnAt(c, t)'
  BY Zenon, <1>1 DEF TrapReturn, SplTypeOK, CpuOK, OwnAt, LevelAt, Waits, IPL_NONE, IPL_HIGH, swVars, trapVars
<1>6. LevelAt(c, t)'
  BY Zenon, <1>1 DEF TrapReturn, SplTypeOK, CpuOK, LevelAt, InSwitch, SwitchPlaces, IPL_NONE, IPL_HIGH, swVars,
                 trapVars
<1>7. /\ splk_holder' = splk_holder /\ own' = own /\ c_spinlocks' = c_spinlocks /\ at[t] # "spin"
      /\ at'[t] \in RunPlaces \ {"spin"}
  BY Zenon, <1>1 DEF TrapReturn, SplTypeOK, RunPlaces, SwitchPlaces
<1> QED
  BY Zenon, <1>2, <1>3, <1>4, <1>5, <1>6, <1>7, Quiet

\* mips_usermode: a thread goes to user mode for the first time.
LEMMA UsermodeStep ==
    ASSUME SplIInv, NEW c \in Cpus, mips_usermode(c)
    PROVE  SplIInv'
<1> DEFINE t == cur[c]
<1>1. /\ CpuOK(c) /\ SplTypeOK /\ ~splbad /\ t \in SplThreads /\ c_spinlocks[c] \in Nat
      /\ (own[t] = {} /\ at[t] # "spin") => c_spinlocks[c] = 0
      /\ at[t] = "spin" => c_spinlocks[c] > 0
      /\ c_spinlocks[c] = 0 => own[t] = {}
  BY Zenon, Counts
<1>2. SplTypeOK' /\ ~splbad'
  BY <1>1 DEF mips_usermode, SplTypeOK, IPL_NONE, IPL_HIGH, Places, RunPlaces,
                 SwitchPlaces, swVars, trapVars
<1>3. Elsewhere(c, {cur[c]}) /\ cur' = cur
  BY Zenon, <1>1, HeldFrame DEF mips_usermode, SplTypeOK, Elsewhere, swVars, trapVars
<1>4. /\ t_iplhigh'[t] = t_curspl'[t] + c_spinlocks[c]
      /\ c \in irq' <=> (t_iplhigh'[t] = 0 /\ at'[t] \notin {"trap_in", "trap_out"})
  BY <1>1 DEF mips_usermode, SplTypeOK, CpuOK, OwnAt, LevelAt, InSwitch, SwitchPlaces, IPL_NONE, IPL_HIGH
<1>5. OwnAt(c, t)'
  BY Zenon, <1>1 DEF mips_usermode, SplTypeOK, CpuOK, OwnAt, LevelAt, Waits, IPL_NONE, IPL_HIGH, swVars, trapVars
<1>6. LevelAt(c, t)'
  BY Zenon, <1>1 DEF mips_usermode, SplTypeOK, CpuOK, LevelAt, InSwitch, SwitchPlaces, IPL_NONE, IPL_HIGH, swVars,
                 trapVars
<1>7. /\ splk_holder' = splk_holder /\ own' = own /\ c_spinlocks' = c_spinlocks /\ at[t] # "spin"
      /\ at'[t] \in RunPlaces \ {"spin"}
  BY Zenon, <1>1 DEF mips_usermode, SplTypeOK, RunPlaces, SwitchPlaces
<1> QED
  BY Zenon, <1>2, <1>3, <1>4, <1>5, <1>6, <1>7, Quiet

\* thread_switch lowers the level at its end.
LEMMA SwitchTailStep ==
    ASSUME SplIInv, NEW c \in Cpus, SwitchTail(c)
    PROVE  SplIInv'
<1> DEFINE t == cur[c]
<1>1. /\ CpuOK(c) /\ SplTypeOK /\ ~splbad /\ t \in SplThreads /\ c_spinlocks[c] \in Nat
      /\ (own[t] = {} /\ at[t] # "spin") => c_spinlocks[c] = 0
      /\ at[t] = "spin" => c_spinlocks[c] > 0
      /\ c_spinlocks[c] = 0 => own[t] = {}
  BY Zenon, Counts
<1>2. SplTypeOK' /\ ~splbad'
  BY <1>1 DEF SwitchTail, splx, splraise, spllower, SplTypeOK, CpuOK, OwnAt, LevelAt, IPL_NONE, IPL_HIGH, Places, RunPlaces,
                 SwitchPlaces, swVars, trapVars
<1>3. Elsewhere(c, {cur[c]}) /\ cur' = cur
  BY <1>1, HeldFrame DEF SwitchTail, splx, splraise, spllower, SplTypeOK, Elsewhere, swVars, trapVars
<1>4. /\ t_iplhigh'[t] = t_curspl'[t] + c_spinlocks[c]
      /\ c \in irq' <=> (t_iplhigh'[t] = 0 /\ at'[t] \notin {"trap_in", "trap_out"})
  BY <1>1 DEF SwitchTail, splx, splraise, spllower, SplTypeOK, CpuOK, OwnAt, LevelAt, InSwitch, SwitchPlaces, IPL_NONE, IPL_HIGH
<1>5. OwnAt(c, t)'
  BY Zenon, <1>1 DEF SwitchTail, splx, splraise, spllower, SplTypeOK, CpuOK, OwnAt, LevelAt, Waits, IPL_NONE, IPL_HIGH, swVars, trapVars
<1>6. LevelAt(c, t)'
  BY Zenon, <1>1 DEF SwitchTail, splx, splraise, spllower, SplTypeOK, CpuOK, LevelAt, InSwitch, SwitchPlaces, IPL_NONE, IPL_HIGH, swVars,
                 trapVars
<1>7. /\ splk_holder' = splk_holder /\ own' = own /\ c_spinlocks' = c_spinlocks /\ at[t] # "spin"
      /\ at'[t] \in RunPlaces \ {"spin"}
  BY Zenon, <1>1 DEF SwitchTail, splx, splraise, spllower, SplTypeOK, RunPlaces, SwitchPlaces
<1> QED
  BY Zenon, <1>2, <1>3, <1>4, <1>5, <1>6, <1>7, Quiet
-----------------------------------------------------------------------------
\* spinlock_acquire: the count goes up with the level before the lock is had.
LEMMA Acquiring ==
    ASSUME SplIInv, NEW c \in Cpus, NEW l \in SplLocks, NEW k \in {"code", "sw_queue", "sw_next"},
           at[cur[c]] \in {"code", "sw_lock", "idle"}, l \notin own[cur[c]],
           spinlock_acquire(c, cur[c], l, k),
           UNCHANGED <<cur, c_isidle, splk_holder, t_curspl, own, swVars, trapVars>>,
           OwnAt(c, cur[c])', LevelAt(c, cur[c])'
    PROVE  SplIInv'
<1> DEFINE t == cur[c]
<1>1. CpuOK(c) /\ SplTypeOK /\ ~splbad /\ t \in SplThreads /\ c_spinlocks[c] \in Nat
  BY Zenon, Counts
<1>2. splk_holder[l] # c
  BY Zenon, <1>1 DEF CpuOK, Held
<1>3. SplTypeOK' /\ ~splbad'
  BY <1>1, <1>2 DEF spinlock_acquire, splraise, SplTypeOK, Places, RunPlaces, swVars, trapVars
<1>4. Elsewhere(c, {cur[c]}) /\ cur' = cur
  BY Zenon, <1>1, HeldFrame DEF spinlock_acquire, splraise, SplTypeOK, Elsewhere, swVars, trapVars
<1>5. /\ t_iplhigh'[t] = t_iplhigh[t] + 1 /\ c_spinlocks'[c] = c_spinlocks[c] + 1
      /\ at'[t] = "spin" /\ c \notin irq' /\ t_curspl'[t] = t_curspl[t] /\ cur'[c] = t
  BY Zenon, <1>1 DEF spinlock_acquire, splraise, SplTypeOK, CpuOK
<1>6. Held(c)' = own'[t] /\ c_spinlocks'[c] = Cardinality(own'[t]) + Spins(c)'
  BY SMTT(40), <1>1, <1>5, HeldFrame, Counts DEF CpuOK, Spins
<1>7. t_iplhigh'[t] = t_curspl'[t] + c_spinlocks'[c] /\ t_iplhigh'[t] # 0
  BY <1>1, <1>5 DEF CpuOK, SplTypeOK, IPL_NONE, IPL_HIGH
<1>8. CpuOK(c)'
  BY Zenon, <1>5, <1>6, <1>7 DEF CpuOK, RunPlaces
<1> QED
  BY Zenon, <1>3, <1>4, <1>8, Frame

\* A thread starts to acquire a spinlock.
LEMMA AcquireStep ==
    ASSUME SplIInv, NEW c \in Cpus, NEW l \in SplLocks, SpinAcquire(c, l)
    PROVE  SplIInv'
<1> DEFINE t == cur[c]
<1>1. CpuOK(c) /\ SplTypeOK /\ t \in SplThreads
  BY Zenon, Counts
<1>2. OwnAt(c, t)' /\ LevelAt(c, t)'
  BY Zenon, <1>1 DEF SpinAcquire, spinlock_acquire, SplTypeOK, CpuOK, OwnAt, LevelAt, InSwitch, SwitchPlaces,
              swVars, trapVars
<1> QED
  BY Zenon, <1>2, Acquiring DEF SpinAcquire

\* thread_switch acquires the lock of the run queue.
LEMMA LockRunqueueStep ==
    ASSUME SplIInv, NEW c \in Cpus, LockRunqueue(c)
    PROVE  SplIInv'
<1> DEFINE t == cur[c]
           k == IF at[t] = "idle" THEN "sw_next" ELSE "sw_queue"
<1>1. CpuOK(c) /\ SplTypeOK /\ t \in SplThreads /\ c \in SplLocks
  BY Zenon, Counts DEF SplLocks
<1>2. c \notin own[t]
  BY Zenon, <1>1, SplAssumption DEF LockRunqueue, CpuOK, OwnAt, LevelAt, Waits
<1>3. OwnAt(c, t)'
  BY Zenon, <1>1, <1>2 DEF LockRunqueue, spinlock_acquire, SplTypeOK, CpuOK, OwnAt, Waits, swVars
<1>4. LevelAt(c, t)'
  BY Zenon, <1>1 DEF LockRunqueue, spinlock_acquire, SplTypeOK, CpuOK, LevelAt, InSwitch, SwitchPlaces,
              swVars, trapVars
<1> QED
  BY ZenonT(60), <1>1, <1>2, <1>3, <1>4, Acquiring DEF LockRunqueue

\* The spinlock is had.
LEMMA SpunStep ==
    ASSUME SplIInv, NEW c \in Cpus, Spun(c)
    PROVE  SplIInv'
<1> DEFINE t == cur[c]
           l == want[t]
<1>1. /\ CpuOK(c) /\ SplTypeOK /\ ~splbad /\ t \in SplThreads /\ c_spinlocks[c] \in Nat
      /\ IsFiniteSet(own[t]) /\ Cardinality(own[t]) \in Nat
  BY Zenon, Counts
<1>2. at[t] = "spin" /\ l \in SplLocks /\ l \notin own[t] /\ splk_holder[l] = Nobody
  BY Zenon, <1>1 DEF Spun, CpuOK, OwnAt
<1>3. /\ splk_holder' = [splk_holder EXCEPT ![l] = c] /\ own' = [own EXCEPT ![t] = @ \cup {l}]
      /\ at' = [at EXCEPT ![t] = cont[t]] /\ cur' = cur
  BY Zenon DEF Spun
<1>4. SplTypeOK' /\ ~splbad'
  <2>1. cont[t] \in Places
    BY Zenon, <1>1 DEF SplTypeOK, Places, RunPlaces, SwitchPlaces
  <2> QED
    BY <1>1, <1>2, <2>1 DEF Spun, SplTypeOK, swVars, trapVars
<1>5. Elsewhere(c, {cur[c]}) /\ cur' = cur
  <2>1. \A d \in Cpus \ {c} : Held(d)' = Held(d)
    BY <1>1, <1>2, <1>3, SplAssumption DEF SplTypeOK, Held, SplLocks
  <2> QED
    BY <1>1, <2>1 DEF Spun, SplTypeOK, Elsewhere, swVars, trapVars
<1>6. Held(c)' = own'[t]
  BY <1>1, <1>2, <1>3 DEF SplTypeOK, CpuOK, Held
<1>7. Cardinality(own'[t]) = Cardinality(own[t]) + 1
  BY ZenonT(60), <1>1, <1>2, <1>3, FS_AddElement DEF SplTypeOK
<1>8. at'[t] = cont[t] /\ cont[t] \in {"code", "sw_queue", "sw_next"}
  BY Zenon, <1>1, <1>3 DEF SplTypeOK
<1>9. c_spinlocks'[c] = Cardinality(own'[t]) + Spins(c)'
  BY SMTT(30), <1>1, <1>2, <1>3, <1>7, <1>8 DEF Spun, CpuOK, Spins
<1>10. /\ t_iplhigh'[t] = t_curspl'[t] + c_spinlocks'[c]
       /\ c \in irq' <=> (t_iplhigh'[t] = 0 /\ at'[t] \notin {"trap_in", "trap_out"})
  BY Zenon, <1>1, <1>2, <1>8 DEF Spun, CpuOK
<1>11. OwnAt(c, t)'
  BY SMTT(30), <1>1, <1>2, <1>3, <1>8 DEF Spun, SplTypeOK, CpuOK, OwnAt, Waits, swVars
<1>12. LevelAt(c, t)'
  BY Zenon, <1>1, <1>2, <1>3, <1>8 DEF Spun, SplTypeOK, CpuOK, LevelAt, InSwitch, SwitchPlaces, swVars, trapVars
<1>13. CpuOK(c)'
  BY Zenon, <1>3, <1>6, <1>8, <1>9, <1>10, <1>11, <1>12 DEF CpuOK, RunPlaces, SwitchPlaces
<1> QED
  BY Zenon, <1>4, <1>5, <1>13, Frame

\* spinlock_release: the lock, its count and the level go together.
LEMMA Releasing ==
    ASSUME SplIInv, NEW c \in Cpus, NEW l \in own[cur[c]], spinlock_release(c, cur[c], l),
           at[cur[c]] \in RunPlaces \ {"spin", "trap_in", "trap_out"}
    PROVE  /\ ~splbad' /\ l \in SplLocks /\ splk_holder[l] = c
           /\ Held(c)' = own'[cur[c]] /\ \A d \in Cpus \ {c} : Held(d)' = Held(d)
           /\ c_spinlocks'[c] = c_spinlocks[c] - 1 /\ c_spinlocks'[c] \in Nat
           /\ c_spinlocks'[c] = Cardinality(own'[cur[c]])
           /\ t_iplhigh'[cur[c]] = t_curspl[cur[c]] + c_spinlocks'[c]
           /\ c \in irq' <=> t_iplhigh'[cur[c]] = 0
<1> DEFINE t == cur[c]
<1>1. /\ CpuOK(c) /\ SplTypeOK /\ ~splbad /\ t \in SplThreads /\ c_spinlocks[c] \in Nat
      /\ IsFiniteSet(own[t]) /\ Cardinality(own[t]) \in Nat
  BY ZenonT(60), Counts
<1>2. l \in SplLocks /\ splk_holder[l] = c
  BY Zenon, <1>1 DEF CpuOK, Held
<1>3. Cardinality(own[t] \ {l}) = Cardinality(own[t]) - 1 /\ Cardinality(own[t] \ {l}) \in Nat
  BY ZenonT(60), <1>1, FS_RemoveElement, FS_CardinalityType
<1>4. c_spinlocks[c] = Cardinality(own[t]) /\ c_spinlocks[c] > 0
  BY SMTT(30), <1>1, <1>3 DEF CpuOK, Spins
<1>5. ~splbad'
  <2>1. ~(c_spinlocks[c] <= 0)
    BY <1>1, <1>4
  <2> QED
    BY Zenon, <1>1, <1>2, <2>1 DEF spinlock_release
<1>6. own'[t] = own[t] \ {l} /\ c_spinlocks'[c] = c_spinlocks[c] - 1
  BY Zenon, <1>1 DEF spinlock_release, SplTypeOK
<1>7. Held(c)' = own'[t]
  BY Zenon, <1>1, <1>2, <1>6, SplAssumption DEF spinlock_release, SplTypeOK, CpuOK, Held, SplLocks
<1>8. \A d \in Cpus \ {c} : Held(d)' = Held(d)
  BY Zenon, <1>1, <1>2, SplAssumption DEF spinlock_release, SplTypeOK, Held, SplLocks
<1>9. t_iplhigh'[t] = t_iplhigh[t] - 1 /\ (t_iplhigh[t] = 1 => c \in irq')
      /\ (t_iplhigh[t] # 1 => irq' = irq)
  BY Zenon, <1>1 DEF spinlock_release, spllower, SplTypeOK
<1>10. t_iplhigh'[t] = t_curspl[t] + c_spinlocks'[c]
  BY <1>1, <1>6, <1>9 DEF CpuOK, SplTypeOK, IPL_NONE, IPL_HIGH
<1>11. c \in irq' <=> t_iplhigh'[t] = 0
  BY <1>1, <1>4, <1>9 DEF CpuOK, SplTypeOK, IPL_NONE, IPL_HIGH
<1> QED
  BY Zenon, <1>2, <1>3, <1>4, <1>5, <1>6, <1>7, <1>8, <1>10, <1>11

\* A thread releases a spinlock.
LEMMA ReleaseStep ==
    ASSUME SplIInv, NEW c \in Cpus, NEW l \in SplLocks, SpinRelease(c, l)
    PROVE  SplIInv'
<1> DEFINE t == cur[c]
<1>1. CpuOK(c) /\ SplTypeOK /\ t \in SplThreads
  BY Zenon, Counts
<1>2. l \in own[t]
  BY Zenon, <1>1 DEF SpinRelease, CpuOK, OwnAt, Waits
<1>3. at[t] \in RunPlaces \ {"spin", "trap_in", "trap_out"} /\ spinlock_release(c, t, l)
  BY Zenon DEF SpinRelease, RunPlaces, SwitchPlaces
<1>4. /\ ~splbad' /\ Held(c)' = own'[t] /\ \A d \in Cpus \ {c} : Held(d)' = Held(d)
      /\ c_spinlocks'[c] = Cardinality(own'[t]) /\ c_spinlocks'[c] \in Nat
      /\ t_iplhigh'[t] = t_curspl[t] + c_spinlocks'[c] /\ (c \in irq' <=> t_iplhigh'[t] = 0)
  BY Zenon, <1>2, <1>3, Releasing
<1>5. SplTypeOK'
  BY <1>1, <1>2, <1>4 DEF SpinRelease, spinlock_release, spllower, SplTypeOK, Places, RunPlaces, SwitchPlaces,
              SplLocks, IPL_NONE, IPL_HIGH, swVars, trapVars
<1>6. Elsewhere(c, {cur[c]}) /\ cur' = cur
  BY Zenon, <1>1, <1>4 DEF SpinRelease, spinlock_release, spllower, SplTypeOK, Elsewhere, swVars, trapVars
<1>7. cur'[c] = t /\ t_curspl'[t] = t_curspl[t] /\ at'[t] \in RunPlaces \ {"spin", "trap_in", "trap_out"}
  BY Zenon, <1>1, <1>3 DEF SpinRelease, SplTypeOK, RunPlaces, SwitchPlaces
<1>8. OwnAt(c, t)'
  BY Zenon, <1>1, <1>2, SplAssumption DEF SpinRelease, spinlock_release, SplTypeOK, CpuOK, OwnAt, LevelAt, Waits, swVars
<1>9. LevelAt(c, t)'
  BY Zenon, <1>1 DEF SpinRelease, SplTypeOK, CpuOK, LevelAt, InSwitch, SwitchPlaces, IPL_NONE, IPL_HIGH, swVars, trapVars
<1>10. c_spinlocks'[c] = Cardinality(own'[t]) + Spins(c)'
  <2>1. Spins(c)' = 0
    BY Zenon, <1>7 DEF Spins
  <2>2. c_spinlocks'[c] = Cardinality(own'[t]) /\ c_spinlocks'[c] \in Nat
    BY Zenon, <1>4
  <2> QED
    BY <2>1, <2>2
<1>11. CpuOK(c)'
  BY Zenon, <1>4, <1>7, <1>8, <1>9, <1>10 DEF CpuOK
<1> QED
  BY Zenon, <1>4, <1>5, <1>6, <1>11, Frame

\* thread_switch releases the run queue and returns to the caller.
LEMMA SwitchReturnStep ==
    ASSUME SplIInv, NEW c \in Cpus, SwitchReturn(c)
    PROVE  SplIInv'
<1> DEFINE t == cur[c]
<1>1. CpuOK(c) /\ SplTypeOK /\ t \in SplThreads
  BY ZenonT(60), Counts
<1>2. c \in own[t]
  BY Zenon, <1>1 DEF SwitchReturn, CpuOK, OwnAt, Waits
<1>3. at[t] \in RunPlaces \ {"spin", "trap_in", "trap_out"} /\ spinlock_release(c, t, c)
  BY Zenon DEF SwitchReturn, RunPlaces, SwitchPlaces
<1>4. /\ ~splbad' /\ Held(c)' = own'[t] /\ \A d \in Cpus \ {c} : Held(d)' = Held(d)
      /\ c_spinlocks'[c] = Cardinality(own'[t]) /\ c_spinlocks'[c] \in Nat
      /\ t_iplhigh'[t] = t_curspl[t] + c_spinlocks'[c] /\ (c \in irq' <=> t_iplhigh'[t] = 0)
  BY Zenon, <1>2, <1>3, Releasing
<1>5. SplTypeOK'
  BY <1>1, <1>2, <1>4 DEF SwitchReturn, spinlock_release, spllower, SplTypeOK, Places, RunPlaces, SwitchPlaces,
              SplLocks, IPL_NONE, IPL_HIGH, swVars, trapVars
<1>6. Elsewhere(c, {cur[c]}) /\ cur' = cur
  BY Zenon, <1>1, <1>4 DEF SwitchReturn, spinlock_release, spllower, SplTypeOK, Elsewhere, swVars, trapVars
<1>7. cur'[c] = t /\ t_curspl'[t] = t_curspl[t] /\ at'[t] \in RunPlaces \ {"spin", "trap_in", "trap_out"}
  BY Zenon, <1>1, <1>3 DEF SwitchReturn, SplTypeOK, RunPlaces, SwitchPlaces
<1>8. OwnAt(c, t)'
  BY Zenon, <1>1, <1>2, SplAssumption DEF SwitchReturn, spinlock_release, SplTypeOK, CpuOK, OwnAt, LevelAt, Waits, swVars
<1>9. LevelAt(c, t)'
  BY Zenon, <1>1 DEF SwitchReturn, SplTypeOK, CpuOK, LevelAt, InSwitch, SwitchPlaces, IPL_NONE, IPL_HIGH, swVars, trapVars
<1>10. c_spinlocks'[c] = Cardinality(own'[t]) + Spins(c)'
  <2>1. Spins(c)' = 0
    BY Zenon, <1>7 DEF Spins
  <2>2. c_spinlocks'[c] = Cardinality(own'[t]) /\ c_spinlocks'[c] \in Nat
    BY Zenon, <1>4
  <2> QED
    BY <2>1, <2>2
<1>11. CpuOK(c)'
  BY ZenonT(60), <1>4, <1>7, <1>8, <1>9, <1>10 DEF CpuOK
<1> QED
  BY Zenon, <1>4, <1>5, <1>6, <1>11, Frame

\* The idle loop releases the run queue for cpu_idle.
LEMMA SwitchIdleStep ==
    ASSUME SplIInv, NEW c \in Cpus, SwitchIdle(c)
    PROVE  SplIInv'
<1> DEFINE t == cur[c]
<1>1. CpuOK(c) /\ SplTypeOK /\ t \in SplThreads
  BY Zenon, Counts
<1>2. c \in own[t]
  BY ZenonT(60), <1>1 DEF SwitchIdle, CpuOK, OwnAt, Waits
<1>3. at[t] \in RunPlaces \ {"spin", "trap_in", "trap_out"} /\ spinlock_release(c, t, c)
  BY Zenon DEF SwitchIdle, RunPlaces, SwitchPlaces
<1>4. /\ ~splbad' /\ Held(c)' = own'[t] /\ \A d \in Cpus \ {c} : Held(d)' = Held(d)
      /\ c_spinlocks'[c] = Cardinality(own'[t]) /\ c_spinlocks'[c] \in Nat
      /\ t_iplhigh'[t] = t_curspl[t] + c_spinlocks'[c] /\ (c \in irq' <=> t_iplhigh'[t] = 0)
  BY Zenon, <1>2, <1>3, Releasing
<1>5. SplTypeOK'
  BY <1>1, <1>2, <1>4 DEF SwitchIdle, spinlock_release, spllower, SplTypeOK, Places, RunPlaces, SwitchPlaces,
              SplLocks, IPL_NONE, IPL_HIGH, swVars, trapVars
<1>6. Elsewhere(c, {cur[c]}) /\ cur' = cur
  BY Zenon, <1>1, <1>4 DEF SwitchIdle, spinlock_release, spllower, SplTypeOK, Elsewhere, swVars, trapVars
<1>7. cur'[c] = t /\ t_curspl'[t] = t_curspl[t] /\ at'[t] \in RunPlaces \ {"spin", "trap_in", "trap_out"}
  BY Zenon, <1>1, <1>3 DEF SwitchIdle, SplTypeOK, RunPlaces, SwitchPlaces
<1>8. OwnAt(c, t)'
  BY Zenon, <1>1, <1>2, SplAssumption DEF SwitchIdle, spinlock_release, SplTypeOK, CpuOK, OwnAt, LevelAt, Waits, swVars
<1>9. LevelAt(c, t)'
  BY Zenon, <1>1 DEF SwitchIdle, SplTypeOK, CpuOK, LevelAt, InSwitch, SwitchPlaces, IPL_NONE, IPL_HIGH, swVars, trapVars
<1>10. c_spinlocks'[c] = Cardinality(own'[t]) + Spins(c)'
  <2>1. Spins(c)' = 0
    BY Zenon, <1>7 DEF Spins
  <2>2. c_spinlocks'[c] = Cardinality(own'[t]) /\ c_spinlocks'[c] \in Nat
    BY Zenon, <1>4
  <2> QED
    BY <2>1, <2>2
<1>11. CpuOK(c)'
  BY Zenon, <1>4, <1>7, <1>8, <1>9, <1>10 DEF CpuOK
<1> QED
  BY Zenon, <1>4, <1>5, <1>6, <1>11, Frame

\* The next thread releases the run queue it was switched to with.
LEMMA SwitchResumeStep ==
    ASSUME SplIInv, NEW c \in Cpus, SwitchResume(c)
    PROVE  SplIInv'
<1> DEFINE t == cur[c]
<1>1. CpuOK(c) /\ SplTypeOK /\ t \in SplThreads
  BY Zenon, Counts
<1>2. c \in own[t]
  BY Zenon, <1>1 DEF SwitchResume, CpuOK, OwnAt, Waits
<1>3. at[t] \in RunPlaces \ {"spin", "trap_in", "trap_out"} /\ spinlock_release(c, t, c)
  BY Zenon DEF SwitchResume, RunPlaces, SwitchPlaces
<1>4. /\ ~splbad' /\ Held(c)' = own'[t] /\ \A d \in Cpus \ {c} : Held(d)' = Held(d)
      /\ c_spinlocks'[c] = Cardinality(own'[t]) /\ c_spinlocks'[c] \in Nat
      /\ t_iplhigh'[t] = t_curspl[t] + c_spinlocks'[c] /\ (c \in irq' <=> t_iplhigh'[t] = 0)
  BY Zenon, <1>2, <1>3, Releasing
<1>5. SplTypeOK'
  BY <1>1, <1>2, <1>4 DEF SwitchResume, spinlock_release, spllower, SplTypeOK, Places, RunPlaces, SwitchPlaces,
              SplLocks, IPL_NONE, IPL_HIGH, swVars, trapVars
<1>6. Elsewhere(c, {cur[c]}) /\ cur' = cur
  BY Zenon, <1>1, <1>4 DEF SwitchResume, spinlock_release, spllower, SplTypeOK, Elsewhere, swVars, trapVars
<1>7. cur'[c] = t /\ t_curspl'[t] = t_curspl[t] /\ at'[t] \in RunPlaces \ {"spin", "trap_in", "trap_out"}
  BY Zenon, <1>1, <1>3 DEF SwitchResume, SplTypeOK, RunPlaces, SwitchPlaces
<1>8. OwnAt(c, t)'
  BY ZenonT(60), <1>1, <1>2, SplAssumption DEF SwitchResume, spinlock_release, SplTypeOK, CpuOK, OwnAt, LevelAt, Waits, swVars
<1>9. LevelAt(c, t)'
  BY Zenon, <1>1 DEF SwitchResume, SplTypeOK, CpuOK, LevelAt, InSwitch, SwitchPlaces, IPL_NONE, IPL_HIGH, swVars, trapVars
<1>10. c_spinlocks'[c] = Cardinality(own'[t]) + Spins(c)'
  <2>1. Spins(c)' = 0
    BY Zenon, <1>7 DEF Spins
  <2>2. c_spinlocks'[c] = Cardinality(own'[t]) /\ c_spinlocks'[c] \in Nat
    BY Zenon, <1>4
  <2> QED
    BY <2>1, <2>2
<1>11. CpuOK(c)'
  BY Zenon, <1>4, <1>7, <1>8, <1>9, <1>10 DEF CpuOK
<1> QED
  BY Zenon, <1>4, <1>5, <1>6, <1>11, Frame

\* thread_switch releases the lock of the wait channel a thread sleeps on.
LEMMA SwitchSleepStep ==
    ASSUME SplIInv, NEW c \in Cpus, SwitchQueue(c), newstate[cur[c]] = "SLEEP"
    PROVE  SplIInv'
<1> DEFINE t == cur[c]
<1>1. CpuOK(c) /\ SplTypeOK /\ t \in SplThreads
  BY ZenonT(60), Counts
<1>2. lk[t] \in own[t]
  BY Zenon, <1>1 DEF SwitchQueue, CpuOK, OwnAt, Waits
<1>3. at[t] \in RunPlaces \ {"spin", "trap_in", "trap_out"} /\ spinlock_release(c, t, lk[t])
  BY Zenon DEF SwitchQueue, RunPlaces, SwitchPlaces
<1>4. /\ ~splbad' /\ Held(c)' = own'[t] /\ \A d \in Cpus \ {c} : Held(d)' = Held(d)
      /\ c_spinlocks'[c] = Cardinality(own'[t]) /\ c_spinlocks'[c] \in Nat
      /\ t_iplhigh'[t] = t_curspl[t] + c_spinlocks'[c] /\ (c \in irq' <=> t_iplhigh'[t] = 0)
  BY Zenon, <1>2, <1>3, Releasing
<1>5. SplTypeOK'
  BY <1>1, <1>2, <1>4 DEF SwitchQueue, spinlock_release, spllower, SplTypeOK, Places, RunPlaces, SwitchPlaces,
              SplLocks, IPL_NONE, IPL_HIGH, swVars, trapVars
<1>6. Elsewhere(c, {cur[c]}) /\ cur' = cur
  BY <1>1, <1>4 DEF SwitchQueue, spinlock_release, spllower, SplTypeOK, Elsewhere, swVars, trapVars
<1>7. cur'[c] = t /\ t_curspl'[t] = t_curspl[t] /\ at'[t] \in RunPlaces \ {"spin", "trap_in", "trap_out"}
  BY Zenon, <1>1, <1>3 DEF SwitchQueue, SplTypeOK, RunPlaces, SwitchPlaces
<1>8. OwnAt(c, t)'
  BY SMTT(60), <1>1, <1>2, SplAssumption DEF SwitchQueue, spinlock_release, SplTypeOK, CpuOK, OwnAt, LevelAt, Waits, swVars
<1>9. LevelAt(c, t)'
  BY Zenon, <1>1 DEF SwitchQueue, SplTypeOK, CpuOK, LevelAt, InSwitch, SwitchPlaces, IPL_NONE, IPL_HIGH, swVars, trapVars
<1>10. c_spinlocks'[c] = Cardinality(own'[t]) + Spins(c)'
  <2>1. Spins(c)' = 0
    BY Zenon, <1>7 DEF Spins
  <2>2. c_spinlocks'[c] = Cardinality(own'[t]) /\ c_spinlocks'[c] \in Nat
    BY Zenon, <1>4
  <2> QED
    BY SMTT(30), <2>1, <2>2
<1>11. CpuOK(c)'
  BY Zenon, <1>4, <1>7, <1>8, <1>9, <1>10 DEF CpuOK
<1> QED
  BY Zenon, <1>4, <1>5, <1>6, <1>11, Frame
-----------------------------------------------------------------------------
\* thread_switch raises the level at its start.
LEMMA SwitchStep ==
    ASSUME SplIInv, NEW c \in Cpus,
           NEW state \in {"READY", "SLEEP", "ZOMBIE"}, NEW l \in Spinlocks \cup {Nobody},
           state = "SLEEP" => l \in Spinlocks, thread_switch(c, state, l)
    PROVE  SplIInv'
<1> DEFINE t == cur[c]
<1>1. /\ CpuOK(c) /\ SplTypeOK /\ ~splbad /\ t \in SplThreads /\ c_spinlocks[c] \in Nat
      /\ (own[t] = {} /\ at[t] # "spin") => c_spinlocks[c] = 0
      /\ at[t] = "spin" => c_spinlocks[c] > 0
      /\ c_spinlocks[c] = 0 => own[t] = {}
  BY Zenon, Counts
<1>0. /\ state = "SLEEP" => l \in Spinlocks /\ own[t] = {l} /\ splk_holder[l] = c /\ c_spinlocks[c] = 1
      /\ state # "SLEEP" => own[t] = {}
  <2>1. CASE state = "SLEEP"
    <3>1. own[t] = {l} /\ l \in Spinlocks /\ at[t] = "code"
      BY Zenon, <2>1 DEF thread_switch
    <3>2. Cardinality(own[t]) = 1
      BY Zenon, <3>1, FS_Singleton
    <3>3. Held(c) = {l}
      BY Zenon, <1>1, <3>1 DEF CpuOK
    <3>4. splk_holder[l] = c
      BY Zenon, <3>3 DEF Held
    <3>5. c_spinlocks[c] = Cardinality(own[t]) + Spins(c) /\ Spins(c) = 0
      BY Zenon, <1>1, <3>1 DEF CpuOK, Spins
    <3> QED
      BY <2>1, <3>1, <3>2, <3>4, <3>5
  <2> QED
    BY Zenon, <2>1 DEF thread_switch
<1>2. SplTypeOK' /\ ~splbad'
  BY <1>1, <1>0 DEF thread_switch, splx, splraise, spllower, SplTypeOK, IPL_NONE, IPL_HIGH, Places, RunPlaces,
                 SwitchPlaces, swVars, trapVars
<1>3. Elsewhere(c, {cur[c]}) /\ cur' = cur
  BY SMTT(30), <1>1, HeldFrame DEF thread_switch, splx, splraise, spllower, SplTypeOK, Elsewhere, swVars, trapVars
<1>4. /\ t_iplhigh'[t] = t_curspl'[t] + c_spinlocks[c]
      /\ c \in irq' <=> (t_iplhigh'[t] = 0 /\ at'[t] \notin {"trap_in", "trap_out"})
  BY <1>1, <1>0 DEF thread_switch, splx, splraise, spllower, SplTypeOK, CpuOK, OwnAt, LevelAt, InSwitch, SwitchPlaces, IPL_NONE, IPL_HIGH
<1>5. OwnAt(c, t)'
  BY ZenonT(60), <1>1, <1>0 DEF thread_switch, splx, splraise, spllower, SplTypeOK, CpuOK, OwnAt, LevelAt, Waits, IPL_NONE, IPL_HIGH, swVars, trapVars
<1>6. LevelAt(c, t)'
  BY Zenon, <1>1, <1>0 DEF thread_switch, splx, splraise, spllower, SplTypeOK, CpuOK, LevelAt, InSwitch, SwitchPlaces, IPL_NONE, IPL_HIGH, swVars,
                 trapVars
<1>7. /\ splk_holder' = splk_holder /\ own' = own /\ c_spinlocks' = c_spinlocks /\ at[t] # "spin"
      /\ at'[t] \in RunPlaces \ {"spin"}
  BY Zenon, <1>1, <1>0 DEF thread_switch, splx, splraise, spllower, SplTypeOK, RunPlaces, SwitchPlaces
<1> QED
  BY ZenonT(40), <1>2, <1>3, <1>4, <1>5, <1>6, <1>7, Quiet

\* thread_switch puts away a thread that does not go to sleep.
LEMMA SwitchAwakeStep ==
    ASSUME SplIInv, NEW c \in Cpus, newstate[cur[c]] # "SLEEP", SwitchQueue(c)
    PROVE  SplIInv'
<1> DEFINE t == cur[c]
<1>1. /\ CpuOK(c) /\ SplTypeOK /\ ~splbad /\ t \in SplThreads /\ c_spinlocks[c] \in Nat
      /\ (own[t] = {} /\ at[t] # "spin") => c_spinlocks[c] = 0
      /\ at[t] = "spin" => c_spinlocks[c] > 0
      /\ c_spinlocks[c] = 0 => own[t] = {}
  BY Zenon, Counts
<1>2. SplTypeOK' /\ ~splbad'
  BY <1>1 DEF SwitchQueue, SplTypeOK, IPL_NONE, IPL_HIGH, Places, RunPlaces,
                 SwitchPlaces, swVars, trapVars
<1>3. Elsewhere(c, {cur[c]}) /\ cur' = cur
  BY Zenon, <1>1, HeldFrame DEF SwitchQueue, SplTypeOK, Elsewhere, swVars, trapVars
<1>4. /\ t_iplhigh'[t] = t_curspl'[t] + c_spinlocks[c]
      /\ c \in irq' <=> (t_iplhigh'[t] = 0 /\ at'[t] \notin {"trap_in", "trap_out"})
  BY Zenon, <1>1 DEF SwitchQueue, SplTypeOK, CpuOK, OwnAt, LevelAt, InSwitch, SwitchPlaces, IPL_NONE, IPL_HIGH
<1>5. OwnAt(c, t)'
  BY ZenonT(60), <1>1 DEF SwitchQueue, SplTypeOK, CpuOK, OwnAt, LevelAt, Waits, IPL_NONE, IPL_HIGH, swVars, trapVars
<1>6. LevelAt(c, t)'
  BY Zenon, <1>1 DEF SwitchQueue, SplTypeOK, CpuOK, LevelAt, InSwitch, SwitchPlaces, IPL_NONE, IPL_HIGH, swVars,
                 trapVars
<1>7. /\ splk_holder' = splk_holder /\ own' = own /\ c_spinlocks' = c_spinlocks /\ at[t] # "spin"
      /\ at'[t] \in RunPlaces \ {"spin"}
  BY Zenon, <1>1 DEF SwitchQueue, SplTypeOK, RunPlaces, SwitchPlaces
<1> QED
  BY Zenon, <1>2, <1>3, <1>4, <1>5, <1>6, <1>7, Quiet

\* The lock of the run queue passes from the old thread to the next.
LEMMA SwitchNextStep ==
    ASSUME SplIInv, NEW c \in Cpus, NEW n \in SplThreads, SwitchNext(c, n)
    PROVE  SplIInv'
<1> DEFINE t == cur[c]
<1>1. /\ CpuOK(c) /\ SplTypeOK /\ ~splbad /\ t \in SplThreads /\ c_spinlocks[c] \in Nat
      /\ at[t] = "sw_next" /\ own[t] = {c} /\ t_curspl[t] = IPL_HIGH
  BY Zenon, Counts DEF SwitchNext, CpuOK, OwnAt, LevelAt, InSwitch, SwitchPlaces
<1>2. c_spinlocks[c] = 1 /\ t_iplhigh[t] = 2
  <2>1. Cardinality(own[t]) = 1
    BY Zenon, <1>1, FS_Singleton
  <2>2. Spins(c) = 0
    BY Zenon, <1>1 DEF Spins
  <2> QED
    BY SMTT(40), <1>1, <2>1, <2>2 DEF CpuOK, IPL_HIGH
<1>3. n = t \/ \A d \in Cpus : cur[d] # n
  BY Zenon DEF SwitchNext, SplIInv, CpuOK, RunPlaces, SwitchPlaces
<1>4. /\ t_curspl[n] = IPL_HIGH /\ t_iplhigh[n] = 2 /\ intr[n] # "idle"
      /\ intr[n] # "no" => sw[n] = IPL_HIGH /\ newstate[n] = "READY"
      /\ n \in doadjust <=> intr[n] = "code"
      /\ at[n] = "new" => intr[n] = "no"
  <2>1. CASE n = t
    BY Zenon, <1>1, <1>2, <2>1 DEF CpuOK, LevelAt, InSwitch, SwitchPlaces
  <2>2. CASE n # t
    BY Zenon, <1>3, <2>2 DEF SwitchNext, SplIInv, OutOK
  <2> QED
    BY ZenonT(40), <2>1, <2>2
<1>5. /\ cur'[c] = n /\ own'[n] = {c} /\ at'[n] = IF at[n] = "new" THEN "sw_startup" ELSE "sw_resume"
      /\ \A u \in SplThreads \ {t, n} : at'[u] = at[u] /\ own'[u] = own[u]
      /\ n # t => own'[t] = {} /\ at'[t] \in {"zombie", "off"} /\ (at'[t] = "off" => newstate[t] # "ZOMBIE")
  BY Zenon, <1>1 DEF SwitchNext, SplTypeOK
<1>6. SplTypeOK' /\ ~splbad'
  <2>1. own' \in [SplThreads -> SUBSET SplLocks]
    BY Zenon, <1>1 DEF SwitchNext, SplTypeOK, SplLocks
  <2>2. at' \in [SplThreads -> Places]
    BY Zenon, <1>1 DEF SwitchNext, SplTypeOK, Places, RunPlaces, SwitchPlaces
  <2> QED
    BY Zenon, <1>1, <2>1, <2>2 DEF SwitchNext, SplTypeOK, swVars, trapVars
<1>7. Elsewhere(c, {t, n})
  BY Zenon, <1>1, <1>5, HeldFrame DEF SwitchNext, SplTypeOK, Elsewhere, swVars, trapVars
<1>8. \A d \in Cpus \ {c} : cur'[d] = cur[d] /\ cur[d] # t /\ cur[d] # n
  BY ZenonT(40), <1>1, <1>3 DEF SwitchNext, SplIInv, SplTypeOK
<1>9. CpuOK(c)'
  <2>1. Held(c)' = own'[n]
    BY ZenonT(40), <1>1, <1>5, HeldFrame DEF SwitchNext, CpuOK
  <2>2. c_spinlocks'[c] = Cardinality(own'[n]) + Spins(c)'
    <3>1. Spins(c)' = 0
      BY Zenon, <1>5 DEF Spins
    <3>2. Cardinality(own'[n]) = 1
      <4>1. Cardinality({c}) = 1
        BY Zenon, FS_Singleton
      <4> QED
        BY Zenon, <1>5, <4>1
    <3>3. c_spinlocks'[c] = 1
      BY Zenon, <1>2 DEF SwitchNext
    <3> QED
      BY <3>1, <3>2, <3>3
  <2>3. t_iplhigh'[n] = t_curspl'[n] + c_spinlocks'[c] /\ t_iplhigh'[n] # 0
    BY <1>2, <1>4 DEF SwitchNext, IPL_HIGH
  <2>4. c \notin irq'
    BY SMTT(40), <1>1, <1>2 DEF SwitchNext, CpuOK
  <2>5. OwnAt(c, n)'
    BY Zenon, <1>5 DEF OwnAt
  <2>6. LevelAt(c, n)'
    <3>1. /\ at'[n] \in {"sw_startup", "sw_resume"} /\ (at'[n] = "sw_startup" => intr[n] = "no")
      BY ZenonT(40), <1>4, <1>5
    <3>2. /\ t_curspl' = t_curspl /\ intr' = intr /\ sw' = sw /\ newstate' = newstate
          /\ lk' = lk /\ doadjust' = doadjust
      BY ZenonT(60) DEF SwitchNext, swVars, trapVars
    <3> QED
      BY ZenonT(40), <1>4, <3>1, <3>2 DEF LevelAt, InSwitch
  <2>7. at'[n] \in RunPlaces
    BY Zenon, <1>5 DEF RunPlaces, SwitchPlaces
  <2> QED
    BY Zenon, <1>5, <2>1, <2>2, <2>3, <2>4, <2>5, <2>6, <2>7 DEF CpuOK
<1>10. \A d \in Cpus : CpuOK(d)'
  BY SMTT(30), <1>7, <1>8, <1>9, CpuFrame
<1>11. ASSUME NEW u \in SplThreads, \A d \in Cpus : cur'[d] # u
       PROVE  (at[u] \notin RunPlaces /\ OutOK(u))'
  <2>1. u # n
    BY Zenon, <1>5, <1>11
  <2>2. CASE u = t
    <3>1. /\ own'[t] = {} /\ at'[t] \in {"zombie", "off"}
          /\ t_curspl'[t] = IPL_HIGH /\ t_iplhigh'[t] = 2 /\ intr' = intr /\ sw' = sw
          /\ newstate' = newstate /\ doadjust' = doadjust
      BY Zenon, <1>1, <1>2, <1>5, <2>1, <2>2 DEF SwitchNext, swVars, trapVars
    <3>2. LevelAt(c, t)
      BY Zenon, <1>1 DEF CpuOK
    <3> QED
      BY Zenon, <1>1, <2>2, <3>1, <3>2 DEF OutOK, LevelAt, InSwitch, RunPlaces, SwitchPlaces
  <2>3. CASE u # t
    <3>1. \A d \in Cpus : cur[d] # u
      BY Zenon, <1>8, <1>11, <2>3
    <3> QED
      BY Zenon, <1>7, <2>1, <2>3, <3>1, OutFrame
  <2> QED
    BY Zenon, <2>2, <2>3
<1>12. \A d, e \in Cpus : cur'[d] = cur'[e] => d = e
  BY SMTT(40), <1>5, <1>8 DEF SplIInv
<1> QED
  BY Zenon, <1>6, <1>10, <1>11, <1>12 DEF SplIInv

\* A new thread starts as thread_switch leaves a thread that is switched out.
LEMMA ForkStep ==
    ASSUME SplIInv, NEW c \in Cpus, NEW n \in SplThreads, thread_fork(c, n)
    PROVE  SplIInv'
<1>1. SplTypeOK /\ ~splbad /\ at[n] = "unborn"
  BY Zenon DEF SplIInv, thread_fork
<1>2. \A d \in Cpus : cur[d] # n
  BY ZenonT(60), <1>1 DEF SplIInv, CpuOK, RunPlaces, SwitchPlaces
<1>3. OutOK(n)
  BY Zenon, <1>2 DEF SplIInv
<1>4. Elsewhere(c, {n})
  BY Zenon, <1>1, HeldFrame DEF thread_fork, SplTypeOK, Elsewhere, swVars, trapVars
<1>5. SplTypeOK' /\ ~splbad'
  <2>1. at' \in [SplThreads -> Places]
    BY Zenon, <1>1 DEF thread_fork, SplTypeOK, Places
  <2> QED
    BY <1>1, <2>1 DEF thread_fork, fork_iplhigh, SplTypeOK, IPL_HIGH, swVars, trapVars
<1>6. (at[n] \notin RunPlaces /\ OutOK(n))'
  BY <1>1, <1>3 DEF thread_fork, fork_iplhigh, SplTypeOK, OutOK, RunPlaces, SwitchPlaces, swVars, trapVars
<1>7. \A d \in Cpus \ {c} : CpuOK(d)'
  BY SMTT(40), <1>2, <1>4, CpuFrame
<1>8. CpuOK(c)'
  <2> DEFINE t == cur[c]
  <2>1. CpuOK(c) /\ t \in SplThreads /\ t # n
    BY Zenon, <1>2, Counts
  <2>2. /\ cur'[c] = t /\ t_curspl'[t] = t_curspl[t] /\ t_iplhigh'[t] = t_iplhigh[t] /\ at'[t] = at[t]
        /\ irq' = irq /\ c_spinlocks' = c_spinlocks /\ c_isidle' = c_isidle /\ own' = own
        /\ want' = want /\ cont' = cont /\ sw' = sw /\ newstate' = newstate /\ lk' = lk
        /\ intr' = intr /\ doadjust' = doadjust /\ Held(c)' = Held(c)
    BY Zenon, <1>1, <2>1, HeldFrame DEF thread_fork, SplTypeOK, swVars, trapVars
  <2>3. OwnAt(c, t) /\ LevelAt(c, t)
    BY ZenonT(40), <2>1 DEF CpuOK
  <2>4. OwnAt(c, t)' /\ LevelAt(c, t)'
    BY ZenonT(40), <2>2, <2>3 DEF OwnAt, LevelAt, InSwitch, Waits
  <2>5. Spins(c)' = Spins(c)
    BY ZenonT(40), <2>2 DEF Spins
  <2> QED
    BY Zenon, <2>1, <2>2, <2>4, <2>5 DEF CpuOK
<1>9. \A u \in SplThreads : (\A d \in Cpus : cur'[d] # u) => (at[u] \notin RunPlaces /\ OutOK(u))'
  BY Zenon, <1>4, <1>6, OutFrame DEF thread_fork
<1>10. \A d, e \in Cpus : cur'[d] = cur'[e] => d = e
  BY ZenonT(60) DEF thread_fork, SplIInv
<1> QED
  BY ZenonT(60), <1>5, <1>7, <1>8, <1>9, <1>10 DEF SplIInv

\* The CPUs start with interrupts off, at IPL_HIGH, in threads of their own.
LEMMA SplInitial ==
    SplInit => SplIInv
<1> SUFFICES ASSUME SplInit
             PROVE  SplIInv
  BY Zenon
<1>1. SplTypeOK /\ ~splbad
  <2>1. cur \in [Cpus -> SplThreads] /\ at \in [SplThreads -> Places]
    BY Zenon, SplAssumption DEF SplInit, Places, RunPlaces
  <2>2. splbad \in BOOLEAN /\ ~splbad /\ irq \subseteq Cpus /\ c_isidle \subseteq Cpus
        /\ doadjust \subseteq SplThreads
    BY Zenon DEF SplInit
  <2>3. /\ c_spinlocks \in [Cpus -> Int] /\ splk_holder \in [SplLocks -> Cpus \cup {Nobody}]
        /\ t_curspl \in [SplThreads -> {IPL_NONE, IPL_HIGH}] /\ t_iplhigh \in [SplThreads -> Int]
        /\ own \in [SplThreads -> SUBSET SplLocks] /\ sw \in [SplThreads -> {IPL_NONE, IPL_HIGH}]
    BY DEF SplInit
  <2>4. /\ want \in [SplThreads -> SplLocks \cup {Nobody}]
        /\ cont \in [SplThreads -> {"code", "sw_queue", "sw_next"}]
        /\ newstate \in [SplThreads -> {"READY", "SLEEP", "ZOMBIE"}]
        /\ lk \in [SplThreads -> Spinlocks \cup {Nobody}] /\ intr \in [SplThreads -> {"no", "code", "idle"}]
    BY Zenon DEF SplInit
  <2> QED
    BY Zenon, <2>1, <2>2, <2>3, <2>4 DEF SplTypeOK
<1>2. \A c, d \in Cpus : cur[c] = cur[d] => c = d
  BY Zenon, SplAssumption DEF SplInit
<1>3. ASSUME NEW c \in Cpus
      PROVE  CpuOK(c)
  <2>1. cur[c] \in SplThreads /\ at[cur[c]] = "code" /\ own[cur[c]] = {}
    BY Zenon, <1>3, SplAssumption DEF SplInit
  <2>2. Held(c) = {}
    <3>1. Nobody # c
      BY Zenon, <1>3, SplAssumption DEF SplLocks
    <3> QED
      BY Zenon, <3>1 DEF SplInit, Held
  <2>3. c_spinlocks[c] = Cardinality(own[cur[c]]) + Spins(c)
    BY SMTT(30), <1>3, <2>1, FS_EmptySet DEF SplInit, Spins
  <2>4. OwnAt(c, cur[c]) /\ LevelAt(c, cur[c])
    BY Zenon, <2>1 DEF SplInit, OwnAt, LevelAt, InSwitch, SwitchPlaces
  <2>5. t_iplhigh[cur[c]] = t_curspl[cur[c]] + c_spinlocks[c] /\ t_iplhigh[cur[c]] # 0 /\ c \notin irq
    BY <1>3, <2>1 DEF SplInit, IPL_HIGH
  <2> QED
    BY Zenon, <2>1, <2>2, <2>3, <2>4, <2>5 DEF CpuOK, RunPlaces
<1>4. ASSUME NEW t \in SplThreads, \A c \in Cpus : cur[c] # t
      PROVE  at[t] \notin RunPlaces /\ OutOK(t)
  <2>1. at[t] = "unborn"
    BY Zenon, <1>4 DEF SplInit
  <2> QED
    BY Zenon, <2>1 DEF SplInit, OutOK, RunPlaces, SwitchPlaces
<1> QED
  BY Zenon, <1>1, <1>2, <1>3, <1>4 DEF SplIInv

\* Every step keeps the invariant.
LEMMA SplStep ==
    SplIInv /\ [SplNext]_splVars => SplIInv'
<1> SUFFICES ASSUME SplIInv, [SplNext]_splVars
             PROVE  SplIInv'
  BY Zenon
<1>1. CASE SplNext
  <2> PICK c \in Cpus :
        \/ \E l \in SplLocks : SpinAcquire(c, l) \/ SpinRelease(c, l)
        \/ \E spl \in {IPL_NONE, IPL_HIGH} : SplSet(c, spl)
        \/ \E n \in SplThreads : thread_fork(c, n) \/ SwitchNext(c, n)
        \/ thread_switch(c, "READY", Nobody) \/ thread_switch(c, "ZOMBIE", Nobody)
        \/ \E l \in Spinlocks : thread_switch(c, "SLEEP", l)
        \/ Spun(c) \/ LockRunqueue(c) \/ SwitchReturn(c) \/ SwitchQueue(c) \/ SwitchIdle(c)
        \/ SwitchResume(c) \/ SwitchTail(c)
        \/ Interrupt(c) \/ InterruptReturn(c)
        \/ Trap(c) \/ TrapSync(c) \/ TrapDone(c) \/ TrapReturn(c) \/ mips_usermode(c)
    BY Zenon, <1>1 DEF SplNext
  <2>1. CASE \E l \in SplLocks : SpinAcquire(c, l) \/ SpinRelease(c, l)
    BY Zenon, <2>1, AcquireStep, ReleaseStep
  <2>2. CASE \E spl \in {IPL_NONE, IPL_HIGH} : SplSet(c, spl)
    BY Zenon, <2>2, SplSetStep
  <2>3. CASE \E n \in SplThreads : thread_fork(c, n) \/ SwitchNext(c, n)
    BY Zenon, <2>3, ForkStep, SwitchNextStep
  <2>4. CASE \/ thread_switch(c, "READY", Nobody) \/ thread_switch(c, "ZOMBIE", Nobody)
             \/ \E l \in Spinlocks : thread_switch(c, "SLEEP", l)
    BY Zenon, <2>4, SwitchStep
  <2>5. CASE SwitchQueue(c)
    BY Zenon, <2>5, SwitchAwakeStep, SwitchSleepStep
  <2>6. CASE \/ Spun(c) \/ LockRunqueue(c) \/ SwitchReturn(c) \/ SwitchIdle(c)
             \/ SwitchResume(c) \/ SwitchTail(c)
    BY Zenon, <2>6, SpunStep, LockRunqueueStep, SwitchReturnStep, SwitchIdleStep, SwitchResumeStep, SwitchTailStep
  <2>7. CASE \/ Interrupt(c) \/ InterruptReturn(c)
             \/ Trap(c) \/ TrapSync(c) \/ TrapDone(c) \/ TrapReturn(c) \/ mips_usermode(c)
    BY Zenon, <2>7, InterruptStep, InterruptReturnStep, TrapStep, TrapSyncStep, TrapDoneStep, TrapReturnStep,
       UsermodeStep, SMTT(40)
  <2> QED
    BY Zenon, <2>1, <2>2, <2>3, <2>4, <2>5, <2>6, <2>7
<1>2. CASE UNCHANGED splVars
  <2>1. SplTypeOK' = SplTypeOK
    BY Zenon, <1>2 DEF splVars, swVars, trapVars, SplTypeOK
  <2>2. \A c \in Cpus : CpuOK(c)' = CpuOK(c)
    <3>1. \A c : Held(c)' = Held(c) /\ Spins(c)' = Spins(c)
      BY Zenon, <1>2 DEF splVars, Held, Spins
    <3>2. \A c, t : OwnAt(c, t)' = OwnAt(c, t)
      BY SMTT(30), <1>2 DEF splVars, swVars, OwnAt, Waits
    <3>3. \A c, t : LevelAt(c, t)' = LevelAt(c, t)
      BY <1>2 DEF splVars, swVars, trapVars, LevelAt, InSwitch
    <3>4. \A c : (OwnAt(c, cur[c]))' = OwnAt(c, cur[c]) /\ (LevelAt(c, cur[c]))' = LevelAt(c, cur[c])
      BY Zenon, <1>2, <3>2, <3>3 DEF splVars
    <3> QED
      BY Zenon, <1>2, <3>1, <3>4 DEF splVars, CpuOK
  <2>3. \A t \in SplThreads : OutOK(t)' = OutOK(t)
    BY Zenon, <1>2 DEF splVars, swVars, trapVars, OutOK
  <2> QED
    BY ZenonT(60), <1>2, <2>1, <2>2, <2>3 DEF splVars, SplIInv
<1> QED
  BY Zenon, <1>1, <1>2

(***************************************************************************)
(* However many CPUs, threads and spinlocks there are, interrupts are off  *)
(* exactly while the current thread's count says so, the count is the      *)
(* thread's level and the spinlocks of its CPU, and none of the assertions *)
(* of spl.c, spinlock.c, mips_trap and wchan_sleep fails.                  *)
(***************************************************************************)
THEOREM InterruptsExact ==
    SplSpec => []InterruptStateExact
<1>1. SplIInv => InterruptStateExact
  BY Zenon DEF SplIInv, CpuOK, InterruptStateExact
<1> QED
  BY <1>1, SplInitial, SplStep, PTL DEF SplSpec
=============================================================================
