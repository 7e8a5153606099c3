-------------------------------- MODULE Spl --------------------------------
(***************************************************************************)
(* Interrupt priority levels, spinlocks, traps and context switches: how   *)
(* t_curspl, t_iplhigh_count, c_spinlocks and the processor's interrupt    *)
(* enable bit are kept in step (thread/spl.c, thread/spinlock.c,           *)
(* mips_trap, thread_switch, thread_startup, thread_fork).  What threads   *)
(* compute is left out: a running thread may do any of the operations      *)
(* below that its callers' discipline allows.                              *)
(***************************************************************************)
EXTENDS Integers, FiniteSets

CONSTANTS Cpus, SplThreads, Spinlocks,
          BootThread    \* CPU -> the thread it starts with

\* The run queue lock of a CPU goes by the CPU's name.
SplLocks == Cpus \cup Spinlocks
Nobody == "nobody"
IPL_NONE == 0
IPL_HIGH == 1

ASSUME SplAssumption ==
    /\ IsFiniteSet(Cpus) /\ IsFiniteSet(Spinlocks)
    /\ Nobody \notin SplLocks /\ Cpus \cap Spinlocks = {}
    /\ BootThread \in [Cpus -> SplThreads]
    /\ \A c, d \in Cpus : BootThread[c] = BootThread[d] => c = d

VARIABLES
    irq,            \* CPUs whose status register has interrupts enabled
    cur,            \* CPU: curthread
    c_spinlocks,    \* CPU: its count
    c_isidle,       \* CPUs in the idle loop of thread_switch
    splk_holder,    \* spinlock: the CPU that has it, which also tells the lock word
    t_curspl, t_iplhigh,
    at,             \* thread: where it is
    own,            \* thread: the spinlocks it has acquired
    want, cont,     \* thread: the spinlock it spins for, and where it goes then
    sw, newstate, lk,   \* thread: spl, NEWSTATE and LK of its thread_switch
    intr,           \* thread: where an interrupt found it
    doadjust,       \* threads whose mips_trap has doadjust set
    splbad          \* an assertion failed

swVars   == <<sw, newstate, lk>>
trapVars == <<intr, doadjust>>
splVars  == <<irq, cur, c_spinlocks, c_isidle, splk_holder, t_curspl, t_iplhigh, at, own,
              want, cont, swVars, trapVars, splbad>>

SplInit ==
    /\ irq = {} /\ cur = BootThread
    /\ c_spinlocks = [c \in Cpus |-> 0] /\ c_isidle = {}
    /\ splk_holder = [l \in SplLocks |-> Nobody]
    /\ t_curspl = [t \in SplThreads |-> IPL_HIGH] /\ t_iplhigh = [t \in SplThreads |-> 1]
    /\ at = [t \in SplThreads |-> IF \E c \in Cpus : t = BootThread[c] THEN "code" ELSE "unborn"]
    /\ own = [t \in SplThreads |-> {}]
    /\ want = [t \in SplThreads |-> Nobody] /\ cont = [t \in SplThreads |-> "code"]
    /\ sw = [t \in SplThreads |-> IPL_NONE] /\ newstate = [t \in SplThreads |-> "READY"]
    /\ lk = [t \in SplThreads |-> Nobody]
    /\ intr = [t \in SplThreads |-> "no"] /\ doadjust = {}
    /\ splbad = FALSE

-----------------------------------------------------------------------------
\* spl.c.  t runs on c.
splraise(c, t) ==
    /\ irq' = IF t_iplhigh[t] = 0 THEN irq \ {c} ELSE irq
    /\ t_iplhigh' = [t_iplhigh EXCEPT ![t] = @ + 1]
spllower(c, t) ==
    /\ t_iplhigh' = [t_iplhigh EXCEPT ![t] = @ - 1]
    /\ irq' = IF t_iplhigh[t] = 1 THEN irq \cup {c} ELSE irq
splx(c, t, spl) ==
    /\ t_curspl' = [t_curspl EXCEPT ![t] = spl]
    /\ IF t_curspl[t] < spl THEN splraise(c, t)
       ELSE IF t_curspl[t] > spl THEN spllower(c, t)
       ELSE UNCHANGED <<irq, t_iplhigh>>

\* spinlock_acquire up to the loop; the thread goes to k once it has the lock.
spinlock_acquire(c, t, l, k) ==
    /\ splraise(c, t)
    /\ splbad' = (splbad \/ splk_holder[l] = c)
    /\ c_spinlocks' = [c_spinlocks EXCEPT ![c] = @ + 1]
    /\ at' = [at EXCEPT ![t] = "spin"]
    /\ want' = [want EXCEPT ![t] = l] /\ cont' = [cont EXCEPT ![t] = k]

\* Test-and-set finds the lock free.
Spun(c) ==
    LET t == cur[c]
    IN  /\ at[t] = "spin" /\ splk_holder[want[t]] = Nobody
        /\ splk_holder' = [splk_holder EXCEPT ![want[t]] = c]
        /\ own' = [own EXCEPT ![t] = @ \cup {want[t]}]
        /\ at' = [at EXCEPT ![t] = cont[t]]
        /\ want' = [want EXCEPT ![t] = Nobody] /\ cont' = [cont EXCEPT ![t] = "code"]
        /\ UNCHANGED <<irq, cur, c_spinlocks, c_isidle, t_curspl, t_iplhigh, swVars, trapVars,
                       splbad>>

spinlock_release(c, t, l) ==
    /\ splbad' = (splbad \/ splk_holder[l] # c \/ c_spinlocks[c] <= 0)
    /\ c_spinlocks' = [c_spinlocks EXCEPT ![c] = @ - 1]
    /\ splk_holder' = [splk_holder EXCEPT ![l] = Nobody]
    /\ own' = [own EXCEPT ![t] = @ \ {l}]
    /\ spllower(c, t)

-----------------------------------------------------------------------------
\* Kernel code: a thread, a trap or an interrupt handler.  Handlers call
\* splhigh and splx only within thread_switch.
SplSet(c, spl) ==
    /\ at[cur[c]] = "code" /\ intr[cur[c]] = "no" /\ t_curspl[cur[c]] # spl
    /\ splx(c, cur[c], spl)
    /\ UNCHANGED <<cur, c_spinlocks, c_isidle, splk_holder, at, own, want, cont, swVars, trapVars,
                   splbad>>

SpinAcquire(c, l) ==
    /\ at[cur[c]] = "code" /\ l \notin own[cur[c]]
    /\ spinlock_acquire(c, cur[c], l, "code")
    /\ UNCHANGED <<cur, c_isidle, splk_holder, t_curspl, own, swVars, trapVars>>

SpinRelease(c, l) ==
    /\ at[cur[c]] = "code" /\ l \in own[cur[c]]
    /\ spinlock_release(c, cur[c], l)
    /\ UNCHANGED <<cur, c_isidle, t_curspl, at, want, cont, swVars, trapVars>>

\* Bug for the checks: the run queue lock is not accounted for.
NoAccount_fork(n) == 1

\* What a new thread starts with: one for t_curspl, one for the run queue lock.
fork_iplhigh(n) == 1 + 1

thread_fork(c, n) ==
    /\ at[cur[c]] = "code" /\ intr[cur[c]] = "no" /\ own[cur[c]] = {} /\ at[n] = "unborn"
    /\ at' = [at EXCEPT ![n] = "new"]
    /\ t_curspl' = [t_curspl EXCEPT ![n] = IPL_HIGH]
    /\ t_iplhigh' = [t_iplhigh EXCEPT ![n] = fork_iplhigh(n)]
    /\ UNCHANGED <<irq, cur, c_spinlocks, c_isidle, splk_holder, own, want, cont, swVars, trapVars,
                   splbad>>

-----------------------------------------------------------------------------
\* thread_switch.  While the CPU is idle it returns at once.  wchan_sleep
\* calls it with exactly LK held, thread_exit after splhigh.
thread_switch(c, state, l) ==
    LET t == cur[c]
    IN  /\ at[t] = "code" /\ c \notin c_isidle
        /\ state # "READY" => intr[t] = "no"
        /\ own[t] = IF state = "SLEEP" THEN {l} ELSE {}
        /\ state = "ZOMBIE" => t_curspl[t] = IPL_HIGH
        /\ splbad' = (splbad \/ (state = "SLEEP" /\ (splk_holder[l] # c \/ c_spinlocks[c] # 1)))
        /\ sw' = [sw EXCEPT ![t] = t_curspl[t]]
        /\ newstate' = [newstate EXCEPT ![t] = state]
        /\ lk' = [lk EXCEPT ![t] = l]
        /\ splx(c, t, IPL_HIGH)
        /\ at' = [at EXCEPT ![t] = "sw_lock"]
        /\ UNCHANGED <<cur, c_spinlocks, c_isidle, splk_holder, own, want, cont, trapVars>>

\* Lock the run queue, at the start or again after idling.
LockRunqueue(c) ==
    LET t == cur[c]
    IN  /\ at[t] \in {"sw_lock", "idle"}
        /\ spinlock_acquire(c, t, c, IF at[t] = "idle" THEN "sw_next" ELSE "sw_queue")
        /\ UNCHANGED <<cur, c_isidle, splk_holder, t_curspl, own, swVars, trapVars>>

\* Nothing else to run: back to the caller.
SwitchReturn(c) ==
    LET t == cur[c]
    IN  /\ at[t] = "sw_queue" /\ newstate[t] = "READY"
        /\ spinlock_release(c, t, c)
        /\ at' = [at EXCEPT ![t] = "sw_tail"]
        /\ UNCHANGED <<cur, c_isidle, t_curspl, want, cont, swVars, trapVars>>

\* Queue the thread; a sleeper releases the wait channel's lock.
SwitchQueue(c) ==
    LET t == cur[c]
    IN  /\ at[t] = "sw_queue"
        /\ at' = [at EXCEPT ![t] = "sw_next"]
        /\ c_isidle' = c_isidle \cup {c}
        /\ IF newstate[t] = "SLEEP" THEN spinlock_release(c, t, lk[t])
           ELSE UNCHANGED <<irq, c_spinlocks, splk_holder, own, t_iplhigh, splbad>>
        /\ UNCHANGED <<cur, t_curspl, want, cont, swVars, trapVars>>

\* Which threads are ready is left open; a CPU may come back to its own.
SwitchNext(c, next) ==
    LET t == cur[c]
    IN  /\ at[t] = "sw_next"
        /\ at[next] \in {"off", "new"} \/ (next = t /\ newstate[t] # "ZOMBIE")
        /\ c_isidle' = c_isidle \ {c}
        /\ cur' = [cur EXCEPT ![c] = next]
        /\ at' = [at EXCEPT ![t] = IF newstate[t] = "ZOMBIE" THEN "zombie" ELSE "off",
                            ![next] = IF at[next] = "new" THEN "sw_startup" ELSE "sw_resume"]
        /\ own' = [own EXCEPT ![t] = {}, ![next] = {c}]
        /\ UNCHANGED <<irq, c_spinlocks, splk_holder, t_curspl, t_iplhigh, want, cont, swVars, trapVars,
                       splbad>>

\* A thread that stays ready has itself to run.
SwitchIdle(c) ==
    LET t == cur[c]
    IN  /\ at[t] = "sw_next" /\ newstate[t] # "READY"
        /\ spinlock_release(c, t, c)
        /\ at' = [at EXCEPT ![t] = "idle"]
        /\ UNCHANGED <<cur, c_isidle, t_curspl, want, cont, swVars, trapVars>>

\* The incoming thread unlocks the run queue; thread_startup ends with spl0.
SwitchResume(c) ==
    LET t == cur[c]
    IN  /\ at[t] \in {"sw_resume", "sw_startup"}
        /\ spinlock_release(c, t, c)
        /\ sw' = [sw EXCEPT ![t] = IF at[t] = "sw_startup" THEN IPL_NONE ELSE @]
        /\ at' = [at EXCEPT ![t] = "sw_tail"]
        /\ UNCHANGED <<cur, c_isidle, t_curspl, want, cont, newstate, lk, trapVars>>

\* splx(spl).  wchan_sleep then locks LK again, which is a SpinAcquire.
SwitchTail(c) ==
    LET t == cur[c]
    IN  /\ at[t] = "sw_tail"
        /\ splx(c, t, sw[t])
        /\ at' = [at EXCEPT ![t] = "code"]
        /\ sw' = [sw EXCEPT ![t] = IPL_NONE]
        /\ newstate' = [newstate EXCEPT ![t] = "READY"]
        /\ lk' = [lk EXCEPT ![t] = Nobody]
        /\ UNCHANGED <<cur, c_spinlocks, c_isidle, splk_holder, own, want, cont, trapVars, splbad>>

-----------------------------------------------------------------------------
\* mips_trap.  An idle CPU turns interrupts on for an instant.
Interrupt(c) ==
    LET t == cur[c]
        adjust == t_curspl[t] = IPL_NONE
    IN  /\ c \in irq \/ at[t] = "idle"
        /\ intr' = [intr EXCEPT ![t] = at[t]]
        /\ doadjust' = IF adjust THEN doadjust \cup {t} ELSE doadjust \ {t}
        /\ at' = [at EXCEPT ![t] = "code"]
        /\ irq' = irq \ {c}
        /\ splbad' = (splbad \/ (adjust /\ t_iplhigh[t] # 0))
        /\ t_curspl' = [t_curspl EXCEPT ![t] = IPL_HIGH]
        /\ t_iplhigh' = [t_iplhigh EXCEPT ![t] = IF adjust THEN @ + 1 ELSE @]
        /\ UNCHANGED <<cur, c_spinlocks, c_isidle, splk_holder, own, want, cont, swVars>>

InterruptReturn(c) ==
    LET t == cur[c]
    IN  /\ at[t] = "code" /\ intr[t] # "no" /\ own[t] = {}
        /\ at' = [at EXCEPT ![t] = intr[t]]
        /\ intr' = [intr EXCEPT ![t] = "no"] /\ doadjust' = doadjust \ {t}
        /\ irq' = IF intr[t] = "idle" THEN irq \ {c} ELSE irq \cup {c}
        /\ IF t \in doadjust
           THEN /\ splbad' = (splbad \/ t_curspl[t] # IPL_HIGH \/ t_iplhigh[t] # 1)
                /\ t_iplhigh' = [t_iplhigh EXCEPT ![t] = @ - 1]
                /\ t_curspl' = [t_curspl EXCEPT ![t] = IPL_NONE]
           ELSE UNCHANGED <<splbad, t_iplhigh, t_curspl>>
        /\ UNCHANGED <<cur, c_spinlocks, c_isidle, splk_holder, own, want, cont, swVars>>

\* A system call, or a fault in user mode or in copyin and copyout.  User mode
\* is code that makes no calls, and how deep traps nest is left open.
Trap(c) ==
    LET t == cur[c]
    IN  /\ at[t] = "code" /\ c \in irq
        /\ irq' = irq \ {c}
        /\ at' = [at EXCEPT ![t] = "trap_in"]
        /\ UNCHANGED <<cur, c_spinlocks, c_isidle, splk_holder, t_curspl, t_iplhigh, own, want, cont,
                       swVars, trapVars, splbad>>

\* spl = splhigh(); splx(spl): interrupts come back on if they were.
TrapSync(c) ==
    LET t == cur[c]
    IN  /\ at[t] = "trap_in"
        /\ splbad' = (splbad \/ t_curspl[t] # IPL_NONE \/ t_iplhigh[t] # 0)
        /\ irq' = IF t_curspl[t] = IPL_NONE /\ t_iplhigh[t] = 0 THEN irq \cup {c} ELSE irq \ {c}
        /\ at' = [at EXCEPT ![t] = "code"]
        /\ UNCHANGED <<cur, c_spinlocks, c_isidle, splk_holder, t_curspl, t_iplhigh, own, want, cont,
                       swVars, trapVars>>

\* The body of the trap has undone its splhighs and locks.
TrapDone(c) ==
    LET t == cur[c]
    IN  /\ at[t] = "code" /\ intr[t] = "no"
        /\ own[t] = {} /\ t_curspl[t] = IPL_NONE
        /\ splbad' = (splbad \/ t_iplhigh[t] # 0)
        /\ irq' = irq \ {c}
        /\ at' = [at EXCEPT ![t] = "trap_out"]
        /\ UNCHANGED <<cur, c_spinlocks, c_isidle, splk_holder, t_curspl, t_iplhigh, own, want, cont,
                       swVars, trapVars>>

\* Return from exception restores the interrupt enable bit.
TrapReturn(c) ==
    LET t == cur[c]
    IN  /\ at[t] = "trap_out"
        /\ irq' = irq \cup {c}
        /\ at' = [at EXCEPT ![t] = "code"]
        /\ UNCHANGED <<cur, c_spinlocks, c_isidle, splk_holder, t_curspl, t_iplhigh, own, want, cont,
                       swVars, trapVars, splbad>>

\* spl0, then interrupts off without recording it, then out to user mode.
mips_usermode(c) ==
    LET t == cur[c]
    IN  /\ at[t] = "code" /\ intr[t] = "no" /\ own[t] = {} /\ t_curspl[t] = IPL_HIGH
        /\ t_curspl' = [t_curspl EXCEPT ![t] = IPL_NONE]
        /\ t_iplhigh' = [t_iplhigh EXCEPT ![t] = @ - 1]
        /\ irq' = irq \ {c}
        /\ at' = [at EXCEPT ![t] = "trap_out"]
        /\ UNCHANGED <<cur, c_spinlocks, c_isidle, splk_holder, own, want, cont, swVars, trapVars,
                       splbad>>

SplNext ==
    \E c \in Cpus :
        \/ \E l \in SplLocks : SpinAcquire(c, l) \/ SpinRelease(c, l)
        \/ \E spl \in {IPL_NONE, IPL_HIGH} : SplSet(c, spl)
        \/ \E n \in SplThreads : thread_fork(c, n) \/ SwitchNext(c, n)
        \/ thread_switch(c, "READY", Nobody) \/ thread_switch(c, "ZOMBIE", Nobody)
        \/ \E l \in Spinlocks : thread_switch(c, "SLEEP", l)
        \/ Spun(c) \/ LockRunqueue(c) \/ SwitchReturn(c) \/ SwitchQueue(c) \/ SwitchIdle(c)
        \/ SwitchResume(c) \/ SwitchTail(c)
        \/ Interrupt(c) \/ InterruptReturn(c)
        \/ Trap(c) \/ TrapSync(c) \/ TrapDone(c) \/ TrapReturn(c) \/ mips_usermode(c)

SplSpec == SplInit /\ [][SplNext]_splVars

-----------------------------------------------------------------------------
SwitchPlaces == {"sw_lock", "sw_queue", "sw_next", "idle", "sw_resume", "sw_startup", "sw_tail"}
RunPlaces == SwitchPlaces \cup {"code", "spin", "trap_in", "trap_out"}
Places == RunPlaces \cup {"unborn", "new", "off", "zombie"}

SplTypeOK ==
    /\ irq \subseteq Cpus /\ cur \in [Cpus -> SplThreads]
    /\ c_spinlocks \in [Cpus -> Int] /\ c_isidle \subseteq Cpus
    /\ splk_holder \in [SplLocks -> Cpus \cup {Nobody}]
    /\ t_curspl \in [SplThreads -> {IPL_NONE, IPL_HIGH}] /\ t_iplhigh \in [SplThreads -> Int]
    /\ at \in [SplThreads -> Places] /\ own \in [SplThreads -> SUBSET SplLocks]
    /\ want \in [SplThreads -> SplLocks \cup {Nobody}]
    /\ cont \in [SplThreads -> {"code", "sw_queue", "sw_next"}]
    /\ sw \in [SplThreads -> {IPL_NONE, IPL_HIGH}]
    /\ newstate \in [SplThreads -> {"READY", "SLEEP", "ZOMBIE"}]
    /\ lk \in [SplThreads -> Spinlocks \cup {Nobody}]
    /\ intr \in [SplThreads -> {"no", "code", "idle"}]
    /\ doadjust \subseteq SplThreads /\ splbad \in BOOLEAN

Held(c) == {l \in SplLocks : splk_holder[l] = c}
Spins(c) == IF at[cur[c]] = "spin" THEN 1 ELSE 0

(***************************************************************************)
(* The three records of "interrupts are off" agree on every CPU, after any *)
(* nesting of spl calls, spinlocks taken and released in any order,        *)
(* interrupts, traps and switches to old and new threads: the thread's     *)
(* count is its spl and the spinlocks of the CPU, interrupts are on        *)
(* exactly when it is 0, so never under a spinlock, and c_spinlocks counts *)
(* the locks the CPU holds or spins for.  No assertion fails: no CPU locks *)
(* a spinlock it holds, and no trap finds or leaves a level raised.        *)
(***************************************************************************)
InterruptStateExact ==
    /\ ~splbad
    /\ \A c \in Cpus :
         LET t == cur[c]
         IN  /\ t_iplhigh[t] = t_curspl[t] + c_spinlocks[c]
             /\ c \in irq <=> (t_iplhigh[t] = 0 /\ at[t] \notin {"trap_in", "trap_out"})
             /\ c_spinlocks[c] = Cardinality(Held(c)) + Spins(c)

-----------------------------------------------------------------------------
(***************************************************************************)
(* An inductive invariant behind it: what each place in the code may hold  *)
(* and at which level it runs, for the current thread of a CPU and for a   *)
(* thread that is switched out.                                            *)
(***************************************************************************)
Waits(t) == IF newstate[t] = "SLEEP" THEN {lk[t]} ELSE {}

InSwitch(t) == at[t] \in SwitchPlaces \/ (at[t] = "spin" /\ cont[t] # "code")

\* The locks held at a place other than plain code.
OwnAt(c, t) ==
    /\ at[t] = "sw_lock" => own[t] = Waits(t)
    /\ at[t] = "spin" => want[t] \in SplLocks \ own[t]
    /\ (at[t] = "spin" /\ cont[t] = "sw_queue") => want[t] = c /\ own[t] = Waits(t)
    /\ (at[t] = "spin" /\ cont[t] = "sw_next") => want[t] = c /\ own[t] = {}
    /\ at[t] = "sw_queue" => own[t] = {c} \cup Waits(t)
    /\ at[t] \in {"sw_next", "sw_resume", "sw_startup"} => own[t] = {c}
    /\ at[t] \in {"idle", "sw_tail", "trap_in", "trap_out"} => own[t] = {}

\* Handlers run, and thread_switch runs, at IPL_HIGH; a handler gets it back.
LevelAt(c, t) ==
    /\ InSwitch(t) \/ intr[t] # "no" => t_curspl[t] = IPL_HIGH
    /\ at[t] \in {"trap_in", "trap_out"} => t_curspl[t] = IPL_NONE /\ intr[t] = "no"
    /\ InSwitch(t) => intr[t] # "idle" /\ (intr[t] # "no" => sw[t] = IPL_HIGH /\ newstate[t] = "READY")
    /\ newstate[t] = "SLEEP" /\ (at[t] \in {"sw_lock", "sw_queue"} \/ (at[t] = "spin" /\ cont[t] = "sw_queue"))
          => lk[t] \in Spinlocks
    /\ at[t] = "sw_startup" => intr[t] = "no"
    /\ at[t] = "idle" \/ (at[t] = "spin" /\ cont[t] = "sw_next") \/ intr[t] = "idle" =>
          c \in c_isidle /\ newstate[t] # "READY"
    /\ at[t] = "sw_next" => c \in c_isidle
    /\ t \in doadjust <=> intr[t] = "code"

CpuOK(c) ==
    LET t == cur[c]
    IN  /\ at[t] \in RunPlaces
        /\ t_iplhigh[t] = t_curspl[t] + c_spinlocks[c]
        /\ c \in irq <=> (t_iplhigh[t] = 0 /\ at[t] \notin {"trap_in", "trap_out"})
        /\ Held(c) = own[t]
        /\ c_spinlocks[c] = Cardinality(own[t]) + Spins(c)
        /\ OwnAt(c, t) /\ LevelAt(c, t)

OutOK(t) ==
    /\ own[t] = {}
    /\ at[t] \in {"new", "off"} => t_curspl[t] = IPL_HIGH /\ t_iplhigh[t] = 2
    /\ at[t] \in {"new", "unborn"} => intr[t] = "no"
    /\ at[t] = "off" => intr[t] # "idle" /\ (intr[t] # "no" => sw[t] = IPL_HIGH /\ newstate[t] = "READY")
    /\ t \in doadjust <=> intr[t] = "code"

SplIInv ==
    /\ SplTypeOK /\ ~splbad
    /\ \A c, d \in Cpus : cur[c] = cur[d] => c = d
    /\ \A c \in Cpus : CpuOK(c)
    /\ \A t \in SplThreads : (\A c \in Cpus : cur[c] # t) => at[t] \notin RunPlaces /\ OutOK(t)
=============================================================================
