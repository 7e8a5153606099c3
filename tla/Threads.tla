------------------------------ MODULE Threads ------------------------------
(***************************************************************************)
(* The threads on top of Sched and Migration: the boot of the CPUs with    *)
(* cpu_startup_sem (thread_start_cpus, cpu_hatch), thread_fork,            *)
(* thread_exit, thread_wait_for_count as the menu calls it, clocksleep.    *)
(***************************************************************************)
EXTENDS Migration

CONSTANTS CountMod,   \* thread_count is an unsigned: it wraps at CountMod
          Calls       \* what threads do, of "fork", "menu", "exit", "clocksleep"

ASSUME ThreadsAssumption == CountMod \in Nat \ {0, 1}

VARIABLES pc,             \* where each thread is
          child,          \* newthread of thread_fork
          num,            \* i of thread_start_cpus, tc of common_prog
          thread_count,
          sem_count       \* of cpu_startup_sem

progVars == <<pc, child, num>>
countVars == <<thread_count, sem_count>>
vars == <<t_state, t_cpu, c_curthread, c_runqueue, c_isidle, c_zombies,
          c_runqueue_lock, wc_threads, wc_lock, ipi_line, act, hand, tgt, mig,
          pc, child, num, thread_count, sem_count>>

Menu == BootThread[0]

Pcs == {"none", "boot", "hatch", "body", "lbolt", "menu", "fork", "count", "exit", "exit_dec", "exit_switch"}

TypeOK ==
  /\ SchedTypeOK
  /\ MigTypeOK
  /\ pc \in [Thread -> Pcs]
  /\ child \in [Thread -> Thread \cup {NONE}]
  /\ num \in [Thread -> Nat]
  /\ thread_count \in 0 .. CountMod - 1
  /\ sem_count \in 0 .. NumCpus - 1

(* mainbus_start_cpus has started the CPUs; the boot thread is in front of its
   loop over P(cpu_startup_sem), the others are about to run cpu_hatch. *)
Init ==
  /\ SchedInit
  /\ mig = [c \in Cpu |-> NoMig]
  /\ pc = [t \in Thread |-> IF t = Menu THEN "boot"
                            ELSE IF \E c \in Cpu : BootThread[c] = t THEN "hatch" ELSE "none"]
  /\ child = [t \in Thread |-> NONE]
  /\ num = [t \in Thread |-> 0]
  /\ thread_count = 0
  /\ sem_count = 0

(* The current thread of c is running, at l. *)
At(c, l) == act[c] = "thread" /\ pc[c_curthread[c]] = l
Goto(c, l) == pc' = [pc EXCEPT ![c_curthread[c]] = l]
-----------------------------------------------------------------------------
(* P as one step up to its return or the next sleep: sem_lock protects test,
   decrement and sleep. *)
P(c, from, done) ==
  /\ At(c, from)
  /\ wc_lock["sem_wchan"] = NONE
  /\ \/ /\ sem_count = 0
        /\ thread_switch(c, "S_SLEEP", "sem_wchan")
        /\ UNCHANGED <<progVars, countVars>>
     \/ /\ sem_count > 0
        /\ sem_count' = sem_count - 1
        /\ done
        /\ UNCHANGED <<t_state, t_cpu, cpuVars, queueVars, c_runqueue_lock, chanVars, act,
                       thread_count, child>>
  /\ UNCHANGED mig

(* V as far as the thread it wakes being off the channel. *)
V(c) ==
  /\ wchan_wakeone(c, "sem_wchan")
  /\ sem_count' = sem_count + 1
  /\ UNCHANGED <<t_state, t_cpu, cpuVars, queueVars, c_runqueue_lock, mig, child, num, thread_count>>

(* The loop of thread_start_cpus: one P for each other CPU. *)
BootP(c) ==
  /\ num[c_curthread[c]] < NumCpus - 1
  /\ P(c, "boot", num' = [num EXCEPT ![c_curthread[c]] = @ + 1] /\ UNCHANGED pc)

(* Its end: the thread count is set, the boot thread goes on to the menu. *)
BootDone(c) ==
  /\ At(c, "boot")
  /\ num[c_curthread[c]] = NumCpus - 1
  /\ thread_count' = 1
  /\ num' = [num EXCEPT ![c_curthread[c]] = 0]
  /\ Goto(c, "body")
  /\ UNCHANGED <<t_state, t_cpu, cpuVars, queueVars, c_runqueue_lock, chanVars, act, mig, child, sem_count>>

(* cpu_hatch: V(cpu_startup_sem), then thread_exit. *)
cpu_hatch(c) == At(c, "hatch") /\ Goto(c, "exit") /\ V(c)

Booted == pc[Menu] # "boot"
-----------------------------------------------------------------------------
(* thread_fork up to the release of thread_count_lock: a thread structure u is
   made, in the caller's CPU, and counted; waiters for the count are woken. *)
ForkCount(c, u) ==
  /\ t_state[u] = "none"
  /\ wchan_wakeall(c, "thread_count_wchan")
  /\ thread_count' = (thread_count + 1) % CountMod
  /\ t_state' = [t_state EXCEPT ![u] = "S_READY"]
  /\ t_cpu' = [t_cpu EXCEPT ![u] = t_cpu[c_curthread[c]]]
  /\ pc' = [pc EXCEPT ![c_curthread[c]] = "fork", ![u] = "body"]
  /\ child' = [child EXCEPT ![c_curthread[c]] = u]
  /\ UNCHANGED <<cpuVars, queueVars, c_runqueue_lock, mig, sem_count>>

thread_fork(c, u) ==
  /\ "fork" \in Calls
  /\ At(c, "body")
  /\ "menu" \in Calls => c_curthread[c] # Menu
  /\ ForkCount(c, u)
  /\ UNCHANGED num

(* common_prog of menu.c reads thread_count, forks and waits for the count. *)
MenuRead(c) ==
  /\ "menu" \in Calls
  /\ At(c, "body")
  /\ c_curthread[c] = Menu
  /\ num' = [num EXCEPT ![Menu] = thread_count]
  /\ Goto(c, "menu")
  /\ UNCHANGED <<t_state, t_cpu, cpuVars, queueVars, c_runqueue_lock, chanVars, act, mig, child, countVars>>

common_prog(c, u) == At(c, "menu") /\ ForkCount(c, u) /\ UNCHANGED num

(* The end of thread_fork: the new thread becomes runnable. *)
ForkRun(c) ==
  LET u == child[c_curthread[c]] IN
  /\ At(c, "fork")
  /\ thread_make_runnable(c, u, t_cpu[u])
  /\ child' = [child EXCEPT ![c_curthread[c]] = NONE]
  /\ Goto(c, IF c_curthread[c] = Menu /\ "menu" \in Calls THEN "count" ELSE "body")
  /\ UNCHANGED <<t_cpu, cpuVars, c_runqueue_lock, chanVars, act, mig, num, countVars>>

(* One turn of thread_wait_for_count's loop, under thread_count_lock. *)
thread_wait_for_count(c) ==
  /\ At(c, "count")
  /\ wc_lock["thread_count_wchan"] = NONE
  /\ \/ /\ thread_count # num[c_curthread[c]]
        /\ thread_switch(c, "S_SLEEP", "thread_count_wchan")
        /\ UNCHANGED <<progVars, countVars>>
     \/ /\ thread_count = num[c_curthread[c]]
        /\ Goto(c, "body")
        /\ num' = [num EXCEPT ![c_curthread[c]] = 0]
        /\ UNCHANGED <<t_state, t_cpu, cpuVars, queueVars, c_runqueue_lock, chanVars, act, child, countVars>>
  /\ UNCHANGED mig

(* thread_exit looks at thread_count without the lock; the boot thread never
   exits.  Then it counts itself out, and then it becomes a zombie. *)
Exit(c) ==
  /\ "exit" \in Calls
  /\ At(c, "body")
  /\ c_curthread[c] # Menu
  /\ Goto(c, "exit")
  /\ UNCHANGED <<t_state, t_cpu, cpuVars, queueVars, c_runqueue_lock, chanVars, act, mig, child, num, countVars>>

ExitLook(c) ==
  /\ At(c, "exit")
  /\ Goto(c, IF thread_count # 0 THEN "exit_dec" ELSE "exit_switch")
  /\ UNCHANGED <<t_state, t_cpu, cpuVars, queueVars, c_runqueue_lock, chanVars, act, mig, child, num, countVars>>

ExitCount(c) ==
  /\ At(c, "exit_dec")
  /\ wchan_wakeall(c, "thread_count_wchan")
  /\ thread_count' = (thread_count + CountMod - 1) % CountMod
  /\ Goto(c, "exit_switch")
  /\ UNCHANGED <<t_state, t_cpu, cpuVars, queueVars, c_runqueue_lock, mig, child, num, sem_count>>

ExitSwitch(c) ==
  /\ At(c, "exit_switch")
  /\ thread_switch(c, "S_ZOMBIE", NONE)
  /\ Goto(c, "none")
  /\ UNCHANGED <<mig, child, num, countVars>>

thread_exit(c) == Exit(c) \/ ExitLook(c) \/ ExitCount(c) \/ ExitSwitch(c)
-----------------------------------------------------------------------------
(* One second of clocksleep. *)
clocksleep(c) ==
  /\ \/ /\ "clocksleep" \in Calls /\ At(c, "body") /\ c_curthread[c] # Menu
        /\ wc_lock["lbolt"] = NONE
        /\ thread_switch(c, "S_SLEEP", "lbolt")
        /\ Goto(c, "lbolt")
     \/ /\ At(c, "lbolt")
        /\ wc_lock["lbolt"] = NONE
        /\ Goto(c, "body")
        /\ UNCHANGED <<t_state, t_cpu, cpuVars, queueVars, c_runqueue_lock, chanVars, act>>
  /\ UNCHANGED <<mig, child, num, countVars>>

(* The timer's interrupt once a second, on CPU 0, which gets device interrupts. *)
DeviceInterrupt == "clocksleep" \in Calls /\ timerclock /\ UNCHANGED <<mig, progVars, countVars>>

Program(c) ==
  \/ BootP(c) \/ BootDone(c) \/ cpu_hatch(c) \/ MenuRead(c)
  \/ \E u \in Thread : thread_fork(c, u) \/ common_prog(c, u)
  \/ ForkRun(c) \/ thread_wait_for_count(c) \/ thread_exit(c) \/ clocksleep(c)

(* What c does with interrupts off, spinning for locks included: nothing else
   can happen on c before it is done. *)
InKernel(c) ==
  \/ (thread_yield(c) \/ WakeTarget(c) \/ lamebus_clear_ipi(c)) /\ UNCHANGED <<mig, progVars, countVars>>
  \/ thread_consider_migration(c) /\ UNCHANGED <<progVars, countVars>>

Kernel(c) ==
  \/ InKernel(c)
  \/ (IdleLook(c) \/ TakeIpi(c)) /\ UNCHANGED <<mig, progVars, countVars>>
  \/ hardclock(c) /\ UNCHANGED <<progVars, countVars>>

Next == DeviceInterrupt \/ \E c \in Cpu : Program(c) \/ Kernel(c)

Spec == Init /\ [][Next]_vars

(* Fairness.  CPUs run; one that spins for a spinlock that is released again
   and again gets it; the timer's interrupt is raised HZ times a second and
   stays up until it is taken.  A thread that got as far as the end of
   thread_fork goes on when it has the CPU; nothing else is asked of threads. *)
Fairness ==
  \A c \in Cpu : /\ SF_vars(InKernel(c))
                 /\ SF_vars(IdleLook(c) /\ UNCHANGED <<mig, progVars, countVars>>)
                 /\ SF_vars(hardclock(c) /\ UNCHANGED <<progVars, countVars>>)
                 /\ SF_vars(ForkRun(c))

FairSpec == Spec /\ Fairness
-----------------------------------------------------------------------------
(* The lists a thread can be on while it does not run, and its places there. *)
ListName == ({"runqueue", "zombies", "hand", "victims"} \X Cpu) \cup ({"wchan"} \X Wchan)
List(l) == CASE l[1] = "runqueue" -> c_runqueue[l[2]]
             [] l[1] = "zombies" -> c_zombies[l[2]]
             [] l[1] = "hand" -> hand[l[2]]
             [] l[1] = "victims" -> mig[l[2]].victims
             [] l[1] = "wchan" -> wc_threads[l[2]]
Places(t) == UNION {{l} \X {i \in DOMAIN List(l) : List(l)[i] = t} : l \in ListName}

(* Lists on which a thread in a state belongs. *)
Home == [S_READY |-> {"runqueue", "victims"}, S_SLEEP |-> {"wchan", "hand"}, S_ZOMBIE |-> {"zombies"}]

(* thread.c never loses or doubles a thread: a running thread is on no list and
   is current on a CPU that does not idle; any other thread is in one place, the
   one its state calls for, unless thread_fork has still to queue it. *)
OnePlace ==
  /\ TypeOK
  /\ \A t \in Thread :
       LET on == {c \in Cpu : c_curthread[c] = t /\ ~c_isidle[c]}
           new == \E p \in Thread : child[p] = t IN
       CASE t_state[t] = "S_RUN" -> Cardinality(on) = 1 /\ Places(t) = {}
         [] t_state[t] = "none" -> on = {} /\ Places(t) = {}
         [] OTHER -> /\ on = {}
                     /\ Cardinality(Places(t)) = IF new THEN 0 ELSE 1
                     /\ \A p \in Places(t) : p[1][1] \in Home[t_state[t]]

(* curcpu is found through curthread: the assertions at the head of
   thread_switch.  The current thread of a CPU, also of one that idles on the
   stack of a thread that sleeps, is ready again or is dead, belongs to that CPU,
   has not been freed by exorcise and is current nowhere else. *)
CurthreadInv ==
  \A c \in Cpu : /\ t_cpu[c_curthread[c]] = c
                 /\ t_state[c_curthread[c]] # "none"
                 /\ \A d \in Cpu : c_curthread[d] = c_curthread[c] => d = c

(* A ready thread is on the run queue of the CPU its t_cpu names, although
   wchan_wakeone and wchan_wakeall read t_cpu before they lock that queue. *)
RunqueueCpu == \A c \in Cpu : \A t \in Members(c_runqueue[c]) : t_cpu[t] = c

(* No wakeup of an idle CPU is lost: a CPU that waits in cpu_idle while its run
   queue is not empty has an interprocessor interrupt coming. *)
NoLostUnidle == \A c \in Cpu : act[c] = "wait" /\ c_runqueue[c] # <<>> => ipi_line[c]

(* thread_consider_migration never takes a thread off an empty list, although
   it uses counts of unlocked queues: the own run queue still has the to_send
   threads counted, and to_send never exceeds the victims in hand. *)
MigrationFits ==
  \A c \in Cpu : /\ mig[c].ph = "take" => mig[c].to_send <= Len(c_runqueue[c])
                 /\ mig[c].ph \in {"scan", "send"} => mig[c].to_send <= Len(mig[c].victims)

(* A thread moves to another CPU only while it is ready and current nowhere. *)
MovesOnlyReady ==
  [][\A t \in Thread : t_cpu'[t] # t_cpu[t] /\ t_state[t] # "none" =>
       t_state[t] = "S_READY" /\ \A c \in Cpu : c_curthread[c] # t]_vars

(* Round robin with migration starves nobody: a thread made ready runs. *)
ReadyRuns == \A t \in Thread : t_state[t] = "S_READY" ~> t_state[t] = "S_RUN"

(* The comment on the gross hack in thread_start_cpus: thread_count is set to 1
   for the boot thread, "the only thread that hasn't exited yet", so that
   counting in thread_fork and thread_exit works: with every other thread gone,
   the count is 1. *)
OnlyMenuCounted ==
  Booted /\ (\A t \in Thread \ {Menu} : pc[t] = "none") /\ pc[Menu] # "fork" => thread_count = 1
=============================================================================
