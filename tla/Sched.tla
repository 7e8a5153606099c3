------------------------------- MODULE Sched -------------------------------
(***************************************************************************)
(* The thread system of kern/thread/thread.c: run queues, context switch,  *)
(* the idle loop, wait channels and the interrupts that drive them, on     *)
(* several CPUs.  Migration adds thread_consider_migration and Threads the *)
(* threads' programs and the next-state relation.                          *)
(*                                                                         *)
(* A step is what one CPU does between taking a spinlock and releasing it: *)
(* everything such a section touches is protected by the lock, so no other *)
(* CPU can see its inside.  A spinlock is a variable only where it stays   *)
(* held across steps: a wait channel's lock while the woken threads are    *)
(* put on their run queues, and a remote run queue's lock while migration  *)
(* fills that queue.  Interrupts are off while a spinlock is held.         *)
(***************************************************************************)
EXTENDS Naturals, FiniteSets, ThreadList

CONSTANTS NumCpus,      \* cpuarray_num(&allcpus)
          Thread,       \* the thread structures there is memory for
          BootThread,   \* the thread cpu_create made for each CPU
          NONE

Cpu == 0 .. NumCpus - 1

(* The wait channels: lbolt of clock.c, thread_count_wchan, and that of
   cpu_startup_sem. *)
Wchan == {"lbolt", "thread_count_wchan", "sem_wchan"}

ASSUME SchedAssumption ==
  /\ NumCpus \in Nat \ {0}
  /\ IsFiniteSet(Thread)
  /\ BootThread \in [Cpu -> Thread]
  /\ \A c, d \in Cpu : BootThread[c] = BootThread[d] => c = d
  /\ NONE \notin Thread \cup Cpu

VARIABLES t_state, t_cpu,          \* struct thread; state "none": no such thread
          c_curthread, c_runqueue, c_isidle, c_zombies,   \* struct cpu
          c_runqueue_lock,         \* its holder, while migration fills the queue
          wc_threads, wc_lock,     \* struct wchan and the lock that goes with it
          ipi_line,                \* the CPU's interprocessor interrupt line
          act,                     \* what the CPU is doing
          hand, tgt                \* threads a CPU took off a channel and has yet
                                   \* to make runnable; t_cpu read for the first

cpuVars == <<c_curthread, c_isidle, c_zombies>>
queueVars == <<c_runqueue, ipi_line>>
chanVars == <<wc_threads, wc_lock, hand, tgt>>

Acts == {"thread", "wait", "window", "wake", "ipi", "migrate", "yield"}

SchedTypeOK ==
  /\ t_state \in [Thread -> {"none", "S_RUN", "S_READY", "S_SLEEP", "S_ZOMBIE"}]
  /\ t_cpu \in [Thread -> Cpu]
  /\ c_curthread \in [Cpu -> Thread]
  /\ c_runqueue \in [Cpu -> Seq(Thread)]
  /\ c_isidle \in [Cpu -> BOOLEAN]
  /\ c_zombies \in [Cpu -> Seq(Thread)]
  /\ c_runqueue_lock \in [Cpu -> Cpu \cup {NONE}]
  /\ wc_threads \in [Wchan -> Seq(Thread)]
  /\ wc_lock \in [Wchan -> Cpu \cup {NONE}]
  /\ ipi_line \in [Cpu -> BOOLEAN]
  /\ act \in [Cpu -> Acts]
  /\ hand \in [Cpu -> Seq(Thread)]
  /\ tgt \in [Cpu -> Cpu \cup {NONE}]

(* cpu_create has run for every CPU: each has its boot thread as curthread. *)
SchedInit ==
  /\ t_state = [t \in Thread |-> IF \E c \in Cpu : BootThread[c] = t THEN "S_RUN" ELSE "none"]
  /\ t_cpu = [t \in Thread |-> IF \E c \in Cpu : BootThread[c] = t
                               THEN CHOOSE c \in Cpu : BootThread[c] = t ELSE 0]
  /\ c_curthread = BootThread
  /\ c_runqueue = [c \in Cpu |-> threadlist_init]
  /\ c_isidle = [c \in Cpu |-> FALSE]
  /\ c_zombies = [c \in Cpu |-> threadlist_init]
  /\ c_runqueue_lock = [c \in Cpu |-> NONE]
  /\ wc_threads = [w \in Wchan |-> threadlist_init]
  /\ wc_lock = [w \in Wchan |-> NONE]
  /\ ipi_line = [c \in Cpu |-> FALSE]
  /\ act = [c \in Cpu |-> "thread"]
  /\ hand = [c \in Cpu |-> threadlist_init]
  /\ tgt = [c \in Cpu |-> NONE]
-----------------------------------------------------------------------------
DoAct(c, a) == act' = [act EXCEPT ![c] = a]

(* Where a finished handler or a finished wakeup goes on: in the idle loop it
   interrupted, or in the current thread. *)
Resume(c) == IF c_isidle[c] THEN "window" ELSE "thread"

(* Bugs for the checks: the idle CPU is not told, and the thread is queued on
   the CPU that wakes it. *)
NoIpi_make_runnable(c, target, cpu) ==
  /\ c_runqueue_lock[cpu] = NONE
  /\ t_state' = [t_state EXCEPT ![target] = "S_READY"]
  /\ c_runqueue' = [c_runqueue EXCEPT ![cpu] = threadlist_addtail(@, target)]
  /\ UNCHANGED ipi_line

Here_make_runnable(c, target, cpu) ==
  /\ c_runqueue_lock[c] = NONE
  /\ t_state' = [t_state EXCEPT ![target] = "S_READY"]
  /\ c_runqueue' = [c_runqueue EXCEPT ![c] = threadlist_addtail(@, target)]
  /\ UNCHANGED ipi_line

(* thread_make_runnable by CPU c, the run queue of cpu being free: queue the
   thread and send IPI_UNIDLE to another CPU that idles. *)
thread_make_runnable(c, target, cpu) ==
  /\ c_runqueue_lock[cpu] = NONE
  /\ t_state' = [t_state EXCEPT ![target] = "S_READY"]
  /\ c_runqueue' = [c_runqueue EXCEPT ![cpu] = threadlist_addtail(@, target)]
  /\ ipi_line' = [ipi_line EXCEPT ![cpu] = @ \/ (c_isidle[cpu] /\ cpu # c)]

(* exorcise: the zombies in zs are destroyed. *)
exorcise(st, zs) == [t \in Thread |-> IF t \in Members(zs) THEN "none" ELSE st[t]]

(* The end of thread_switch (and of thread_startup, where a new thread begins),
   with the run queue locked and holding rq, the thread states st and the
   zombies zs: take the next thread off the queue and run it, with the zombies
   destroyed on its stack; without one the CPU idles, on the old thread's
   stack, which stays its current thread. *)
Dispatch(c, rq, st, zs) ==
  IF threadlist_isempty(rq)
  THEN /\ c_isidle' = [c_isidle EXCEPT ![c] = TRUE]
       /\ c_runqueue' = [c_runqueue EXCEPT ![c] = rq]
       /\ t_state' = st
       /\ c_zombies' = [c_zombies EXCEPT ![c] = zs]
       /\ DoAct(c, "wait")
       /\ UNCHANGED c_curthread
  ELSE LET next == threadlist_head(rq) IN
       /\ c_isidle' = [c_isidle EXCEPT ![c] = FALSE]
       /\ c_runqueue' = [c_runqueue EXCEPT ![c] = threadlist_remhead(rq)]
       /\ c_curthread' = [c_curthread EXCEPT ![c] = next]
       /\ t_state' = [exorcise(st, zs) EXCEPT ![next] = "S_RUN"]
       /\ c_zombies' = [c_zombies EXCEPT ![c] = threadlist_init]
       /\ DoAct(c, "thread")

(* thread_switch by the current thread of c, which does not idle.  S_SLEEP
   queues it on wc and lets the channel's lock go; other CPUs can take it off
   the channel at once but not run it before the run queue's lock is free. *)
thread_switch(c, newstate, wc) ==
  LET cur == c_curthread[c]
      st == [t_state EXCEPT ![cur] = newstate] IN
  /\ c_runqueue_lock[c] = NONE
  /\ CASE newstate = "S_READY" ->
            /\ Dispatch(c, threadlist_addtail(c_runqueue[c], cur), st, c_zombies[c])
            /\ UNCHANGED wc_threads
       [] newstate = "S_SLEEP" ->
            /\ Dispatch(c, c_runqueue[c], st, c_zombies[c])
            /\ wc_threads' = [wc_threads EXCEPT ![wc] = threadlist_addtail(@, cur)]
       [] newstate = "S_ZOMBIE" ->
            /\ Dispatch(c, c_runqueue[c], st, threadlist_addtail(c_zombies[c], cur))
            /\ UNCHANGED wc_threads
  /\ UNCHANGED <<t_cpu, c_runqueue_lock, wc_lock, ipi_line, hand, tgt>>

(* The loop of thread_switch again: the idling CPU comes out of cpu_idle, locks
   its run queue and looks. *)
IdleLook(c) ==
  /\ act[c] = "window"
  /\ c_runqueue_lock[c] = NONE
  /\ Dispatch(c, c_runqueue[c], t_state, c_zombies[c])
  /\ UNCHANGED <<t_cpu, c_runqueue_lock, chanVars, ipi_line>>

(* thread_yield, called by hardclock and by threads. *)
thread_yield(c) ==
  /\ act[c] = "yield"
  /\ \/ /\ c_isidle[c]
        /\ DoAct(c, "window")
        /\ UNCHANGED <<t_state, t_cpu, cpuVars, queueVars, c_runqueue_lock, chanVars>>
     \/ /\ ~c_isidle[c]
        /\ c_runqueue_lock[c] = NONE
        /\ threadlist_isempty(c_runqueue[c])
        /\ DoAct(c, "thread")
        /\ UNCHANGED <<t_state, t_cpu, cpuVars, queueVars, c_runqueue_lock, chanVars>>
     \/ /\ ~c_isidle[c]
        /\ ~threadlist_isempty(c_runqueue[c])
        /\ thread_switch(c, "S_READY", NONE)
-----------------------------------------------------------------------------
(* wchan_wakeone and wchan_wakeall by c, with lk just acquired: the threads
   leave the channel.  The lock stays held until they are all runnable. *)
Take(c, wc, list, left) ==
  /\ wc_lock[wc] = NONE
  /\ wc_threads' = [wc_threads EXCEPT ![wc] = left]
  /\ hand' = [hand EXCEPT ![c] = list]
  /\ IF threadlist_isempty(list)
     THEN DoAct(c, Resume(c)) /\ UNCHANGED <<wc_lock, tgt>>
     ELSE /\ wc_lock' = [wc_lock EXCEPT ![wc] = c]
          /\ tgt' = [tgt EXCEPT ![c] = t_cpu[threadlist_head(list)]]
          /\ DoAct(c, "wake")

wchan_wakeone(c, wc) ==
  IF threadlist_isempty(wc_threads[wc])
  THEN Take(c, wc, threadlist_init, threadlist_init)
  ELSE Take(c, wc, <<threadlist_head(wc_threads[wc])>>, threadlist_remhead(wc_threads[wc]))

(* Bug for the checks: the threads stay on the channel. *)
Bug_wakeall(c, wc) == Take(c, wc, wc_threads[wc], wc_threads[wc])

wchan_wakeall(c, wc) == Take(c, wc, wc_threads[wc], threadlist_init)

(* One target of wchan_wakeone or wchan_wakeall becomes runnable, on the CPU
   its t_cpu named when it was read; after the last, lk is released. *)
WakeTarget(c) ==
  /\ act[c] = "wake"
  /\ LET target == threadlist_head(hand[c])
         rest == threadlist_remhead(hand[c]) IN
     /\ thread_make_runnable(c, target, tgt[c])
     /\ hand' = [hand EXCEPT ![c] = rest]
     /\ IF threadlist_isempty(rest)
        THEN /\ tgt' = [tgt EXCEPT ![c] = NONE]
             /\ wc_lock' = [w \in Wchan |-> IF wc_lock[w] = c THEN NONE ELSE wc_lock[w]]
             /\ DoAct(c, Resume(c))
        ELSE /\ tgt' = [tgt EXCEPT ![c] = t_cpu[threadlist_head(rest)]]
             /\ UNCHANGED <<wc_lock, act>>
  /\ UNCHANGED <<t_cpu, cpuVars, c_runqueue_lock, wc_threads>>
-----------------------------------------------------------------------------
(* Bug for the checks: interrupts are on during thread_consider_migration. *)
BugInterruptible(c) == act[c] \in {"thread", "wait", "window", "migrate"}

(* Interrupts are taken by a CPU that runs a thread outside spinlock sections,
   waits in cpu_idle or is in the window cpu_idle opens with cpu_irqonoff. *)
Interruptible(c) == act[c] \in {"thread", "wait", "window"}

(* mainbus_interrupt for an interprocessor interrupt: IPI_UNIDLE asks nothing
   more of interprocessor_interrupt, the line is cleared after it. *)
TakeIpi(c) ==
  /\ Interruptible(c)
  /\ ipi_line[c]
  /\ DoAct(c, "ipi")
  /\ UNCHANGED <<t_state, t_cpu, cpuVars, queueVars, c_runqueue_lock, chanVars>>

lamebus_clear_ipi(c) ==
  /\ act[c] = "ipi"
  /\ ipi_line' = [ipi_line EXCEPT ![c] = FALSE]
  /\ DoAct(c, Resume(c))
  /\ UNCHANGED <<t_state, t_cpu, cpuVars, c_runqueue, c_runqueue_lock, chanVars>>

(* timerclock, once a second, on the CPU that gets device interrupts. *)
timerclock ==
  /\ Interruptible(0)
  /\ wchan_wakeall(0, "lbolt")
  /\ UNCHANGED <<t_state, t_cpu, cpuVars, queueVars, c_runqueue_lock>>
=============================================================================
