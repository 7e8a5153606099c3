----------------------------- MODULE Migration -----------------------------
(***************************************************************************)
(* thread_consider_migration of kern/thread/thread.c, run by hardclock with *)
(* interrupts off: count the ready threads of all CPUs one CPU at a time,  *)
(* take what exceeds one share off the tail of the own run queue, hand it  *)
(* to the CPUs that have less, put back what is left.                      *)
(***************************************************************************)
EXTENDS Sched

VARIABLE mig    \* the function's local variables, per CPU

NoMig == [ph |-> "none", i |-> 0, my_count |-> 0, total_count |-> 0,
          one_share |-> 0, to_send |-> 0, victims |-> threadlist_init]

MigTypeOK ==
  mig \in [Cpu -> [ph : {"none", "count", "take", "scan", "send", "back"},
                   i : 0 .. NumCpus, my_count : Nat, total_count : Nat,
                   one_share : Nat, to_send : Nat, victims : Seq(Thread)]]

DIVROUNDUP(a, b) == (a + b - 1) \div b

Mig(c, m) == mig' = [mig EXCEPT ![c] = m]

(* Bug for the checks: hardclock does not call thread_yield. *)
BugHardclock(c) ==
  /\ Interruptible(c)
  /\ DoAct(c, Resume(c))
  /\ UNCHANGED <<t_state, t_cpu, cpuVars, queueVars, c_runqueue_lock, chanVars, mig>>

(* A clock tick: hardclock calls thread_consider_migration on every
   MIGRATE_HARDCLOCKS-th tick (any tick, here), then schedule, which does
   nothing, and thread_yield.  A thread that calls thread_yield itself takes
   the second way. *)
hardclock(c) ==
  /\ Interruptible(c)
  /\ \/ DoAct(c, "migrate") /\ Mig(c, [NoMig EXCEPT !.ph = "count"])
     \/ DoAct(c, "yield") /\ UNCHANGED mig
  /\ UNCHANGED <<t_state, t_cpu, cpuVars, queueVars, c_runqueue_lock, chanVars>>

(* One turn of the counting loop.  After the last CPU the share is known; a CPU
   that has less than its share sends nothing. *)
MigCount(c) ==
  LET m == mig[c]
      n == Len(c_runqueue[m.i])
      total == m.total_count + n
      my == IF m.i = c THEN n ELSE m.my_count
      share == DIVROUNDUP(total, NumCpus) IN
  /\ m.ph = "count"
  /\ c_runqueue_lock[m.i] = NONE
  /\ IF m.i + 1 < NumCpus
     THEN Mig(c, [m EXCEPT !.i = m.i + 1, !.total_count = total, !.my_count = my]) /\ UNCHANGED act
     ELSE IF my < share
     THEN Mig(c, NoMig) /\ DoAct(c, "yield")
     ELSE /\ Mig(c, [NoMig EXCEPT !.ph = "take", !.one_share = share, !.to_send = my - share])
          /\ UNCHANGED act
  /\ UNCHANGED <<t_state, t_cpu, cpuVars, queueVars, c_runqueue_lock, chanVars>>

(* to_send times remtail and addhead: the last to_send threads, in order. *)
MigTake(c) ==
  LET m == mig[c]
      keep == Len(c_runqueue[c]) - m.to_send IN
  /\ m.ph = "take"
  /\ c_runqueue_lock[c] = NONE
  /\ c_runqueue' = [c_runqueue EXCEPT ![c] = SubSeq(@, 1, keep)]
  /\ Mig(c, [m EXCEPT !.ph = "scan",
                      !.victims = SubSeq(c_runqueue[c], keep + 1, Len(c_runqueue[c]))])
  /\ UNCHANGED <<t_state, t_cpu, cpuVars, ipi_line, c_runqueue_lock, chanVars, act>>

(* The loop over the CPUs: go past the own one, lock another one's queue. *)
MigScan(c) ==
  LET m == mig[c] IN
  /\ m.ph = "scan"
  /\ IF m.i = NumCpus \/ m.to_send = 0
     THEN Mig(c, [m EXCEPT !.ph = "back"]) /\ UNCHANGED c_runqueue_lock
     ELSE IF m.i = c
     THEN Mig(c, [m EXCEPT !.i = m.i + 1]) /\ UNCHANGED c_runqueue_lock
     ELSE /\ c_runqueue_lock[m.i] = NONE
          /\ c_runqueue_lock' = [c_runqueue_lock EXCEPT ![m.i] = c]
          /\ Mig(c, [m EXCEPT !.ph = "send"])
  /\ UNCHANGED <<t_state, t_cpu, cpuVars, queueVars, chanVars, act>>

(* A thread that must not go to another CPU: the current one.  And a bug for the
   checks: no thread is skipped. *)
NoSkip(c, t) == FALSE
Skip(c, t) == t = c_curthread[c]

(* One turn of the inner loop, the run queue of CPU m.i locked.  The current
   thread, which is on the own run queue only if this CPU idled and it was
   woken, goes to the end of the victims instead of to the other CPU. *)
MigSend(c) ==
  LET m == mig[c]
      t == threadlist_head(m.victims)
      rest == threadlist_remhead(m.victims) IN
  /\ m.ph = "send"
  /\ IF Len(c_runqueue[m.i]) < m.one_share /\ m.to_send > 0
     THEN /\ UNCHANGED c_runqueue_lock
          /\ IF Skip(c, t)
             THEN /\ Mig(c, [m EXCEPT !.victims = threadlist_addtail(rest, t),
                                      !.to_send = m.to_send - 1])
                  /\ UNCHANGED <<t_cpu, queueVars>>
             ELSE /\ Mig(c, [m EXCEPT !.victims = rest, !.to_send = m.to_send - 1])
                  /\ t_cpu' = [t_cpu EXCEPT ![t] = m.i]
                  /\ c_runqueue' = [c_runqueue EXCEPT ![m.i] = threadlist_addtail(@, t)]
                  /\ ipi_line' = [ipi_line EXCEPT ![m.i] = @ \/ c_isidle[m.i]]
     ELSE /\ c_runqueue_lock' = [c_runqueue_lock EXCEPT ![m.i] = NONE]
          /\ Mig(c, [m EXCEPT !.ph = "scan", !.i = m.i + 1])
          /\ UNCHANGED <<t_cpu, queueVars>>
  /\ UNCHANGED <<t_state, cpuVars, chanVars, act>>

(* Bug for the checks: leftovers are forgotten. *)
BugMigBack(c) ==
  /\ mig[c].ph = "back"
  /\ Mig(c, NoMig)
  /\ DoAct(c, "yield")
  /\ UNCHANGED <<t_state, t_cpu, cpuVars, queueVars, c_runqueue_lock, chanVars>>

(* Leftovers go back on the own run queue; hardclock goes on to thread_yield. *)
MigBack(c) ==
  LET m == mig[c] IN
  /\ m.ph = "back"
  /\ threadlist_isempty(m.victims) \/ c_runqueue_lock[c] = NONE
  /\ c_runqueue' = [c_runqueue EXCEPT ![c] = @ \o m.victims]
  /\ Mig(c, NoMig)
  /\ DoAct(c, "yield")
  /\ UNCHANGED <<t_state, t_cpu, cpuVars, ipi_line, c_runqueue_lock, chanVars>>

thread_consider_migration(c) ==
  MigCount(c) \/ MigTake(c) \/ MigScan(c) \/ MigSend(c) \/ MigBack(c)
=============================================================================
