------------------------------ MODULE ThreadsInv ----------------------------
(***************************************************************************)
(* The inductive invariant behind the safety properties of Threads.  It    *)
(* gives every thread one place: the kind of list it is on and whose list  *)
(* that is.                                                                *)
(***************************************************************************)
EXTENDS Threads

Kinds == {"none", "runqueue", "zombies", "hand", "victims", "wchan"}

(* A thread's place: on the list of kind k[t] that belongs to x[t], or on none. *)
PlaceType(k, x) ==
  /\ k \in [Thread -> Kinds]
  /\ x \in [Thread -> Cpu \cup Wchan]
  /\ \A t \in Thread : /\ k[t] = "wchan" => x[t] \in Wchan
                       /\ k[t] \in {"runqueue", "zombies", "hand", "victims"} => x[t] \in Cpu

(* The lists f[i] are the threads whose place is there, each once. *)
Listed(f, I, kn, k, x) ==
  /\ f \in [I -> Seq(Thread)]
  /\ \A i \in I : /\ NoDup(f[i])
                  /\ \A t \in Thread : t \in Members(f[i]) <=> k[t] = kn /\ x[t] = i

(* All lists of the system. *)
Lists(rq, z, h, v, w, k, x) ==
  /\ PlaceType(k, x)
  /\ Listed(rq, Cpu, "runqueue", k, x)
  /\ Listed(z, Cpu, "zombies", k, x)
  /\ Listed(h, Cpu, "hand", k, x)
  /\ Listed(v, Cpu, "victims", k, x)
  /\ Listed(w, Wchan, "wchan", k, x)

TStates == {"none", "S_RUN", "S_READY", "S_SLEEP", "S_ZOMBIE"}

(* Threads in the states st, on the CPUs tc, with the current threads cur, the
   set idl of CPUs that idle and the new threads ch of thread_fork: every thread
   is where its state calls for, run queues, victims and zombies belong to the
   thread's own CPU, and a thread runs exactly as its CPU's current thread. *)
States(st, tc, cur, idl, ch, k, x) ==
  /\ st \in [Thread -> TStates] /\ tc \in [Thread -> Cpu] /\ cur \in [Cpu -> Thread]
  /\ idl \subseteq Cpu /\ ch \in [Thread -> Thread \cup {NONE}]
  /\ \A t \in Thread :
       /\ k[t] \in {"runqueue", "victims"} => st[t] = "S_READY"
       /\ k[t] \in {"wchan", "hand"} => st[t] = "S_SLEEP"
       /\ k[t] = "zombies" => st[t] = "S_ZOMBIE"
       /\ k[t] = "none" /\ st[t] \notin {"none", "S_RUN"} => \E p \in Thread : ch[p] = t
       /\ k[t] \in {"runqueue", "victims", "zombies"} => tc[t] = x[t]
       /\ st[t] = "S_RUN" => tc[t] \notin idl /\ cur[tc[t]] = t
  /\ \A p \in Thread : ch[p] # NONE => st[ch[p]] = "S_READY" /\ k[ch[p]] = "none"
  /\ \A p, q \in Thread : ch[p] = ch[q] /\ ch[p] # NONE => p = q
  /\ \A c \in Cpu : /\ tc[cur[c]] = c /\ st[cur[c]] # "none"
                    /\ c \notin idl => st[cur[c]] = "S_RUN"

Idle == {c \in Cpu : c_isidle[c]}
Victims == [c \in Cpu |-> mig[c].victims]

(* Every thread has one place, and its state calls for it. *)
PlaceInv ==
  \E k, x : /\ Lists(c_runqueue, c_zombies, hand, Victims, wc_threads, k, x)
            /\ States(t_state, t_cpu, c_curthread, Idle, child, k, x)
-----------------------------------------------------------------------------
(* What a CPU is doing fits its lists and the local variables of
   thread_consider_migration: the counts made of unlocked queues are still good
   for what they are used for, and no wakeup of an idle CPU is lost. *)
CpuInv(c) ==
  /\ act[c] \in {"wait", "window"} => c_isidle[c]
  /\ act[c] = "thread" => ~c_isidle[c]
  /\ act[c] = "wake" <=> hand[c] # <<>>
  /\ act[c] = "wake" => tgt[c] = t_cpu[threadlist_head(hand[c])]
  /\ act[c] = "migrate" <=> mig[c].ph # "none"
  /\ mig[c].ph \in {"none", "count", "take"} => mig[c].victims = <<>>
  /\ mig[c].ph = "count" => /\ mig[c].i < NumCpus
                            /\ mig[c].i > c => mig[c].my_count <= Len(c_runqueue[c])
  /\ mig[c].ph = "take" => mig[c].to_send <= Len(c_runqueue[c])
  /\ mig[c].ph \in {"scan", "send"} => mig[c].to_send <= Len(mig[c].victims)
  /\ mig[c].ph = "send" => mig[c].i < NumCpus /\ mig[c].i # c
  /\ act[c] = "wait" /\ c_runqueue[c] # <<>> => ipi_line[c]

SchedRest ==
  /\ c_isidle \in [Cpu -> BOOLEAN] /\ ipi_line \in [Cpu -> BOOLEAN]
  /\ c_runqueue_lock \in [Cpu -> Cpu \cup {NONE}] /\ wc_lock \in [Wchan -> Cpu \cup {NONE}]
  /\ act \in [Cpu -> Acts] /\ tgt \in [Cpu -> Cpu \cup {NONE}] /\ MigTypeOK

SchedInv == PlaceInv /\ SchedRest /\ \A c \in Cpu : CpuInv(c)
-----------------------------------------------------------------------------
(* The threads' programs: who forks has a new thread in hand, dead threads have
   no program left, and during the boot every other CPU's boot thread has yet to
   run cpu_hatch, has its V counted in the semaphore, or has been waited for. *)
Dead == {"none", "S_ZOMBIE"}
Hatching(p) == {t \in Thread : p[t] = "hatch"}

BootInv(p, n, s) ==
  IF p[Menu] = "boot" THEN Cardinality(Hatching(p)) + s + n[Menu] = NumCpus - 1
  ELSE Hatching(p) = {} /\ s = 0

ProgTypes ==
  /\ pc \in [Thread -> Pcs] /\ num \in [Thread -> Nat]
  /\ thread_count \in 0 .. CountMod - 1 /\ sem_count \in Nat

ThreadInv ==
  \A t \in Thread : /\ pc[t] = "fork" <=> child[t] # NONE
                    /\ t_state[t] \in Dead => pc[t] = "none"
                    /\ pc[t] = "boot" => t = Menu

ProgInv == ProgTypes /\ ThreadInv /\ BootInv(pc, num, sem_count)

Inv == SchedInv /\ ProgInv
=============================================================================
