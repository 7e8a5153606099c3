------------------------------ MODULE MCSynch ------------------------------
(***************************************************************************)
(* What CPUs and threads wait for each other with, one part at a time:     *)
(* which picks it, the others stay in their initial state.  A semaphore    *)
(* with three threads and an interrupt handler; a lock with one thread     *)
(* that holds it, one asleep on it and one that comes; three CPUs, enough  *)
(* for a request to be sent while another is handled and for the thread in *)
(* sys_reboot to move before and after it signalled a CPU.                 *)
(***************************************************************************)
EXTENDS Semaphore, Lock, Ipi

CONSTANTS t1, t2, t3, h1

VARIABLE which

MCThread  == {t1, t2, t3}
MCHandler == {h1}

SynchInit ==
  /\ which \in {"semaphore", "lock", "ipi"}
  /\ Init /\ LockInit /\ IpiInit
  /\ which # "ipi" => shut.cpu = 0

SynchNext ==
  \/ which = "semaphore" /\ Next /\ UNCHANGED <<which, lockVars, rebootVars>>
  \/ which = "lock" /\ LockNext /\ UNCHANGED <<which, vars, rebootVars>>
  \/ which = "ipi" /\ IpiNext /\ UNCHANGED <<which, vars, lockVars>>

(* The part that runs is fair. *)
SynchFairness ==
  \/ which = "semaphore" /\ Fairness
  \/ which = "lock" /\ LockFairness
  \/ which = "ipi" /\ IpiFairness

SynchSpec ==
  SynchInit /\ [][SynchNext]_<<which, vars, lockVars, rebootVars>> /\ SynchFairness
=============================================================================
