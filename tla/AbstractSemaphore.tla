------------------------- MODULE AbstractSemaphore -------------------------
(***************************************************************************)
(* What a counting semaphore promises, with no spinlock, no wait channel   *)
(* and no sleeping: P takes one unit in a single step, when there is one,  *)
(* and V adds one.  The Semaphore module implements it.                    *)
(***************************************************************************)
EXTENDS Naturals

CONSTANTS Thread,     \* the threads, which may call P and V
          InitCount   \* the initial_count argument of sem_create

VARIABLES count,      \* units available
          inP         \* threads that have called P and not returned from it

avars == <<count, inP>>

AInit == count = InitCount /\ inP = {}

(* A thread calls P. *)
ACallP(t) == t \notin inP /\ inP' = inP \cup {t} /\ UNCHANGED count

(* P takes a unit and returns. *)
ATake(t) ==
  /\ t \in inP
  /\ count > 0
  /\ count' = count - 1
  /\ inP' = inP \ {t}

(* V, from a thread or from an interrupt handler. *)
AV == count' = count + 1 /\ UNCHANGED inP

ANext == AV \/ \E t \in Thread : ACallP(t) \/ ATake(t)

ASpec == AInit /\ [][ANext]_avars
=============================================================================
