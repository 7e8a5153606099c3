-------------------------------- MODULE Ipi --------------------------------
(***************************************************************************)
(* Interprocessor interrupts: ipi_send, ipi_broadcast and                  *)
(* interprocessor_interrupt of kern/thread/thread.c, the interrupt line as *)
(* mainbus_interrupt drives it, and the shutdown of the other CPUs by      *)
(* sys_reboot.  The pending codes of a CPU change only under its           *)
(* c_ipi_lock, so each such section is one step; the line is cleared       *)
(* outside it.                                                             *)
(***************************************************************************)
EXTENDS Naturals

CONSTANT NumCpus

Cpu == 0 .. NumCpus - 1

(* The codes with a sender here.  IPI_PANIC comes from thread_panic alone and is
   handled as IPI_OFFLINE is; ipi_tlbshootdown has no caller. *)
Code == {"IPI_OFFLINE", "IPI_UNIDLE"}

ASSUME IpiAssumption == NumCpus \in Nat \ {0}

VARIABLES c_ipi_pending,   \* the codes sent to each CPU and not handled
          ipi_line,        \* its interrupt line
          mode,            \* "run"; "intr": handled, line still up; "halted"
          shut,            \* the thread in sys_reboot: its CPU, the loop index of
                           \* ipi_broadcast, how far it is
          power

ipiVars == <<c_ipi_pending, ipi_line, mode>>
rebootVars == <<c_ipi_pending, ipi_line, mode, shut, power>>

IpiTypeOK ==
  /\ c_ipi_pending \in [Cpu -> SUBSET Code]
  /\ ipi_line \in [Cpu -> BOOLEAN]
  /\ mode \in [Cpu -> {"run", "intr", "halted"}]
  /\ shut \in [cpu : Cpu, i : 0 .. NumCpus, at : {"before", "broadcast", "splhigh", "done"}]
  /\ power \in {"on", "off"}

IpiInit ==
  /\ c_ipi_pending = [c \in Cpu |-> {}]
  /\ ipi_line = [c \in Cpu |-> FALSE]
  /\ mode = [c \in Cpu |-> "run"]
  /\ \E c \in Cpu : shut = [cpu |-> c, i |-> 0, at |-> "before"]
  /\ power = "on"

(* Bug for the checks: "=" for "|=". *)
BugSend(target, code) ==
  /\ c_ipi_pending' = [c_ipi_pending EXCEPT ![target] = {code}]
  /\ ipi_line' = [ipi_line EXCEPT ![target] = TRUE]

ipi_send(target, code) ==
  /\ c_ipi_pending' = [c_ipi_pending EXCEPT ![target] = @ \cup {code}]
  /\ ipi_line' = [ipi_line EXCEPT ![target] = TRUE]

(* A CPU makes a thread runnable on an idle one. *)
Unidle(c, d) ==
  /\ power = "on" /\ mode[c] = "run" /\ c # d
  /\ ipi_send(d, "IPI_UNIDLE")
  /\ UNCHANGED <<mode, shut, power>>

(* With interrupts off no interrupt is taken: the CPU of the thread in
   sys_reboot, from splhigh on. *)
Masked(c) == shut.at \in {"splhigh", "done"} /\ shut.cpu = c

(* Bug for the checks: the requests are reset before they are looked at. *)
BugInterrupt(c) ==
  /\ power = "on" /\ mode[c] = "run" /\ ipi_line[c] /\ ~Masked(c)
  /\ mode' = [mode EXCEPT ![c] = IF "IPI_OFFLINE" \in c_ipi_pending[c] THEN "halted" ELSE "intr"]
  /\ c_ipi_pending' = [c_ipi_pending EXCEPT ![c] = {}]
  /\ UNCHANGED <<ipi_line, shut, power>>

(* A stop request halts the CPU inside the handler; IPI_UNIDLE needs nothing.
   The request bits are reset; mainbus_interrupt has yet to clear the line. *)
interprocessor_interrupt(c) ==
  /\ power = "on" /\ mode[c] = "run" /\ ipi_line[c] /\ ~Masked(c)
  /\ IF "IPI_OFFLINE" \in c_ipi_pending[c]
     THEN /\ mode' = [mode EXCEPT ![c] = "halted"]
          /\ UNCHANGED c_ipi_pending
     ELSE /\ mode' = [mode EXCEPT ![c] = "intr"]
          /\ c_ipi_pending' = [c_ipi_pending EXCEPT ![c] = {}]
  /\ UNCHANGED <<ipi_line, shut, power>>

lamebus_clear_ipi(c) ==
  /\ power = "on" /\ mode[c] = "intr"
  /\ ipi_line' = [ipi_line EXCEPT ![c] = FALSE]
  /\ mode' = [mode EXCEPT ![c] = "run"]
  /\ UNCHANGED <<c_ipi_pending, shut, power>>
-----------------------------------------------------------------------------
(* The thread in sys_reboot runs while its CPU does. *)
ShutRuns == power = "on" /\ mode[shut.cpu] = "run"

ShutStart ==
  /\ ShutRuns /\ shut.at = "before"
  /\ shut' = [shut EXCEPT !.at = "broadcast"]
  /\ UNCHANGED <<ipiVars, power>>

(* thread_shutdown: one turn of ipi_broadcast's loop, by the CPU it is on. *)
ipi_broadcast ==
  /\ ShutRuns /\ shut.at = "broadcast"
  /\ IF shut.i = NumCpus
     THEN shut' = [shut EXCEPT !.at = "splhigh"] /\ UNCHANGED <<c_ipi_pending, ipi_line>>
     ELSE /\ shut' = [shut EXCEPT !.i = @ + 1]
          /\ IF shut.i # shut.cpu THEN ipi_send(shut.i, "IPI_OFFLINE")
             ELSE UNCHANGED <<c_ipi_pending, ipi_line>>
  /\ UNCHANGED <<mode, power>>

(* With interrupts off: mainbus_halt, or mainbus_poweroff (also for reboot). *)
ShutEnd ==
  /\ ShutRuns /\ shut.at = "splhigh"
  /\ shut' = [shut EXCEPT !.at = "done"]
  /\ \/ mode' = [mode EXCEPT ![shut.cpu] = "halted"] /\ UNCHANGED power
     \/ power' = "off" /\ UNCHANGED mode
  /\ UNCHANGED <<c_ipi_pending, ipi_line>>

(* Until then interrupts are on: hardclock preempts the thread and migration
   moves it to a CPU with a shorter run queue, a halted one included (Threads,
   MigSend: nothing there looks at whether the target still runs). *)
ShutMigrates(d) ==
  /\ ShutRuns /\ shut.at \in {"before", "broadcast"} /\ d # shut.cpu
  /\ shut' = [shut EXCEPT !.cpu = d]
  /\ UNCHANGED <<ipiVars, power>>

IpiHandler(c) == interprocessor_interrupt(c) \/ lamebus_clear_ipi(c)

IpiNext ==
  \/ \E c \in Cpu : IpiHandler(c)
  \/ \E c, d \in Cpu : Unidle(c, d)
  \/ ShutStart \/ ipi_broadcast \/ ShutEnd
  \/ \E d \in Cpu : ShutMigrates(d)

IpiSpec == IpiInit /\ [][IpiNext]_rebootVars

(* CPUs run, and take an interrupt that stays up; so does the thread in
   sys_reboot while it has a CPU that runs. *)
IpiFairness ==
  /\ \A c \in Cpu : WF_rebootVars(IpiHandler(c))
  /\ SF_rebootVars(ipi_broadcast) /\ SF_rebootVars(ShutEnd)

IpiFairSpec == IpiSpec /\ IpiFairness
-----------------------------------------------------------------------------
(* interprocessor_interrupt never resets a stop request it did not obey: once
   sent it stays pending, and only a CPU asked to stop, or the one that shuts
   the system down, halts. *)
StopSticks ==
  [][\A c \in Cpu : /\ "IPI_OFFLINE" \in c_ipi_pending[c] => "IPI_OFFLINE" \in c_ipi_pending'[c]
                    /\ mode[c] # "halted" /\ mode'[c] = "halted" =>
                         "IPI_OFFLINE" \in c_ipi_pending[c] \/ shut.cpu = c]_rebootVars

(* A stop request whose interrupt is still up when the CPU runs is obeyed. *)
StopTaken ==
  \A c \in Cpu : (mode[c] = "run" /\ ipi_line[c] /\ "IPI_OFFLINE" \in c_ipi_pending[c])
                   ~> (mode[c] = "halted" \/ Masked(c) \/ power = "off")

(* thread_shutdown, "Stop the other CPUs.", and reboot(2), "The system is
   halted", "powered off": once sys_reboot has begun to stop the CPUs, all of
   them come to a halt or the power goes off. *)
RebootStops ==
  shut.at = "broadcast" ~> (power = "off" \/ \A c \in Cpu : mode[c] = "halted")
=============================================================================
