-------------------------------- MODULE Lhd --------------------------------
(***************************************************************************)
(* The disk driver (lamebus/lhd.c): threads in lhd_io share one disk, its  *)
(* sector and status registers and its transfer buffer, and wait for the   *)
(* interrupt handler one sector at a time.  The disk itself is external.   *)
(* Semaphores are atomic; Semaphore shows why that is right.               *)
(***************************************************************************)
EXTENDS Naturals, FiniteSets

CONSTANTS LhdThreads,
          d_blocks,     \* sectors of the disk
          LHD_WORD,     \* sector numbers are taken modulo this
          MaxLen        \* sectors one call asks for

ASSUME LhdAssumption ==
    /\ d_blocks \in Nat \ {0} /\ LHD_WORD \in Nat /\ d_blocks < LHD_WORD
    /\ MaxLen \in Nat /\ MaxLen < LHD_WORD

VARIABLES
    stat, sect,         \* the disk's status and sector registers
    hwbuf,              \* the transfer buffer on the card
    platter,            \* sector: who wrote it last, and for which sector
    lh_clear, lh_done, lh_result,
    lhirq,              \* lhd_irq: between clearing the register and V
    io,                 \* thread: where it is in lhd_io
    lhbad               \* the disk was told to start while not idle

lhVars == <<stat, sect, hwbuf, platter, lh_clear, lh_done, lh_result, lhirq, io, lhbad>>

Sectors == 0 .. d_blocks - 1
LhdResults == {"OK", "INVSECT", "MEDIA"}
NoIo == [at |-> "idle", rw |-> "READ", sector |-> 0, len |-> 0, i |-> 0, result |-> "OK"]
Blank(s) == [by |-> "nobody", for |-> s]

LhdInit ==
    /\ stat = "IDLE" /\ sect = 0 /\ hwbuf = Blank(0) /\ platter = [s \in Sectors |-> Blank(s)]
    /\ lh_clear = 1 /\ lh_done = 0 /\ lh_result = "OK" /\ lhirq = "none"
    /\ io = [t \in LhdThreads |-> NoIo] /\ lhbad = FALSE

-----------------------------------------------------------------------------
\* The disk (external): it serves the sector register, or finds the sector
\* number or the medium bad.  A started disk interrupts when it is done.
DiskServes ==
    /\ stat \in {"READ", "WRITE"}
    /\ \/ /\ sect \in Sectors /\ stat' = "OK"
          /\ IF stat = "READ" THEN hwbuf' = platter[sect] /\ UNCHANGED platter
             ELSE platter' = [platter EXCEPT ![sect] = hwbuf] /\ UNCHANGED hwbuf
       \/ /\ sect \in Sectors /\ stat' = "MEDIA" /\ UNCHANGED <<hwbuf, platter>>
       \/ /\ sect \notin Sectors /\ stat' = "INVSECT" /\ UNCHANGED <<hwbuf, platter>>
    /\ UNCHANGED <<sect, lh_clear, lh_done, lh_result, lhirq, io, lhbad>>

-----------------------------------------------------------------------------
\* lhd_irq and lhd_iodone.
lhd_irq ==
    /\ lhirq = "none" /\ stat \in LhdResults
    /\ stat' = "IDLE" /\ lh_result' = stat /\ lhirq' = "iodone"
    /\ UNCHANGED <<sect, hwbuf, platter, lh_clear, lh_done, io, lhbad>>

lhd_iodone ==
    /\ lhirq = "iodone" /\ lhirq' = "none"
    /\ lh_done' = lh_done + 1
    /\ UNCHANGED <<stat, sect, hwbuf, platter, lh_clear, lh_result, io, lhbad>>

-----------------------------------------------------------------------------
\* lhd_io.  Requests that are not whole sectors, or run past the end of the
\* disk as far as the check can tell, are refused and leave no trace.
PastEnd(sector, len) == (sector + len) % LHD_WORD > d_blocks

lhd_io(t, rw, sector, len) ==
    /\ io[t].at = "idle" /\ ~PastEnd(sector, len)
    /\ io' = [io EXCEPT ![t] = [at |-> "loop", rw |-> rw, sector |-> sector, len |-> len, i |-> 0,
                                result |-> "OK"]]
    /\ UNCHANGED <<stat, sect, hwbuf, platter, lh_clear, lh_done, lh_result, lhirq, lhbad>>

LhdReturn(t) ==
    /\ io[t].at = "loop" /\ io[t].i = io[t].len
    /\ io' = [io EXCEPT ![t] = NoIo]
    /\ UNCHANGED <<stat, sect, hwbuf, platter, lh_clear, lh_done, lh_result, lhirq, lhbad>>

\* P(lh_clear)
LhdClear(t) ==
    /\ io[t].at = "loop" /\ io[t].i < io[t].len
    /\ lh_clear > 0 /\ lh_clear' = lh_clear - 1
    /\ io' = [io EXCEPT ![t].at = IF io[t].rw = "WRITE" THEN "fill" ELSE "sector"]
    /\ UNCHANGED <<stat, sect, hwbuf, platter, lh_done, lh_result, lhirq, lhbad>>

\* uiomove of the data to write, which may fail.
LhdFill(t) ==
    /\ io[t].at = "fill"
    /\ \/ /\ hwbuf' = [by |-> t, for |-> io[t].sector + io[t].i]
          /\ io' = [io EXCEPT ![t].at = "sector"]
          /\ UNCHANGED lh_clear
       \/ /\ lh_clear' = lh_clear + 1
          /\ io' = [io EXCEPT ![t] = NoIo]
          /\ UNCHANGED hwbuf
    /\ UNCHANGED <<stat, sect, platter, lh_done, lh_result, lhirq, lhbad>>

LhdSector(t) ==
    /\ io[t].at = "sector"
    /\ sect' = (io[t].sector + io[t].i) % LHD_WORD
    /\ io' = [io EXCEPT ![t].at = "start"]
    /\ UNCHANGED <<stat, hwbuf, platter, lh_clear, lh_done, lh_result, lhirq, lhbad>>

LhdStart(t) ==
    /\ io[t].at = "start"
    /\ stat' = io[t].rw
    /\ lhbad' = (lhbad \/ stat # "IDLE")
    /\ io' = [io EXCEPT ![t].at = "wait"]
    /\ UNCHANGED <<sect, hwbuf, platter, lh_clear, lh_done, lh_result, lhirq>>

\* P(lh_done)
LhdDone(t) ==
    /\ io[t].at = "wait" /\ lh_done > 0 /\ lh_done' = lh_done - 1
    /\ io' = [io EXCEPT ![t].at = "result"]
    /\ UNCHANGED <<stat, sect, hwbuf, platter, lh_clear, lh_result, lhirq, lhbad>>

LhdResult(t) ==
    /\ io[t].at = "result"
    /\ io' = [io EXCEPT ![t].at = "got", ![t].result = lh_result]
    /\ UNCHANGED <<stat, sect, hwbuf, platter, lh_clear, lh_done, lh_result, lhirq, lhbad>>

\* Bug for the checks: a failed sector does not end the call.
GoOn(t) == io' = [io EXCEPT ![t].at = "loop", ![t].i = @ + 1]

\* After the sector: the error, or the next one.
LhdAfter(t) ==
    IF io[t].result = "OK" THEN io' = [io EXCEPT ![t].at = "loop", ![t].i = @ + 1]
    ELSE io' = [io EXCEPT ![t] = NoIo]

\* uiomove of the data read may fail too.  V(lh_clear)
LhdNext_sector(t) ==
    /\ io[t].at = "got"
    /\ lh_clear' = lh_clear + 1
    /\ \/ LhdAfter(t)
       \/ io[t].rw = "READ" /\ io[t].result = "OK" /\ io' = [io EXCEPT ![t] = NoIo]
    /\ UNCHANGED <<stat, sect, hwbuf, platter, lh_done, lh_result, lhirq, lhbad>>

LhdNext ==
    \/ DiskServes \/ lhd_irq \/ lhd_iodone
    \/ \E t \in LhdThreads :
         \/ \E rw \in {"READ", "WRITE"}, sector \in 0 .. LHD_WORD - 1, len \in 0 .. MaxLen :
                lhd_io(t, rw, sector, len)
         \/ LhdReturn(t) \/ LhdClear(t) \/ LhdFill(t) \/ LhdSector(t) \/ LhdStart(t)
         \/ LhdDone(t) \/ LhdResult(t) \/ LhdNext_sector(t)

LhdSpec == LhdInit /\ [][LhdNext]_lhVars

-----------------------------------------------------------------------------
Inside(t) == io[t].at \notin {"idle", "loop"}

\* Where the answer to the operation that t started is.
AnswerComing ==
    \/ stat # "IDLE" /\ lhirq = "none" /\ lh_done = 0
    \/ stat = "IDLE" /\ lhirq = "iodone" /\ lh_done = 0
    \/ stat = "IDLE" /\ lhirq = "none" /\ lh_done = 1

\* Its sector is in the buffer as it is on the disk, or on the disk as written.
Served(t) ==
    LET s == io[t].sector + io[t].i
    IN  /\ s \in Sectors
        /\ platter[s] = IF io[t].rw = "READ" THEN hwbuf ELSE [by |-> t, for |-> s]

Quiescent == stat = "IDLE" /\ lhirq = "none" /\ lh_done = 0

(***************************************************************************)
(* Threads that share the disk do not disturb each other: one at a time is *)
(* inside, the disk is idle when it is started, the one that waits has     *)
(* exactly one answer coming and nobody else has any.  With the result OK  *)
(* it has in the buffer what its sector holds, or on the disk what it      *)
(* wrote.  No block ever lands on a sector it was not written for, and a   *)
(* call that succeeds lay within the disk, although the check of lhd_io    *)
(* can wrap around.                                                        *)
(***************************************************************************)
LhdExact ==
    /\ ~lhbad
    /\ \A t, u \in LhdThreads : Inside(t) /\ Inside(u) => t = u
    /\ lh_clear = IF \E t \in LhdThreads : Inside(t) THEN 0 ELSE 1
    /\ IF \E t \in LhdThreads : io[t].at = "wait" THEN AnswerComing ELSE Quiescent
    /\ \A s \in Sectors : platter[s].for = s
    /\ \A t \in LhdThreads :
         /\ io[t].at = "got" /\ io[t].result = "OK" => Served(t)
         /\ io[t].at = "loop" /\ io[t].i = io[t].len /\ io[t].len > 0 =>
              io[t].sector + io[t].len <= d_blocks

-----------------------------------------------------------------------------
(***************************************************************************)
(* An inductive invariant behind it.  A call goes on to a second sector    *)
(* only when the disk found the first one, so from then on it lies within  *)
(* the disk and no sum wraps around; the first sector number is a word.    *)
(***************************************************************************)
LhdPlaces == {"idle", "loop", "fill", "sector", "start", "wait", "result", "got"}

LhdTypeOK ==
    /\ stat \in {"IDLE", "READ", "WRITE"} \cup LhdResults
    /\ platter = [s \in Sectors |-> platter[s]]
    /\ lh_clear \in Nat /\ lh_done \in Nat
    /\ lh_result \in LhdResults /\ lhirq \in {"none", "iodone"}
    /\ io \in [LhdThreads -> [at : LhdPlaces, rw : {"READ", "WRITE"}, sector : 0 .. LHD_WORD - 1,
                               len : 0 .. MaxLen, i : Nat, result : LhdResults]]

CallOK(t) ==
    LET c == io[t]
    IN  /\ c.i <= c.len /\ (Inside(t) => c.i < c.len)
        /\ c.i > 0 => c.sector + c.i <= d_blocks
        /\ c.at \in {"start", "wait"} => sect = c.sector + c.i
        /\ c.rw = "WRITE" /\ c.at \in {"sector", "start", "wait", "result", "got"} =>
              hwbuf = [by |-> t, for |-> c.sector + c.i]
        /\ c.at = "wait" /\ stat \in {"READ", "WRITE"} => stat = c.rw
        /\ c.at = "wait" /\ stat = "OK" => Served(t)
        /\ c.at = "wait" /\ stat = "IDLE" /\ lh_result = "OK" => Served(t)
        /\ c.at = "result" /\ lh_result = "OK" => Served(t)

LhdIInv == LhdTypeOK /\ LhdExact /\ \A t \in LhdThreads : CallOK(t)
=============================================================================
