---------------------------- MODULE DeviceProofs ----------------------------
(***************************************************************************)
(* The LAMEbus devices and their drivers.                                  *)
(*                                                                         *)
(* Interprocessor interrupts, for any number of CPUs: the type invariant,  *)
(* which is inductive, and that a stop request is never dropped from       *)
(* c_ipi_pending.  The disk driver keeps requests apart for any number of  *)
(* threads, any size of disk and any word length.  The console prints and  *)
(* reads exactly for any number of threads and any size of its input       *)
(* buffer.                                                                 *)
(***************************************************************************)
EXTENDS Ipi, Lhd, Console, FiniteSetTheorems, TLAPS

(* Every step keeps the types. *)
LEMMA IpiTypeStep == IpiTypeOK /\ [IpiNext]_rebootVars => IpiTypeOK'
<1> SUFFICES ASSUME IpiTypeOK, [IpiNext]_rebootVars PROVE IpiTypeOK'
  BY Zenon
<1> USE IpiAssumption DEF IpiTypeOK, Cpu, Code
<1>1. ASSUME NEW c \in Cpu, interprocessor_interrupt(c) PROVE IpiTypeOK'
  <2>1. CASE "IPI_OFFLINE" \in c_ipi_pending[c]
    BY <1>1, <2>1 DEF interprocessor_interrupt
  <2>2. CASE "IPI_OFFLINE" \notin c_ipi_pending[c]
    BY Zenon, <1>1, <2>2 DEF interprocessor_interrupt
  <2> QED
    BY Zenon, <2>1, <2>2
<1>2. ASSUME NEW c \in Cpu, lamebus_clear_ipi(c) PROVE IpiTypeOK'
  BY Zenon, <1>2 DEF lamebus_clear_ipi
<1>3. ASSUME NEW c \in Cpu, NEW d \in Cpu, Unidle(c, d) PROVE IpiTypeOK'
  BY Zenon, <1>3 DEF Unidle, ipi_send
<1>4. ASSUME ShutStart PROVE IpiTypeOK'
  BY Zenon, <1>4 DEF ShutStart, ipiVars
<1>5. ASSUME ipi_broadcast PROVE IpiTypeOK'
  <2>1. CASE shut.i = NumCpus
    BY <1>5, <2>1 DEF ipi_broadcast
  <2>2. CASE shut.i # NumCpus
    <3>1. shut.i \in Cpu /\ shut.i + 1 \in 0 .. NumCpus
      BY <2>2
    <3>2. shut' = [shut EXCEPT !.i = @ + 1] /\ UNCHANGED <<mode, power>>
      BY Zenon, <1>5, <2>2 DEF ipi_broadcast
    <3>3. c_ipi_pending' \in [Cpu -> SUBSET Code] /\ ipi_line' \in [Cpu -> BOOLEAN]
      <4>1. CASE shut.i # shut.cpu
        <5>1. ipi_send(shut.i, "IPI_OFFLINE")
          BY Zenon, <1>5, <2>2, <4>1 DEF ipi_broadcast
        <5>2. c_ipi_pending[shut.i] \cup {"IPI_OFFLINE"} \in SUBSET Code
          BY Zenon, <3>1
        <5>3. c_ipi_pending' \in [Cpu -> SUBSET Code]
          BY Zenon, <5>1, <5>2 DEF ipi_send
        <5>4. ipi_line' \in [Cpu -> BOOLEAN]
          BY Zenon, <5>1 DEF ipi_send
        <5> QED
          BY Zenon, <5>3, <5>4
      <4>2. CASE shut.i = shut.cpu
        BY Zenon, <1>5, <2>2, <4>2 DEF ipi_broadcast
      <4> QED
        BY Zenon, <4>1, <4>2
    <3> QED
      BY Zenon, <3>1, <3>2, <3>3
  <2> QED
    BY Zenon, <2>1, <2>2
<1>6. ASSUME ShutEnd PROVE IpiTypeOK'
  <2>1. shut' = [shut EXCEPT !.at = "done"] /\ UNCHANGED <<c_ipi_pending, ipi_line>>
    BY Zenon, <1>6 DEF ShutEnd
  <2>2. mode' = [mode EXCEPT ![shut.cpu] = "halted"] \/ mode' = mode
    BY Zenon, <1>6 DEF ShutEnd
  <2>3. power' \in {"on", "off"}
    BY Zenon, <1>6 DEF ShutEnd
  <2>4. mode' \in [Cpu -> {"run", "intr", "halted"}]
    BY Zenon, <2>2
  <2> QED
    BY Zenon, <2>1, <2>3, <2>4
<1>7. ASSUME NEW d \in Cpu, ShutMigrates(d) PROVE IpiTypeOK'
  BY Zenon, <1>7 DEF ShutMigrates, ipiVars
<1>8. CASE UNCHANGED rebootVars
  BY Zenon, <1>8 DEF rebootVars
<1> HIDE DEF IpiTypeOK, Cpu, Code
<1> QED
  BY Zenon, <1>1, <1>2, <1>3, <1>4, <1>5, <1>6, <1>7, <1>8 DEF IpiNext, IpiHandler

(* Type correctness, for any number of CPUs. *)
THEOREM IpiTypesCorrect == IpiSpec => []IpiTypeOK
<1>1. IpiInit => IpiTypeOK
  BY IpiAssumption DEF IpiInit, IpiTypeOK, Cpu
<1> QED
  BY <1>1, IpiTypeStep, PTL DEF IpiSpec

(* A stop request sent to a CPU stays in its c_ipi_pending, and no CPU halts
   without one but the one that shuts the system down, for any number of CPUs. *)
THEOREM StopRequestsStick == IpiSpec => StopSticks
<1> DEFINE A == \A c \in Cpu :
                  /\ "IPI_OFFLINE" \in c_ipi_pending[c] => "IPI_OFFLINE" \in c_ipi_pending'[c]
                  /\ mode[c] # "halted" /\ mode'[c] = "halted" =>
                       "IPI_OFFLINE" \in c_ipi_pending[c] \/ shut.cpu = c
<1>1. ASSUME IpiTypeOK, [IpiNext]_rebootVars PROVE [A]_rebootVars
  <2> SUFFICES ASSUME IpiNext PROVE A
    BY Zenon, <1>1
  <2> USE <1>1 DEF IpiTypeOK
  <2>1. ASSUME NEW c \in Cpu, interprocessor_interrupt(c) PROVE A
    BY Zenon, <2>1 DEF interprocessor_interrupt
  <2>2. ASSUME NEW c \in Cpu, lamebus_clear_ipi(c) PROVE A
    BY Zenon, <2>2 DEF lamebus_clear_ipi
  <2>3. ASSUME NEW c \in Cpu, NEW d \in Cpu, Unidle(c, d) PROVE A
    BY Zenon, <2>3 DEF Unidle, ipi_send
  <2>4. ASSUME ShutStart PROVE A
    BY Zenon, <2>4 DEF ShutStart, ipiVars
  <2>5. ASSUME ipi_broadcast PROVE A
    <3>1. UNCHANGED mode
      BY Zenon, <2>5 DEF ipi_broadcast
    <3>2. CASE UNCHANGED c_ipi_pending
      BY Zenon, <3>1, <3>2
    <3>3. CASE ipi_send(shut.i, "IPI_OFFLINE")
      BY Zenon, <3>1, <3>3 DEF ipi_send
    <3> QED
      BY Zenon, <2>5, <3>2, <3>3 DEF ipi_broadcast
  <2>6. ASSUME ShutEnd PROVE A
    BY Zenon, <2>6 DEF ShutEnd
  <2>7. ASSUME NEW d \in Cpu, ShutMigrates(d) PROVE A
    BY Zenon, <2>7 DEF ShutMigrates, ipiVars
  <2> HIDE DEF IpiTypeOK, A
  <2> QED
    BY Zenon, <2>1, <2>2, <2>3, <2>4, <2>5, <2>6, <2>7 DEF IpiNext, IpiHandler
<1> QED
  BY <1>1, IpiTypesCorrect, PTL DEF IpiSpec, StopSticks
-----------------------------------------------------------------------------
Outside(u) == io[u].at \in {"idle", "loop"}

\* A sum that does not leave the word is not changed by it.
LEMMA NoWrap ==
    ASSUME NEW x \in Nat, NEW w \in Nat, x < w
    PROVE  x % w = x
  OBVIOUS

\* Nobody is inside together with t.
LEMMA Alone ==
    ASSUME LhdIInv, NEW t \in LhdThreads, Inside(t), NEW u \in LhdThreads \ {t}
    PROVE  Outside(u)
  BY Zenon DEF LhdIInv, LhdExact, Inside, Outside

\* The sector a call is at, inside, is a word.
LEMMA SectorIsWord ==
    ASSUME LhdIInv, NEW t \in LhdThreads
    PROVE  /\ io[t].sector + io[t].i \in Nat
           /\ Inside(t) => io[t].sector + io[t].i < LHD_WORD
<1>1. io[t].sector \in 0 .. LHD_WORD - 1 /\ io[t].i \in Nat
  BY Zenon DEF LhdIInv, LhdTypeOK
<1>2. io[t].i > 0 => io[t].sector + io[t].i <= d_blocks
  BY Zenon DEF LhdIInv, CallOK
<1> QED
  BY <1>1, <1>2, LhdAssumption

\* A call that waits outside is not touched by the other threads.
LEMMA OutsideFrame ==
    ASSUME NEW u \in LhdThreads, CallOK(u), Outside(u), io'[u] = io[u]
    PROVE  CallOK(u)' /\ Outside(u)' /\ ~Inside(u)'
  BY Zenon DEF CallOK, Outside, Inside

\* A step by, or for, the thread t while no other thread is inside.
LEMMA OneThread ==
    ASSUME LhdIInv, LhdTypeOK', NEW t \in LhdThreads,
           \A u \in LhdThreads \ {t} : Outside(u) /\ io'[u] = io[u],
           ~lhbad', CallOK(t)', lh_clear' = IF Inside(t)' THEN 0 ELSE 1,
           IF io'[t].at = "wait" THEN AnswerComing' ELSE Quiescent',
           \A s \in Sectors : platter'[s].for = s,
           io'[t].at = "got" /\ io'[t].result = "OK" => Served(t)'
    PROVE  LhdIInv'
<1>1. \A u \in LhdThreads \ {t} : CallOK(u)' /\ Outside(u)' /\ ~Inside(u)'
  BY Zenon, OutsideFrame DEF LhdIInv
<1>2. \A u \in LhdThreads : CallOK(u)'
  BY Zenon, <1>1
<1>3. \A u \in LhdThreads : Inside(u)' => u = t
  BY Zenon, <1>1
<1>4. \A u \in LhdThreads : io'[u].at \in {"wait", "got"} => u = t
  BY Zenon, <1>1 DEF Outside
<1>5. lh_clear' = IF \E u \in LhdThreads : Inside(u)' THEN 0 ELSE 1
  BY Zenon, <1>3
<1>6. IF \E u \in LhdThreads : io'[u].at = "wait" THEN AnswerComing' ELSE Quiescent'
  BY Zenon, <1>4
<1>7. \A u \in LhdThreads : io'[u].at = "got" /\ io'[u].result = "OK" => Served(u)'
  BY Zenon, <1>4
<1>8. \A u \in LhdThreads : io'[u].at = "loop" /\ io'[u].i = io'[u].len /\ io'[u].len > 0 =>
                                io'[u].sector + io'[u].len <= d_blocks
  BY Zenon, <1>2 DEF CallOK
<1> QED
  BY Zenon, <1>2, <1>3, <1>5, <1>6, <1>7, <1>8 DEF LhdIInv, LhdExact

\* A call begins or ends: it is outside before and after.
LEMMA Outsiders ==
    ASSUME LhdIInv, LhdTypeOK', NEW t \in LhdThreads, Outside(t), Outside(t)', CallOK(t)',
           \A u \in LhdThreads \ {t} : io'[u] = io[u],
           UNCHANGED <<stat, sect, hwbuf, platter, lh_clear, lh_done, lh_result, lhirq, lhbad>>
    PROVE  LhdIInv'
<1>1. \A u \in LhdThreads : (Inside(u)' <=> Inside(u)) /\ (io'[u].at = "wait" <=> io[u].at = "wait")
  BY Zenon DEF Outside, Inside
<1>2. \A u \in LhdThreads \ {t} : (CallOK(u)' <=> CallOK(u)) /\ (Served(u)' <=> Served(u))
  BY DEF CallOK, Served, Inside
<1>3. \A u \in LhdThreads : CallOK(u)'
  BY Zenon, <1>2 DEF LhdIInv
<1>4. \A u \in LhdThreads : io'[u].at = "got" /\ io'[u].result = "OK" => Served(u)'
  BY Zenon, <1>2 DEF LhdIInv, LhdExact, Outside
<1>5. \A u \in LhdThreads : io'[u].at = "loop" /\ io'[u].i = io'[u].len /\ io'[u].len > 0 =>
                                io'[u].sector + io'[u].len <= d_blocks
  BY Zenon, <1>3 DEF CallOK
<1>6. /\ ~lhbad' /\ \A u, v \in LhdThreads : Inside(u)' /\ Inside(v)' => u = v
      /\ lh_clear' = IF \E u \in LhdThreads : Inside(u)' THEN 0 ELSE 1
      /\ \A s \in Sectors : platter'[s].for = s
  BY Zenon, <1>1 DEF LhdIInv, LhdExact
<1>7. IF \E u \in LhdThreads : io'[u].at = "wait" THEN AnswerComing' ELSE Quiescent'
  BY Zenon, <1>1 DEF LhdIInv, LhdExact, AnswerComing, Quiescent
<1> QED
  BY Zenon, <1>3, <1>4, <1>5, <1>6, <1>7 DEF LhdIInv, LhdExact
-----------------------------------------------------------------------------
\* A call begins: no sector is done yet.
LEMMA BeginStep ==
    ASSUME LhdIInv, NEW t \in LhdThreads, NEW rw \in {"READ", "WRITE"}, NEW sector \in 0 .. LHD_WORD - 1,
           NEW len \in 0 .. MaxLen, lhd_io(t, rw, sector, len)
    PROVE  LhdIInv'
<1>1. io'[t] = [at |-> "loop", rw |-> rw, sector |-> sector, len |-> len, i |-> 0, result |-> "OK"]
      /\ \A u \in LhdThreads \ {t} : io'[u] = io[u]
  BY Zenon DEF lhd_io, LhdIInv, LhdTypeOK
<1>2. LhdTypeOK'
  BY Zenon, LhdAssumption DEF lhd_io, LhdIInv, LhdTypeOK, LhdPlaces, LhdResults
<1>3. Outside(t) /\ Outside(t)' /\ CallOK(t)'
  BY <1>1, LhdAssumption DEF lhd_io, Outside, CallOK, Inside
<1> QED
  BY Zenon, <1>1, <1>2, <1>3, Outsiders DEF lhd_io

\* A call returns.
LEMMA ReturnStep ==
    ASSUME LhdIInv, NEW t \in LhdThreads, LhdReturn(t)
    PROVE  LhdIInv'
<1>1. io'[t] = NoIo /\ \A u \in LhdThreads \ {t} : io'[u] = io[u]
  BY Zenon DEF LhdReturn, LhdIInv, LhdTypeOK
<1>2. LhdTypeOK'
  BY LhdAssumption DEF LhdReturn, LhdIInv, LhdTypeOK, LhdPlaces, LhdResults, NoIo
<1>3. Outside(t) /\ Outside(t)' /\ CallOK(t)'
  BY <1>1 DEF LhdReturn, Outside, CallOK, Inside, NoIo
<1> QED
  BY Zenon, <1>1, <1>2, <1>3, Outsiders DEF LhdReturn

\* The units of lh_clear and the state of the disk while nobody is inside.
LEMMA NobodyInside ==
    ASSUME LhdIInv, lh_clear > 0
    PROVE  lh_clear = 1 /\ Quiescent /\ \A u \in LhdThreads : Outside(u)
<1>1. \A u \in LhdThreads : ~Inside(u)
  BY DEF LhdIInv, LhdExact
<1>2. \A u \in LhdThreads : Outside(u) /\ io[u].at # "wait"
  BY Zenon, <1>1 DEF Inside, Outside
<1> QED
  BY Zenon, <1>1, <1>2 DEF LhdIInv, LhdExact

\* What holds while t is inside.
LEMMA SomebodyInside ==
    ASSUME LhdIInv, NEW t \in LhdThreads, Inside(t)
    PROVE  /\ lh_clear = 0 /\ \A u \in LhdThreads \ {t} : Outside(u)
           /\ IF io[t].at = "wait" THEN AnswerComing ELSE Quiescent
<1>1. \A u \in LhdThreads \ {t} : Outside(u)
  BY Zenon, Alone
<1>2. \A u \in LhdThreads : io[u].at = "wait" => u = t
  BY Zenon, <1>1 DEF Outside
<1> QED
  BY Zenon, <1>1, <1>2 DEF LhdIInv, LhdExact

\* P(lh_clear): t is the only one inside.
LEMMA ClearStep ==
    ASSUME LhdIInv, NEW t \in LhdThreads, LhdClear(t)
    PROVE  LhdIInv'
<1>1. /\ io'[t] = [io[t] EXCEPT !.at = IF io[t].rw = "WRITE" THEN "fill" ELSE "sector"]
      /\ \A u \in LhdThreads \ {t} : io'[u] = io[u]
  BY Zenon DEF LhdClear, LhdIInv, LhdTypeOK
<1>2. LhdTypeOK'
  BY DEF LhdClear, LhdIInv, LhdTypeOK, LhdPlaces
<1>3. lh_clear = 1 /\ Quiescent /\ \A u \in LhdThreads : Outside(u)
  BY Zenon, NobodyInside DEF LhdClear
<1>4. CallOK(t)' /\ Inside(t)' /\ io'[t].at \notin {"wait", "got"}
  BY <1>1 DEF LhdClear, LhdIInv, LhdTypeOK, CallOK, Inside
<1>5. lh_clear' = 0 /\ Quiescent' /\ ~lhbad' /\ \A s \in Sectors : platter'[s].for = s
  BY <1>3 DEF LhdClear, Quiescent, LhdIInv, LhdExact
<1> QED
  BY Zenon, <1>1, <1>2, <1>3, <1>4, <1>5, OneThread

\* The data to write goes to the buffer, or the call fails.
LEMMA FillStep ==
    ASSUME LhdIInv, NEW t \in LhdThreads, LhdFill(t)
    PROVE  LhdIInv'
<1>1. /\ lh_clear = 0 /\ Quiescent /\ \A u \in LhdThreads \ {t} : Outside(u) /\ io'[u] = io[u]
  BY Zenon, SomebodyInside DEF LhdFill, Inside, LhdIInv, LhdTypeOK
<1>2. LhdTypeOK'
  BY LhdAssumption DEF LhdFill, LhdIInv, LhdTypeOK, LhdPlaces, LhdResults, NoIo
<1>3. Quiescent' /\ ~lhbad' /\ \A s \in Sectors : platter'[s].for = s
  BY Zenon, <1>1 DEF LhdFill, Quiescent, LhdIInv, LhdExact
<1>4. /\ CallOK(t)' /\ lh_clear' = IF Inside(t)' THEN 0 ELSE 1
      /\ io'[t].at \notin {"wait", "got"}
  <2>1. CASE /\ io'[t] = [io[t] EXCEPT !.at = "sector"]
             /\ hwbuf' = [by |-> t, for |-> io[t].sector + io[t].i] /\ lh_clear' = 0
    BY <2>1 DEF LhdFill, LhdIInv, LhdTypeOK, CallOK, Inside
  <2>2. CASE io'[t] = NoIo /\ lh_clear' = 1
    BY <2>2 DEF CallOK, Inside, NoIo
  <2> QED
    BY <1>1, <2>1, <2>2 DEF LhdFill, LhdIInv, LhdTypeOK
<1> QED
  BY Zenon, <1>1, <1>2, <1>3, <1>4, OneThread

\* The sector register gets the sum, which is not cut off.
LEMMA SectorStep ==
    ASSUME LhdIInv, NEW t \in LhdThreads, LhdSector(t)
    PROVE  LhdIInv'
<1>1. /\ lh_clear = 0 /\ Quiescent /\ \A u \in LhdThreads \ {t} : Outside(u) /\ io'[u] = io[u]
  BY Zenon, SomebodyInside DEF LhdSector, Inside, LhdIInv, LhdTypeOK
<1>2. LhdTypeOK'
  BY DEF LhdSector, LhdIInv, LhdTypeOK, LhdPlaces
<1>3. Quiescent' /\ ~lhbad' /\ \A s \in Sectors : platter'[s].for = s
  BY Zenon, <1>1 DEF LhdSector, Quiescent, LhdIInv, LhdExact
<1>4. io'[t] = [io[t] EXCEPT !.at = "start"] /\ io[t].at = "sector" /\ lh_clear' = 0
  BY Zenon, <1>1 DEF LhdSector, LhdIInv, LhdTypeOK
<1>5. sect' = io[t].sector + io[t].i
  BY Zenon, SectorIsWord, NoWrap, LhdAssumption DEF LhdSector, Inside
<1>6. CallOK(t)' /\ Inside(t)' /\ io'[t].at \notin {"wait", "got"}
  BY <1>4, <1>5 DEF LhdSector, LhdIInv, LhdTypeOK, CallOK, Inside
<1> QED
  BY Zenon, <1>1, <1>2, <1>3, <1>4, <1>6, OneThread

\* The disk is started; it was idle.
LEMMA LhdStartStep ==
    ASSUME LhdIInv, NEW t \in LhdThreads, LhdStart(t)
    PROVE  LhdIInv'
<1>1. /\ lh_clear = 0 /\ Quiescent /\ \A u \in LhdThreads \ {t} : Outside(u) /\ io'[u] = io[u]
  BY Zenon, SomebodyInside DEF LhdStart, Inside, LhdIInv, LhdTypeOK
<1>2. LhdTypeOK'
  BY DEF LhdStart, LhdIInv, LhdTypeOK, LhdPlaces
<1>3. /\ io'[t] = [io[t] EXCEPT !.at = "wait"] /\ io[t].at = "start" /\ lh_clear' = 0
      /\ stat' = io[t].rw /\ io[t].rw \in {"READ", "WRITE"}
  BY Zenon, <1>1 DEF LhdStart, LhdIInv, LhdTypeOK
<1>4. AnswerComing' /\ ~lhbad' /\ \A s \in Sectors : platter'[s].for = s
  BY Zenon, <1>1, <1>3 DEF LhdStart, Quiescent, AnswerComing, LhdIInv, LhdExact
<1>5. CallOK(t)' /\ Inside(t)' /\ io'[t].at = "wait"
  BY <1>3 DEF LhdStart, LhdIInv, LhdTypeOK, CallOK, Inside
<1> QED
  BY Zenon, <1>1, <1>2, <1>3, <1>4, <1>5, OneThread

\* P(lh_done): the answer is there, and it is the only one.
LEMMA DoneStep ==
    ASSUME LhdIInv, NEW t \in LhdThreads, LhdDone(t)
    PROVE  LhdIInv'
<1>1. /\ lh_clear = 0 /\ AnswerComing /\ \A u \in LhdThreads \ {t} : Outside(u) /\ io'[u] = io[u]
  BY Zenon, SomebodyInside DEF LhdDone, Inside, LhdIInv, LhdTypeOK
<1>2. LhdTypeOK'
  BY DEF LhdDone, LhdIInv, LhdTypeOK, LhdPlaces
<1>3. /\ io'[t] = [io[t] EXCEPT !.at = "result"] /\ io[t].at = "wait" /\ lh_clear' = 0
      /\ stat = "IDLE" /\ lhirq = "none" /\ lh_done = 1
  BY <1>1 DEF LhdDone, AnswerComing, LhdIInv, LhdTypeOK
<1>4. Quiescent' /\ ~lhbad' /\ \A s \in Sectors : platter'[s].for = s
  BY <1>1, <1>3 DEF LhdDone, Quiescent, LhdIInv, LhdExact
<1>5. Served(t)' <=> Served(t)
  BY <1>3 DEF LhdDone, Served, LhdIInv, LhdTypeOK
<1>6. CallOK(t)' /\ Inside(t)' /\ io'[t].at = "result"
  BY <1>3, <1>5 DEF LhdDone, LhdIInv, LhdTypeOK, CallOK, Inside
<1> QED
  BY Zenon, <1>1, <1>2, <1>3, <1>4, <1>6, OneThread

\* The result is read while nobody can have started the disk again.
LEMMA ResultStep ==
    ASSUME LhdIInv, NEW t \in LhdThreads, LhdResult(t)
    PROVE  LhdIInv'
<1>1. /\ lh_clear = 0 /\ Quiescent /\ \A u \in LhdThreads \ {t} : Outside(u) /\ io'[u] = io[u]
  BY Zenon, SomebodyInside DEF LhdResult, Inside, LhdIInv, LhdTypeOK
<1>2. LhdTypeOK'
  <2>1. io' = [io EXCEPT ![t] = [io[t] EXCEPT !.at = "got", !.result = lh_result]]
    BY Zenon DEF LhdResult, LhdIInv, LhdTypeOK
  <2>2. io' \in [LhdThreads -> [at : LhdPlaces, rw : {"READ", "WRITE"}, sector : 0 .. LHD_WORD - 1,
                                len : 0 .. MaxLen, i : Nat, result : LhdResults]]
    BY Zenon, <2>1 DEF LhdIInv, LhdTypeOK, LhdPlaces
  <2> QED
    BY Zenon, <2>2 DEF LhdResult, LhdIInv, LhdTypeOK
<1>3. io'[t] = [io[t] EXCEPT !.at = "got", !.result = lh_result] /\ io[t].at = "result" /\ lh_clear' = 0
  BY Zenon, <1>1 DEF LhdResult, LhdIInv, LhdTypeOK
<1>4. Quiescent' /\ ~lhbad' /\ \A s \in Sectors : platter'[s].for = s
  BY Zenon, <1>1, <1>3 DEF LhdResult, Quiescent, LhdIInv, LhdExact
<1>5. Served(t)' <=> Served(t)
  BY <1>3 DEF LhdResult, Served, LhdIInv, LhdTypeOK
<1>6. CallOK(t)' /\ Inside(t)' /\ io'[t].at = "got" /\ (io'[t].result = "OK" => Served(t)')
  BY <1>3, <1>5 DEF LhdResult, LhdIInv, LhdTypeOK, CallOK, Inside
<1> QED
  BY Zenon, <1>1, <1>2, <1>3, <1>4, <1>6, OneThread

\* V(lh_clear): only a sector that was served is followed by another.
LEMMA NextSectorStep ==
    ASSUME LhdIInv, NEW t \in LhdThreads, LhdNext_sector(t)
    PROVE  LhdIInv'
<1>1. /\ lh_clear = 0 /\ Quiescent /\ \A u \in LhdThreads \ {t} : Outside(u) /\ io'[u] = io[u]
  BY Zenon, SomebodyInside DEF LhdNext_sector, LhdAfter, Inside, LhdIInv, LhdTypeOK
<1>2. LhdTypeOK'
  BY LhdAssumption DEF LhdNext_sector, LhdAfter, LhdIInv, LhdTypeOK, LhdPlaces, LhdResults, NoIo
<1>3. Quiescent' /\ ~lhbad' /\ lh_clear' = 1 /\ \A s \in Sectors : platter'[s].for = s
  BY <1>1 DEF LhdNext_sector, Quiescent, LhdIInv, LhdExact
<1>4. CallOK(t)' /\ ~Inside(t)' /\ io'[t].at \notin {"wait", "got"}
  <2>1. CASE io'[t] = [io[t] EXCEPT !.at = "loop", !.i = @ + 1] /\ io[t].result = "OK"
    <3>1. io[t].at = "got" /\ Served(t)
      BY Zenon, <2>1 DEF LhdNext_sector, LhdIInv, LhdExact
    <3>2. io[t].sector + io[t].i + 1 <= d_blocks
      BY <3>1, LhdAssumption DEF Served, Sectors, LhdIInv, LhdTypeOK
    <3>3. io[t].i + 1 <= io[t].len
      BY <3>1 DEF LhdIInv, LhdTypeOK, CallOK, Inside
    <3> QED
      BY <2>1, <3>2, <3>3 DEF LhdIInv, LhdTypeOK, CallOK, Inside
  <2>2. CASE io'[t] = NoIo
    BY <2>2 DEF CallOK, Inside, NoIo
  <2> QED
    BY Zenon, <2>1, <2>2 DEF LhdNext_sector, LhdAfter, LhdIInv, LhdTypeOK
<1> QED
  BY Zenon, <1>1, <1>2, <1>3, <1>4, OneThread

-----------------------------------------------------------------------------
\* The disk or its interrupt is busy for exactly one thread, which waits.
LEMMA BusyForOne ==
    ASSUME LhdIInv, ~Quiescent
    PROVE  \E t \in LhdThreads : /\ io[t].at = "wait" /\ AnswerComing /\ lh_clear = 0
                                 /\ \A u \in LhdThreads \ {t} : Outside(u)
<1>1. PICK t \in LhdThreads : io[t].at = "wait"
  BY Zenon DEF LhdIInv, LhdExact
<1> QED
  BY Zenon, <1>1, SomebodyInside DEF Inside

\* The disk serves the sector that t asked for, or reports that it cannot.
LEMMA DiskStep ==
    ASSUME LhdIInv, DiskServes
    PROVE  LhdIInv'
<1>1. PICK t \in LhdThreads : /\ io[t].at = "wait" /\ AnswerComing /\ lh_clear = 0
                              /\ \A u \in LhdThreads \ {t} : Outside(u)
  BY Zenon, BusyForOne DEF DiskServes, Quiescent
<1>2. LhdTypeOK'
  BY Zenon DEF DiskServes, LhdIInv, LhdTypeOK, LhdResults
<1>3. /\ stat = io[t].rw /\ sect = io[t].sector + io[t].i /\ Inside(t) /\ Inside(t)'
      /\ io[t].rw = "WRITE" => hwbuf = [by |-> t, for |-> sect]
  BY Zenon, <1>1 DEF DiskServes, LhdIInv, CallOK, Inside
<1>4. AnswerComing' /\ ~lhbad' /\ lh_clear' = 0 /\ io' = io /\ sect' = sect
  BY Zenon, <1>1 DEF DiskServes, AnswerComing, LhdResults, LhdIInv, LhdExact
<1>5. \A s \in Sectors : platter'[s].for = s
  BY <1>3 DEF DiskServes, LhdIInv, LhdExact, LhdTypeOK
<1>6. stat' = "OK" => Served(t)'
  BY Zenon, <1>3, <1>4 DEF DiskServes, Served, LhdIInv, LhdTypeOK
<1>7. stat' \in {"OK", "MEDIA", "INVSECT"} /\ (io[t].rw = "WRITE" => hwbuf' = hwbuf)
  BY Zenon, <1>3 DEF DiskServes
<1>8. CallOK(t)'
  BY Zenon, <1>1, <1>3, <1>4, <1>6, <1>7 DEF LhdIInv, CallOK
<1> QED
  BY Zenon, <1>1, <1>2, <1>3, <1>4, <1>5, <1>8, OneThread

\* The handler takes the result over from the register.
LEMMA IrqStep ==
    ASSUME LhdIInv, lhd_irq
    PROVE  LhdIInv'
<1>1. PICK t \in LhdThreads : /\ io[t].at = "wait" /\ AnswerComing /\ lh_clear = 0
                              /\ \A u \in LhdThreads \ {t} : Outside(u)
  BY Zenon, BusyForOne DEF lhd_irq, Quiescent, LhdResults
<1>2. LhdTypeOK'
  BY Zenon DEF lhd_irq, LhdIInv, LhdTypeOK, LhdResults
<1>3. AnswerComing' /\ ~lhbad' /\ lh_clear' = 0 /\ io' = io /\ \A s \in Sectors : platter'[s].for = s
  BY Zenon, <1>1 DEF lhd_irq, AnswerComing, LhdResults, LhdIInv, LhdExact
<1>4. Served(t)' <=> Served(t)
  BY Zenon DEF lhd_irq, Served
<1>5. CallOK(t)' /\ Inside(t)'
  BY Zenon, <1>1, <1>3, <1>4 DEF lhd_irq, LhdIInv, CallOK, Inside
<1> QED
  BY Zenon, <1>1, <1>2, <1>3, <1>5, OneThread

\* V(lh_done).
LEMMA IodoneStep ==
    ASSUME LhdIInv, lhd_iodone
    PROVE  LhdIInv'
<1>1. PICK t \in LhdThreads : /\ io[t].at = "wait" /\ AnswerComing /\ lh_clear = 0
                              /\ \A u \in LhdThreads \ {t} : Outside(u)
  BY Zenon, BusyForOne DEF lhd_iodone, Quiescent
<1>2. LhdTypeOK'
  BY DEF lhd_iodone, LhdIInv, LhdTypeOK
<1>3. AnswerComing' /\ ~lhbad' /\ lh_clear' = 0 /\ io' = io /\ \A s \in Sectors : platter'[s].for = s
  BY <1>1 DEF lhd_iodone, AnswerComing, LhdIInv, LhdExact
<1>4. Served(t)' <=> Served(t)
  BY Zenon DEF lhd_iodone, Served
<1>5. CallOK(t)' /\ Inside(t)'
  BY Zenon, <1>1, <1>3, <1>4 DEF lhd_iodone, LhdIInv, CallOK, Inside
<1> QED
  BY Zenon, <1>1, <1>2, <1>3, <1>5, OneThread

-----------------------------------------------------------------------------
\* The driver starts with nobody inside and the disk idle.
LEMMA LhdInitial ==
    LhdInit => LhdIInv
<1> SUFFICES ASSUME LhdInit PROVE LhdIInv
  BY Zenon
<1>1. LhdTypeOK
  BY LhdAssumption DEF LhdInit, LhdTypeOK, NoIo, LhdPlaces, LhdResults
<1>2. \A t \in LhdThreads : io[t] = NoIo /\ ~Inside(t) /\ CallOK(t)
  BY DEF LhdInit, Inside, NoIo, CallOK
<1>3. LhdExact
  BY Zenon, <1>2 DEF LhdInit, LhdExact, Quiescent, Blank, NoIo
<1> QED
  BY Zenon, <1>1, <1>2, <1>3 DEF LhdIInv

\* Every step keeps the invariant.
LEMMA LhdStep ==
    LhdIInv /\ [LhdNext]_lhVars => LhdIInv'
<1> SUFFICES ASSUME LhdIInv, [LhdNext]_lhVars PROVE LhdIInv'
  BY Zenon
<1>1. CASE DiskServes \/ lhd_irq \/ lhd_iodone
  BY Zenon, <1>1, DiskStep, IrqStep, IodoneStep
<1>2. ASSUME NEW t \in LhdThreads, NEW rw \in {"READ", "WRITE"}, NEW sector \in 0 .. LHD_WORD - 1,
             NEW len \in 0 .. MaxLen, lhd_io(t, rw, sector, len)
      PROVE  LhdIInv'
  BY Zenon, <1>2, BeginStep
<1>3. ASSUME NEW t \in LhdThreads,
             \/ LhdReturn(t) \/ LhdClear(t) \/ LhdFill(t) \/ LhdSector(t) \/ LhdStart(t)
             \/ LhdDone(t) \/ LhdResult(t) \/ LhdNext_sector(t)
      PROVE  LhdIInv'
  BY Zenon, <1>3, ReturnStep, ClearStep, FillStep, SectorStep, LhdStartStep, DoneStep, ResultStep, NextSectorStep
<1>4. CASE UNCHANGED lhVars
  <2>1. LhdTypeOK'
    BY Zenon, <1>4 DEF lhVars, LhdIInv, LhdTypeOK
  <2>2. \A t \in LhdThreads : (Inside(t)' <=> Inside(t)) /\ (Served(t)' <=> Served(t))
    BY Zenon, <1>4 DEF lhVars, Inside, Served
  <2>3. \A t \in LhdThreads : CallOK(t)'
    BY Zenon, <1>4, <2>2 DEF lhVars, LhdIInv, CallOK
  <2>4. LhdExact'
    BY Zenon, <1>4, <2>2 DEF lhVars, LhdIInv, LhdExact, AnswerComing, Quiescent
  <2> QED
    BY Zenon, <2>1, <2>3, <2>4 DEF LhdIInv
<1> QED
  BY Zenon, <1>1, <1>2, <1>3, <1>4 DEF LhdNext

(***************************************************************************)
(* However many threads use the disk, and whatever they ask for: requests  *)
(* do not mix, every answer goes to the thread that waits for it, a block  *)
(* lands on the sector it was written for, and a call that succeeds lay    *)
(* within the disk, although the check of lhd_io can wrap around.          *)
(***************************************************************************)
THEOREM RequestsExact ==
    LhdSpec => []LhdExact
<1>1. LhdIInv => LhdExact
  BY Zenon DEF LhdIInv
<1> QED
  BY <1>1, LhdInitial, LhdStep, PTL DEF LhdSpec
-----------------------------------------------------------------------------
\* The record of a thread is replaced.
LEMMA ConSet ==
    ASSUME ConTypeOK, NEW t \in ConThreads, NEW r, con' = [con EXCEPT ![t] = r]
    PROVE  con'[t] = r /\ \A u \in ConThreads \ {t} : con'[u] = con[u]
  BY Zenon DEF ConTypeOK

\* Who is in which state, when one thread's state changes.
LEMMA StateSet ==
    ASSUME NEW t \in ConThreads, \A u \in ConThreads \ {t} : con'[u] = con[u], NEW S
    PROVE  InState(S)' = IF con'[t].at \in S THEN InState(S) \cup {t} ELSE InState(S) \ {t}
  BY DEF InState

LEMMA CallType ==
    ASSUME ConTypeOK, NEW t \in ConThreads
    PROVE  \/ con[t] = NoConCall /\ con[t].at = "idle"
           \/ /\ con[t].at \in {"put", "send"} \cup PollStates \cup ReadStates /\ con[t].at # "idle"
              /\ con[t].lk \in ConLocks /\ con[t].todo \in Nat /\ con[t].ch \in Chars
              /\ con[t] = [at |-> con[t].at, lk |-> con[t].lk, todo |-> con[t].todo, ch |-> con[t].ch]
  BY DEF ConTypeOK, ConRecords, NoConCall, PollStates, ReadStates

\* What a step that does not touch it leaves of each part of the invariant.
LEMMA PortFrame ==
    ASSUME PortOK, UNCHANGED <<wirq, tx, ls_wbusy, ls_lock>>,
           \A t \in ConThreads : con'[t].at \in PollStates => con'[t].at = con[t].at
    PROVE  PortOK'
<1>1. /\ ls_wbusy' => "ENABLE" \in wirq' /\ (tx' <=> "ACTIVE" \notin wirq')
      /\ ~ls_wbusy' /\ ls_lock' = NoThread => ~tx' /\ wirq' = {"ENABLE"}
  BY Zenon DEF PortOK
<1>2. ASSUME NEW t \in ConThreads
      PROVE  /\ con'[t].at \in {"poll", "poll_busy"} => ls_wbusy'
             /\ con'[t].at = "poll_idle" =>
                    ~ls_wbusy' /\ "ENABLE" \notin wirq' /\ (tx' <=> "ACTIVE" \notin wirq')
  BY Zenon DEF PortOK, PollStates
<1> QED
  BY Zenon, <1>1, <1>2 DEF PortOK

LEMMA RightFrame ==
    ASSUME WriteRight, UNCHANGED <<cs_wsem, ls_wbusy>>, irqh'.at = "start" <=> irqh.at = "start",
           InState({"send"})' = InState({"send"})
    PROVE  WriteRight'
  BY Zenon DEF WriteRight

LEMMA RingFrame ==
    ASSUME RingOK, UNCHANGED ringVars, irqh'.at = "store" => irqh.at = "store",
           irqh'.at = "wake" <=> irqh.at = "wake",
           InState({"getch", "getch_tail"})' = InState({"getch", "getch_tail"}),
           \A t \in ConThreads : con'[t].at = "getch_tail" => con[t].at = "getch_tail" /\ con'[t].ch = con[t].ch
    PROVE  RingOK'
  BY Zenon DEF RingOK, ringVars

LEMMA LocksFrame ==
    ASSUME NEW t \in ConThreads, CallLocks(t), con'[t] = con[t], ls_lock' = t <=> ls_lock = t,
           con[t].at # "idle" => conlock'[con[t].lk] = conlock[con[t].lk]
    PROVE  CallLocks(t)'
  BY Zenon DEF CallLocks

\* A step of the port or of the interrupt handler: no thread moves.
LEMMA NoThreadMoves ==
    ASSUME ConIInv, UNCHANGED <<con, conlock, ls_lock>>
    PROVE  /\ \A t \in ConThreads : CallLocks(t)'
           /\ \A S : InState(S)' = InState(S)
<1>1. \A t \in ConThreads : CallLocks(t)'
  BY Zenon, LocksFrame DEF ConIInv
<1>2. ASSUME NEW S PROVE InState(S)' = InState(S)
  BY Zenon DEF InState
<1> QED
  BY Zenon, <1>1, <1>2
-----------------------------------------------------------------------------
\* Remainders of numbers that are less than twice the size of the ring.
RingMod(x) == IF x < CONSOLE_INPUT_BUFFER_SIZE THEN x ELSE x - CONSOLE_INPUT_BUFFER_SIZE

LEMMA RingIndex ==
    ASSUME NEW x \in Nat, x < 2 * CONSOLE_INPUT_BUFFER_SIZE
    PROVE  x % CONSOLE_INPUT_BUFFER_SIZE = RingMod(x)
<1> DEFINE n == CONSOLE_INPUT_BUFFER_SIZE  q == x \div n  r == x % n
<1>1. n \in Nat \ {0}
  BY Zenon, ConsoleAssumption
<1> HIDE DEF n
<1>2. q \in Nat /\ r \in 0 .. n - 1 /\ x = n * q + r
  BY <1>1
<1> HIDE DEF q, r
<1>3. x < 2 * n
  BY Zenon DEF n
<1>4. q < 2
  <2> SUFFICES ASSUME q >= 2 PROVE FALSE
    BY <1>2
  <2>1. n * (q - 2) >= 0
    BY <1>1, <1>2
  <2>2. n * (q - 2) = n * q - 2 * n
    BY <1>1, <1>2
  <2> QED
    BY <1>1, <1>2, <1>3, <2>1, <2>2
<1>5. CASE q = 0
  BY <1>1, <1>2, <1>5 DEF n, r, RingMod
<1>6. CASE q = 1
  BY <1>1, <1>2, <1>6 DEF n, r, RingMod
<1> QED
  BY <1>2, <1>4, <1>5, <1>6
-----------------------------------------------------------------------------
\* The port: a character is out, or one comes in.
LEMMA PortStep ==
    ASSUME ConIInv, Transmitted \/ \E kind \in Kinds : Typed(kind)
    PROVE  ConIInv'
<1>1. /\ \A t \in ConThreads : CallLocks(t)'
      /\ \A S : InState(S)' = InState(S)
  BY Zenon, NoThreadMoves DEF Transmitted, Typed
<1>2. ConTypeOK' /\ ~conbad'
  <2>1. wirq' \subseteq {"ENABLE", "ACTIVE", "FORCE"} /\ tx' \in BOOLEAN /\ rch' \in Chars
    BY Zenon DEF ConIInv, ConTypeOK, Transmitted, Typed, Chars
  <2>2. UNCHANGED <<ls_wbusy, ls_lock, cs_wsem, ringVars, conlock, con, irqh, conbad>>
    BY Zenon DEF Transmitted, Typed
  <2> QED
    BY Zenon, <2>1, <2>2 DEF ConIInv, ConTypeOK, ringVars
<1>3. WriteRight'
  BY Zenon, <1>1, RightFrame DEF ConIInv, Transmitted, Typed
<1>4. RingOK'
  BY Zenon, <1>1, RingFrame DEF ConIInv, Transmitted, Typed
<1>5. PortOK'
  <2>1. CASE Transmitted
    <3>1. tx /\ ~tx' /\ wirq' = wirq \cup {"ACTIVE"} /\ UNCHANGED <<ls_wbusy, ls_lock, con>> /\ PortOK
      BY Zenon, <2>1 DEF Transmitted, ConIInv
    <3> QED
      BY Zenon, <3>1 DEF PortOK
  <2>2. CASE \E kind \in Kinds : Typed(kind)
    BY Zenon, <2>2, PortFrame DEF ConIInv, Typed
  <2> QED
    BY Zenon, <2>1, <2>2
<1> QED
  BY Zenon, <1>1, <1>2, <1>3, <1>4, <1>5 DEF ConIInv

\* The handler is entered.
LEMMA InterruptStep ==
    ASSUME ConIInv, lamebus_interrupt
    PROVE  ConIInv'
<1>1. /\ \A t \in ConThreads : CallLocks(t)'
      /\ \A S : InState(S)' = InState(S)
  BY Zenon, NoThreadMoves DEF lamebus_interrupt
<1>2. irqh' = [at |-> "lser"] /\ irqh.at = "none" /\ irqh'.at = "lser"
  BY Zenon DEF lamebus_interrupt
<1>3. ConTypeOK' /\ ~conbad'
  BY Zenon, <1>2 DEF ConIInv, ConTypeOK, lamebus_interrupt, ringVars, portVars
<1>4. WriteRight'
  BY Zenon, <1>1, <1>2, RightFrame DEF ConIInv, lamebus_interrupt
<1>5. RingOK'
  BY Zenon, <1>1, <1>2, RingFrame DEF ConIInv, lamebus_interrupt
<1>6. PortOK'
  BY Zenon, PortFrame DEF ConIInv, lamebus_interrupt, portVars
<1> QED
  BY Zenon, <1>1, <1>3, <1>4, <1>5, <1>6 DEF ConIInv

\* The handler sees what the port has done: a busy port becomes idle, and the
\* right to write is the handler's.
LEMMA LserStep ==
    ASSUME ConIInv, lser_irq
    PROVE  ConIInv'
<1> DEFINE w == "ACTIVE" \in wirq
<1>1. /\ \A t \in ConThreads : CallLocks(t)'
      /\ \A S : InState(S)' = InState(S)
  BY Zenon, NoThreadMoves DEF lser_irq
<1>2. irqh.at = "lser" /\ ls_lock = NoThread /\ UNCHANGED <<tx, ls_lock, cs_wsem, ringVars, conlock, con, conbad>>
  BY Zenon DEF lser_irq
<1>3. w => ls_wbusy /\ ~tx
  BY <1>2 DEF ConIInv, PortOK
<1>4. irqh' \in [at : {"none"}] \cup [at : {"start", "input"}, ch : Chars]
  BY Zenon DEF lser_irq, ConIInv, ConTypeOK, Quiet
<1>5. w <=> irqh'.at = "start"
  BY Zenon DEF lser_irq, Quiet
<1>6. irqh'.at \in {"none", "start", "input"}
  BY Zenon, <1>4
<1>7. (w => ~ls_wbusy' /\ wirq' = {"ENABLE"}) /\ (~w => (ls_wbusy' <=> ls_wbusy) /\ wirq' = wirq)
      /\ ls_wbusy' \in BOOLEAN
  BY Zenon DEF lser_irq
<1>8. ConTypeOK' /\ ~conbad'
  <2>1. rch' \in Chars /\ wirq' \subseteq {"ENABLE", "ACTIVE", "FORCE"}
    BY Zenon DEF lser_irq, ConIInv, ConTypeOK, Chars
  <2>2. irqh' \in [at : {"none", "lser", "wake"}] \cup [at : {"start", "input", "store"}, ch : Chars]
    BY Zenon, <1>4
  <2> QED
    BY Zenon, <1>2, <1>7, <2>1, <2>2 DEF ConIInv, ConTypeOK, ringVars
<1>9. WriteRight'
  BY Zenon, <1>1, <1>2, <1>3, <1>5, <1>7 DEF ConIInv, WriteRight
<1>10. RingOK'
  BY Zenon, <1>1, <1>2, <1>6, RingFrame DEF ConIInv
<1>11. PortOK'
  <2>1. \A t \in ConThreads : con[t].at \notin PollStates
    BY Zenon, <1>2, ConsoleAssumption DEF ConIInv, CallLocks, NoThread
  <2> QED
    BY Zenon, <1>2, <1>3, <1>7, <2>1 DEF ConIInv, PortOK, PollStates
<1> QED
  BY Zenon, <1>1, <1>8, <1>9, <1>10, <1>11 DEF ConIInv

\* con_start gives the right back.
LEMMA StartStep ==
    ASSUME ConIInv, con_start
    PROVE  ConIInv'
<1>1. /\ \A t \in ConThreads : CallLocks(t)'
      /\ \A S : InState(S)' = InState(S)
  BY Zenon, NoThreadMoves DEF con_start
<1>2. /\ irqh.at = "start" /\ cs_wsem' = cs_wsem + 1
      /\ UNCHANGED <<portVars, ls_wbusy, ls_lock, ringVars, conlock, con, conbad>>
  BY Zenon DEF con_start
<1>3. irqh \in [at : {"start"}, ch : Chars]
  BY Zenon, <1>2 DEF ConIInv, ConTypeOK
<1>4. irqh' \in [at : {"none"}] \cup [at : {"input"}, ch : Chars] /\ irqh'.at \in {"none", "input"}
  BY Zenon, <1>3 DEF con_start, Quiet
<1>5. ConTypeOK' /\ ~conbad'
  BY <1>2, <1>4 DEF ConIInv, ConTypeOK, ringVars, portVars
<1>6. WriteRight'
  <2>1. ~ls_wbusy /\ InState({"send"}) = {} /\ cs_wsem = 0
    BY Zenon, <1>2 DEF ConIInv, WriteRight
  <2>2. cs_wsem' = 1 /\ ~ls_wbusy' /\ InState({"send"})' = {} /\ irqh'.at # "start"
    BY <1>1, <1>2, <1>4, <2>1
  <2> QED
    BY Zenon, <2>2 DEF WriteRight
<1>7. RingOK'
  BY Zenon, <1>1, <1>2, <1>4, RingFrame DEF ConIInv
<1>8. PortOK'
  BY Zenon, <1>2, PortFrame DEF ConIInv, portVars
<1> QED
  BY Zenon, <1>1, <1>5, <1>6, <1>7, <1>8 DEF ConIInv

\* con_input: a full ring is one with every slot but one in use.
LEMMA InputStep ==
    ASSUME ConIInv, con_input
    PROVE  ConIInv'
<1> DEFINE n == CONSOLE_INPUT_BUFFER_SIZE
<1>1. /\ \A t \in ConThreads : CallLocks(t)'
      /\ \A S : InState(S)' = InState(S)
  BY Zenon, NoThreadMoves DEF con_input
<1>2. irqh.at = "input" /\ UNCHANGED <<portVars, ls_wbusy, ls_lock, cs_wsem, ringVars, conlock, con>>
  BY Zenon DEF con_input
<1>3. irqh \in [at : {"input"}, ch : Chars]
  BY Zenon, <1>2 DEF ConIInv, ConTypeOK
<1>4. IF InputFull(cs_head) THEN irqh' = Quiet ELSE irqh' \in [at : {"store"}, ch : Chars]
  BY Zenon, <1>3 DEF con_input
<1>5. irqh'.at = IF InputFull(cs_head) THEN "none" ELSE "store"
  BY <1>4 DEF Quiet
<1>6. InputFull(cs_head) <=> Len(fifo) = n - 1
  <2>1. Len(fifo) \in Nat /\ Len(fifo) < n /\ cs_head \in Nat /\ cs_tail \in Nat /\ cs_tail < n /\ cs_head < n
    BY ConsoleAssumption DEF ConIInv, ConTypeOK, RingOK
  <2>2. n \in Nat \ {0, 1}
    BY Zenon, ConsoleAssumption
  <2>3. cs_head = RingMod(cs_tail + Len(fifo))
    <3>1. cs_tail + Len(fifo) \in Nat /\ cs_tail + Len(fifo) < 2 * n
      BY <2>1, <2>2
    <3> QED
      BY Zenon, <3>1, RingIndex DEF ConIInv, RingOK
  <2>4. (cs_head + 1) % n = RingMod(cs_head + 1)
    <3>1. cs_head + 1 \in Nat /\ cs_head + 1 < 2 * n
      BY <2>1, <2>2
    <3> QED
      BY Zenon, <3>1, RingIndex
  <2> HIDE DEF n
  <2>5. RingMod(cs_head + 1) = cs_tail <=> Len(fifo) = n - 1
    BY <2>1, <2>2, <2>3 DEF RingMod, n
  <2> QED
    BY Zenon, <2>4, <2>5 DEF InputFull, n
<1>7. ~conbad'
  <2>1. ~(InputFull(cs_head) /\ Len(fifo) < n - 1)
    BY <1>6
  <2> QED
    BY Zenon, <2>1 DEF ConIInv, con_input
<1>8. ConTypeOK'
  <2>1. irqh' \in [at : {"none", "lser", "wake"}] \cup [at : {"start", "input", "store"}, ch : Chars]
    BY <1>4 DEF Quiet
  <2> QED
    BY Zenon, <1>2, <2>1 DEF ConIInv, ConTypeOK, ringVars, portVars
<1>9. WriteRight'
  BY Zenon, <1>1, <1>2, <1>5, RightFrame DEF ConIInv
<1>10. RingOK'
  <2>1. irqh'.at = "store" => Len(fifo) + 1 < n
    <3>1. Len(fifo) < n /\ Len(fifo) \in Nat /\ n \in Nat
      BY ConsoleAssumption DEF ConIInv, ConTypeOK, RingOK
    <3> QED
      BY <1>5, <1>6, <3>1
  <2>2. irqh'.at # "wake" /\ irqh.at # "wake"
    BY Zenon, <1>2, <1>5
  <2> QED
    BY Zenon, <1>1, <1>2, <2>1, <2>2 DEF ConIInv, RingOK, ringVars
<1>11. PortOK'
  BY Zenon, <1>2, PortFrame DEF ConIInv, portVars
<1> QED
  BY Zenon, <1>1, <1>7, <1>8, <1>9, <1>10, <1>11 DEF ConIInv

\* con_input stores the character in the slot it has found free.
LEMMA StoreStep ==
    ASSUME ConIInv, con_input_store
    PROVE  ConIInv'
<1> DEFINE n == CONSOLE_INPUT_BUFFER_SIZE  len == Len(fifo)
<1>1. /\ \A t \in ConThreads : CallLocks(t)'
      /\ \A S : InState(S)' = InState(S)
  BY Zenon, NoThreadMoves DEF con_input_store
<1>2. /\ irqh.at = "store" /\ irqh' = [at |-> "wake"] /\ irqh'.at = "wake"
      /\ UNCHANGED <<portVars, ls_wbusy, ls_lock, cs_wsem, cs_rsem, cs_tail, conlock, con, conbad>>
      /\ cs_gotchars' = [cs_gotchars EXCEPT ![cs_head] = irqh.ch] /\ fifo' = Append(fifo, irqh.ch)
      /\ cs_head' = (cs_head + 1) % n
  BY Zenon DEF con_input_store
<1>3. irqh.ch \in Chars
  BY Zenon, <1>2 DEF ConIInv, ConTypeOK
<1>4. n \in Nat \ {0, 1} /\ len \in Nat /\ len + 1 < n /\ cs_head \in 0 .. n - 1 /\ cs_tail \in 0 .. n - 1
  BY <1>2, ConsoleAssumption DEF ConIInv, ConTypeOK, RingOK
<1>5. fifo' \in Seq(Chars) /\ Len(fifo') = len + 1 /\ fifo'[len + 1] = irqh.ch
      /\ \A i \in 1 .. len : fifo'[i] = fifo[i]
  BY <1>2, <1>3 DEF ConIInv, ConTypeOK
<1>6. cs_head = RingMod(cs_tail + len)
  <2>1. cs_tail + len \in Nat /\ cs_tail + len < 2 * n
    BY <1>4
  <2> QED
    BY Zenon, <2>1, RingIndex DEF ConIInv, RingOK
<1>7. cs_head' = RingMod(cs_head + 1)
  <2>1. cs_head + 1 \in Nat /\ cs_head + 1 < 2 * n
    BY <1>4
  <2> QED
    BY Zenon, <1>2, <2>1, RingIndex
<1>8. (cs_tail + (len + 1)) % n = RingMod(cs_tail + (len + 1))
  <2>1. cs_tail + (len + 1) \in Nat /\ cs_tail + (len + 1) < 2 * n
    BY <1>4
  <2> QED
    BY Zenon, <2>1, RingIndex
<1>9. \A i \in 1 .. len + 1 :
        (cs_tail + i - 1) % n = RingMod(cs_tail + i - 1)
  <2> SUFFICES ASSUME NEW i \in 1 .. len + 1 PROVE cs_tail + i - 1 \in Nat /\ cs_tail + i - 1 < 2 * n
    BY Zenon, RingIndex
  <2> HIDE DEF n, len
  <2> QED
    BY <1>4
<1>10. ConTypeOK' /\ ~conbad'
  <2>1. cs_head' \in 0 .. n - 1 /\ cs_gotchars' \in [0 .. n - 1 -> Chars]
    BY <1>2, <1>3, <1>4, <1>7 DEF ConIInv, ConTypeOK, RingMod
  <2> QED
    BY Zenon, <1>2, <1>5, <2>1 DEF ConIInv, ConTypeOK, portVars
<1>11. WriteRight'
  BY Zenon, <1>1, <1>2, RightFrame DEF ConIInv
<1>12. PortOK'
  BY Zenon, <1>2, PortFrame DEF ConIInv, portVars
<1>13. RingOK'
  <2>1. cs_head' = (cs_tail' + Len(fifo')) % n
    <3>1. cs_tail' = cs_tail /\ Len(fifo') = len + 1
      BY Zenon, <1>2, <1>5
    <3>2. cs_head' = (cs_tail + (len + 1)) % n
      <4> DEFINE m == (cs_tail + (len + 1)) % n
      <4>1. m = RingMod(cs_tail + (len + 1))
        BY Zenon, <1>8
      <4> HIDE DEF m, n, len
      <4>2. cs_head' = m
        BY <1>4, <1>6, <1>7, <4>1 DEF RingMod, n
      <4> QED
        BY Zenon, <4>2 DEF m
    <3> QED
      BY Zenon, <3>1, <3>2
  <2>2. ASSUME NEW i \in 1 .. Len(fifo') PROVE cs_gotchars'[(cs_tail' + i - 1) % n] = fifo'[i]
    <3> DEFINE k == (cs_tail + i - 1) % n
    <3>1. k = RingMod(cs_tail + i - 1)
      BY Zenon, <1>5, <1>9
    <3> HIDE DEF k
    <3>2. k \in 0 .. n - 1
      BY <1>4, <1>5, <3>1 DEF RingMod
    <3>3. CASE i = len + 1
      <4>1. k = cs_head
        BY <1>4, <1>6, <3>1, <3>3 DEF RingMod
      <4>2. cs_gotchars'[k] = irqh.ch
        BY Zenon, <1>2, <3>2, <4>1 DEF ConIInv, ConTypeOK
      <4> QED
        BY Zenon, <1>2, <1>5, <3>3, <4>2 DEF k
    <3>4. CASE i # len + 1
      <4>1. i \in 1 .. len /\ k # cs_head
        BY <1>4, <1>5, <1>6, <3>1, <3>4 DEF RingMod
      <4>2. cs_gotchars'[k] = cs_gotchars[k] /\ cs_gotchars[k] = fifo[i]
        BY Zenon, <1>2, <3>2, <4>1 DEF ConIInv, ConTypeOK, RingOK, k
      <4> QED
        BY Zenon, <1>2, <1>5, <4>1, <4>2 DEF k
    <3> QED
      BY Zenon, <3>3, <3>4
  <2>3. cs_rsem' + (IF InState({"getch", "getch_tail"})' # {} THEN 1 ELSE 0) + 1 = Len(fifo')
    <3>1. cs_rsem + (IF InState({"getch", "getch_tail"}) # {} THEN 1 ELSE 0) = len /\ cs_rsem \in Nat
      BY <1>2 DEF ConIInv, ConTypeOK, RingOK
    <3> QED
      BY Zenon, <1>1, <1>2, <1>4, <1>5, <3>1
  <2>4. ASSUME NEW t \in ConThreads, con'[t].at = "getch_tail" PROVE con'[t].ch = fifo'[1]
    <3>1. con[t].at = "getch_tail" /\ con[t].ch = fifo[1] /\ t \in InState({"getch", "getch_tail"})
      BY Zenon, <1>2, <2>4 DEF ConIInv, RingOK, InState
    <3>2. 1 \in 1 .. len
      BY <1>2, <1>4, <3>1 DEF ConIInv, ConTypeOK, RingOK
    <3> QED
      BY Zenon, <1>2, <1>5, <3>1, <3>2
  <2>5. Len(fifo') < n
    BY Zenon, <1>4, <1>5
  <2> QED
    BY Zenon, <1>2, <2>1, <2>2, <2>3, <2>4, <2>5 DEF RingOK
<1> QED
  BY Zenon, <1>1, <1>10, <1>11, <1>12, <1>13 DEF ConIInv

\* con_input lets a reader go on.
LEMMA WakeStep ==
    ASSUME ConIInv, con_input_wake
    PROVE  ConIInv'
<1>1. /\ \A t \in ConThreads : CallLocks(t)'
      /\ \A S : InState(S)' = InState(S)
  BY Zenon, NoThreadMoves DEF con_input_wake
<1>2. /\ irqh.at = "wake" /\ irqh' = Quiet /\ irqh'.at = "none" /\ cs_rsem' = cs_rsem + 1
      /\ UNCHANGED <<portVars, ls_wbusy, ls_lock, cs_wsem, cs_gotchars, cs_head, cs_tail, fifo, conlock, con, conbad>>
  BY Zenon DEF con_input_wake, Quiet
<1>3. ConTypeOK' /\ ~conbad'
  BY <1>2 DEF ConIInv, ConTypeOK, portVars, Quiet
<1>4. WriteRight'
  BY Zenon, <1>1, <1>2, RightFrame DEF ConIInv
<1>5. PortOK'
  BY Zenon, <1>2, PortFrame DEF ConIInv, portVars
<1>6. RingOK'
  <2>1. cs_rsem + (IF InState({"getch", "getch_tail"}) # {} THEN 1 ELSE 0) + 1 = Len(fifo) /\ cs_rsem \in Nat
    BY Zenon, <1>2 DEF ConIInv, ConTypeOK, RingOK
  <2>2. cs_rsem' + (IF InState({"getch", "getch_tail"})' # {} THEN 1 ELSE 0) + 0 = Len(fifo')
    BY <1>1, <1>2, <2>1
  <2> QED
    BY Zenon, <1>2, <2>2 DEF ConIInv, RingOK
<1> QED
  BY Zenon, <1>1, <1>3, <1>4, <1>5, <1>6 DEF ConIInv
-----------------------------------------------------------------------------
\* A step of the thread t.
LEMMA ThreadStep ==
    ASSUME ConIInv, NEW t \in ConThreads, ConTypeOK', ~conbad', CallLocks(t)', WriteRight', PortOK', RingOK',
           \A u \in ConThreads \ {t} :
             /\ con'[u] = con[u] /\ (ls_lock' = u <=> ls_lock = u)
             /\ con[u].at # "idle" => conlock'[con[u].lk] = conlock[con[u].lk]
    PROVE  ConIInv'
<1>1. \A u \in ConThreads \ {t} : CallLocks(u)'
  BY Zenon, LocksFrame DEF ConIInv
<1> QED
  BY Zenon, <1>1 DEF ConIInv

\* A step that keeps the thread out of, or in, the states the invariant counts.
LEMMA StillIn ==
    ASSUME NEW t \in ConThreads, \A u \in ConThreads \ {t} : con'[u] = con[u],
           NEW S, con'[t].at \in S <=> con[t].at \in S
    PROVE  InState(S)' = InState(S)
  BY DEF InState

\* A call begins: its lock was free.
LEMMA CallStep ==
    ASSUME ConIInv, NEW t \in ConThreads, NEW l \in ConLocks, ConCall(t, l)
    PROVE  ConIInv'
<1> DEFINE r == [at |-> IF l = "con_userlock_read" THEN "read" ELSE "put", lk |-> l, todo |-> 0, ch |-> None]
<1>1. /\ con[t].at = "idle" /\ conlock[l] = NoThread /\ conlock' = [conlock EXCEPT ![l] = t]
      /\ con' = [con EXCEPT ![t] = r]
      /\ UNCHANGED <<portVars, ls_wbusy, ls_lock, cs_wsem, ringVars, irqh, conbad>>
  BY Zenon DEF ConCall
<1>2. ConTypeOK
  BY Zenon DEF ConIInv
<1>5. /\ r \in ConRecords /\ r.at = (IF l = "con_userlock_read" THEN "read" ELSE "put") /\ r.lk = l
      /\ r.at \in {"read", "put"}
  BY Zenon DEF ConRecords, PollStates, ReadStates, Chars
<1> HIDE DEF r
<1>3. con'[t] = r /\ \A u \in ConThreads \ {t} : con'[u] = con[u]
  BY Zenon, <1>1, <1>2, ConSet
<1>4. /\ con'[t].at = (IF l = "con_userlock_read" THEN "read" ELSE "put") /\ con'[t].lk = l
      /\ con'[t].at \in {"read", "put"}
  BY Zenon, <1>3, <1>5
<1>6. ConTypeOK' /\ ~conbad'
  <2>1. con' \in [ConThreads -> ConRecords]
    BY Zenon, <1>1, <1>2, <1>5 DEF ConTypeOK
  <2>2. conlock' \in [ConLocks -> ConThreads \cup {NoThread}]
    BY Zenon, <1>1, <1>2 DEF ConTypeOK
  <2> QED
    BY Zenon, <1>1, <1>2, <2>1, <2>2 DEF ConIInv, ConTypeOK, portVars, ringVars
<1>7. conlock'[l] = t /\ \A k \in ConLocks \ {l} : conlock'[k] = conlock[k]
  BY Zenon, <1>1, <1>2 DEF ConTypeOK
<1>8. \A u \in ConThreads \ {t} : con[u].at # "idle" => conlock'[con[u].lk] = conlock[con[u].lk]
  BY <1>1, <1>2, <1>7, CallType, ConsoleAssumption DEF ConIInv, CallLocks, NoThread
<1>9. ls_lock # t
  BY Zenon, <1>1 DEF ConIInv, CallLocks, PollStates
<1>10. CallLocks(t)'
  BY <1>1, <1>4, <1>7, <1>9 DEF CallLocks, PollStates, ReadStates
<1>11. /\ InState({"send"})' = InState({"send"})
       /\ InState({"getch", "getch_tail"})' = InState({"getch", "getch_tail"})
  BY Zenon, <1>1, <1>3, <1>4, StillIn
<1>12. WriteRight'
  BY Zenon, <1>1, <1>11, RightFrame DEF ConIInv
<1>13. PortOK'
  BY Zenon, <1>1, <1>3, <1>4, PortFrame DEF ConIInv, portVars, PollStates
<1>14. RingOK'
  BY Zenon, <1>1, <1>3, <1>4, <1>11, RingFrame DEF ConIInv
<1> QED
  BY Zenon, <1>1, <1>3, <1>6, <1>8, <1>10, <1>12, <1>13, <1>14, ThreadStep

\* A call ends, and gives its lock back.
LEMMA LeaveFacts ==
    ASSUME ConIInv, NEW t \in ConThreads, con[t].at # "idle", Leave(t)
    PROVE  /\ con'[t] = NoConCall /\ con'[t].at = "idle"
           /\ con' \in [ConThreads -> ConRecords]
           /\ conlock' \in [ConLocks -> ConThreads \cup {NoThread}]
           /\ \A u \in ConThreads \ {t} :
                /\ con'[u] = con[u]
                /\ con[u].at # "idle" => conlock'[con[u].lk] = conlock[con[u].lk]
<1>1. ConTypeOK /\ con[t].lk \in ConLocks /\ conlock[con[t].lk] = t
  BY Zenon, CallType DEF ConIInv, CallLocks
<1>2. con'[t] = NoConCall /\ \A u \in ConThreads \ {t} : con'[u] = con[u]
  BY Zenon, <1>1, ConSet DEF Leave
<1>3. con' \in [ConThreads -> ConRecords]
  BY Zenon, <1>1 DEF ConTypeOK, ConRecords, Leave
<1>4. /\ conlock' \in [ConLocks -> ConThreads \cup {NoThread}]
      /\ \A k \in ConLocks \ {con[t].lk} : conlock'[k] = conlock[k]
  BY Zenon, <1>1 DEF ConTypeOK, Leave
<1>5. \A u \in ConThreads \ {t} : con[u].at # "idle" => conlock'[con[u].lk] = conlock[con[u].lk]
  BY Zenon, <1>1, <1>4, CallType DEF ConIInv, CallLocks
<1> QED
  BY <1>2, <1>3, <1>4, <1>5 DEF NoConCall

\* A call that prints goes on to its next character, or returns.
LEMMA NextCharStep ==
    ASSUME ConIInv, NEW t \in ConThreads, NextChar(t)
    PROVE  ConIInv'
<1>1. con[t].at = "put" /\ UNCHANGED <<portVars, ls_wbusy, ls_lock, cs_wsem, ringVars, irqh, conbad>>
  BY Zenon DEF NextChar
<1>2. ConTypeOK /\ CallLocks(t)
  BY Zenon DEF ConIInv
<1>3. ls_lock # t
  BY Zenon, <1>1, <1>2 DEF CallLocks, PollStates
<1>4. CASE Leave(t)
  <2>1. /\ con'[t] = NoConCall /\ con'[t].at = "idle"
        /\ con' \in [ConThreads -> ConRecords]
        /\ conlock' \in [ConLocks -> ConThreads \cup {NoThread}]
        /\ \A u \in ConThreads \ {t} :
             /\ con'[u] = con[u]
             /\ con[u].at # "idle" => conlock'[con[u].lk] = conlock[con[u].lk]
    BY Zenon, <1>1, <1>4, LeaveFacts
  <2>2. ConTypeOK' /\ ~conbad'
    BY Zenon, <1>1, <1>2, <2>1 DEF ConIInv, ConTypeOK, portVars, ringVars
  <2>3. CallLocks(t)'
    BY Zenon, <1>1, <1>3, <2>1 DEF CallLocks, PollStates
  <2>4. /\ InState({"send"})' = InState({"send"})
        /\ InState({"getch", "getch_tail"})' = InState({"getch", "getch_tail"})
    BY Zenon, <1>1, <2>1, StillIn
  <2>5. WriteRight'
    BY Zenon, <1>1, <2>4, RightFrame DEF ConIInv
  <2>6. PortOK'
    BY Zenon, <1>1, <2>1, PortFrame DEF ConIInv, portVars, PollStates
  <2>7. RingOK'
    BY Zenon, <1>1, <2>1, <2>4, RingFrame DEF ConIInv
  <2> QED
    BY Zenon, <1>1, <2>1, <2>2, <2>3, <2>5, <2>6, <2>7, ThreadStep
<1>5. ASSUME NEW n \in {1, 2}, con' = [con EXCEPT ![t].todo = n], conlock' = conlock PROVE ConIInv'
  <2> DEFINE r == [at |-> "put", lk |-> con[t].lk, todo |-> n, ch |-> con[t].ch]
  <2>1. /\ con[t].lk \in ConLocks /\ con[t].ch \in Chars /\ con[t].todo \in Nat
        /\ con[t] = [at |-> "put", lk |-> con[t].lk, todo |-> con[t].todo, ch |-> con[t].ch]
    BY Zenon, <1>1, <1>2, CallType
  <2>2. [con[t] EXCEPT !.todo = n] = r
    BY <2>1
  <2>3. con' = [con EXCEPT ![t] = r]
    BY Zenon, <1>5, <2>2
  <2>4. con'[t] = r /\ \A u \in ConThreads \ {t} : con'[u] = con[u]
    BY Zenon, <1>2, <2>3, ConSet
  <2>5. con'[t].at = "put" /\ con'[t].lk = con[t].lk
    BY <2>4
  <2>6. r \in ConRecords
    BY <2>1 DEF ConRecords, PollStates, ReadStates, Chars
  <2> HIDE DEF r
  <2>7. ConTypeOK' /\ ~conbad'
    <3>1. con' \in [ConThreads -> ConRecords]
      BY Zenon, <1>2, <2>3, <2>6 DEF ConTypeOK
    <3> QED
      BY Zenon, <1>1, <1>2, <1>5, <3>1 DEF ConIInv, ConTypeOK, portVars, ringVars
  <2>8. CallLocks(t)'
    BY Zenon, <1>1, <1>2, <1>5, <2>5 DEF CallLocks, PollStates, ReadStates
  <2>9. /\ InState({"send"})' = InState({"send"})
        /\ InState({"getch", "getch_tail"})' = InState({"getch", "getch_tail"})
    BY Zenon, <1>1, <2>4, <2>5, StillIn
  <2>10. WriteRight'
    BY Zenon, <1>1, <2>9, RightFrame DEF ConIInv
  <2>11. PortOK'
    BY Zenon, <1>1, <2>4, <2>5, PortFrame DEF ConIInv, portVars, PollStates
  <2>12. RingOK'
    BY Zenon, <1>1, <2>4, <2>5, <2>9, RingFrame DEF ConIInv
  <2> QED
    BY Zenon, <1>1, <1>5, <2>4, <2>7, <2>8, <2>10, <2>11, <2>12, ThreadStep
<1> QED
  BY Zenon, <1>4, <1>5 DEF NextChar
-----------------------------------------------------------------------------
\* A call goes on: its state changes, not its lock.
LEMMA GoesOn ==
    ASSUME ConIInv, NEW t \in ConThreads, con[t].at # "idle",
           NEW at \in {"put", "send"} \cup PollStates \cup ReadStates, NEW todo \in Nat, NEW ch \in Chars,
           con' = [con EXCEPT ![t] = [at |-> at, lk |-> con[t].lk, todo |-> todo, ch |-> ch]]
    PROVE  /\ con'[t].at = at /\ con'[t].lk = con[t].lk /\ con'[t].todo = todo /\ con'[t].ch = ch
           /\ con' \in [ConThreads -> ConRecords] /\ \A u \in ConThreads \ {t} : con'[u] = con[u]
<1> DEFINE r == [at |-> at, lk |-> con[t].lk, todo |-> todo, ch |-> ch]
<1>1. ConTypeOK /\ con[t].lk \in ConLocks
  BY Zenon, CallType DEF ConIInv
<1>2. r \in ConRecords /\ r.at = at /\ r.lk = con[t].lk /\ r.todo = todo /\ r.ch = ch
  BY Zenon, <1>1 DEF ConRecords
<1>3. con \in [ConThreads -> ConRecords]
  BY Zenon, <1>1 DEF ConTypeOK, ConRecords
<1>4. con' = [con EXCEPT ![t] = r]
  BY Zenon
<1> HIDE DEF r
<1> QED
  BY Zenon, <1>2, <1>3, <1>4

\* The forms in which a step writes it.
LEMMA GoesOnForms ==
    ASSUME ConIInv, NEW t \in ConThreads, con[t].at # "idle", NEW at
    PROVE  LET lk == con[t].lk  todo == con[t].todo
           IN  /\ [con EXCEPT ![t].at = at] =
                    [con EXCEPT ![t] = [at |-> at, lk |-> lk, todo |-> todo, ch |-> con[t].ch]]
               /\ [con EXCEPT ![t].at = at, ![t].todo = @ - 1] =
                    [con EXCEPT ![t] = [at |-> at, lk |-> lk, todo |-> todo - 1, ch |-> con[t].ch]]
<1> DEFINE lk == con[t].lk  todo == con[t].todo  c == con[t].ch
<1>1. con[t] = [at |-> con[t].at, lk |-> lk, todo |-> todo, ch |-> c]
  BY Zenon, CallType DEF ConIInv
<1>2. [con[t] EXCEPT !.at = at] = [at |-> at, lk |-> lk, todo |-> todo, ch |-> c]
  BY <1>1
<1> DEFINE e == [con[t] EXCEPT !.at = at]  d == [at |-> at, lk |-> lk, todo |-> todo, ch |-> c]
<1>3. [d EXCEPT !.todo = @ - 1] = [at |-> at, lk |-> lk, todo |-> todo - 1, ch |-> c]
  OBVIOUS
<1>5. con = [u \in ConThreads |-> con[u]]
  BY Zenon DEF ConIInv, ConTypeOK
<1>6. [con EXCEPT ![t].at = at] = [con EXCEPT ![t] = [con[t] EXCEPT !.at = at]]
  BY Zenon, <1>5
<1>7. [con EXCEPT ![t].at = at, ![t].todo = @ - 1] =
        [con EXCEPT ![t] = [e EXCEPT !.todo = @ - 1]]
  BY Zenon, <1>5
<1>9. e = d
  BY Zenon, <1>2
<1> HIDE DEF e, d
<1>10. [con EXCEPT ![t].at = at, ![t].todo = @ - 1] = [con EXCEPT ![t] = [d EXCEPT !.todo = @ - 1]]
  BY Zenon, <1>7, <1>9
<1> QED
  BY Zenon, <1>2, <1>3, <1>6, <1>10

LEMMA GoesOnWith ==
    ASSUME ConIInv, NEW t \in ConThreads, con[t].at # "idle", NEW at, NEW ch,
           con' = [con EXCEPT ![t].at = at, ![t].ch = ch]
    PROVE  con' = [con EXCEPT ![t] = [at |-> at, lk |-> con[t].lk, todo |-> con[t].todo, ch |-> ch]]
<1> DEFINE lk == con[t].lk  todo == con[t].todo  c == con[t].ch
           e == [con[t] EXCEPT !.at = at]  d == [at |-> at, lk |-> lk, todo |-> todo, ch |-> c]
<1>1. con[t] = [at |-> con[t].at, lk |-> lk, todo |-> todo, ch |-> c]
  BY Zenon, CallType DEF ConIInv
<1>2. e = d
  BY <1>1
<1>3. [d EXCEPT !.ch = ch] = [at |-> at, lk |-> lk, todo |-> todo, ch |-> ch]
  OBVIOUS
<1>4. con = [u \in ConThreads |-> con[u]]
  BY Zenon DEF ConIInv, ConTypeOK
<1>5. con' = [con EXCEPT ![t] = [e EXCEPT !.ch = ch]]
  BY Zenon, <1>4
<1> HIDE DEF e, d
<1> QED
  BY Zenon, <1>2, <1>3, <1>5
-----------------------------------------------------------------------------
\* putch_intr takes the right to write.
LEMMA PutchStep ==
    ASSUME ConIInv, NEW t \in ConThreads, putch_intr(t)
    PROVE  ConIInv'
<1>1. /\ con[t].at = "put" /\ con[t].todo > 0 /\ con[t].lk # "kprintf_spinlock"
      /\ cs_wsem > 0 /\ cs_wsem' = cs_wsem - 1 /\ con' = [con EXCEPT ![t].at = "send"]
      /\ UNCHANGED <<portVars, ls_wbusy, ls_lock, ringVars, conlock, irqh, conbad>>
  BY Zenon DEF putch_intr
<1>2. ConTypeOK /\ CallLocks(t) /\ con[t].todo \in Nat /\ con[t].ch \in Chars /\ con[t].at # "idle"
  BY Zenon, <1>1, CallType DEF ConIInv
<1>3. con' = [con EXCEPT ![t] = [at |-> "send", lk |-> con[t].lk, todo |-> con[t].todo, ch |-> con[t].ch]]
  BY Zenon, <1>1, GoesOnForms
<1>4. /\ con'[t].at = "send" /\ con'[t].lk = con[t].lk /\ con'[t].todo = con[t].todo
      /\ con' \in [ConThreads -> ConRecords] /\ \A u \in ConThreads \ {t} : con'[u] = con[u]
  BY Zenon, <1>2, <1>3, GoesOn
<1>5. ~ls_wbusy /\ InState({"send"}) = {} /\ irqh.at # "start" /\ cs_wsem = 1
  BY <1>1 DEF ConIInv, WriteRight
<1>6. InState({"send"})' = {t}
  BY Zenon, <1>4, <1>5, StateSet
<1>7. WriteRight'
  <2>1. cs_wsem' = 0 /\ ~ls_wbusy' /\ irqh'.at # "start"
    BY <1>1, <1>5
  <2> QED
    BY Zenon, <1>6, <2>1 DEF WriteRight
<1>8. ConTypeOK' /\ ~conbad'
  <2>1. cs_wsem' \in Nat
    BY <1>1, <1>5
  <2> QED
    BY Zenon, <1>1, <1>2, <1>4, <2>1 DEF ConIInv, ConTypeOK, portVars, ringVars
<1>9. CallLocks(t)'
  BY Zenon, <1>1, <1>2, <1>4 DEF CallLocks, PollStates, ReadStates
<1>10. InState({"getch", "getch_tail"})' = InState({"getch", "getch_tail"})
  BY Zenon, <1>1, <1>4, StillIn
<1>11. PortOK'
  BY Zenon, <1>1, <1>4, PortFrame DEF ConIInv, portVars, PollStates
<1>12. RingOK'
  BY Zenon, <1>1, <1>4, <1>10, RingFrame DEF ConIInv
<1> QED
  BY Zenon, <1>1, <1>4, <1>7, <1>8, <1>9, <1>11, <1>12, ThreadStep

\* lser_write: the port is idle, and the right to write is the busy port's.
LEMMA WriteStep ==
    ASSUME ConIInv, NEW t \in ConThreads, lser_write(t)
    PROVE  ConIInv'
<1>1. /\ con[t].at = "send" /\ ls_lock = NoThread /\ ls_wbusy' = TRUE /\ tx' = TRUE
      /\ conbad' = (conbad \/ ls_wbusy \/ tx) /\ con' = [con EXCEPT ![t].at = "put", ![t].todo = @ - 1]
      /\ UNCHANGED <<wirq, rirq, rch, ls_lock, cs_wsem, ringVars, conlock, irqh>>
  BY Zenon DEF lser_write
<1>2. ConTypeOK /\ CallLocks(t) /\ con[t].todo \in Nat /\ con[t].ch \in Chars /\ con[t].todo > 0 /\ con[t].at # "idle"
  BY Zenon, <1>1, CallType DEF ConIInv, CallLocks
<1>3. con' = [con EXCEPT ![t] = [at |-> "put", lk |-> con[t].lk, todo |-> con[t].todo - 1, ch |-> con[t].ch]]
  BY Zenon, <1>1, GoesOnForms
<1>4. con[t].todo - 1 \in Nat
  BY <1>2
<1>5. /\ con'[t].at = "put" /\ con'[t].lk = con[t].lk
      /\ con' \in [ConThreads -> ConRecords] /\ \A u \in ConThreads \ {t} : con'[u] = con[u]
  BY Zenon, <1>2, <1>3, <1>4, GoesOn
<1>6. t \in InState({"send"})
  BY Zenon, <1>1 DEF InState
<1>7. ~ls_wbusy /\ irqh.at # "start" /\ cs_wsem = 0 /\ InState({"send"}) = {t}
  BY Zenon, <1>6 DEF ConIInv, WriteRight
<1>8. ~tx /\ wirq = {"ENABLE"}
  BY Zenon, <1>1, <1>7 DEF ConIInv, PortOK
<1>9. InState({"send"})' = {}
  BY <1>5, <1>7, StateSet
<1>10. WriteRight'
  <2>1. cs_wsem' = 0 /\ ls_wbusy' /\ irqh'.at # "start"
    BY Zenon, <1>1, <1>7
  <2> QED
    BY Zenon, <1>9, <2>1 DEF WriteRight
<1>11. ConTypeOK' /\ ~conbad'
  BY Zenon, <1>1, <1>2, <1>5, <1>7, <1>8 DEF ConIInv, ConTypeOK, ringVars
<1>12. CallLocks(t)'
  BY Zenon, <1>1, <1>2, <1>5 DEF CallLocks, PollStates, ReadStates
<1>13. InState({"getch", "getch_tail"})' = InState({"getch", "getch_tail"})
  BY Zenon, <1>1, <1>5, StillIn
<1>14. PortOK'
  <2>1. \A u \in ConThreads : con'[u].at \notin PollStates
    <3>1. \A u \in ConThreads \ {t} : con[u].at \notin PollStates
      BY Zenon, <1>1, ConsoleAssumption DEF ConIInv, CallLocks, NoThread
    <3> QED
      BY Zenon, <1>5, <3>1 DEF PollStates
  <2>2. ls_wbusy' /\ tx' /\ wirq' = {"ENABLE"}
    BY Zenon, <1>1, <1>8
  <2> QED
    BY Zenon, <2>1, <2>2 DEF PortOK, PollStates
<1>15. RingOK'
  BY Zenon, <1>1, <1>5, <1>13, RingFrame DEF ConIInv
<1> QED
  BY Zenon, <1>1, <1>5, <1>10, <1>11, <1>12, <1>14, <1>15, ThreadStep
-----------------------------------------------------------------------------
\* Polled output: only the holder of the port's lock polls.
LEMMA OthersDoNotPoll ==
    ASSUME ConIInv, NEW t \in ConThreads, ls_lock = t \/ ls_lock = NoThread
    PROVE  \A u \in ConThreads \ {t} : con[u].at \notin PollStates
  BY ConsoleAssumption DEF ConIInv, CallLocks, NoThread

\* A step of polled output preserves the invariant when the port's part of
\* it does.
LEMMA PolledStep ==
    ASSUME ConIInv, NEW t \in ConThreads, con[t].at \in {"put"} \cup PollStates,
           con' \in [ConThreads -> ConRecords], \A u \in ConThreads \ {t} : con'[u] = con[u],
           con'[t].at \in {"put"} \cup PollStates, con'[t].lk = con[t].lk,
           con[t].lk = "kprintf_spinlock",
           con'[t].at \in PollStates => con'[t].todo > 0,
           ls_lock = t \/ ls_lock = NoThread,
           ls_lock' = IF con'[t].at \in PollStates THEN t ELSE NoThread,
           wirq' \subseteq {"ENABLE", "ACTIVE", "FORCE"}, tx' \in BOOLEAN, ~conbad', PortOK',
           UNCHANGED <<rirq, rch, ls_wbusy, cs_wsem, ringVars, conlock, irqh>>
    PROVE  ConIInv'
<1>1. ConTypeOK /\ CallLocks(t)
  BY Zenon DEF ConIInv
<1>2. con[t].at # "idle" /\ con[t].at \notin ReadStates /\ con'[t].at \notin ReadStates \cup {"send"}
  BY Zenon DEF PollStates, ReadStates
<1>3. ConTypeOK'
  <2>1. ls_lock' \in ConThreads \cup {NoThread}
    BY Zenon
  <2> QED
    BY Zenon, <1>1, <2>1 DEF ConTypeOK, ringVars
<1>4. CallLocks(t)'
  <2>1. conlock'[con'[t].lk] = t /\ con'[t].lk # "con_userlock_read"
    BY Zenon, <1>1, <1>2 DEF CallLocks
  <2>2. ls_lock' = t <=> con'[t].at \in PollStates
    BY Zenon, ConsoleAssumption DEF NoThread
  <2> QED
    BY Zenon, <1>2, <2>1, <2>2 DEF CallLocks, PollStates, ReadStates
<1>5. /\ InState({"send"})' = InState({"send"})
      /\ InState({"getch", "getch_tail"})' = InState({"getch", "getch_tail"})
  BY Zenon, StillIn DEF PollStates
<1>6. WriteRight'
  BY Zenon, <1>5, RightFrame DEF ConIInv
<1>7. RingOK'
  BY Zenon, <1>5, RingFrame DEF ConIInv, PollStates
<1>8. \A u \in ConThreads \ {t} : ls_lock' = u <=> ls_lock = u
  BY Zenon, ConsoleAssumption DEF NoThread
<1> QED
  BY Zenon, <1>3, <1>4, <1>6, <1>7, <1>8, ThreadStep

LEMMA WritePolledStep ==
    ASSUME ConIInv, NEW t \in ConThreads, lser_writepolled(t)
    PROVE  ConIInv'
<1>1. /\ con[t].at = "put" /\ con[t].todo > 0 /\ con[t].lk = "kprintf_spinlock"
      /\ ls_lock = NoThread /\ ls_lock' = t
      /\ UNCHANGED <<rirq, rch, ls_wbusy, cs_wsem, ringVars, conlock, irqh>>
  BY Zenon DEF lser_writepolled
<1>2. ConTypeOK /\ con[t].todo \in Nat /\ con[t].ch \in Chars /\ con[t].at # "idle"
  BY Zenon, <1>1, CallType DEF ConIInv
<1>3. \A u \in ConThreads \ {t} : con[u].at \notin PollStates
  BY Zenon, <1>1, OthersDoNotPoll
<1>4. CASE ls_wbusy
  <2>1. con' = [con EXCEPT ![t].at = "poll"] /\ UNCHANGED <<wirq, tx, conbad>>
    BY Zenon, <1>4 DEF lser_writepolled
  <2>2. con' = [con EXCEPT ![t] = [at |-> "poll", lk |-> con[t].lk, todo |-> con[t].todo, ch |-> con[t].ch]]
    BY Zenon, <1>2, <2>1, GoesOnForms
  <2>3. "poll" \in PollStates
    BY Zenon DEF PollStates
  <2>4. /\ con'[t].at = "poll" /\ con'[t].lk = con[t].lk /\ con'[t].todo = con[t].todo
        /\ con' \in [ConThreads -> ConRecords] /\ \A u \in ConThreads \ {t} : con'[u] = con[u]
    BY Zenon, <1>2, <2>2, <2>3, GoesOn
  <2>5. PortOK'
    BY Zenon, <1>1, <1>3, <1>4, <2>1, <2>4 DEF ConIInv, PortOK, PollStates
  <2>6. wirq' \subseteq {"ENABLE", "ACTIVE", "FORCE"} /\ tx' \in BOOLEAN /\ ~conbad'
    BY Zenon, <1>2, <2>1 DEF ConIInv, ConTypeOK
  <2> QED
    BY Zenon, <1>1, <2>3, <2>4, <2>5, <2>6, PolledStep
<1>5. CASE ~ls_wbusy
  <2>1. /\ con' = [con EXCEPT ![t].at = "poll_idle"] /\ wirq' = {} /\ tx' = TRUE
        /\ conbad' = (conbad \/ tx)
    BY Zenon, <1>5 DEF lser_writepolled
  <2>2. con' = [con EXCEPT ![t] = [at |-> "poll_idle", lk |-> con[t].lk, todo |-> con[t].todo, ch |-> con[t].ch]]
    BY Zenon, <1>2, <2>1, GoesOnForms
  <2>3. "poll_idle" \in PollStates
    BY Zenon DEF PollStates
  <2>4. /\ con'[t].at = "poll_idle" /\ con'[t].lk = con[t].lk /\ con'[t].todo = con[t].todo
        /\ con' \in [ConThreads -> ConRecords] /\ \A u \in ConThreads \ {t} : con'[u] = con[u]
    BY Zenon, <1>2, <2>2, <2>3, GoesOn
  <2>5. PortOK'
    <3>1. ls_lock' # NoThread
      BY Zenon, <1>1, ConsoleAssumption DEF NoThread
    <3>2. ~ls_wbusy' /\ tx' /\ wirq' = {}
      BY Zenon, <1>1, <1>5, <2>1
    <3> QED
      BY Zenon, <1>3, <2>4, <3>1, <3>2 DEF PortOK, PollStates
  <2>6. ~tx
    BY Zenon, <1>1, <1>5 DEF ConIInv, PortOK
  <2>7. wirq' \subseteq {"ENABLE", "ACTIVE", "FORCE"} /\ tx' \in BOOLEAN /\ ~conbad'
    BY Zenon, <2>1, <2>6 DEF ConIInv
  <2> QED
    BY Zenon, <1>1, <2>3, <2>4, <2>5, <2>7, PolledStep
<1> QED
  BY Zenon, <1>4, <1>5

LEMMA PollSendStep ==
    ASSUME ConIInv, NEW t \in ConThreads, PollSend(t)
    PROVE  ConIInv'
<1>1. /\ con[t].at = "poll" /\ "ACTIVE" \in wirq /\ wirq' = {"FORCE", "ENABLE"} /\ tx' = TRUE
      /\ conbad' = (conbad \/ tx) /\ con' = [con EXCEPT ![t].at = "poll_busy"]
      /\ UNCHANGED <<rirq, rch, ls_wbusy, ls_lock, cs_wsem, ringVars, conlock, irqh>>
  BY Zenon DEF PollSend
<1>2. /\ con[t].todo \in Nat /\ con[t].ch \in Chars /\ con[t].at # "idle" /\ con[t].todo > 0
      /\ ls_lock = t /\ con[t].lk = "kprintf_spinlock"
  BY Zenon, <1>1, CallType DEF ConIInv, CallLocks, PollStates
<1>3. \A u \in ConThreads \ {t} : con[u].at \notin PollStates
  BY Zenon, <1>2, OthersDoNotPoll
<1>4. con' = [con EXCEPT ![t] = [at |-> "poll_busy", lk |-> con[t].lk, todo |-> con[t].todo, ch |-> con[t].ch]]
  BY Zenon, <1>1, <1>2, GoesOnForms
<1>5. "poll_busy" \in PollStates /\ con[t].at \in PollStates
  BY Zenon, <1>1 DEF PollStates
<1>6. /\ con'[t].at = "poll_busy" /\ con'[t].lk = con[t].lk /\ con'[t].todo = con[t].todo
      /\ con' \in [ConThreads -> ConRecords] /\ \A u \in ConThreads \ {t} : con'[u] = con[u]
  BY Zenon, <1>2, <1>4, <1>5, GoesOn
<1>7. ls_wbusy /\ ~tx
  BY Zenon, <1>1 DEF ConIInv, PortOK
<1>8. PortOK'
  <2>1. ls_wbusy' /\ tx' /\ wirq' = {"FORCE", "ENABLE"}
    BY Zenon, <1>1, <1>7
  <2> QED
    BY Zenon, <1>3, <1>6, <2>1 DEF PortOK, PollStates
<1>9. wirq' \subseteq {"ENABLE", "ACTIVE", "FORCE"} /\ tx' \in BOOLEAN /\ ~conbad'
  BY Zenon, <1>1, <1>7 DEF ConIInv
<1> QED
  BY Zenon, <1>1, <1>2, <1>5, <1>6, <1>8, <1>9, PolledStep

LEMMA PollDoneStep ==
    ASSUME ConIInv, NEW t \in ConThreads, PollDone(t)
    PROVE  ConIInv'
<1>1. /\ con[t].at \in {"poll_idle", "poll_busy"} /\ "ACTIVE" \in wirq /\ ls_lock' = NoThread
      /\ wirq' = (IF con[t].at = "poll_idle" THEN {"ENABLE"} ELSE wirq)
      /\ con' = [con EXCEPT ![t].at = "put", ![t].todo = @ - 1]
      /\ UNCHANGED <<rirq, tx, rch, ls_wbusy, cs_wsem, ringVars, conlock, irqh, conbad>>
  BY Zenon DEF PollDone, PolledIrq
<1>2. /\ con[t].todo \in Nat /\ con[t].ch \in Chars /\ con[t].at # "idle" /\ con[t].todo > 0
      /\ ls_lock = t /\ con[t].lk = "kprintf_spinlock"
  BY Zenon, <1>1, CallType DEF ConIInv, CallLocks, PollStates
<1>3. \A u \in ConThreads \ {t} : con[u].at \notin PollStates
  BY Zenon, <1>2, OthersDoNotPoll
<1>4. con' = [con EXCEPT ![t] = [at |-> "put", lk |-> con[t].lk, todo |-> con[t].todo - 1, ch |-> con[t].ch]]
  BY Zenon, <1>1, <1>2, GoesOnForms
<1>5. con[t].todo - 1 \in Nat
  BY <1>2
<1>6. /\ con'[t].at = "put" /\ con'[t].lk = con[t].lk
      /\ con' \in [ConThreads -> ConRecords] /\ \A u \in ConThreads \ {t} : con'[u] = con[u]
  BY Zenon, <1>2, <1>4, <1>5, GoesOn
<1>7. PortOK'
  <2>1. CASE con[t].at = "poll_idle"
    <3>1. ~ls_wbusy' /\ ~tx' /\ wirq' = {"ENABLE"}
      BY Zenon, <1>1, <2>1 DEF ConIInv, PortOK
    <3> QED
      BY Zenon, <1>3, <1>6, <3>1 DEF PortOK, PollStates
  <2>2. CASE con[t].at = "poll_busy"
    <3>1. ls_wbusy' /\ UNCHANGED <<tx, wirq, ls_wbusy>>
      BY Zenon, <1>1, <2>2 DEF ConIInv, PortOK
    <3> QED
      BY Zenon, <1>3, <1>6, <3>1 DEF ConIInv, PortOK, PollStates
  <2> QED
    BY Zenon, <1>1, <2>1, <2>2
<1>8. wirq' \subseteq {"ENABLE", "ACTIVE", "FORCE"} /\ tx' \in BOOLEAN /\ ~conbad'
  BY Zenon, <1>1 DEF ConIInv, ConTypeOK
<1>9. con[t].at \in PollStates /\ con'[t].at \notin PollStates
  BY Zenon, <1>1, <1>6 DEF PollStates
<1> QED
  BY Zenon, <1>1, <1>2, <1>6, <1>7, <1>8, <1>9, PolledStep
-----------------------------------------------------------------------------
\* One thread at a time reads.
LEMMA OneReader ==
    ASSUME ConIInv, NEW t \in ConThreads, con[t].at \in ReadStates
    PROVE  \A u \in ConThreads \ {t} : con[u].at \notin ReadStates
<1>1. CallLocks(t) /\ con[t].at # "idle"
  BY Zenon DEF ConIInv, ReadStates
<1>2. ASSUME NEW u \in ConThreads \ {t}, con[u].at \in ReadStates PROVE FALSE
  <2>1. CallLocks(u) /\ con[u].at # "idle"
    BY Zenon, <1>2 DEF ConIInv, ReadStates
  <2> QED
    BY Zenon, <1>1, <1>2, <2>1 DEF CallLocks
<1> QED
  BY Zenon, <1>2

\* getch_intr takes the word that a character is there.
LEMMA GetchStep ==
    ASSUME ConIInv, NEW t \in ConThreads, getch_intr(t)
    PROVE  ConIInv'
<1>1. /\ con[t].at = "read" /\ cs_rsem > 0 /\ cs_rsem' = cs_rsem - 1 /\ con' = [con EXCEPT ![t].at = "getch"]
      /\ UNCHANGED <<portVars, ls_wbusy, ls_lock, cs_wsem, cs_gotchars, cs_head, cs_tail, fifo,
                     conlock, irqh, conbad>>
  BY Zenon DEF getch_intr
<1>2. /\ ConTypeOK /\ CallLocks(t) /\ con[t].todo \in Nat /\ con[t].ch \in Chars /\ con[t].at # "idle"
      /\ con[t].at \in ReadStates /\ "getch" \in ReadStates
  BY Zenon, <1>1, CallType DEF ConIInv, ReadStates
<1>3. con' = [con EXCEPT ![t] = [at |-> "getch", lk |-> con[t].lk, todo |-> con[t].todo, ch |-> con[t].ch]]
  BY Zenon, <1>1, <1>2, GoesOnForms
<1>4. /\ con'[t].at = "getch" /\ con'[t].lk = con[t].lk /\ con'[t].todo = con[t].todo
      /\ con' \in [ConThreads -> ConRecords] /\ \A u \in ConThreads \ {t} : con'[u] = con[u]
  BY Zenon, <1>2, <1>3, GoesOn
<1>5. InState({"getch", "getch_tail"}) = {} /\ \A u \in ConThreads \ {t} : con[u].at \notin ReadStates
  BY Zenon, <1>1, <1>2, OneReader DEF InState, ReadStates
<1>6. InState({"getch", "getch_tail"})' = {t}
  BY <1>4, <1>5, StateSet
<1>7. RingOK'
  <2>1. /\ Len(fifo) < CONSOLE_INPUT_BUFFER_SIZE
        /\ irqh.at = "store" => Len(fifo) + 1 < CONSOLE_INPUT_BUFFER_SIZE
        /\ \A i \in 1 .. Len(fifo) : cs_gotchars[(cs_tail + i - 1) % CONSOLE_INPUT_BUFFER_SIZE] = fifo[i]
        /\ cs_head = (cs_tail + Len(fifo)) % CONSOLE_INPUT_BUFFER_SIZE
    BY Zenon DEF ConIInv, RingOK
  <2>2. cs_rsem + (IF irqh.at = "wake" THEN 1 ELSE 0) = Len(fifo)
    BY <1>2, <1>5 DEF ConIInv, RingOK, ConTypeOK
  <2>3. cs_rsem' + (IF InState({"getch", "getch_tail"})' # {} THEN 1 ELSE 0)
          + (IF irqh'.at = "wake" THEN 1 ELSE 0) = Len(fifo')
    <3> DEFINE w == IF irqh.at = "wake" THEN 1 ELSE 0
    <3>1. w \in Nat /\ cs_rsem \in Nat /\ cs_rsem + w = Len(fifo) /\ cs_rsem' = cs_rsem - 1
      BY Zenon, <1>1, <1>2, <2>2 DEF ConTypeOK
    <3>2. (IF InState({"getch", "getch_tail"})' # {} THEN 1 ELSE 0) = 1
      BY Zenon, <1>6
    <3>3. (IF irqh'.at = "wake" THEN 1 ELSE 0) = w /\ Len(fifo') = Len(fifo)
      BY Zenon, <1>1
    <3> HIDE DEF w
    <3>4. cs_rsem - 1 + 1 + w = Len(fifo)
      BY <3>1
    <3> QED
      BY Zenon, <3>1, <3>2, <3>3, <3>4
  <2>4. \A u \in ConThreads : con'[u].at # "getch_tail"
    BY Zenon, <1>4, <1>5 DEF ReadStates
  <2> QED
    BY Zenon, <1>1, <2>1, <2>3, <2>4 DEF RingOK
<1>8. ConTypeOK' /\ ~conbad'
  <2>1. cs_rsem' \in Nat
    BY <1>1, <1>2 DEF ConTypeOK
  <2> QED
    BY Zenon, <1>1, <1>2, <1>4, <2>1 DEF ConIInv, ConTypeOK, portVars
<1>9. CallLocks(t)'
  BY Zenon, <1>1, <1>2, <1>4 DEF CallLocks, PollStates, ReadStates
<1>10. WriteRight'
  <2>1. InState({"send"})' = InState({"send"})
    BY Zenon, <1>1, <1>4, StillIn
  <2> QED
    BY Zenon, <1>1, <2>1, RightFrame DEF ConIInv
<1>11. PortOK'
  BY Zenon, <1>1, <1>4, PortFrame DEF ConIInv, portVars, PollStates
<1> QED
  BY Zenon, <1>1, <1>4, <1>7, <1>8, <1>9, <1>10, <1>11, ThreadStep

\* getch reads the character in the slot at cs_tail: the oldest one.
LEMMA GetchCharStep ==
    ASSUME ConIInv, NEW t \in ConThreads, getch_char(t)
    PROVE  ConIInv'
<1> DEFINE k == cs_gotchars[cs_tail]
<1>1. /\ con[t].at = "getch" /\ con' = [con EXCEPT ![t].at = "getch_tail", ![t].ch = k]
      /\ UNCHANGED <<portVars, ls_wbusy, ls_lock, cs_wsem, ringVars, conlock, irqh, conbad>>
  BY Zenon DEF getch_char
<1>2. /\ ConTypeOK /\ CallLocks(t) /\ con[t].todo \in Nat /\ con[t].at # "idle"
      /\ con[t].at \in ReadStates /\ "getch_tail" \in ReadStates
  BY Zenon, <1>1, CallType DEF ConIInv, ReadStates
<1>3. k = fifo[1] /\ k \in Chars
  <2>1. t \in InState({"getch", "getch_tail"})
    BY Zenon, <1>1 DEF InState
  <2>2. Len(fifo) \in Nat /\ 1 \in 1 .. Len(fifo) /\ cs_tail \in 0 .. CONSOLE_INPUT_BUFFER_SIZE - 1
    BY <1>2, <2>1 DEF ConIInv, RingOK, ConTypeOK
  <2>3. cs_tail + 1 - 1 = cs_tail /\ cs_tail \in Nat /\ cs_tail < 2 * CONSOLE_INPUT_BUFFER_SIZE
    BY <2>2, ConsoleAssumption
  <2>4. cs_tail % CONSOLE_INPUT_BUFFER_SIZE = RingMod(cs_tail)
    BY Zenon, <2>3, RingIndex
  <2>5. RingMod(cs_tail) = cs_tail
    BY <2>2, ConsoleAssumption DEF RingMod
  <2>6. cs_gotchars[(cs_tail + 1 - 1) % CONSOLE_INPUT_BUFFER_SIZE] = fifo[1]
    BY Zenon, <2>2 DEF ConIInv, RingOK
  <2>7. k = fifo[1]
    BY Zenon, <2>3, <2>4, <2>5, <2>6
  <2> QED
    BY Zenon, <1>2, <2>2, <2>7 DEF ConTypeOK
<1> HIDE DEF k
<1>4. con' = [con EXCEPT ![t] = [at |-> "getch_tail", lk |-> con[t].lk, todo |-> con[t].todo, ch |-> k]]
  BY Zenon, <1>1, <1>2, GoesOnWith
<1>5. /\ con'[t].at = "getch_tail" /\ con'[t].lk = con[t].lk /\ con'[t].ch = k
      /\ con' \in [ConThreads -> ConRecords] /\ \A u \in ConThreads \ {t} : con'[u] = con[u]
  BY Zenon, <1>2, <1>3, <1>4, GoesOn
<1>6. /\ InState({"send"})' = InState({"send"})
      /\ InState({"getch", "getch_tail"})' = InState({"getch", "getch_tail"})
  BY Zenon, <1>1, <1>5, StillIn
<1>7. RingOK'
  <2>1. \A u \in ConThreads : con'[u].at = "getch_tail" => con'[u].ch = fifo'[1]
    BY Zenon, <1>1, <1>3, <1>5 DEF ConIInv, RingOK, ringVars
  <2>2. RingOK /\ UNCHANGED <<fifo, cs_gotchars, cs_tail, cs_head, cs_rsem, irqh>>
    BY Zenon, <1>1 DEF ConIInv, ringVars
  <2> QED
    BY Zenon, <1>6, <2>1, <2>2 DEF RingOK
<1>8. ConTypeOK' /\ ~conbad'
  BY Zenon, <1>1, <1>2, <1>5 DEF ConIInv, ConTypeOK, portVars, ringVars
<1>9. CallLocks(t)'
  BY Zenon, <1>1, <1>2, <1>5 DEF CallLocks, PollStates, ReadStates
<1>10. WriteRight'
  BY Zenon, <1>1, <1>6, RightFrame DEF ConIInv
<1>11. PortOK'
  BY Zenon, <1>1, <1>5, PortFrame DEF ConIInv, portVars, PollStates
<1> QED
  BY Zenon, <1>1, <1>5, <1>7, <1>8, <1>9, <1>10, <1>11, ThreadStep

\* getch frees the slot: the ring holds the rest.
LEMMA RingAdvance ==
    ASSUME ConTypeOK, RingOK, fifo # <<>>, UNCHANGED <<cs_gotchars, cs_head>>, fifo' = Tail(fifo),
           cs_tail' = (cs_tail + 1) % CONSOLE_INPUT_BUFFER_SIZE
    PROVE  /\ cs_tail' \in 0 .. CONSOLE_INPUT_BUFFER_SIZE - 1
           /\ fifo' \in Seq(Chars) /\ Len(fifo) \in Nat \ {0} /\ Len(fifo') = Len(fifo) - 1
           /\ \A i \in 1 .. Len(fifo') : cs_gotchars'[(cs_tail' + i - 1) % CONSOLE_INPUT_BUFFER_SIZE] = fifo'[i]
           /\ cs_head' = (cs_tail' + Len(fifo')) % CONSOLE_INPUT_BUFFER_SIZE
<1> DEFINE n == CONSOLE_INPUT_BUFFER_SIZE  len == Len(fifo)
<1>1. fifo' \in Seq(Chars) /\ Len(fifo') = len - 1 /\ len \in Nat \ {0} /\ \A i \in 1 .. len - 1 : fifo'[i] = fifo[i + 1]
  BY DEF ConTypeOK
<1>2. n \in Nat \ {0, 1} /\ len < n /\ cs_tail \in 0 .. n - 1
  BY Zenon, ConsoleAssumption DEF ConTypeOK, RingOK
<1>3. cs_tail' = RingMod(cs_tail + 1)
  <2>1. cs_tail + 1 \in Nat /\ cs_tail + 1 < 2 * n
    BY <1>2
  <2> QED
    BY Zenon, <2>1, RingIndex
<1>4. cs_tail' \in 0 .. n - 1
  BY <1>2, <1>3 DEF RingMod
<1>5. cs_head' = (cs_tail' + Len(fifo')) % n
  <2>1. cs_tail + len \in Nat /\ cs_tail + len < 2 * n
    BY <1>1, <1>2
  <2>2. cs_head = RingMod(cs_tail + len)
    BY Zenon, <2>1, RingIndex DEF RingOK
  <2>3. cs_tail' + (len - 1) \in Nat /\ cs_tail' + (len - 1) < 2 * n
    BY <1>1, <1>2, <1>4
  <2>4. (cs_tail' + (len - 1)) % n = RingMod(cs_tail' + (len - 1))
    BY Zenon, <2>3, RingIndex
  <2>5. RingMod(cs_tail + len) = RingMod(cs_tail' + (len - 1))
    <3> HIDE DEF len
    <3> QED
      BY <1>1, <1>2, <1>3 DEF RingMod
  <2> QED
    BY Zenon, <1>1, <2>2, <2>4, <2>5
<1>6. ASSUME NEW i \in 1 .. Len(fifo') PROVE cs_gotchars'[(cs_tail' + i - 1) % n] = fifo'[i]
  <2>1. i \in Nat \ {0} /\ i <= len - 1 /\ i + 1 \in 1 .. len
    BY <1>1, <1>6
  <2>2. cs_tail' + i - 1 \in Nat /\ cs_tail' + i - 1 < 2 * n
    BY <1>1, <1>2, <1>4, <2>1
  <2>3. (cs_tail' + i - 1) % n = RingMod(cs_tail' + i - 1)
    BY Zenon, <2>2, RingIndex
  <2>4. cs_tail + (i + 1) - 1 \in Nat /\ cs_tail + (i + 1) - 1 < 2 * n
    BY <1>1, <1>2, <2>1
  <2>5. (cs_tail + (i + 1) - 1) % n = RingMod(cs_tail + (i + 1) - 1)
    BY Zenon, <2>4, RingIndex
  <2>6. RingMod(cs_tail + (i + 1) - 1) = RingMod(cs_tail' + i - 1)
    <3> HIDE DEF len
    <3> QED
      BY <1>1, <1>2, <1>3, <2>1 DEF RingMod
  <2>7. cs_gotchars[(cs_tail + (i + 1) - 1) % n] = fifo[i + 1]
    BY Zenon, <2>1 DEF RingOK
  <2>8. fifo'[i] = fifo[i + 1]
    BY Zenon, <1>1, <2>1
  <2> QED
    BY Zenon, <2>3, <2>5, <2>6, <2>7, <2>8
<1> QED
  BY Zenon, <1>1, <1>4, <1>5, <1>6

LEMMA GetchReturnStep ==
    ASSUME ConIInv, NEW t \in ConThreads, getch_return(t)
    PROVE  ConIInv'
<1>1. /\ con[t].at = "getch_tail" /\ cs_tail' = (cs_tail + 1) % CONSOLE_INPUT_BUFFER_SIZE
      /\ conbad' = (conbad \/ fifo = <<>> \/ con[t].ch # Head(fifo)) /\ fifo' = Tail(fifo)
      /\ UNCHANGED <<portVars, ls_wbusy, ls_lock, cs_wsem, cs_rsem, cs_gotchars, cs_head, irqh>>
  BY Zenon DEF getch_return
<1>2. /\ ConTypeOK /\ RingOK /\ CallLocks(t) /\ con[t].todo \in Nat /\ con[t].at # "idle"
      /\ con[t].at \in ReadStates /\ t \in InState({"getch", "getch_tail"})
  BY Zenon, <1>1, CallType DEF ConIInv, ReadStates, InState
<1>3. fifo # <<>> /\ con[t].ch = Head(fifo)
  <2>1. Len(fifo) \in Nat /\ Len(fifo) > 0
    BY <1>2 DEF RingOK, ConTypeOK
  <2>2. con[t].ch = fifo[1]
    BY Zenon, <1>1, <1>2 DEF RingOK
  <2> QED
    BY <1>2, <2>1, <2>2 DEF ConTypeOK
<1>4. /\ cs_tail' \in 0 .. CONSOLE_INPUT_BUFFER_SIZE - 1
      /\ fifo' \in Seq(Chars) /\ Len(fifo) \in Nat \ {0} /\ Len(fifo') = Len(fifo) - 1
      /\ \A i \in 1 .. Len(fifo') : cs_gotchars'[(cs_tail' + i - 1) % CONSOLE_INPUT_BUFFER_SIZE] = fifo'[i]
      /\ cs_head' = (cs_tail' + Len(fifo')) % CONSOLE_INPUT_BUFFER_SIZE
  BY Zenon, <1>1, <1>2, <1>3, RingAdvance
<1>5. \A u \in ConThreads \ {t} : con[u].at \notin ReadStates
  BY Zenon, <1>2, OneReader
\* Either way the thread is done with this character.
<1>6. /\ con'[t].at \in {"idle", "read"} /\ con' \in [ConThreads -> ConRecords]
      /\ conlock' \in [ConLocks -> ConThreads \cup {NoThread}]
      /\ \A u \in ConThreads \ {t} :
           con'[u] = con[u] /\ (con[u].at # "idle" => conlock'[con[u].lk] = conlock[con[u].lk])
      /\ con'[t].at = "read" => con'[t].lk = con[t].lk /\ UNCHANGED conlock
  <2>1. CASE Leave(t)
    BY Zenon, <1>2, <2>1, LeaveFacts
  <2>2. CASE con' = [con EXCEPT ![t].at = "read", ![t].ch = None] /\ UNCHANGED conlock
    <3>1. con' = [con EXCEPT ![t] = [at |-> "read", lk |-> con[t].lk, todo |-> con[t].todo, ch |-> None]]
      BY Zenon, <1>2, <2>2, GoesOnWith
    <3>2. "read" \in ReadStates /\ None \in Chars
      BY Zenon DEF ReadStates, Chars
    <3>3. /\ con'[t].at = "read" /\ con'[t].lk = con[t].lk
          /\ con' \in [ConThreads -> ConRecords] /\ \A u \in ConThreads \ {t} : con'[u] = con[u]
      BY Zenon, <1>2, <3>1, <3>2, GoesOn
    <3> QED
      BY Zenon, <1>2, <2>2, <3>3 DEF ConTypeOK
  <2> QED
    BY Zenon, <2>1, <2>2 DEF getch_return
<1>7. ConTypeOK' /\ ~conbad'
  BY Zenon, <1>1, <1>2, <1>3, <1>4, <1>6 DEF ConIInv, ConTypeOK, portVars
<1>8. CallLocks(t)'
  BY Zenon, <1>1, <1>2, <1>6 DEF CallLocks, PollStates, ReadStates
<1>9. InState({"send"})' = InState({"send"}) /\ InState({"getch", "getch_tail"})' = {}
  BY <1>1, <1>5, <1>6 DEF InState, ReadStates
<1>10. WriteRight'
  BY Zenon, <1>1, <1>9, RightFrame DEF ConIInv
<1>11. PortOK'
  BY Zenon, <1>1, <1>6, PortFrame DEF ConIInv, portVars, PollStates
<1>12. RingOK'
  <2>1. cs_rsem' + (IF InState({"getch", "getch_tail"})' # {} THEN 1 ELSE 0)
          + (IF irqh'.at = "wake" THEN 1 ELSE 0) = Len(fifo')
    <3> DEFINE w == IF irqh.at = "wake" THEN 1 ELSE 0
    <3>1. w \in Nat /\ cs_rsem \in Nat /\ cs_rsem + 1 + w = Len(fifo) /\ cs_rsem' = cs_rsem
      <4>1. (IF InState({"getch", "getch_tail"}) # {} THEN 1 ELSE 0) = 1
        BY Zenon, <1>2
      <4>2. cs_rsem + (IF InState({"getch", "getch_tail"}) # {} THEN 1 ELSE 0) + w = Len(fifo)
        BY Zenon, <1>2 DEF RingOK
      <4>3. cs_rsem + 1 + w = Len(fifo)
        BY Zenon, <4>1, <4>2
      <4>4. w \in Nat
        BY Zenon
      <4> QED
        BY Zenon, <1>1, <1>2, <4>3, <4>4 DEF ConTypeOK
    <3>2. (IF InState({"getch", "getch_tail"})' # {} THEN 1 ELSE 0) = 0
      BY Zenon, <1>9
    <3>3. (IF irqh'.at = "wake" THEN 1 ELSE 0) = w
      BY Zenon, <1>1
    <3> HIDE DEF w
    <3>4. cs_rsem + 0 + w = Len(fifo')
      <4>1. \A a, b, c \in Nat : a + 1 + b = c => a + 0 + b = c - 1
        OBVIOUS
      <4>2. cs_rsem + 0 + w = Len(fifo) - 1
        BY <3>1, <4>1
      <4> QED
        BY Zenon, <1>4, <4>2
    <3> QED
      BY Zenon, <3>1, <3>2, <3>3, <3>4
  <2>2. /\ Len(fifo') < CONSOLE_INPUT_BUFFER_SIZE
        /\ irqh'.at = "store" => Len(fifo') + 1 < CONSOLE_INPUT_BUFFER_SIZE
    BY <1>1, <1>2, <1>4, ConsoleAssumption DEF RingOK
  <2>3. \A u \in ConThreads : con'[u].at # "getch_tail"
    BY Zenon, <1>5, <1>6 DEF ReadStates
  <2> QED
    BY Zenon, <1>4, <2>1, <2>2, <2>3 DEF RingOK
<1> QED
  BY Zenon, <1>1, <1>6, <1>7, <1>8, <1>10, <1>11, <1>12, ThreadStep
-----------------------------------------------------------------------------
LEMMA ConStart ==
    ConInit => ConIInv
<1> SUFFICES ASSUME ConInit PROVE ConIInv
  BY Zenon
<1>1. /\ \A t \in ConThreads : con[t] = NoConCall /\ con[t].at = "idle"
      /\ irqh = [at |-> "none"] /\ irqh.at = "none" /\ fifo = <<>> /\ Len(fifo) = 0
  BY Zenon DEF ConInit, NoConCall, Quiet
<1>2. \A S : "idle" \notin S => InState(S) = {}
  BY Zenon, <1>1 DEF InState
<1>3. ConTypeOK /\ ~conbad
  <2>1. /\ con \in [ConThreads -> ConRecords] /\ conlock \in [ConLocks -> ConThreads \cup {NoThread}]
        /\ cs_gotchars \in [0 .. CONSOLE_INPUT_BUFFER_SIZE - 1 -> Chars] /\ rch \in Chars
    BY Zenon DEF ConInit, ConRecords, Chars
  <2>2. /\ cs_wsem \in Nat /\ cs_rsem \in Nat
        /\ cs_head \in 0 .. CONSOLE_INPUT_BUFFER_SIZE - 1 /\ cs_tail \in 0 .. CONSOLE_INPUT_BUFFER_SIZE - 1
    BY ConsoleAssumption DEF ConInit
  <2>3. fifo \in Seq(Chars) /\ irqh \in [at : {"none", "lser", "wake"}]
    BY <1>1
  <2>4. /\ wirq \subseteq {"ENABLE", "ACTIVE", "FORCE"} /\ tx \in BOOLEAN /\ ls_wbusy \in BOOLEAN
        /\ ls_lock \in ConThreads \cup {NoThread} /\ ~conbad
    BY Zenon DEF ConInit
  <2> QED
    BY Zenon, <2>1, <2>2, <2>3, <2>4 DEF ConTypeOK
<1>4. ASSUME NEW t \in ConThreads PROVE CallLocks(t)
  BY Zenon, <1>1, ConsoleAssumption DEF ConInit, CallLocks, NoThread, PollStates
<1>5. WriteRight
  BY <1>1, <1>2 DEF ConInit, WriteRight
<1>6. PortOK
  BY Zenon, <1>1 DEF ConInit, PortOK
<1>7. RingOK
  <2>1. 0 % CONSOLE_INPUT_BUFFER_SIZE = 0
    BY ConsoleAssumption
  <2> QED
    BY <1>1, <1>2, <2>1, ConsoleAssumption DEF ConInit, RingOK
<1> QED
  BY Zenon, <1>3, <1>4, <1>5, <1>6, <1>7 DEF ConIInv

LEMMA ConStep ==
    ConIInv /\ [ConNext]_conVars => ConIInv'
<1> SUFFICES ASSUME ConIInv, [ConNext]_conVars PROVE ConIInv'
  BY Zenon
<1>1. CASE UNCHANGED conVars
  <2>1. UNCHANGED <<wirq, tx, rch, ls_wbusy, ls_lock, cs_wsem, ringVars, conlock, con, irqh, conbad>>
    BY Zenon, <1>1 DEF conVars, portVars
  <2>2. (\A t \in ConThreads : CallLocks(t)') /\ \A S : InState(S)' = InState(S)
    BY Zenon, <2>1, NoThreadMoves
  <2>3. WriteRight' /\ PortOK' /\ RingOK'
    BY Zenon, <2>1, <2>2, RightFrame, PortFrame, RingFrame DEF ConIInv
  <2>4. ConTypeOK' /\ ~conbad'
    BY Zenon, <2>1 DEF ConIInv, ConTypeOK, ringVars
  <2> QED
    BY Zenon, <2>2, <2>3, <2>4 DEF ConIInv
<1>2. CASE Transmitted \/ (\E kind \in Kinds : Typed(kind)) \/ lamebus_interrupt \/ lser_irq \/ con_start
             \/ con_input \/ con_input_store \/ con_input_wake
  BY Zenon, <1>2, PortStep, InterruptStep, LserStep, StartStep, InputStep, StoreStep, WakeStep
<1>3. ASSUME NEW t \in ConThreads,
             con_io(t) \/ kprintf(t)
      PROVE  ConIInv'
  BY Zenon, <1>3, CallStep DEF con_io, kprintf, ConLocks
<1>4. ASSUME NEW t \in ConThreads,
             \/ NextChar(t) \/ putch_intr(t) \/ lser_write(t) \/ lser_writepolled(t) \/ PollSend(t) \/ PollDone(t)
             \/ getch_intr(t) \/ getch_char(t) \/ getch_return(t)
      PROVE  ConIInv'
  BY Zenon, <1>4, NextCharStep, PutchStep, WriteStep, WritePolledStep, PollSendStep, PollDoneStep,
     GetchStep, GetchCharStep, GetchReturnStep
<1> QED
  BY Zenon, <1>1, <1>2, <1>3, <1>4 DEF ConNext

LEMMA ConInvariance ==
    ConSpec => []ConIInv
  BY ConStart, ConStep, PTL DEF ConSpec
-----------------------------------------------------------------------------
\* One or no thread: what the sums of the properties count.
LEMMA AtMostOne ==
    ASSUME NEW S, \A t, u \in S : t = u
    PROVE  Cardinality(S) = IF S # {} THEN 1 ELSE 0
<1>1. CASE S = {}
  BY Zenon, <1>1, FS_EmptySet
<1>2. CASE S # {}
  <2>1. PICK t \in S : S = {t}
    BY Zenon, <1>2
  <2> QED
    BY Zenon, <2>1, FS_Singleton
<1> QED
  BY Zenon, <1>1, <1>2

(***************************************************************************)
(* Every character printed goes out once: for any number of threads and    *)
(* any size of the buffer, lser_write never finds the port busy, the right *)
(* to write exists exactly once, and a busy port has its interrupt coming. *)
(***************************************************************************)
THEOREM OutputIsExact == ConSpec => []OutputExact
<1>1. ConIInv => OutputExact
  <2> SUFFICES ASSUME ConIInv PROVE OutputExact
    BY Zenon
  <2>1. Cardinality(InState({"send"})) = IF InState({"send"}) # {} THEN 1 ELSE 0
    BY Zenon, AtMostOne DEF ConIInv, WriteRight
  <2>2. cs_wsem + Cardinality(InState({"send"})) + (IF ls_wbusy THEN 1 ELSE 0)
          + (IF irqh.at = "start" THEN 1 ELSE 0) = 1
    BY <2>1 DEF ConIInv, WriteRight
  <2>3. ls_wbusy /\ ls_lock = NoThread => tx \/ Interrupting(wirq)
    BY Zenon DEF ConIInv, PortOK, Interrupting
  <2>4. ls_lock = NoThread => "ENABLE" \in wirq
    BY Zenon DEF ConIInv, PortOK
  <2> QED
    BY Zenon, <2>2, <2>3, <2>4 DEF ConIInv, OutputExact
<1> QED
  BY <1>1, ConInvariance, PTL

(***************************************************************************)
(* Every character typed is handed out once, in order: the ring holds      *)
(* exactly the characters not yet handed out, and the semaphore with its   *)
(* takers and its pending V counts them.                                   *)
(***************************************************************************)
THEOREM InputIsExact == ConSpec => []InputExact
<1>1. ConIInv => InputExact
  <2> SUFFICES ASSUME ConIInv PROVE InputExact
    BY Zenon
  <2>1. \A t, u \in InState({"getch", "getch_tail"}) : t = u
    BY Zenon, OneReader DEF InState, ReadStates
  <2>2. Cardinality(InState({"getch", "getch_tail"})) = IF InState({"getch", "getch_tail"}) # {} THEN 1 ELSE 0
    BY Zenon, <2>1, AtMostOne
  <2> QED
    BY Zenon, <2>2 DEF ConIInv, RingOK, InputExact
<1> QED
  BY <1>1, ConInvariance, PTL
=============================================================================
