------------------------------ MODULE Console ------------------------------
(***************************************************************************)
(* The console: putch and getch over the serial port (generic/console.c,   *)
(* lamebus/lser.c), the printing paths that call them (con_io, kprintf),   *)
(* and the interrupt that drives them (lamebus_interrupt, routed to the    *)
(* boot CPU only).  The port itself is external.  Semaphores and sleep     *)
(* locks are atomic here; Semaphore and Lock show why that is right.       *)
(***************************************************************************)
EXTENDS Naturals, FiniteSets, Sequences

CONSTANTS ConThreads, CONSOLE_INPUT_BUFFER_SIZE

ASSUME ConsoleAssumption ==
    CONSOLE_INPUT_BUFFER_SIZE \in Nat \ {0, 1} /\ "nobody" \notin ConThreads

VARIABLES
    wirq, rirq,     \* the port's interrupt registers: sets of bits
    tx,             \* a character is on its way out
    rch,            \* the character that came in
    ls_wbusy, ls_lock,
    cs_wsem, cs_rsem, cs_gotchars, cs_head, cs_tail,
    conlock,        \* the sleep locks and the spinlock around whole calls
    con,            \* thread: where it is in its call
    irqh,           \* the interrupt handler of the boot CPU
    fifo,           \* characters taken in and not yet handed out
    conbad          \* a panic, or a character that gets lost

portVars == <<wirq, rirq, tx, rch>>
ringVars == <<cs_rsem, cs_gotchars, cs_head, cs_tail, fifo>>
conVars == <<portVars, ls_wbusy, ls_lock, cs_wsem, ringVars, conlock, con, irqh, conbad>>

NoThread == "nobody"
None == "none"
ConLocks == {"con_userlock_read", "con_userlock_write", "kprintf_lock", "kprintf_spinlock"}
Kinds == {"plain", "newline"}
NoConCall == [at |-> "idle"]
Quiet == [at |-> "none"]

ConInit ==
    /\ wirq = {"ENABLE"} /\ rirq = {"ENABLE"} /\ tx = FALSE /\ rch = None
    /\ ls_wbusy = FALSE /\ ls_lock = NoThread
    /\ cs_wsem = 1 /\ cs_rsem = 0 /\ cs_head = 0 /\ cs_tail = 0
    /\ cs_gotchars = [i \in 0 .. CONSOLE_INPUT_BUFFER_SIZE - 1 |-> None]
    /\ conlock = [l \in ConLocks |-> NoThread]
    /\ con = [t \in ConThreads |-> NoConCall] /\ irqh = Quiet
    /\ fifo = <<>> /\ conbad = FALSE

-----------------------------------------------------------------------------
\* The serial port (external).  A character written while another is on its
\* way is lost; when one is out the ready condition is set.
Transmitted ==
    /\ tx /\ tx' = FALSE /\ wirq' = wirq \cup {"ACTIVE"}
    /\ UNCHANGED <<rirq, rch, ls_wbusy, ls_lock, cs_wsem, ringVars, conlock, con, irqh, conbad>>

Typed(kind) ==
    /\ "ACTIVE" \notin rirq
    /\ rirq' = rirq \cup {"ACTIVE"} /\ rch' = kind
    /\ UNCHANGED <<wirq, tx, ls_wbusy, ls_lock, cs_wsem, ringVars, conlock, con, irqh,
                   conbad>>

Interrupting(reg) == "ENABLE" \in reg /\ {"ACTIVE", "FORCE"} \cap reg # {}

-----------------------------------------------------------------------------
\* con_io and kprintf.  A call prints or reads under its lock; todo counts
\* what putch has still to print.
ConCall(t, l) ==
    /\ con[t].at = "idle" /\ conlock[l] = NoThread
    /\ conlock' = [conlock EXCEPT ![l] = t]
    /\ con' = [con EXCEPT ![t] = [at |-> IF l = "con_userlock_read" THEN "read" ELSE "put",
                                  lk |-> l, todo |-> 0, ch |-> None]]
    /\ UNCHANGED <<portVars, ls_wbusy, ls_lock, cs_wsem, ringVars, irqh, conbad>>

con_io(t) == \E l \in {"con_userlock_read", "con_userlock_write"} : ConCall(t, l)
kprintf(t) == \E l \in {"kprintf_lock", "kprintf_spinlock"} : ConCall(t, l)

Leave(t) ==
    /\ conlock' = [conlock EXCEPT ![con[t].lk] = NoThread]
    /\ con' = [con EXCEPT ![t] = NoConCall]

\* The loops of con_io and console_send: all printed or uiomove failed, or the
\* next character.  con_io prints a return before a newline.
NextChar(t) ==
    LET c == con[t]
    IN  /\ c.at = "put" /\ c.todo = 0
        /\ \/ Leave(t)
           \/ /\ \E n \in (IF c.lk = "con_userlock_write" THEN {1, 2} ELSE {1}) :
                   con' = [con EXCEPT ![t].todo = n]
              /\ UNCHANGED conlock
        /\ UNCHANGED <<portVars, ls_wbusy, ls_lock, cs_wsem, ringVars, irqh, conbad>>

\* putch polls under a spinlock, and uses interrupts otherwise.
putch_intr(t) ==
    LET c == con[t]
    IN  /\ c.at = "put" /\ c.todo > 0 /\ c.lk # "kprintf_spinlock"
        /\ cs_wsem > 0 /\ cs_wsem' = cs_wsem - 1
        /\ con' = [con EXCEPT ![t].at = "send"]
        /\ UNCHANGED <<portVars, ls_wbusy, ls_lock, ringVars, conlock, irqh, conbad>>

lser_write(t) ==
    /\ con[t].at = "send" /\ ls_lock = NoThread
    /\ ls_wbusy' = TRUE
    /\ tx' = TRUE
    /\ conbad' = (conbad \/ ls_wbusy \/ tx)
    /\ con' = [con EXCEPT ![t].at = "put", ![t].todo = @ - 1]
    /\ UNCHANGED <<wirq, rirq, rch, ls_lock, cs_wsem, ringVars, conlock, irqh>>

-----------------------------------------------------------------------------
\* lser_writepolled holds ls_lock while it polls.
lser_writepolled(t) ==
    LET c == con[t]
    IN  /\ c.at = "put" /\ c.todo > 0 /\ c.lk = "kprintf_spinlock" /\ ls_lock = NoThread
        /\ ls_lock' = t
        /\ IF ls_wbusy
           THEN /\ con' = [con EXCEPT ![t].at = "poll"]
                /\ UNCHANGED <<wirq, tx, conbad>>
           ELSE /\ con' = [con EXCEPT ![t].at = "poll_idle"]
                /\ wirq' = {} /\ tx' = TRUE
                /\ conbad' = (conbad \/ tx)
        /\ UNCHANGED <<rirq, rch, ls_wbusy, cs_wsem, ringVars, conlock, irqh>>

\* The character before is out: leave its interrupt asserted.
PollSend(t) ==
    LET c == con[t]
    IN  /\ c.at = "poll" /\ "ACTIVE" \in wirq
        /\ wirq' = {"FORCE", "ENABLE"} /\ tx' = TRUE
        /\ conbad' = (conbad \/ tx)
        /\ con' = [con EXCEPT ![t].at = "poll_busy"]
        /\ UNCHANGED <<rirq, rch, ls_wbusy, ls_lock, cs_wsem, ringVars, conlock, irqh>>

\* Bug for the checks: an interrupt that was pending is dismissed.
Dismiss(c) == {"ENABLE"}

\* What the polled character leaves in the register.
PolledIrq(c) == IF c.at = "poll_idle" THEN {"ENABLE"} ELSE wirq

PollDone(t) ==
    LET c == con[t]
    IN  /\ c.at \in {"poll_idle", "poll_busy"} /\ "ACTIVE" \in wirq
        /\ wirq' = PolledIrq(c)
        /\ ls_lock' = NoThread
        /\ con' = [con EXCEPT ![t].at = "put", ![t].todo = @ - 1]
        /\ UNCHANGED <<rirq, tx, rch, ls_wbusy, cs_wsem, ringVars, conlock, irqh, conbad>>

-----------------------------------------------------------------------------
\* getch, and con_io reading.
getch_intr(t) ==
    LET c == con[t]
    IN  /\ c.at = "read" /\ cs_rsem > 0
        /\ cs_rsem' = cs_rsem - 1
        /\ con' = [con EXCEPT ![t].at = "getch"]
        /\ UNCHANGED <<portVars, ls_wbusy, ls_lock, cs_wsem, cs_gotchars, cs_head, cs_tail, fifo,
                       conlock, irqh, conbad>>

getch_char(t) ==
    /\ con[t].at = "getch"
    /\ con' = [con EXCEPT ![t].at = "getch_tail", ![t].ch = cs_gotchars[cs_tail]]
    /\ UNCHANGED <<portVars, ls_wbusy, ls_lock, cs_wsem, ringVars, conlock, irqh, conbad>>

\* The character counts as handed out once its slot is free again.  A newline
\* ends the read, and so does a failing uiomove or a full buffer.
getch_return(t) ==
    LET c == con[t]
    IN  /\ c.at = "getch_tail"
        /\ cs_tail' = (cs_tail + 1) % CONSOLE_INPUT_BUFFER_SIZE
        /\ conbad' = (conbad \/ fifo = <<>> \/ c.ch # Head(fifo))
        /\ fifo' = Tail(fifo)
        /\ \/ Leave(t)
           \/ /\ c.ch # "newline"
              /\ con' = [con EXCEPT ![t].at = "read", ![t].ch = None]
              /\ UNCHANGED conlock
        /\ UNCHANGED <<portVars, ls_wbusy, ls_lock, cs_wsem, cs_rsem, cs_gotchars, cs_head, irqh>>

-----------------------------------------------------------------------------
\* The bus finds the port's slot asserted; by the time the handler has the
\* port's lock the registers may have changed.
lamebus_interrupt ==
    /\ Interrupting(wirq) \/ Interrupting(rirq)
    /\ irqh.at = "none"
    /\ irqh' = [at |-> "lser"]
    /\ UNCHANGED <<portVars, ls_wbusy, ls_lock, cs_wsem, ringVars, conlock, con, conbad>>

lser_irq ==
    LET w == "ACTIVE" \in wirq
        r == "ACTIVE" \in rirq
    IN  /\ irqh.at = "lser" /\ ls_lock = NoThread
        /\ ls_wbusy' = (ls_wbusy /\ ~w)
        /\ wirq' = IF w THEN {"ENABLE"} ELSE wirq
        /\ rirq' = IF r THEN {"ENABLE"} ELSE rirq
        /\ rch' = IF r THEN None ELSE rch
        /\ irqh' = IF w THEN [at |-> "start", ch |-> rch] ELSE IF r THEN [at |-> "input", ch |-> rch] ELSE Quiet
        /\ UNCHANGED <<tx, ls_lock, cs_wsem, ringVars, conlock, con, conbad>>

con_start ==
    /\ irqh.at = "start"
    /\ cs_wsem' = cs_wsem + 1
    /\ irqh' = IF irqh.ch = None THEN Quiet ELSE [irqh EXCEPT !.at = "input"]
    /\ UNCHANGED <<portVars, ls_wbusy, ls_lock, ringVars, conlock, con, conbad>>

\* Bug for the checks: the slot that tells a full ring from an empty one is used.
UseEverySlot(h) == FALSE

\* con_input drops the character when the ring is full.
InputFull(h) == (h + 1) % CONSOLE_INPUT_BUFFER_SIZE = cs_tail

con_input ==
    /\ irqh.at = "input"
    /\ irqh' = IF InputFull(cs_head) THEN Quiet ELSE [irqh EXCEPT !.at = "store"]
    /\ conbad' = (conbad \/ (InputFull(cs_head) /\ Len(fifo) < CONSOLE_INPUT_BUFFER_SIZE - 1))
    /\ UNCHANGED <<portVars, ls_wbusy, ls_lock, cs_wsem, ringVars, conlock, con>>

con_input_store ==
    /\ irqh.at = "store"
    /\ cs_gotchars' = [cs_gotchars EXCEPT ![cs_head] = irqh.ch]
    /\ cs_head' = (cs_head + 1) % CONSOLE_INPUT_BUFFER_SIZE
    /\ fifo' = Append(fifo, irqh.ch)
    /\ irqh' = [at |-> "wake"]
    /\ UNCHANGED <<portVars, ls_wbusy, ls_lock, cs_wsem, cs_rsem, cs_tail, conlock, con, conbad>>

con_input_wake ==
    /\ irqh.at = "wake"
    /\ cs_rsem' = cs_rsem + 1
    /\ irqh' = Quiet
    /\ UNCHANGED <<portVars, ls_wbusy, ls_lock, cs_wsem, cs_gotchars, cs_head, cs_tail, fifo, conlock,
                   con, conbad>>

ConNext ==
    \/ Transmitted \/ \E kind \in Kinds : Typed(kind)
    \/ lamebus_interrupt \/ lser_irq \/ con_start \/ con_input \/ con_input_store \/ con_input_wake
    \/ \E t \in ConThreads :
         \/ con_io(t) \/ kprintf(t) \/ NextChar(t) \/ putch_intr(t)
         \/ lser_write(t) \/ lser_writepolled(t) \/ PollSend(t) \/ PollDone(t)
         \/ getch_intr(t) \/ getch_char(t) \/ getch_return(t)

ConSpec == ConInit /\ [][ConNext]_conVars

-----------------------------------------------------------------------------
InState(S) == {t \in ConThreads : con[t].at \in S}

(***************************************************************************)
(* Output: the right to write exists exactly once, in cs_wsem, with the    *)
(* thread that took it, in ls_wbusy, or with the handler that gives it     *)
(* back; so lser_write never finds the port busy, no character is written  *)
(* over one on its way.  A busy port always has its interrupt coming,      *)
(* whatever polled output does to the registers meanwhile: otherwise all   *)
(* printing would stop.                                                    *)
(***************************************************************************)
OutputExact ==
    /\ ~conbad
    /\ cs_wsem + Cardinality(InState({"send"})) + (IF ls_wbusy THEN 1 ELSE 0)
         + (IF irqh.at = "start" THEN 1 ELSE 0) = 1
    /\ ls_wbusy /\ ls_lock = NoThread => tx \/ Interrupting(wirq)
    /\ ls_lock = NoThread => "ENABLE" \in wirq

(***************************************************************************)
(* Input: between the interrupt handler and getch, which share the ring    *)
(* without a lock, the ring holds exactly the characters taken in and not  *)
(* yet handed out, in the order they were typed, and cs_rsem counts those  *)
(* nobody has claimed; a character is dropped only when the ring is full.  *)
(***************************************************************************)
InputExact ==
    /\ \A i \in 1 .. Len(fifo) : cs_gotchars[(cs_tail + i - 1) % CONSOLE_INPUT_BUFFER_SIZE] = fifo[i]
    /\ cs_head = (cs_tail + Len(fifo)) % CONSOLE_INPUT_BUFFER_SIZE
    /\ cs_rsem + Cardinality(InState({"getch", "getch_tail"})) + (IF irqh.at = "wake" THEN 1 ELSE 0)
         = Len(fifo)

-----------------------------------------------------------------------------
(***************************************************************************)
(* An inductive invariant behind both.  The locks around a call and the    *)
(* port's lock are with the threads whose state says so; the port is idle, *)
(* or a character is on its way, or its being out shows in the register;   *)
(* the ring has a free slot, kept for a handler that has checked for it.   *)
(***************************************************************************)
PollStates == {"poll", "poll_idle", "poll_busy"}
ReadStates == {"read", "getch", "getch_tail"}
Chars == Kinds \cup {None}
ConRecords == {NoConCall} \cup [at : {"put", "send"} \cup PollStates \cup ReadStates,
                                lk : ConLocks, todo : Nat, ch : Chars]

ConTypeOK ==
    /\ wirq \subseteq {"ENABLE", "ACTIVE", "FORCE"} /\ tx \in BOOLEAN /\ ls_wbusy \in BOOLEAN /\ rch \in Chars
    /\ ls_lock \in ConThreads \cup {NoThread}
    /\ cs_wsem \in Nat /\ cs_rsem \in Nat
    /\ cs_head \in 0 .. CONSOLE_INPUT_BUFFER_SIZE - 1 /\ cs_tail \in 0 .. CONSOLE_INPUT_BUFFER_SIZE - 1
    /\ cs_gotchars \in [0 .. CONSOLE_INPUT_BUFFER_SIZE - 1 -> Chars]
    /\ conlock \in [ConLocks -> ConThreads \cup {NoThread}]
    /\ con \in [ConThreads -> ConRecords]
    /\ irqh \in [at : {"none", "lser", "wake"}] \cup [at : {"start", "input", "store"}, ch : Chars]
    /\ fifo \in Seq(Chars)

\* A thread's locks.
CallLocks(t) ==
    LET c == con[t]
    IN  /\ c.at # "idle" => conlock[c.lk] = t /\ (c.at \in ReadStates <=> c.lk = "con_userlock_read")
        /\ c.at = "send" => c.lk # "kprintf_spinlock" /\ c.todo > 0
        /\ c.at \in PollStates => c.lk = "kprintf_spinlock" /\ c.todo > 0
        /\ ls_lock = t <=> c.at \in PollStates

\* The right to write.
WriteRight ==
    /\ \A t, u \in InState({"send"}) : t = u
    /\ InState({"send"}) # {} => ~ls_wbusy /\ irqh.at # "start"
    /\ ls_wbusy => irqh.at # "start"
    /\ cs_wsem = IF InState({"send"}) # {} \/ ls_wbusy \/ irqh.at = "start" THEN 0 ELSE 1

PortOK ==
    /\ ls_wbusy => "ENABLE" \in wirq /\ (tx <=> "ACTIVE" \notin wirq)
    /\ ~ls_wbusy /\ ls_lock = NoThread => ~tx /\ wirq = {"ENABLE"}
    /\ \A t \in ConThreads :
         /\ con[t].at \in {"poll", "poll_busy"} => ls_wbusy
         /\ con[t].at = "poll_idle" => ~ls_wbusy /\ "ENABLE" \notin wirq /\ (tx <=> "ACTIVE" \notin wirq)

RingOK ==
    /\ Len(fifo) < CONSOLE_INPUT_BUFFER_SIZE
    /\ irqh.at = "store" => Len(fifo) + 1 < CONSOLE_INPUT_BUFFER_SIZE
    /\ \A i \in 1 .. Len(fifo) : cs_gotchars[(cs_tail + i - 1) % CONSOLE_INPUT_BUFFER_SIZE] = fifo[i]
    /\ cs_head = (cs_tail + Len(fifo)) % CONSOLE_INPUT_BUFFER_SIZE
    /\ cs_rsem + (IF InState({"getch", "getch_tail"}) # {} THEN 1 ELSE 0) + (IF irqh.at = "wake" THEN 1 ELSE 0)
         = Len(fifo)
    /\ \A t \in ConThreads : con[t].at = "getch_tail" => con[t].ch = fifo[1]

ConIInv ==
    /\ ConTypeOK /\ ~conbad /\ (\A t \in ConThreads : CallLocks(t)) /\ WriteRight /\ PortOK /\ RingOK
=============================================================================
