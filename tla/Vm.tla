--------------------------------- MODULE Vm ---------------------------------
(***************************************************************************)
(* User programs in memory: runprogram, load_elf, the address spaces and   *)
(* page faults of dumbvm.c, the memory they take from ram.c, and the TLB   *)
(* of each CPU, which no entry tells which process it belongs to, under    *)
(* context switches and migration.  A process has one thread and goes by   *)
(* its name; kernel threads have no address space.                         *)
(***************************************************************************)
EXTENDS Integers, FiniteSets, Sequences

CONSTANTS VmCpus,
          Progs,            \* threads of user programs
          Menu,             \* the kernel's menu thread
          Strays,           \* threads of a kernel test that have yet to exit, a bound
          VM_PAGE,          \* PAGE_SIZE
          USERSTACK,        \* page number of the end of user space
          DUMBVM_STACKPAGES, NUM_TLB,
          lastframe,        \* frames of RAM; frame 0 holds the exception vectors
          WORDFRAMES,       \* pages in 2^32 bytes, where addresses and sizes wrap
          Images            \* executables: sequences of segments to load

ASSUME VmAssumption ==
    /\ VM_PAGE \in Nat \ {0} /\ lastframe \in Nat \ {0} /\ NUM_TLB \in Nat \ {0}
    /\ DUMBVM_STACKPAGES \in Nat \ {0} /\ USERSTACK \in Nat /\ Strays \in Nat
    /\ Menu \notin Progs /\ "idle" \notin Progs \cup {Menu}
    /\ DUMBVM_STACKPAGES <= USERSTACK
    /\ WORDFRAMES \in Nat /\ lastframe + USERSTACK < WORDFRAMES     \* ram_bootstrap keeps 508 MB of RAM

(***************************************************************************)
(* The executables: any number of segments, in page 0 or empty if the file *)
(* says so, but in user space.  load_elf does not check that; the sizes of *)
(* other segments wrap in as_define_region and ram_stealmem, and nothing   *)
(* is claimed for them.                                                    *)
(***************************************************************************)
ASSUME UserSpaceAssumption ==
    \A img \in Images :
        /\ img \in Seq([vaddr : Nat, memsz : Nat])
        /\ \A k \in 1 .. Len(img) : img[k].vaddr + img[k].memsz <= VM_PAGE * USERSTACK

VARIABLES
    firstframe,     \* firstpaddr, in pages
    hasas, as,      \* the processes whose p_addrspace is set, and what it holds
    vcur,           \* CPU: the thread it runs
    prog,           \* thread: where it is
    strays,         \* threads of the kernel test that are still there
    tlb,            \* CPU: its valid entries <<page, frame>>
    vmbad           \* a process got a second address space, or a page a second entry

vmVars == <<firstframe, hasas, as, vcur, prog, strays, tlb, vmbad>>

VmIdle == "idle"
VmThreads == Progs \cup {Menu}

as_create == [vbase1 |-> 0, pbase1 |-> 0, npages1 |-> 0, vbase2 |-> 0, pbase2 |-> 0, npages2 |-> 0,
              stackpbase |-> 0]

VmInit ==
    /\ firstframe = 1
    /\ hasas = {} /\ as = [p \in Progs |-> as_create]
    /\ vcur = [c \in VmCpus |-> VmIdle]      \* the menu waits for a command
    /\ prog = [t \in VmThreads |-> [at |-> IF t = Menu THEN "kernel" ELSE "none"]]
    /\ strays = Strays /\ tlb = [c \in VmCpus |-> {}] /\ vmbad = FALSE

\* The menu, the test's threads and the programs' threads that have not exited.
thread_count == 1 + strays + Cardinality({t \in Progs : prog[t].at \notin {"none", "gone"}})

\* as_activate, for the thread t that c runs (or is about to run).
as_activate(c, t) ==
    tlb' = IF t \in hasas THEN [tlb EXCEPT ![c] = {}] ELSE tlb

-----------------------------------------------------------------------------
\* The menu starts a program: its process, then its thread with a page of
\* kernel stack; then it waits for the thread count to be what it was.
common_prog(c, t, img) ==
    /\ vcur[c] = Menu /\ prog[Menu].at = "kernel" /\ prog[t].at = "none"
    /\ IF firstframe < lastframe
       THEN /\ firstframe' = firstframe + 1
            /\ prog' = [prog EXCEPT ![t] = [at |-> "new", img |-> img],
                                    ![Menu] = [at |-> "wait", tc |-> thread_count]]
       ELSE prog' = [prog EXCEPT ![t].at = "gone"] /\ UNCHANGED firstframe
    /\ UNCHANGED <<hasas, as, vcur, strays, tlb, vmbad>>

\* Another thread's exit ends the wait as well, and the next program may join
\* one that still runs.
thread_wait_for_count(c) ==
    /\ vcur[c] = Menu /\ prog[Menu].at = "wait" /\ prog[Menu].tc = thread_count
    /\ prog' = [prog EXCEPT ![Menu] = [at |-> "kernel"]]
    /\ UNCHANGED <<firstframe, hasas, as, vcur, strays, tlb, vmbad>>

stray_exit ==
    /\ strays > 0 /\ strays' = strays - 1
    /\ UNCHANGED <<firstframe, hasas, as, vcur, prog, tlb, vmbad>>

\* Bug for the checks: the TLB is left as it is.
NoActivate(c, t) == UNCHANGED tlb

\* What thread_switch and thread_startup end with.
SwitchActivate(c, t) == as_activate(c, t)

\* A CPU turns to a thread that no CPU runs; the menu sleeps while it waits.
vm_switch(c, next) ==
    /\ \A d \in VmCpus : next # vcur[d]
    /\ prog[next].at \notin {"none", "gone"}
    /\ prog[next].at = "wait" => prog[next].tc = thread_count
    /\ vcur' = [vcur EXCEPT ![c] = next]
    /\ SwitchActivate(c, next)
    /\ UNCHANGED <<firstframe, hasas, as, prog, strays, vmbad>>

-----------------------------------------------------------------------------
\* runprogram.
runprogram(c) ==
    LET t == vcur[c]
    IN  /\ t \in Progs /\ prog[t].at = "new"
        /\ \/ /\ hasas' = hasas \cup {t} /\ as' = [as EXCEPT ![t] = as_create]
              /\ prog' = [prog EXCEPT ![t].at = "setas"]
           \/ prog' = [prog EXCEPT ![t] = [at |-> "fail"]] /\ UNCHANGED <<hasas, as>>
        /\ vmbad' = (vmbad \/ t \in hasas)
        /\ UNCHANGED <<firstframe, vcur, strays, tlb>>

runprogram_activate(c) ==
    LET t == vcur[c]
    IN  /\ t \in Progs /\ prog[t].at = "setas"
        /\ as_activate(c, t)
        /\ prog' = [prog EXCEPT ![t] = [at |-> "define", img |-> @.img, k |-> 1]]
        /\ UNCHANGED <<firstframe, hasas, as, vcur, strays, vmbad>>

\* The pages of a segment, as as_define_region aligns it in 32 bits.
RegionBase(seg) == seg.vaddr \div VM_PAGE
RegionPages(seg) ==
    ((seg.memsz + (seg.vaddr % VM_PAGE) + VM_PAGE - 1) % (VM_PAGE * WORDFRAMES)) \div VM_PAGE

\* A region with base 0 is taken for a free one.
as_define_region(a, seg) ==
    IF a.vbase1 = 0 THEN [a EXCEPT !.vbase1 = RegionBase(seg), !.npages1 = RegionPages(seg)]
    ELSE [a EXCEPT !.vbase2 = RegionBase(seg), !.npages2 = RegionPages(seg)]

\* load_elf up to as_prepare_load, a segment at a time: a read may fail, and
\* two regions is all.
load_elf_define(c) ==
    LET t == vcur[c]
        q == prog[t]
    IN  /\ t \in Progs /\ q.at = "define"
        /\ \/ /\ q.k = 1 \/ q.k <= Len(q.img)
              /\ prog' = [prog EXCEPT ![t] = [at |-> "fail"]] /\ UNCHANGED as
           \/ /\ q.k <= Len(q.img) /\ 0 \in {as[t].vbase1, as[t].vbase2}
              /\ as' = [as EXCEPT ![t] = as_define_region(@, q.img[q.k])]
              /\ prog' = [prog EXCEPT ![t].k = @ + 1]
           \/ /\ q.k > Len(q.img)
              /\ prog' = [prog EXCEPT ![t] = [at |-> "prepare", img |-> q.img, k |-> 1]] /\ UNCHANGED as
        /\ UNCHANGED <<firstframe, hasas, vcur, strays, tlb, vmbad>>

\* The k-th call of getppages in as_prepare_load; the sum is one of 32 bits.
as_prepare_load(c) ==
    LET t == vcur[c]
        q == prog[t]
        n == CASE q.k = 1 -> as[t].npages1 [] q.k = 2 -> as[t].npages2 [] OTHER -> DUMBVM_STACKPAGES
        top == (firstframe + n) % WORDFRAMES
    IN  /\ t \in Progs /\ q.at = "prepare"
        /\ IF top > lastframe
           THEN prog' = [prog EXCEPT ![t] = [at |-> "fail"]] /\ UNCHANGED <<as, firstframe>>
           ELSE /\ firstframe' = top
                /\ as' = [as EXCEPT ![t] = CASE q.k = 1 -> [@ EXCEPT !.pbase1 = firstframe]
                                              [] q.k = 2 -> [@ EXCEPT !.pbase2 = firstframe]
                                              [] OTHER -> [@ EXCEPT !.stackpbase = firstframe]]
                /\ prog' = [prog EXCEPT ![t] = IF q.k < 3 THEN [q EXCEPT !.k = @ + 1]
                                               ELSE [at |-> "load", img |-> q.img]]
        /\ UNCHANGED <<hasas, vcur, strays, tlb, vmbad>>

\* load_segment done, or its read failed.
load_elf_done(c) ==
    LET t == vcur[c]
    IN  /\ t \in Progs /\ prog[t].at = "load"
        /\ \/ prog' = [prog EXCEPT ![t].at = "user"]
           \/ prog' = [prog EXCEPT ![t] = [at |-> "fail"]]
        /\ UNCHANGED <<firstframe, hasas, as, vcur, strays, tlb, vmbad>>

\* The thread of a program that could not be loaded exits.
thread_exit(c) ==
    LET t == vcur[c]
    IN  /\ t \in Progs /\ prog[t].at = "fail"
        /\ prog' = [prog EXCEPT ![t] = [at |-> "gone"]]
        /\ vcur' = [vcur EXCEPT ![c] = VmIdle]
        /\ UNCHANGED <<firstframe, hasas, as, strays, tlb, vmbad>>

-----------------------------------------------------------------------------
\* Where vm_fault maps a page, or 0.
InRegion(page, base, n) == page >= base /\ page < (base + n) % WORDFRAMES
Translate(a, page) ==
    IF InRegion(page, a.vbase1, a.npages1) THEN page - a.vbase1 + a.pbase1
    ELSE IF InRegion(page, a.vbase2, a.npages2) THEN page - a.vbase2 + a.pbase2
    ELSE IF InRegion(page, USERSTACK - DUMBVM_STACKPAGES, DUMBVM_STACKPAGES)
         THEN page - (USERSTACK - DUMBVM_STACKPAGES) + a.stackpbase
         ELSE 0

\* vm_fault cannot help: loading fails, a program in user mode takes the system down.
EFAULT(at) == [at |-> IF at = "load" THEN "fail" ELSE "panic"]

VmAsserts(a) == 0 \notin {a.vbase1, a.pbase1, a.npages1, a.vbase2, a.pbase2, a.npages2, a.stackpbase}

\* The pages that loading may touch: load_segment copies the file's part.
Touches(img, page) ==
    \E k \in 1 .. Len(img) : \E b \in img[k].vaddr .. img[k].vaddr + img[k].memsz - 1 : b \div VM_PAGE = page

\* A program, or the kernel loading it, touches a page the TLB does not hold.
\* An assertion stops the system, and so does a program that leaves its space;
\* loading fails there.
vm_fault(c, page) ==
    LET t == vcur[c]
        q == prog[t]
    IN  /\ t \in Progs /\ q.at \in {"load", "user"}
        /\ q.at = "load" => Touches(q.img, page)
        /\ \A e \in tlb[c] : e[1] # page
        /\ prog' = [prog EXCEPT ![t] =
                        IF ~VmAsserts(as[t]) THEN [at |-> "panic"]
                        ELSE IF Translate(as[t], page) = 0 THEN EFAULT(q.at)
                        ELSE [at |-> "fault", img |-> q.img, back |-> q.at, page |-> page,
                              frame |-> Translate(as[t], page)]]
        /\ UNCHANGED <<firstframe, hasas, as, vcur, strays, tlb, vmbad>>

\* With interrupts off: the first free slot, if there is one.
vm_fault_tlb(c) ==
    LET t == vcur[c]
        q == prog[t]
    IN  /\ t \in Progs /\ q.at = "fault"
        /\ IF Cardinality(tlb[c]) < NUM_TLB
           THEN /\ tlb' = [tlb EXCEPT ![c] = @ \cup {<<q.page, q.frame>>}]
                /\ vmbad' = (vmbad \/ \E e \in tlb[c] : e[1] = q.page)
                /\ prog' = [prog EXCEPT ![t] = [at |-> q.back, img |-> q.img]]
           ELSE /\ prog' = [prog EXCEPT ![t] = EFAULT(q.back)]
                /\ UNCHANGED <<tlb, vmbad>>
        /\ UNCHANGED <<firstframe, hasas, as, vcur, strays>>

VmNext ==
    /\ \A t \in Progs : prog[t].at # "panic"        \* panic stops every CPU
    /\ \/ stray_exit
       \/ \E c \in VmCpus :
            \/ \E t \in Progs, img \in Images : common_prog(c, t, img)
            \/ \E next \in VmThreads : vm_switch(c, next)
            \/ \E page \in 0 .. USERSTACK - 1 : vm_fault(c, page)
            \/ thread_wait_for_count(c) \/ runprogram(c) \/ runprogram_activate(c) \/ load_elf_define(c)
            \/ as_prepare_load(c) \/ load_elf_done(c) \/ thread_exit(c) \/ vm_fault_tlb(c)

VmSpec == VmInit /\ [][VmNext]_vmVars

-----------------------------------------------------------------------------
\* The frames of an address space that as_prepare_load has got so far.
Frames(a) ==
    (IF a.pbase1 # 0 THEN a.pbase1 .. a.pbase1 + a.npages1 - 1 ELSE {})
    \cup (IF a.pbase2 # 0 THEN a.pbase2 .. a.pbase2 + a.npages2 - 1 ELSE {})
    \cup (IF a.stackpbase # 0 THEN a.stackpbase .. a.stackpbase + DUMBVM_STACKPAGES - 1 ELSE {})

\* What dumbvm can run: two segments, neither of them empty or in page 0.
Supported(img) == Len(img) = 2 /\ \A k \in 1 .. 2 : img[k].vaddr >= VM_PAGE /\ img[k].memsz > 0

(***************************************************************************)
(* A program reaches its own memory and nothing else, whatever its thread  *)
(* is preempted by and wherever it goes on: the TLB of a CPU that runs it  *)
(* maps pages of its address space only, each once, to the frame that      *)
(* vm_fault gives it and that as_prepare_load took for it; no frame serves *)
(* two processes or the kernel.  Of an executable that dumbvm supports     *)
(* every byte of every segment is mapped, and vm_fault's assertions hold;  *)
(* for any other they may fail, which stops the system.                    *)
(***************************************************************************)
ProgramsIsolated ==
    /\ ~vmbad
    /\ \A c \in VmCpus : vcur[c] \in Progs /\ prog[vcur[c]].at \in {"load", "user", "fault"} =>
         \A e \in tlb[c] : Translate(as[vcur[c]], e[1]) = e[2] /\ e[2] \in Frames(as[vcur[c]])
    /\ \A p \in Progs : Frames(as[p]) \subseteq 1 .. firstframe - 1
    /\ \A p, q \in Progs : p # q => Frames(as[p]) \cap Frames(as[q]) = {}
    /\ \A p \in Progs : prog[p].at \in {"load", "user"} /\ Supported(prog[p].img) =>
         /\ VmAsserts(as[p])
         /\ \A k \in 1 .. 2 :
              LET seg == prog[p].img[k]
              IN  \A b \in seg.vaddr .. seg.vaddr + seg.memsz - 1 :
                      Translate(as[p], b \div VM_PAGE) \in Frames(as[p])

-----------------------------------------------------------------------------
(***************************************************************************)
(* An inductive invariant behind it.  An address space is empty until its  *)
(* regions are defined, and then gets its frames region by region; from    *)
(* as_activate on the TLB of the CPU that runs the program is empty or the *)
(* program's own, since every switch to it empties the TLB again.          *)
(***************************************************************************)
Loaded == {"load", "user", "fault"}

ProgType(q) ==
    \/ q \in [at : {"none", "gone", "fail", "panic"}]
    \/ q \in [at : {"new", "setas", "load", "user"}, img : Images]
    \/ q \in [at : {"define"}, img : Images, k : Nat \ {0}]
    \/ q \in [at : {"prepare"}, img : Images, k : 1 .. 3]
    \/ q \in [at : {"fault"}, img : Images, back : {"load", "user"}, page : 0 .. USERSTACK - 1, frame : Int]

AsType == [vbase1 : Nat, pbase1 : Nat, npages1 : 0 .. USERSTACK,
           vbase2 : Nat, pbase2 : Nat, npages2 : 0 .. USERSTACK, stackpbase : Nat]

\* The regions up to the k-th are those of the executable, and the others free.
RegionsOf(a, img, k) ==
    /\ k = 0 => a.vbase1 = 0
    /\ k >= 1 => a.vbase1 = RegionBase(img[1]) /\ a.npages1 = RegionPages(img[1])
    /\ k < 2 => a.vbase2 = 0
    /\ k >= 2 => a.vbase2 = RegionBase(img[2]) /\ a.npages2 = RegionPages(img[2])

\* What a program's address space holds, by where its thread is.
AsOK(t) ==
    LET q == prog[t]  a == as[t]
    IN  /\ q.at \in {"none", "new"} => t \notin hasas
        /\ q.at \in {"setas", "define", "prepare"} \cup Loaded => t \in hasas
        /\ q.at \in {"none", "new", "setas"} => a = as_create
        /\ q.at = "define" =>
             /\ a.pbase1 = 0 /\ a.pbase2 = 0 /\ a.stackpbase = 0
             /\ Supported(q.img) => RegionsOf(a, q.img, q.k - 1)
        /\ q.at \in {"prepare"} \cup Loaded /\ Supported(q.img) => RegionsOf(a, q.img, 2)
        /\ q.at = "prepare" =>
             /\ a.pbase1 = 0 <=> q.k = 1
             /\ a.pbase2 = 0 <=> q.k < 3
             /\ a.stackpbase = 0
        /\ q.at \in Loaded => a.pbase1 > 0 /\ a.pbase2 > 0 /\ a.stackpbase > 0
        /\ q.at = "fault" => q.frame = Translate(a, q.page) /\ q.frame \in Frames(a)

\* What the TLB of a CPU that runs a program holds.
TlbOK(c) ==
    LET t == vcur[c]  q == prog[vcur[c]]
    IN  vcur[c] \in Progs =>
            /\ q.at \in {"define", "prepare"} => tlb[c] = {}
            /\ q.at \in Loaded => \A e \in tlb[c] : Translate(as[t], e[1]) = e[2] /\ e[2] \in Frames(as[t])
            /\ q.at = "fault" => \A e \in tlb[c] : e[1] # q.page

VmIInv ==
    /\ firstframe \in 1 .. lastframe /\ ~vmbad
    /\ as \in [Progs -> AsType]
    /\ vcur \in [VmCpus -> VmThreads \cup {VmIdle}] /\ tlb = [c \in VmCpus |-> tlb[c]]
    /\ prog = [t \in VmThreads |-> prog[t]]
    /\ \A t \in Progs : ProgType(prog[t]) /\ AsOK(t)
    /\ \A p \in Progs : Frames(as[p]) \subseteq 1 .. firstframe - 1
    /\ \A p, q \in Progs : p # q => Frames(as[p]) \cap Frames(as[q]) = {}
    /\ \A c, d \in VmCpus : vcur[c] = vcur[d] /\ vcur[c] # VmIdle => c = d
    /\ \A c \in VmCpus : TlbOK(c)
=============================================================================
