------------------------------ MODULE MCKernel ------------------------------
(***************************************************************************)
(* Instances of the parts of the kernel that have no module in common:     *)
(* which picks the one that runs, the others stay in their initial state.  *)
(***************************************************************************)
EXTENDS Kmalloc, Spl, Console, Vm, Millicode, TLC

CONSTANTS c1, c2, s1, s2, s3, t1, t2

VARIABLE which

kernelVars == <<which, heapVars, splVars, conVars, vmVars, mcVars>>

MCsizes == <<4, 6>>
MCBoot == (c1 :> s1) @@ (c2 :> s2)

(* The first program has three pages, so two of them fit in memory; the second
   has a segment across a page boundary.  The others are ones that dumbvm cannot
   run: an empty segment and one in page 0 as large as user space, three segments,
   and three of which the first is in page 0. *)
Seg(v, m) == [vaddr |-> v, memsz |-> m]
MCImages == {<<Seg(3, 1), Seg(4, 2)>>, <<Seg(3, 2), Seg(4, 1)>>, <<Seg(4, 0), Seg(0, 12)>>,
             <<Seg(2, 1), Seg(4, 1), Seg(6, 1)>>, <<Seg(0, 1), Seg(2, 1), Seg(3, 1)>>}

(* Threads and programs are interchangeable, and so are the CPUs, together
   with the threads they start with. *)
Perms == {p \in Permutations({c1, c2, s1, s2, t1, t2}) :
            /\ p[c1] \in {c1, c2} /\ p[c2] \in {c1, c2} /\ p[t1] \in {t1, t2} /\ p[t2] \in {t1, t2}
            /\ p[c1] = c1 <=> p[s1] = s1}

KernelInit ==
  /\ which \in {"kmalloc", "spl", "console", "vm", "millicode"}
  /\ KmallocInit /\ SplInit /\ ConInit /\ VmInit
  /\ IF which = "millicode" THEN MillicodeInit
     ELSE /\ ull = 0 /\ vll = 0 /\ us = Zeros /\ vs = Zeros /\ qs = Zeros
          /\ dv = [at |-> "trap"]

KernelNext ==
  \/ /\ which = "kmalloc" /\ KmallocNext
     /\ UNCHANGED <<which, splVars, conVars, vmVars, mcVars>>
  \/ /\ which = "spl" /\ SplNext
     /\ UNCHANGED <<which, heapVars, conVars, vmVars, mcVars>>
  \/ /\ which = "console" /\ ConNext
     /\ UNCHANGED <<which, heapVars, splVars, vmVars, mcVars>>
  \/ /\ which = "vm" /\ VmNext
     /\ UNCHANGED <<which, heapVars, splVars, conVars, mcVars>>
  \/ /\ which = "millicode" /\ MillicodeNext
     /\ UNCHANGED <<which, heapVars, splVars, conVars, vmVars>>

KernelSpec == KernelInit /\ [][KernelNext]_kernelVars
=============================================================================
