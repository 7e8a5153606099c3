# OS/161 kernel: TLA+ models, checks and proofs

TLA+ specifications of parts of the OS/161 kernel in this repository, TLC
configurations that check them on small instances, and TLAPS proofs of some of
their properties for instances of any size.

## The system and its parts

The kernel runs on a multiprocessor with one run queue per CPU. Threads are
switched by `thread_switch`, sleep on wait channels, and are moved between CPUs
by `thread_consider_migration` on clock ticks. Semaphores and locks are built
from a spinlock and a wait channel. CPUs signal each other with interprocessor
interrupts. File systems (SFS, semfs, emufs) sit under a VFS layer whose
operations run under one recursive lock, `vfs_biglock`. Device drivers on the
LAMEbus call `V` from interrupt handlers on CPU 0. The kernel heap takes pages
from `dumbvm`, which also gives each user program its memory and fills the TLBs
of the CPUs. The menu thread starts programs, mounts volumes and shuts down;
`sfsck` mends a volume after a crash. `PROJECT.json` lists all parts with their
sources and what is modelled of each.

| Module | Code | State and actions |
| --- | --- | --- |
| `ThreadList` | `kern/thread/threadlist.c` | lists as sequences; the operations `thread.c` uses |
| `AbstractSemaphore` | `kern/include/synch.h` | what P and V promise |
| `Semaphore` | P and V in `kern/thread/synch.c` | `sem_count`, `sem_lock`, `sem_wchan`, one `pc` per caller; one action per section between spinlock operations |
| `Lock` | `lock_acquire`, `lock_release` | the same code on `lock_count`, so an instance of `Semaphore`, plus the ghost `holder` |
| `BigLock` | `kern/vfs/vfslist.c`, `lock_do_i_hold` | `vfs_biglock`, its depth, nesting of operations |
| `Sched` | `kern/thread/thread.c`, `cpu_idle`, `timerclock` | per-CPU run queue, current thread, idle flag, zombies; wait channels; interrupt line; `act`, what each CPU is doing |
| `Migration` | `thread_consider_migration`, `hardclock` | its local variables in `mig`; one action per lock section |
| `Threads` | `thread_fork`, `thread_exit`, `thread_start_cpus`, `cpu_hatch`, `common_prog`, `clocksleep` | where each thread is (`pc`), `thread_count`; the next-state relation of `Sched` and `Migration` together |
| `SemFS` | `kern/fs/semfs`, `vnode_decref` | the directory, the semaphore table, vnode reference counts, who holds which lock; one action per section between lock operations |
| `Spl` | `spl.c`, `spinlock.c`, `mips_trap`, the interrupt side of `thread_switch`, `thread_startup`, `thread_fork` | `t_curspl`, `t_iplhigh_count`, `c_spinlocks`, the processor's enable bit (`irq`), who holds which spinlock, where each thread is; one action per step between which an interrupt or another CPU may come |
| `SfsDisk` | `kern/sfs.h`, `mksfs` | what a block can hold, how files and directories are read from blocks |
| `SFS` | `kern/fs/sfs` | every routine as an operator from state record to state record, one device operation at a time |
| `Sfsck` | `userland/sbin/sfsck` | its three passes and the free map, likewise |
| `Volume` | `SFS` and `Sfsck` together, `vfs_open` and the like, `vnode_decref` | a volume through mount, operations of threads, I/O errors, crashes, checks; ghost `want` (what files should read as) and `stable` (what a sync made safe) |
| `Vfs` | `vfslist.c`, `vfslookup.c`, `vfscwd.c`, `vnode.c`, `proc.c`, `shutdown` | the device table, vnode reference counts, current directories, `bootfs_vnode`; one action per command of the menu |
| `Lhd` | `dev/lamebus/lhd.c` | the disk's registers and buffer, `lh_clear`, `lh_done`; `lhd_io` a sector at a time |
| `Console` | `dev/generic/console.c`, `dev/lamebus/lser.c`, `lamebus_interrupt`, `kprintf`'s choice of path | the port, `ls_wbusy`, the semaphores, the input ring |
| `Kmalloc` | `kern/vm/kmalloc.c`, `alloc_kpages` | pages of blocks, page references and their lists, the roots; an allocation in up to five steps |
| `Vm` | `dumbvm.c`, `ram.c`, `loadelf.c`, `runprogram.c`, `common_prog`, the TLB side of `thread_switch` | address spaces, frames given out, a TLB per CPU; programs load, fault, switch and move between CPUs |
| `Millicode` | `common/gcc-millicode` | 64-bit arithmetic from half words; division one quotient digit a step |
| `Ipi` | `ipi_send`, `ipi_broadcast`, `interprocessor_interrupt`, `sys_reboot` | pending codes, interrupt line, the thread that shuts down |

Modules named `MC...` instantiate these for TLC; modules named `...Proofs` hold
theorems. Definitions whose names or comments say "Bug for the checks" are wrong
on purpose: each replaces the definition after it to show that a property can
fail (`mutants` in `PROJECT.json`).

### Granularity

A step is what one CPU does between acquiring and releasing a spinlock. What
such a section touches is protected by the lock, so no other CPU sees its
inside, and interrupts are off on the CPU itself. A spinlock is a variable where
it stays held across steps: `sem_lock` in `Semaphore`, a channel's lock while
`wchan_wakeall` puts threads on run queues one by one, a remote run queue's lock
while migration fills the queue. Values the code reads outside the lock that
protects them are separate steps or separate state: `tgt` is the `t_cpu` read by
`thread_make_runnable` before it locks the queue, `ExitLook` is the unlocked
test of `thread_count` in `thread_exit`, `mig` holds the counts migration
collects queue by queue. `SemFS` does the same with sleep locks: `sems_linked` and
`sems_hasvnode` are read and written under different locks, so `semfs_remove` and
`semfs_reclaim` write one and read the other in separate steps. Faults that stop
the kernel are the values of `fault`, and all four are reached: a NULL directory entry
followed, a creation that reports success without a vnode, the assertion on
`lock_do_i_hold` in `semfs_sem_insert` by any thread but the lock's creator, and an
unlink that finds the semaphore it unlinks destroyed.

`thread_switch` puts a thread on a wait channel and switches away from it in one step: it
holds its CPU's run queue lock meanwhile, and a waker needs that lock to queue the thread.

`SFS` and `Sfsck` are operators from state record to state record. A call of `Volume` is a
sequence of sections, the stretches of it that hold `vfs_biglock` or a vnode's
`vn_countlock`: `vfs_rename` is two `vfs_lookparent`s, `sfs_rename` and two
`vnode_decref`s, the last of which may add `sfs_reclaim`. One section is one step; what is left
of each call under way is in the bag `calls`, and sections of other calls come in between.
The record a section works on collects every state the disk goes through, and a crash
may leave any of them.

A fault is the number of the device operation that fails in a section. A read fails for
good (ten retries are one failure). A write that fails is lost: `lhd_io` has moved the data
out of the `uio`, so the retry of `sfs_rwblock` transfers nothing and returns success. `lost_write`
below shows what that means for a mounted volume; the other properties of a mounted
volume are about behaviours without a lost write, and `SyncedFilesSurvive` and those of
`sfsck` also about crashes in the section that lost one.

`Vfs` leaves open what a
file system answers: any lookup or reclaim may fail. `Volume`, `Vfs` and `Vm` take
`vfs_biglock` to work; `biglock` below shows that, as the code stands, it does not.
`Kmalloc` and `Console` release and retake their locks where the code does.
`Spl` goes below the sections under spinlocks that the other modules take as one step;
its theorem is what makes those sections safe from interrupts. In it user mode is
code that makes no calls, traps nest to any depth, and which thread is ready is left
open. In `Vm` the menu waits in `thread_wait_for_count`, and the exit of any other
thread (`stray_exit`, a thread a kernel test left behind) ends that wait, so two
programs can run at once.

`Semaphore` models P and V with the scheduler reduced to "a woken thread runs
again"; `Threads` models the scheduler with P and V reduced to one step each.
`ReadyRuns` of `Threads` is what justifies the fairness of `Semaphore` and `Lock`.

## What the runs check

| Run | Instance | Shows |
| --- | --- | --- |
| `synch`, semaphore part | 3 threads, 1 handler, count 0..3 | `NoLostWakeup`: while threads sleep there are no more units than threads awake to take them or a wakeup due. `QueueInv`: channel, spinlock and callers agree. `AbsSpec`: P and V implement `AbstractSemaphore`. `WakeupHonoured`: units and sleepers do not stay together. |
| `synch`, lock part | 3 threads, count 0..2 | `MutualExclusion`; `SomebodyGets`: a lock that threads wait for is handed on; `LockIInv`, the inductive invariant of the proof |
| `synch`, interrupts part | 3 CPUs | `StopSticks`: a stop request stays pending and only a CPU asked to stop halts. `StopTaken`: one whose interrupt is up is obeyed. |
| `threads` | 2 CPUs, 3 threads; menu, fork, exit | `OnePlace`: every thread is running on one CPU or on exactly one list, the one its state calls for. `RunqueueCpu`: ready threads are on the queue of their `t_cpu`. `NoLostUnidle`: a waiting CPU with a ready thread has an interrupt coming. `ReadyRuns`: a ready thread runs. |
| `migration` | 2 CPUs, 4 threads; fork, clocksleep | `OnePlace`, `CurthreadInv`: the current thread, also of an idle CPU, belongs to it and is not freed. `MigrationFits`: migration takes nothing from an empty list. `MovesOnlyReady`: `t_cpu` changes only while a thread is ready and nowhere current. |
| `semfs` | 3 processes, 2 names, 3 places for semaphores, count 0..1 | Up to the first fault: `RefcountExact`: a vnode's count is the number of its users. `SemaphoresStay`: a semaphore that is open, or whose number an operation has in hand, stays in the table, and the assertions of `semfs_getvnode` and `semfs_remove` hold. `NoLeak`: at rest, the semaphores are those linked or open. `NamesUnique`. `NoDeadlock`: locks are taken in one order and given back on every path. |
| `storage`, volume part | 9 blocks of 2 units, 1 direct and 2 indirect blocks a file, 2 names, 4 calls (one begun during another counts twice), 1 I/O error, 3 runs of `sfsck` | `MountedSound`: link counts, block use and free map agree in memory whichever read failed and whatever came between two sections. `VnodeRefsExact`: every reference of a vnode has an owner. `ReadsLastWrite`: files read as last written, except what was truncated away. `UnmountLeavesSound`. `SyncedFilesSurvive`: what was synced and not touched since is there after crash and check, also when the section that crashed lost a write. `FsckRepairs`: unless it finds a block in use twice, `sfsck` leaves a sound volume, with nothing allocated in vain but indirect blocks it dropped. `CleanMeansUntouched`: it says clean only of a volume it did not change; without blocks in use twice the third run in a row changes nothing (the second may free the indirect blocks that the first dropped, and add a "." or ".." in a slot that it emptied). |
| `storage`, VFS part | console, emufs and a disk, one further name clash, 1 program | `DirectoriesHeld`: reference counts are exact, and no directory a process or a "/" path starts from goes away. `ShutdownUnmounts`: what stays mounted could not be written or is used by another process. |
| `storage`, disk part | 2 threads, 2 sectors, numbers modulo 3 | `LhdExact`: every sector that is transferred is the one asked for, no request mixes with another, and a request past the end fails, though `sector+len` wraps. |
| `kernel`, heap part | 2 threads, 6 pages, 2 block sizes, pages of 2 references | `HeapSound`: no memory is given out twice, and lists, counts and page references agree, also when `alloc_kpages` fails half way through a call. |
| `kernel`, interrupts part | 2 CPUs, 3 threads, run queue locks and one more | `InterruptStateExact`: interrupts are on exactly when the thread's count says so, and the counts are those of levels and spinlocks. |
| `kernel`, console part | 2 threads, ring of 3 | `OutputExact`: the right to write is never lost or doubled, and a busy port has its interrupt coming, also when polled output comes between. `InputExact`: characters come out in order; only those that find the ring full are dropped. |
| `kernel`, programs part | 2 CPUs, 2 programs, TLBs of 2 entries, 9 frames, addresses of 16 pages; five executables, three of which dumbvm cannot run | `ProgramsIsolated`: every valid TLB entry of a CPU is a page of the program that runs on it, in a frame taken for it, and no frame has two owners; of an executable that dumbvm supports, no assertion fails and every byte has its place. |
| `kernel`, arithmetic part | half words of 3 bits, digits 0, 1, 7 | `QuotientExact`, `WideExact`: results are those of the integers modulo the word, for every shift count of a double word. |
| `boot_count` | 2 CPUs, 3 threads | counterexample to `OnlyMenuCounted` |
| `reboot` | 2 CPUs | counterexample to `RebootStops` |
| `biglock` | the boot thread and another | counterexample to `OneThreadInside` |
| `unlink` | as `semfs` | counterexample to `DestroyedUnheld` |
| `lost_write` | as `storage` | counterexample to `CleanInodesOnDisk` |
| `grow` | as `storage` | counterexample to `GrownReadsZero` |

The parts of `synch`, `storage` and `kernel` do not interact in these runs: `which` picks one
and the others stand still, and each property is about one part.

### Disagreements between code and comments

* `boot_count`: `thread_start_cpus` sets `thread_count` to 1 when all CPUs have
  signalled, claiming that only the boot thread has not exited. A secondary CPU's
  startup thread signals first and exits after; if it tests `thread_count` after
  the assignment, the count becomes 0 with the boot thread alive.
* `reboot`: `shutdown` calls `thread_shutdown` with interrupts on. The calling
  thread can be moved, by migration, to a CPU that has already halted. A second
  cause, in longer behaviours: an interrupt sent between `interprocessor_interrupt`
  and `lamebus_clear_ipi` is cleared unseen, so a CPU asked to stop runs on.
* `biglock`: `lock_thread` names the thread that created the lock, so
  `lock_do_i_hold` is wrong for everybody else and, while another thread holds
  the lock, for the creator. Two threads are then inside the section. A thread
  other than the creator also fails the assertion in `vfs_biglock_release`, and, for the
  same reason, the one on `semfs_tablelock` in `semfs_sem_insert`.
* `unlink`: `semfs_remove` clears `sems_linked` and reads `sems_hasvnode` under
  `sems_lock`; `semfs_reclaim` clears `sems_hasvnode` and reads `sems_linked` under
  `semfs_tablelock`. Overlapping, both find the semaphore unused: the close destroys
  it, with its lock, while the unlink holds that lock and is about to destroy it too.
* `lost_write`: a write that the disk fails is reported as done (see Granularity), so
  `sfs_sync_inode` calls an inode clean that is not on the disk. The comment on
  `sfs_rwblock` says that I/O errors are retried, `fsync.html` that the writes are complete.
* `grow`: `sfs_itrunc` does not clear the rest of the last block, so a file that is cut
  within a block and made longer again shows old data; `ftruncate.html` says zeros.

### Bounds

* `CountMax` (3 and 2): `sem_count` and `lock_count` wrap after it. Three threads
  and one handler can then push the count to the wrap, which is where the
  assertion in V fires.
* `Thread`: three thread structures let one run, one sleep and one be the idle
  CPU's current thread; four are needed for a queue long enough that migration
  sends one thread and skips another.
* `NumCpus` is 2 in the thread runs. Every race here is between a CPU and one
  other; `Ipi` has three, since a broadcast passes over CPUs in order.
* `CountMod`: `thread_count` wraps; one more than there are threads, so a wrap is
  told apart from any legal count.
* `SEMFS_ROOTDIR` is 3 in `SemFS` instead of 2^32 - 1, so that the table gets full:
  two names and an unlinked semaphore still open take three places. `CountMod` is 2
  there: a second unit wraps the count.
* `Calls` chooses what threads do in a run. The runs between them cover all calls.
* `MaxOps`, `MaxFaults`, `MaxHeld`, `MaxCheck` bound a behaviour of `Volume`. Four
  calls are enough for create, write, sync and one that disturbs; a call begun while another is
  under way counts as two (`Cost`), so that two calls overlap and one
  other comes before or after them. Volumes with files in them (`Used`) save calls. The operation that fails
  is any one of a section. `NBLOCKS` is small enough that the volume gets full. `Damaged`
  has volumes no crash leaves: entries out of range, shared blocks, loops of
  directories.
* `LHD_WORD` is one more than the disk has sectors, so sums wrap. `HALF_BITS` is 3: the digits
  0, 1 and 7 reach the add-back and a guess of the quotient that is wrong by two.
* `lastpage` and `lastframe` are such that memory runs out; with two
  references a page and two pages of them, so do page references.
* `CONSOLE_INPUT_BUFFER_SIZE` is 3: full, empty and wrapped around are all different.
* `NUM_TLB` is 2, less than the pages of a program; a full TLB stops the kernel.
* `WORDFRAMES` is 16, the pages of an address word: more than memory and user space together, as
  in the machine, where `ram_bootstrap` keeps 508 MB.
* `Depth` is 2 in `BigLock`: one operation nested in another.

The `migration` run uses symmetry of the two threads that are not boot threads, the
`semfs` run that of the two processes other than the boot thread and of the names;
the `kernel` run that of threads, of programs, and of CPUs with their first threads;
all three check safety only.

### Fairness

* `Semaphore`, `Lock`: a thread inside P or V takes its next step (weak
  fairness), and one that spins for a spinlock gets it if the lock is free again
  and again (strong fairness). In `Lock` a holder also releases.
* `Threads`: a CPU with interrupts off finishes what it does, spinning included;
  an idling CPU that comes out of the wait looks at its queue; clock interrupts
  keep coming on every CPU, since the timer's line stays up until taken. Nothing
  is assumed of threads' programs but that one in the middle of `thread_fork` goes
  on when it has the CPU.
* `Ipi`: CPUs take interrupts that stay up, and the thread in `sys_reboot` goes on
  while its CPU runs.

No run checks for deadlock in TLC's sense: a system with nothing to do, or halted, may
stop. `SomebodyGets`, `NoDeadlock` and `ReadyRuns` say that threads do not wait for ever.

## What is proved

All proofs hold for any number of threads, processes, programs and CPUs, and for any
size of tables, counters, memory and disk. A safety property is proved from an inductive
invariant: it holds initially, every action keeps it, and it implies the property.
TLC found each of these invariants to hold on the instances of the runs before it was proved.

* `ThreadListProofs`: membership, length and absence of duplicates under each list
  operation. The other proofs use these lemmas and not sequences.
* `SemVfsProofs`, semaphores: the inductive invariant is `TypeOK`, `QueueInv`, `PanicInv` and
  `NoLostWakeup`. `NoLostWakeup` alone is not inductive: that a wakeup adds a
  thread to those awake needs `QueueInv` (the head of the channel sleeps), and that
  only one V is between its count and its wakeup needs the spinlock part of it.
  `LosesNoWakeup` and `ChannelExact` follow.
  `Refinement` shows each step of P and V to be a step of `AbstractSemaphore` or to
  leave it unchanged; after a wrap the abstract count is one more than the counter
  can hold and the kernel has stopped.
* `LockVmProofs`, locks: `MutualExclusion` with `HolderPc` (where a holder can be) and
  `Sleepers` (the threads on the channel sleep), together `LockIInv`.
* `SchedProofs`, `ThreadsProofs`: the six safety properties of `Threads`. `OnePlace` counts
  lists and CPUs and is not inductive. The invariant `Inv` (module `ThreadsInv`) instead says that there are
  functions `k` and `x` that give every thread a place, the kind of list and its owner
  (`PlaceInv`): each list of the system is exactly the threads placed there, each once
  (`Lists`), and the state, the CPU and the current threads fit the places (`States`).
  A move of a thread is then a change of `k` and `x` at that thread, and a lemma says once
  for all lists what appending, taking the head or the tail does to such a family. `CpuInv`
  adds what each CPU is doing: the `t_cpu` a waker read is still that of the thread in
  its hand, since a sleeping thread does not move; the counts of `thread_consider_migration`
  are bounds for the queues, since only the CPU itself takes threads off its queue; an
  idle CPU with a queue has an interrupt coming. `ThreadInv` and `BootInv` add where the
  programs of the threads are, above all that `thread_start_cpus` and `cpu_hatch` start each
  CPU once. `CpuFrame` and `Moves` reduce a step to the CPU and the threads it is about.
  `MovesOnlyReady` follows from `Inv` action by action.
* `SemFSProofs`: all five properties of the run `semfs`. In `SemFSInv` the place of a process
  tells which locks it holds (`LocksOK`) and what its locals name (`LocalsOK`), and
  `SlotOK` relates a semaphore to its vnode and its directory entry, also
  while `semfs_creat`, `semfs_remove` or `semfs_reclaim` is half done. `NobodyDeadlocks`
  follows from `LocksOK`: of the processes of a set, one that waits for the innermost lock
  waits for a process outside the set.
* `SplProofs`: `InterruptStateExact`. It is not inductive, since a context switch
  hands the level and the run queue's lock of one thread to another. `SplIInv` adds, for each
  place in the code, which locks are held and at which level it runs (`OwnAt`, `LevelAt`), and
  that a thread switched out, or new, has the level and the count thread_switch expects
  (`OutOK`). `Frame` reduces a step to the CPU that makes it; `Quiet`, `Acquiring` and
  `Releasing` are the three ways counts change; one lemma for each action follows.
* `LockVmProofs`, programs: `ProgramsIsolated`. `VmIInv` adds how far an address space is set up by
  where its program is (`AsOK`), and that from `as_activate` on the TLB of the CPU that runs a
  program is empty or the program's own (`TlbOK`), since every switch empties it. Executables are any
  sequences of segments in user space: empty, in page 0, overlapping, more or fewer than two. The
  frames of a region are its program's own because `getppages` fails when the sum, computed in
  32 bits, passes the end of memory (`Marks`); the bytes of a segment have frames because the page count
  that `as_define_region` computes covers them (`RegionHolds`, `Segment`).
* `SemVfsProofs`, VFS: both properties of `Vfs`. The invariant `VfsInv` says that the count of
  every vnode is the number of its holders (`Counted`), by a general lemma on how such a number
  changes when one process moves its directory (`Moves`), which every command is then reduced
  to; that current directories and `bootfs_vnode` lie on mounted volumes (`Start`); and, for
  shutdown, that every volume `vfs_unmountall` has passed is unmounted or has its reason
  (`DownInv`). The last needs that nothing is held for a program that has not started.
* `DeviceProofs`: for interprocessor interrupts `IpiTypeOK` is inductive and `StopSticks`
  follows for each action. For the disk, `LhdIInv` adds to `LhdExact` how far each call is: one
  that goes on to a second sector lies within the disk, so no later sum wraps. For the
  console, `ConIInv` is stronger than `OutputExact` and `InputExact`: locks are with the threads
  whose place says so, a busy port is about to interrupt, and the ring keeps a free slot for
  a handler that has checked for one.

Assumptions on constants are the named `ASSUME`s of the modules: finitely many
threads and processes, at least one CPU, disjoint threads and handlers, values that stand for
"none" apart from the others; in `Spl` finitely many CPUs and spinlocks, and a thread of its
own for each CPU to start with, as in `Sched`; in `Vfs` finitely many programs, and a table of
devices whose names are not empty and of which those with a file system of their own have no
raw device; a ring of two places at least; a word
that can hold the number of sectors of the disk; `VmAssumption`, that stack, user space and memory
fit the word, and `UserSpaceAssumption`, of which more below.

Only model-checked:

* liveness (`WakeupHonoured`, `SomebodyGets`, `ReadyRuns`, `StopTaken`), which the prover does
  not handle;
* the properties of `Volume`, whose operators on `SFS` and `Sfsck` are recursive, and of
  `Millicode`, whose loops are modelled by recursion;
* `HeapSound` of `Kmalloc`, which has no proof yet.

## What the models take for granted or leave open

* A sector is written as a whole or not at all. Memory does not run out inside SFS.
  One device operation fails at most in a behaviour: `sfs_rename` panics ("Cannot recover")
  on a second failure, while it undoes its work.
* A mounted volume that has lost a write is not followed further, except into a crash in the same
  section. Neither is a block handed out with its old bytes because the write that clears it was
  lost (`stale`): what they would be taken for is open.
* Some of what SFS does is in the model and shapes its properties. A failed reclaim leaves
  the vnode in memory with a reference nobody owns, so that the volume cannot be
  unmounted any more (`lost`). `sfs_sync_vnodes` drops the errors of the vnodes it writes.
  Truncation keeps the block at the new end (`UNSPEC`, and the run `grow`).
* When `sfsck` meets an inode whose indirect block was given to somebody else, it takes the bytes
  there for block numbers: the model lets them be any.
* `sfsck` ends with an unrecoverable error when there is no room for "." in the root,
  which is so on a volume with an empty root directory. An indirect block it drops
  stays allocated until the next run.
* A process the menu started is never destroyed: its current directory keeps a
  volume busy at shutdown. `ShutdownUnmounts` says so.
* `Kmalloc`: no more threads are in `kmalloc` at once than a page holds page references
  (`KmallocAssumption`); 256 or more could make the assertion in `freepageref` fail.
* `Vm`: the segments of an executable end below the user stack's top (`UserSpaceAssumption`).
  `load_elf` does not check that; with other sizes the sums of `as_define_region` and
  `as_prepare_load` wrap, and nothing is claimed. An executable that dumbvm does not support (other
  than two segments, one empty or in page 0) makes `load_elf` fail or an assertion of
  `vm_fault` stop the kernel; a fault outside the address space and a full TLB do the
  same. What a program finds in the memory it is given is not modelled.
* `Console`: readers hold `con_userlock_read`, as in `con_io`. `kgets` takes no lock; only
  the menu calls it, and programs have no system call to read with.

## What is not modelled

`PROJECT.json` gives the reason for every part left out, and lists the hazards of
the code with the properties that cover them.

* `panic` with two CPUs in it. `evil` is read and written without a lock, the second CPU
  goes through the stages with interrupts on and can be halted half way by the
  first one's `IPI_PANIC`: no end state is promised that could be stated.
* emufs. Its table of vnodes is keyed by handles of the host device, and what the
  device answers to a second open of a file is not in the source.
* Condition variables and reader-writer locks, which are empty in this tree, and with
  them the waits of semfs (`cv_wait`).
* `as_copy`, `as_destroy` of a loaded program, swap, directories below the root of an
  SFS volume: nothing calls or makes them.
* The kernel library (bitmap, array, uio), libc's string functions and the bitwise part of
  the compiler support library: sequential functions of their arguments.
* Userland other than `sfsck` and `mksfs`. This kernel has two system calls, `reboot`
  and `__time`; `sbrk` fails, so the user-level `malloc` never has a block to manage.
* Register interfaces of the clock, timer and random device, and boot before the
  console is attached.
