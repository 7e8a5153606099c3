------------------------------- MODULE SemFS -------------------------------
(***************************************************************************)
(* semfs of kern/fs/semfs, the file system whose files are semaphores,     *)
(* with the reference counts of its vnodes (kern/vfs/vnode.c).             *)
(*                                                                         *)
(* Processes create, look up, unlink, close, read and write semaphores     *)
(* under semfs_dirlock, semfs_tablelock and one sems_lock per semaphore.   *)
(* What a lock protects everywhere changes in one step; sems_linked and    *)
(* sems_hasvnode are used under different locks by semfs_remove and        *)
(* semfs_reclaim, which therefore take several steps.  The locks are those *)
(* of Lock; cv_wait of synch.c does nothing.                               *)
(*                                                                         *)
(* A semaphore is named by its place in semfs_sems: while a pointer to it  *)
(* is in use outside semfs_tablelock its place is not given to another.    *)
(* The kernel stops at the first fault.                                    *)
(***************************************************************************)
EXTENDS Naturals, Sequences, FiniteSets, Functions

CONSTANTS Proc,
          Creator,        \* the boot thread, which runs semfs_bootstrap
          Name,
          SEMFS_ROOTDIR,  \* 2^32 - 1 scaled down; here semaphores are 1 .. SEMFS_ROOTDIR
          CountMod,       \* sems_count is unsigned: CountMod is 2^32 scaled down
          NONE

VARIABLES semfs_dents,      \* array of directory entries or NULL
          semfs_sems,       \* array of semaphores or NULL
          vn_refcount,      \* of the semaphore's vnode; 0: none in semfs_vnodes
          semfs_dirlock, semfs_tablelock, sems_lock,   \* who holds them
          pc,
          loc,              \* the locals of the operation in progress
          open,             \* the semaphore whose vnode a process has open
          fault             \* what stopped the kernel

arrays == <<semfs_dents, semfs_sems>>
locks  == <<semfs_dirlock, semfs_tablelock, sems_lock>>
vars   == <<arrays, vn_refcount, locks, pc, loc, open, fault>>

SemNum == 1 .. SEMFS_ROOTDIR
Count  == 0 .. CountMod - 1
Sem    == [sems_count : Count, sems_hasvnode : BOOLEAN, sems_linked : BOOLEAN]
Dent   == [semd_name : Name, semd_semnum : SemNum]

ASSUME SemFSAssumption ==
  /\ IsFiniteSet(Proc) /\ Creator \in Proc
  /\ SEMFS_ROOTDIR \in Nat /\ CountMod \in Nat \ {0}
  /\ NONE \notin Proc \cup SemNum \cup Sem \cup Dent

Pcs    == {"idle", "insert", "creat_getvnode", "lookup_getvnode", "getsembynum", "unlink",
           "hasvnode", "drop", "leave", "reclaim", "linked", "semlock", "read"}
Locs   == {NONE} \cup [name : Name] \cup [semnum : SemNum] \cup [semnum : SemNum, dent : Nat]
          \cup [semnum : SemNum, resid : Count]

TypeOK ==
  /\ semfs_dents \in Seq(Dent \cup {NONE})
  /\ semfs_sems \in Seq(Sem \cup {NONE}) /\ Len(semfs_sems) <= SEMFS_ROOTDIR
  /\ vn_refcount \in [SemNum -> Nat]
  /\ semfs_dirlock \in Proc \cup {NONE} /\ semfs_tablelock \in Proc \cup {NONE}
  /\ sems_lock \in [SemNum -> Proc \cup {NONE}]
  /\ pc \in [Proc -> Pcs]
  /\ loc \in [Proc -> Locs]
  /\ open \in [Proc -> SemNum \cup {NONE}]
  /\ fault \in {"none", "lock_do_i_hold", "unset vnode", "null entry", "destroyed sem"}

(* semfs_create, at boot *)
Init ==
  /\ semfs_dents = <<>> /\ semfs_sems = <<>>
  /\ vn_refcount = [n \in SemNum |-> 0]
  /\ semfs_dirlock = NONE /\ semfs_tablelock = NONE
  /\ sems_lock = [n \in SemNum |-> NONE]
  /\ pc = [p \in Proc |-> "idle"]
  /\ loc = [p \in Proc |-> NONE]
  /\ open = [p \in Proc |-> NONE]
  /\ fault = "none"

(* The semaphore in slot n, and whether the slot has one. *)
Live(n) == n \in DOMAIN semfs_sems /\ semfs_sems[n] # NONE

Goto(p, l) == pc' = [pc EXCEPT ![p] = l]
Locals(p, r) == loc' = [loc EXCEPT ![p] = r]
Return(p) == Goto(p, "idle") /\ Locals(p, NONE)

(* A panic, a failed assertion or a bus error: nothing runs after it. *)
Panic(why) == fault' = why /\ UNCHANGED <<arrays, vn_refcount, locks, pc, loc, open>>
-----------------------------------------------------------------------------
(* Bug for the checks: the search ends at the first hole. *)
BugFound(nm) == {i \in DOMAIN semfs_dents : /\ \A j \in 1 .. i : semfs_dents[j] # NONE
                                           /\ semfs_dents[i].semd_name = nm}

(* The search of creat, remove and lookup: the entry with the name, over the
   holes that remove leaves. *)
Found(nm) == {i \in DOMAIN semfs_dents : semfs_dents[i] # NONE /\ semfs_dents[i].semd_name = nm}

(* The first hole of an array, or the place after its end. *)
FirstHole(s) == IF NONE \in Range(s) THEN CHOOSE i \in DOMAIN s : s[i] = NONE /\ \A j \in 1 .. i - 1 : s[j] # NONE
                ELSE Len(s) + 1

SetOrAdd(s, i, e) == IF i <= Len(s) THEN [s EXCEPT ![i] = e] ELSE Append(s, e)

(* What semfs_creat undoes when it fails after semfs_sem_insert: the slot and
   the entry are left as holes. *)
Uninsert(sems, n) == semfs_sems' = [sems EXCEPT ![n] = NONE]

(* semfs_lookup, and semfs_creat without O_EXCL, of a name that exists. *)
semfs_lookup(p, nm) ==
  /\ pc[p] = "idle" /\ open[p] = NONE /\ semfs_dirlock = NONE
  /\ \E i \in Found(nm) : Locals(p, [semnum |-> semfs_dents[i].semd_semnum])
  /\ semfs_dirlock' = p /\ Goto(p, "lookup_getvnode")
  /\ UNCHANGED <<arrays, vn_refcount, semfs_tablelock, sems_lock, open, fault>>

(* semfs_creat of a new name: the search and semfs_sem_create, when there is memory. *)
semfs_creat(p, nm) ==
  /\ pc[p] = "idle" /\ open[p] = NONE /\ semfs_dirlock = NONE
  /\ Found(nm) = {}
  /\ semfs_dirlock' = p /\ Locals(p, [name |-> nm]) /\ Goto(p, "insert")
  /\ UNCHANGED <<arrays, vn_refcount, semfs_tablelock, sems_lock, open, fault>>

(* Bug for the checks: an error path that keeps semfs_dirlock. *)
BugCreatFails(p) ==
  Return(p) /\ UNCHANGED <<vn_refcount, locks, open, fault>>

(* semfs_creat or semfs_lookup fails, with nothing left behind. *)
CreatFails(p) ==
  /\ semfs_dirlock' = NONE /\ Return(p)
  /\ UNCHANGED <<vn_refcount, semfs_tablelock, sems_lock, open, fault>>

NewSem == [sems_count |-> 0, sems_hasvnode |-> FALSE, sems_linked |-> FALSE]

(* The table has its full length, with holes or without. *)
TooMany == Len(semfs_sems) = SEMFS_ROOTDIR

(* semfs_sem_insert and the directory entry.  The assertion that this thread
   holds semfs_tablelock uses lock_do_i_hold, which knows only the lock's
   creator.  Without memory for the
   entry semfs_creat returns 0, the result of semfs_sem_insert, and no vnode. *)
semfs_sem_insert(p) ==
  LET n == FirstHole(semfs_sems)
      i == FirstHole(semfs_dents)
      sems == SetOrAdd(semfs_sems, n, NewSem)
      entry == [semd_name |-> loc[p].name, semd_semnum |-> n]
  IN /\ pc[p] = "insert" /\ semfs_tablelock = NONE
     /\ \/ p # Creator /\ Panic("lock_do_i_hold")
        \/ /\ p = Creator
           /\ TooMany \/ n = Len(semfs_sems) + 1   \* ENOSPC, ENOMEM
           /\ CreatFails(p) /\ UNCHANGED arrays
        \/ /\ p = Creator /\ ~TooMany
           /\ \/ Panic("unset vnode")
              \/ i = Len(semfs_dents) + 1 /\ CreatFails(p) /\ Uninsert(sems, n) /\ UNCHANGED semfs_dents
              \/ /\ semfs_sems' = sems
                 /\ semfs_dents' = SetOrAdd(semfs_dents, i, entry)
                 /\ Locals(p, [semnum |-> n, dent |-> i]) /\ Goto(p, "creat_getvnode")
                 /\ UNCHANGED <<vn_refcount, locks, open, fault>>

(* semfs_getvnode: another reference, or a new vnode with one. *)
semfs_getvnode(p, n) ==
  /\ vn_refcount' = [vn_refcount EXCEPT ![n] = @ + 1]
  /\ open' = [open EXCEPT ![p] = n]
  /\ semfs_dirlock' = NONE /\ Return(p)
  /\ UNCHANGED <<semfs_dents, semfs_tablelock, sems_lock, fault>>

(* The end of semfs_lookup; without memory for a new vnode it fails. *)
LookupGetvnode(p) ==
  LET n == loc[p].semnum
  IN /\ pc[p] = "lookup_getvnode" /\ semfs_tablelock = NONE
     /\ \/ vn_refcount[n] > 0 /\ semfs_getvnode(p, n) /\ UNCHANGED semfs_sems
        \/ vn_refcount[n] = 0 /\ CreatFails(p) /\ UNCHANGED arrays
        \/ /\ vn_refcount[n] = 0 /\ semfs_getvnode(p, n)
           /\ semfs_sems' = [semfs_sems EXCEPT ![n].sems_hasvnode = TRUE]

(* The end of semfs_creat, with sems_linked or with everything undone. *)
CreatGetvnode(p) ==
  LET n == loc[p].semnum
  IN /\ pc[p] = "creat_getvnode" /\ semfs_tablelock = NONE
     /\ \/ /\ semfs_getvnode(p, n)
           /\ semfs_sems' = [semfs_sems EXCEPT ![n].sems_hasvnode = TRUE, ![n].sems_linked = TRUE]
        \/ /\ CreatFails(p) /\ Uninsert(semfs_sems, n)
           /\ semfs_dents' = [semfs_dents EXCEPT ![loc[p].dent] = NONE]
-----------------------------------------------------------------------------
(* semfs_remove: the search, semfs_getsembynum. *)
semfs_remove(p, nm) ==
  /\ pc[p] = "idle" /\ semfs_dirlock = NONE
  /\ \E i \in Found(nm) : Locals(p, [semnum |-> semfs_dents[i].semd_semnum, dent |-> i])
  /\ semfs_dirlock' = p /\ Goto(p, "getsembynum")
  /\ UNCHANGED <<arrays, vn_refcount, semfs_tablelock, sems_lock, open, fault>>

semfs_getsembynum(p) ==
  /\ pc[p] = "getsembynum" /\ semfs_tablelock = NONE
  /\ Goto(p, "unlink")
  /\ UNCHANGED <<arrays, vn_refcount, locks, loc, open, fault>>

(* Under sems_lock: sems_linked, then the look at sems_hasvnode. *)
RemoveUnlink(p) ==
  LET n == loc[p].semnum
  IN /\ pc[p] = "unlink" /\ sems_lock[n] = NONE
     /\ sems_lock' = [sems_lock EXCEPT ![n] = p]
     /\ semfs_sems' = [semfs_sems EXCEPT ![n].sems_linked = FALSE]
     /\ Goto(p, "hasvnode")
     /\ UNCHANGED <<semfs_dents, vn_refcount, semfs_dirlock, semfs_tablelock, loc, open, fault>>

(* The rest of semfs_remove: the entry becomes a hole. *)
RemoveEntry(p) ==
  /\ semfs_dents' = [semfs_dents EXCEPT ![loc[p].dent] = NONE]
  /\ sems_lock' = [sems_lock EXCEPT ![loc[p].semnum] = NONE]
  /\ semfs_dirlock' = NONE /\ Return(p)
  /\ UNCHANGED <<vn_refcount, semfs_tablelock, open, fault>>

(* Bug for the checks: the semaphore goes whether it is open or not. *)
BugInUse(n) == FALSE

(* The test of sems_hasvnode. *)
InUse(n) == semfs_sems[n].sems_hasvnode

RemoveTest(p) ==
  LET n == loc[p].semnum
  IN /\ pc[p] = "hasvnode"
     /\ \/ ~Live(n) /\ Panic("destroyed sem")
        \/ /\ Live(n)
           /\ Goto(p, IF InUse(n) THEN "leave" ELSE "drop")
           /\ UNCHANGED <<arrays, vn_refcount, locks, loc, open, fault>>

(* Somebody has it open, or had a moment ago: sems_lock is released. *)
RemoveLeave(p) ==
  LET n == loc[p].semnum
  IN /\ pc[p] = "leave"
     /\ IF Live(n) THEN RemoveEntry(p) /\ UNCHANGED semfs_sems ELSE Panic("destroyed sem")

(* Nobody has it open: the slot is cleared under semfs_tablelock, the semaphore
   destroyed. *)
RemoveDrop(p) ==
  LET n == loc[p].semnum
  IN /\ pc[p] = "drop" /\ semfs_tablelock = NONE
     /\ IF Live(n) THEN RemoveEntry(p) /\ semfs_sems' = [semfs_sems EXCEPT ![n] = NONE]
        ELSE Panic("destroyed sem")

(* semfs_getdirentry, which follows the entry without a test for a hole. *)
semfs_getdirentry ==
  semfs_dirlock = NONE /\ NONE \in Range(semfs_dents) /\ Panic("null entry")
-----------------------------------------------------------------------------
(* vnode_decref, by a process that closes the semaphore: the last reference is
   passed to semfs_reclaim. *)
vnode_decref(p) ==
  /\ pc[p] = "idle" /\ open[p] # NONE
  /\ IF vn_refcount[open[p]] > 1
     THEN /\ vn_refcount' = [vn_refcount EXCEPT ![open[p]] = @ - 1]
          /\ open' = [open EXCEPT ![p] = NONE]
          /\ UNCHANGED pc
     ELSE Goto(p, "reclaim") /\ UNCHANGED <<vn_refcount, open>>
  /\ UNCHANGED <<arrays, locks, loc, fault>>

(* Bug for the checks: reclaimed though somebody opened it meanwhile. *)
BugBusy(n) == FALSE

(* The second look at the count, in semfs_reclaim. *)
Busy(n) == vn_refcount[n] > 1

(* semfs_reclaim under semfs_tablelock: the count is looked at again, the vnode
   leaves the table and the semaphore is told. *)
semfs_reclaim(p) ==
  LET n == open[p]
  IN /\ pc[p] = "reclaim" /\ semfs_tablelock = NONE
     /\ \/ /\ Busy(n)
           /\ vn_refcount' = [vn_refcount EXCEPT ![n] = @ - 1]
           /\ open' = [open EXCEPT ![p] = NONE] /\ Return(p)
           /\ UNCHANGED <<arrays, locks, fault>>
        \/ /\ ~Busy(n)
           /\ vn_refcount' = [vn_refcount EXCEPT ![n] = 0]
           /\ open' = [open EXCEPT ![p] = NONE]
           /\ semfs_sems' = [semfs_sems EXCEPT ![n].sems_hasvnode = FALSE]
           /\ semfs_tablelock' = p
           /\ Locals(p, [semnum |-> n]) /\ Goto(p, "linked")
           /\ UNCHANGED <<semfs_dents, semfs_dirlock, sems_lock, fault>>

(* Bug for the checks: an unlinked semaphore outlives its vnode. *)
BugKeep(n) == TRUE

(* The test of sems_linked. *)
Keep(n) == semfs_sems[n].sems_linked

(* The look at sems_linked: an unlinked semaphore is destroyed with its vnode. *)
ReclaimTest(p) ==
  LET n == loc[p].semnum
  IN /\ pc[p] = "linked"
     /\ semfs_sems' = IF Keep(n) THEN semfs_sems ELSE [semfs_sems EXCEPT ![n] = NONE]
     /\ semfs_tablelock' = NONE /\ Return(p)
     /\ UNCHANGED <<semfs_dents, vn_refcount, semfs_dirlock, sems_lock, open, fault>>
-----------------------------------------------------------------------------
(* Reads, writes and truncations of an open semaphore: semfs_getsem first. *)
semfs_getsem(p) ==
  /\ pc[p] = "idle" /\ open[p] # NONE /\ semfs_tablelock = NONE
  /\ Locals(p, [semnum |-> open[p]]) /\ Goto(p, "semlock")
  /\ UNCHANGED <<arrays, vn_refcount, locks, open, fault>>

SetCount(n, c) == semfs_sems' = [semfs_sems EXCEPT ![n].sems_count = c]

(* The new count of semfs_write; EFBIG and no change when it wraps. *)
Written(count, resid) ==
  LET newcount == (count + resid) % CountMod
  IN IF newcount < count THEN count ELSE newcount

(* A whole operation under sems_lock that leaves count c; semfs_wakeup does nothing. *)
Locked(p, c) ==
  /\ pc[p] = "semlock" /\ sems_lock[loc[p].semnum] = NONE
  /\ SetCount(loc[p].semnum, c) /\ Return(p)
  /\ UNCHANGED <<semfs_dents, vn_refcount, locks, open, fault>>

semfs_write(p, resid) ==
  pc[p] = "semlock" /\ Locked(p, Written(semfs_sems[loc[p].semnum].sems_count, resid))

semfs_truncate(p, len) == Locked(p, len)

(* semfs_read up to its loop. *)
ReadLock(p, resid) ==
  LET n == loc[p].semnum
  IN /\ pc[p] = "semlock" /\ sems_lock[n] = NONE
     /\ sems_lock' = [sems_lock EXCEPT ![n] = p]
     /\ Locals(p, [semnum |-> n, resid |-> resid]) /\ Goto(p, "read")
     /\ UNCHANGED <<arrays, vn_refcount, semfs_dirlock, semfs_tablelock, open, fault>>

(* One turn of the loop of semfs_read: take what there is, and again until all is
   taken; the cv_wait at 0 keeps sems_lock. *)
semfs_read(p) ==
  LET n == loc[p].semnum
      count == semfs_sems[n].sems_count
      consume == IF loc[p].resid > count THEN count ELSE loc[p].resid
  IN /\ pc[p] = "read"
     /\ SetCount(n, count - consume)
     /\ IF consume = loc[p].resid
        THEN sems_lock' = [sems_lock EXCEPT ![n] = NONE] /\ Return(p)
        ELSE Locals(p, [loc[p] EXCEPT !.resid = @ - consume]) /\ UNCHANGED <<pc, sems_lock>>
     /\ UNCHANGED <<semfs_dents, vn_refcount, semfs_dirlock, semfs_tablelock, open, fault>>

Operation(p) ==
  \/ \E nm \in Name : semfs_lookup(p, nm) \/ semfs_creat(p, nm) \/ semfs_remove(p, nm)
  \/ semfs_sem_insert(p) \/ LookupGetvnode(p) \/ CreatGetvnode(p)
  \/ semfs_getsembynum(p) \/ RemoveUnlink(p) \/ RemoveTest(p) \/ RemoveLeave(p) \/ RemoveDrop(p)
  \/ vnode_decref(p) \/ semfs_reclaim(p) \/ ReclaimTest(p)
  \/ semfs_getsem(p) \/ semfs_read(p)
  \/ \E k \in Count : semfs_write(p, k) \/ semfs_truncate(p, k) \/ ReadLock(p, k)

Next == fault = "none" /\ (semfs_getdirentry \/ \E p \in Proc : Operation(p))

Spec == Init /\ [][Next]_vars
-----------------------------------------------------------------------------
(* The references of a vnode are the processes that have it open, the one that
   is about to reclaim it included: none is lost or counted twice when
   semfs_getvnode, vnode_decref and semfs_reclaim overlap. *)
RefcountExact ==
  \A n \in SemNum : vn_refcount[n] = Cardinality({p \in Proc : open[p] = n})

(* A semaphore in use stays: one that a process has open is in the table,
   unlinked or not, with sems_hasvnode set, and so is one that semfs_lookup,
   semfs_creat, semfs_reclaim or semfs_getsem has the number of and has yet to use.
   The assertions of semfs_getvnode (no second vnode) and semfs_remove (what it
   unlinks is linked) hold.  What does fail is in fault, and every value of it
   occurs: lock_do_i_hold in semfs_sem_insert for every thread but the lock's
   creator, the hole that semfs_getdirentry follows, the vnode that semfs_creat
   does not set, the semaphore that semfs_remove finds destroyed. *)
SemaphoresStay ==
  /\ TypeOK
  /\ \A p \in Proc : open[p] # NONE => Live(open[p]) /\ semfs_sems[open[p]].sems_hasvnode
  /\ \A p \in Proc : pc[p] \in {"creat_getvnode", "lookup_getvnode", "getsembynum", "unlink",
                                "linked", "semlock", "read"} => Live(loc[p].semnum)
  /\ \A p \in Proc : pc[p] \in {"creat_getvnode", "lookup_getvnode"}
                     /\ vn_refcount[loc[p].semnum] = 0 /\ semfs_tablelock = NONE
                     => ~semfs_sems[loc[p].semnum].sems_hasvnode
  /\ \A p \in Proc : pc[p] \in {"getsembynum", "unlink"} => semfs_sems[loc[p].semnum].sems_linked

InDirectory(n) == \E i \in DOMAIN semfs_dents : semfs_dents[i] # NONE /\ semfs_dents[i].semd_semnum = n

(* Nothing leaks and nothing is dropped too early: when no operation is under way,
   sems_linked and sems_hasvnode are what they say, and the semaphores that exist
   are those in the directory or open. *)
NoLeak ==
  fault = "none" /\ semfs_dirlock = NONE /\ semfs_tablelock = NONE =>
    \A n \in SemNum :
      /\ Live(n) <=> InDirectory(n) \/ vn_refcount[n] > 0
      /\ Live(n) => /\ semfs_sems[n].sems_linked = InDirectory(n)
                    /\ semfs_sems[n].sems_hasvnode = (vn_refcount[n] > 0)

(* The directory names each semaphore once and has each name once. *)
NamesUnique ==
  \A i, j \in DOMAIN semfs_dents :
    semfs_dents[i] # NONE /\ semfs_dents[j] # NONE
    /\ (\/ semfs_dents[i].semd_name = semfs_dents[j].semd_name
        \/ semfs_dents[i].semd_semnum = semfs_dents[j].semd_semnum) => i = j

(* Who holds the lock that p waits for in the middle of an operation, or nobody. *)
WaitsFor(p) ==
  CASE pc[p] \in {"insert", "creat_getvnode", "lookup_getvnode", "getsembynum", "drop", "reclaim"} -> semfs_tablelock
    [] pc[p] \in {"unlink", "semlock"} -> sems_lock[loc[p].semnum]
    [] OTHER -> NONE

(* The locks are taken in one order, semfs_dirlock, sems_lock, semfs_tablelock, and
   given back on every path: no processes wait for each other, and none for a
   process that is not in an operation. *)
NoDeadlock ==
  /\ \A S \in (SUBSET Proc) \ {{}} : \E p \in S : WaitsFor(p) \notin S
  /\ \A p \in Proc : pc[p] = "idle" => /\ p \notin {semfs_dirlock, semfs_tablelock}
                                       /\ \A n \in SemNum : sems_lock[n] # p

(* "when the lock is destroyed, no thread should be holding it": the sems_lock of
   a semaphore that semfs_sem_destroy has destroyed is held by nobody. *)
DestroyedUnheld == \A n \in SemNum : ~Live(n) => sems_lock[n] = NONE
-----------------------------------------------------------------------------
(* The inductive invariant.  Who holds which lock is told by where each process
   is, and so is what its locals name. *)
RemovePcs == {"getsembynum", "unlink", "hasvnode", "drop", "leave"}
DirPcs == {"insert", "creat_getvnode", "lookup_getvnode"} \cup RemovePcs
NumPcs == {"lookup_getvnode", "linked", "semlock"}
SemlockPcs == {"hasvnode", "drop", "leave", "read"}

LocksOK(p) ==
  /\ semfs_dirlock = p <=> pc[p] \in DirPcs
  /\ semfs_tablelock = p <=> pc[p] = "linked"
  /\ \A n \in SemNum : sems_lock[n] = p <=> pc[p] \in SemlockPcs /\ loc[p].semnum = n

Entry(i, n) == i \in DOMAIN semfs_dents /\ semfs_dents[i] # NONE /\ semfs_dents[i].semd_semnum = n

LocalsAt(at, l, o) ==
  /\ at = "insert" => l \in [name : Name] /\ Found(l.name) = {}
  /\ at \in {"creat_getvnode"} \cup RemovePcs => l \in [semnum : SemNum, dent : Nat] /\ Entry(l.dent, l.semnum)
  /\ at \in NumPcs => l \in [semnum : SemNum]
  /\ at = "lookup_getvnode" => InDirectory(l.semnum)
  /\ at = "read" => l \in [semnum : SemNum, resid : Count]
  /\ at \in {"semlock", "read"} => o = l.semnum
  /\ at = "reclaim" => o # NONE
  /\ at \in {"insert", "creat_getvnode", "lookup_getvnode", "linked"} => o = NONE

LocalsOK(p) == LocalsAt(pc[p], loc[p], open[p])

(* Some process is at one of the places S with semaphore n. *)
Working(S, n) == \E p \in Proc : pc[p] \in S /\ loc[p].semnum = n

(* In semfs_creat before sems_linked is set, in semfs_remove after it is reset. *)
Unlinked == {"creat_getvnode", "hasvnode", "drop", "leave"}

(* A slot: it has a vnode exactly when its semaphore says so; it is linked
   exactly when the directory names it, but while semfs_creat or semfs_remove
   is between the two; and it is cleared only when nobody can find it. *)
SlotOK(n) ==
  /\ ~Live(n) => vn_refcount[n] = 0
  /\ Live(n) => /\ semfs_sems[n].sems_hasvnode <=> vn_refcount[n] > 0
                /\ semfs_sems[n].sems_linked => InDirectory(n) /\ ~Working(Unlinked, n)
                /\ \/ InDirectory(n) /\ ~Working({"leave"}, n)
                   \/ vn_refcount[n] > 0
                   \/ Working({"linked"}, n)
  /\ InDirectory(n) => \/ Live(n) /\ semfs_sems[n].sems_linked
                       \/ Working(Unlinked, n)
  /\ Working({"creat_getvnode"}, n) => Live(n) /\ vn_refcount[n] = 0 /\ ~Working({"linked"}, n)
  /\ Working({"linked"}, n) => Live(n) /\ vn_refcount[n] = 0
  /\ Working({"drop"}, n) => vn_refcount[n] = 0

SemFSInv ==
  /\ TypeOK
  /\ RefcountExact
  /\ NamesUnique
  /\ \A p \in Proc : LocksOK(p) /\ LocalsOK(p)
  /\ \A n \in SemNum : SlotOK(n)
=============================================================================
