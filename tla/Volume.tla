------------------------------- MODULE Volume --------------------------------
(***************************************************************************)
(* An SFS volume over its life: the kernel mounts it and serves threads,   *)
(* the device fails now and then, the machine dies in the middle of an     *)
(* operation, and sfsck is run over what is left on the disk.              *)
(***************************************************************************)
EXTENDS SFS, Sfsck, Bags

CONSTANTS Names,        \* file names, as one-element tuples
          WriteArgs,    \* <<offset, length>> of the writes, in units
          TruncArgs,    \* lengths given to ftruncate
          MaxOps,       \* calls before the end of a behaviour, see Cost
          MaxHeld,      \* open handles
          MaxFaults,    \* sections that meet an I/O error
          MaxCheck,     \* runs of sfsck in a row
          Used,         \* volumes in use at the start, unmounted cleanly before
          Damaged       \* volumes damaged by other means, given to sfsck

VARIABLES vol,          \* disk and dmap: what is on the device
          fs,           \* used, fdirty, vn: the struct sfs_fs
          users,        \* held, cwd, lost: who holds which vnode
          calls,        \* bag of the calls under way, each by what is left of it
          phase,        \* "up", "down", "crashed" or "checked"
          flags,        \* panic; dropped: the device lost a write
          count,        \* ops, faults
          want,         \* what the files should read as, by inode number
          stable,       \* contents a sync has made safe, by name
          ck            \* outcome of the last sfsck

vars == <<vol, fs, users, calls, phase, flags, count, want, stable, ck>>

UNSPEC == -1            \* a unit that was truncated away
Units  == 0 .. MaxUnits - 1
NoFile == [size |-> 0, u |-> [k \in Units |-> 0]]
NoFs   == [used |-> {}, fdirty |-> FALSE, vn |-> <<>>]
NoUsers == [held |-> [b \in Blk |-> 0], cwd |-> FALSE, lost |-> {}]
NoFlags == [panic |-> FALSE, dropped |-> FALSE]
NoCount == [ops |-> 0, faults |-> 0]
NoCheck == [bad |-> EXIT_CLEAN, crossed |-> FALSE, abort |-> FALSE, dropped |-> {},
            runs |-> 0, before |-> {}]

View(r) == [b \in Blk |-> IF b \in DOMAIN r.vn THEN r.vn[b].i ELSE AsInode(r.disk[b])]

\* The names in the root directory with the contents of their files.
Named(disk, view) ==
    LET E == {e \in Entries(disk, view[ROOT]) : e.name \in Names}
    IN  [n \in {e.name : e \in E} |->
            Contents(disk, view[(CHOOSE e \in E : e.name = n).ino])]

InoOf(disk, view, n) == (CHOOSE e \in Entries(disk, view[ROOT]) : e.name = n).ino

\* Names whose file the section left as it was, and clean.
StillStable(r) ==
    LET now == Named(r.disk, View(r))
        Safe(n) == LET b == InoOf(r.disk, View(r), n)
                   IN  b \notin DOMAIN r.vn \/ ~r.vn[b].dirty
    IN  IF stable = <<>> THEN <<>>
        ELSE Restrict(stable, {n \in DOMAIN stable \cap DOMAIN now :
                                  now[n] = stable[n] /\ Safe(n)})

-----------------------------------------------------------------------------
(***************************************************************************)
(* A call is a sequence of sections, the stretches of it that hold         *)
(* vfs_biglock (or, for a reference count, vn_countlock); other threads    *)
(* run between them.  todo is what is left of the call after this section, *)
(* f the number of the device operation that fails.                        *)
(***************************************************************************)
Start(f, todo) ==
    [disk |-> vol.disk, dmap |-> vol.dmap, used |-> fs.used, fdirty |-> fs.fdirty,
     vn |-> fs.vn, io |-> 0, fault |-> f, err |-> OK, val |-> 0, slot |-> 0, done |-> 0,
     snaps |-> {vol}, panic |-> FALSE, dropped |-> FALSE, stale |-> FALSE, synced |-> FALSE,
     up |-> TRUE, want |-> want, held |-> users.held, cwd |-> users.cwd, lost |-> users.lost,
     todo |-> todo]

Now    == Start(0, <<>>)

Live(r) == Reach(r.disk, View(r), {ROOT} \cup DOMAIN r.vn)
Handles == FoldFunction(+, 0, users.held)

\* The sections of calls.
Lookparent(then) == [op |-> "lookparent", then |-> then]
Creating(name, excl, trunc) == [op |-> "creat", name |-> name, excl |-> excl, trunc |-> trunc]
Looking(name, trunc) == [op |-> "open", name |-> name, trunc |-> trunc]
Truncating(n)    == [op |-> "trunc", n |-> n]
Opened(n)   == [op |-> "opened", n |-> n]
Linking(new, n) == [op |-> "link", new |-> new, n |-> n]
LinkFrom(old, new) == [op |-> "lookup", old |-> old, new |-> new]
Removing(name) == [op |-> "remove", name |-> name]
Renaming(n1, n2) == [op |-> "rename", n1 |-> n1, n2 |-> n2]
Getroot     == [op |-> "getroot"]
Setcwd      == [op |-> "setcwd"]
Decref(n)   == [op |-> "decref", n |-> n]
Reclaim(n)  == [op |-> "reclaim", n |-> n]

Then(r, q)  == [r EXCEPT !.todo = q \o @]

\* A truncated unit keeps its old value on disk.
TruncWant(w, len, ok) ==
    [size |-> IF ok THEN len ELSE w.size,
     u |-> [k \in Units |-> IF k >= len /\ w.u[k] # 0 THEN UNSPEC ELSE w.u[k]]]

WriteWant(w, off, done, d) ==
    [size |-> IF done = off THEN w.size ELSE Max({w.size, done}),
     u |-> [k \in Units |-> IF k \in off .. done - 1 THEN d ELSE w.u[k]]]

\* A file just created is empty.
Found(r) == IF r.err = OK /\ r.val \notin Live(Now) THEN [r EXCEPT !.want[r.val] = NoFile] ELSE r

DoTruncate(s, n, len) ==
    Let(sfs_itrunc(s, n, len), LAMBDA r :
        [r EXCEPT !.want[n] = TruncWant(@, len, r.err = OK)])

\* The rest of vfs_open once it has the vnode: truncate, and hand it out.
Opening(r, trunc) ==
    IF r.err # OK THEN r
    ELSE [r EXCEPT !.todo = @ \o (IF trunc THEN <<Truncating(r.val)>> ELSE <<>>) \o <<Opened(r.val)>>]

\* The directory of a path is the root: no directory has subdirectories.
getroot(s) == sfs_loadvnode(s, ROOT, "INVAL")

\* vfs_lookup: the reference on the root is gone when the lock is released.
lookup_file(s, name) ==
    Try(getroot(s), LAMBDA t : VOP_DECREF(sfs_lookonce(t, name), ROOT))

vfs_lookparent(s, then) == Try(getroot(s), LAMBDA t : Then(t, <<then, Decref(ROOT)>>))

\* VOP_DECREF without vfs_biglock: the last reference goes to sfs_reclaim.
decref_unlocked(s, n) ==
    IF s.vn[n].ref > 1 THEN [s EXCEPT !.vn[n].ref = @ - 1] ELSE Then(s, <<Reclaim(n)>>)

\* The truncation of vfs_open; when it fails the vnode is let go again.
open_trunc(s, n) ==
    Let(DoTruncate(s, n, 0), LAMBDA r :
        IF r.err = OK THEN r ELSE [r EXCEPT !.todo = <<Decref(n)>>])

\* The new directory is referenced, and the old one let go.
set_curdir(s) ==
    Then([s EXCEPT !.vn[ROOT].ref = @ + 1, !.cwd = TRUE],
         IF s.cwd THEN <<Decref(ROOT)>> ELSE <<>>)

Section(s, x) ==
    CASE x.op = "lookparent" -> vfs_lookparent(s, x.then)
      [] x.op = "creat"   -> Opening(Found(sfs_creat(s, x.name, x.excl)), x.trunc)
      [] x.op = "open"    -> Opening(lookup_file(s, x.name), x.trunc)
      [] x.op = "trunc"   -> open_trunc(s, x.n)
      [] x.op = "lookup"  -> Try(lookup_file(s, x.old), LAMBDA r :
                                 Then(r, <<Lookparent(Linking(x.new, r.val)), Decref(r.val)>>))
      [] x.op = "link"    -> sfs_link(s, x.new, x.n)
      [] x.op = "remove"  -> sfs_remove(s, x.name)
      [] x.op = "rename"  -> sfs_rename(s, x.n1, x.n2)
      [] x.op = "getroot" -> Try(getroot(s), LAMBDA r : Then(r, <<Setcwd, Decref(ROOT)>>))
      [] x.op = "setcwd"  -> set_curdir(s)
      [] x.op = "decref"  -> decref_unlocked(s, x.n)
      [] x.op = "reclaim" -> Reclaimed(s, x.n)

\* Nothing is shared by the return from vfs_open: it goes with the section before.
Returned(r) ==
    IF r.todo # <<>> /\ Head(r.todo).op = "opened"
    THEN [r EXCEPT !.held[Head(r.todo).n] = @ + 1, !.todo = <<>>] ELSE r

-----------------------------------------------------------------------------
\* A call with nothing left to do is over.
Under(q) == IF q = <<>> THEN EmptyBag ELSE SetToBag({q})

Commit(q, r) ==
    /\ vol'   = [disk |-> r.disk, dmap |-> r.dmap]
    /\ fs'    = IF r.up THEN [used |-> r.used, fdirty |-> r.fdirty, vn |-> r.vn] ELSE NoFs
    /\ users' = [held |-> r.held, cwd |-> r.cwd, lost |-> r.lost]
    /\ calls' = (calls (-) Under(q)) (+) Under(r.todo)
    /\ phase' = IF r.up THEN "up" ELSE "down"
    /\ flags' = [panic |-> r.panic, dropped |-> r.dropped]
    /\ want' = r.want
    /\ stable' = IF r.synced /\ ~r.dropped THEN Named(r.disk, View(r)) ELSE StillStable(r)
    /\ UNCHANGED ck

Down ==
    /\ phase' = "crashed" /\ fs' = NoFs /\ users' = NoUsers /\ calls' = EmptyBag
    /\ flags' = NoFlags /\ count' = NoCount /\ want' = [b \in Blk |-> NoFile]
    /\ UNCHANGED ck

\* The machine stops after one of the writes the section makes.
Die(r) ==
    /\ ~r.stale
    /\ vol' \in r.snaps \ {vol}
    /\ stable' = StillStable(r)
    /\ Down

\* A call begun while another is under way counts twice against MaxOps.
Cost == IF calls = EmptyBag THEN 1 ELSE 2

(***************************************************************************)
(* One section of the call q, which is <<>> when the call begins.  Nothing *)
(* is promised of a mounted volume that has lost a write, and the model    *)
(* ends there, except that the machine may die in the same section.        *)
(***************************************************************************)
Running == phase = "up" /\ ~flags.panic /\ ~flags.dropped

Run(q, r) ==
    \/ /\ count' = [ops    |-> count.ops + IF q = <<>> THEN Cost ELSE 0,
                    faults |-> count.faults + IF r.fault = 0 THEN 0 ELSE 1]
       /\ Commit(q, Returned(r))
    \/ Die(r)

\* Op(f) is the section with its f-th device operation failing, 0 for none.
Attempt(q, Op(_)) ==
    LET r == Op(0)
    IN  \/ Run(q, r)
        \/ count.faults < MaxFaults /\ \E f \in 1 .. r.io : Run(q, Op(f))

\* Or it stops between two sections.
Crash == Running /\ Down /\ UNCHANGED <<vol, stable>>

\* Some thread makes a call.
Begins == Running /\ count.ops + Cost <= MaxOps

Begin(x) == Begins /\ Attempt(<<>>, LAMBDA f : Section(Start(f, <<>>), x))

\* The next section of a call under way.
Continue ==
    /\ Running
    /\ \E q \in BagToSet(calls) : Attempt(q, LAMBDA f : Section(Start(f, Tail(q)), Head(q)))

\* vfs_open, vfs_link, vfs_remove, vfs_rename, vfs_chdir, vfs_clearcurdir and vfs_close.
Open(name, creat, excl, trunc) ==
    /\ Handles < MaxHeld
    /\ Begin(IF creat THEN Lookparent(Creating(name, excl, trunc)) ELSE Looking(name, trunc))

Link(old, new)  == Begin(LinkFrom(old, new))
Unlink(name)    == Begin(Lookparent(Removing(name)))
Rename(n1, n2)  == Begin(Lookparent(Lookparent(Renaming(n1, n2))))
Chdir           == ~users.cwd /\ Begin(Getroot)

Clearcwd ==
    /\ users.cwd /\ Begins
    /\ Run(<<>>, decref_unlocked([Now EXCEPT !.cwd = FALSE], ROOT))

Close(n) ==
    /\ users.held[n] > 0 /\ Begins
    /\ Run(<<>>, decref_unlocked([Now EXCEPT !.held[n] = @ - 1], n))

\* Calls of one section.  Every write writes something else.
Write(n, off, len) ==
    /\ users.held[n] > 0 /\ Begins
    /\ LET d == count.ops + 2
       IN  Attempt(<<>>, LAMBDA f :
               Let(sfs_write(Start(f, <<>>), n, off, len, d), LAMBDA r :
                   [r EXCEPT !.want[n] = WriteWant(@, off, r.done, d)]))

Truncate(n, len) ==
    /\ users.held[n] > 0 /\ Begins
    /\ Attempt(<<>>, LAMBDA f : DoTruncate(Start(f, <<>>), n, len))

Fsync(n) ==
    /\ users.held[n] > 0 /\ Begins
    /\ Attempt(<<>>, LAMBDA f : sfs_sync_inode(Start(f, <<>>), n))

Dirty == {n \in DOMAIN fs.vn : fs.vn[n].dirty}

Sync ==
    /\ Begins
    /\ \E order \in SetToSeqs(Dirty) : Attempt(<<>>, LAMBDA f :
         Try(sfs_sync(Start(f, <<>>), order), LAMBDA r : [r EXCEPT !.synced = TRUE]))

\* A successful unmount has written everything.
Unmount ==
    /\ Begins
    /\ \E order \in SetToSeqs(Dirty) : Attempt(<<>>, LAMBDA f :
         Try(sfs_unmount(Start(f, <<>>), order), LAMBDA r :
             [r EXCEPT !.up = FALSE, !.synced = TRUE]))

\* sfs_domount: the free map is read, nothing else is kept in memory.
Mount ==
    /\ phase = "down" /\ count.ops < MaxOps /\ ~flags.dropped
    /\ fs' = [used |-> vol.dmap, fdirty |-> FALSE, vn |-> <<>>]
    /\ phase' = "up"
    /\ count' = [count EXCEPT !.ops = @ + 1]
    /\ UNCHANGED <<vol, users, calls, flags, want, stable, ck>>

-----------------------------------------------------------------------------
(***************************************************************************)
(* The indirect blocks of live inodes that were reused for something else  *)
(* after the inode was last written.  sfsck takes the bytes it finds there *)
(* for block numbers: any numbers.                                         *)
(***************************************************************************)
Reused(disk) ==
    LET view == DiskView(disk)
    IN  {b \in {view[n].indirect : n \in Reach(disk, view, {ROOT})} \cap Blk :
            disk[b].t \notin {"ind", "zero"}}

Readings(v) ==
    IF Reused(v.disk) = {} THEN {v}
    ELSE {[v EXCEPT !.disk = [b \in Blk |-> IF b \in Reused(v.disk) THEN MkInd(g) ELSE @[b]]] :
             g \in [ISlots -> 0 .. NBLOCKS]}

Checked(r, v) ==
    /\ vol' = [disk |-> r.disk, dmap |-> r.dmap]
    /\ ck' = [bad |-> r.bad, crossed |-> ck.crossed \/ r.crossed, abort |-> r.abort,
              dropped |-> r.dropped, runs |-> ck.runs + 1, before |-> {v}]

Check ==
    /\ phase \in {"down", "crashed", "checked"} /\ ck.runs < MaxCheck
    /\ \E v \in Readings(vol) : Checked(sfsck(v), v)
    /\ phase' = "checked"
    /\ flags' = NoFlags
    /\ UNCHANGED <<fs, users, calls, count, want, stable>>

AsWanted(disk, i) ==
    IF i.type # "FILE" THEN NoFile
    ELSE [size |-> i.size,
          u |-> [k \in Units |-> IF k < i.size THEN DataUnit(disk, i, k) ELSE 0]]

Init ==
    /\ users = NoUsers
    /\ calls = EmptyBag
    /\ flags = NoFlags
    /\ count = NoCount
    /\ ck = NoCheck
    /\ \/ /\ vol \in {[disk |-> mksfs_disk, dmap |-> mksfs_map]} \cup Used
          /\ fs = [NoFs EXCEPT !.used = vol.dmap]
          /\ phase = "up"
          /\ want = [b \in Blk |-> AsWanted(vol.disk, AsInode(vol.disk[b]))]
          /\ stable = Named(vol.disk, DiskView(vol.disk))
       \/ /\ vol \in Damaged
          /\ fs = NoFs
          /\ phase = "crashed"
          /\ want = [b \in Blk |-> NoFile]
          /\ stable = <<>>

Next ==
    \/ \E name \in Names, creat, excl, trunc \in BOOLEAN :
           /\ excl => creat /\ ~trunc
           /\ Open(name, creat, excl, trunc)
    \/ \E n \in Blk : \/ \E a \in WriteArgs : Write(n, a[1], a[2])
                      \/ \E len \in TruncArgs : Truncate(n, len)
                      \/ Close(n) \/ Fsync(n)
    \/ \E n1, n2 \in Names : Link(n1, n2) \/ Rename(n1, n2)
    \/ \E name \in Names : Unlink(name)
    \/ Sync \/ Chdir \/ Clearcwd \/ Unmount
    \/ Continue \/ Crash \/ Mount \/ Check

Spec == Init /\ [][Next]_vars

-----------------------------------------------------------------------------
(***************************************************************************)
(* While the volume is mounted and the device has lost no write, the       *)
(* kernel's picture of it is sound: no block is used twice, what is used   *)
(* is allocated, every name leads to a file whose link count is the number *)
(* of its names, names are distinct, and none of the panics and assertions *)
(* of SFS is reached, wherever other calls come between two sections and   *)
(* whichever read failed; until an I/O error, no block is allocated        *)
(* without being used either.                                              *)
(***************************************************************************)
MountedSound ==
    phase = "up" /\ ~flags.dropped =>
        LET view == View(Now)
            live == Live(Now)
        IN  /\ ~flags.panic
            /\ SoundTree(vol.disk, view, live, fs.used)
            /\ count.faults = 0 => fs.used = Referenced(vol.disk, view, live)

\* The references on n that the rest of a call will drop or hand out.
Owed(q, n) == Cardinality({k \in DOMAIN q : q[k] \in {Decref(n), Reclaim(n), Opened(n)}})

Owing(n) == FoldFunction(+, 0, [q \in BagToSet(calls) |-> calls[q] * Owed(q, n)])

(***************************************************************************)
(* Every reference on a vnode has an owner: an open handle, a call under   *)
(* way, the working directory, or a reclaim that failed.                   *)
(***************************************************************************)
VnodeRefsExact ==
    phase = "up" /\ ~flags.panic => \A n \in Blk :
        LET owners == users.held[n]
                      + Owing(n)
                      + (IF n \in users.lost THEN 1 ELSE 0)
                      + (IF n = ROOT /\ users.cwd THEN 1 ELSE 0)
        IN  IF n \in DOMAIN fs.vn THEN fs.vn[n].ref = owners ELSE owners = 0

\* The files somebody can read, with the bytes sfs_read gives them.
Readable(view) == {x \in Live(Now) \ {ROOT} : users.held[x] > 0 \/ view[x].links > 0}
Got(view, n)   == sfs_read(vol.disk, view[n], 0, MaxUnits)

(***************************************************************************)
(* A file reads back as what was last written to it, whichever blocks it   *)
(* shares with earlier files, across unmount and mount, and after calls    *)
(* that met a read error, as long as the device has lost no write.  Of     *)
(* units once truncated away nothing is claimed here: see GrownReadsZero.  *)
(***************************************************************************)
ReadsLastWrite ==
    phase \in {"up", "down"} /\ ~flags.dropped =>
        LET view == View(Now)
        IN  \A n \in Readable(view) :
                LET got == Got(view, n)
                IN  /\ view[n].size = want[n].size
                    /\ \A k \in 1 .. Len(got) : want[n].u[k - 1] \in {got[k], UNSPEC}

(***************************************************************************)
(* What ftruncate.html promises of a file that grows again: the units that *)
(* were truncated away read as zero.  SFS keeps the rest of the last block *)
(* and brings the old data back.                                           *)
(***************************************************************************)
GrownReadsZero ==
    phase \in {"up", "down"} /\ count.faults = 0 =>
        LET view == View(Now)
        IN  \A n \in Readable(view) : \A k \in 1 .. Len(Got(view, n)) :
                want[n].u[k - 1] = UNSPEC => Got(view, n)[k] = 0

(***************************************************************************)
(* What fsync.html promises, and sv_dirty stands for: an inode that is not *)
(* dirty is on the disk.  A write that the device failed is not tried      *)
(* again, and is reported as done.                                         *)
(***************************************************************************)
CleanInodesOnDisk ==
    phase = "up" => \A n \in DOMAIN fs.vn :
        ~fs.vn[n].dirty => AsInode(vol.disk[n]) = fs.vn[n].i

(***************************************************************************)
(* When sfs_unmount succeeds the disk alone is a sound volume, unless a    *)
(* write was lost on the way.                                              *)
(***************************************************************************)
UnmountLeavesSound ==
    phase = "down" /\ ~flags.dropped =>
        LET view == DiskView(vol.disk)
            live == Reach(vol.disk, view, {ROOT})
        IN  /\ SoundTree(vol.disk, view, live, vol.dmap)
            /\ count.faults = 0 => vol.dmap = Referenced(vol.disk, view, live)

(***************************************************************************)
(* A file that a sync wrote out (losing no write) and no later call        *)
(* touched is still there, with its contents, after a crash in the middle  *)
(* of any later call, one that loses a write included, and after sfsck has *)
(* read the leftovers of half-done operations, even where it reports       *)
(* blocks in use twice.                                                    *)
(***************************************************************************)
SyncedFilesSurvive ==
    phase = "checked" =>
        LET now == Named(vol.disk, DiskView(vol.disk))
        IN  \A n \in DOMAIN stable : n \in DOMAIN now /\ now[n] = stable[n]

FsckView == DiskView(vol.disk)
FsckLive == Reach(vol.disk, FsckView, {ROOT})

(***************************************************************************)
(* Unless it reports a block in use twice, one run of sfsck leaves a sound *)
(* volume with no block past the end of a file; the only blocks still      *)
(* allocated for nothing are indirect blocks it dropped in that run, so    *)
(* that the second run leaves none.                                        *)
(***************************************************************************)
FsckRepairs ==
    phase = "checked" /\ ~ck.crossed =>
        /\ ~ck.abort
        /\ SoundTree(vol.disk, FsckView, FsckLive, vol.dmap)
        /\ \A n \in FsckLive, fb \in 0 .. NDIRECT + DBPERIDB - 1 :
               fb * BSIZE >= FsckView[n].size => BlockOf(vol.disk, FsckView[n], fb) = 0
        /\ vol.dmap \ Referenced(vol.disk, FsckView, FsckLive) \subseteq ck.dropped
        /\ ck.runs > 1 => ck.dropped = {}

(***************************************************************************)
(* The exit status tells the truth: sfsck says clean only of a volume it   *)
(* did not change.  Unless a block is in use twice, the third run over a   *)
(* volume changes nothing (the second may free the indirect blocks that    *)
(* the first one dropped, and add a . or .. in a slot that it emptied).    *)
(***************************************************************************)
CleanMeansUntouched ==
    phase = "checked" =>
        /\ ck.bad = EXIT_CLEAN => ck.before = {vol}
        /\ ck.runs > 2 /\ ~ck.crossed => ck.before = {vol}
=============================================================================
