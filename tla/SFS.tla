--------------------------------- MODULE SFS ---------------------------------
(***************************************************************************)
(* The kernel's SFS: block allocation, block mapping, truncation, the      *)
(* directory, the vnode table, sync and unmount.  Each routine maps a      *)
(* state record to a state record; the record carries the volume, the      *)
(* struct sfs_fs in memory, the result of the last call (err, val), the    *)
(* number of the device operation that fails (fault) and every state the   *)
(* volume went through on the way (snaps), any of which is what a crash    *)
(* leaves.  The routines run under vfs_biglock, so one routine is one step *)
(* of the thread that calls it.                                            *)
(***************************************************************************)
EXTENDS SfsDisk, TLC

OK == "OK"

Try(s, Op(_)) == IF s.err = OK THEN Op(s) ELSE s
Fail(s, e)    == [s EXCEPT !.err = e]
Return(s, v)  == [s EXCEPT !.err = OK, !.val = v]
KASSERT(s, p) == IF p THEN s ELSE [s EXCEPT !.panic = TRUE]

-----------------------------------------------------------------------------
(***************************************************************************)
(* Device I/O.  sfs_rwblock tries again after EIO, up to ten times.  For a *)
(* read the fault is an error that outlasts the retries.  For a write the  *)
(* first failure is the last: lhd_io has already moved the data out of the *)
(* uio, so the second try finds nothing left to transfer and returns 0.    *)
(* The sector stays as it was and the caller is told that it was written   *)
(* (dropped).                                                              *)
(***************************************************************************)
Fails(s) == s.io + 1 = s.fault

sfs_rwblock(s, rw) ==
    [s EXCEPT !.io = @ + 1,
              !.err = IF Fails(s) /\ rw = "read" THEN "EIO" ELSE OK,
              !.dropped = @ \/ (Fails(s) /\ rw = "write")]

Snap(s) == [s EXCEPT !.snaps = @ \cup {[disk |-> s.disk, dmap |-> s.dmap]}]

sfs_readblock(s) == sfs_rwblock(s, "read")

sfs_writeblock(s, b, c) ==
    Try(sfs_rwblock(s, "write"), LAMBDA t :
        IF Fails(s) THEN t ELSE Snap([t EXCEPT !.disk[b] = c]))

(***************************************************************************)
(* A clear that is dropped leaves the bytes of whatever used the block     *)
(* before (stale); the model does not follow what they are then taken for. *)
(***************************************************************************)
sfs_clearblock(s, b) ==
    [sfs_writeblock(s, b, Zero) EXCEPT !.stale = @ \/ (Fails(s) /\ s.disk[b] # Zero)]

\* Bug for the checks: a block is handed out with its old contents.
NoClear_balloc(s) ==
    LET free == Blk \ s.used
    IN  IF free = {} THEN Fail(s, "ENOSPC")
        ELSE Return([s EXCEPT !.used = @ \cup {Min(free)}, !.fdirty = TRUE], Min(free))

\* bitmap_alloc takes the lowest free bit.
sfs_balloc(s) ==
    LET free == Blk \ s.used
        b    == Min(free)
    IN  IF free = {} THEN Fail(s, "ENOSPC")
        ELSE Let(sfs_clearblock([s EXCEPT !.used = @ \cup {b}, !.fdirty = TRUE], b),
                 LAMBDA t : IF t.err = OK THEN Return(t, b) ELSE [t EXCEPT !.used = @ \ {b}])

\* Bug for the checks: freeing a block does not mark the map dirty.
Forgets_sfs_bfree(s, B) == KASSERT([s EXCEPT !.used = @ \ B], B \subseteq s.used)

\* sfs_bfree of every block of B; bitmap_unmark asserts the bit was set.
sfs_bfree(s, B) ==
    KASSERT([s EXCEPT !.used = @ \ B, !.fdirty = @ \/ B # {}], B \subseteq s.used)

-----------------------------------------------------------------------------
\* The "marked free" panics at the end of sfs_bmap.
HandBack(s, b) == KASSERT(Return(s, b), b = 0 \/ b \in s.used)

bmap_direct(s, n, fb, doalloc) ==
    IF s.vn[n].i.direct[fb] # 0 \/ ~doalloc THEN HandBack(s, s.vn[n].i.direct[fb])
    ELSE Try(sfs_balloc(s), LAMBDA t :
             HandBack([t EXCEPT !.vn[n].i.direct[fb] = t.val, !.vn[n].dirty = TRUE], t.val))

\* Allocate the indirect block and clear the buffer, or read it; returns idbuf.
bmap_idblock(s, n) ==
    IF s.vn[n].i.indirect # 0
    THEN Try(sfs_readblock(s), LAMBDA t : Return(t, AsIndirect(t.disk[t.vn[n].i.indirect])))
    ELSE Try(sfs_balloc(s), LAMBDA t :
             Return([t EXCEPT !.vn[n].i.indirect = t.val, !.vn[n].dirty = TRUE], NoPtrs))

bmap_indirect(s, n, idoff, doalloc) ==
    IF idoff >= DBPERIDB THEN Fail(s, "EFBIG")
    ELSE IF s.vn[n].i.indirect = 0 /\ ~doalloc THEN Return(s, 0)
    ELSE Try(bmap_idblock(s, n), LAMBDA t :
        LET idblock == t.vn[n].i.indirect
            idbuf   == t.val
        IN  IF idbuf[idoff] # 0 \/ ~doalloc THEN HandBack(t, idbuf[idoff])
            ELSE Try(sfs_balloc(t), LAMBDA u :
                     Try(sfs_writeblock(u, idblock, MkInd([idbuf EXCEPT ![idoff] = u.val])),
                         LAMBDA v : HandBack(v, u.val))))

sfs_bmap(s, n, fb, doalloc) ==
    IF fb < NDIRECT THEN bmap_direct(s, n, fb, doalloc)
    ELSE bmap_indirect(s, n, fb - NDIRECT, doalloc)

itrunc_direct(s, n, blocklen) ==
    LET i    == s.vn[n].i
        gone == {k \in DSlots : k >= blocklen /\ i.direct[k] # 0}
    IN  [sfs_bfree(s, {i.direct[k] : k \in gone}) EXCEPT
            !.vn[n].i.direct = [k \in DSlots |-> IF k \in gone THEN 0 ELSE @[k]],
            !.vn[n].dirty = @ \/ gone # {}]

\* The entries freed are those strictly past blocklen.
itrunc_indirect(s, n, blocklen) ==
    LET idblock == s.vn[n].i.indirect
        idbuf   == AsIndirect(s.disk[idblock])
        gone    == {j \in ISlots : blocklen < NDIRECT + j /\ idbuf[j] # 0}
        left    == [j \in ISlots |-> IF j \in gone THEN 0 ELSE idbuf[j]]
    IN  Let(sfs_bfree(s, {idbuf[j] : j \in gone}), LAMBDA t :
            IF left = NoPtrs
            THEN [sfs_bfree(t, {idblock}) EXCEPT !.vn[n].i.indirect = 0, !.vn[n].dirty = TRUE]
            ELSE IF gone = {} THEN t
            ELSE sfs_writeblock(t, idblock, MkInd(left)))

sfs_itrunc(s, n, len) ==
    LET blocklen == DIVROUNDUP(len, BSIZE)
        Indirect(d) == IF blocklen < NDIRECT + DBPERIDB - 1 /\ d.vn[n].i.indirect # 0
                   THEN Try(sfs_readblock(d), LAMBDA u : itrunc_indirect(u, n, blocklen))
                   ELSE [d EXCEPT !.err = OK]
    IN  Try(Indirect(itrunc_direct(s, n, blocklen)), LAMBDA u :
            [u EXCEPT !.vn[n].i.size = len, !.vn[n].dirty = TRUE])

-----------------------------------------------------------------------------
(***************************************************************************)
(* File data.  A write goes block by block: a partly covered block is read *)
(* first, a wholly covered one is not.  done is uio_offset, which advances *)
(* before the block is written; the size follows it even when a later      *)
(* block fails.                                                            *)
(***************************************************************************)
Segments(off, len) ==
    LET first == off \div BSIZE
    IN  [j \in 1 .. (off + len - 1) \div BSIZE - first + 1 |->
            [fb   |-> first + j - 1,
             from |-> Max({off, (first + j - 1) * BSIZE}),
             to   |-> Min({off + len, (first + j) * BSIZE})]]

sfs_io_segment(s, n, g, d) ==
    LET whole == g.to - g.from = BSIZE
        Put(b, old) == MkData([k \in Offs |->
            IF g.fb * BSIZE + k \in g.from .. g.to - 1 THEN d ELSE AsData(old)[k]])
    IN  Try(sfs_bmap(s, n, g.fb, TRUE), LAMBDA t :
            Try(IF whole THEN t ELSE sfs_readblock(t), LAMBDA u :
                sfs_writeblock([u EXCEPT !.done = g.to], t.val, Put(t.val, u.disk[t.val]))))

sfs_write(s, n, off, len, d) ==
    LET Step(t, g) == Try(t, LAMBDA u : sfs_io_segment(u, n, g, d))
    IN  Let(FoldLeft(Step, [s EXCEPT !.done = off], Segments(off, len)), LAMBDA r :
            IF r.done > off /\ r.done > r.vn[n].i.size
            THEN [r EXCEPT !.vn[n].i.size = r.done, !.vn[n].dirty = TRUE] ELSE r)

\* What sfs_io returns for a read of len units at off.
sfs_read(dk, i, off, len) ==
    IF off >= i.size THEN <<>>
    ELSE [k \in 1 .. Min({len, i.size - off}) |-> DataUnit(dk, i, off + k - 1)]

-----------------------------------------------------------------------------
(***************************************************************************)
(* The root directory.  Reading the slots one after the other is one read  *)
(* here: whichever of them fails, the caller gets the error and no change. *)
(* Each goes through sfs_bmap, with its panic on a block marked free.      *)
(***************************************************************************)
Slots(s) == 0 .. s.vn[ROOT].i.size - 1
Entry(s, k) == DirEntry(s.disk, s.vn[ROOT].i, k)
SlotsNaming(s, name) == {k \in Slots(s) : Entry(s, k).ino # NOINO /\ Entry(s, k).name = name}

\* Returns the slot, or ENOENT.
sfs_dir_findname(s, name) ==
    LET hits == SlotsNaming(s, name)
    IN  Try(IF Slots(s) = {} THEN Return(s, 0) ELSE sfs_readblock(s), LAMBDA t :
            KASSERT(IF hits = {} THEN Fail(t, "ENOENT") ELSE Return(t, Max(hits)),
                    /\ Cardinality(hits) <= 1
                    /\ \A k \in Slots(s) :
                           BlockOf(s.disk, s.vn[ROOT].i, k \div BSIZE) \in {0} \cup s.used))

\* sfs_metaio for writing: the size follows only when the write is done.
sfs_writedir(s, slot, e) ==
    Try(sfs_bmap(s, ROOT, slot \div BSIZE, TRUE), LAMBDA t :
        Try(sfs_readblock(t), LAMBDA u :
            LET old == AsDir(u.disk[t.val])
            IN  Try(sfs_writeblock(u, t.val, MkDir([old EXCEPT ![slot % BSIZE] = e])),
                    LAMBDA v : IF slot < v.vn[ROOT].i.size THEN Return(v, slot)
                               ELSE Return([v EXCEPT !.vn[ROOT].i.size = slot + 1,
                                                     !.vn[ROOT].dirty = TRUE], slot))))

\* The last free slot is taken, or a new one at the end.
sfs_dir_link(s, name, ino) ==
    LET free == {k \in Slots(s) : Entry(s, k).ino = NOINO}
        slot == IF free = {} THEN s.vn[ROOT].i.size ELSE Max(free)
    IN  Let(sfs_dir_findname(s, name), LAMBDA t :
            IF t.err = OK THEN Fail(t, "EEXIST")
            ELSE IF t.err # "ENOENT" THEN t
            ELSE sfs_writedir(t, slot, [ino |-> ino, name |-> name]))

sfs_dir_unlink(s, slot) == sfs_writedir(s, slot, FreeEntry)

-----------------------------------------------------------------------------
(***************************************************************************)
(* The vnode table: vn maps the inode numbers of the loaded vnodes to      *)
(* sv_i, sv_dirty and vn_refcount.                                         *)
(***************************************************************************)
sfs_sync_inode(s, n) ==
    IF ~s.vn[n].dirty THEN Return(s, 0)
    ELSE Try(sfs_writeblock(s, n, MkInode(s.vn[n].i)), LAMBDA t : [t EXCEPT !.vn[n].dirty = FALSE])

sfs_loadvnode(s, ino, forcetype) ==
    LET force == forcetype # "INVAL"
        i     == AsInode(s.disk[ino])
        new   == [i |-> IF force THEN [i EXCEPT !.type = forcetype] ELSE i,
                  dirty |-> force, ref |-> 1]
    IN  IF ino \in DOMAIN s.vn
        THEN KASSERT(Return([s EXCEPT !.vn[ino].ref = @ + 1], ino),
                     DOMAIN s.vn \subseteq s.used /\ ~force)
        ELSE Try(sfs_readblock(KASSERT(s, ino \in s.used)), LAMBDA t :
                 KASSERT(Return([t EXCEPT !.vn = (ino :> new) @@ @], ino),
                         force = (i.type = "INVAL")))

\* What reclaim does once it knows nobody has picked the vnode up.
Discard(s, n) ==
    LET erase == s.vn[n].i.links = 0
    IN  Try(IF erase THEN sfs_itrunc(s, n, 0) ELSE Return(s, 0), LAMBDA t :
            Try(sfs_sync_inode(t, n), LAMBDA u :
                [(IF erase THEN sfs_bfree(u, {n}) ELSE u) EXCEPT
                    !.vn = Restrict(@, DOMAIN @ \ {n})]))

\* Bug for the checks: the count is not looked at again.
NoSecondLook_sfs_reclaim(s, n) == Discard(s, n)

\* The second look at the count: somebody may have picked the vnode up.
sfs_reclaim(s, n) ==
    IF s.vn[n].ref # 1 THEN Fail([s EXCEPT !.vn[n].ref = @ - 1], "EBUSY") ELSE Discard(s, n)

(***************************************************************************)
(* VOP_DECREF under vfs_biglock.  A failed reclaim is only reported on the *)
(* console: the caller's own result stands, and the vnode stays loaded     *)
(* with a reference nobody holds (lost).                                   *)
(***************************************************************************)
Reclaimed(s, n) ==
    Let(sfs_reclaim(s, n), LAMBDA t :
        [t EXCEPT !.lost = IF t.err \in {OK, "EBUSY"} THEN @ ELSE @ \cup {n}])

VOP_DECREF(s, n) ==
    [(IF s.vn[n].ref > 1 THEN [s EXCEPT !.vn[n].ref = @ - 1] ELSE Reclaimed(s, n))
        EXCEPT !.err = s.err, !.val = s.val]

sfs_makeobj(s, type) ==
    Try(sfs_balloc(s), LAMBDA t :
        Let(sfs_loadvnode(t, t.val, type), LAMBDA u :
            IF u.err = OK THEN u ELSE sfs_bfree(u, {t.val})))

\* Returns the inode number of the loaded vnode, and the slot.
sfs_lookonce(s, name) ==
    Try(sfs_dir_findname(s, name), LAMBDA t :
        Try(sfs_loadvnode(t, Entry(t, t.val).ino, "INVAL"), LAMBDA u :
            [KASSERT(u, u.vn[u.val].i.links > 0) EXCEPT !.slot = t.val]))

-----------------------------------------------------------------------------
(***************************************************************************)
(* The vnode operations on the root directory.                             *)
(***************************************************************************)
AddLink(s, n, d) == [s EXCEPT !.vn[n].i.links = @ + d, !.vn[n].dirty = TRUE]

sfs_creat(s, name, excl) ==
    Let(sfs_dir_findname(s, name), LAMBDA t :
        IF t.err = OK
        THEN IF excl THEN Fail(t, "EEXIST")
             ELSE sfs_loadvnode(t, Entry(t, t.val).ino, "INVAL")
        ELSE IF t.err # "ENOENT" THEN t
        ELSE Try(sfs_makeobj(t, "FILE"), LAMBDA u :
                 Let(sfs_dir_link(u, name, u.val), LAMBDA v :
                     IF v.err = OK THEN Return(AddLink(v, u.val, 1), u.val)
                     ELSE VOP_DECREF(v, u.val))))

sfs_link(s, name, f) ==
    IF s.vn[f].i.type = "DIR" THEN Fail(s, "EINVAL")
    ELSE Try(sfs_dir_link(s, name, f), LAMBDA t : AddLink(t, f, 1))

sfs_remove(s, name) ==
    Try(sfs_lookonce(s, name), LAMBDA t :
        VOP_DECREF(Try(sfs_dir_unlink(t, t.slot), LAMBDA u :
                       AddLink(KASSERT(u, u.vn[t.val].i.links > 0), t.val, -1)), t.val))

\* Bug for the checks: the undo drops the new name and not its count.
NoCount_rename_undo(s, g1, slot2) ==
    Let(sfs_dir_unlink(s, slot2), LAMBDA w : [KASSERT(w, w.err = OK) EXCEPT !.err = s.err])

\* puke_harder: take the new name back, or panic.
rename_undo(s, g1, slot2) ==
    Let(sfs_dir_unlink(s, slot2), LAMBDA w :
        [KASSERT(w, w.err = OK) EXCEPT !.vn[g1].i.links = @ - 1, !.err = s.err])

\* Link under the new name, unlink the old one, undo if that fails.
rename_link(s, n2, g1, slot1) ==
    Try(sfs_dir_link(s, n2, g1), LAMBDA t :
        Let(sfs_dir_unlink(AddLink(t, g1, 1), slot1), LAMBDA u :
            IF u.err = OK THEN AddLink(KASSERT(u, u.vn[g1].i.links > 0), g1, -1)
            ELSE rename_undo(u, g1, t.val)))

sfs_rename(s, n1, n2) ==
    Try(sfs_lookonce(s, n1), LAMBDA t :
        VOP_DECREF(rename_link(KASSERT(t, t.vn[t.val].i.type = "FILE"), n2, t.val, t.slot), t.val))

-----------------------------------------------------------------------------
(***************************************************************************)
(* The file system operations.  order is the order of the vnode table.     *)
(***************************************************************************)
\* Bug for the checks: the loop stops one vnode short.
Short_sfs_sync_vnodes(s, order) ==
    LET Step(t, n) == [sfs_sync_inode(t, n) EXCEPT !.err = OK]
    IN  FoldLeft(Step, s, SubSeq(order, 1, Len(order) - 1))

\* Errors of the single inodes are dropped.
sfs_sync_vnodes(s, order) ==
    LET Step(t, n) == [sfs_sync_inode(t, n) EXCEPT !.err = OK]
    IN  FoldLeft(Step, s, order)

sfs_sync_freemap(s) ==
    IF ~s.fdirty THEN s
    ELSE Try(sfs_rwblock(s, "write"), LAMBDA t :
             [(IF Fails(s) THEN t ELSE Snap([t EXCEPT !.dmap = t.used])) EXCEPT !.fdirty = FALSE])

sfs_sync(s, order) == sfs_sync_freemap(sfs_sync_vnodes(s, order))

\* vfs_unmount: sync, then unmount.
sfs_unmount(s, order) ==
    Try(sfs_sync(s, order), LAMBDA t :
        IF DOMAIN t.vn # {} THEN Fail(t, "EBUSY") ELSE KASSERT(t, ~t.fdirty))
=============================================================================
