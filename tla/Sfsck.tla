-------------------------------- MODULE Sfsck --------------------------------
(***************************************************************************)
(* sfsck.  Pass 1 walks the tree, claims every block in use and clears     *)
(* what it cannot keep; the free map is then rewritten; pass 2 mends the   *)
(* directories and counts links; pass 3 corrects the link counts of files. *)
(* The record holds the volume and the tables of the program; bad is the   *)
(* exit status, crossed says that a block was found in use twice, dropped  *)
(* the indirect blocks let go in this run.                                 *)
(***************************************************************************)
EXTENDS SfsDisk, TLC

EXIT_CLEAN   == 0
EXIT_RECOV   == 1
EXIT_UNRECOV == 2

setbadness(s, code) == [s EXCEPT !.bad = Max({@, code})]
Recov(s, p) == IF p THEN setbadness(s, EXIT_RECOV) ELSE s

freemap_blockinuse(s, b) ==
    LET twice == b \in s.inuse
        t == [s EXCEPT !.tofree = @ \ {b}, !.inuse = @ \cup {b}, !.crossed = @ \/ twice]
    IN  IF twice THEN setbadness(t, EXIT_UNRECOV) ELSE t

freemap_blockfree(s, b) == IF b \in s.inuse THEN s ELSE [s EXCEPT !.tofree = @ \cup {b}]

\* Bug for the checks: pointers past the end of the file are kept.
KeepsPastEof(ptr, fb, size) == IF ptr < NBLOCKS THEN ptr ELSE 0

\* A pointer survives when it lies in the volume and before the end of file.
KeptPtr(ptr, fb, size) == IF ptr < NBLOCKS /\ fb < DIVROUNDUP(size, BSIZE) THEN ptr ELSE 0

(***************************************************************************)
(* check_inode_blocks with check_indirect_block (indirection 1, the only   *)
(* one SFS is configured with).  An indirect block left with no entry is   *)
(* dropped, but it was claimed in use before that, so it stays allocated   *)
(* until the next run.                                                     *)
(***************************************************************************)
Claim(s, ptrs) == FoldLeft(freemap_blockinuse, s, SelectSeq(ptrs, LAMBDA b : b # 0))
LetGo(s, B)    == FoldLeft(freemap_blockfree, s, SetToSeq((B \cap Blk) \ {0}))

check_inode_blocks(s, n, i) ==
    LET valid   == i.indirect \in Blk \ {0}
        entries == IF valid THEN AsIndirect(s.disk[i.indirect]) ELSE NoPtrs
        direct  == [k \in DSlots |-> KeptPtr(i.direct[k], k, i.size)]
        kept    == [k \in ISlots |-> KeptPtr(entries[k], NDIRECT + k, i.size)]
        new     == [i EXCEPT !.direct = direct,
                             !.indirect = IF kept = NoPtrs THEN 0 ELSE @]
        claims  == [k \in 1 .. NDIRECT |-> direct[k - 1]]
                   \o <<IF valid THEN i.indirect ELSE 0>>
                   \o [k \in 1 .. DBPERIDB |-> kept[k - 1]]
        past    == {i.direct[k] : k \in {x \in DSlots : direct[x] = 0}}
                   \cup {entries[k] : k \in {x \in ISlots : kept[x] = 0}}
    IN  Let(Recov(LetGo(Claim(s, claims), past), new # i \/ kept # entries), LAMBDA t :
            [t EXCEPT
                !.dropped = IF valid /\ new.indirect = 0 THEN @ \cup {i.indirect} ELSE @,
                !.disk = [b \in Blk |->
                    IF b = n /\ new # i THEN MkInode(new)
                    ELSE IF b = new.indirect /\ b # 0 /\ kept # entries THEN MkInd(kept)
                    ELSE @[b]]])

\* The caller knows that the inode has not been seen.
pass1_inode(s, n) ==
    LET i == AsInode(s.disk[n])
    IN  check_inode_blocks(freemap_blockinuse([s EXCEPT !.inodes = (n :> i.type) @@ @], n), n, i)

pass1_direntry(s, e) ==
    IF e.ino = NOINO THEN FreeEntry
    ELSE IF e.ino >= NBLOCKS THEN FreeEntry
    ELSE IF e.name = <<>> THEN [e EXCEPT !.name = <<"FSCK", e.ino, s.id>>] ELSE e

IsSpecial(e) == e.ino = NOINO \/ e.name \in {DOT, DOTDOT}

\* sfs_readdir and sfs_writedir over the slots 0 .. nd - 1.
ReadDir(s, i, nd) == [k \in 0 .. nd - 1 |-> DirEntry(s.disk, i, k)]

WriteDir(s, i, d) ==
    LET nd == Cardinality(DOMAIN d)
        Block(fb) == MkDir([k \in Offs |->
            IF fb * BSIZE + k < nd THEN d[fb * BSIZE + k] ELSE FreeEntry])
        Put(t, fb) == LET b == BlockOf(t.disk, i, fb)
                      IN  IF b # 0 THEN [t EXCEPT !.disk[b] = Block(fb)]
                          ELSE IF Block(fb) = Zero THEN t ELSE setbadness(t, EXIT_UNRECOV)
    IN  FoldLeft(Put, s, [j \in 1 .. DIVROUNDUP(nd, BSIZE) |-> j - 1])

-----------------------------------------------------------------------------
RECURSIVE pass1_dir(_, _)

SlotSeq(nd) == [j \in 1 .. nd |-> j - 1]

\* The loops of pass1_dir work on pairs <<state, entries>>.  The first one:
pass1_name(p, k) ==
    LET e == pass1_direntry(p[1], p[2][k])
    IN  IF e = p[2][k] THEN p
        ELSE <<[setbadness(p[1], EXIT_RECOV) EXCEPT !.id = IF e = FreeEntry THEN @ ELSE @ + 1],
               [p[2] EXCEPT ![k] = e]>>

\* The second one.
pass1_entry(p, k) ==
    LET s == p[1]
        e == p[2][k]
        seen == e.ino \in DOMAIN s.inodes
        type == AsInode(s.disk[e.ino]).type
    IN  IF IsSpecial(e) \/ (seen /\ type # "INVAL") THEN p
        ELSE CASE type = "FILE" -> <<pass1_inode(s, e.ino), p[2]>>
               [] type = "DIR"  -> <<pass1_dir(s, e.ino), p[2]>>
               [] OTHER -> <<setbadness(s, EXIT_RECOV), [p[2] EXCEPT ![k] = FreeEntry]>>

pass1_dir(s, n) ==
    Let(pass1_inode(s, n), LAMBDA t :
        LET i  == AsInode(t.disk[n])
            d0 == ReadDir(t, i, i.size)
        IN  Let(FoldLeft(pass1_entry, FoldLeft(pass1_name, <<t, d0>>, SlotSeq(i.size)),
                         SlotSeq(i.size)), LAMBDA q :
                IF q[2] = d0 THEN q[1] ELSE WriteDir(q[1], i, q[2])))

pass1_rootdir(s) ==
    LET i == AsInode(s.disk[ROOT])
    IN  pass1_dir(IF i.type = "DIR" THEN s
                  ELSE [setbadness(s, EXIT_RECOV) EXCEPT
                           !.disk[ROOT] = MkInode([i EXCEPT !.type = "DIR"])], ROOT)

\* Bug for the checks: a wrong map is mended and not reported.
Quiet_freemap_check(s) == [s EXCEPT !.dmap = s.inuse]

\* The blocks being freed on purpose are not reported.
freemap_check(s) ==
    [Recov(s, s.dmap \ s.tofree # s.inuse) EXCEPT !.dmap = s.inuse]

-----------------------------------------------------------------------------
(***************************************************************************)
(* Pass 2.  Entries with equal names are neighbours after the sort; the    *)
(* first of two is merged or renamed.  (qsort is not stable: slot order is *)
(* one of its outcomes.)                                                   *)
(***************************************************************************)
Duplicates(p, k) ==
    LET s == p[1]
        d == p[2]
        later == {j \in DOMAIN d : j > k /\ d[j].ino # NOINO /\ d[j].name = d[k].name}
    IN  IF d[k].ino = NOINO \/ later = {} THEN p
        ELSE IF d[Min(later)].ino = d[k].ino
        THEN <<setbadness(s, EXIT_RECOV), [d EXCEPT ![k] = FreeEntry]>>
        ELSE <<[setbadness(s, EXIT_RECOV) EXCEPT !.id = @ + 1],
               [d EXCEPT ![k].name = <<"FSCK", d[k].ino, s.id>>]>>

\* Put name right, or add it in the first free slot of the last block at most.
DotEntry(p, name, ino, max) ==
    LET s == p[1]
        d == p[2]
        here  == {k \in DOMAIN d : d[k].name = name}
        room  == {k \in 0 .. max - 1 : k \notin DOMAIN d \/ d[k].ino = NOINO}
        e     == [ino |-> ino, name |-> name]
    IN  IF here # {}
        THEN IF \A k \in here : d[k].ino = ino THEN p
             ELSE <<setbadness(s, EXIT_RECOV), [k \in DOMAIN d |-> IF k \in here THEN e ELSE d[k]]>>
        ELSE IF room = {} THEN <<setbadness(s, EXIT_UNRECOV), d>>
        ELSE <<setbadness(s, EXIT_RECOV), (Min(room) :> e) @@ d>>

RECURSIVE pass2_dir(_, _, _)

\* The triple is <<state, entries, number of subdirectories>>.
pass2_entry(q, k, n) ==
    LET s == q[1]
        e == q[2][k]
        type == AsInode(s.disk[e.ino]).type
        Clear == <<setbadness(s, EXIT_RECOV), [q[2] EXCEPT ![k] = FreeEntry], q[3]>>
    IN  IF IsSpecial(e) THEN q
        ELSE CASE type = "FILE" -> <<[s EXCEPT !.links[e.ino] = @ + 1], q[2], q[3]>>
               [] type = "DIR" -> IF e.ino \in s.visited THEN Clear
                                  ELSE <<pass2_dir(s, e.ino, n), q[2], q[3] + 1>>
               [] OTHER -> Clear

\* Names first, then the special entries.
pass2_names(s, n, parent, d, max) ==
    DotEntry(DotEntry(FoldLeft(Duplicates, <<s, d>>, SlotSeq(Cardinality(DOMAIN d))),
                      DOT, n, max), DOTDOT, parent, max)

pass2_dir(s, n, parent) ==
    LET i   == AsInode(s.disk[n])
        max == DIVROUNDUP(i.size, BSIZE) * BSIZE
        d0  == ReadDir(s, i, i.size)
        Visit(q, k) == pass2_entry(q, k, n)
        Size(d) == Cardinality(DOMAIN d)
        Fixed(d, subdirs) == [i EXCEPT !.size = Size(d), !.links = subdirs + 2]
        Put(t, new) == IF new = i THEN t
                       ELSE [Recov(t, new.links # i.links) EXCEPT !.disk[n] = MkInode(new)]
    IN  Let(pass2_names([s EXCEPT !.visited = @ \cup {n}], n, parent, d0, max), LAMBDA b :
        Let(FoldLeft(Visit, <<b[1], b[2], 0>>, SlotSeq(Size(b[2]))), LAMBDA q :
            Put(IF q[2] = d0 THEN q[1] ELSE WriteDir(q[1], Fixed(q[2], q[3]), q[2]),
                Fixed(q[2], q[3]))))

\* Pass 3; a file that was seen has a link, or the program aborts.
inode_adjust_filelinks(s) ==
    LET Files == {n \in DOMAIN s.inodes : s.inodes[n] = "FILE"}
        Wrong == {n \in Files : AsInode(s.disk[n]).links # s.links[n]}
    IN  [Recov(s, Wrong # {}) EXCEPT
            !.abort = \E n \in Files : s.links[n] = 0,
            !.disk = [b \in Blk |-> IF b \in Wrong
                         THEN MkInode([AsInode(@[b]) EXCEPT !.links = s.links[b]]) ELSE @[b]]]

-----------------------------------------------------------------------------
\* main, on a volume whose super block is sound.
sfsck(v) ==
    LET s0 == [disk |-> v.disk, dmap |-> v.dmap, inuse |-> {SUPER, FREEMAP},
               tofree |-> {}, inodes |-> <<>>, links |-> [b \in Blk |-> 0], visited |-> {},
               dropped |-> {}, id |-> 1, bad |-> EXIT_CLEAN, crossed |-> FALSE, abort |-> FALSE]
    IN  inode_adjust_filelinks(pass2_dir(freemap_check(pass1_rootdir(s0)), ROOT, ROOT))
=============================================================================
