------------------------------- MODULE SfsDisk -------------------------------
(***************************************************************************)
(* The on-disk format of SFS (kern/sfs.h), shared by the kernel's file     *)
(* system (SFS) and by the checker sfsck (Sfsck).  A block is what was     *)
(* last written to it; a file's data is counted in units, a directory      *)
(* entry is one unit, and a block holds BSIZE units.                       *)
(***************************************************************************)
EXTENDS Integers, FiniteSets, Sequences, SequencesExt, FiniteSetsExt, Functions

CONSTANTS NBLOCKS,      \* sb_nblocks
          NDIRECT,      \* SFS_NDIRECT
          DBPERIDB,     \* SFS_DBPERIDB
          BSIZE         \* SFS_BLOCKSIZE in units

ASSUME SfsGeometry == /\ NBLOCKS \in Nat /\ NBLOCKS > 3
                      /\ {NDIRECT, DBPERIDB, BSIZE} \subseteq Nat \ {0}

SUPER   == 0            \* SFS_SUPER_BLOCK
ROOT    == 1            \* SFS_ROOTDIR_INO
FREEMAP == 2            \* SFS_FREEMAP_START; the free map fits one block
NOINO   == 0

Blk     == 0 .. NBLOCKS - 1
DSlots  == 0 .. NDIRECT - 1
ISlots  == 0 .. DBPERIDB - 1
Offs    == 0 .. BSIZE - 1
MaxUnits == BSIZE * (NDIRECT + DBPERIDB)

\* Name a value: LET for the results of calls.
Let(v, Op(_)) == Op(v)

DIVROUNDUP(a, b) == (a + b - 1) \div b

NoPtrs    == [k \in ISlots |-> 0]
FreeEntry == [ino |-> NOINO, name |-> <<>>]
DOT    == <<".">>
DOTDOT == <<"..">>

\* struct sfs_dinode
Inode(type, size, links, direct, indirect) ==
    [type |-> type, size |-> size, links |-> links,
     direct |-> direct, indirect |-> indirect]

ZeroInode == Inode("INVAL", 0, 0, [k \in DSlots |-> 0], 0)

(***************************************************************************)
(* Block contents.  Zero bytes are a zero inode, an empty indirect block,  *)
(* a directory block of free entries and a data block of zeros, so the     *)
(* constructors give Zero for those.                                       *)
(***************************************************************************)
Zero       == [t |-> "zero"]
MkInode(i) == [t |-> "inode", i |-> i]
MkInd(e)   == IF e = NoPtrs THEN Zero ELSE [t |-> "ind", e |-> e]
MkDir(d)   == IF \A k \in Offs : d[k] = FreeEntry THEN Zero ELSE [t |-> "dir", d |-> d]
MkData(w)  == IF \A k \in Offs : w[k] = 0 THEN Zero ELSE [t |-> "data", w |-> w]

\* A block that was never written as an inode has no valid type field.
AsInode(b) == IF b.t = "inode" THEN b.i ELSE ZeroInode
AsDir(b)   == IF b.t = "dir" THEN b.d ELSE [k \in Offs |-> FreeEntry]
AsData(b)  == IF b.t = "data" THEN b.w ELSE [k \in Offs |-> 0]

AsIndirect(b) == IF b.t = "ind" THEN b.e ELSE NoPtrs

\* The block holding block fb of file i, 0 for a hole.
BlockOf(disk, i, fb) ==
    IF fb < NDIRECT THEN i.direct[fb]
    ELSE IF i.indirect = 0 THEN 0
    ELSE AsIndirect(disk[i.indirect])[fb - NDIRECT]

DirEntry(disk, i, k) ==
    LET b == BlockOf(disk, i, k \div BSIZE)
    IN  IF b = 0 THEN FreeEntry ELSE AsDir(disk[b])[k % BSIZE]

DataUnit(disk, i, k) ==
    LET b == BlockOf(disk, i, k \div BSIZE)
    IN  IF b = 0 THEN 0 ELSE AsData(disk[b])[k % BSIZE]

Contents(disk, i) == [k \in 1 .. i.size |-> DataUnit(disk, i, k - 1)]

Entries(disk, i) ==
    {e \in {DirEntry(disk, i, k) : k \in 0 .. i.size - 1} : e.ino # NOINO}

-----------------------------------------------------------------------------
(***************************************************************************)
(* What a consistent volume is.  view[b] is the inode in block b as the    *)
(* observer sees it: the kernel's copy when the file is loaded, the disk's *)
(* copy otherwise.  Extra inodes are held without a name (open, unlinked). *)
(***************************************************************************)
DiskView(disk) == [b \in Blk |-> AsInode(disk[b])]

Subs(disk, view, S) ==
    UNION {{e.ino : e \in Entries(disk, view[d])} : d \in {x \in S : view[x].type = "DIR"}}

RECURSIVE Reach(_, _, _)
Reach(disk, view, S) ==
    LET T == S \cup (Subs(disk, view, S) \cap Blk)
    IN  IF T = S THEN S ELSE Reach(disk, view, T)

\* Every use of a block by an inode: <<inode, slot, block>>.
Uses(disk, i, n) ==
    {u \in {<<n, "inode", 0, n>>, <<n, "indirect", 0, i.indirect>>}
           \cup {<<n, "direct", k, i.direct[k]>> : k \in DSlots}
           \cup (IF i.indirect = 0 THEN {}
                 ELSE LET e == AsIndirect(disk[i.indirect])
                      IN  {<<n, "entry", k, e[k]>> : k \in ISlots}) : u[4] # 0}

AllUses(disk, view, live) ==
    {<<SUPER, "super", 0, SUPER>>, <<FREEMAP, "freemap", 0, FREEMAP>>}
    \cup UNION {Uses(disk, view[n], n) : n \in live}

Referenced(disk, view, live) == {u[4] : u \in AllUses(disk, view, live)}

NotCrosslinked(disk, view, live) ==
    Cardinality(AllUses(disk, view, live)) = Cardinality(Referenced(disk, view, live))

\* Slots naming inode n anywhere, . and .. left out.
NameSlots(disk, view, live, n) ==
    {s \in {d \in live : view[d].type = "DIR"} \X (0 .. MaxUnits - 1) :
        LET e == DirEntry(disk, view[s[1]], s[2])
        IN  s[2] < view[s[1]].size /\ e.ino = n /\ e.name \notin {DOT, DOTDOT}}

NamesDistinct(disk, i) ==
    \A j, k \in 0 .. i.size - 1 :
        LET e == DirEntry(disk, i, j)
            f == DirEntry(disk, i, k)
        IN  j # k /\ e.ino # NOINO /\ f.ino # NOINO => e.name # f.name

\* Structure common to what the kernel keeps and what sfsck leaves.
SoundTree(disk, view, live, used) ==
    /\ view[ROOT].type = "DIR"
    /\ \A n \in live : view[n].type \in {"FILE", "DIR"}
    /\ \A n \in live : view[n].type = "DIR" => NamesDistinct(disk, view[n])
    /\ NotCrosslinked(disk, view, live)
    /\ Referenced(disk, view, live) \subseteq used
    /\ \A n \in live : view[n].type = "FILE" =>
           view[n].links = Cardinality(NameSlots(disk, view, live, n))

-----------------------------------------------------------------------------
\* mksfs: the super block, an empty root directory and the free map.
mksfs_disk == [b \in Blk |->
    IF b = ROOT THEN MkInode([ZeroInode EXCEPT !.type = "DIR", !.links = 1]) ELSE Zero]
mksfs_map == {SUPER, ROOT, FREEMAP}
=============================================================================
