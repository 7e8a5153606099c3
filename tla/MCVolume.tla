------------------------------ MODULE MCVolume ------------------------------
(***************************************************************************)
(* Storage for TLC: a volume of nine blocks of two units, with one direct  *)
(* and two indirect blocks a file; the names of devices and volumes; the   *)
(* disk driver.  which picks the part that runs; the other two stay in     *)
(* their initial state.                                                    *)
(***************************************************************************)
EXTENDS Volume, Vfs, Lhd

VARIABLE which

MCNames     == {<<"a">>, <<"b">>}
MCWriteArgs == {<<0, 2>>, <<1, 2>>, <<4, 1>>}
MCTruncArgs == {1, 4}

Vol(blocks, map) == [disk |-> blocks @@ [b \in Blk |-> Zero], dmap |-> map]
File(size, d, ind) == MkInode(Inode("FILE", size, 1, [k \in DSlots |-> d], ind))
Dir(size, links, d) == MkInode(Inode("DIR", size, links, [k \in DSlots |-> d], 0))
Two(e, f) == MkDir([k \in Offs |-> IF k = 0 THEN e ELSE f])
E(ino, name) == [ino |-> ino, name |-> name]
Ones == MkData([k \in Offs |-> 1])

\* A file whose three blocks are all in use, named a.
Full == Vol((ROOT :> Dir(1, 1, 4)) @@ (4 :> Two(E(3, <<"a">>), FreeEntry))
            @@ (3 :> File(6, 5, 6)) @@ (5 :> Ones) @@ (7 :> Ones) @@ (8 :> Ones)
            @@ (6 :> MkInd([k \in ISlots |-> 7 + k])), 0 .. 8)

\* Two small files.
Pair == Vol((ROOT :> Dir(2, 1, 4)) @@ (4 :> Two(E(3, <<"a">>), E(6, <<"b">>)))
            @@ (3 :> File(2, 5, 0)) @@ (5 :> Ones) @@ (6 :> File(1, 7, 0))
            @@ (7 :> MkData([k \in Offs |-> 1 - k])), 0 .. 7)

MCUsed == {Full, Pair}

\* One directory block with two entries, whose targets may be anything.
MCDamaged ==
    {Vol((ROOT :> r) @@ (3 :> Two(e, f)) @@ (4 :> x) @@ (5 :> y), m) :
        r \in {Dir(2, 2, 3), Dir(1, 3, 3), File(2, 3, 0)},
        e \in {FreeEntry, E(4, <<"a">>), E(5, <<>>), E(1, DOT), E(9, <<"b">>)},
        f \in {FreeEntry, E(4, <<"a">>), E(5, <<"a">>), E(4, <<"b">>), E(5, DOTDOT), E(1, DOTDOT)},
        x \in {File(3, 6, 7), File(0, 6, 9), Dir(0, 2, 0), Zero},
        y \in {File(2, 6, 0), Dir(2, 2, 8), Zero},
        m \in {{0, 1, 2, 3}, Blk}}

Dev(name, raw, mountable) == [name |-> name, raw |-> raw, fs |-> mountable]
MCAttach == <<Dev("con", NoName, FALSE), Dev("emu0", NoName, TRUE), Dev("lhd0", "lhd0raw", FALSE),
              Dev("con", NoName, FALSE)>>
Path(kind, name, sub) == [kind |-> kind, name |-> name, sub |-> sub]
MCPaths == {Path("device", "lhd0raw", FALSE), Path("device", "lhd0", TRUE), Path("device", "vol", FALSE),
            Path("slash", NoName, TRUE), Path("colon", NoName, FALSE), Path("relative", NoName, TRUE)}

StorageInit ==
    /\ which \in {"volume", "vfs", "lhd"}
    /\ Init /\ VfsInit /\ LhdInit
    /\ which # "volume" => vol = [disk |-> mksfs_disk, dmap |-> mksfs_map]

StorageNext ==
    \/ which = "volume" /\ Next /\ UNCHANGED <<which, vfsVars, lhVars>>
    \/ which = "vfs" /\ VfsNext /\ UNCHANGED <<which, vars, lhVars>>
    \/ which = "lhd" /\ LhdNext /\ UNCHANGED <<which, vars, vfsVars>>

StorageSpec == StorageInit /\ [][StorageNext]_<<which, vars, vfsVars, lhVars>>
=============================================================================
