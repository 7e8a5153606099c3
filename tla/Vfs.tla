-------------------------------- MODULE Vfs --------------------------------
(***************************************************************************)
(* The VFS layer above the file systems: the device table and mounts of    *)
(* vfslist.c, path translation of vfslookup.c, current directories of      *)
(* vfscwd.c and proc.c, the reference counts of vnode.c and the shutdown   *)
(* of main.c.  The menu thread runs one command at a time; the processes   *)
(* it starts hold the directory they were started in.  What a file system  *)
(* answers is left open: any of its operations may fail.                   *)
(***************************************************************************)
EXTENDS Naturals, Sequences, FiniteSets

CONSTANTS Attach,       \* devices in the order autoconf finds them:
                        \* [name, raw (or NoName), fs: comes with a file system]
          Volnames,     \* names that volumes on disk carry
          Programs,     \* processes the menu starts
          Paths         \* paths given to commands, [kind, name, sub]

NoName == "NULL"
NoVnode == <<"NULL", "NULL">>

ASSUME VfsAssumption ==
    /\ Attach \in Seq([name : STRING \ {NoName}, raw : STRING, fs : BOOLEAN])
    /\ \A i \in 1 .. Len(Attach) : Attach[i].fs => Attach[i].raw = NoName
    /\ IsFiniteSet(Programs) /\ "kproc" \notin Programs
    /\ \A p \in Paths : p.kind \in {"device", "slash", "colon", "relative"} /\ p.sub \in BOOLEAN

\* What may go wrong in one operation: reading, or VOP_RECLAIM.
VfsFaults == {"no", "lookup", "reclaim"}

Processes == Programs \cup {"kproc"}

VARIABLES
    attached,       \* how many of Attach have been probed
    knowndevs,      \* sequence of [name, raw, fs, vol]
    vn,             \* [rc: vnode |-> vn_refcount, 0 when not in memory;
                    \*  lost: vnodes whose VOP_RECLAIM failed; bad: assertion]
    p_cwd, bootfs_vnode,
    started,        \* programs that have been started
    vfsphase,       \* "run", then the steps of shutdown, then "off"
    shutter,        \* the process that shuts down
    unmounting,     \* the loop index of vfs_unmountall
    gaveup          \* devices whose unmount failed at shutdown

down == <<vfsphase, shutter, unmounting, gaveup>>
vfsVars == <<attached, knowndevs, vn, p_cwd, bootfs_vnode, started, down>>

\* The vnodes of a device: its own, and three of the file system on it.
DevNames == {Attach[i].name : i \in 1 .. Len(Attach)}
Vnodes == DevNames \X {"device", "root", "dir", "file"}
IsDir(v) == v[2] \in {"root", "dir"}

\* Held by the kernel itself: kd_vnode, and the root of a file system that
\* came with its device (ef_root, the semfs root).
Permanent(v) ==
    IF \E i \in 1 .. Len(knowndevs) : knowndevs[i].name = v[1]
            /\ (v[2] = "device" \/ (v[2] = "root" /\ knowndevs[i].fs /\ knowndevs[i].raw = NoName))
    THEN 1 ELSE 0

VfsInit ==
    /\ attached = 0 /\ knowndevs = <<>>
    /\ vn = [rc |-> [v \in Vnodes |-> 0], lost |-> {}, bad |-> FALSE]
    /\ p_cwd = [p \in Processes |-> NoVnode] /\ bootfs_vnode = NoVnode
    /\ started = {} /\ vfsphase = "run" /\ shutter = "kproc" /\ unmounting = 1 /\ gaveup = {}

-----------------------------------------------------------------------------
\* vnode.c, on the vnode part of the state.  A vnode that a file system loads
\* starts with the one reference it returns.
vnode_incref(s, v) == [s EXCEPT !.rc[v] = @ + 1]

\* VOP_RECLAIM leaves a device alone, drops any other vnode, or fails.
vnode_decref(s, v, f) ==
    CASE s.rc[v] > 1 -> [s EXCEPT !.rc[v] = @ - 1]
      [] s.rc[v] = 1 /\ v[2] = "device" -> s
      [] s.rc[v] = 1 /\ v[2] # "device" /\ f # "reclaim" -> [s EXCEPT !.rc[v] = 0]
      [] s.rc[v] = 1 /\ v[2] # "device" /\ f = "reclaim" -> [s EXCEPT !.lost = @ \cup {v}]
      [] OTHER -> [s EXCEPT !.bad = TRUE]

DropRef(s, v, f) == IF v = NoVnode THEN s ELSE vnode_decref(s, v, f)

-----------------------------------------------------------------------------
\* badnames: the names in use, those of mounted volumes included.
NamesOf(kd) == {kd.name, kd.raw} \cup (IF kd.fs THEN {kd.vol} ELSE {})
InUse == (UNION {NamesOf(knowndevs[i]) : i \in 1 .. Len(knowndevs)}) \ {NoName}

\* vfs_doadd for the next device, whose name may be taken; memory may run out.
vfs_doadd ==
    LET d == Attach[attached + 1]
    IN  /\ vfsphase = "run" /\ attached < Len(Attach)
        /\ attached' = attached + 1
        /\ \/ UNCHANGED <<knowndevs, vn>>
           \/ /\ {d.name, d.raw} \cap InUse = {}
              /\ knowndevs' = Append(knowndevs, [name |-> d.name, raw |-> d.raw, fs |-> d.fs, vol |-> NoName])
              /\ vn' = [vn EXCEPT !.rc = [v \in Vnodes |->
                            IF v = <<d.name, "device">> \/ (d.fs /\ v = <<d.name, "root">>) THEN 1 ELSE @[v]]]
        /\ UNCHANGED <<p_cwd, bootfs_vnode, started, down>>

\* The menu takes commands once the devices are there.
Menu_ready == vfsphase = "run" /\ attached = Len(Attach)

\* findmount, and the loop of vfs_getroot: the first entry the name fits.
findmount(name) == {i \in 1 .. Len(knowndevs) : knowndevs[i].raw # NoName /\ knowndevs[i].name = name}

Fits(name) == {i \in 1 .. Len(knowndevs) : name \in NamesOf(knowndevs[i])}

\* A vnode with the reference taken, or NoVnode for an error.
Result(s, v) == [s |-> s, v |-> v]
Taken(s, v) == Result(vnode_incref(s, v), v)
Error(s) == Result(s, NoVnode)

FSOP_GETROOT(s, name, f) == IF f # "lookup" THEN Taken(s, <<name, "root">>) ELSE Error(s)

vfs_getroot(s, name, f) ==
    IF Fits(name) = {} THEN Error(s)
    ELSE LET kd == knowndevs[CHOOSE i \in Fits(name) : \A j \in Fits(name) : i <= j]
         IN  CASE kd.fs /\ name \in {kd.name, kd.vol} -> FSOP_GETROOT(s, kd.name, f)
               [] ~kd.fs /\ kd.raw # NoName /\ name = kd.name -> Error(s)
               [] OTHER -> Taken(s, <<kd.name, "device">>)

vfs_getcurdir(s) == IF p_cwd["kproc"] = NoVnode THEN Error(s) ELSE Taken(s, p_cwd["kproc"])

\* getdevice: where translation of a path starts.
getdevice(s, path, f) ==
    LET cur == vfs_getcurdir(s)
        root == FSOP_GETROOT(cur.s, cur.v[1], f)
    IN  CASE path.kind = "device" -> vfs_getroot(s, path.name, f)
          [] path.kind = "slash" -> IF bootfs_vnode = NoVnode THEN Error(s) ELSE Taken(s, bootfs_vnode)
          [] path.kind = "relative" \/ (path.kind = "colon" /\ cur.v = NoVnode) -> cur
          [] OTHER -> \* the assertion that the current directory has a file system
                      Result(vnode_decref([root.s EXCEPT !.bad = @ \/ cur.v[2] = "device"], cur.v, f), root.v)

\* VOP_LOOKUP of a path that is not empty: only directories have names in them,
\* and any file may be what it finds; then the start is let go.
vfs_lookup(s, path, to, f) ==
    LET start == getdevice(s, path, f)
        found == IF IsDir(start.v) /\ f # "lookup"
                 THEN Taken(start.s, <<start.v[1], to>>) ELSE Error(start.s)
    IN  IF start.v = NoVnode \/ ~path.sub THEN start
        ELSE Result(vnode_decref(found.s, start.v, f), found.v)

-----------------------------------------------------------------------------
\* Bug for the checks: the reference that lookup returned is stored as it is.
SetUncounted(r, f) ==
    IF r.v = NoVnode \/ ~IsDir(r.v) THEN [s |-> DropRef(r.s, r.v, f), cwd |-> p_cwd["kproc"]]
    ELSE [s |-> DropRef(DropRef(r.s, p_cwd["kproc"], f), r.v, f), cwd |-> r.v]

\* vfs_setcurdir, and the release that follows it in vfs_chdir.
vfs_setcurdir(r, f) ==
    IF r.v = NoVnode \/ ~IsDir(r.v) THEN [s |-> DropRef(r.s, r.v, f), cwd |-> p_cwd["kproc"]]
    ELSE [s |-> vnode_decref(DropRef(vnode_incref(r.s, r.v), p_cwd["kproc"], f), r.v, f), cwd |-> r.v]

vfs_chdir(path, to, f) ==
    LET c == vfs_setcurdir(vfs_lookup(vn, path, to, f), f)
    IN  /\ Menu_ready
        /\ vn' = c.s /\ p_cwd' = [p_cwd EXCEPT !["kproc"] = c.cwd]
        /\ UNCHANGED <<attached, knowndevs, bootfs_vnode, started, down>>

\* vfs_setbootfs of a name without a colon: the current directory goes there,
\* and bootfs_vnode is what the current directory then is.
vfs_setbootfs(name, f) ==
    LET r == vfs_lookup(vn, [kind |-> "device", name |-> name, sub |-> FALSE], "dir", f)
        c == vfs_setcurdir(r, f)
        went == r.v # NoVnode /\ IsDir(r.v)
    IN  /\ Menu_ready
        /\ p_cwd' = [p_cwd EXCEPT !["kproc"] = c.cwd]
        /\ IF went
           THEN bootfs_vnode' = c.cwd /\ vn' = DropRef(vnode_incref(c.s, c.cwd), bootfs_vnode, f)
           ELSE UNCHANGED bootfs_vnode /\ vn' = c.s
        /\ UNCHANGED <<attached, knowndevs, started, down>>

\* vfs_getcwd: the current directory is of a file system, one that has a name.
vfs_getcwd ==
    LET v == p_cwd["kproc"]
        named == \E i \in 1 .. Len(knowndevs) : knowndevs[i].name = v[1] /\ knowndevs[i].fs
    IN  /\ Menu_ready /\ v # NoVnode
        /\ vn' = [vn EXCEPT !.bad = @ \/ v[2] = "device" \/ ~named]
        /\ UNCHANGED <<attached, knowndevs, p_cwd, bootfs_vnode, started, down>>

\* common_prog: the process, with a reference of its own to the directory, and
\* its thread.  When there is no thread proc_destroy takes the process back.
\* Nothing takes back a process whose thread has ended; the menu may go on
\* before that (Vm, thread_wait_for_count).
proc_create_runprogram(p, forked, f) ==
    LET v == p_cwd["kproc"]
        s == IF v = NoVnode THEN vn ELSE vnode_incref(vn, v)
    IN  /\ Menu_ready /\ p \in Programs \ started
        /\ IF forked
           THEN vn' = s /\ p_cwd' = [p_cwd EXCEPT ![p] = v] /\ started' = started \cup {p}
           ELSE vn' = DropRef(s, v, f) /\ UNCHANGED <<p_cwd, started>>
        /\ UNCHANGED <<attached, knowndevs, bootfs_vnode, down>>

\* vfs_mount, when the device is there, free, and holds a volume.
vfs_mount(name, vol) ==
    /\ Menu_ready
    /\ \E i \in findmount(name) :
         /\ ~knowndevs[i].fs
         /\ knowndevs' = [knowndevs EXCEPT ![i].fs = TRUE, ![i].vol = vol]
    /\ UNCHANGED <<attached, vn, p_cwd, bootfs_vnode, started, down>>

\* A file system with vnodes in memory refuses (sfs_unmount).
Busy(name) == \E x \in {"root", "dir", "file"} : vn.rc[<<name, x>>] > 0

Unmounted(i) == [knowndevs EXCEPT ![i].fs = FALSE, ![i].vol = NoName]

\* vfs_unmount, when sync and unmount succeed.
vfs_unmount(name) ==
    /\ Menu_ready
    /\ \E i \in findmount(name) : knowndevs[i].fs /\ ~Busy(name) /\ knowndevs' = Unmounted(i)
    /\ UNCHANGED <<attached, vn, p_cwd, bootfs_vnode, started, down>>

-----------------------------------------------------------------------------
\* Bug for the checks: shutdown leaves bootfs_vnode as it is.
KeepBootfs(q, f) ==
    /\ Menu_ready /\ q \in started \cup {"kproc"}
    /\ vfsphase' = "clearcurdir" /\ shutter' = q
    /\ UNCHANGED <<attached, knowndevs, vn, bootfs_vnode, p_cwd, started, unmounting, gaveup>>

\* shutdown, by the menu or by the reboot call of a program: vfs_clearbootfs,
vfs_clearbootfs(q, f) ==
    /\ Menu_ready /\ q \in started \cup {"kproc"}
    /\ vn' = DropRef(vn, bootfs_vnode, f) /\ bootfs_vnode' = NoVnode
    /\ vfsphase' = "clearcurdir" /\ shutter' = q
    /\ UNCHANGED <<attached, knowndevs, p_cwd, started, unmounting, gaveup>>

\* vfs_clearcurdir, of the process that runs,
vfs_clearcurdir(f) ==
    /\ vfsphase = "clearcurdir"
    /\ vn' = DropRef(vn, p_cwd[shutter], f) /\ p_cwd' = [p_cwd EXCEPT ![shutter] = NoVnode]
    /\ vfsphase' = "unmountall"
    /\ UNCHANGED <<attached, knowndevs, bootfs_vnode, started, shutter, unmounting, gaveup>>

\* and vfs_unmountall, one device at a time; sync (twice) or unmount may fail.
vfs_unmountall(ok) ==
    LET i == unmounting
        kd == knowndevs[i]
    IN  /\ vfsphase = "unmountall" /\ i <= Len(knowndevs)
        /\ unmounting' = i + 1
        /\ CASE kd.raw = NoName \/ ~kd.fs -> UNCHANGED <<knowndevs, gaveup>>
             [] kd.raw # NoName /\ kd.fs /\ ~ok -> gaveup' = gaveup \cup {kd.name} /\ UNCHANGED knowndevs
             [] kd.raw # NoName /\ kd.fs /\ ok /\ Busy(kd.name) -> UNCHANGED <<knowndevs, gaveup>>
             [] OTHER -> knowndevs' = Unmounted(i) /\ UNCHANGED gaveup
        /\ UNCHANGED <<attached, vn, p_cwd, bootfs_vnode, started, vfsphase, shutter>>

thread_shutdown ==
    /\ vfsphase = "unmountall" /\ unmounting > Len(knowndevs)
    /\ vfsphase' = "off"
    /\ UNCHANGED <<attached, knowndevs, vn, p_cwd, bootfs_vnode, started, shutter, unmounting, gaveup>>

VfsNext ==
    \/ vfs_doadd \/ vfs_getcwd \/ thread_shutdown
    \/ \E path \in Paths, to \in {"dir", "file"}, f \in VfsFaults : vfs_chdir(path, to, f)
    \/ \E name \in DevNames \cup Volnames, f \in VfsFaults : vfs_setbootfs(name, f)
    \/ \E p \in Programs, forked \in BOOLEAN, f \in VfsFaults : proc_create_runprogram(p, forked, f)
    \/ \E name \in DevNames, vol \in Volnames : vfs_mount(name, vol)
    \/ \E name \in DevNames : vfs_unmount(name)
    \/ \E q \in Processes, f \in VfsFaults : vfs_clearbootfs(q, f)
    \/ \E f \in VfsFaults : vfs_clearcurdir(f)
    \/ \E ok \in BOOLEAN : vfs_unmountall(ok)

VfsSpec == VfsInit /\ [][VfsNext]_vfsVars

-----------------------------------------------------------------------------
Holders(v) == Cardinality({p \in Processes : p_cwd[p] = v}) + (IF bootfs_vnode = v THEN 1 ELSE 0)
                + (IF v \in vn.lost THEN 1 ELSE 0)

(***************************************************************************)
(* The reference counts are exact through every command that fails half    *)
(* way: each vnode is held once for each current directory, the boot file  *)
(* system and a failed reclaim, and by nothing else.  So no directory that *)
(* a process or a "/" path starts from goes away with an unmount, it is    *)
(* never a device, and no assertion of the VFS layer fails.                *)
(***************************************************************************)
DirectoriesHeld ==
    /\ ~vn.bad
    /\ \A v \in Vnodes : vn.rc[v] = Permanent(v) + Holders(v)
    /\ \A v \in ({p_cwd[p] : p \in Processes} \cup {bootfs_vnode}) \ {NoVnode} :
         IsDir(v) /\ \E i \in 1 .. Len(knowndevs) : knowndevs[i].name = v[1] /\ knowndevs[i].fs

(***************************************************************************)
(* shutdown leaves nothing mounted behind: a volume that is still mounted  *)
(* when the CPUs are stopped is one that could not be written, or one that *)
(* another process (or a failed reclaim) still has a directory in.         *)
(***************************************************************************)
ShutdownUnmounts ==
    vfsphase = "off" =>
        \A i \in 1 .. Len(knowndevs) : knowndevs[i].raw # NoName /\ knowndevs[i].fs =>
            \/ knowndevs[i].name \in gaveup
            \/ \E p \in Processes \ {shutter} : p_cwd[p][1] = knowndevs[i].name
            \/ \E v \in vn.lost : v[1] = knowndevs[i].name
=============================================================================
