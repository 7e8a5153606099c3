SPECIFICATION StorageSpec
CONSTANTS
    NBLOCKS = 9
    NDIRECT = 1
    DBPERIDB = 2
    BSIZE = 2
    Names <- MCNames
    WriteArgs <- MCWriteArgs
    TruncArgs <- MCTruncArgs
    MaxOps = 4
    MaxHeld = 2
    MaxFaults = 1
    MaxCheck = 3
    Used <- MCUsed
    Damaged <- MCDamaged
    Attach <- MCAttach
    Volnames = {"vol", "emu0"}
    Programs = {p}
    Paths <- MCPaths
    LhdThreads = {t1, t2}
    d_blocks = 2
    LHD_WORD = 3
    MaxLen = 2
INVARIANTS
    MountedSound
    VnodeRefsExact
    ReadsLastWrite
    UnmountLeavesSound
    SyncedFilesSurvive
    FsckRepairs
    CleanMeansUntouched
    DirectoriesHeld
    ShutdownUnmounts
    LhdExact
CHECK_DEADLOCK FALSE
