SPECIFICATION FairSpec
CONSTANTS
    f1 = f1
    f2 = f2
    u1 = u1
    u2 = u2
    TargetSeconds = 1
    MinHeadBytes = 1
    MaxHeadBytes = 2
    TailBytes = 1
    frontReadCap = 1
    maxFrontBytes = 1
    maxTailBytes = 2
    Files <- MCFiles
    FileSize <- MCFileSize
    Layout <- MCLayout
    Targets <- MCTargets
    Users <- MCUsers
    Path <- MCPath
    Unmapped <- MCUnmapped
    Pooled = {FALSE}
    RankedLists <- Ranked
    Budgets = {4}
    Fuse = {f2}
    Shared = {f1, f2}
    Wedgeable = {}
    probeBytes = 1
    ProbeDeadline = TRUE
PROPERTIES
    PassTerminates
    EventuallyWarm
