SPECIFICATION Spec
CONSTANTS
    f1 = f1
    f2 = f2
    u1 = u1
    u2 = u2
    TargetSeconds = 1
    MinHeadBytes = 1
    MaxHeadBytes = 2
    TailBytes = 1
    frontReadCap = 1
    maxFrontBytes = 1
    maxTailBytes = 2
    Files <- MCFiles
    FileSize <- MCFileSize
    Layout <- MCLayout
    Targets <- MCTargets
    Users <- MCUsers
    Path <- MCPath
    Unmapped <- MCUnmapped
    Pooled = {FALSE}
    RankedLists <- Ranked
    Budgets = {4, 6}
    Fuse = {f2}
    Shared = {f1}
    Wedgeable = {f2}
    probeBytes = 1
    ProbeDeadline = TRUE
INVARIANTS
    BudgetHonoured
    OnlyFailedHeadsUncharged
    PreloadedContentResident
    SkippedAreResident
    SkippedSamplesResident
PROPERTY IsBudgetedPass
CHECK_DEADLOCK FALSE
