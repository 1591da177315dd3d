SPECIFICATION Spec
CONSTANTS
    TargetSeconds = 2
    MinHeadBytes = 1
    MaxHeadBytes = 5
    TailBytes = 0
    frontReadCap = 1
    maxFrontBytes = 1
    maxTailBytes = 1
    Directories = {"alias", "cache", "disk1", "mixed", "user"}
    Numbered = {"disk1"}
    NonMembers = {"user"}
    Filesystems = {"C", "M", "D"}
    Devices = {"ssd1", "ssd2", "ssd3", "hdd", "md1"}
    btrfs = "btrfs"
    NoFs = NoFs
    Undetermined = Undetermined
    Hosts <- MCHosts
    unionRoot <- MCRoot
    Paths <- MCPaths
    Items <- MCItems
    Sizes = {6}
    Inodes = {1, 2}
    NoFile = 0
    shfs = "user"
    MaxMoves = 2
INVARIANTS
    PoolsNeverSpin
    NoSpinningLookups
    QuietAnswerExact
    SpinUpCovered
CHECK_DEADLOCK FALSE
