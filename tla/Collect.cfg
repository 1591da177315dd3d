SPECIFICATION Spec
CONSTANTS
    ann = ann
    bob = bob
    NoItem = NoItem
    Users <- MCUsers
    Situations <- MCSituations
    Replies <- MCReplies
    Successors <- MCSuccessors
    Libraries <- MCLibraries
    NoPath = NoPath
    Ceilings <- MCCeilings
    LookupsPerUser = 2
INVARIANTS
    RequestsBounded
    TruncationNeverHidden
    CapsCountFiles
    SeriesFailureIsLocal
    MappedPathsAreReal
PROPERTY ScopeHonoured
CHECK_DEADLOCK FALSE
