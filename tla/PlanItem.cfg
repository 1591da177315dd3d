SPECIFICATION Spec
CONSTANTS
    TargetSeconds = 2
    MinHeadBytes = 3
    MaxHeadBytes = 5
    TailBytes = 3
    frontReadCap = 3
    maxFrontBytes = 3
    maxTailBytes = 3
    Items <- MCItems
    Sizes <- MCSizes
    Fronts <- MCFronts
    MaxChildren = 3
    estimateResumeFrontBytes = 3
INVARIANTS
    RangesDisjoint
    FrontMetadataCovered
    PlaybackWindowCovered
    CueStartWarmedUnlessBeforeContent
    IndexFoundAsWritten
    MeterErrsHighOnFlatTails
CHECK_DEADLOCK FALSE
