SPECIFICATION Spec
CONSTANTS
    Spellings <- MCSpellings
    cfgKeyNormalize <- MCNormalize
    NoUser = NoUser
    Calls <- MCCalls
    MaxCandidates = 4
    Libraries <- MCLibraries
    Located <- MCLocated
    Mapped <- MCMapped
    NoLibrary = NoLibrary
    Selections <- MCSelections
    HeadAndTail <- MCHeadAndTail
    estimateResumeFrontBytes = 2
INVARIANT MeterErrsHigh
CHECK_DEADLOCK FALSE
