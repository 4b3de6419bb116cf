CONSTANTS
    Worker = {w1, w2, w3}
    Leaf <- MCLeaf
    Reach <- MCReach
    Bound <- MCBound
    Time <- MCTime
    Valid <- MCValid
    Inf = 16
    NoLeaf = NoLeaf
    HasCheck = TRUE
    CheckAll = FALSE
    StopBound = 0
    Ratio = 25
    MaxEvals = 2
    HasTimeout = TRUE
    RestartModes = {FALSE, TRUE}
    RestartEvery = 1
    EvalBuffer = 2
SPECIFICATION FairSearchSpec
INVARIANTS BestInSync BestIsChecked Optimal RestartIsExclusive
PROPERTIES CutNeverRises PlainSearchEnds
CHECK_DEADLOCK FALSE
