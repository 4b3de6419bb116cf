CONSTANTS
    Worker = {w1, w2}
    Leaf <- MCLeaf
    Reach <- MCReach
    Bound <- MCBound
    Time <- MCTime
    Valid <- MCValid
    Inf = 16
    NoLeaf = NoLeaf
    HasCheck = TRUE
    CheckAll = FALSE
    StopBound = 0
    Ratio = 0
    MaxEvals = 0
    HasTimeout = FALSE
    RestartModes = {TRUE}
    RestartEvery = 1
    EvalBuffer = 1
SPECIFICATION FairSearchSpec
PROPERTIES SearchEnds
CHECK_DEADLOCK FALSE
