CONSTANTS
    Thread = {t1, t2}
    Node <- MCNode
    Root = 1
    Kids <- MCKids
    Parent <- MCParent
    Failing = {3}
    Bound <- MCBound
    Time <- MCTime
    Inf = 4
    InitCut = 3
    None = None
    Backtrack = TRUE
    CanStop = TRUE
    MaxRestart = 0
SPECIFICATION Spec
INVARIANTS NoPanic StaleCutIsHigh ExplicitTree DeadForAReason Exhaustive
CHECK_DEADLOCK FALSE
SYMMETRY ThreadSymmetry
