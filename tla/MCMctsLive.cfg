CONSTANTS
    Thread = {t1, t2}
    Node <- TightNode
    Root = 1
    Kids <- TightKids
    Parent <- TightParent
    Failing = {}
    Bound <- TightBound
    Time <- TightTime
    Inf = 4
    InitCut = 4
    None = None
    Backtrack = FALSE
    CanStop = FALSE
    MaxRestart = 1
SPECIFICATION FairSpec
PROPERTIES ExplorationEnds DeadStaysDead
CHECK_DEADLOCK FALSE
