CONSTANTS
    Thread = {t1, t2}
    Edge = {1, 2}
    Policies = {"rr", "uct", "tag"}
    Value = {1, 2}
    TopK = 2
    MaxDescents = 4
    MaxRestart = 1
SPECIFICATION Spec
INVARIANTS TopkOfHistory SuccessesReachTopk HevalDefined RoundRobinBalanced
CHECK_DEADLOCK FALSE
SYMMETRY ThreadSymmetry
