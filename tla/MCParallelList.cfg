CONSTANTS
    Worker = {w1, w2, w3}
    Cand <- MCCand
    Root <- MCRoot
    Choices <- MCChoices
    Leaf <- MCLeaf
    Bound <- MCBound
    Under <- MCUnder
    Reach <- MCReach
    Inf = 3
    NoCand = NoCand
SPECIFICATION FairSpec
INVARIANTS CountIsActive NoEarlyExit NothingLost ExhaustiveList
PROPERTIES Termination ImplementsStore
CHECK_DEADLOCK FALSE
