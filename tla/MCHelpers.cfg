CONSTANTS
    Item <- MCItem
    Vectors <- MCVectors
    Shapes <- MCShapes
    Selections <- MCSelections
    Orders <- MCOrders
    Child <- MCChild
    Bounds <- MCBounds
    Cut <- MCCut
SPECIFICATION MCSpec
INVARIANTS ResultIsSetOp SafeToUnwind MatchesReference
CHECK_DEADLOCK FALSE
