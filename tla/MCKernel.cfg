CONSTANTS
    Tasks <- MCTasks
    Author <- MCAuthor
SPECIFICATION Spec
INVARIANTS NeverPanics OutputsMatch BodyComputesExpected StoresOnce BoundIsLower
