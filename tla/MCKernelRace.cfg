CONSTANTS
    Tasks <- RaceTasks
    Author <- MCAuthor
SPECIFICATION Spec
INVARIANT OutputsMatch
