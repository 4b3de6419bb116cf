CONSTANTS
    Worker = {1, 2}
    Backends = {"x86", "cuda", "mppa", "fake"}
    QueueSize = 1
    Slots = 3
    MaxKernels = 2
    MayFail = TRUE
SPECIFICATION Spec
INVARIANTS OwnKernel SoundToolsNeverPanic
PROPERTIES EvaluationEnds
CHECK_DEADLOCK FALSE
