SPECIFICATION MCSpec
CONSTANTS
    Contexts = {2, 3}
    KMAIN = 1
    None = None
    MaxTime = 0
    MaxSignals = 1
    Delays = {}
    KillTargets = {2}
    FlagSets <- BothFlags
    MaxDups = 1
    MaxWritten = 2
    MaxBuf = 2
CHECK_DEADLOCK FALSE
INVARIANTS PipeExact CallExact
PROPERTIES EofReached CallReturns
