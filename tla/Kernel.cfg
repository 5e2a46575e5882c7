SPECIFICATION KernelSpec
CONSTANTS
    Areas <- FourAreas
    KernelEnd = 8
    Counts = {1, 2, 3}
    MaxDepth = 7
    NoArea = NoArea
    None = None
    EBADF = EBADF
    Callers = {c1, c2}
SYMMETRY Symmetry
CHECK_DEADLOCK FALSE
INVARIANTS NoFrameTwice NoFrameLost ProcessExact FilesExact
