SPECIFICATION FutexFairSpec
CONSTANTS
    Contexts = {2, 3}
    KMAIN = 1
    None = None
    MaxTime = 1
    MaxSignals = 1
    Delays = {1}
    KillTargets = {3}
    Addrs = {a1, a2}
    Values = {0, 1}
    MaxEntries = 3
INVARIANT FutexExact
PROPERTY WokenReturns
