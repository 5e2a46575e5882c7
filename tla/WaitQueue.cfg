SPECIFICATION FairSpec
CONSTANTS
    Contexts = {2, 3, 4}
    KMAIN = 1
    None = None
    MaxTime = 2
    MaxSignals = 1
    MaxSent = 2
    MaxBuf = 2
    Delays = {1}
    KillTargets = {3}
INVARIANT NoLostWakeup
PROPERTIES FifoSpec ReceiverReturns
