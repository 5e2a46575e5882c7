SPECIFICATION Spec
CONSTANTS
    Threads = {t1, t2, t3}
    None = None
    USER_GRANT_OFFSET = 8192
    Addresses = {0, 4095}
    Sizes = {0, 1, 4097, 8192}
    MaxGrants = 1
CHECK_DEADLOCK FALSE
INVARIANT NoPanic
