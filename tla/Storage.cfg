SPECIFICATION StorageSpec
CONSTANTS
    Size = 11
    BS = 2
    NE = 2
    Names = {"a", "b"}
    Users = {0, 1}
    Lengths = {1, 3}
    Servers = {"scheme", "fuse", "shell"}
    MaxOpen = 1
    MaxRequests = 2
    Block = {0, 1, 2}
    Value = {0, 1}
    Capacity = 2
    MaxLen = 3
INVARIANTS
    EntriesSurvive
    DataKept
PROPERTIES DiskSpec LruExact
CHECK_DEADLOCK FALSE
