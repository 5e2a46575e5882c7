SPECIFICATION MCSpec
CONSTANTS
    Hosts = {"c", "s"}
    Threads = {1, 2}
    Opens <- MCOpens
    Remotes <- MCRemotes
    M = 8
    Initial = {7}
    Cloners = {"c"}
    Flags = {TRUE}
    ReadLengths = {1}
    WriteLengths = {1, 2}
    MaxHandles = 2
    MaxBytes = 1
    MaxOdd = 1
    MaxWire = 2
    Me = "me"
    Router = "r"
    Subnet = {"p", "me"}
    Users = {1}
    MaxDatagrams = 2
    MaxFiles = 2
    U16 = 64
INVARIANTS
    TcpExact
    StackExact
    IrcExact
    OneOffer
PROPERTY Handshake
CHECK_DEADLOCK FALSE
