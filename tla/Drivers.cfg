SPECIFICATION MCSpec
CONSTANTS
    Lines <- CardLines
    UserAcked = {1, 10, 12}
    Drivers = {"e1000d", "ps2d"}
    DriverOf <- CardDrivers
    Cards = {10}
    MaxRaised <- CardRaised
    None = None
CHECK_DEADLOCK FALSE
INVARIANTS InServiceExact NicExact DiskExact ConsoleExact
PROPERTY DevicesAnswered
