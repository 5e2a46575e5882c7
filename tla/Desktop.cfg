SPECIFICATION MCSpec
CONSTANTS
    Scenarios <- MCScenarios
INVARIANTS
    TerminalExact
    OrbitalExact
PROPERTY TerminalEnds
CHECK_DEADLOCK FALSE
