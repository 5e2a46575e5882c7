SPECIFICATION UserSpec
CONSTANTS
    Scripts <- MCScripts
    Sources <- MCSources
    Opened = {"in"}
    Programs = {"p", "q"}
    Dirs = {"h", "d", "e"}
    Home = "h"
    MaxRemoved = 1
INVARIANTS
    IonExact
    CoreutilsExact
    TarExact
    CalcExact
    EditorExact
CHECK_DEADLOCK FALSE
