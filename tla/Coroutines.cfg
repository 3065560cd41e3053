SPECIFICATION Spec
CONSTANTS
    Main = main
    Function = {f, g, h}
    Methods = {g}
    Depth = 2
    Gentle = TRUE
INVARIANTS
    MonitorInv
    ResumesJustAfter
CHECK_DEADLOCK FALSE
