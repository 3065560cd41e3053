SPECIFICATION Spec
CONSTANTS
    Main = "main"
    None = "none"
    Function <- ProgramFunctions
    Class <- ProgramClasses
    Parent <- ProgramParent
    Super <- ProgramSuper
    MaxFrames = 6
    MaxCalls = 5
    Gentle = TRUE
INVARIANTS
    FramesInv
    LinksReach
CHECK_DEADLOCK FALSE
