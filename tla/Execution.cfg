\* Nested try, catch, finally, foreach and synchronized; loops of every kind, if
\* and switch around guarded jumps; and any catch and finally code.
CONSTANTS
    Program <- MCProgram
    MaxTrue = 3
SPECIFICATION Spec
INVARIANTS
    StacksRight
    Faithful
    FinallyInTime
PROPERTIES
    FinallyAlways
    PhasesAdvance
