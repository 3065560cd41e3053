\* A consumer with a time limit and one without.
SPECIFICATION JobFairSpec
CONSTANTS
    None = None
    Producer = {p1, p2}
    Consumer = {c1, c2}
    Thread = {p1, p2, c1, c2}
    MaxEntry = 2
    Misuse = TRUE
    Negative = FALSE
    Puts = 2
    Gets = 1
    Timed = {c1}
    Spurious = 1
INVARIANTS
    JobInv
    JobsGiven
PROPERTIES
    EverybodyServed
CHECK_DEADLOCK FALSE
