\* Three threads, entries nested twice, every operation called by anybody.
SPECIFICATION FairSpec
CONSTANTS
    None = None
    Thread = {t1, t2, t3}
    MaxEntry = 2
    Misuse = TRUE
    Negative = TRUE
INVARIANTS
    IInv
PROPERTIES
    ImplementsMonitorSpec
    FreeMonitorTaken
