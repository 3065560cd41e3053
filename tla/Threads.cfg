\* Two creators, three children and two ids: ids are used again.
CONSTANTS
    Creator = {k1, k2}
    Child = {c1, c2, c3}
    Id = {i1, i2}
    None = None
SPECIFICATION FairSpec
INVARIANTS
    IInv
    FindsItself
PROPERTIES
    JoinMeansFinished
    JoinReturns
CHECK_DEADLOCK FALSE
