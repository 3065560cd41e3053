\* One creator and one child are enough.
CONSTANTS
    Creator = {k1}
    Child = {c1}
    Id = {i1}
    None = None
SPECIFICATION Spec
INVARIANTS JoinSafe
CHECK_DEADLOCK FALSE
