SPECIFICATION Spec
CONSTANTS
    Creator = creator
    Child = child
    Capacity = 1
    BufferSize = 2
    MaxOut = 3
INVARIANTS
    ConnectionInv
    ConnectionOutlives
PROPERTIES
    LocksSettle
    ReadsReturn
CHECK_DEADLOCK FALSE
