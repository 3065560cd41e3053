SPECIFICATION ObjSpec
CONSTANTS
  Thread = {t1, t2}
  Main = t1
  None = None
  Used = {"eval"}
  Depth = 1
  Total = 1
  TotalAfter = 1
  MaxEntry = 2
  MaxSpoilt = 1
  Var = {x, y}
  Addr = {a, b}
  Mon = {m1, m2}
  Blocks = 2
SYMMETRY VarSymmetry
INVARIANTS
    MonitorsInv
    BlocksExclude
    NoOtherDeadlock
CHECK_DEADLOCK FALSE
