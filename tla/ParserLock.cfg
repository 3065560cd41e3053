SPECIFICATION Spec
CONSTANTS
  Thread = {t1, t2}
  Main = t1
  Used = {"execute","load","preload","stream","eval","expression","run","delegate"}
  None = None
  Depth = 2
  Total = 3
  TotalAfter = 2
  MaxSpoilt = 1
  MaxEntry = 3
INVARIANTS
    LockInv
    ParserInv
    JoinsWithoutLock
CHECK_DEADLOCK FALSE
