CONSTANTS
  t1 = t1
  t2 = t2
  shared = shared
  NoThread = NoThread
  Thread = {t1, t2}
  Shared = {shared}
  Cells = 3
  MaxLen = 2
  Statements = 2
SPECIFICATION Spec
INVARIANTS
    CountInv
    NoDangling
PROPERTIES
    FinalizedOnce
    LoopsEnd
CHECK_DEADLOCK FALSE
