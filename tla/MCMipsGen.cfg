CONSTANTS
  x = x
  y = y
  f = f
  GenLength = 3
  Vars = {x, y}
  NoVar = NoVar
  Funcs = {f}
  NoFunc = NoFunc
  Main = f
  Leftovers = {0}
  Programs <- AcceptedLists
SPECIFICATION GenSpec
INVARIANTS GenTypeOK OperandsApart StoredAllocated NoAssertFails
PROPERTY GenEnds
CHECK_DEADLOCK FALSE
