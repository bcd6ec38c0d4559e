CONSTANTS
  x = x
  y = y
  f = f
  GenLength = 3
  Vars = {x, y}
  NoVar = NoVar
  Funcs = {f}
  NoFunc = NoFunc
  Main = f
  Leftovers = {0}
  Programs <- ConstantCondition
SPECIFICATION GenSpec
INVARIANT NoAssertFails
CHECK_DEADLOCK FALSE
