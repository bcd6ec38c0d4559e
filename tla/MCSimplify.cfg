SPECIFICATION SimpSpec
CONSTANTS
  Vars <- MCVars
  NoVar = ""
  Funcs <- MCFuncs
  NoFunc = ""
  Main = "main"
  Leftovers <- MCLeftovers
  Outputs <- MCOutputs
INVARIANTS MarksExact DropsOnlyDeadStores KeepsInOrder
PROPERTY SimplifyEnds
CHECK_DEADLOCK FALSE
