CONSTANTS
  Vars <- MCVars
  NoVar = ""
  Funcs <- MCFuncs
  NoFunc = ""
  Main = "main"
  Leftovers <- SomeLeftovers
  Inputs <- SomeInputs
  Outputs <- MCOutputs
  Programs <- MCPrograms
SPECIFICATION KrSpec
INVARIANTS ResultIsKept
PROPERTY SimplifiedMeans
CHECK_DEADLOCK FALSE
