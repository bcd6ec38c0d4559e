SPECIFICATION FeSpec
CONSTANTS
  Vars <- MCVars
  NoVar = ""
  Funcs <- MCFuncs
  NoFunc = ""
  Main = "main"
  Leftovers = {0}
  Outputs = {}
  Programs = {}
  Inputs <- SomeInputs
  Sources <- MCSources
INVARIANTS AcceptedTranslates GraphCovers JumpsResolve ArgsMatchParams UsedIsStored MeansWhatItSays
PROPERTY FrontEndEnds
CHECK_DEADLOCK FALSE
