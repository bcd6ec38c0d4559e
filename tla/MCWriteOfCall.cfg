CONSTANTS
  Vars <- MCVars
  NoVar = ""
  Funcs <- FuncNames
  NoFunc = ""
  Main = "main"
  Rank <- MCRank
  WordSymbol <- Underscored
  LabelSymbol <- Numbered
  FuncSymbol <- Itself
  OwnSymbols <- OwnLabels
  Reserved <- Mnemonics
  Inputs <- SomeInputs
  Leftovers <- SomeLeftovers
  StackWords = 36
  Programs <- WriteOfCall
SPECIFICATION Spec
PROPERTY WritesItsOperand
