CONSTANTS
  Vars <- MCVars
  NoVar = ""
  Funcs <- FuncNames
  NoFunc = ""
  Main = "main"
  Rank <- MCRank
  WordSymbol <- Underscored
  LabelSymbol <- Numbered
  FuncSymbol <- Itself
  OwnSymbols <- OwnLabels
  Reserved <- Mnemonics
  Inputs <- SomeInputs
  Leftovers <- SomeLeftovers
  StackWords = 110
  Programs <- Suite
SPECIFICATION Spec
INVARIANTS TypeOK StackShape ReturnsToCall LinksAsStated
PROPERTIES FramesIntact RunEnds WritesItsOperand KeepsMeaning
