CONSTANTS
  Vars = {"v0", "v1"}
  NoVar = "no variable"
  Funcs = {"main"}
  NoFunc = NoFunc
  Main = "main"
  Leftovers = {0}
  Files <- AllFiles
  FileLength = 2
SPECIFICATION ListSpec
INVARIANTS ListTypeOK InFileOrder PrintsBack
PROPERTY ReadingEnds
CHECK_DEADLOCK FALSE
