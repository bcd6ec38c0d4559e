SPECIFICATION AnSpec
CONSTANT Sources <- MCSources
INVARIANTS AcceptsTheTyped ReportsEachMisuse
PROPERTY FirstDeclarationStands
CHECK_DEADLOCK FALSE
