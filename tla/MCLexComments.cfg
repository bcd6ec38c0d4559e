SPECIFICATION LexSpec
CONSTANT MaxLength = 6
INVARIANTS TokensOutsideComments UnclosedIsTold
PROPERTY LexEnds
CHECK_DEADLOCK FALSE
