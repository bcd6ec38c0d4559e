SPECIFICATION DSpec
CONSTANTS
  MaxEdits = 3
  BufLines = 2
INVARIANTS ReadsWholeIr CodeOnlyOfGood IrNotOlder MessagesMatchCode
