CONSTANTS
  ValLimit = 7
  SumLimit = 15
  Numbers <- MCNumbers
  VarCount = 3
  MaxLen = 4
  AtomPrograms <- StrictPrograms
  Parts = {"normalize"}
SPECIFICATION ParsingSpec
INVARIANTS SolutionsPreserved
CHECK_DEADLOCK FALSE
