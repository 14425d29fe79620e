CONSTANTS
  ValLimit = 7
  SumLimit = 15
  Numbers <- MCNumbers
  VarCount = 3
  MaxLen = 4
  AtomPrograms <- MCPrograms
  Parts = {"arithmetic", "normalize", "rewrite"}
SPECIFICATION ParsingSpec
INVARIANTS EvaluationExact AcceptedSumsFit SolutionsPreserved SolutionsUnique MeaningPreserved
CHECK_DEADLOCK FALSE
