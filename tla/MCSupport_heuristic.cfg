CONSTANTS
  Ends <- MCEnds
  Theories = {"a", "b"}
  Targets <- MCTargets
  OptionValues <- MCValues
  Initial <- MCInitial
  NumThreads = 2
  NumVars = 3
  MaxCalls = 3
  MaxCounts = 1
  SearchThreads = {"t1", "t2"}
  Vars = {1, 2}
  Programs <- MCPrograms
  NoBound = 1000
  Parts = {"interface"}
SPECIFICATION SupportSpec
INVARIANTS HeuristicActive
CHECK_DEADLOCK FALSE
