SPECIFICATION FairSpec
CONSTANTS
    NumVars = 2
    Cons = {"c1", "min"}
    Coef <- MinCoef
    Rhs <- MinRhs
    Minimize = "min"
    Facts = {"min"}
    InitLower <- MinLower
    InitUpper <- MinUpper
    Objectives <- MinObjectives
    NoBound = NoBound
    MaxLevel = 2
CHECK_DEADLOCK FALSE
INVARIANTS 
    NoViolationAtFixpoint
    UnsatCorrect
PROPERTIES
    PropagationTerminates
