SPECIFICATION Spec
CONSTANTS
    NumVars = 2
    Cons = {"c1", "c2"}
    Coef <- SatCoef
    Rhs <- SatRhs
    Minimize = "none"
    Facts = {"c1"}
    InitLower <- SatLower
    InitUpper <- SatUpper
    Objectives = {}
    NoBound = NoBound
    MaxLevel = 3
CHECK_DEADLOCK FALSE
INVARIANTS
    TypeOK
    FramesMatchStacks
    TodoMatchesFlags
    PendingListed
    SumsMatchBounds
    InactiveJustified
    FullCheckSucceeds
PROPERTIES
    ConsequencesEntailed
    ImplementsTrail
