SPECIFICATION NonlinearSpec
CONSTANTS
    NumVars = 3
    Starts <- MCStarts
    MaxLevel = 1
INVARIANT NonlinearClausesEntailed
CHECK_DEADLOCK FALSE
