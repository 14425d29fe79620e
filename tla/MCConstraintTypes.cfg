SPECIFICATION TypesSpec
CONSTANTS
    NumVars = 3
    Starts <- MCStarts
    MaxLevel = 2
    Weight <- MCWeight
    Elems <- MCElems
    Coef <- MCCoef
    Fixed <- MCFixed
INVARIANTS ClausesEntailed FullCheckSucceeds InactiveJustified BoundsSupported CachesConsistent
CHECK_DEADLOCK FALSE
