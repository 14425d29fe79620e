SPECIFICATION Spec
CONSTANTS
    Lo = 0
    Hi = 3
    SignValue = 1
    Programs <- MCPrograms
INVARIANTS MapsConsistent BoundsMatchLiterals DecisionIsFree AddedHold
CHECK_DEADLOCK FALSE
