SPECIFICATION Spec
CONSTANTS
    MaxSteps = 2
    MaxThreads = 2
    MaxLevel = 2
    MaxAdded = 1
    MaxConstraints = 2
    MaxTodo = 2
    Word = 8
INVARIANTS StatesMatchConstraints EveryConstraintPropagated ObjectiveUndivided
CHECK_DEADLOCK FALSE
