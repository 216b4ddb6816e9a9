SPECIFICATION Spec
CONSTANTS
    Workers = {w1, w2}
    MaxRuns = 4
    MaxInit = 3
INVARIANTS ReadyWhenFound CountExact ZeroOnlyInsideOrLost
PROPERTY ImplementsSections
CHECK_DEADLOCK FALSE
