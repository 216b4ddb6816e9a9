SPECIFICATION Spec
CONSTANTS
    Procs = {p1, p2, p3}
    NoOne = NoOne
INVARIANT MutualExclusion
CHECK_DEADLOCK FALSE
