SPECIFICATION Spec
CONSTANTS
    Procs = {p1, p2, p3}
    NoOne = NoOne
INVARIANTS TextIntact FreeWhenEmpty
PROPERTY ImplementsSection
CHECK_DEADLOCK FALSE
