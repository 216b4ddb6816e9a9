SPECIFICATION Spec
CONSTANTS
    Threads = {t1, t2}
    NoThread = NoThread
    Files = {f1}
    Size = 2
    Bytes = {0, 1}
    MaxCount = 2
    Mappable = TRUE
INVARIANT PositionsInData
PROPERTIES CallsReturn ImplementsFile
