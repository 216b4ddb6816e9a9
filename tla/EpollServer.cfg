SPECIFICATION Spec
CONSTANTS
    Clients = {c1, c2}
    Commands = {"P"}
    NumFds = 2
    MaxEvents = 2
    PayCap = 1
    MaxSend = 2
    MaxTotal = 3
INVARIANTS EventsFresh PaymentsInOrder
PROPERTIES Drained Accepted
CHECK_DEADLOCK FALSE
