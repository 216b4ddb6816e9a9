SPECIFICATION Spec
CONSTANTS
    BusyTurns = 1
    MaxFifo = 1
    MaxPay = 1
    MaxCmds = 2
INVARIANTS StopWins BlocksOnlyAfterHangup
PROPERTIES NoInversion HealthServed ServedWhenPaymentsEnd ImplementsSection
