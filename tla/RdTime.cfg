SPECIFICATION ClockSpec
CONSTANTS
    MaxHigh = 2
    MaxLow = 3
INVARIANTS NotTorn EndAfterStart
CHECK_DEADLOCK FALSE
