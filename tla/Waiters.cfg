SPECIFICATION Spec
CONSTANTS
    Second = 2
    Timeout = 4
    Interval = 1
    MaxCall = 2
    MaxLate = 1
    Horizon = 22
INVARIANTS
    NotTooEarly
    SeenInTime
    NotTooLate
    PollsAreSpaced
CHECK_DEADLOCK FALSE
