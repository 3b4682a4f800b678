SPECIFICATION ReadSpec
CONSTANTS
    NaN = NaN
    Numbers = {0, 1, 2}
    MaxRules = 3
    HostCpus = {0, 1, 2, 3}
    MaxRows = 2
    MaxCalls = 3
INVARIANTS
    ReadTypeOK
    JoiningAgrees
    HostNoFalseAlarm
    HostPassMeansPromise
    FreshAnswer
    NothingHeld
PROPERTY
    KeepsPromise
CHECK_DEADLOCK FALSE
