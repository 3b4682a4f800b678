SPECIFICATION Spec
CONSTANTS
    Hosts = {0, 1}
    Cells = {0, 1}
    MaxDedicated = 3
    MaxShared = 1
    MaxFailed = 1
INVARIANTS
    TypeOK
    NoFalseAlarm
    CleanedUp

    
CHECK_DEADLOCK FALSE
