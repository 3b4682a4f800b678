SPECIFICATION SuiteSpec
CONSTANTS
    Disks = 2
    Storage = {1, 3, 4}
    MaxFailed = 1
INVARIANTS
    SuiteTypeOK
    FirstDetachIsOver
    LibvirtRestored
    CleanedUp
    RefusedOnlyAfterFailure
    VolumesNoFalseAlarm
PROPERTIES
    DeletionsTried
CHECK_DEADLOCK FALSE
