SPECIFICATION Spec
CONSTANTS
    Hosts = {0, 1}
    Nodes = {0, 1, 2}
    AffinityNode = 1
    SocketNodes = {0, 1}
    VfSlots = {1, 2}
    PfSlots = {3, 4}
    VdpaSlots = {5, 6}
    Hotplug = {TRUE, FALSE}
    MaxFailed = 1
INVARIANTS
    TypeOK
    NoFalseAlarm
    CleanedUp

    
CHECK_DEADLOCK FALSE
