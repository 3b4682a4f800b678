SPECIFICATION Spec
CONSTANTS
    N = 3
    Options = {}
    Values = {}
    NoValue = NoValue
    MaxPolls = 1
INVARIANT
    EvacuatedWhenAsserted
CHECK_DEADLOCK FALSE
