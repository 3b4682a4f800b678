SPECIFICATION Spec
CONSTANTS
    N = 3
    Options = {}
    Values = {}
    NoValue = NoValue
    MaxPolls = 2
INVARIANTS
    NoSplitBrain
    FirstEvacuatedWhenAsserted
    PassedAfterEvacuation
    ServiceStartedAgain
PROPERTY
    Termination
CHECK_DEADLOCK FALSE
