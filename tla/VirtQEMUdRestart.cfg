SPECIFICATION SuiteSpec
CONSTANTS
    N = 2
    Options = {"traits"}
    Values = {"trait_a", "trait_b"}
    NoValue = NoValue
    MaxPolls = 2
INVARIANTS
    CreatedAfterRestart
    YamlNoFalseAlarm
    TraitFromFile
PROPERTY
    Termination
CHECK_DEADLOCK FALSE
