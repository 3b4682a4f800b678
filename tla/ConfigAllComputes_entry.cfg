SPECIFICATION Spec
CONSTANTS
    N = 2
    Options = {"a", "b"}
    Values = {"old", "new"}
    NoValue = NoValue
    MaxPolls = 1
    M = 2
    OptionOf <- MCOptionOf
    ValueOf <- MCValueOf
    SpuriousNotFound = FALSE
INVARIANT
    OptionsRestored
CHECK_DEADLOCK FALSE
