SPECIFICATION Spec
CONSTANTS
    N = 2
    Options = {"a", "b"}
    Values = {"new"}
    NoValue = NoValue
    MaxPolls = 2
    M = 2
    OptionOf <- MCOptionOf
    ValueOf <- MCValueOf
    SpuriousNotFound = TRUE
INVARIANTS
    BodySeesOptions
    HostsRestored
PROPERTIES
    StartsOnlyWhenReportedDown
    Termination
    ContextsNest
CHECK_DEADLOCK FALSE
