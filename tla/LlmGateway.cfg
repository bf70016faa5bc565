\* Two streams in a worker, three deployments.
CONSTANTS
    Contexts = {s1, s2}
    Registry <- MCRegistry
    Nested <- MCNested
    Configs <- MCConfigs
    Requests <- MCRequests
    MaxRequests <- MCMaxRequests
    Ratelimits <- MCRatelimits
    Values = {"a", "b"}
    MaxTicks = 1
SYMMETRY Symmetry
SPECIFICATION Spec
CHECK_DEADLOCK FALSE
INVARIANTS LimitsHold UpstreamFits SpecificWins AnswerReadAsAsked
