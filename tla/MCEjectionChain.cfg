CONSTANTS
    CustomersNum = 7
    Capacity = 3
    Demand <- OneHeavy
    Dist <- NoDist
    StartSolutions <- MCStarts
    MaxNodes = 5
    MaxSearches = 1
SPECIFICATION Spec
INVARIANTS
    ChainIsFeasible
    NoStaleChainDelta
PROPERTIES
    ChainGainIsExact
