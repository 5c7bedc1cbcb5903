CONSTANTS
    CustomersNum = 4
    Capacity = 3
    Demand <- DemandsFour
    Dist <- DistFour
    Neighbors <- NeighborsFour
    LocalOperators <- BasicOperators
    Starts <- MCStarts
    StartRoutes = {3}
    RouteMinIter = 2
SPECIFICATION Spec
INVARIANTS
    ListsLinkTheSolutions
    NoCustomerLost
    SeedExists
    BestIsComplete
PROPERTIES
    BestImproves
