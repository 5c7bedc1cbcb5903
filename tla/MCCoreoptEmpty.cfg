CONSTANTS
    CustomersNum = 3
    Capacity = 2
    Demand <- UnitDemands
    Dist <- DistThree
    Neighbors <- NeighborsThree
    LocalOperators <- BasicOperators
    Customers <- customers
    Depot <- depot
    Solutions <- MCSolutions
    Changes <- MCChanges
    Actions <- AllActions
    IsApplicable <- Applicable
    Apply <- ApplyAction
    Record <- RecordAction
    IsLoadFeasible <- LoadFeasible
    Cost <- TotalCost
    RoutesNum <- MCRoutesNum
    CacheSize = 4
    MaxIter = 5
    Coin <- MCCoin
    Slack <- MCSlack
    OmegaBase = 2
    GammaTop = 2
    DeltaPercent = 50
    LbPercent = 40
    UbPercent = 90
    Seeds = {3}
    StartSolution <- MCStart
    StartPosition <- MCStartPosition
    SolversNum = 1
    SavingsSolution <- MCSavings
    Candidates <- MCCandidates
    MaxInbox = 1
    SeedCustomers = {1}
    Breadth = 0
    Poor = 1
    SlackLevels <- TenThree
    Table <- MCTable
SPECIFICATION Spec
INVARIANTS
    NoEmptyChange
