CONSTANTS
    Customers = {1}
    Depot = 0
    Solutions <- Numbers
    Changes <- MoveChanges
    Actions <- Moves
    IsApplicable <- Fits
    Apply <- Moved
    Record <- MoveRecord
    IsLoadFeasible <- Always
    Cost <- Itself
    RoutesNum <- OneRoute
    CacheSize = 2
    MaxIter = 2
    Coin <- Tails
    Slack <- SomeSlack
    OmegaBase = 1
    GammaTop = 1
    DeltaPercent = 50
    LbPercent = 40
    UbPercent = 90
    Seeds = {0}
    StartSolution <- StartAt
    StartPosition <- NoDraws
    SolversNum = 2
    SavingsSolution <- Start
    Candidates <- NextNumber
    MaxInbox = 1
SPECIFICATION FairSpec
PROPERTIES
    Termination
