CONSTANTS
    CustomersNum = 8
    Capacity = 8
    Demand <- OneHeavy
    Dist <- NoDist
    Operators <- AllOperators
    StartSolutions <- MCStarts
    MaxMoves = 1
SPECIFICATION Spec
INVARIANTS
    StaysFeasible
    MoveIsReplayable
    NoStaleDelta
PROPERTIES
    DeltaIsExact
