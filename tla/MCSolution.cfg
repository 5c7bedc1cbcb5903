CONSTANTS
    CustomersNum = 4
    Capacity = 10
    Demand <- UnitDemand
    Dist <- MCDist
    HistoryLen = 3
    StartLists <- MCLists
    MaxOps = 2
SPECIFICATION Spec
INVARIANTS
    CachedIsExact
    RouteIndices
    CacheIsRecent
PROPERTIES
    ImplementsRouteSet
    UndoRestores
