CONSTANTS
    VerticesNum = 3
    MaxNeighbors = 1
    Instances <- MCInstances
    Tolerance = 1
    TrueDeltas <- MCTrueDeltas
    Deltas <- MCDeltas
    NextDeltas <- Rotate
    MaxMoves = 1
    MaxCycles = 2
SPECIFICATION Spec
INVARIANTS
    OneMoveForEachPair
    ListsHoldTheActive
    HeapIsConsistent
    HeapedIsTrue
    NoMoveMissed
