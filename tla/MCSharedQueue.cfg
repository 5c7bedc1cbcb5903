CONSTANTS
    Producers = {p1, p2}
    Owner = owner
    NoThread = none
    MaxItems = 2

SPECIFICATION FairSpec

INVARIANT TypeOK
INVARIANT NoLostWakeup
INVARIANT SnapshotNeverBlocks
PROPERTY ImplementsFifoChannel
PROPERTY EveryItemReceived
