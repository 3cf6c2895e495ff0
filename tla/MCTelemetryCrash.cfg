\* Overflow at capacity 1 and a crash on either side, under fair scheduling.
CONSTANTS
    DurableKinds = {d}
    LatestKinds = {}
    InvalidKinds = {}
    Capacity = 1
    MaxAttempts = 1
    StoreOutcomes = {TRUE}
    SinkOutcomes = {TRUE}
    MaxSeq = 3
    DeliveryQueueDepth = 1
    MaxLate = 0
    MaxRelayRestarts = 1
    MaxIngestRestarts = 1
SPECIFICATION FairSpec
INVARIANTS
    NoSilentLoss
    NothingInFlightBelowAck
PROPERTIES
    ImplementsCustody
    BacklogDrains
    AckCatchesUp
