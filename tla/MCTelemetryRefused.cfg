\* Fair scheduling, crashes on both sides, appends that the log refuses.
CONSTANTS
    DurableKinds = {d}
    LatestKinds = {h}
    InvalidKinds = {}
    Capacity = 1
    MaxAttempts = 1
    StoreOutcomes = {TRUE}
    SinkOutcomes = {TRUE, FALSE}
    MaxSeq = 2
    DeliveryQueueDepth = 1
    MaxLate = 0
    MaxRelayRestarts = 1
    MaxIngestRestarts = 1
SPECIFICATION FairSpec
PROPERTIES
    BacklogDrains
    AckCatchesUp
