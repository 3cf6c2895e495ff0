\* Two relays, one durable entry of a different kind each would record.
CONSTANTS
    DurableKinds = {d, d2}
    LatestKinds = {}
    InvalidKinds = {}
    Capacity = 2
    MaxAttempts = 1
    StoreOutcomes = {TRUE}
    SinkOutcomes = {TRUE}
    MaxSeq = 1
    DeliveryQueueDepth = 2
    MaxLate = 0
    MaxRelayRestarts = 0
    MaxIngestRestarts = 0
SPECIFICATION SiteSpec
INVARIANT AckMeansHandled
