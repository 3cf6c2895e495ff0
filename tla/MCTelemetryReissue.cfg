\* Two relay crashes, the first between the two writes of a Record.
CONSTANTS
    DurableKinds = {d, d2}
    LatestKinds = {}
    InvalidKinds = {}
    Capacity = 2
    MaxAttempts = 1
    StoreOutcomes = {TRUE}
    SinkOutcomes = {TRUE}
    MaxSeq = 2
    DeliveryQueueDepth = 1
    MaxLate = 0
    MaxRelayRestarts = 2
    MaxIngestRestarts = 0
SPECIFICATION Spec
INVARIANT EveryEntrySettled
