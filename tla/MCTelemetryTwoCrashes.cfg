\* Overflow at capacity 1; the relay crashes twice and the app peer once.
CONSTANTS
    DurableKinds = {d}
    LatestKinds = {h}
    InvalidKinds = {}
    Capacity = 1
    MaxAttempts = 1
    StoreOutcomes = {TRUE}
    SinkOutcomes = {TRUE}
    MaxSeq = 3
    DeliveryQueueDepth = 1
    MaxLate = 0
    MaxRelayRestarts = 2
    MaxIngestRestarts = 1
SPECIFICATION Spec
INVARIANTS
    ChannelInvariant
    NoSilentLoss
    OverflowIsMarked
PROPERTIES
    DiscardsOnlyWhatIsSettled
    ImplementsCustody
