\* The instance of MCTelemetryLate.cfg with the invariants of the ack and the queue's runner.
CONSTANTS
    DurableKinds = {d, bad}
    LatestKinds = {h}
    InvalidKinds = {bad}
    Capacity = 2
    MaxAttempts = 1
    StoreOutcomes = {TRUE, FALSE}
    SinkOutcomes = {TRUE}
    MaxSeq = 3
    DeliveryQueueDepth = 2
    MaxLate = 1
    MaxRelayRestarts = 0
    MaxIngestRestarts = 0
SPECIFICATION Spec
INVARIANTS
    NothingInFlightBelowAck
    RunnerHasTheQueue
