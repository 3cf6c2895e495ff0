\* By hand, violated: the event being retried is evicted and the next one is sent under its id.
SPECIFICATION Spec
CONSTANTS
  p1 = p1
  Producers = {p1}
  Cap <- CapOfClass
  Shapes <- SomeShapes
  MaxId = 2
  MaxAttempts = 2
  MaxFailures = 1
  Secrets = 1
  MaxEnables = 0
  MaxFaults = 0
INVARIANT
  DeliveryIdNamesOneEvent
CHECK_DEADLOCK FALSE
