SPECIFICATION FairSpec
CONSTANTS
  p1 = p1
  p2 = p2
  Producers = {p1,p2}
  Cap <- CapOfClass
  Shapes <- SomeShapes
  MaxId = 2
  MaxAttempts = 2
  MaxFailures = 1
  Secrets = 1
  MaxEnables = 1
  MaxFaults = 1
INVARIANTS
  NothingSkipped
  DisabledForCause
PROPERTIES
  SecretsDieWithTheirEndpoint
  DeliversOrDisables
CHECK_DEADLOCK FALSE
