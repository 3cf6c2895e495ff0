\* By hand, violated: a pass prunes the state of an endpoint created since it listed them.
SPECIFICATION FairSpec
CONSTANTS
  p1 = p1
  Producers = {p1}
  Cap <- CapOfClass
  Shapes <- SomeShapes
  MaxId = 1
  MaxAttempts = 2
  MaxFailures = 1
  Secrets = 1
  MaxEnables = 0
  MaxFaults = 0
PROPERTY PrunesOnlyTheGone
CHECK_DEADLOCK FALSE
