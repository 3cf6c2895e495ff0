SPECIFICATION StreamFairSpec
CONSTANTS
  p1 = p1
  p2 = p2
  Producers = {p1, p2}
  Cap <- CapOfClass
  Shapes <- SomeShapes
  MaxId = 3
  Bindings = {"sse", "ws"}
INVARIANTS
  LossesAreKnown
  WireIsNews
  GapNamesReadable
PROPERTY CatchesUp
