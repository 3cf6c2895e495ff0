\* By hand, violated: the windows in the ratios that are shipped, in units of 12 hours.
SPECIFICATION Spec
CONSTANTS
  None = None
  Assets = {a1}
  Relays = {}
  Uploads = {u1}
  MinAssetAge = 14
  MinUnreferencedAge = 2
  MaxReclaimPerSweep = 64
  RemintInterval = 1
  MaxGen = 24
  MaxFaults = 0
  Horizon = 20
INVARIANT GrowthEnds
CHECK_DEADLOCK FALSE
