\* By hand, violated: a snapshot built after the lapse from a clock read before it.
SPECIFICATION Spec
CONSTANTS
  None = None
  Waiting = Waiting
  NoEntry = NoEntry
  Writers = {w1}
  Expiries = {1}
  RemintInterval = 2
  MaxTime = 1
  MaxGen = 7
  MaxWrites = 1
  MaxFaults = 0
INVARIANT LapseReachesScreen
