SPECIFICATION Spec
CONSTANTS
  None = None
  Waiting = Waiting
  NoEntry = NoEntry
  Writers = {w1}
  Expiries = {2}
  RemintInterval = 2
  MaxTime = 2
  MaxGen = 7
  MaxWrites = 1
  MaxFaults = 1
INVARIANTS
  CurrentIsFresh
  ServesWhatItPersisted
  NoNudgeStorm
PROPERTY Convergence
