SPECIFICATION Spec
CONSTANTS
  g1 = g1
  g2 = g2
  s1 = s1
  s2 = s2
  Grants = {g1, g2}
  Screen <- ScreenOfGrant
  connect = connect
  tick = tick
  Drains = {connect, tick}
  Ticker = tick
  Revocable = {}
  ShortLived = {}
  MaxRedemptions = 2
  MaxFaults = 0
INVARIANT
  RetiredByItsOwnAck
