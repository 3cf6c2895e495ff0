SPECIFICATION FairSpec
CONSTANTS
  g1 = g1
  g2 = g2
  s1 = s1
  s2 = s2
  Grants = {g1, g2}
  Screen <- ScreenOfGrant
  connect = connect
  tick = tick
  Drains = {tick}
  Ticker = tick
  Revocable = {s1}
  ShortLived = {g2}
  MaxRedemptions = 2
  MaxFaults = 1
INVARIANTS
  AtMostOnce
  OwedUntilReported
  RevokedStaysOut
PROPERTIES
  RevocationIsEnforced
  RedeemedIsRetired
CHECK_DEADLOCK FALSE
