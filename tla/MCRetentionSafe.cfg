SPECIFICATION Spec
CONSTANTS
  None = None
  Assets = {a1}
  Relays = {r1}
  Uploads = {u1}
  MinAssetAge = 1
  MinUnreferencedAge = 2
  MaxReclaimPerSweep = 1
  RemintInterval = 1
  MaxGen = 4
  MaxFaults = 2
  Horizon = 2
INVARIANTS
  ReferencedIsHeld
  AppliedIsHeld
  AdvertisedIsOnDisk
  UnnamedForTheWindow
  ReclaimsOnlyUnminted
CHECK_DEADLOCK FALSE
