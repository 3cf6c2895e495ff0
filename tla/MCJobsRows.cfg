\* By hand: two jobs over two rows, so that a target's failure is stepped past, without edits.
SPECIFICATION FairSpec
CONSTANTS
  Jobs = {1, 2}
  Rows = {1, 2}
  MaxEdits = 0
  MaxFaults = 1
  MaxStops = 1
INVARIANTS
  TypeOK
  RecordIsHonest
PROPERTY
  Settles
CHECK_DEADLOCK FALSE
