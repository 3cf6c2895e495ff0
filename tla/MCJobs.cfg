\* Two jobs over one row, an edit, a failed access and two stops anywhere.
SPECIFICATION FairSpec
CONSTANTS
  Jobs = {1, 2}
  Rows = {1}
  MaxEdits = 1
  MaxFaults = 1
  MaxStops = 2
INVARIANT
  RecordIsHonest
PROPERTY
  Settles
CHECK_DEADLOCK FALSE
